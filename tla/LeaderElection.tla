--------------------------- MODULE LeaderElection ---------------------------
(***************************************************************************)
(* Leadership of the control-plane replicas: a SETNX lease in Redis with a *)
(* local deadline (distributed/leader.go), the campaign loop and shutdown  *)
(* of the control plane (service/control/controlplane.go), and the         *)
(* background loops that ask IsLeader.                                     *)
(*                                                                         *)
(* Each replica has one campaigning thread ("main"), the renewal           *)
(* goroutines that Campaign started, and callers of IsLeader.  A step is   *)
(* one Redis command, one atomic access or one critical section.  Times    *)
(* are kept as the time that is left.  A reply, with the thread that       *)
(* handles it, takes at most MaxDelay until the local deadline is set.     *)
(***************************************************************************)
EXTENDS Integers, FiniteSets

CONSTANTS
    Electors,     \* replicas
    Renewers,     \* renewal goroutines of a replica that may be alive at once
    Callers,      \* concurrent callers of IsLeader in a replica
    Tokens,       \* lease tokens of a replica, numbers; a fresh one per attempt
    TTL,          \* lease TTL of the Redis key
    Margin,       \* safety margin of the local deadline, TTL / 3
    MaxDelay,     \* bound on the delay of a reply
    Prompt,       \* no thread is suspended between two local steps for long
    Tolerance,    \* renewFailureTolerance
    MaxFaults     \* bound on crashes, failed and lost commands

ASSUME TokensAssumption == Tokens \subseteq Nat
ASSUME ThreadsAssumption == "main" \notin Renewers \cup Callers /\ Renewers \cap Callers = {}
ASSUME TimesAssumption ==
    /\ TTL \in Nat /\ Margin \in Nat /\ MaxDelay \in Nat
    /\ Margin < TTL
ASSUME BoundsAssumption == Prompt \in BOOLEAN /\ Tolerance \in Nat /\ MaxFaults \in Nat

VARIABLES
    key,       \* token the Redis key holds, or NoToken
    ttl,       \* time until the key expires
    token,     \* RedisLeaderElector.token
    leader,    \* isLeader
    deadline,  \* leaseDeadlineUnixNano; 0 when it is cleared or has passed
    note,      \* the latest value in the channel of Notify; TRUE asks nothing
    newest,    \* the renewer of the current renewGen, or NoRenewer
    stopRenew, \* the renewer the cancel func stops, or NoRenewer
    canceled,  \* renewers whose context is canceled
    failures,  \* consecutive failed attempts of a renewer
    pc,        \* what each thread does next
    tok,       \* the token a thread works with
    age,       \* time since the command whose reply a thread handles
    faults

redis == <<key, ttl>>
elector == <<token, leader, deadline, note, newest, stopRenew, canceled>>
threads == <<failures, pc, tok, age>>
vars == <<key, ttl, token, leader, deadline, note, newest, stopRenew, canceled,
          failures, pc, tok, age, faults>>

Threads == {"main"} \cup Renewers \cup Callers
NoToken == <<>>
NoRenewer == "none"
Token == (Electors \X Tokens) \cup {NoToken}
Local == TTL - Margin

PC == {"idle", "try", "sent", "swaptrue", "sendtrue", "start", "wait",
       "release", "down", "tick", "ok", "lost", "failed", "extend", "retry", "guard",
       "stop", "clear", "swap", "send"}

TypeOK ==
    /\ key \in Token /\ ttl \in 0..TTL
    /\ key = NoToken <=> ttl = 0
    /\ token \in [Electors -> Token]
    /\ leader \in [Electors -> BOOLEAN] /\ note \in [Electors -> BOOLEAN]
    /\ deadline \in [Electors -> 0..Local]
    /\ newest \in [Electors -> Renewers \cup {NoRenewer}]
    /\ stopRenew \in [Electors -> Renewers \cup {NoRenewer}]
    /\ canceled \in [Electors -> SUBSET Renewers]
    /\ failures \in [Electors -> [Renewers -> 0..Tolerance]]
    /\ pc \in [Electors -> [Threads -> PC]]
    /\ tok \in [Electors -> [Threads -> Token]]
    /\ age \in [Electors -> [Threads -> 0..MaxDelay]]
    /\ faults \in 0..MaxFaults

Start0 == [t \in Threads |-> IF t = "main" THEN "try" ELSE "idle"]

Init ==
    /\ key = NoToken /\ ttl = 0
    /\ token = [i \in Electors |-> NoToken]
    /\ leader = [i \in Electors |-> FALSE]
    /\ deadline = [i \in Electors |-> 0]
    /\ note = [i \in Electors |-> FALSE]
    /\ newest = [i \in Electors |-> NoRenewer]
    /\ stopRenew = [i \in Electors |-> NoRenewer]
    /\ canceled = [i \in Electors |-> {}]
    /\ failures = [i \in Electors |-> [g \in Renewers |-> 0]]
    /\ pc = [i \in Electors |-> Start0]
    /\ tok = [i \in Electors |-> [t \in Threads |-> NoToken]]
    /\ age = [i \in Electors |-> [t \in Threads |-> 0]]
    /\ faults = 0

Fault == faults < MaxFaults /\ faults' = faults + 1

\* Thread t of replica i, which is at from, goes on at to.
Goto(i, t, from, to) == pc[i][t] = from /\ pc' = [pc EXCEPT ![i][t] = to]

\* A reply is under way to these threads.
Waiting(i, t) == pc[i][t] \in {"sent", "ok", "extend"}

\* A thread that waits for time to pass, for a reply or to be woken.
AtRest(i, t) ==
    \/ pc[i][t] \in {"idle", "try", "sent", "wait", "down", "tick", "retry", "ok", "extend"}
    \/ pc[i][t] = "start" /\ \A g \in Renewers : pc[i][g] # "idle"

Tick ==
    /\ Prompt => \A i \in Electors, t \in Threads : AtRest(i, t)
    /\ ttl > 0 \/ \E i \in Electors : deadline[i] > 0
    /\ \A i \in Electors, t \in Threads : Waiting(i, t) => age[i][t] < MaxDelay
    /\ ttl' = IF ttl > 0 THEN ttl - 1 ELSE 0
    /\ key' = IF ttl > 1 THEN key ELSE NoToken
    /\ deadline' = [i \in Electors |-> IF deadline[i] > 0 THEN deadline[i] - 1 ELSE 0]
    /\ age' = [i \in Electors |-> [t \in Threads |->
                  IF Waiting(i, t) THEN age[i][t] + 1 ELSE age[i][t]]]
    /\ UNCHANGED <<token, leader, note, newest, stopRenew, canceled, failures, pc, tok, faults>>

-----------------------------------------------------------------------------
(* Campaign, called by runLeaderCampaign.                                  *)

\* randomToken: one that nothing in the replica refers to.
Unused(i) == {k \in Tokens : <<i, k>> \notin {token[i]} \cup {tok[i][t] : t \in Threads}}

SetNX(i) ==
    \E k \in Unused(i) :
        /\ \A m \in Unused(i) : k <= m
        /\ key = NoToken
        /\ key' = <<i, k>> /\ ttl' = TTL

\* tryAcquire wins the key; as long as it is taken it asks again.
TryAcquire(i) ==
    /\ Goto(i, "main", "try", "sent")
    /\ SetNX(i)
    /\ tok' = [tok EXCEPT ![i]["main"] = key']
    /\ age' = [age EXCEPT ![i]["main"] = 0]
    /\ UNCHANGED <<elector, failures, faults>>

\* The command succeeds and its reply is lost: Campaign fails and is retried.
TryLost(i) ==
    /\ Fault
    /\ pc[i]["main"] = "try"
    /\ SetNX(i)
    /\ UNCHANGED <<elector, threads>>

\* The token is stored and the local deadline set from the time of the reply.
Acquired(i) ==
    /\ Goto(i, "main", "sent", "swaptrue")
    /\ token' = [token EXCEPT ![i] = tok[i]["main"]]
    /\ deadline' = [deadline EXCEPT ![i] = Local]
    /\ tok' = [tok EXCEPT ![i]["main"] = NoToken]
    /\ age' = [age EXCEPT ![i]["main"] = 0]
    /\ UNCHANGED <<redis, leader, note, newest, stopRenew, canceled, failures, faults>>

\* setLeader(true): the swap, then the notification if it was a change.
SwapTrue(i) ==
    /\ Goto(i, "main", "swaptrue", IF leader[i] THEN "start" ELSE "sendtrue")
    /\ leader' = [leader EXCEPT ![i] = TRUE]
    /\ UNCHANGED <<redis, token, deadline, note, newest, stopRenew, canceled, failures, tok, age, faults>>

SendTrue(i) ==
    /\ Goto(i, "main", "sendtrue", "start")
    /\ note' = [note EXCEPT ![i] = TRUE]
    /\ UNCHANGED <<redis, token, leader, deadline, newest, stopRenew, canceled, failures, tok, age, faults>>

\* startRenewal cancels the previous renewer and launches one of the next
\* generation.
StartRenewal(i) ==
    \E g \in Renewers :
        /\ pc[i]["main"] = "start" /\ pc[i][g] = "idle"
        /\ pc' = [pc EXCEPT ![i]["main"] = "wait", ![i][g] = "tick"]
        /\ tok' = [tok EXCEPT ![i][g] = token[i]]
        /\ failures' = [failures EXCEPT ![i][g] = 0]
        /\ newest' = [newest EXCEPT ![i] = g]
        /\ stopRenew' = [stopRenew EXCEPT ![i] = g]
        /\ canceled' = [canceled EXCEPT ![i] = (@ \cup ({stopRenew[i]} \cap Renewers)) \ {g}]
        /\ UNCHANGED <<redis, token, leader, deadline, note, age, faults>>

\* runLeaderCampaign reads a lost leadership and campaigns again.
Recampaign(i) ==
    /\ Goto(i, "main", "wait", "try")
    /\ ~note[i]
    /\ note' = [note EXCEPT ![i] = TRUE]
    /\ UNCHANGED <<redis, token, leader, deadline, newest, stopRenew, canceled, failures, tok, age, faults>>

-----------------------------------------------------------------------------
(* The renewal goroutine.                                                  *)

\* leaderRenewScript extends the key if it still holds the token.
Held(i, g) == key # NoToken /\ key = tok[i][g]
Extended(i, g) == ttl' = IF Held(i, g) THEN TTL ELSE ttl

\* Faulty: the key is extended whoever holds it.
RenewAnyones(i, g) ==
    /\ pc[i][g] \in {"tick", "retry"}
    /\ key # NoToken
    /\ ttl' = TTL
    /\ pc' = [pc EXCEPT ![i][g] = "ok"]
    /\ age' = [age EXCEPT ![i][g] = 0]
    /\ UNCHANGED <<key, elector, failures, tok, faults>>

Renew(i, g) ==
    /\ pc[i][g] \in {"tick", "retry"}
    /\ Extended(i, g)
    /\ pc' = [pc EXCEPT ![i][g] = IF Held(i, g) THEN "ok" ELSE "lost"]
    /\ age' = [age EXCEPT ![i][g] = 0]
    /\ UNCHANGED <<key, elector, failures, tok, faults>>

\* The attempt fails, executed or not.
RenewFails(i, g) ==
    /\ Fault
    /\ pc[i][g] \in {"tick", "retry"}
    /\ Extended(i, g) \/ UNCHANGED ttl
    /\ pc' = [pc EXCEPT ![i][g] = "failed"]
    /\ UNCHANGED <<key, elector, failures, tok, age>>

\* It is retried while the tolerance and the local deadline last
\* (renewFailuresExhausted, waitRenewRetry).
Retry(i, g) ==
    /\ Goto(i, g, "failed", IF failures[i][g] + 1 >= Tolerance \/ deadline[i] = 0 THEN "guard" ELSE "retry")
    /\ g \notin canceled[i]
    /\ failures' = [failures EXCEPT ![i][g] = IF @ + 1 >= Tolerance THEN 0 ELSE @ + 1]
    /\ UNCHANGED <<redis, elector, tok, age, faults>>

\* waitRenewRetry wakes at the local deadline.
RetryTimesOut(i, g) ==
    /\ Goto(i, g, "retry", "guard")
    /\ g \notin canceled[i]
    /\ deadline[i] = 0
    /\ UNCHANGED <<redis, elector, failures, tok, age, faults>>

\* The reply is looked at.
Reply(i, g) ==
    /\ g \notin canceled[i]
    /\ Goto(i, g, "ok", "extend") \/ Goto(i, g, "lost", "guard")
    /\ UNCHANGED <<redis, elector, failures, tok, age, faults>>

\* A canceled renewer leaves without a word.
Canceled(i, g) ==
    /\ g \in canceled[i]
    /\ pc[i][g] \in {"tick", "retry", "ok", "lost", "failed"}
    /\ pc' = [pc EXCEPT ![i][g] = "idle"]
    /\ tok' = [tok EXCEPT ![i][g] = NoToken]
    /\ age' = [age EXCEPT ![i][g] = 0]
    /\ failures' = [failures EXCEPT ![i][g] = 0]
    /\ canceled' = [canceled EXCEPT ![i] = @ \ {g}]
    /\ UNCHANGED <<redis, token, leader, deadline, note, newest, stopRenew, faults>>

\* Faulty: the deadline is that of the key, without the margin.
ExtendFully(i, g) ==
    /\ Goto(i, g, "extend", "tick")
    /\ deadline' = [deadline EXCEPT ![i] = TTL]
    /\ age' = [age EXCEPT ![i][g] = 0]
    /\ failures' = [failures EXCEPT ![i][g] = 0]
    /\ UNCHANGED <<redis, token, leader, note, newest, stopRenew, canceled, tok, faults>>

\* extendLocalDeadline.
Extend(i, g) ==
    /\ Goto(i, g, "extend", "tick")
    /\ deadline' = [deadline EXCEPT ![i] = Local]
    /\ age' = [age EXCEPT ![i][g] = 0]
    /\ failures' = [failures EXCEPT ![i][g] = 0]
    /\ UNCHANGED <<redis, token, leader, note, newest, stopRenew, canceled, tok, faults>>

\* Faulty: whatever the generation, the cancel func is dropped.
FinishAnyones(i, g) ==
    /\ Goto(i, g, "guard", "clear")
    /\ stopRenew' = [stopRenew EXCEPT ![i] = NoRenewer]
    /\ tok' = [tok EXCEPT ![i][g] = NoToken]
    /\ failures' = [failures EXCEPT ![i][g] = 0]
    /\ canceled' = [canceled EXCEPT ![i] = @ \ {g}]
    /\ UNCHANGED <<redis, token, leader, deadline, note, newest, age, faults>>

\* finishRenewal: only the current generation reports the loss.
FinishRenewal(i, g) ==
    /\ Goto(i, g, "guard", IF newest[i] = g THEN "clear" ELSE "idle")
    /\ stopRenew' = [stopRenew EXCEPT ![i] = IF newest[i] = g THEN NoRenewer ELSE @]
    /\ tok' = [tok EXCEPT ![i][g] = NoToken]
    /\ failures' = [failures EXCEPT ![i][g] = 0]
    /\ canceled' = [canceled EXCEPT ![i] = @ \ {g}]
    /\ UNCHANGED <<redis, token, leader, deadline, note, newest, age, faults>>

-----------------------------------------------------------------------------
(* IsLeader, and Resign during shutdown.                                   *)

\* stopRenewal.
Stopped(i) ==
    /\ canceled' = [canceled EXCEPT ![i] = @ \cup ({stopRenew[i]} \cap Renewers)]
    /\ stopRenew' = [stopRenew EXCEPT ![i] = NoRenewer]

\* IsLeader finds the local deadline passed and is about to give up.
Ask(i, q) ==
    /\ Goto(i, q, "idle", "stop")
    /\ leader[i] /\ deadline[i] = 0
    /\ UNCHANGED <<redis, elector, failures, tok, age, faults>>

StopRenewal(i, q) ==
    /\ Goto(i, q, "stop", "clear")
    /\ Stopped(i)
    /\ UNCHANGED <<redis, token, leader, deadline, note, newest, failures, tok, age, faults>>

\* Shutdown has stopped the loops; Resign stops the renewal.
Resign(i) ==
    /\ pc[i]["main"] \in {"try", "wait"}
    /\ pc' = [pc EXCEPT ![i]["main"] = IF leader[i] THEN "release" ELSE "down"]
    /\ Stopped(i)
    /\ deadline' = [deadline EXCEPT ![i] = IF leader[i] THEN @ ELSE 0]
    /\ UNCHANGED <<redis, token, leader, note, newest, failures, tok, age, faults>>

\* leaderReleaseScript deletes the key if it holds the token, unless it fails.
Release(i) ==
    /\ Goto(i, "main", "release", "clear")
    /\ \/ /\ key' = IF key = token[i] THEN NoToken ELSE key
          /\ ttl' = IF key = token[i] THEN 0 ELSE ttl
          /\ UNCHANGED faults
       \/ Fault /\ UNCHANGED redis
    /\ UNCHANGED <<elector, failures, tok, age>>

\* clearLocalDeadline and setLeader(false), by whoever gives up.
End(t) == IF t = "main" THEN "down" ELSE "idle"

Clear(i, t) ==
    /\ Goto(i, t, "clear", "swap")
    /\ deadline' = [deadline EXCEPT ![i] = 0]
    /\ UNCHANGED <<redis, token, leader, note, newest, stopRenew, canceled, failures, tok, age, faults>>

\* Faulty: the loss is not notified.
SwapFalseSilently(i, t) ==
    /\ Goto(i, t, "swap", End(t))
    /\ leader' = [leader EXCEPT ![i] = FALSE]
    /\ UNCHANGED <<redis, token, deadline, note, newest, stopRenew, canceled, failures, tok, age, faults>>

SwapFalse(i, t) ==
    /\ Goto(i, t, "swap", IF leader[i] THEN "send" ELSE End(t))
    /\ leader' = [leader EXCEPT ![i] = FALSE]
    /\ UNCHANGED <<redis, token, deadline, note, newest, stopRenew, canceled, failures, tok, age, faults>>

SendFalse(i, t) ==
    /\ Goto(i, t, "send", End(t))
    /\ note' = [note EXCEPT ![i] = FALSE]
    /\ UNCHANGED <<redis, token, leader, deadline, newest, stopRenew, canceled, failures, tok, age, faults>>

\* A replica dies, or one that was shut down starts again.
Restart(i) ==
    /\ Fault
    /\ token' = [token EXCEPT ![i] = NoToken]
    /\ leader' = [leader EXCEPT ![i] = FALSE] /\ note' = [note EXCEPT ![i] = FALSE]
    /\ deadline' = [deadline EXCEPT ![i] = 0]
    /\ newest' = [newest EXCEPT ![i] = NoRenewer]
    /\ stopRenew' = [stopRenew EXCEPT ![i] = NoRenewer]
    /\ canceled' = [canceled EXCEPT ![i] = {}]
    /\ failures' = [failures EXCEPT ![i] = [g \in Renewers |-> 0]]
    /\ pc' = [pc EXCEPT ![i] = Start0]
    /\ tok' = [tok EXCEPT ![i] = [t \in Threads |-> NoToken]]
    /\ age' = [age EXCEPT ![i] = [t \in Threads |-> 0]]
    /\ UNCHANGED redis

-----------------------------------------------------------------------------
Campaign(i) == TryAcquire(i) \/ Acquired(i) \/ SwapTrue(i) \/ SendTrue(i)
               \/ StartRenewal(i) \/ Recampaign(i)
Renewal(i, g) == Renew(i, g) \/ Retry(i, g) \/ RetryTimesOut(i, g) \/ Reply(i, g) \/ Canceled(i, g)
                 \/ Extend(i, g) \/ FinishRenewal(i, g)
IsLeader(i, q) == Ask(i, q) \/ StopRenewal(i, q)
GiveUp(i, t) == Clear(i, t) \/ SwapFalse(i, t) \/ SendFalse(i, t)

Next ==
    \/ Tick
    \/ \E i \in Electors :
          \/ Campaign(i) \/ TryLost(i) \/ Resign(i) \/ Release(i) \/ Restart(i)
          \/ \E g \in Renewers : Renewal(i, g) \/ RenewFails(i, g)
          \/ \E q \in Callers : IsLeader(i, q)
          \/ \E t \in Threads : GiveUp(i, t)

Spec == Init /\ [][Next]_vars

\* Time passes and every thread of a running replica goes on; nobody has to
\* shut down.
FairSpec ==
    /\ Spec
    /\ WF_vars(Tick)
    /\ \A i \in Electors :
          /\ WF_vars(Campaign(i)) /\ WF_vars(Release(i))
          /\ \A g \in Renewers : WF_vars(Renewal(i, g))
          /\ \A q \in Callers : WF_vars(IsLeader(i, q))
          /\ \A t \in Threads : WF_vars(GiveUp(i, t))

-----------------------------------------------------------------------------
(* Properties.                                                             *)

\* The replica has not begun to shut down.
Running(i) == pc[i]["main"] \notin {"release", "clear", "swap", "send", "down"}

\* IsLeader answers true, and the loops it gates have not been shut down.
Rules(i) == leader[i] /\ deadline[i] > 0 /\ Running(i)

\* At most one replica rules, whoever crashed, resigned or renews late, if no
\* reply is delayed by more than the margin (extendLocalDeadline): "so only
\* one replica assigns/fences activations at a time" (runEntryReconciler).
OneLeader == \A i, j \in Electors : Rules(i) /\ Rules(j) => i = j

\* A renewer that goes on renewing can be stopped: a superseded one never
\* drops the cancel func of its successor (startRenewal, finishRenewal).
RenewalIsStoppable ==
    \A i \in Electors, g \in Renewers :
        pc[i][g] \in {"tick", "retry", "ok", "lost", "failed", "extend"} /\ g \notin canceled[i] => stopRenew[i] = g

\* A lost leadership is taken up again, by the replica that lost it or by
\* another one, as long as some replica runs on and no replica runs a
\* finishRenewal, IsLeader or Campaign that changes isLeader beside another.
Alone ==
    \A i \in Electors : \A t, u \in Threads :
        pc[i][t] \in {"stop", "clear", "swap", "send"} /\ t # u =>
            pc[i][u] \notin {"sent", "swaptrue", "sendtrue", "start", "guard", "stop", "clear", "swap", "send"}
LeadershipReturnsUnraced ==
    []Alone /\ (\E i \in Electors : <>[]Running(i))
        => []<>(\E i \in Electors : leader[i] /\ deadline[i] > 0)

\* The campaign loop never sleeps through a loss: while it waits on Notify the
\* replica leads, or the loss is in the channel, or a thread that is in
\* setLeader(false) has yet to send it.  The channel keeps one value only, so
\* a notification of the wrong order would be overwritten for good.
LossIsHeard ==
    \A i \in Electors :
        pc[i]["main"] = "wait" => leader[i] \/ ~note[i] \/ \E t \in Threads : pc[i][t] = "send"

\* A lost leadership is taken up again as long as some replica runs on: "at
\* most one TTL window of skipped sweeps occurs before the next replica takes
\* over" (IsLeader, leader.go:305).
LeadershipReturns ==
    (\E i \in Electors : <>[]Running(i))
        => []<>(\E i \in Electors : leader[i] /\ deadline[i] > 0)
=============================================================================
