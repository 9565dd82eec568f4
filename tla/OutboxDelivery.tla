--------------------------- MODULE OutboxDelivery ---------------------------
(***************************************************************************)
(* Delivery of the durable task intents of one execution: the claim with   *)
(* its lease, the handoff to the queue, acknowledgement, backpressure,     *)
(* failure and dead-lettering, and the operator's replay                   *)
(* (engine/atomic.go FlushOutbox, engine/outbox_lease.go,                  *)
(* rstate/state_outbox.go, rstate/atomic_state.go, local/atomic_state.go). *)
(*                                                                         *)
(* Every server flushes: the deliverers are concurrent flushes of this     *)
(* execution in any process.  Each store operation is one script (or one   *)
(* critical section of the in-memory store) and one action.  Times are     *)
(* kept as the time that is left; Tick counts them down.  The node an      *)
(* intent is for belongs to the scheduling; a replay meets it in any       *)
(* state.                                                                  *)
(***************************************************************************)
EXTENDS Integers, FiniteSets

CONSTANTS
    Entries,      \* outbox entry IDs; an ID is appended once
    Deliverers,
    Requests,     \* replay RequestIDs
    Sources,      \* the intents that occur, of Intents
    Backend,      \* "redis" or "memory"
    TTL,          \* OutboxDeliveryLeaseTTL
    MaxAttempts,  \* outboxMaxDeliveryAttempt
    MaxFaults     \* bound on crashes and failed store calls

Intents == {"root", "retry", "requeue", "resume", "execute", "skip", "advance", "mergecancel"}

ASSUME SourcesAssumption == Sources \subseteq Intents
ASSUME BackendAssumption == Backend \in {"redis", "memory"}
ASSUME TTLAssumption == TTL \in Nat \ {0}
ASSUME MaxAttemptsAssumption == MaxAttempts \in Nat \ {0}
ASSUME MaxFaultsAssumption == MaxFaults \in Nat

VARIABLES
    put,        \* entries appended so far
    body,       \* outbox:body, the intents themselves
    ready,      \* outbox:ready, the time until an entry is visible; or None
    attempts,   \* outbox:attempts
    dead,       \* outbox:dead and outbox:dead:body
    intent,     \* the source of an intent, the prefix of its ID
    status,     \* execution status
    receipts,   \* replay receipts: the outcome stored under a RequestID
    replayedBy, \* replay:entryidx, the RequestID that moved the entry, or "none"
    pc, cur,    \* what each flush does next, and the entry it is working on
    held,       \* the entries of its batch a flush has yet to settle
    keep,       \* outboxLeaseKeeper.held
    deadline,   \* the lease deadline the keeper presents
    outcome,    \* ghost: "sent" once the intent reached the queue or handler
    failures,   \* ghost: failed handoffs, less MaxAttempts for every dead-lettering
    stale,      \* ghost: someone settled an entry another deliverer held
    faults

store == <<put, body, ready, attempts, dead, intent, status, receipts, replayedBy>>
flush == <<pc, cur, held, keep, deadline>>
ghost == <<outcome, failures, stale, faults>>
vars == <<put, body, ready, attempts, dead, intent, status, receipts, replayedBy,
          pc, cur, held, keep, deadline, outcome, failures, stale, faults>>

None == -1
Nothing == "none"
System == {"skip", "advance", "mergecancel"}   \* handled inside the flush, never queued
Rejections == {"rejected_terminal", "rejected_inactive", "rejected_node_terminal",
               "rejected_activation_mismatch", "rejected_metadata_missing"}

TypeOK ==
    /\ put \subseteq Entries /\ body \subseteq put /\ dead \subseteq put
    /\ ready \in [Entries -> 0..TTL \cup {None}]
    /\ attempts \in [Entries -> 0..(MaxAttempts - 1)]
    /\ intent \in [Entries -> Sources]
    /\ status \in {"running", "paused", "ended", "gone"}
    /\ receipts \in [Requests -> Rejections \cup {"replayed", Nothing}]
    /\ replayedBy \in [Entries -> Requests \cup {Nothing}]
    /\ pc \in [Deliverers -> {"idle", "deliver", "ack", "release", "record", "forget"}]
    /\ cur \in [Deliverers -> Entries \cup {Nothing}]
    /\ held \in [Deliverers -> SUBSET Entries] /\ keep \in [Deliverers -> SUBSET Entries]
    /\ deadline \in [Deliverers -> [Entries -> 0..TTL]]
    /\ outcome \in [Entries -> {Nothing, "sent", "dropped"}]
    /\ failures \in [Entries -> Int]
    /\ stale \in BOOLEAN
    /\ faults \in 0..MaxFaults

Init ==
    /\ put = {} /\ body = {} /\ dead = {}
    /\ ready = [e \in Entries |-> None]
    /\ attempts = [e \in Entries |-> 0]
    /\ intent \in [Entries -> Sources]
    /\ status = "running"
    /\ receipts = [r \in Requests |-> Nothing]
    /\ replayedBy = [e \in Entries |-> Nothing]
    /\ pc = [d \in Deliverers |-> "idle"]
    /\ cur = [d \in Deliverers |-> Nothing]
    /\ held = [d \in Deliverers |-> {}] /\ keep = [d \in Deliverers |-> {}]
    /\ deadline = [d \in Deliverers |-> [e \in Entries |-> 0]]
    /\ outcome = [e \in Entries |-> Nothing]
    /\ failures = [e \in Entries |-> 0]
    /\ stale = FALSE
    /\ faults = 0

\* Flush d, which is at from, goes on at to.
Goto(d, from, to) == pc[d] = from /\ pc' = [pc EXCEPT ![d] = to]

Put(e) ==
    /\ e \notin put
    /\ put' = put \cup {e}
    /\ body' = body \cup {e}
    /\ ready' = [ready EXCEPT ![e] = 0]
    /\ UNCHANGED <<attempts, dead, intent, status, receipts, replayedBy, flush, ghost>>

\* Pause, resume, the end (canceling or terminal), the expiry of the status key.
SetStatus(s) ==
    /\ <<status, s>> \in {<<"running", "paused">>, <<"paused", "running">>,
                          <<"running", "ended">>, <<"paused", "ended">>,
                          <<"ended", "gone">>}
    /\ status' = s
    /\ UNCHANGED <<put, body, ready, attempts, dead, intent, receipts, replayedBy, flush, ghost>>

Tick ==
    LET Down(t) == IF t > 0 THEN t - 1 ELSE t IN
    /\ \E e \in Entries : ready[e] > 0 \/ \E d \in Deliverers : deadline[d][e] > 0
    /\ ready' = [e \in Entries |-> Down(ready[e])]
    /\ deadline' = [d \in Deliverers |-> [e \in Entries |-> Down(deadline[d][e])]]
    /\ UNCHANGED <<put, body, attempts, dead, intent, status, receipts, replayedBy,
                   pc, cur, held, keep, ghost>>

Fault == faults < MaxFaults /\ faults' = faults + 1

-----------------------------------------------------------------------------
(* FlushOutbox.                                                            *)

\* Nothing of a paused execution is ready.
Due == IF status = "paused" THEN {} ELSE {e \in body : ready[e] = 0}

Claimed(d) ==
    /\ Goto(d, "idle", "deliver")
    /\ held' = [held EXCEPT ![d] = Due] /\ keep' = [keep EXCEPT ![d] = Due]
    /\ deadline' = [deadline EXCEPT ![d] = [e \in Entries |-> IF e \in Due THEN TTL ELSE @[e]]]

\* Faulty: the claim takes the entries out instead of hiding them.
LeaseOutboxPops(d) ==
    /\ Due # {}
    /\ Claimed(d)
    /\ body' = body \ Due
    /\ ready' = [e \in Entries |-> IF e \in Due THEN None ELSE ready[e]]
    /\ UNCHANGED <<put, attempts, dead, intent, status, receipts, replayedBy, cur, ghost>>

\* claimOutbox: every due entry is hidden for TTL and handed to this flush.
LeaseOutbox(d) ==
    /\ Due # {}
    /\ Claimed(d)
    /\ ready' = [e \in Entries |-> IF e \in Due THEN TTL ELSE ready[e]]
    /\ UNCHANGED <<put, body, attempts, dead, intent, status, receipts, replayedBy, cur, ghost>>

\* The queue accepts the task, or the system task is handled; an inactive
\* execution cannot consume a system task, which is settled undelivered.
Handoff(d, e) ==
    /\ Goto(d, "deliver", "ack")
    /\ e \in held[d]
    /\ cur' = [cur EXCEPT ![d] = e]
    /\ \/ outcome' = [outcome EXCEPT ![e] = "sent"]
       \/ /\ intent[e] \in System /\ status \in {"ended", "gone"}
          /\ outcome' = [outcome EXCEPT ![e] = IF @ = "sent" THEN @ ELSE "dropped"]
    /\ UNCHANGED <<store, held, keep, deadline, failures, stale, faults>>

\* An acknowledgement is idempotent and not fenced by the lease.
AckOutbox(d) ==
    LET e == cur[d] IN
    /\ Goto(d, "ack", "forget")
    /\ body' = body \ {e}
    /\ ready' = [ready EXCEPT ![e] = None]
    /\ attempts' = [attempts EXCEPT ![e] = 0]
    /\ UNCHANGED <<put, dead, intent, status, receipts, replayedBy, cur, held, keep, deadline, ghost>>

\* keeper.forget, and on to the next entry of the batch.
Forget(d) ==
    /\ Goto(d, "forget", "deliver")
    /\ held' = [held EXCEPT ![d] = @ \ {cur[d]}]
    /\ keep' = [keep EXCEPT ![d] = @ \ {cur[d]}]
    /\ deadline' = [deadline EXCEPT ![d][cur[d]] = 0]
    /\ cur' = [cur EXCEPT ![d] = Nothing]
    /\ UNCHANGED <<store, ghost>>

\* d has claimed e, its lease runs, and it has neither settled nor released e.
Holds(d, e) ==
    e \in held[d] /\ deadline[d][e] > 0 /\ ~(pc[d] \in {"record", "forget"} /\ cur[d] = e)

\* d changes the visibility of an entry that another deliverer holds.
Disturbs(d, e) == e \in body /\ \E c \in Deliverers \ {d} : Holds(c, e)

\* Faulty: the entry is made visible again without looking for its body.
ReleaseOutboxBlind(d, e) ==
    /\ ready' = [ready EXCEPT ![e] = 0]
    /\ stale' = (stale \/ Disturbs(d, e))
    /\ UNCHANGED faults

\* ReleaseOutbox restores the visibility the entry had before the claim; like
\* the acknowledgement it is not fenced by the lease.  A failed call is only
\* reported.
ReleaseOutbox(d, e) ==
    \/ /\ ready' = [ready EXCEPT ![e] = IF e \in body THEN 0 ELSE @]
       /\ stale' = (stale \/ Disturbs(d, e))
       /\ UNCHANGED faults
    \/ Fault /\ UNCHANGED <<ready, stale>>

\* Faulty: a full queue is recorded as a failed delivery.
QueueFullCounts(d) ==
    /\ Goto(d, "deliver", "record")
    /\ \E e \in held[d] : intent[e] \notin System /\ cur' = [cur EXCEPT ![d] = e]
    /\ UNCHANGED <<store, held, keep, deadline, ghost>>

\* ErrQueueFull: the rest of the batch is given back, no attempt is counted.
QueueFull(d) ==
    /\ Goto(d, "deliver", "release")
    /\ \E e \in held[d] : intent[e] \notin System
    /\ UNCHANGED <<store, cur, held, keep, deadline, ghost>>

GiveBack(d, e) ==
    /\ pc[d] = "release" /\ e \in held[d]
    /\ ReleaseOutbox(d, e)
    /\ held' = [held EXCEPT ![d] = @ \ {e}]
    /\ keep' = [keep EXCEPT ![d] = @ \ {e}]
    /\ deadline' = [deadline EXCEPT ![d][e] = 0]
    /\ UNCHANGED <<put, body, attempts, dead, intent, status, receipts, replayedBy,
                   pc, cur, outcome, failures>>

\* Another handoff error: recordOutboxDeliveryFailure releases, then records.
HandoffFails(d, e) ==
    /\ Goto(d, "deliver", "record")
    /\ e \in held[d]
    /\ cur' = [cur EXCEPT ![d] = e]
    /\ failures' = [failures EXCEPT ![e] = @ + 1]
    /\ ReleaseOutbox(d, e)
    /\ UNCHANGED <<put, body, attempts, dead, intent, status, receipts, replayedBy,
                   held, keep, deadline, outcome>>

\* Faulty: the count starts over and the entry is never given up.
RecordOutboxFailureForever(d) ==
    LET e == cur[d] IN
    /\ Goto(d, "record", "forget")
    /\ attempts' = [attempts EXCEPT ![e] = 0]
    /\ failures' = [failures EXCEPT ![e] = 0]
    /\ UNCHANGED <<put, body, ready, dead, intent, status, receipts, replayedBy,
                   cur, held, keep, deadline, outcome, stale, faults>>

\* Faulty: one attempt more than the limit.
RecordOutboxFailureLate(d) ==
    LET e == cur[d] IN
    /\ Goto(d, "record", "forget")
    /\ attempts' = [attempts EXCEPT ![e] = @ + 1]
    /\ UNCHANGED <<put, body, ready, dead, intent, status, receipts, replayedBy,
                   cur, held, keep, deadline, ghost>>

\* Faulty: an acknowledged entry is dead-lettered too.
RecordOutboxFailureBlind(d) ==
    LET e == cur[d] IN
    /\ Goto(d, "record", "forget")
    /\ dead' = dead \cup {e}
    /\ body' = body \ {e}
    /\ ready' = [ready EXCEPT ![e] = None]
    /\ UNCHANGED <<put, attempts, intent, status, receipts, replayedBy, cur, held, keep,
                   deadline, ghost>>

\* The attempt is counted while the body is there; at the limit the entry moves
\* to the dead letters and may be replayed anew.
RecordOutboxFailure(d) ==
    LET e == cur[d] IN
    /\ Goto(d, "record", "forget")
    /\ \/ /\ e \in body /\ attempts[e] + 1 >= MaxAttempts
          /\ body' = body \ {e}
          /\ ready' = [ready EXCEPT ![e] = None]
          /\ attempts' = [attempts EXCEPT ![e] = 0]
          /\ dead' = dead \cup {e}
          /\ replayedBy' = [replayedBy EXCEPT ![e] = Nothing]
          /\ stale' = (stale \/ Disturbs(d, e))
          /\ failures' = [failures EXCEPT ![e] = @ - MaxAttempts]
          /\ UNCHANGED faults
       \/ /\ e \in body /\ attempts[e] + 1 < MaxAttempts
          /\ attempts' = [attempts EXCEPT ![e] = @ + 1]
          /\ UNCHANGED <<body, ready, dead, replayedBy, stale, failures, faults>>
       \/ /\ (e \notin body /\ UNCHANGED faults) \/ Fault
          /\ UNCHANGED <<body, ready, attempts, dead, replayedBy, stale, failures>>
    /\ UNCHANGED <<put, intent, status, receipts, cur, held, keep, deadline, outcome>>

\* The batch is settled; the flush claims again or returns, the keeper stops.
Return(d) ==
    /\ held[d] = {}
    /\ pc[d] \in {"deliver", "release"}
    /\ pc' = [pc EXCEPT ![d] = "idle"]
    /\ keep' = [keep EXCEPT ![d] = {}]
    /\ UNCHANGED <<store, cur, held, deadline, ghost>>

-----------------------------------------------------------------------------
(* outboxLeaseKeeper.renewOnce with RenewOutbox.                           *)

\* The store still shows e hidden until the deadline d presents.
Owned(d, e) == e \in body /\ ready[e] > 0 /\ ready[e] = deadline[d][e]

Renewed(d, granted, told) ==
    /\ pc[d] # "idle" /\ keep[d] # {}
    /\ ready' = [e \in Entries |-> IF e \in granted THEN TTL ELSE ready[e]]
    /\ keep' = [keep EXCEPT ![d] = told]
    /\ deadline' = [deadline EXCEPT ![d] = [e \in Entries |-> IF e \in told THEN TTL ELSE @[e]]]
    /\ UNCHANGED <<put, body, attempts, dead, intent, status, receipts, replayedBy,
                   pc, cur, held, ghost>>

\* Faulty: any entry that is still there is renewed, whoever holds it.
RenewOutboxAny(d) == Renewed(d, keep[d] \cap body, keep[d] \cap body)

\* Redis reports only how many leases it extended: unless that is all of them
\* the keeper takes the whole batch for lost.
RenewOutbox(d) ==
    LET granted == {e \in keep[d] : Owned(d, e)} IN
    Renewed(d, granted, IF Backend = "redis" /\ granted # keep[d] THEN {} ELSE granted)

-----------------------------------------------------------------------------
(* ReplayDeadLetter, for a node in state ns whose current activation is    *)
(* the entry's own ("same"), another or not recorded; "legacy" stands for  *)
(* an entry without the metadata that names node and activation.           *)

NodeStates == {"absent", "pending", "running", "suspended", "terminal"}
Activations == {"same", "other", "missing", "legacy"}

\* Intents whose source node is terminal by the commit that wrote them.
OfTerminal == {"advance", "mergecancel"}

Allows(i, ns) ==
    CASE i \in {"root", "execute", "skip"} -> ns \in {"absent", "pending", "running"}
      [] i \in {"retry", "requeue"} -> ns \in {"pending", "running"}
      [] i = "resume" -> ns \in {"pending", "suspended"}
      [] i \in OfTerminal -> ns = "terminal"

\* The guard on the node, once the execution is found running.
NodeVerdict(e, ns, act) ==
    CASE ~Allows(intent[e], ns) ->
             IF intent[e] \notin OfTerminal /\ ns = "terminal" THEN "rejected_node_terminal"
             ELSE "rejected_metadata_missing"
      [] Allows(intent[e], ns) /\ ns = "absent" -> "replayed"
      [] Allows(intent[e], ns) /\ ns # "absent" /\ act = "same" -> "replayed"
      [] Allows(intent[e], ns) /\ ns # "absent" /\ act = "other" ->
             "rejected_activation_mismatch"
      [] Allows(intent[e], ns) /\ ns # "absent" /\ act = "missing" ->
             IF Backend = "redis" THEN "rejected_metadata_missing"
             ELSE "rejected_activation_mismatch"

Verdict(e, ns, act) ==
    IF act = "legacy" THEN "rejected_metadata_missing"
    ELSE CASE status = "gone" -> "rejected_inactive"
           [] status \in {"paused", "ended"} -> "rejected_terminal"
           [] status = "running" -> NodeVerdict(e, ns, act)

\* The receipt is written with the decision, the entry moved with "replayed".
Decide(r, e, v) ==
    /\ receipts' = [receipts EXCEPT ![r] = v]
    /\ IF v = "replayed"
       THEN /\ dead' = dead \ {e}
            /\ body' = body \cup {e}
            /\ ready' = [ready EXCEPT ![e] = 0]
            /\ attempts' = [attempts EXCEPT ![e] = 0]
            /\ replayedBy' = [replayedBy EXCEPT ![e] = r]
       ELSE UNCHANGED <<dead, body, ready, attempts, replayedBy>>
    /\ UNCHANGED <<put, intent, status, flush, ghost>>

\* Faulty: a RequestID that has its answer decides again.
ReplayDeadLetterAnew(r, e, ns, act) ==
    /\ e \in dead
    /\ Decide(r, e, Verdict(e, ns, act))

\* A receipt under the RequestID, or a move of the entry under another, is the
\* answer already; an entry that is not dead is not found.
ReplayDeadLetter(r, e, ns, act) ==
    /\ receipts[r] = Nothing
    /\ replayedBy[e] = Nothing
    /\ e \in dead
    /\ Decide(r, e, Verdict(e, ns, act))

-----------------------------------------------------------------------------
\* The process dies, or an acknowledgement fails and the flush returns: what
\* it holds stays hidden until the lease runs out.
Abandon(d) ==
    /\ Fault
    /\ pc[d] # "idle"
    /\ pc' = [pc EXCEPT ![d] = "idle"] /\ cur' = [cur EXCEPT ![d] = Nothing]
    /\ held' = [held EXCEPT ![d] = {}] /\ keep' = [keep EXCEPT ![d] = {}]
    /\ deadline' = [deadline EXCEPT ![d] = [e \in Entries |-> 0]]
    /\ UNCHANGED <<store, outcome, failures, stale>>

Flush(d) ==
    \/ LeaseOutbox(d) \/ AckOutbox(d) \/ Forget(d) \/ RecordOutboxFailure(d) \/ Return(d)
    \/ \E e \in Entries : GiveBack(d, e)
Deliver(d) == \E e \in Entries : Handoff(d, e) \/ HandoffFails(d, e)

Next ==
    \/ \E e \in Entries : Put(e)
    \/ \E s \in {"running", "paused", "ended", "gone"} : SetStatus(s)
    \/ Tick
    \/ \E d \in Deliverers :
          Flush(d) \/ Deliver(d) \/ QueueFull(d) \/ RenewOutbox(d) \/ Abandon(d)
    \/ \E r \in Requests, e \in Entries, ns \in NodeStates, act \in Activations :
          ReplayDeadLetter(r, e, ns, act)

Spec == Init /\ [][Next]_vars

(* Fairness: time passes, the dispatcher flushes every tick and its store  *)
(* calls return, and the queue is not full for ever.                       *)
FairSpec ==
    /\ Spec
    /\ WF_vars(Tick)
    /\ \A d \in Deliverers : WF_vars(Flush(d)) /\ SF_vars(Deliver(d))

-----------------------------------------------------------------------------
(* Properties.                                                             *)

\* "body-presence and ready-membership are always observably equivalent"
\* (rstate/atomic_state.go:488), on which the guard against ghost dead letters
\* rests; and no intent is both waiting and dead.
BodyIffReady ==
    \A e \in Entries : /\ ready[e] # None <=> e \in body
                       /\ e \notin body \cap dead

\* At-least-once: an intent that is neither waiting nor dead-lettered reached
\* the queue or its handler, or its execution could no longer consume it,
\* whoever crashed, stalled or acknowledged late (FlushOutbox).
NothingLost ==
    \A e \in put \ (body \cup dead) : outcome[e] # Nothing

\* Every dead-lettering has MaxAttempts failed handoffs of its own to show for
\* it: a full queue costs none (the ErrQueueFull branch of FlushOutbox), and no
\* failure is counted twice, across crashes and replays.
DeadIsEarned == \A e \in Entries : failures[e] >= 0

\* While nobody settles an entry that another deliverer has taken over, a
\* claim is exclusive: renewals never steal (renewOutboxLua, RenewOutbox).
ExclusiveUnlessDisturbed ==
    ~stale => \A c, d \in Deliverers, e \in Entries : Holds(c, e) /\ Holds(d, e) => c = d

\* The flushes, their leases and the replays implement the outbox that the
\* engine appends to: whatever is interleaved, late or repeated, an intent is
\* settled only after it was consumed, never comes back once it is settled (by
\* a late failure report, release or replay), and leaves the dead letters only
\* by a replay (FlushOutbox, recordOutboxFailureLua, replayDeadLetterLua).
Promise == INSTANCE DurableOutbox WITH
    waiting <- body,
    consumed <- {e \in Entries : outcome[e] # Nothing}

ImplementsOutbox == Promise!Spec

\* A RequestID answers once and for all, and a dead letter moves only under a
\* fresh one (the receipts of ReplayDeadLetter).
ReceiptsAreFinal ==
    [][/\ \A r \in Requests : receipts[r] # Nothing => receipts'[r] = receipts[r]
       /\ \A e \in dead \cap body' : \E r \in Requests :
             receipts[r] = Nothing /\ receipts'[r] = "replayed" /\ replayedBy'[e] = r]_vars

\* Every intent is delivered or dead-lettered in the end, if its execution
\* does not stay paused, even when no handoff ever succeeds.
Settles ==
    <>[](status # "paused") => \A e \in Entries : (e \in body) ~> (e \notin body)
=============================================================================
