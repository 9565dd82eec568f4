-------------------------- MODULE OutboxReadyIndex --------------------------
(***************************************************************************)
(* How the Redis store finds ready work (rstate/state_outbox_index.go).    *)
(* The ready set of an execution is written atomically with the work; the  *)
(* readiness index of the namespace lives in another cluster slot, so it   *)
(* is written by separate commands and can disagree.  A drain reads the    *)
(* index, or sweeps the keyspace, and flushes what it finds.               *)
(*                                                                         *)
(* Index members of different executions share nothing but the page, so    *)
(* one execution is modelled.  A score is kept as the time that is left    *)
(* until it is due: every score in the past is 0 and Tick counts down.     *)
(* Every action is one Redis command (or script) and the local work up to  *)
(* the next one.  The index is enabled (ConfigureOutboxReadyIndex).        *)
(***************************************************************************)
EXTENDS Integers, FiniteSets

CONSTANTS
    Entries,      \* outbox entries the execution may append
    Drainers,     \* processes that drain, one dispatcher each
    Horizon,      \* OutboxDeliveryLeaseTTL, and the longest delay of an entry
    SweepEvery,   \* outboxIndexSweepEveryCalls
    MaxFaults     \* bound on lost writes, failed reads and crashes

ASSUME HorizonAssumption == Horizon \in Nat \ {0}
ASSUME SweepEveryAssumption == SweepEvery \in Nat \ {0}
ASSUME MaxFaultsAssumption == MaxFaults \in Nat

VARIABLES
    pending,    \* members of the execution's outbox:ready set
    score,      \* time left until a member is deliverable
    used,       \* entries appended so far
    unmarked,   \* appended, the producer has not registered yet
    index,      \* score of the execution in outbox:ready-index, or None
    paused,     \* the execution's status is paused
    pc,         \* what each drainer does next
    held,       \* the part of its claimed batch a drainer has not settled
    failing,    \* the entry whose handoff failed, until that is recorded
    read,       \* the earliest ready score a drainer last read
    sweeping,   \* this discovery call also sweeps
    proven,     \* outboxIndexProven of each process
    calls,      \* outboxDiscoveryCalls of each process, modulo SweepEvery
    lost,       \* ghost: a registration was dropped and not written again
    faults      \* faults so far

work == <<pending, score, used, paused>>
local == <<held, failing, read, sweeping, proven, calls>>
ghost == <<lost, faults>>
vars == <<pending, score, used, unmarked, index, paused, pc, held, failing,
          read, sweeping, proven, calls, lost, faults>>

None == -1
Score == 0..Horizon
\* A prune has removed the member and has not finished looking again.
Removing == {"verify", "repair", "reprobe", "reregister"}
PC == {"idle", "read", "probe", "orphan", "scan", "claim", "deliver",
       "release", "record", "refresh", "arm"} \cup Removing

TypeOK ==
    /\ pending \subseteq Entries /\ unmarked \subseteq Entries /\ used \subseteq Entries
    /\ score \in [Entries -> Score]
    /\ index \in Score \cup {None}
    /\ paused \in BOOLEAN /\ lost \in BOOLEAN
    /\ pc \in [Drainers -> PC]
    /\ held \in [Drainers -> SUBSET Entries] /\ failing \in [Drainers -> SUBSET Entries]
    /\ read \in [Drainers -> Score \cup {None}]
    /\ sweeping \in [Drainers -> BOOLEAN] /\ proven \in [Drainers -> BOOLEAN]
    /\ calls \in [Drainers -> 0..(SweepEvery - 1)]
    /\ faults \in 0..MaxFaults

Init ==
    /\ pending = {} /\ unmarked = {} /\ used = {}
    /\ score = [e \in Entries |-> 0]
    /\ index = None
    /\ paused = FALSE /\ lost = FALSE
    /\ pc = [d \in Drainers |-> "idle"]
    /\ held = [d \in Drainers |-> {}] /\ failing = [d \in Drainers |-> {}]
    /\ read = [d \in Drainers |-> None]
    /\ sweeping = [d \in Drainers |-> FALSE]
    /\ proven = [d \in Drainers |-> FALSE]
    /\ calls = [d \in Drainers |-> 0]
    /\ faults = 0

\* d, which is at one of the places from, goes on at to.
Step(d, from, to) == pc[d] \in from /\ pc' = [pc EXCEPT ![d] = to]

\* ZADD and ZREM of the execution's member.
ZAdd(s) == index' = s /\ lost' = FALSE
ZRem == index' = None /\ lost' = lost

\* earliestReadyScore: the smallest score of the ready set, or None.
Earliest(s) ==
    IF pending = {} THEN s = None
    ELSE s \in {score[e] : e \in pending} /\ \A e \in pending : s <= score[e]

ReadEarliest(d) ==
    \E s \in Score \cup {None} : Earliest(s) /\ read' = [read EXCEPT ![d] = s]

-----------------------------------------------------------------------------
(* Producers: any transition that appends an entry, then registers it.     *)

Append(e, delay) ==
    /\ e \notin used
    /\ used' = used \cup {e}
    /\ pending' = pending \cup {e}
    /\ score' = [score EXCEPT ![e] = delay]
    /\ unmarked' = unmarked \cup {e}
    /\ UNCHANGED <<index, paused, pc, local, ghost>>

\* markOutboxReadyIndex registers at "now", whatever the entry's delay is.
Mark(e) ==
    /\ e \in unmarked
    /\ unmarked' = unmarked \ {e}
    /\ ZAdd(0)
    /\ UNCHANGED <<work, pc, local, faults>>

\* An operator pauses or resumes the execution.
SetPaused(b) ==
    /\ paused' = b
    /\ paused # b
    /\ UNCHANGED <<pending, score, used, unmarked, index, pc, local, ghost>>

\* The keys of the execution expire with it; the index has no expiry.
Expire ==
    /\ pending # {} /\ pending' = {}
    /\ UNCHANGED <<score, used, unmarked, index, paused, pc, local, ghost>>

\* cleanupCreatedExecution deletes the keys, then refreshes the index.
Rollback(d) ==
    /\ Step(d, {"idle"}, "refresh")
    /\ pending' = {}
    /\ UNCHANGED <<score, used, unmarked, index, paused, local, ghost>>

Tick ==
    LET Down(s) == IF s > 0 THEN s - 1 ELSE s IN
    /\ index > 0 \/ \E e \in pending : score[e] > 0
    /\ score' = [e \in Entries |-> Down(score[e])]
    /\ index' = Down(index)
    /\ read' = [d \in Drainers |-> Down(read[d])]
    /\ UNCHANGED <<pending, used, unmarked, paused, pc, held, failing, sweeping, proven, calls, ghost>>

-----------------------------------------------------------------------------
(* Discovery (ListOutboxExecutionRefs, readOutboxReadyIndexRefs).          *)

\* Faulty: an index that carried work once is trusted for good.
SweepWhenUnproven(d) == ~proven[d]

SweepDue(d) == ~proven[d] \/ (calls[d] + 1) % SweepEvery = 0

\* The call reads the index unless it sweeps on behalf of a proven index.
Discover(d) ==
    /\ Step(d, {"idle"}, IF SweepDue(d) /\ proven[d] THEN "scan" ELSE "read")
    /\ calls' = [calls EXCEPT ![d] = (@ + 1) % SweepEvery]
    /\ sweeping' = [sweeping EXCEPT ![d] = SweepDue(d)]
    /\ UNCHANGED <<work, unmarked, index, held, failing, read, proven, ghost>>

AfterRead(d) == IF sweeping[d] THEN "scan" ELSE "idle"

ReadIndex(d) ==
    /\ Step(d, {"read"}, IF index = 0 THEN "probe" ELSE AfterRead(d))
    /\ UNCHANGED <<work, unmarked, index, local, ghost>>

\* outboxMembersLive: only a member with a ready set is work, and proves the index.
Probe(d) ==
    /\ Step(d, {"probe"}, IF pending # {} THEN "claim" ELSE "orphan")
    /\ proven' = [proven EXCEPT ![d] = @ \/ pending # {}]
    /\ UNCHANGED <<work, unmarked, index, held, failing, read, sweeping, calls, ghost>>

\* repairStaleOutboxIndexMembers: remove, probe again, put back what is live.
RemoveOrphan(d) ==
    /\ Step(d, {"orphan"}, "reprobe")
    /\ ZRem
    /\ UNCHANGED <<work, unmarked, local, faults>>

\* Faulty: the second probe is ignored and every orphan is put back.
ReprobeNothing(d) ==
    /\ Step(d, {"reprobe"}, "reregister")
    /\ UNCHANGED <<work, unmarked, index, local, ghost>>

Reprobe(d) ==
    /\ Step(d, {"reprobe"}, IF pending # {} THEN "reregister" ELSE "read")
    /\ UNCHANGED <<work, unmarked, index, local, ghost>>

Reregister(d) ==
    /\ Step(d, {"reregister"}, "read")
    /\ ZAdd(0)
    /\ UNCHANGED <<work, unmarked, local, faults>>

\* One page of the keyspace scan; the cursor may stand elsewhere.
Scan(d) ==
    /\ \/ pending # {} /\ Step(d, {"scan"}, "claim")
       \/ Step(d, {"scan"}, "idle")
    /\ UNCHANGED <<work, unmarked, index, local, ghost>>

-----------------------------------------------------------------------------
(* FlushOutbox of the execution, and what it does to the index.            *)

\* A commit flushes its own execution without discovery.
FlushAfterCommit(d) ==
    /\ Step(d, {"idle"}, "claim")
    /\ UNCHANGED <<work, unmarked, index, local, ghost>>

Due == IF paused THEN {} ELSE {e \in pending : score[e] = 0}

\* Faulty: the lease hides a claimed entry for twice its time to live.
ClaimForTwice(d) ==
    /\ Due # {}
    /\ Step(d, {"claim"}, "deliver")
    /\ held' = [held EXCEPT ![d] = Due]
    /\ score' = [e \in Entries |-> IF e \in Due THEN 2 * Horizon ELSE score[e]]
    /\ UNCHANGED <<pending, used, unmarked, index, paused, failing, read, sweeping, proven, calls, ghost>>

\* leaseOutboxLua grants every due entry: its score is pushed out of sight.
Claim(d) ==
    /\ Due # {}
    /\ Step(d, {"claim"}, "deliver")
    /\ held' = [held EXCEPT ![d] = Due]
    /\ score' = [e \in Entries |-> IF e \in Due THEN Horizon ELSE score[e]]
    /\ UNCHANGED <<pending, used, unmarked, index, paused, failing, read, sweeping, proven, calls, ghost>>

\* ... and reports the earliest score when there is nothing to grant.
ClaimNothing(d) ==
    /\ Due = {}
    /\ Step(d, {"claim"}, "arm")
    /\ ReadEarliest(d)
    /\ UNCHANGED <<work, unmarked, index, held, failing, sweeping, proven, calls, ghost>>

\* AckOutbox after a handoff.
Ack(d, e) ==
    /\ pc[d] = "deliver" /\ e \in held[d]
    /\ held' = [held EXCEPT ![d] = @ \ {e}]
    /\ pending' = pending \ {e}
    /\ UNCHANGED <<score, used, unmarked, index, paused, pc, failing, read, sweeping, proven, calls, ghost>>

\* The queue is full: FlushOutbox gives the rest of the batch back.
QueueFull(d) ==
    /\ held[d] # {}
    /\ Step(d, {"deliver"}, "release")
    /\ UNCHANGED <<work, unmarked, index, local, ghost>>

\* releaseOutboxLua restores the score the entry was claimed from, if the
\* entry is still there; the index is not written.
GiveBack(d, e) ==
    /\ e \in held[d]
    /\ held' = [held EXCEPT ![d] = @ \ {e}]
    /\ score' = [score EXCEPT ![e] = IF e \in pending THEN 0 ELSE @]
    /\ UNCHANGED <<pending, used, unmarked, index, paused, read, sweeping, proven, calls, ghost>>

Release(d, e) ==
    /\ GiveBack(d, e)
    /\ Step(d, {"release"}, "release")
    /\ UNCHANGED failing

\* A failed handoff: release, then record the failure, which may dead-letter.
Fail(d, e) ==
    /\ GiveBack(d, e)
    /\ Step(d, {"deliver"}, "record")
    /\ failing' = [failing EXCEPT ![d] = {e}]

Record(d) ==
    /\ Step(d, {"record"}, "deliver")
    /\ pending' \in {pending, pending \ failing[d]}
    /\ failing' = [failing EXCEPT ![d] = {}]
    /\ UNCHANGED <<score, used, unmarked, index, paused, held, read, sweeping, proven, calls, ghost>>

\* The batch is settled: claim again, or return without another claim when it
\* was short, was given back or met an error.
BatchDone(d) ==
    /\ held[d] = {}
    /\ \/ Step(d, {"deliver"}, "claim")
       \/ Step(d, {"deliver", "release"}, "idle")
    /\ UNCHANGED <<work, unmarked, index, local, ghost>>

\* refreshOutboxReadyIndex reads the ready set first.
Refresh(d) ==
    /\ Step(d, {"refresh"}, "arm")
    /\ ReadEarliest(d)
    /\ UNCHANGED <<work, unmarked, index, held, failing, sweeping, proven, calls, ghost>>

Forget(d) == read' = [read EXCEPT ![d] = None]

\* applyOutboxReadyIndex: re-arm at the score that was read, or prune ...
Arm(d) ==
    /\ \/ read[d] # None /\ ZAdd(read[d]) /\ Step(d, {"arm"}, "idle")
       \/ read[d] = None /\ ZRem /\ Step(d, {"arm"}, "verify")
    /\ Forget(d)
    /\ UNCHANGED <<work, unmarked, held, failing, sweeping, proven, calls, faults>>

\* Faulty: the prune does not look again.
VerifyNothing(d) ==
    /\ Step(d, {"verify"}, "idle")
    /\ UNCHANGED <<work, unmarked, index, local, ghost>>

\* ... then look again ...
Verify(d) ==
    /\ Step(d, {"verify"}, IF pending = {} THEN "idle" ELSE "repair")
    /\ ReadEarliest(d)
    /\ UNCHANGED <<work, unmarked, index, held, failing, sweeping, proven, calls, ghost>>

\* ... and put the member back if an entry arrived meanwhile.
Repair(d) ==
    /\ Step(d, {"repair"}, "idle")
    /\ ZAdd(read[d])
    /\ Forget(d)
    /\ UNCHANGED <<work, unmarked, held, failing, sweeping, proven, calls, faults>>

-----------------------------------------------------------------------------
(* Faults.                                                                 *)

Fault == faults < MaxFaults /\ faults' = faults + 1

\* The producer dies before it registers, or its ZADD fails; a failure also
\* withdraws its process's trust in the index (noteOutboxIndexFailure).
MarkFails(e) ==
    /\ Fault
    /\ e \in unmarked
    /\ unmarked' = unmarked \ {e}
    /\ lost' = TRUE
    /\ \/ UNCHANGED proven
       \/ \E d \in Drainers : proven' = [proven EXCEPT ![d] = FALSE]
    /\ UNCHANGED <<work, index, pc, held, failing, read, sweeping, calls>>

\* A command on the index or a probe fails: the flush goes no further, a
\* discovery falls back to the sweep.
IndexFails(d) ==
    /\ Fault
    /\ \/ Step(d, {"refresh", "arm", "verify", "repair"}, "idle")
       \/ Step(d, {"read", "probe", "orphan", "reprobe", "reregister"}, "scan")
    /\ proven' = [proven EXCEPT ![d] = FALSE]
    /\ lost' = (lost \/ pc[d] \in Removing)
    /\ Forget(d)
    /\ UNCHANGED <<work, unmarked, index, held, failing, sweeping, calls>>

\* The claim or an acknowledgement fails: the flush returns and leaves what it
\* holds to the end of its lease.
FlushFails(d) ==
    /\ Fault
    /\ Step(d, {"claim", "deliver", "record"}, "idle")
    /\ held' = [held EXCEPT ![d] = {}] /\ failing' = [failing EXCEPT ![d] = {}]
    /\ UNCHANGED <<work, unmarked, index, read, sweeping, proven, calls, lost>>

\* The process restarts and forgets what it held and knew.
Crash(d) ==
    /\ Fault
    /\ Step(d, PC, "idle")
    /\ held' = [held EXCEPT ![d] = {}] /\ failing' = [failing EXCEPT ![d] = {}]
    /\ proven' = [proven EXCEPT ![d] = FALSE]
    /\ calls' = [calls EXCEPT ![d] = 0]
    /\ lost' = (lost \/ pc[d] \in Removing)
    /\ Forget(d)
    /\ UNCHANGED <<work, unmarked, index, sweeping>>

-----------------------------------------------------------------------------
Discovery(d) == Discover(d) \/ ReadIndex(d) \/ Probe(d) \/ RemoveOrphan(d)
                \/ Reprobe(d) \/ Reregister(d) \/ Scan(d)
Flush(d) == Claim(d) \/ ClaimNothing(d) \/ BatchDone(d) \/ Refresh(d) \/ Arm(d)
            \/ Verify(d) \/ Repair(d) \/ Record(d)
Settle(d, e) == Ack(d, e) \/ Release(d, e) \/ Fail(d, e)

Next ==
    \/ \E e \in Entries : Mark(e) \/ MarkFails(e) \/ \E delay \in Score : Append(e, delay)
    \/ \E b \in BOOLEAN : SetPaused(b)
    \/ Expire \/ Tick
    \/ \E d \in Drainers :
          \/ Rollback(d) \/ Discovery(d) \/ FlushAfterCommit(d) \/ Flush(d)
          \/ QueueFull(d) \/ IndexFails(d) \/ FlushFails(d) \/ Crash(d)
          \/ \E e \in Entries : Settle(d, e)

Spec == Init /\ [][Next]_vars

(* Fairness: time passes; a producer registers or fails; every dispatcher  *)
(* loops (OutboxDispatcher.Run) and its commands return; the scan cursor   *)
(* comes round; the queue does not refuse the same entry for ever.         *)
Fairness ==
    /\ WF_vars(Tick)
    /\ \A e \in Entries : WF_vars(Mark(e))
    /\ \A d \in Drainers :
          /\ WF_vars(Discovery(d))
          /\ SF_vars(Scan(d) /\ pc'[d] = "claim")
          /\ WF_vars(Flush(d))
          /\ \A e \in Entries : SF_vars(Ack(d, e)) /\ WF_vars(Release(d, e))

FairSpec == Spec /\ Fairness

-----------------------------------------------------------------------------
(* Properties.                                                             *)

\* No registration is lost to a race: whenever the execution has ready work,
\* the index names it, or a producer is about to register it, or a prune that
\* removed it has yet to look again - unless a fault dropped the write
\* ("The prune protocol: prune, verify, repair", state_outbox_index.go:151).
Registered ==
    pending # {} =>
        \/ index # None
        \/ unmarked # {}
        \/ \E d \in Drainers : pc[d] \in Removing
        \/ lost

\* Whatever the index says, ready work is drained: lost registrations and late
\* scores are made up for by the throttled sweep (ListOutboxExecutionRefs).
WorkIsDrained ==
    <>[]~paused => \A e \in Entries : (e \in pending) ~> (e \notin pending)

\* Once the execution has no ready work any more its member leaves the index
\* for good; an orphan would spend the page of every discovery
\* (repairStaleOutboxIndexMembers, applyOutboxReadyIndex).
OrphanIsRemoved == <>[](pending = {}) => <>[](index = None)

=============================================================================
