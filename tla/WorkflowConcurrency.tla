------------------------ MODULE WorkflowConcurrency ------------------------
(***************************************************************************)
(* The concurrency limit of one workflow, as the in-memory store enforces  *)
(* it (backend/providers/local/memory_state.go).  An admission charges a   *)
(* holder slot, or parks the execution at the end of a FIFO line with its  *)
(* initial outbox intents held; every write of a terminal status gives the *)
(* slot (or the place in line) back and promotes from the head.            *)
(*                                                                         *)
(* Slot sets of different workflows share nothing, so one is modelled.     *)
(* Each action is one critical section of the store's mutex.  The insert   *)
(* into the durable mirror happens outside it, and its success takes two:  *)
(* one opens the create-pending gate, a later one releases the hold.       *)
(***************************************************************************)
EXTENDS Integers, Sequences, FiniteSets

CONSTANTS
    Executions,   \* execution identifiers a client may submit
    Limits,       \* the limits that versions of the workflow declare
    Backlogs      \* the max_queued that versions declare; 0 means no bound

ASSUME ExecutionsAssumption == IsFiniteSet(Executions)
ASSUME LimitsAssumption == Limits \subseteq Nat \ {0}
ASSUME BacklogsAssumption == Backlogs \subseteq Nat

VARIABLES
    status,    \* execution status; "none" when the store has no entry
    holders,   \* workflowSlot.holders
    queued,    \* workflowSlot.queued, head first
    limit,     \* workflowSlot.limit; 0 when the slot set does not exist
    intents,   \* the root intents: "none", "held", "due" or "delivered"
    pending,   \* mirrorCreatePending: the durable insert is in flight
    releasing  \* the insert landed, the submitter is yet to release the hold

vars == <<status, holders, queued, limit, intents, pending, releasing>>

Terminal == {"done", "canceled", "timeout"}
Status == {"none", "queued", "running", "paused", "canceling"} \cup Terminal
Line == {queued[i] : i \in DOMAIN queued}

TypeOK ==
    /\ status \in [Executions -> Status]
    /\ holders \subseteq Executions
    /\ queued \in Seq(Executions)
    /\ Len(queued) <= Cardinality(Executions)
    /\ limit \in Limits \cup {0}
    /\ intents \in [Executions -> {"none", "held", "due", "delivered"}]
    /\ pending \subseteq Executions
    /\ releasing \subseteq Executions

Init ==
    /\ status = [e \in Executions |-> "none"]
    /\ holders = {}
    /\ queued = <<>>
    /\ limit = 0
    /\ intents = [e \in Executions |-> "none"]
    /\ pending = {}
    /\ releasing = {}

-----------------------------------------------------------------------------
(* Admission.  lim is the limit of the graph version being submitted: it   *)
(* replaces the remembered one even when the submission is refused.        *)

\* Faulty: one holder too many.
HasRoomForOneMore(lim) == Cardinality(holders) <= lim

HasRoom(lim) == Cardinality(holders) < lim

\* createExecutionLocked and writeInitialIntentsLocked, under an admission
\* that charged a slot (parked = FALSE) or took a place in line.
Created(e, parked, durable) ==
    /\ status' = [status EXCEPT ![e] = IF parked THEN "queued" ELSE "running"]
    /\ intents' = [intents EXCEPT ![e] = IF parked \/ durable THEN "held" ELSE "due"]
    /\ pending' = IF durable THEN pending \cup {e} ELSE pending
    /\ releasing' = releasing

Charge(e, lim, durable) ==
    /\ limit' = lim
    /\ holders' = holders \cup {e}
    /\ queued' = queued
    /\ Created(e, FALSE, durable)

Park(e, lim, durable) ==
    /\ limit' = lim
    /\ holders' = holders
    /\ queued' = Append(queued, e)
    /\ Created(e, TRUE, durable)

Refuse(lim) ==
    /\ limit' = lim
    /\ UNCHANGED <<status, holders, queued, intents, pending, releasing>>

SubmitReject(e, lim, durable) ==
    /\ status[e] = "none"
    /\ \/ HasRoom(lim) /\ Charge(e, lim, durable)
       \/ ~HasRoom(lim) /\ Refuse(lim)

MayCharge(lim) == HasRoom(lim) /\ queued = <<>>

LineFull(max) == max > 0 /\ Len(queued) >= max

\* Faulty: a resubmitted execution takes a second place in line.
SubmitAgain(e, lim, max, durable) ==
    /\ status[e] \in {"none", "queued"}
    /\ \/ MayCharge(lim) /\ Charge(e, lim, durable)
       \/ ~MayCharge(lim) /\ LineFull(max) /\ Refuse(lim)
       \/ ~MayCharge(lim) /\ ~LineFull(max) /\ Park(e, lim, durable)

SubmitQueue(e, lim, max, durable) ==
    /\ status[e] = "none"
    /\ \/ MayCharge(lim) /\ Charge(e, lim, durable)
       \/ ~MayCharge(lim) /\ LineFull(max) /\ Refuse(lim)
       \/ ~MayCharge(lim) /\ ~LineFull(max) /\ Park(e, lim, durable)

-----------------------------------------------------------------------------
(* Departure: releaseWorkflowSlotLocked and the promotion it ends with.    *)

\* Faulty: a departure makes room for one, whatever the limit is by now.
PromoteOne(h, q) ==
    IF Cardinality(h) >= limit \/ Len(q) = 0 THEN 0 ELSE 1

\* How many of line q promoteLocked moves to the holders h.
PromoteCount(h, q) ==
    IF Cardinality(h) >= limit THEN 0
    ELSE IF Len(q) < limit - Cardinality(h) THEN Len(q)
    ELSE limit - Cardinality(h)

\* The line without e.
removeQueued(e) ==
    LET p == CHOOSE i \in DOMAIN queued : queued[i] = e
    IN  IF e \in Line
          THEN SubSeq(queued, 1, p - 1) \o SubSeq(queued, p + 1, Len(queued))
          ELSE queued

\* Execution e leaves for good, with status `final` and the intents `left`.
Depart(e, final, left) ==
    LET h == holders \ {e}
        q == removeQueued(e)
        k == IF e \in holders \cup Line THEN PromoteCount(h, q) ELSE 0
        promoted == {q[i] : i \in 1..k}
    IN  /\ holders' = h \cup promoted
        /\ queued' = SubSeq(q, k + 1, Len(q))
        /\ limit' = IF e \in holders \cup Line /\ holders' = {} /\ queued' = <<>> THEN 0 ELSE limit
        /\ status' = [x \in Executions |->
             IF x = e THEN final
             ELSE IF x \in promoted /\ status[x] = "queued" THEN "running"
             ELSE status[x]]
        /\ intents' = [x \in Executions |->
             IF x = e THEN left
             ELSE IF x \in promoted /\ intents[x] = "held" /\ x \notin pending THEN "due"
             ELSE intents[x]]

\* Intents of an execution whose terminal status was just written: leaving
\* the line drops the held ones, leaving a slot touches none.
AfterTerminal(e) ==
    IF e \in Line /\ intents[e] = "held" THEN "none" ELSE intents[e]

\* The commit of the last unit, or a fatal failure: only work that was
\* delivered can conclude an execution.  A commit is refused by a terminal
\* status only, so work in flight also ends a paused or a canceling one.
Finish(e) ==
    /\ status[e] \in {"running", "paused", "canceling"}
    /\ intents[e] = "delivered"
    /\ Depart(e, "done", AfterTerminal(e))
    /\ UNCHANGED <<pending, releasing>>

\* The execution deadline (settings.timeout) is written over any status but
\* a terminal one or canceling, so it can also end a queued execution.
ExpireDeadline(e) ==
    /\ status[e] \in {"queued", "running", "paused"}
    /\ Depart(e, "timeout", AfterTerminal(e))
    /\ UNCHANGED <<pending, releasing>>

\* ExpireQueuedExecutions, for a line member past queue_timeout; one that is
\* canceling is refused by the status fence.  A batch is a row of these steps,
\* each with its own promotion: a member of the batch that an earlier one got
\* promoted ends as in ExpireDeadline, with its intents left due.
ExpireQueued(e) ==
    /\ e \in Line
    /\ status[e] = "queued"
    /\ Depart(e, "timeout", AfterTerminal(e))
    /\ UNCHANGED <<pending, releasing>>

\* Cancel writes canceling first, which keeps the slot or the place in line.
CancelBegin(e) ==
    /\ status[e] \in {"queued", "running", "paused"}
    /\ status' = [status EXCEPT ![e] = "canceling"]
    /\ UNCHANGED <<holders, queued, limit, intents, pending, releasing>>

\* Faulty: the canceled execution keeps its slot.
CancelEndLeaks(e) ==
    /\ status[e] = "canceling"
    /\ status' = [status EXCEPT ![e] = "canceled"]
    /\ UNCHANGED <<holders, queued, limit, intents, pending, releasing>>

CancelEnd(e) ==
    /\ status[e] = "canceling"
    /\ Depart(e, "canceled", AfterTerminal(e))
    /\ UNCHANGED <<pending, releasing>>

Pause(e) ==
    /\ status[e] = "running"
    /\ status' = [status EXCEPT ![e] = "paused"]
    /\ UNCHANGED <<holders, queued, limit, intents, pending, releasing>>

Resume(e) ==
    /\ status[e] = "paused"
    /\ status' = [status EXCEPT ![e] = "running"]
    /\ UNCHANGED <<holders, queued, limit, intents, pending, releasing>>

\* A dispatcher takes the due intents; a paused execution has none ready.
Deliver(e) ==
    /\ intents[e] = "due"
    /\ status[e] # "paused"
    /\ intents' = [intents EXCEPT ![e] = "delivered"]
    /\ UNCHANGED <<status, holders, queued, limit, pending, releasing>>

-----------------------------------------------------------------------------
(* The durable mirror's required insert answers.                           *)

\* mirrorCreateExecution: the row is in, clearMirrorCreatePending.
MirrorInserted(e) ==
    /\ e \in pending
    /\ pending' = pending \ {e}
    /\ releasing' = releasing \cup {e}
    /\ UNCHANGED <<status, holders, queued, limit, intents>>

\* Faulty: the hold of a queued execution is released with the insert.
ReleaseAll(e) ==
    /\ e \in releasing
    /\ releasing' = releasing \ {e}
    /\ intents' = [intents EXCEPT ![e] =
         IF @ # "held" THEN @
         ELSE IF status[e] \in Terminal \cup {"none"} THEN "none"
         ELSE "due"]
    /\ UNCHANGED <<status, holders, queued, limit, pending>>

\* releaseInitialMirrorHold, after the status projection: whatever happened to
\* the execution since the gate opened, a promotion included, is seen here.
ReleaseHold(e) ==
    /\ e \in releasing
    /\ releasing' = releasing \ {e}
    /\ intents' = [intents EXCEPT ![e] =
         IF @ # "held" \/ status[e] = "queued" THEN @
         ELSE IF status[e] \in Terminal \cup {"none"} THEN "none"
         ELSE "due"]
    /\ UNCHANGED <<status, holders, queued, limit, pending>>

\* Faulty: the rollback removes the execution and keeps its slot.
MirrorFailedLeaks(e) ==
    /\ e \in pending
    /\ pending' = pending \ {e}
    /\ status' = [status EXCEPT ![e] = "none"]
    /\ intents' = [intents EXCEPT ![e] = "none"]
    /\ UNCHANGED <<holders, queued, limit, releasing>>

\* rollbackCreatedExecution
MirrorFailed(e) ==
    /\ e \in pending
    /\ pending' = pending \ {e}
    /\ Depart(e, "none", "none")
    /\ UNCHANGED releasing

-----------------------------------------------------------------------------
Submit(e) ==
    \E lim \in Limits, durable \in BOOLEAN :
        \/ SubmitReject(e, lim, durable)
        \/ \E max \in Backlogs : SubmitQueue(e, lim, max, durable)

MirrorAnswer(e) == MirrorInserted(e) \/ MirrorFailed(e)

Next ==
    \E e \in Executions :
        \/ Submit(e)
        \/ Finish(e)
        \/ ExpireDeadline(e)
        \/ CancelBegin(e)
        \/ CancelEnd(e)
        \/ Pause(e)
        \/ Resume(e)
        \/ Deliver(e)
        \/ ExpireQueued(e)
        \/ MirrorAnswer(e)
        \/ ReleaseHold(e)

Spec == Init /\ [][Next]_vars

\* Every insert answers and its submitter goes on to release the hold, every
\* cancel is completed (by the caller or the canceling reaper), every due intent
\* is dispatched and every execution whose work was delivered concludes unless
\* it is paused.  Nobody promises to resume a paused one.
Fairness ==
    \A e \in Executions :
        /\ WF_vars(MirrorAnswer(e))
        /\ WF_vars(ReleaseHold(e))
        /\ WF_vars(CancelEnd(e))
        /\ WF_vars(Deliver(e))
        /\ WF_vars(Finish(e) /\ status[e] # "paused")

FairSpec == Spec /\ Fairness

-----------------------------------------------------------------------------
\* The accounting of slots is exact.  Every live execution either holds one
\* slot or stands once in the line, a queued one stands in the line, a
\* terminal or rolled-back one has neither: no slot leaks, none is freed
\* twice, whichever of the terminal writers or the rollback let it go.  The
\* slot set itself goes with its last member, and nobody stands in line when
\* all slots are free: only a departure promotes (promoteLocked).
SlotAccounting ==
    /\ holders \cap Line = {}
    /\ \A i, j \in DOMAIN queued : queued[i] = queued[j] => i = j
    /\ \A e \in Executions :
         /\ status[e] \in {"running", "paused"} => e \in holders
         /\ status[e] = "queued" => e \in Line
         /\ status[e] = "canceling" => e \in holders \cup Line
         /\ status[e] \in Terminal \cup {"none"} => e \notin holders \cup Line
    /\ limit = 0 <=> holders \cup Line = {}
    /\ Line # {} => holders # {}

\* Held intents and the status move together.  A queued execution's intents
\* exist and are held, nothing is dispatchable while the durable insert is in
\* flight, and the intents of a started execution were released unless its
\* submitter still has the insert or the release of its own hold to come: so
\* whichever of the promotion and the release comes last, and whatever falls
\* between the opening of the gate and the release, a promoted execution starts
\* (completePromotionLocked, clearMirrorCreatePending, releaseInitialMirrorHold).
HoldMatchesStatus ==
    \A e \in Executions :
        /\ status[e] = "queued" => intents[e] = "held"
        /\ e \in pending => intents[e] \in {"none", "held"}
        /\ status[e] \in {"running", "paused"} /\ e \notin pending \cup releasing
             => intents[e] \in {"due", "delivered"}

\* The holder set only ever grows up to the limit in force after the step:
\* neither an admission nor a promotion over-admits, and a lowered limit just
\* stops the line.
NeverOverAdmits ==
    [][~(holders' \subseteq holders) => Cardinality(holders') <= limit']_vars

\* What the limit promises: slots, line and limit, and nothing else.
Slots == INSTANCE AdmissionLine WITH running <- holders, line <- queued, cap <- limit

\* Statuses, held intents, the durable mirror and its rollback implement the
\* plain admission line: one slot or place for each execution, nobody waits or
\* is refused without need, and each departure, whichever terminal writer or
\* rollback it is, starts exactly as many from the head as the limit allows.
ImplementsAdmission == Slots!Spec

\* The line is FIFO: it changes only by executions leaving it and new ones
\* joining at the tail, and a step that promotes takes them from the head,
\* so nobody behind a promoted execution overtakes one that still waits.
LineIsFifo ==
    [][/\ \A i, j \in DOMAIN queued :
            i < j /\ queued[j] \in holders' => queued[i] \notin Line'
       /\ \A i, j \in DOMAIN queued' :
            i < j /\ queued'[j] \in Line =>
              \E m, n \in DOMAIN queued : m < n /\ queued[m] = queued'[i] /\ queued[n] = queued'[j]]_vars

\* The line is never stuck: as long as someone is queued a holder of a slot has
\* a step to take that nobody else has to make possible - its insert answers,
\* its hold is released, its cancel is completed, its intents are dispatched, or
\* its work concludes - unless it sits paused on the slot.
GoesOn(h) ==
    \/ h \in pending \cup releasing
    \/ status[h] = "canceling"
    \/ status[h] = "running" /\ intents[h] \in {"due", "delivered"}
LineMoves ==
    (\E e \in Executions : status[e] = "queued") =>
        \E h \in holders : GoesOn(h) \/ status[h] = "paused"

\* Nobody waits in line forever once no more executions are admitted, even
\* while submissions go on being refused and change the limit: all who are queued
\* start or end, unless some execution sits paused on its slot.  While more are
\* admitted, versions that reject instead of queueing may overtake the line with
\* every slot that a higher limit opens.
QueuedIsServed ==
    <>[][\A e \in Executions : status[e] = "none" => status'[e] = "none"]_vars =>
        ((\E e \in Executions : status[e] = "queued")
           ~> (\A e \in Executions : status[e] # "queued") \/ (\E h \in holders : status[h] = "paused"))
=============================================================================
