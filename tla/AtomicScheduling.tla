-------------------------- MODULE AtomicScheduling --------------------------
(***************************************************************************)
(* One execution of an acyclic workflow over an atomic state store: the    *)
(* engine's lease, commit, retry, reclaim, cancel and expire operations    *)
(* (engine/lease.go, atomic_commit.go, retry.go, cancel.go, expire.go) and *)
(* the store transitions they call (backend/providers/local/*.go and the   *)
(* Lua scripts of backend/providers/distributed/internal/rstate).          *)
(*                                                                         *)
(* Every store transition is atomic (one mutex, one script), so it is one  *)
(* action.  Everything between transitions interleaves: intents wait in    *)
(* the durable outbox, delivery and its acknowledgement are two steps, a   *)
(* task may be delivered twice, and the holder of any lease ever granted   *)
(* may report at any time, as often as it likes, long after it was         *)
(* reclaimed.  A report the fence refuses changes nothing and is no step.  *)
(***************************************************************************)
EXTENDS Integers, FiniteSets

CONSTANTS
    Units,        \* scheduling units of the compiled graph
    Edges,        \* its edges, [src, port, dst]
    WaitAny,      \* units whose merge mode is wait_any
    OnError,      \* on_error of each unit
    MaxAttempts,  \* retry.max_attempts of each unit, 1 when it has no retry
    Mode,         \* "handler", "disabled" or "pinned": who serves the unit
    Ports,        \* output ports a handler may name
    Backend,      \* "memory" or "redis"
    MaxLeases     \* bound for each unit: its lease of this number is never lost

Policies == {"stop", "error_output", "main_output", "continue"}

ASSUME UnitsAssumption == IsFiniteSet(Units)
ASSUME EdgesAssumption ==
    IsFiniteSet(Edges) /\ Edges \subseteq [src : Units, port : Ports, dst : Units]
ASSUME PolicyAssumption ==
    /\ WaitAny \subseteq Units
    /\ OnError \in [Units -> Policies]
    /\ Mode \in [Units -> {"handler", "disabled", "pinned"}]
    /\ {"main", "error"} \subseteq Ports /\ "" \notin Ports
ASSUME BoundAssumption ==
    /\ MaxLeases \in [Units -> Nat \ {0}]
    /\ MaxAttempts \in [Units -> Nat]
    /\ \A u \in Units : MaxAttempts[u] <= MaxLeases[u]
\* detectUnitCycle: in every set of units, one has no input from the set.
Acyclic ==
    \A S \in SUBSET Units : S # {} => \E u \in S : \A e \in Edges : e.dst = u => e.src \notin S
ASSUME AcyclicAssumption == Acyclic
ASSUME BackendAssumption == Backend \in {"memory", "redis"}

VARIABLES
    exec,       \* execution status
    status,     \* node status of each unit; "absent" while it has no row
    attempt,    \* NodeSnapshot.Attempt: also numbers the unit's leases
    port,       \* port the unit committed on, "" for none
    lapsed,     \* units whose current lease is past its deadline
    listed,     \* units whose current lease a sweeper pass has listed
    remaining,  \* units not yet terminal, as the store counts them
    failed,     \* units committed failed
    inDegree,   \* inputs of each unit that have not arrived
    activeIns,  \* inputs of each unit that arrived on an active port
    scheduled,  \* the scheduling marker: "none", "execute" or "skip"
    outbox,     \* durable intents [kind, unit, n]
    sent,       \* intents enqueued or handled but not acknowledged
    queue       \* units with an execute task in the task queue

vars == <<exec, status, attempt, port, lapsed, listed, remaining, failed,
          inDegree, activeIns, scheduled, outbox, sent, queue>>

nodeVars == <<status, attempt, port>>
leaseVars == <<lapsed, listed>>
countVars == <<remaining, failed, inDegree, activeIns, scheduled>>
deliveryVars == <<outbox, sent, queue>>

Final == {"success", "failed", "skipped", "continued", "pinned"}
Over == {"success", "failed", "canceled", "timeout"}

In(v) == {e \in Edges : e.dst = v}
Between(u, v) == {e \in Edges : e.src = u /\ e.dst = v}
Fed(u, p, v) == {e \in Between(u, v) : e.port = p}
Roots == {u \in Units : In(u) = {}}

\* Outbox identifiers: kind and unit, and for a retry or a requeue the
\* attempt or the lease it follows.
Intent(k, u, n) == [kind |-> k, unit |-> u, n |-> n]
Intents == [kind : {"root", "execute", "skip", "retry", "requeue"}, unit : Units, n : Nat]

TypeOK ==
    /\ exec \in {"running", "canceling"} \cup Over
    /\ status \in [Units -> {"absent", "pending", "running"} \cup Final]
    /\ attempt \in [Units -> Nat]
    /\ \A u \in Units : attempt[u] <= MaxLeases[u]
    /\ port \in [Units -> Ports \cup {""}]
    /\ lapsed \subseteq Units
    /\ listed \subseteq Units
    /\ remaining \in Int
    /\ failed \in Nat
    /\ inDegree \in [Units -> Int]
    /\ activeIns \in [Units -> Nat]
    /\ scheduled \in [Units -> {"none", "execute", "skip"}]
    /\ outbox \subseteq Intents
    /\ sent \subseteq outbox
    /\ queue \subseteq Units

\* The state CreateExecutionWithOutbox leaves: counters seeded from the
\* graph and one intent per unit of in-degree 0.
Init ==
    /\ exec = "running"
    /\ status = [u \in Units |-> "absent"]
    /\ attempt = [u \in Units |-> 0]
    /\ port = [u \in Units |-> ""]
    /\ lapsed = {}
    /\ listed = {}
    /\ remaining = Cardinality(Units)
    /\ failed = 0
    /\ inDegree = [u \in Units |-> Cardinality(In(u))]
    /\ activeIns = [u \in Units |-> 0]
    /\ scheduled = [u \in Units |-> "none"]
    /\ outbox = {Intent("root", u, 0) : u \in Roots}
    /\ sent = {}
    /\ queue = {}

-----------------------------------------------------------------------------
(* The node commit.                                                        *)

\* Faulty: a merge fires one input early.
DecisionEarly(u, p, v) ==
    IF scheduled[v] # "none" \/ Between(u, v) = {} THEN scheduled[v]
    ELSE IF inDegree[v] > Cardinality(Between(u, v)) + 1 THEN "none"
    ELSE IF activeIns[v] > 0 \/ Fed(u, p, v) # {} THEN "execute"
    ELSE "skip"

\* Faulty: wait_any fires on an input that arrived on another port.
DecisionAnyPort(u, p, v) ==
    IF scheduled[v] # "none" \/ Between(u, v) = {} THEN scheduled[v]
    ELSE IF v \in WaitAny THEN "execute"
    ELSE IF inDegree[v] > Cardinality(Between(u, v)) THEN "none"
    ELSE IF activeIns[v] > 0 \/ Fed(u, p, v) # {} THEN "execute"
    ELSE "skip"

\* What unit u arriving on port p makes of v's scheduling marker.
Decision(u, p, v) ==
    IF scheduled[v] # "none" \/ Between(u, v) = {} THEN scheduled[v]
    ELSE IF v \in WaitAny /\ Fed(u, p, v) # {} /\ activeIns[v] = 0 THEN "execute"
    ELSE IF inDegree[v] > Cardinality(Between(u, v)) THEN "none"
    ELSE IF activeIns[v] > 0 \/ Fed(u, p, v) # {} THEN "execute"
    ELSE "skip"

\* Faulty: the arrivals are counted, the intents are not written with them.
ArriveSilently(u, p) ==
    /\ inDegree' = [v \in Units |-> inDegree[v] - Cardinality(Between(u, v))]
    /\ activeIns' = [v \in Units |-> activeIns[v] + Cardinality(Fed(u, p, v))]
    /\ scheduled' = [v \in Units |-> Decision(u, p, v)]
    /\ UNCHANGED outbox

\* The folded arrivals of a commit of u on port p (downstreamArrivals and
\* applyArrivalsLocked): each destination counts the inputs that arrived and,
\* the first time it is due, gets its execute or skip intent.
Arrive(u, p) ==
    /\ inDegree' = [v \in Units |-> inDegree[v] - Cardinality(Between(u, v))]
    /\ activeIns' = [v \in Units |-> activeIns[v] + Cardinality(Fed(u, p, v))]
    /\ scheduled' = [v \in Units |-> Decision(u, p, v)]
    /\ outbox' = outbox \cup
         {Intent(Decision(u, p, v), v, 0) :
            v \in {w \in Units : scheduled[w] = "none" /\ Decision(u, p, w) # "none"}}

\* Faulty: the verdict is written over a cancel in progress.
MayFinishAlways == TRUE

\* The store refuses to conclude over a cancel in Redis only.
MayFinish == Backend = "memory" \/ exec # "canceling"

\* Faulty: a fatal failure waits for the other units.
ConcludeLate(u, st, p, fatal) ==
    LET done == remaining = 1 /\ MayFinish
    IN  /\ exec \notin Over
        /\ status' = [status EXCEPT ![u] = st]
        /\ port' = [port EXCEPT ![u] = p]
        /\ lapsed' = lapsed \ {u}
        /\ listed' = listed \ {u}
        /\ remaining' = remaining - 1
        /\ failed' = IF st = "failed" THEN failed + 1 ELSE failed
        /\ exec' = IF ~done THEN exec ELSE IF failed' > 0 THEN "failed" ELSE "success"
        /\ IF fatal \/ done \/ exec = "canceling"
           THEN UNCHANGED <<inDegree, activeIns, scheduled, outbox>>
           ELSE Arrive(u, p)
        /\ UNCHANGED attempt

\* An accepted CommitNode of unit u: node row, counters, verdict, arrivals.
Conclude(u, st, p, fatal) ==
    LET done == (fatal \/ remaining = 1) /\ MayFinish
    IN  /\ exec \notin Over
        /\ status' = [status EXCEPT ![u] = st]
        /\ port' = [port EXCEPT ![u] = p]
        /\ lapsed' = lapsed \ {u}
        /\ listed' = listed \ {u}
        /\ remaining' = remaining - 1
        /\ failed' = IF st = "failed" THEN failed + 1 ELSE failed
        /\ exec' = IF ~done THEN exec
                   ELSE IF fatal \/ failed' > 0 THEN "failed" ELSE "success"
        /\ IF fatal \/ done \/ exec = "canceling"
           THEN UNCHANGED <<inDegree, activeIns, scheduled, outbox>>
           ELSE Arrive(u, p)
        /\ UNCHANGED attempt

\* Faulty: the fence compares the lease and forgets the node's status.
HoldsOnce(u, n) == n = attempt[u]

\* The lease fence: the report carries the token of the unit's current lease.
Holds(u, n) == status[u] = "running" /\ n = attempt[u]

\* Faulty: the unit is reset and nobody is asked to run it.
GiveBackSilently(u, i) ==
    /\ status' = [status EXCEPT ![u] = "pending"]
    /\ lapsed' = lapsed \ {u}
    /\ listed' = listed \ {u}
    /\ UNCHANGED <<exec, attempt, port, countVars, outbox, sent, queue>>

\* The unit goes back to pending and intent i asks for it again.
GiveBack(u, i) ==
    /\ status' = [status EXCEPT ![u] = "pending"]
    /\ lapsed' = lapsed \ {u}
    /\ listed' = listed \ {u}
    /\ outbox' = outbox \cup {i}
    /\ UNCHANGED <<exec, attempt, port, countVars, sent, queue>>

-----------------------------------------------------------------------------
(* Reports of lease holders.                                               *)

CommitSuccess(u, n, p) ==
    /\ Holds(u, n)
    /\ Conclude(u, "success", p, FALSE)
    /\ UNCHANGED <<sent, queue>>

\* ApplyOnError
Outcome(u) ==
    CASE OnError[u] = "error_output" -> [status |-> "success", port |-> "error", fatal |-> FALSE]
      [] OnError[u] = "main_output" -> [status |-> "success", port |-> "main", fatal |-> FALSE]
      [] OnError[u] = "continue" -> [status |-> "continued", port |-> "main", fatal |-> FALSE]
      [] OnError[u] = "stop" -> [status |-> "failed", port |-> "", fatal |-> TRUE]

\* A retryable failure within the budget resets the unit; the reset does not
\* look at the execution's status.
Retry(u, n) ==
    /\ Holds(u, n)
    /\ n < MaxAttempts[u]
    /\ GiveBack(u, Intent("retry", u, n))

\* A permanent failure, a business error, or a spent budget: on_error decides.
CommitError(u, n) ==
    /\ Holds(u, n)
    /\ Conclude(u, Outcome(u).status, Outcome(u).port, Outcome(u).fatal)
    /\ UNCHANGED <<sent, queue>>

\* CommitTaskFailure: fails the execution without asking on_error.
CommitFailure(u, n) ==
    /\ Holds(u, n)
    /\ Conclude(u, "failed", "", TRUE)
    /\ UNCHANGED <<sent, queue>>

\* ReleaseTaskLease: the dispatcher could not hand the lease out.
Release(u, n) ==
    /\ Holds(u, n)
    /\ attempt[u] < MaxLeases[u]
    /\ GiveBack(u, Intent("requeue", u, n))

\* RenewTaskLease asks for the token only, so an overdue lease comes back.
Renew(u, n) ==
    /\ Holds(u, n)
    /\ u \in lapsed
    /\ lapsed' = lapsed \ {u}
    /\ UNCHANGED <<exec, nodeVars, listed, countVars, deliveryVars>>

Report(u) ==
    \E n \in 1..attempt[u] :
        \/ \E p \in Ports : CommitSuccess(u, n, p)
        \/ Retry(u, n)
        \/ CommitError(u, n)
        \/ CommitFailure(u, n)

-----------------------------------------------------------------------------
(* Leases run out and are reclaimed.                                       *)

\* Time passes without a renewal; the holder may be dead or merely slow.
Lapse(u) ==
    /\ status[u] = "running"
    /\ attempt[u] < MaxLeases[u]
    /\ u \notin lapsed
    /\ lapsed' = lapsed \cup {u}
    /\ UNCHANGED <<exec, nodeVars, listed, countVars, deliveryVars>>

\* ListExpiredLeases: what a sweeper pass will work through.
ListExpired ==
    /\ lapsed \ listed # {}
    /\ listed' = listed \cup lapsed
    /\ UNCHANGED <<exec, nodeVars, lapsed, countVars, deliveryVars>>

\* ReclaimLease of one listed lease.  The revocation is fenced by the token
\* alone, so a lease renewed since it was listed is revoked too.
Reclaim(u) ==
    /\ u \in listed
    /\ Holds(u, attempt[u])
    /\ GiveBack(u, Intent("requeue", u, attempt[u]))

-----------------------------------------------------------------------------
(* Delivery.                                                               *)

\* FlushOutbox hands an intent to the task queue.  A crash before the
\* acknowledgement repeats it.
Deliver(i) ==
    /\ i.kind # "skip"
    /\ queue' = queue \cup {i.unit}
    /\ sent' = sent \cup {i}
    /\ UNCHANGED <<exec, nodeVars, leaseVars, countVars, outbox>>

\* FlushOutbox commits a skip intent itself, as a system commit on no port.
\* The commit is refused when the unit has a row that is not pending, or the
\* execution is over; the intent counts as handled either way.
SkipUnit(i) ==
    /\ i.kind = "skip"
    /\ sent' = sent \cup {i}
    /\ IF exec \notin Over /\ status[i.unit] \in {"absent", "pending"}
       THEN Conclude(i.unit, "skipped", "", FALSE) /\ UNCHANGED queue
       ELSE UNCHANGED <<exec, nodeVars, leaseVars, countVars, outbox, queue>>

\* AckOutbox
Ack(i) ==
    /\ i \in sent
    /\ outbox' = outbox \ {i}
    /\ sent' = sent \ {i}
    /\ UNCHANGED <<exec, nodeVars, leaseVars, countVars, queue>>

\* A task is taken off the queue, or another copy of it stays there.
Consume(u) ==
    /\ u \in queue
    /\ queue' \in {queue, queue \ {u}}

\* Faulty: a live lease is taken over.
LeasableWhileLive(u) == status[u] \in {"absent", "pending", "running"}

\* Faulty: a decided unit is leased again.
LeasableAgain(u) == status[u] # "running" \/ u \in lapsed

\* A pending unit, one without a row, or one whose lease lapsed may be leased.
Leasable(u) ==
    \/ status[u] \in {"absent", "pending"}
    \/ status[u] = "running" /\ u \in lapsed

\* BuildTaskLease: the acquire grants the next lease.
Acquire(u) ==
    /\ Consume(u)
    /\ Mode[u] = "handler"
    /\ exec \notin Over
    /\ Leasable(u)
    /\ status' = [status EXCEPT ![u] = "running"]
    /\ attempt' = [attempt EXCEPT ![u] = @ + 1]
    /\ lapsed' = lapsed \ {u}
    /\ listed' = listed \ {u}
    /\ UNCHANGED <<exec, port, countVars, outbox, sent>>

\* handleDisabledNode, handlePinnedNode: the engine commits the unit itself.
Serve(u) ==
    /\ Consume(u)
    /\ Mode[u] # "handler"
    /\ status[u] \in {"absent", "pending"}
    /\ Mode[u] = "pinned" => scheduled[u] # "skip"
    /\ Conclude(u, IF Mode[u] = "pinned" THEN "pinned" ELSE "skipped", "main", FALSE)
    /\ UNCHANGED sent

\* The task is acknowledged without effect: the execution is over, the unit
\* is terminal, or its lease is live.
Discard(u) ==
    /\ u \in queue
    /\ exec \in Over \/ status[u] \in Final \/ (status[u] = "running" /\ u \notin lapsed)
    /\ queue' = queue \ {u}
    /\ UNCHANGED <<exec, nodeVars, leaseVars, countVars, outbox, sent>>

-----------------------------------------------------------------------------
(* Cancel and the execution deadline.                                      *)

CancelBegin ==
    /\ exec = "running"
    /\ exec' = "canceling"
    /\ UNCHANGED <<nodeVars, leaseVars, countVars, deliveryVars>>

\* cleanupExecutionIndexes: Redis drops the outbox of an execution that was
\* canceled or timed out, on a best-effort pipeline.  The counters it drops
\* too are never read again.
Cleanup ==
    \/ UNCHANGED <<outbox, sent>>
    \/ /\ Backend = "redis"
       /\ outbox' = {}
       /\ sent' = {}

CancelEnd ==
    /\ exec = "canceling"
    /\ exec' = "canceled"
    /\ Cleanup
    /\ UNCHANGED <<nodeVars, leaseVars, countVars, queue>>

ExpireExecution ==
    /\ exec = "running"
    /\ exec' = "timeout"
    /\ Cleanup
    /\ UNCHANGED <<nodeVars, leaseVars, countVars, queue>>

-----------------------------------------------------------------------------
Flush(i) == Deliver(i) \/ SkipUnit(i) \/ Ack(i)

Handle(u) == Acquire(u) \/ Serve(u) \/ Discard(u)

Next ==
    \/ \E u \in Units :
         \/ Report(u)
         \/ \E n \in 1..attempt[u] : Release(u, n) \/ Renew(u, n)
         \/ Lapse(u)
         \/ Reclaim(u)
         \/ Handle(u)
    \/ \E i \in outbox : Flush(i)
    \/ ListExpired
    \/ CancelBegin
    \/ CancelEnd
    \/ ExpireExecution

Spec == Init /\ [][Next]_vars

\* The outbox dispatcher, the queue workers and the lease sweeper keep running,
\* leases run out when nobody renews them, and Cancel is completed by its
\* caller or by the canceling reaper.  A lease holder may die without a
\* report: only the last lease the bound allows is sure to report.  A holder
\* that lives does not renew forever (node and execution deadlines).
Fairness ==
    /\ \A u \in Units :
         /\ WF_vars(\E i \in outbox \ sent : i.unit = u /\ (Deliver(i) \/ SkipUnit(i)))
         /\ WF_vars(Handle(u))
         /\ WF_vars(Lapse(u))
         /\ WF_vars(Reclaim(u))
         /\ WF_vars(attempt[u] = MaxLeases[u] /\ Report(u))
         /\ <>[][~ \E n \in 1..attempt[u] : Renew(u, n)]_vars
    /\ WF_vars(ListExpired)
    /\ WF_vars(CancelEnd)

FairSpec == Spec /\ Fairness

-----------------------------------------------------------------------------
Done(u) == status[u] \in Final
Feeds(e) == Done(e.src) /\ port[e.src] = e.port

\* What the graph says of a unit: it is to run when an input feeds it and, for
\* a wait_all merge, every input is decided; it is dry when every input is
\* decided and none feeds it.
Ready(u) ==
    \/ u \in Roots
    \/ /\ \E e \in In(u) : Feeds(e)
       /\ u \in WaitAny \/ \A e \in In(u) : Done(e.src)
Dry(u) == u \notin Roots /\ \A e \in In(u) : Done(e.src) /\ ~Feeds(e)

\* The store's counters agree with the graph whatever was retried, reclaimed,
\* duplicated or reordered: `remaining` counts the undecided units, and while
\* the execution runs in_degree counts the undecided inputs and active_ins the
\* feeding ones.  An arrival counted twice or lost would start a merge early or
\* strand it.
CountersExact ==
    /\ exec \notin Over => remaining = Cardinality({u \in Units : ~Done(u)})
    /\ exec = "running" => \A v \in Units :
         /\ inDegree[v] = Cardinality({e \in In(v) : ~Done(e.src)})
         /\ activeIns[v] = Cardinality({e \in In(v) : Feeds(e)})

\* No unit is leased, queued, run or served before its merge says so, and none
\* is skipped by the cascade while an input could still feed it.
JoinRespected ==
    \A u \in Units :
        /\ attempt[u] > 0 \/ u \in queue \/ status[u] \in {"pinned", "running"} => Ready(u)
        /\ status[u] = "skipped" => Ready(u) \/ Dry(u)
        /\ status[u] = "skipped" /\ port[u] = "" => Dry(u)

\* While the execution runs nobody's turn is forgotten: an undecided unit
\* waits for an undecided input, or an intent that still has to be delivered,
\* a queued task or a lease stands for it.  Losing the message, the lease
\* holder or the acknowledgement never strands the unit.
NoLostWork ==
    exec = "running" => \A u \in Units :
        \/ Done(u)
        \/ ~Ready(u) /\ ~Dry(u)
        \/ \E i \in outbox \ sent : i.unit = u
        \/ u \in queue
        \/ status[u] = "running"

\* An execution that runs can go on: however the decisions came about, some
\* undecided unit waits for no other, and its turn is held by an intent, a
\* queued task or a lease.  The counters, the markers and the graph would have
\* to disagree for everyone to wait on everyone.
CanGoOn ==
    exec = "running" /\ Units # {} => \E u \in Units :
        /\ ~Done(u) /\ \A e \in In(u) : Done(e.src)
        /\ (\E i \in outbox \ sent : i.unit = u) \/ u \in queue \/ status[u] = "running"

\* The identifier of the intent has been given out: those of the roots when
\* the execution was created, an execute or skip with the unit's marker, a
\* retry or requeue when the lease it names was given back or taken over.
Issued(i) ==
    \/ i.kind = "root"
    \/ i.kind \in {"execute", "skip"} /\ scheduled[i.unit] # "none"
    \/ /\ i.kind \in {"retry", "requeue"}
       /\ i.n < attempt[i.unit] \/ (i.n = attempt[i.unit] /\ status[i.unit] # "running")

\* The verdict of the execution is the verdict of its units: success only when
\* every unit is decided and none failed, failed only when one did, and a
\* running execution has neither a failed unit nor all units decided.
VerdictSound ==
    /\ exec = "success" => \A u \in Units : Done(u) /\ status[u] # "failed"
    /\ exec = "failed" => \E u \in Units : status[u] = "failed"
    /\ exec = "running" => \A u \in Units : status[u] # "failed"
    /\ exec = "running" /\ Units # {} => \E u \in Units : ~Done(u)

\* A decision is final: neither a late report, a redelivered task nor a
\* reclaim reopens a decided unit or changes its port, and no operation
\* changes the status of an execution that is over.
DecisionsAreFinal ==
    [][/\ exec \in Over => exec' = exec
       /\ \A u \in Units : Done(u) => status'[u] = status[u] /\ port'[u] = port[u]]_vars

\* Cancel owns the terminal transition: once an execution is canceling it can
\* only become canceled, even when its last unit commits meanwhile.
CancelWins == [][exec = "canceling" => exec' \in {"canceling", "canceled"}]_vars

-----------------------------------------------------------------------------
(* The inductive invariant behind the properties above.                    *)

\* A scheduling marker is written once and says what the graph says; while
\* the execution runs no marker is overdue.
MarkersSound ==
    \A u \in Units :
        /\ scheduled[u] = "execute" => u \notin Roots /\ Ready(u)
        /\ scheduled[u] = "skip" => Dry(u)
        /\ scheduled[u] = "none" /\ u \notin Roots /\ exec = "running"
             => ~Ready(u) /\ ~Dry(u)

ToRun(u) == u \in Roots \/ scheduled[u] = "execute"

\* Rows, tasks and intents exist only for units that are to run, skip intents
\* only for units marked so; a unit served without a lease was due as well.
WorkJustified ==
    /\ \A u \in Units :
         /\ u \in queue \/ status[u] \in {"pending", "running"} \/ attempt[u] > 0 => ToRun(u)
         /\ status[u] = "pinned" => Ready(u)
         /\ status[u] = "skipped" => IF port[u] = "" THEN Dry(u) ELSE Ready(u)
    /\ \A i \in outbox : IF i.kind = "skip" THEN scheduled[i.unit] = "skip" ELSE ToRun(i.unit)

\* Leases: only a running unit has one to lose, only before its last, and a
\* retry or requeue intent is of an earlier lease than the current one.
LeasesOrdered ==
    /\ \A u \in Units :
         /\ u \in lapsed \cup listed => status[u] = "running" /\ attempt[u] < MaxLeases[u]
         /\ status[u] = "absent" => attempt[u] = 0
         /\ status[u] = "pending" => attempt[u] < MaxLeases[u]
    /\ \A i \in outbox : i.kind \in {"retry", "requeue"} =>
         /\ i.n <= attempt[i.unit]
         /\ i.n = attempt[i.unit] => status[i.unit] # "running"

\* Whatever is to happen to an undecided unit of a running execution is held
\* by an intent not yet delivered, by the queue or by a lease.
WorkHeld ==
    exec = "running" => \A u \in Units :
        /\ ~Done(u) /\ ToRun(u) =>
             \/ \E i \in outbox \ sent : i.unit = u
             \/ u \in queue
             \/ status[u] = "running"
        /\ ~Done(u) /\ scheduled[u] = "skip" => \E i \in outbox \ sent : i.unit = u

\* No unit has failed while the verdict is still open.
FailureConcludes ==
    exec \notin Over /\ MayFinish => failed = 0 /\ \A u \in Units : status[u] # "failed"

\* The invariant every step preserves: the counters are exact, the markers
\* follow the graph, all work is justified, ordered by lease and held by
\* someone, and a failure concludes the execution.
IndInv ==
    /\ TypeOK
    /\ CountersExact
    /\ MarkersSound
    /\ WorkJustified
    /\ LeasesOrdered
    /\ WorkHeld
    /\ FailureConcludes
    /\ VerdictSound

-----------------------------------------------------------------------------
\* The abstract execution: a unit is open until the store has a terminal row.
Flow == INSTANCE Dataflow WITH
    decision <- [u \in Units |-> IF Done(u) THEN status[u] ELSE "open"],
    CancelOwnsVerdict <- Backend = "redis"

\* Leases, retries, reclaims, redeliveries and counters implement the plain
\* dataflow execution: each unit is decided once, in an order the graph
\* allows, and the status of the execution follows from the decisions.
ImplementsDataflow == Flow!Spec

\* Every execution ends, although lease holders die, messages are duplicated
\* and leases are reclaimed under live holders.
Terminates == <>(exec \in Over)
=============================================================================
