-------------------------- MODULE RunnerDirectory --------------------------
(***************************************************************************)
(* The control-plane requests that hand a task to a runner through the     *)
(* runner directory:                                                       *)
(*                                                                         *)
(*   deliver -> queued -> claimed -> (engine lease built) -> leased        *)
(*           -> result committed -> row removed                            *)
(*                                                                         *)
(* A request (a poll, a report) is a sequence of the scripts of            *)
(* HandoffLedger and of engine calls, between which anything may happen:   *)
(* other requests, the sweeper and its reapers, a re-registration, the     *)
(* death of the request, of the runner or of the sweeper.                  *)
(*                                                                         *)
(* A claim whose engine lease may exist leaves a debt in the handoff       *)
(* ledger; the owner's next poll or the orphan reaper settles it by asking *)
(* the engine.  The engine (engine/lease.go) is the authority: it fences   *)
(* every lease by its token, here the number of the lease.                 *)
(***************************************************************************)
EXTENDS HandoffLedger

CONSTANTS
    Groups,       \* the tasks that run a node group
    Requests,     \* poll and report requests in progress in the control plane
    MaxFaults,    \* bound: crashes, lost answers, errors and redeliveries
    Slow          \* a request may outlast the TTL of its claim

ASSUME BoundsAssumption ==
    Groups \subseteq Tasks /\ MaxFaults \in Nat /\ Slow \in BOOLEAN

VARIABLES
    \* engine: node status, newest lease, overdue leases, outstanding intents
    node, token, lapsed, due,
    \* ghost: tasks whose newest intent was taken for a duplicate of an attempt
    absorbed,
    \* requests, the sweeper's pass, the leases a runner is executing
    job, sweep, held, faults

engineVars == <<node, token, lapsed, due, absorbed>>
vars == <<engineVars, dirVars, made, runnerVars, job, sweep, held, faults>>

Idle == [pc |-> "idle", runner |-> Nobody, session |-> 0, task |-> NoTask, claim |-> 0, lease |-> 0]
Resting == [pc |-> "idle", task |-> NoTask, lease |-> 0]

Asking == {"build", "giveup", "giveback", "recover", "record", "finalize", "resolve", "orphan", "drop", "requeue"}
Steps == Asking \cup {"idle", "mark", "replay", "respond", "commit", "release", "release_stale"}

Jobs == [pc : Steps, runner : Runners \cup {Nobody}, session : Sessions,
         task : Tasks \cup {NoTask}, claim : Claims \cup {0}, lease : Leases]

EngineType ==
    /\ node \in [Tasks -> {"pending", "running", "done"}]
    /\ token \in [Tasks -> Leases]
    /\ lapsed \subseteq Tasks /\ due \subseteq Tasks /\ absorbed \subseteq Tasks

FlowType ==
    /\ job \in [Requests -> Jobs]
    /\ sweep \in [pc : {"idle", "release", "reclaim", "settle"},
                  task : Tasks \cup {NoTask}, lease : Leases]
    /\ held \in [Runners -> SUBSET (Tasks \X Leases)]
    /\ faults \in 0..MaxFaults

TypeOK == EngineType /\ DirType /\ FlowType

\* Every task's first intent is in the outbox.
Init ==
    /\ node = [t \in Tasks |-> "pending"] /\ token = [t \in Tasks |-> 0]
    /\ lapsed = {} /\ due = Tasks /\ absorbed = {}
    /\ DirInit
    /\ job = [p \in Requests |-> Idle] /\ sweep = Resting
    /\ held = [r \in Runners |-> {}] /\ faults = 0

-----------------------------------------------------------------------------
(* What the steps share.                                                   *)

Fault == faults < MaxFaults /\ faults' = faults + 1

Running(t) == node[t] = "running"

\* A scheduling intent for t is appended to the outbox.
Intend(t) == due' = due \cup {t} /\ absorbed' = absorbed \ {t}

\* RecoverTaskLease: a running lease that has not run out.  RecoverGroupLease
\* does not look at the deadline.
Recoverable(t) == Running(t) /\ (t \in Groups \/ t \notin lapsed)

\* The engine's fence: n is the task's newest lease, and not revoked.
Current(t, n) == Running(t) /\ token[t] = n

WorkingOn(c) == \E p \in Requests : job[p].claim = c /\ job[p].pc # "respond"

\* A live runner executes the task's newest lease, and renews it.
Attended(t) == \E r \in Runners : health[r] = "live" /\ <<t, token[t]>> \in held[r]

Enter(p, pc) == job' = [job EXCEPT ![p].pc = pc]
Leave(p) == job' = [job EXCEPT ![p] = Idle]

\* The request goes on with a lease it got from the engine.
Got(p, pc, n) ==
    job' = [job EXCEPT ![p] = [pc |-> pc, runner |-> job[p].runner, session |-> job[p].session,
                               task |-> job[p].task, claim |-> job[p].claim, lease |-> n]]

-----------------------------------------------------------------------------
(* The dispatcher puts a delivered task into the directory.                *)

\* Dispatcher.HandleTask: a task that is over is dropped.  The transport may
\* deliver the task again.
Deliver(t) ==
    /\ t \in due
    /\ \/ /\ due' = due \ {t} /\ UNCHANGED faults
          /\ absorbed' = IF row[t].state \in {"claimed", "leased"} THEN absorbed \cup {t} ELSE absorbed
       \/ Fault /\ UNCHANGED <<due, absorbed>>
    /\ IF node[t] = "done" THEN UNCHANGED <<row, queue, meta>> ELSE Enqueue(t)
    /\ UNCHANGED <<node, token, lapsed, ledgerVars, claims, leases, made, runnerVars, job, sweep, held>>

-----------------------------------------------------------------------------
(* A poll: ClaimForRunner, then the dispatch of what it returned.          *)

Polls(p, r) == job[p].pc = "idle" /\ health[r] = "live"

Work(pc, r, t, c, n) ==
    [pc |-> pc, runner |-> r, session |-> session[r], task |-> t, claim |-> c, lease |-> n]

\* recoverableHandoff: the runner's own uncertain debt comes first.
PollTake(p, r, c) ==
    /\ Polls(p, r)
    /\ debt[c].runner = r /\ debt[c].session = session[r]
    /\ TakeRecovery(c)
    /\ job' = [job EXCEPT ![p] = Work("resolve", r, debt[c].task, c, 0)]
    /\ UNCHANGED <<engineVars, made, runnerVars, sweep, held, faults>>

\* replayLease: a lease of this session that the runner is not executing.
Replayable(r, t) ==
    /\ row[t].state = "leased" /\ row[t].runner = r /\ row[t].session = session[r]
    /\ <<t, row[t].lease>> \notin held[r]

\* The lease is rebuilt by the engine before it is handed out, unless the
\* metadata has kept the input (leaseMetaKeepsInput: a suspending node).
PollReplay(p, r, t) ==
    /\ Polls(p, r) /\ Replayable(r, t) /\ t \in meta
    /\ \E pc \in {"replay", "respond"} :
         /\ t \in Groups => pc = "replay"
         /\ job' = [job EXCEPT ![p] = Work(pc, r, t, 0, row[t].lease)]
    /\ UNCHANGED <<engineVars, dirVars, made, runnerVars, sweep, held, faults>>

\* The lease's metadata has expired: the row is released by the poll.
PollStranded(p, r, t) ==
    /\ Polls(p, r) /\ t \notin meta
    /\ row[t].state = "leased" /\ row[t].runner = r /\ row[t].session = session[r]
    /\ ReleaseExpired(t)
    /\ UNCHANGED <<engineVars, made, runnerVars, job, sweep, held, faults>>

PollClaim(p, r, t) ==
    /\ Polls(p, r) /\ made < MaxClaims
    /\ made' = made + 1
    /\ ClaimAssignment(r, t, made + 1)
    /\ job' = [job EXCEPT ![p] = Work("mark", r, t, made + 1, 0)]
    /\ UNCHANGED <<engineVars, runnerVars, sweep, held, faults>>

At(p, pc) == job[p].pc = pc

\* prepareClaimLease: the crash fence is written before the engine is asked.
Mark(p) ==
    LET c == job[p].claim IN
    /\ At(p, "mark")
    /\ IF Owns(c) /\ debt[c].state \in {"reserved", "lease_may_exist"}
       THEN MarkLeaseMayExist(c) /\ Enter(p, "build")
       ELSE UNCHANGED dirVars /\ Leave(p)
    /\ UNCHANGED <<engineVars, made, runnerVars, sweep, held, faults>>

\* A node that is pending, or whose lease ran out; a group that is not running.
Buildable(t) ==
    IF t \in Groups THEN node[t] = "pending" ELSE node[t] = "pending" \/ (Running(t) /\ t \in lapsed)

Grant(t) ==
    /\ token[t] < MaxLeases
    /\ node' = [node EXCEPT ![t] = "running"]
    /\ token' = [token EXCEPT ![t] = @ + 1]
    /\ lapsed' = lapsed \ {t}
    /\ UNCHANGED <<due, absorbed>>

\* BuildTaskLease, BuildGroupLease.  A task that is over is settled as dropped.
\* The input of a node is read after its lease is written, and may fail.
Build(p) ==
    LET t == job[p].task IN
    /\ At(p, "build")
    /\ IF Buildable(t)
       THEN /\ Grant(t)
            /\ \/ Got(p, "record", token[t] + 1) /\ UNCHANGED faults
               \/ t \notin Groups /\ Fault /\ Got(p, "giveup", token[t] + 1)
       ELSE /\ Enter(p, IF node[t] = "done" THEN "drop" ELSE "recover")
            /\ UNCHANGED <<engineVars, faults>>
    /\ UNCHANGED <<dirVars, made, runnerVars, sweep, held>>

\* ReleaseTaskLease, fenced by the token: the lease nobody got is revoked and
\* the task goes back to the outbox.
GiveUp(p) ==
    LET t == job[p].task IN
    /\ At(p, "giveup")
    /\ IF Current(t, job[p].lease)
       THEN /\ node' = [node EXCEPT ![t] = "pending"] /\ lapsed' = lapsed \ {t}
            /\ Intend(t) /\ UNCHANGED token
       ELSE UNCHANGED engineVars
    /\ Enter(p, "giveback")
    /\ UNCHANGED <<dirVars, made, runnerVars, sweep, held, faults>>

\* requeueClaimAfterDispatchFailure: the claim and its debt stay.
GiveBack(p) ==
    /\ At(p, "giveback")
    /\ MakeRecoverable(job[p].claim)
    /\ Leave(p)
    /\ UNCHANGED <<engineVars, made, runnerVars, sweep, held, faults>>

\* The engine, or the directory, answers with an error: the debt is kept and
\* the resolver token given back.
Fails(p) ==
    /\ job[p].pc \in Asking
    /\ Fault
    /\ MakeRecoverable(job[p].claim)
    /\ Leave(p)
    /\ UNCHANGED <<engineVars, made, runnerVars, sweep, held>>

\* A lease is already active: recover that exact lease.  A node that is over in
\* an execution that goes on is not recoverable; a group without a lease, and
\* whatever belongs to an execution that is over, is dropped.
Recover(p) ==
    LET t == job[p].task IN
    /\ At(p, "recover")
    /\ \/ /\ Recoverable(t)
          /\ Got(p, "record", token[t])
          /\ UNCHANGED dirVars
       \/ /\ node[t] = "done" \/ (t \in Groups /\ ~Running(t))
          /\ Enter(p, "drop") /\ UNCHANGED dirVars
       \/ /\ ~Recoverable(t) /\ t \notin Groups
          /\ MakeRecoverable(job[p].claim) /\ Leave(p)
    /\ UNCHANGED <<engineVars, made, runnerVars, sweep, held, faults>>

\* recordClaimLeaseCreated.
Record(p) ==
    LET c == job[p].claim IN
    /\ At(p, "record")
    /\ IF Owns(c) /\ debt[c].state \in Uncertain
       THEN RecordLeaseCreated(c, job[p].lease) /\ Enter(p, "finalize")
       ELSE MakeRecoverable(c) /\ Leave(p)
    /\ UNCHANGED <<engineVars, made, runnerVars, sweep, held, faults>>

Finalize(p) ==
    LET c == job[p].claim IN
    /\ At(p, "finalize")
    /\ IF Finalizable(c)
       THEN FinalizeClaim(c, job[p].lease) /\ Enter(p, "respond")
       ELSE MakeRecoverable(c) /\ Leave(p)
    /\ UNCHANGED <<engineVars, made, runnerVars, sweep, held, faults>>

\* The answer reaches the runner that asked, or it is lost.
Respond(p) ==
    LET r == job[p].runner IN
    /\ At(p, "respond")
    /\ \/ /\ health[r] = "live" /\ session[r] = job[p].session
          /\ held' = [held EXCEPT ![r] = @ \cup {<<job[p].task, job[p].lease>>}]
          /\ UNCHANGED faults
       \/ ~(health[r] = "live" /\ session[r] = job[p].session) /\ UNCHANGED <<held, faults>>
       \/ Fault /\ UNCHANGED held
    /\ Leave(p)
    /\ UNCHANGED <<engineVars, dirVars, made, runnerVars, sweep>>

\* Faulty: a task without a lease is taken to be over.
ResolveDrops(p) ==
    LET t == job[p].task IN
    /\ At(p, "resolve")
    /\ IF Recoverable(t) THEN Got(p, "finalize", token[t]) ELSE Enter(p, "drop")
    /\ UNCHANGED <<engineVars, dirVars, made, runnerVars, sweep, held, faults>>

\* The engine has no lease to recover: ErrExecutionInactive or
\* ErrGroupLeaseNotActive drops the assignment, ErrLeaseNotRecoverable requeues
\* it, also when the node is over and its execution is not.
Disposed(p) ==
    LET t == job[p].task IN
    \/ (node[t] = "done" \/ t \in Groups) /\ Enter(p, "drop")
    \/ t \notin Groups /\ Enter(p, "requeue")

\* resolveHandoffClaim: the engine decides what an uncertain handoff was.
Resolve(p) ==
    LET t == job[p].task IN
    /\ At(p, "resolve")
    /\ IF Recoverable(t) THEN Got(p, "finalize", token[t]) ELSE Disposed(p)
    /\ UNCHANGED <<engineVars, dirVars, made, runnerVars, sweep, held, faults>>

\* settleClaimHandoff; a claim that cannot be settled is given back.
Settle(p, disposition) ==
    LET c == job[p].claim IN
    /\ At(p, disposition)
    /\ IF Settleable(c)
       THEN SettleHandoff(c, disposition)
       ELSE MakeRecoverable(c)
    /\ Leave(p)
    /\ UNCHANGED <<engineVars, made, runnerVars, sweep, held, faults>>

\* A node is answered with the lease the engine has now, or the poll ends with
\* an error.  replayGroupLease keeps the lease of the row; a group without a
\* lease is taken to be over, and when the whole execution is over the poll
\* ends with an error.
Replay(p) ==
    LET t == job[p].task IN
    /\ At(p, "replay")
    /\ \/ t \in Groups /\ Running(t) /\ UNCHANGED dirVars /\ Enter(p, "respond")
       \/ t \in Groups /\ ~Running(t) /\ ClearAssignment(t) /\ Leave(p)
       \/ t \in Groups /\ node[t] = "done" /\ UNCHANGED dirVars /\ Leave(p)
       \/ /\ t \notin Groups /\ UNCHANGED dirVars
          /\ IF Recoverable(t) THEN Got(p, "respond", token[t]) ELSE Leave(p)
    /\ UNCHANGED <<engineVars, made, runnerVars, sweep, held, faults>>

-----------------------------------------------------------------------------
(* A report: LookupLease, the engine commit, ReleaseLeased.                *)

\* LookupLease resolves a lease only for the runner and session that hold it.
Resolves(r, t, n) ==
    /\ Registered(r)
    /\ row[t].state = "leased" /\ row[t].runner = r /\ row[t].session = session[r]
    /\ row[t].lease = n /\ t \in meta

\* A result whose lease the directory does not resolve is refused.  A runner
\* whose heartbeats are lost may still report.
Report(p, r, t, n) ==
    /\ job[p].pc = "idle" /\ <<t, n>> \in held[r]
    /\ IF Resolves(r, t, n)
       THEN job' = [job EXCEPT ![p] = Work("commit", r, t, 0, n)] /\ UNCHANGED held
       ELSE held' = [held EXCEPT ![r] = @ \ {<<t, n>>}] /\ UNCHANGED job
    /\ UNCHANGED <<engineVars, dirVars, made, runnerVars, sweep, faults>>

\* CommitTaskResultWithOutcome, fenced by the token.  A retry is accepted like
\* a result: the node is pending again and its intent is in the outbox.
Commit(p) ==
    LET t == job[p].task IN
    /\ At(p, "commit")
    /\ \/ /\ Current(t, job[p].lease)
          /\ node' = [node EXCEPT ![t] = "done"] /\ lapsed' = lapsed \ {t}
          /\ Enter(p, "release") /\ UNCHANGED <<token, due, absorbed>>
       \/ /\ Current(t, job[p].lease) /\ token[t] < MaxLeases /\ t \notin Groups
          /\ node' = [node EXCEPT ![t] = "pending"] /\ lapsed' = lapsed \ {t}
          /\ Intend(t)
          /\ Enter(p, "release") /\ UNCHANGED token
       \/ node[t] = "done" /\ Enter(p, "release") /\ UNCHANGED engineVars
       \/ /\ ~Current(t, job[p].lease) /\ node[t] # "done"
          /\ Enter(p, "release_stale") /\ UNCHANGED engineVars
    /\ UNCHANGED <<dirVars, made, runnerVars, sweep, held, faults>>

\* Only a stale result leaves the assignment known to the directory.
Release(p) ==
    LET r == job[p].runner
        t == job[p].task
        n == job[p].lease IN
    /\ job[p].pc \in {"release", "release_stale"}
    /\ ReleaseLeased(r, t, n, job[p].pc # "release_stale")
    /\ held' = [held EXCEPT ![r] = @ \ {<<t, n>>}]
    /\ Leave(p)
    /\ UNCHANGED <<engineVars, made, runnerVars, sweep, faults>>

\* The control-plane process dies in the middle of a request, or the
\* directory does not answer it.
Dies(p) ==
    /\ job[p].pc \notin {"idle", "respond"}
    /\ Fault
    /\ Leave(p)
    /\ UNCHANGED <<engineVars, dirVars, made, runnerVars, sweep, held>>

\* renewLease: fenced by the token only.
Renew(r, t) ==
    /\ <<t, token[t]>> \in held[r]
    /\ Resolves(r, t, token[t]) /\ Running(t) /\ t \in lapsed
    /\ lapsed' = lapsed \ {t}
    /\ UNCHANGED <<node, token, due, absorbed, dirVars, made, runnerVars, job, sweep, held, faults>>

-----------------------------------------------------------------------------
(* Time, the sweeper and its reapers.                                      *)

\* The deadline of a lease passes: nobody renews it, or the renewals fail.
Lapse(t) ==
    /\ Running(t) /\ t \notin lapsed
    /\ lapsed' = lapsed \cup {t}
    /\ IF Attended(t) THEN Fault ELSE UNCHANGED faults
    /\ UNCHANGED <<node, token, due, absorbed, dirVars, made, runnerVars, job, sweep, held>>

\* The metadata key outlives the lease it was written for, unless a renewal
\* could not refresh it.
MetaExpires(t) ==
    /\ t \in meta
    /\ meta' = meta \ {t}
    /\ IF Running(t) /\ t \notin lapsed THEN Fault ELSE UNCHANGED faults
    /\ UNCHANGED <<engineVars, row, queue, ledgerVars, claims, leases, made, runnerVars, job, sweep, held>>

ReclaimExpired(c) ==
    /\ c \in expiry
    /\ Slow \/ ~WorkingOn(c)
    /\ ReclaimClaim(c)
    /\ UNCHANGED <<engineVars, made, runnerVars, job, sweep, held, faults>>

\* SweepOnce: the list of expired leases is read before they are handled.
SweepList(t) ==
    /\ sweep.pc = "idle" /\ Running(t) /\ t \in lapsed
    /\ sweep' = [pc |-> "release", task |-> t, lease |-> token[t]]
    /\ UNCHANGED <<engineVars, dirVars, made, runnerVars, job, held, faults>>

\* The directory is cleaned up first; a newer lease stops the reclaim.
SweepRelease ==
    LET t == sweep.task IN
    /\ sweep.pc = "release"
    /\ \/ /\ row[t].state = "leased" /\ row[t].lease = sweep.lease
          /\ ReleaseExpired(t)
          /\ sweep' = [sweep EXCEPT !.pc = "reclaim"]
       \/ /\ row[t].state # "leased"
          /\ sweep' = [sweep EXCEPT !.pc = "reclaim"] /\ UNCHANGED dirVars
       \/ /\ row[t].state = "leased" /\ row[t].lease # sweep.lease
          /\ sweep' = Resting /\ UNCHANGED dirVars
    /\ UNCHANGED <<engineVars, made, runnerVars, job, held, faults>>

\* ReclaimLease: revocation and requeue intent are one engine transition.
SweepReclaim ==
    LET t == sweep.task IN
    /\ sweep.pc = "reclaim"
    /\ IF Current(t, sweep.lease)
       THEN /\ node' = [node EXCEPT ![t] = "pending"]
            /\ lapsed' = lapsed \ {t} /\ Intend(t)
            /\ sweep' = [sweep EXCEPT !.pc = "settle"] /\ UNCHANGED token
       ELSE sweep' = Resting /\ UNCHANGED engineVars
    /\ UNCHANGED <<dirVars, made, runnerVars, job, held, faults>>

SweepSettle ==
    /\ sweep.pc = "settle"
    /\ SettleFinalized(sweep.task, sweep.lease)
    /\ sweep' = Resting
    /\ UNCHANGED <<engineVars, row, queue, meta, claims, leases, made, runnerVars, job, held, faults>>

SweepDies ==
    /\ sweep.pc # "idle" /\ Fault
    /\ sweep' = Resting
    /\ UNCHANGED <<engineVars, dirVars, made, runnerVars, job, held>>

\* reapStrandedAssignment: a leased row without metadata, released and settled.
ReapStranded(t) ==
    /\ sweep.pc = "idle"
    /\ row[t].state = "leased" /\ t \notin meta
    /\ ReleaseExpired(t)
    /\ sweep' = [pc |-> "settle", task |-> t, lease |-> row[t].lease]
    /\ UNCHANGED <<engineVars, made, runnerVars, job, held, faults>>

\* settleReleasedLeaseHandoff: a finalized record whose row is gone.
ReapLedger(c) ==
    /\ debt[c].state = "finalized" /\ row[debt[c].task].state = "none"
    /\ SettleFinalized(debt[c].task, debt[c].lease)
    /\ UNCHANGED <<engineVars, row, queue, meta, claims, leases, made, runnerVars, job, sweep, held, faults>>

\* ReapDeadQueuedAssignments: a queued row of a task that is over.
ReapDeadQueued(t) ==
    /\ row[t].state = "queued" /\ node[t] = "done"
    /\ row' = [row EXCEPT ![t] = NoRow]
    /\ queue' = queue \ {t}
    /\ UNCHANGED <<engineVars, meta, ledgerVars, claims, leases, made, runnerVars, job, sweep, held, faults>>

\* takeOrphanedHandoff: the debt of a runner that no longer polls.
OrphanTake(p, c) ==
    /\ job[p].pc = "idle"
    /\ debt[c].state \in Uncertain /\ health[debt[c].runner] # "live"
    /\ TakeRecovery(c)
    /\ job' = [job EXCEPT ![p] = [pc |-> "orphan", runner |-> Nobody, session |-> 0,
                                    task |-> debt[c].task, claim |-> c, lease |-> 0]]
    /\ UNCHANGED <<engineVars, made, runnerVars, sweep, held, faults>>

\* reapOrphanedHandoff: like resolveHandoffClaim, with no runner to serve.
OrphanAsk(p) ==
    LET t == job[p].task IN
    /\ At(p, "orphan")
    /\ IF Recoverable(t)
       THEN MakeRecoverable(job[p].claim) /\ Leave(p)
       ELSE Disposed(p) /\ UNCHANGED dirVars
    /\ UNCHANGED <<engineVars, made, runnerVars, sweep, held, faults>>

-----------------------------------------------------------------------------
(* Runners come and go; executions end.                                    *)

\* A runner starts, restarts, or registers anew when its session is unknown.
Register(r) ==
    /\ session[r] < MaxSessions /\ health[r] # "live"
    /\ RegisterRunner(r, session[r] + 1)
    /\ session' = [session EXCEPT ![r] = @ + 1]
    /\ health' = [health EXCEPT ![r] = "live"]
    /\ UNCHANGED <<engineVars, made, job, sweep, held, faults>>

\* The runner stops, losing what it executes, or its heartbeats do not arrive.
RunnerLost(r) ==
    /\ health[r] = "live" /\ Fault
    /\ \/ /\ health' = [health EXCEPT ![r] = "dead"]
          /\ held' = [held EXCEPT ![r] = {}]
       \/ health' = [health EXCEPT ![r] = "silent"] /\ UNCHANGED held
    /\ UNCHANGED <<engineVars, dirVars, made, session, job, sweep>>

Heartbeat(r) ==
    /\ health[r] = "silent"
    /\ health' = [health EXCEPT ![r] = "live"]
    /\ UNCHANGED <<engineVars, dirVars, made, session, job, sweep, held, faults>>

RemoveRunner(r) ==
    /\ Registered(r) /\ ~Outstanding(r)
    /\ health' = [health EXCEPT ![r] = "gone"]
    /\ UNCHANGED <<engineVars, dirVars, made, session, job, sweep, held, faults>>

\* The execution ends by another way: it is cancelled or times out.
Finish(t) ==
    /\ node[t] # "done" /\ Fault
    /\ node' = [node EXCEPT ![t] = "done"] /\ lapsed' = lapsed \ {t}
    /\ UNCHANGED <<token, due, absorbed, dirVars, made, runnerVars, job, sweep, held>>

Advance(p) ==
    \/ Mark(p) \/ Build(p) \/ GiveUp(p) \/ GiveBack(p) \/ Recover(p) \/ Record(p) \/ Finalize(p) \/ Respond(p)
    \/ Resolve(p) \/ Settle(p, "drop") \/ Settle(p, "requeue") \/ Replay(p)
    \/ Commit(p) \/ Release(p) \/ OrphanAsk(p)

Poll(p, r) ==
    \/ \E c \in Claims : PollTake(p, r, c)
    \/ \E t \in Tasks : PollReplay(p, r, t) \/ PollStranded(p, r, t) \/ PollClaim(p, r, t)

Sweep == (\E t \in Tasks : SweepList(t)) \/ SweepRelease \/ SweepReclaim \/ SweepSettle

Next ==
    \/ \E t \in Tasks :
         \/ Deliver(t) \/ Lapse(t) \/ MetaExpires(t) \/ Finish(t)
         \/ ReapStranded(t) \/ ReapDeadQueued(t)
    \/ \E c \in Claims : ReclaimExpired(c) \/ ReapLedger(c)
    \/ \E p \in Requests :
         \/ Advance(p) \/ Fails(p) \/ Dies(p)
         \/ \E r \in Runners : Poll(p, r) \/ \E t \in Tasks, n \in 1..MaxLeases : Report(p, r, t, n)
         \/ \E c \in Claims : OrphanTake(p, c)
    \/ \E r \in Runners : Register(r) \/ RunnerLost(r) \/ Heartbeat(r) \/ RemoveRunner(r) \/ \E t \in Tasks : Renew(r, t)
    \/ Sweep \/ SweepDies

Spec == Init /\ [][Next]_vars

\* Requests proceed, expired claims are swept, ready debts are taken: every
\* poll of a runner, and every pass of the reaper, begins with the ready debts.
Fairness ==
    /\ \A p \in Requests : WF_vars(Advance(p))
    /\ \A c \in Claims :
         /\ WF_vars(ReclaimExpired(c))
         /\ SF_vars(\E p \in Requests : OrphanTake(p, c) \/ \E r \in Runners : PollTake(p, r, c))
    /\ \A t \in Tasks : WF_vars(Lapse(t))
    /\ WF_vars(Sweep)

FairSpec == Spec /\ Fairness

-----------------------------------------------------------------------------
(* Properties.                                                             *)

\* The crash fence: while a request may be asking the engine for a lease, its
\* claim, if it still has it, is an uncertain handoff.  So no timer and no
\* registration puts the task back into the queue behind its back.
FenceFirst ==
    \A p \in Requests :
        job[p].pc \in Asking /\ job[p].claim \in live => debt[job[p].claim].state \in Uncertain

\* "Claim present, expiry entry absent" only for a handoff that waits to be
\* taken (comment of redisRecoverExpiredClaimsLua), provided that a request
\* does not outlast its claim.
ParkedIsReady == ~Slow => live \subseteq expiry \cup ready

\* A claim is parked "never permanently" (comment of
\* redisRecoverExpiredClaimsLua): whatever dies between claim, engine lease and
\* finalization, the claim is finalized, dropped or requeued in the end,
\* provided that a request does not outlast its claim.
HandoffSettled == ~Slow => \A c \in Claims : c \in live ~> c \notin live

\* No crash, error, sweep, reaper or registration makes the directory forget a
\* node task the engine waits for: its intent is in the outbox, or it is queued
\* or claimed, unless a delivery of that intent was answered as a duplicate of
\* an attempt under way (EnqueueAssignment).
LostOnlyAsDuplicate ==
    \A t \in Tasks \ Groups :
        node[t] = "pending" => t \in due \cup absorbed \/ row[t].state \in {"queued", "claimed"}

\* Through every request, crash, sweep, reaper and registration an assignment
\* moves as on a plain board: to a runner only from the queue and within its
\* capacity, from its claim to its lease with the same runner, and back to the
\* queue only from a claim, never from a lease.
ImplementsBoard == Board!Spec

\* docs/design/RELEASE-GATES.md: the production promise is that no scheduling
\* intent is lost.  A task the engine waits for is in the outbox or in the
\* directory.
IntentKept ==
    \A t \in Tasks : node[t] = "pending" => t \in due \/ row[t].state \in {"queued", "claimed", "leased"}
=============================================================================
