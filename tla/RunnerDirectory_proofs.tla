----------------------- MODULE RunnerDirectory_proofs -----------------------
(***************************************************************************)
(* Every step of a request, of the sweeper and of a runner keeps LedgerInv,*)
(* for any number of tasks, runners and requests, and whatever crashes.    *)
(* The lemmas about the scripts are those of HandoffLedger_proofs.         *)
(***************************************************************************)
EXTENDS RunnerDirectory, HandoffLedger_proofs

\* What a request or the sweeper carries with it.
Carried ==
    /\ \A p \in Requests : job[p].pc \in Asking \cup {"mark"} => job[p].claim \in 1..made
    /\ \A p \in Requests : job[p].pc # "idle" => job[p].task \in Tasks
    /\ sweep.pc # "idle" => sweep.task \in Tasks

LedgerInv == TypeOK /\ DirInv /\ FenceFirst /\ Carried

LEMMA InitLedger == Init => LedgerInv
<1> SUFFICES ASSUME Init PROVE LedgerInv
  OBVIOUS
<1>1. EngineType
  BY Zenon, Numbers DEF Init, EngineType
<1>2. DirInv
  BY Zenon, InitKeeps DEF Init
<1>3. FlowType
  BY Numbers, BoundsAssumption DEF Init, FlowType, Jobs, Idle, Resting, Steps
<1>4. FenceFirst /\ Carried
  BY Zenon DEF Init, FenceFirst, Carried, Idle, Resting, Asking
<1> QED
  BY Zenon, <1>1, <1>2, <1>3, <1>4 DEF LedgerInv, TypeOK, DirInv

-----------------------------------------------------------------------------
(* The requests.                                                           *)

\* The request p goes on to pc, with the task t and the claim c.
Moves(p, pc, t, c) ==
    /\ job' \in [Requests -> Jobs]
    /\ \A q \in Requests \ {p} : job'[q] = job[q]
    /\ job'[p].pc = pc /\ job'[p].task = t /\ job'[p].claim = c

LEMMA EnterMoves ==
  ASSUME FlowType, NEW p \in Requests, NEW pc \in Steps, Enter(p, pc)
  PROVE  Moves(p, pc, job[p].task, job[p].claim)
  BY DEF FlowType, Jobs, Enter, Moves

LEMMA GrantMoves ==
  ASSUME FlowType, NEW p \in Requests, NEW pc \in Steps, NEW n \in Leases, Got(p, pc, n)
  PROVE  Moves(p, pc, job[p].task, job[p].claim)
  BY Zenon DEF FlowType, Jobs, Got, Moves

LEMMA LeaveMoves ==
  ASSUME FlowType, NEW p \in Requests, Leave(p)
  PROVE  Moves(p, "idle", NoTask, 0)
  BY Zenon, Numbers DEF FlowType, Jobs, Leave, Moves, Idle, Steps

LEMMA WorkMoves ==
  ASSUME FlowType, DirType, NEW p \in Requests, NEW pc \in Steps, NEW r \in Runners, NEW t \in Tasks,
         NEW c \in Claims \cup {0}, NEW n \in Leases, job' = [job EXCEPT ![p] = Work(pc, r, t, c, n)]
  PROVE  Moves(p, pc, t, c)
  BY Zenon DEF FlowType, DirType, Jobs, Moves, Work

LEMMA OldFences ==
  ASSUME LedgerInv, StaysFenced
  PROVE  \A q \in Requests : job[q].pc \in Asking /\ job[q].claim \in live' =>
            debt'[job[q].claim].state \in Uncertain
  BY DEF LedgerInv, FenceFirst, Carried, StaysFenced, TypeOK, FlowType

\* What a request must bring for the fence and the rest of LedgerInv.
LEMMA MovesFenced ==
  ASSUME LedgerInv, StaysFenced, made' = made, sweep' = sweep,
         NEW p \in Requests, NEW pc, NEW t, NEW c, Moves(p, pc, t, c),
         pc \in Asking \cup {"mark"} => c \in 1..made,
         pc # "idle" => t \in Tasks,
         pc \in Asking => \/ job[p].pc \in Asking /\ c = job[p].claim
                          \/ c \in live' => debt'[c].state \in Uncertain
  PROVE  FenceFirst' /\ Carried'
<1>1. FenceFirst'
  BY Zenon, OldFences DEF FenceFirst, Moves
<1>2. Carried'
  BY Zenon DEF Carried, Moves, LedgerInv
<1> QED
  BY Zenon, <1>1, <1>2

\* A request that leaves, and one that goes on with the claim it has.
LEMMA IdleFenced ==
  ASSUME LedgerInv, StaysFenced, made' = made, sweep' = sweep,
         NEW p \in Requests, Moves(p, "idle", NoTask, 0)
  PROVE  FenceFirst' /\ Carried'
  BY Zenon, MovesFenced DEF Asking

LEMMA OnFenced ==
  ASSUME LedgerInv, StaysFenced, made' = made, sweep' = sweep,
         NEW p \in Requests, NEW pc, Moves(p, pc, job[p].task, job[p].claim),
         job[p].pc # "idle", job[p].pc \in Asking \/ pc \notin Asking, pc # "mark"
  PROVE  FenceFirst' /\ Carried'
<1>1. job[p].task \in Tasks /\ (pc \in Asking => job[p].claim \in 1..made)
  BY Zenon DEF LedgerInv, Carried
<1>2. pc \in Asking \cup {"mark"} => job[p].claim \in 1..made
  BY Zenon, <1>1
<1>3. pc \in Asking => job[p].pc \in Asking
  OBVIOUS
<1>4. pc # "idle" => job[p].task \in Tasks
  BY Zenon, <1>1
<1>5. FenceFirst'
  BY Zenon, <1>3, OldFences DEF FenceFirst, Moves
<1>6. Carried'
  BY Zenon, <1>2, <1>4 DEF Carried, Moves, LedgerInv
<1> QED
  BY Zenon, <1>5, <1>6

LEMMA SameFenced ==
  ASSUME LedgerInv, StaysFenced, made' = made, job' = job, sweep'.pc # "idle" => sweep'.task \in Tasks
  PROVE  FenceFirst' /\ Carried'
<1> USE DEF LedgerInv
<1>1. FenceFirst'
  BY DEF FenceFirst, Carried, StaysFenced, TypeOK, FlowType
<1> QED
  BY Zenon, <1>1 DEF Carried

LEMMA FaultTyped ==
  ASSUME FlowType, Fault
  PROVE  faults' \in 0..MaxFaults
  BY BoundsAssumption DEF FlowType, Fault

\* A request that is at work has a task and, but for a report, a claim.
LEMMA AtWork ==
  ASSUME LedgerInv, NEW p \in Requests
  PROVE  /\ job[p].pc \in Asking \cup {"mark"} => job[p].claim \in Claims /\ job[p].claim \in 1..made
         /\ job[p].pc # "idle" => job[p].task \in Tasks
         /\ job[p].lease \in Leases /\ token \in [Tasks -> Leases]
         /\ job[p].pc \in Asking \cup {"mark"} => job[p].pc # "idle"
  BY LedgerAssumption DEF LedgerInv, Carried, Claims, DirInv, DirType, TypeOK, FlowType, EngineType, Jobs, Asking

\* The directory keeps its invariant when a request gives its claim back.
LEMMA BackKeeps ==
  ASSUME DirInv, FlowType, NEW c, MakeRecoverable(c) \/ UNCHANGED dirVars, made' = made, UNCHANGED runnerVars
  PROVE  DirInv' /\ StaysFenced
  BY Zenon, MakeRecoverableKeeps, SameKeeps

LEMMA MarkStep ==
  ASSUME LedgerInv, NEW p \in Requests, Mark(p)
  PROVE  LedgerInv'
<1> USE DEF LedgerInv, TypeOK
<1>a. /\ job[p].pc \in Asking \cup {"mark"} => job[p].claim \in Claims /\ job[p].claim \in 1..made
      /\ job[p].pc # "idle" => job[p].task \in Tasks
      /\ job[p].lease \in Leases /\ token \in [Tasks -> Leases]
  BY Zenon, AtWork
<1>0. \/ Moves(p, "build", job[p].task, job[p].claim) /\ Owns(job[p].claim) /\ MarkLeaseMayExist(job[p].claim)
      \/ Moves(p, "idle", NoTask, 0) /\ UNCHANGED dirVars
  BY Zenon, <1>a, EnterMoves, LeaveMoves DEF Mark, Steps, Asking, At
<1>1. DirInv' /\ StaysFenced
  <2>1. CASE UNCHANGED dirVars
    BY Zenon, <2>1, SameKeeps DEF Mark
  <2>2. CASE Owns(job[p].claim) /\ MarkLeaseMayExist(job[p].claim)
    BY Zenon, <2>2, <1>a, MarkKeeps DEF Mark, At
  <2> QED
    BY Zenon, <1>0, <2>1, <2>2
<1>2. EngineType'
  BY Zenon DEF Mark, EngineType, engineVars
<1>3. FlowType'
  BY Zenon, <1>0 DEF Mark, FlowType, runnerVars, Moves
<1>4. FenceFirst' /\ Carried'
  <2>1. CASE Moves(p, "idle", NoTask, 0)
    BY Zenon, <2>1, <1>1, IdleFenced DEF Mark
  <2>2. CASE Moves(p, "build", job[p].task, job[p].claim) /\ MarkLeaseMayExist(job[p].claim)
    <3>1. job[p].claim \in Claims /\ job[p].claim \in 1..made /\ job[p].task \in Tasks
      BY Zenon, <1>a DEF Mark, At
    <3>2. debt'[job[p].claim].state \in Uncertain
      BY Zenon, <2>2, <3>1 DEF MarkLeaseMayExist, Turned, Uncertain, DirInv, DirType
    <3> QED
      BY Zenon, <2>2, <3>1, <3>2, <1>1, MovesFenced DEF Mark
  <2> QED
    BY Zenon, <1>0, <2>1, <2>2
<1> QED
  BY Zenon, <1>1, <1>2, <1>3, <1>4 DEF DirInv

LEMMA BuildStep ==
  ASSUME LedgerInv, NEW p \in Requests, Build(p)
  PROVE  LedgerInv'
<1> USE DEF LedgerInv, TypeOK
<1>a. /\ job[p].pc \in Asking \cup {"mark"} => job[p].claim \in Claims /\ job[p].claim \in 1..made
      /\ job[p].pc # "idle" => job[p].task \in Tasks
      /\ job[p].lease \in Leases /\ token \in [Tasks -> Leases]
  BY Zenon, AtWork
<1>0. \/ Moves(p, "record", job[p].task, job[p].claim) /\ job[p].pc = "build"
      \/ Moves(p, "giveup", job[p].task, job[p].claim) /\ job[p].pc = "build"
      \/ Moves(p, "drop", job[p].task, job[p].claim) /\ job[p].pc = "build"
      \/ Moves(p, "recover", job[p].task, job[p].claim) /\ job[p].pc = "build"
  <2>1. job[p].pc = "build" /\ job[p].task \in Tasks
    BY Zenon, <1>a DEF Build, At
  <2>2. CASE Buildable(job[p].task)
    <3>1. token[job[p].task] + 1 \in Leases
      BY <2>1, <2>2, <1>a, LedgerAssumption DEF Build, Grant, Leases
    <3> QED
      BY Zenon, <2>1, <2>2, <3>1, GrantMoves DEF Build, Steps, Asking
  <2>3. CASE ~Buildable(job[p].task)
    BY Zenon, <2>1, <2>3, EnterMoves DEF Build, Steps, Asking
  <2> QED
    BY Zenon, <2>2, <2>3
<1>1. DirInv' /\ StaysFenced
  BY Zenon, SameKeeps DEF Build
<1>2. EngineType'
  <2>1. CASE Buildable(job[p].task)
    <3>1. job[p].task \in Tasks /\ token[job[p].task] + 1 \in Leases
      BY <2>1, <1>a, LedgerAssumption DEF Build, At, Grant, Leases
    <3> QED
      BY Zenon, <2>1, <3>1 DEF Build, Grant, EngineType
  <2>2. CASE ~Buildable(job[p].task)
    BY Zenon, <2>2 DEF Build, EngineType, engineVars
  <2> QED
    BY Zenon, <2>1, <2>2
<1>3. FlowType'
  BY Zenon, <1>0, FaultTyped DEF Build, FlowType, runnerVars, Moves
<1>4. FenceFirst' /\ Carried'
  <2>1. job[p].pc # "idle" /\ job[p].pc \in Steps /\ made' = made /\ sweep' = sweep
    BY Zenon DEF Build, At, Asking, FlowType, Jobs
  <2> QED
    BY Zenon, <1>0, <1>1, <2>1, IdleFenced, OnFenced DEF Build, At, Asking
<1> QED
  BY Zenon, <1>1, <1>2, <1>3, <1>4 DEF DirInv

LEMMA GiveUpStep ==
  ASSUME LedgerInv, NEW p \in Requests, GiveUp(p)
  PROVE  LedgerInv'
<1> USE DEF LedgerInv, TypeOK
<1>a. /\ job[p].pc \in Asking \cup {"mark"} => job[p].claim \in Claims /\ job[p].claim \in 1..made
      /\ job[p].pc # "idle" => job[p].task \in Tasks
      /\ job[p].lease \in Leases /\ token \in [Tasks -> Leases]
  BY Zenon, AtWork
<1>0. Moves(p, "giveback", job[p].task, job[p].claim)
  BY Zenon, EnterMoves DEF GiveUp, Steps, Asking
<1>1. DirInv' /\ StaysFenced
  BY Zenon, SameKeeps DEF GiveUp
<1>2. EngineType'
  <2>1. job[p].task \in Tasks
    BY Zenon, <1>a DEF GiveUp, At
  <2> QED
    BY Zenon, <2>1 DEF GiveUp, EngineType, engineVars, Intend
<1>3. FlowType'
  BY Zenon, <1>0 DEF GiveUp, FlowType, runnerVars, Moves
<1>4. FenceFirst' /\ Carried'
  BY Zenon, <1>0, <1>1, OnFenced DEF GiveUp, At, Asking
<1> QED
  BY Zenon, <1>1, <1>2, <1>3, <1>4 DEF DirInv

LEMMA GiveBackStep ==
  ASSUME LedgerInv, NEW p \in Requests, GiveBack(p)
  PROVE  LedgerInv'
<1> USE DEF LedgerInv, TypeOK
<1>0. Moves(p, "idle", NoTask, 0)
  BY Zenon, LeaveMoves DEF GiveBack
<1>1. DirInv' /\ StaysFenced
  BY Zenon, MakeRecoverableKeeps DEF GiveBack
<1>2. EngineType'
  BY Zenon DEF GiveBack, EngineType, engineVars
<1>3. FlowType'
  BY Zenon, <1>0 DEF GiveBack, FlowType, runnerVars, Moves
<1>4. FenceFirst' /\ Carried'
  BY Zenon, <1>0, <1>1, IdleFenced DEF GiveBack
<1> QED
  BY Zenon, <1>1, <1>2, <1>3, <1>4 DEF DirInv

LEMMA FailsStep ==
  ASSUME LedgerInv, NEW p \in Requests, Fails(p)
  PROVE  LedgerInv'
<1> USE DEF LedgerInv, TypeOK
<1>a. /\ job[p].pc \in Asking \cup {"mark"} => job[p].claim \in Claims /\ job[p].claim \in 1..made
      /\ job[p].pc # "idle" => job[p].task \in Tasks
      /\ job[p].lease \in Leases /\ token \in [Tasks -> Leases]
  BY Zenon, AtWork
<1>0. Moves(p, "idle", NoTask, 0)
  BY Zenon, <1>a, EnterMoves, LeaveMoves DEF Fails, Steps, Asking, At
<1>1. DirInv' /\ StaysFenced
  BY Zenon, MakeRecoverableKeeps DEF Fails
<1>2. EngineType'
  BY Zenon DEF Fails, EngineType, engineVars
<1>3. FlowType'
  BY Zenon, <1>0, FaultTyped DEF Fails, FlowType, runnerVars, Moves
<1>4. FenceFirst' /\ Carried'
  <2>1. job[p].pc # "idle" /\ job[p].pc \in Steps /\ made' = made /\ sweep' = sweep
    BY Zenon DEF Fails, At, Asking, FlowType, Jobs
  <2> QED
    BY Zenon, <1>0, <1>1, <2>1, IdleFenced, OnFenced DEF Fails, At, Asking
<1> QED
  BY Zenon, <1>1, <1>2, <1>3, <1>4 DEF DirInv

LEMMA RecoverStep ==
  ASSUME LedgerInv, NEW p \in Requests, Recover(p)
  PROVE  LedgerInv'
<1> USE DEF LedgerInv, TypeOK
<1>a. /\ job[p].pc \in Asking \cup {"mark"} => job[p].claim \in Claims /\ job[p].claim \in 1..made
      /\ job[p].pc # "idle" => job[p].task \in Tasks
      /\ job[p].lease \in Leases /\ token \in [Tasks -> Leases]
  BY Zenon, AtWork
<1>0. \/ Moves(p, "record", job[p].task, job[p].claim) /\ UNCHANGED dirVars
      \/ Moves(p, "drop", job[p].task, job[p].claim) /\ UNCHANGED dirVars
      \/ Moves(p, "idle", NoTask, 0) /\ MakeRecoverable(job[p].claim)
  <2>1. job[p].task \in Tasks
    BY Zenon, <1>a DEF Recover, At
  <2> QED
    BY Zenon, <2>1, <1>a, EnterMoves, LeaveMoves, GrantMoves DEF Recover, Steps, Asking
<1>1. DirInv' /\ StaysFenced
  BY Zenon, <1>0, BackKeeps DEF Recover
<1>2. EngineType'
  BY Zenon DEF Recover, EngineType, engineVars
<1>3. FlowType'
  BY Zenon, <1>0 DEF Recover, FlowType, runnerVars, Moves
<1>4. FenceFirst' /\ Carried'
  <2>1. job[p].pc # "idle" /\ job[p].pc \in Steps /\ made' = made /\ sweep' = sweep
    BY Zenon DEF Recover, At, Asking, FlowType, Jobs
  <2> QED
    BY Zenon, <1>0, <1>1, <2>1, IdleFenced, OnFenced DEF Recover, At, Asking
<1> QED
  BY Zenon, <1>1, <1>2, <1>3, <1>4 DEF DirInv

LEMMA RecordStep ==
  ASSUME LedgerInv, NEW p \in Requests, Record(p)
  PROVE  LedgerInv'
<1> USE DEF LedgerInv, TypeOK
<1>a. /\ job[p].pc \in Asking \cup {"mark"} => job[p].claim \in Claims /\ job[p].claim \in 1..made
      /\ job[p].pc # "idle" => job[p].task \in Tasks
      /\ job[p].lease \in Leases /\ token \in [Tasks -> Leases]
  BY Zenon, AtWork
<1>0. \/ Moves(p, "finalize", job[p].task, job[p].claim) /\ Owns(job[p].claim) /\ RecordLeaseCreated(job[p].claim, job[p].lease)
      \/ Moves(p, "idle", NoTask, 0) /\ MakeRecoverable(job[p].claim)
  BY Zenon, <1>a, EnterMoves, LeaveMoves DEF Record, Steps, Asking, At
<1>1. DirInv' /\ StaysFenced
  <2>1. CASE MakeRecoverable(job[p].claim)
    BY Zenon, <2>1, BackKeeps DEF Record
  <2>2. CASE Owns(job[p].claim) /\ RecordLeaseCreated(job[p].claim, job[p].lease)
    BY Zenon, <2>2, <1>a, RecordKeeps DEF Record, At, Asking
  <2> QED
    BY Zenon, <1>0, <2>1, <2>2
<1>2. EngineType'
  BY Zenon DEF Record, EngineType, engineVars
<1>3. FlowType'
  BY Zenon, <1>0 DEF Record, FlowType, runnerVars, Moves
<1>4. FenceFirst' /\ Carried'
  <2>1. job[p].pc # "idle" /\ job[p].pc \in Steps /\ made' = made /\ sweep' = sweep
    BY Zenon DEF Record, At, Asking, FlowType, Jobs
  <2> QED
    BY Zenon, <1>0, <1>1, <2>1, IdleFenced, OnFenced DEF Record, At, Asking
<1> QED
  BY Zenon, <1>1, <1>2, <1>3, <1>4 DEF DirInv

LEMMA FinalizeStep ==
  ASSUME LedgerInv, NEW p \in Requests, Finalize(p)
  PROVE  LedgerInv'
<1> USE DEF LedgerInv, TypeOK
<1>a. /\ job[p].pc \in Asking \cup {"mark"} => job[p].claim \in Claims /\ job[p].claim \in 1..made
      /\ job[p].pc # "idle" => job[p].task \in Tasks
      /\ job[p].lease \in Leases /\ token \in [Tasks -> Leases]
  BY Zenon, AtWork
<1>0. \/ Moves(p, "respond", job[p].task, job[p].claim) /\ Finalizable(job[p].claim) /\ FinalizeClaim(job[p].claim, job[p].lease)
      \/ Moves(p, "idle", NoTask, 0) /\ MakeRecoverable(job[p].claim)
  BY Zenon, <1>a, EnterMoves, LeaveMoves DEF Finalize, Steps, Asking, At
<1>1. DirInv' /\ StaysFenced
  <2>1. CASE MakeRecoverable(job[p].claim)
    BY Zenon, <2>1, BackKeeps DEF Finalize
  <2>2. CASE Finalizable(job[p].claim) /\ FinalizeClaim(job[p].claim, job[p].lease)
    BY Zenon, <2>2, <1>a, FinalizeKeeps DEF Finalize, At, Asking
  <2> QED
    BY Zenon, <1>0, <2>1, <2>2
<1>2. EngineType'
  BY Zenon DEF Finalize, EngineType, engineVars
<1>3. FlowType'
  BY Zenon, <1>0 DEF Finalize, FlowType, runnerVars, Moves
<1>4. FenceFirst' /\ Carried'
  <2>1. job[p].pc # "idle" /\ job[p].pc \in Steps /\ made' = made /\ sweep' = sweep
    BY Zenon DEF Finalize, At, Asking, FlowType, Jobs
  <2> QED
    BY Zenon, <1>0, <1>1, <2>1, IdleFenced, OnFenced DEF Finalize, At, Asking
<1> QED
  BY Zenon, <1>1, <1>2, <1>3, <1>4 DEF DirInv

LEMMA RespondStep ==
  ASSUME LedgerInv, NEW p \in Requests, Respond(p)
  PROVE  LedgerInv'
<1> USE DEF LedgerInv, TypeOK
<1>a. /\ job[p].pc \in Asking \cup {"mark"} => job[p].claim \in Claims /\ job[p].claim \in 1..made
      /\ job[p].pc # "idle" => job[p].task \in Tasks
      /\ job[p].lease \in Leases /\ token \in [Tasks -> Leases]
  BY Zenon, AtWork
<1>0. Moves(p, "idle", NoTask, 0)
  BY Zenon, <1>a, EnterMoves, LeaveMoves DEF Respond, Steps, Asking, At
<1>1. DirInv' /\ StaysFenced
  BY Zenon, SameKeeps DEF Respond
<1>2. EngineType'
  BY Zenon DEF Respond, EngineType, engineVars
<1>3. FlowType'
  <2>1. job[p].task \in Tasks
    BY Zenon, <1>a DEF Respond, At
  <2>2. held' \in [Runners -> SUBSET (Tasks \X Leases)]
    BY <2>1, <1>a DEF Respond, FlowType
  <2>3. faults' \in 0..MaxFaults
    BY Zenon, FaultTyped DEF Respond, FlowType
  <2> QED
    BY Zenon, <1>0, <2>2, <2>3 DEF Respond, FlowType, runnerVars, Moves
<1>4. FenceFirst' /\ Carried'
  <2>1. job[p].pc # "idle" /\ job[p].pc \in Steps /\ made' = made /\ sweep' = sweep
    BY Zenon DEF Respond, At, Asking, FlowType, Jobs
  <2> QED
    BY Zenon, <1>0, <1>1, <2>1, IdleFenced, OnFenced DEF Respond, At, Asking
<1> QED
  BY Zenon, <1>1, <1>2, <1>3, <1>4 DEF DirInv

LEMMA ResolveStep ==
  ASSUME LedgerInv, NEW p \in Requests, Resolve(p)
  PROVE  LedgerInv'
<1> USE DEF LedgerInv, TypeOK
<1>a. /\ job[p].pc \in Asking \cup {"mark"} => job[p].claim \in Claims /\ job[p].claim \in 1..made
      /\ job[p].pc # "idle" => job[p].task \in Tasks
      /\ job[p].lease \in Leases /\ token \in [Tasks -> Leases]
  BY Zenon, AtWork
<1>0. \/ Moves(p, "finalize", job[p].task, job[p].claim)
      \/ Moves(p, "drop", job[p].task, job[p].claim)
      \/ Moves(p, "requeue", job[p].task, job[p].claim)
  <2>1. job[p].task \in Tasks
    BY Zenon, <1>a DEF Resolve, At
  <2> QED
    BY Zenon, <2>1, <1>a, EnterMoves, GrantMoves DEF Resolve, Disposed, Steps, Asking
<1>1. DirInv' /\ StaysFenced
  BY Zenon, SameKeeps DEF Resolve
<1>2. EngineType'
  BY Zenon DEF Resolve, EngineType, engineVars
<1>3. FlowType'
  BY Zenon, <1>0 DEF Resolve, FlowType, runnerVars, Moves
<1>4. FenceFirst' /\ Carried'
  <2>1. job[p].pc # "idle" /\ job[p].pc \in Steps /\ made' = made /\ sweep' = sweep
    BY Zenon DEF Resolve, At, Asking, FlowType, Jobs
  <2> QED
    BY Zenon, <1>0, <1>1, <2>1, IdleFenced, OnFenced DEF Resolve, At, Asking
<1> QED
  BY Zenon, <1>1, <1>2, <1>3, <1>4 DEF DirInv

LEMMA SettleStep ==
  ASSUME LedgerInv, NEW p \in Requests, NEW d \in {"drop", "requeue"}, Settle(p, d)
  PROVE  LedgerInv'
<1> USE DEF LedgerInv, TypeOK
<1>a. /\ job[p].pc \in Asking \cup {"mark"} => job[p].claim \in Claims /\ job[p].claim \in 1..made
      /\ job[p].pc # "idle" => job[p].task \in Tasks
      /\ job[p].lease \in Leases /\ token \in [Tasks -> Leases]
  BY Zenon, AtWork
<1>0. Moves(p, "idle", NoTask, 0)
  BY Zenon, <1>a, EnterMoves, LeaveMoves DEF Settle, Steps, Asking, At
<1>1. DirInv' /\ StaysFenced
  <2>0. job[p].claim \in Claims
    BY Zenon, <1>a DEF Settle, At, Asking
  <2>1. CASE Settleable(job[p].claim)
    BY Zenon, <2>0, <2>1, SettleKeeps DEF Settle
  <2>2. CASE ~Settleable(job[p].claim)
    BY Zenon, <2>2, MakeRecoverableKeeps DEF Settle
  <2> QED
    BY Zenon, <2>1, <2>2
<1>2. EngineType'
  BY Zenon DEF Settle, EngineType, engineVars
<1>3. FlowType'
  BY Zenon, <1>0 DEF Settle, FlowType, runnerVars, Moves
<1>4. FenceFirst' /\ Carried'
  <2>1. job[p].pc # "idle" /\ job[p].pc \in Steps /\ made' = made /\ sweep' = sweep
    BY Zenon DEF Settle, At, Asking, FlowType, Jobs
  <2> QED
    BY Zenon, <1>0, <1>1, <2>1, IdleFenced, OnFenced DEF Settle, At, Asking
<1> QED
  BY Zenon, <1>1, <1>2, <1>3, <1>4 DEF DirInv

LEMMA ReplayStep ==
  ASSUME LedgerInv, NEW p \in Requests, Replay(p)
  PROVE  LedgerInv'
<1> USE DEF LedgerInv, TypeOK
<1>a. /\ job[p].pc \in Asking \cup {"mark"} => job[p].claim \in Claims /\ job[p].claim \in 1..made
      /\ job[p].pc # "idle" => job[p].task \in Tasks
      /\ job[p].lease \in Leases /\ token \in [Tasks -> Leases]
  BY Zenon, AtWork
<1>0. \/ Moves(p, "respond", job[p].task, job[p].claim)
      \/ Moves(p, "idle", NoTask, 0)
  BY Zenon, <1>a, EnterMoves, GrantMoves, LeaveMoves DEF Replay, Steps, At
<1>1. DirInv' /\ StaysFenced
  <2>1. job[p].task \in Tasks
    BY Zenon, <1>a DEF Replay, At
  <2> QED
    BY Zenon, <2>1, SameKeeps, ClearKeeps DEF Replay
<1>2. EngineType'
  BY Zenon DEF Replay, EngineType, engineVars
<1>3. FlowType'
  BY Zenon, <1>0 DEF Replay, FlowType, runnerVars, Moves
<1>4. FenceFirst' /\ Carried'
  <2>1. job[p].pc # "idle" /\ job[p].pc \in Steps /\ made' = made /\ sweep' = sweep
    BY Zenon DEF Replay, At, Asking, FlowType, Jobs
  <2> QED
    BY Zenon, <1>0, <1>1, <2>1, IdleFenced, OnFenced DEF Replay, At, Asking
<1> QED
  BY Zenon, <1>1, <1>2, <1>3, <1>4 DEF DirInv

LEMMA CommitStep ==
  ASSUME LedgerInv, NEW p \in Requests, Commit(p)
  PROVE  LedgerInv'
<1> USE DEF LedgerInv, TypeOK
<1>a. /\ job[p].pc \in Asking \cup {"mark"} => job[p].claim \in Claims /\ job[p].claim \in 1..made
      /\ job[p].pc # "idle" => job[p].task \in Tasks
      /\ job[p].lease \in Leases /\ token \in [Tasks -> Leases]
  BY Zenon, AtWork
<1>0. \/ Moves(p, "release", job[p].task, job[p].claim)
      \/ Moves(p, "release_stale", job[p].task, job[p].claim)
  BY Zenon, <1>a, EnterMoves, LeaveMoves DEF Commit, Steps, Asking, At
<1>1. DirInv' /\ StaysFenced
  BY Zenon, SameKeeps DEF Commit
<1>2. EngineType'
  <2>1. job[p].task \in Tasks
    BY Zenon, <1>a DEF Commit, At
  <2> QED
    BY Zenon, <2>1 DEF Commit, EngineType, engineVars, Intend
<1>3. FlowType'
  BY Zenon, <1>0 DEF Commit, FlowType, runnerVars, Moves
<1>4. FenceFirst' /\ Carried'
  <2>1. job[p].pc # "idle" /\ job[p].pc \in Steps /\ made' = made /\ sweep' = sweep
    BY Zenon DEF Commit, At, Asking, FlowType, Jobs
  <2> QED
    BY Zenon, <1>0, <1>1, <2>1, IdleFenced, OnFenced DEF Commit, At, Asking
<1> QED
  BY Zenon, <1>1, <1>2, <1>3, <1>4 DEF DirInv

LEMMA ReleaseStep ==
  ASSUME LedgerInv, NEW p \in Requests, Release(p)
  PROVE  LedgerInv'
<1> USE DEF LedgerInv, TypeOK
<1>a. /\ job[p].pc \in Asking \cup {"mark"} => job[p].claim \in Claims /\ job[p].claim \in 1..made
      /\ job[p].pc # "idle" => job[p].task \in Tasks
      /\ job[p].lease \in Leases /\ token \in [Tasks -> Leases]
  BY Zenon, AtWork
<1>0. Moves(p, "idle", NoTask, 0)
  BY Zenon, <1>a, EnterMoves, LeaveMoves DEF Release, Steps, Asking, At
<1>1. DirInv' /\ StaysFenced
  <2> DEFINE r == job[p].runner
             t == job[p].task
             n == job[p].lease
  <2>1. t \in Tasks
    BY Zenon, <1>a DEF Release
  <2>2. CASE row[t].state = "leased" /\ row[t].runner = r /\ row[t].lease = n
    BY Zenon, <2>1, <2>2, ReleaseKeeps DEF Release
  <2>3. CASE ~(row[t].state = "leased" /\ row[t].runner = r /\ row[t].lease = n)
    BY Zenon, <2>3, SameKeeps DEF Release, ReleaseLeased
  <2> QED
    BY Zenon, <2>2, <2>3
<1>2. EngineType'
  BY Zenon DEF Release, EngineType, engineVars
<1>3. FlowType'
  BY Zenon, <1>0 DEF Release, FlowType, runnerVars, Moves
<1>4. FenceFirst' /\ Carried'
  <2>1. job[p].pc # "idle" /\ job[p].pc \in Steps /\ made' = made /\ sweep' = sweep
    BY Zenon DEF Release, At, Asking, FlowType, Jobs
  <2> QED
    BY Zenon, <1>0, <1>1, <2>1, IdleFenced, OnFenced DEF Release, At, Asking
<1> QED
  BY Zenon, <1>1, <1>2, <1>3, <1>4 DEF DirInv

LEMMA DiesStep ==
  ASSUME LedgerInv, NEW p \in Requests, Dies(p)
  PROVE  LedgerInv'
<1> USE DEF LedgerInv, TypeOK
<1>a. /\ job[p].pc \in Asking \cup {"mark"} => job[p].claim \in Claims /\ job[p].claim \in 1..made
      /\ job[p].pc # "idle" => job[p].task \in Tasks
      /\ job[p].lease \in Leases /\ token \in [Tasks -> Leases]
  BY Zenon, AtWork
<1>0. Moves(p, "idle", NoTask, 0)
  BY Zenon, <1>a, EnterMoves, LeaveMoves DEF Dies, Steps, Asking, At
<1>1. DirInv' /\ StaysFenced
  BY Zenon, SameKeeps DEF Dies
<1>2. EngineType'
  BY Zenon DEF Dies, EngineType, engineVars
<1>3. FlowType'
  BY Zenon, <1>0, FaultTyped DEF Dies, FlowType, runnerVars, Moves
<1>4. FenceFirst' /\ Carried'
  <2>1. job[p].pc # "idle" /\ job[p].pc \in Steps /\ made' = made /\ sweep' = sweep
    BY Zenon DEF Dies, At, Asking, FlowType, Jobs
  <2> QED
    BY Zenon, <1>0, <1>1, <2>1, IdleFenced, OnFenced DEF Dies, At, Asking
<1> QED
  BY Zenon, <1>1, <1>2, <1>3, <1>4 DEF DirInv

LEMMA OrphanAskStep ==
  ASSUME LedgerInv, NEW p \in Requests, OrphanAsk(p)
  PROVE  LedgerInv'
<1> USE DEF LedgerInv, TypeOK
<1>a. /\ job[p].pc \in Asking \cup {"mark"} => job[p].claim \in Claims /\ job[p].claim \in 1..made
      /\ job[p].pc # "idle" => job[p].task \in Tasks
      /\ job[p].lease \in Leases /\ token \in [Tasks -> Leases]
  BY Zenon, AtWork
<1>0. \/ Moves(p, "drop", job[p].task, job[p].claim) /\ UNCHANGED dirVars
      \/ Moves(p, "requeue", job[p].task, job[p].claim) /\ UNCHANGED dirVars
      \/ Moves(p, "idle", NoTask, 0) /\ MakeRecoverable(job[p].claim)
  BY Zenon, <1>a, EnterMoves, LeaveMoves DEF OrphanAsk, Disposed, Steps, Asking, At
<1>1. DirInv' /\ StaysFenced
  BY Zenon, <1>0, BackKeeps DEF OrphanAsk
<1>2. EngineType'
  BY Zenon DEF OrphanAsk, EngineType, engineVars
<1>3. FlowType'
  BY Zenon, <1>0 DEF OrphanAsk, FlowType, runnerVars, Moves
<1>4. FenceFirst' /\ Carried'
  <2>1. job[p].pc # "idle" /\ job[p].pc \in Steps /\ made' = made /\ sweep' = sweep
    BY Zenon DEF OrphanAsk, At, Asking, FlowType, Jobs
  <2> QED
    BY Zenon, <1>0, <1>1, <2>1, IdleFenced, OnFenced DEF OrphanAsk, At, Asking
<1> QED
  BY Zenon, <1>1, <1>2, <1>3, <1>4 DEF DirInv

LEMMA PollTakeStep ==
  ASSUME LedgerInv, NEW p \in Requests, NEW r \in Runners, NEW c \in Claims, PollTake(p, r, c)
  PROVE  LedgerInv'
<1> USE DEF LedgerInv, TypeOK
<1>a. /\ job[p].pc \in Asking \cup {"mark"} => job[p].claim \in Claims /\ job[p].claim \in 1..made
      /\ job[p].pc # "idle" => job[p].task \in Tasks
      /\ job[p].lease \in Leases /\ token \in [Tasks -> Leases]
  BY Zenon, AtWork
<1>0. Moves(p, "resolve", debt[c].task, c) /\ debt[c].task \in Tasks /\ c \in live /\ c \in 1..made
  <2>0. c \in live
    BY Zenon DEF PollTake, TakeRecovery, DirInv, LedgerMatches
  <2>a. debt[c].task \in Tasks /\ c <= made /\ made \in Nat
    BY <2>0, LiveFacts DEF DirInv, DirType
  <2>1. c \in live /\ debt[c].task \in Tasks /\ c \in 1..made
    BY <2>0, <2>a DEF Claims
  <2> QED
    BY Zenon, <2>1, Numbers, WorkMoves DEF PollTake, Steps, Asking
<1>1. DirInv' /\ StaysFenced
  BY Zenon, TakeKeeps DEF PollTake
<1>2. EngineType'
  BY Zenon DEF PollTake, EngineType, engineVars
<1>3. FlowType'
  BY Zenon, <1>0 DEF PollTake, FlowType, runnerVars, Moves
<1>4. FenceFirst' /\ Carried'
  BY Zenon, <1>0, <1>1, MovesFenced DEF PollTake, TakeRecovery, Asking
<1> QED
  BY Zenon, <1>1, <1>2, <1>3, <1>4 DEF DirInv

LEMMA PollReplayStep ==
  ASSUME LedgerInv, NEW p \in Requests, NEW r \in Runners, NEW t \in Tasks, PollReplay(p, r, t)
  PROVE  LedgerInv'
<1> USE DEF LedgerInv, TypeOK
<1>a. /\ job[p].pc \in Asking \cup {"mark"} => job[p].claim \in Claims /\ job[p].claim \in 1..made
      /\ job[p].pc # "idle" => job[p].task \in Tasks
      /\ job[p].lease \in Leases /\ token \in [Tasks -> Leases]
  BY Zenon, AtWork
<1>0. \E pc \in {"replay", "respond"} : Moves(p, pc, t, 0)
  <2>1. row[t].lease \in Leases
    BY Zenon DEF DirInv, DirType, Rows
  <2>2. \A pc \in {"replay", "respond"} : pc \in Steps
    BY Zenon DEF Steps
  <2> QED
    BY Zenon, <2>1, <2>2, Numbers, WorkMoves DEF PollReplay
<1>1. DirInv' /\ StaysFenced
  BY Zenon, SameKeeps DEF PollReplay
<1>2. EngineType'
  BY Zenon DEF PollReplay, EngineType, engineVars
<1>3. FlowType'
  BY Zenon, <1>0 DEF PollReplay, FlowType, runnerVars, Moves
<1>4. FenceFirst' /\ Carried'
  BY Zenon, <1>0, <1>1, MovesFenced DEF PollReplay, Asking
<1> QED
  BY Zenon, <1>1, <1>2, <1>3, <1>4 DEF DirInv

LEMMA OrphanTakeStep ==
  ASSUME LedgerInv, NEW p \in Requests, NEW c \in Claims, OrphanTake(p, c)
  PROVE  LedgerInv'
<1> USE DEF LedgerInv, TypeOK
<1>a. /\ job[p].pc \in Asking \cup {"mark"} => job[p].claim \in Claims /\ job[p].claim \in 1..made
      /\ job[p].pc # "idle" => job[p].task \in Tasks
      /\ job[p].lease \in Leases /\ token \in [Tasks -> Leases]
  BY Zenon, AtWork
<1>0. Moves(p, "orphan", debt[c].task, c) /\ debt[c].task \in Tasks /\ c \in live /\ c \in 1..made
  <2>0. c \in live
    BY Zenon DEF OrphanTake, TakeRecovery, DirInv, LedgerMatches
  <2>a. debt[c].task \in Tasks /\ c <= made /\ made \in Nat
    BY <2>0, LiveFacts DEF DirInv, DirType
  <2>1. c \in live /\ debt[c].task \in Tasks /\ c \in 1..made
    BY <2>0, <2>a DEF Claims
  <2> QED
    BY Zenon, <2>1, Numbers DEF OrphanTake, Moves, FlowType, Jobs, Steps, Asking
<1>1. DirInv' /\ StaysFenced
  BY Zenon, TakeKeeps DEF OrphanTake
<1>2. EngineType'
  BY Zenon DEF OrphanTake, EngineType, engineVars
<1>3. FlowType'
  BY Zenon, <1>0 DEF OrphanTake, FlowType, runnerVars, Moves
<1>4. FenceFirst' /\ Carried'
  BY Zenon, <1>0, <1>1, MovesFenced DEF OrphanTake, TakeRecovery, Asking
<1> QED
  BY Zenon, <1>1, <1>2, <1>3, <1>4 DEF DirInv

LEMMA PollStrandedStep ==
  ASSUME LedgerInv, NEW p \in Requests, NEW r \in Runners, NEW t \in Tasks, PollStranded(p, r, t)
  PROVE  LedgerInv'
<1> USE DEF LedgerInv, TypeOK
<1>1. DirInv' /\ StaysFenced
  BY Zenon, ReleaseExpiredKeeps DEF PollStranded
<1>2. EngineType'
  BY Zenon DEF PollStranded, EngineType, engineVars
<1>3. FlowType'
  BY Zenon DEF PollStranded, FlowType, runnerVars
<1>4. FenceFirst' /\ Carried'
  BY Zenon, <1>1, SameFenced DEF PollStranded, Carried
<1> QED
  BY Zenon, <1>1, <1>2, <1>3, <1>4 DEF DirInv

LEMMA PollClaimStep ==
  ASSUME LedgerInv, NEW p \in Requests, NEW r \in Runners, NEW t \in Tasks, PollClaim(p, r, t)
  PROVE  LedgerInv'
<1> USE DEF LedgerInv, TypeOK
<1>0. made + 1 \in Claims /\ made' = made + 1 /\ made \in Nat /\ made' \in 0..MaxClaims
  BY LedgerAssumption DEF PollClaim, DirInv, DirType, Claims
<1>1. DirInv' /\ StaysFenced
  BY Zenon, <1>0, ClaimKeeps DEF PollClaim, Polls, Registered
<1>2. EngineType'
  BY Zenon DEF PollClaim, EngineType, engineVars
<1>3. Moves(p, "mark", t, made + 1)
  BY Zenon, <1>0, Numbers, WorkMoves DEF PollClaim, Steps
<1>4. FlowType'
  BY Zenon, <1>0, <1>3 DEF PollClaim, FlowType, runnerVars, Moves
<1>5. FenceFirst'
  <2>1. \A q \in Requests : job[q].pc \in Asking /\ job[q].claim \in live' =>
           debt'[job[q].claim].state \in Uncertain
    BY Zenon, <1>1, OldFences
  <2> QED
    BY Zenon, <2>1, <1>3 DEF FenceFirst, Moves, Asking
<1>6. Carried'
  BY <1>0, <1>3 DEF PollClaim, Carried, Moves, Asking
<1> QED
  BY Zenon, <1>1, <1>2, <1>4, <1>5, <1>6 DEF DirInv

LEMMA ReportStep ==
  ASSUME LedgerInv, NEW p \in Requests, NEW r \in Runners, NEW t \in Tasks, NEW n \in 1..MaxLeases, Report(p, r, t, n)
  PROVE  LedgerInv'
<1> USE DEF LedgerInv, TypeOK
<1>0. CASE ~Resolves(r, t, n)
  <2>1. DirInv' /\ StaysFenced
    BY Zenon, SameKeeps DEF Report
  <2>2. EngineType' /\ FlowType'
    BY <1>0 DEF Report, EngineType, engineVars, FlowType
  <2>3. FenceFirst' /\ Carried'
    BY Zenon, <1>0, <2>1, SameFenced DEF Report, Carried
  <2> QED
    BY Zenon, <2>1, <2>2, <2>3 DEF DirInv
<1> SUFFICES ASSUME Resolves(r, t, n) PROVE LedgerInv'
  BY Zenon, <1>0
<1>a. n \in Leases
  BY LedgerAssumption DEF Leases
<1>b. Moves(p, "commit", t, 0)
  BY Zenon, <1>a, WorkMoves DEF Report, Steps
<1>1. DirInv' /\ StaysFenced
  BY Zenon, SameKeeps DEF Report
<1>2. EngineType'
  BY Zenon DEF Report, EngineType, engineVars
<1>3. FlowType'
  BY Zenon, <1>b DEF Report, FlowType, runnerVars, Moves
<1>4. FenceFirst' /\ Carried'
  BY Zenon, <1>b, <1>1, MovesFenced DEF Report, Asking
<1> QED
  BY Zenon, <1>1, <1>2, <1>3, <1>4 DEF DirInv

LEMMA DeliverStep ==
  ASSUME LedgerInv, NEW t \in Tasks, Deliver(t)
  PROVE  LedgerInv'
<1> USE DEF LedgerInv, TypeOK
<1>1. DirInv' /\ StaysFenced
  <2>1. CASE node[t] = "done"
    BY Zenon, <2>1, SameKeeps DEF Deliver, dirVars
  <2>2. CASE node[t] # "done"
    BY Zenon, <2>2, EnqueueKeeps DEF Deliver
  <2> QED
    BY Zenon, <2>1, <2>2
<1>2. EngineType'
  BY Zenon DEF Deliver, EngineType, engineVars
<1>3. FlowType'
  BY Zenon, FaultTyped DEF Deliver, FlowType, runnerVars
<1>4. FenceFirst' /\ Carried'
  BY Zenon, <1>1, SameFenced DEF Deliver, Carried
<1> QED
  BY Zenon, <1>1, <1>2, <1>3, <1>4 DEF DirInv

LEMMA RenewStep ==
  ASSUME LedgerInv, NEW r \in Runners, NEW t \in Tasks, Renew(r, t)
  PROVE  LedgerInv'
<1> USE DEF LedgerInv, TypeOK
<1>1. DirInv' /\ StaysFenced
  BY Zenon, SameKeeps DEF Renew
<1>2. EngineType'
  BY Zenon DEF Renew, EngineType, engineVars
<1>3. FlowType'
  BY Zenon DEF Renew, FlowType, runnerVars
<1>4. FenceFirst' /\ Carried'
  BY Zenon, <1>1, SameFenced DEF Renew, Carried
<1> QED
  BY Zenon, <1>1, <1>2, <1>3, <1>4 DEF DirInv

LEMMA LapseStep ==
  ASSUME LedgerInv, NEW t \in Tasks, Lapse(t)
  PROVE  LedgerInv'
<1> USE DEF LedgerInv, TypeOK
<1>1. DirInv' /\ StaysFenced
  BY Zenon, SameKeeps DEF Lapse
<1>2. EngineType'
  BY Zenon DEF Lapse, EngineType, engineVars
<1>3. FlowType'
  BY Zenon, FaultTyped DEF Lapse, FlowType, runnerVars
<1>4. FenceFirst' /\ Carried'
  BY Zenon, <1>1, SameFenced DEF Lapse, Carried
<1> QED
  BY Zenon, <1>1, <1>2, <1>3, <1>4 DEF DirInv

LEMMA MetaExpiresStep ==
  ASSUME LedgerInv, NEW t \in Tasks, MetaExpires(t)
  PROVE  LedgerInv'
<1> USE DEF LedgerInv, TypeOK
<1>1. DirInv' /\ StaysFenced
  BY Zenon, MetaKeeps DEF MetaExpires, DirInv, DirType
<1>2. EngineType'
  BY Zenon DEF MetaExpires, EngineType, engineVars
<1>3. FlowType'
  BY Zenon, FaultTyped DEF MetaExpires, FlowType, runnerVars
<1>4. FenceFirst' /\ Carried'
  BY Zenon, <1>1, SameFenced DEF MetaExpires, Carried
<1> QED
  BY Zenon, <1>1, <1>2, <1>3, <1>4 DEF DirInv

LEMMA ReclaimExpiredStep ==
  ASSUME LedgerInv, NEW c \in Claims, ReclaimExpired(c)
  PROVE  LedgerInv'
<1> USE DEF LedgerInv, TypeOK
<1>1. DirInv' /\ StaysFenced
  BY Zenon, ReclaimKeeps DEF ReclaimExpired, DirInv, LedgerMatches
<1>2. EngineType'
  BY Zenon DEF ReclaimExpired, EngineType, engineVars
<1>3. FlowType'
  BY Zenon DEF ReclaimExpired, FlowType, runnerVars
<1>4. FenceFirst' /\ Carried'
  BY Zenon, <1>1, SameFenced DEF ReclaimExpired, Carried
<1> QED
  BY Zenon, <1>1, <1>2, <1>3, <1>4 DEF DirInv

LEMMA SweepListStep ==
  ASSUME LedgerInv, NEW t \in Tasks, SweepList(t)
  PROVE  LedgerInv'
<1> USE DEF LedgerInv, TypeOK
<1>1. DirInv' /\ StaysFenced
  BY Zenon, SameKeeps DEF SweepList
<1>2. EngineType'
  BY Zenon DEF SweepList, EngineType, engineVars
<1>3. FlowType'
  BY Zenon DEF SweepList, FlowType, runnerVars, EngineType
<1>4. FenceFirst' /\ Carried'
  BY Zenon, <1>1, SameFenced DEF SweepList, Carried
<1> QED
  BY Zenon, <1>1, <1>2, <1>3, <1>4 DEF DirInv

LEMMA SweepReleaseStep ==
  ASSUME LedgerInv, SweepRelease
  PROVE  LedgerInv'
<1> USE DEF LedgerInv, TypeOK
<1>1. DirInv' /\ StaysFenced
  <2>1. sweep.task \in Tasks
    BY Zenon DEF SweepRelease, Carried
  <2> QED
    BY Zenon, <2>1, ReleaseExpiredKeeps, SameKeeps DEF SweepRelease
<1>2. EngineType'
  BY Zenon DEF SweepRelease, EngineType, engineVars
<1>3. FlowType'
  BY Numbers DEF SweepRelease, FlowType, runnerVars, Resting
<1>4. FenceFirst' /\ Carried'
  BY <1>1, SameFenced DEF SweepRelease, Carried, Resting, FlowType
<1> QED
  BY Zenon, <1>1, <1>2, <1>3, <1>4 DEF DirInv

LEMMA SweepReclaimStep ==
  ASSUME LedgerInv, SweepReclaim
  PROVE  LedgerInv'
<1> USE DEF LedgerInv, TypeOK
<1>1. DirInv' /\ StaysFenced
  BY Zenon, SameKeeps DEF SweepReclaim
<1>2. EngineType'
  <2>1. sweep.task \in Tasks
    BY Zenon DEF SweepReclaim, Carried
  <2> QED
    BY Zenon, <2>1 DEF SweepReclaim, EngineType, engineVars, Intend
<1>3. FlowType'
  BY Numbers DEF SweepReclaim, FlowType, runnerVars, Resting
<1>4. FenceFirst' /\ Carried'
  BY <1>1, SameFenced DEF SweepReclaim, Carried, Resting, FlowType
<1> QED
  BY Zenon, <1>1, <1>2, <1>3, <1>4 DEF DirInv

LEMMA SweepSettleStep ==
  ASSUME LedgerInv, SweepSettle
  PROVE  LedgerInv'
<1> USE DEF LedgerInv, TypeOK
<1>1. DirInv' /\ StaysFenced
  <2>1. sweep.task \in Tasks
    BY Zenon DEF SweepSettle, Carried
  <2> QED
    BY Zenon, <2>1, SettleFinalizedKeeps DEF SweepSettle
<1>2. EngineType'
  BY Zenon DEF SweepSettle, EngineType, engineVars
<1>3. FlowType'
  BY Zenon, Numbers DEF SweepSettle, FlowType, runnerVars, Resting
<1>4. FenceFirst' /\ Carried'
  BY Zenon, <1>1, SameFenced DEF SweepSettle, Resting
<1> QED
  BY Zenon, <1>1, <1>2, <1>3, <1>4 DEF DirInv

LEMMA SweepDiesStep ==
  ASSUME LedgerInv, SweepDies
  PROVE  LedgerInv'
<1> USE DEF LedgerInv, TypeOK
<1>1. DirInv' /\ StaysFenced
  BY Zenon, SameKeeps DEF SweepDies
<1>2. EngineType'
  BY Zenon DEF SweepDies, EngineType, engineVars
<1>3. FlowType'
  BY Zenon, Numbers, FaultTyped DEF SweepDies, FlowType, runnerVars, Resting
<1>4. FenceFirst' /\ Carried'
  BY Zenon, <1>1, SameFenced DEF SweepDies, Resting
<1> QED
  BY Zenon, <1>1, <1>2, <1>3, <1>4 DEF DirInv

LEMMA ReapStrandedStep ==
  ASSUME LedgerInv, NEW t \in Tasks, ReapStranded(t)
  PROVE  LedgerInv'
<1> USE DEF LedgerInv, TypeOK
<1>1. DirInv' /\ StaysFenced
  BY Zenon, ReleaseExpiredKeeps DEF ReapStranded
<1>2. EngineType'
  BY Zenon DEF ReapStranded, EngineType, engineVars
<1>3. FlowType'
  BY Zenon DEF ReapStranded, FlowType, runnerVars, DirInv, DirType, Rows
<1>4. FenceFirst' /\ Carried'
  BY Zenon, <1>1, SameFenced DEF ReapStranded, Carried
<1> QED
  BY Zenon, <1>1, <1>2, <1>3, <1>4 DEF DirInv

LEMMA ReapLedgerStep ==
  ASSUME LedgerInv, NEW c \in Claims, ReapLedger(c)
  PROVE  LedgerInv'
<1> USE DEF LedgerInv, TypeOK
<1>1. DirInv' /\ StaysFenced
  <2>1. debt[c].task \in Tasks
    BY Zenon DEF ReapLedger, DirInv, Shape, RecordsShaped
  <2> QED
    BY Zenon, <2>1, SettleFinalizedKeeps DEF ReapLedger
<1>2. EngineType'
  BY Zenon DEF ReapLedger, EngineType, engineVars
<1>3. FlowType'
  BY Zenon DEF ReapLedger, FlowType, runnerVars
<1>4. FenceFirst' /\ Carried'
  BY Zenon, <1>1, SameFenced DEF ReapLedger, Carried
<1> QED
  BY Zenon, <1>1, <1>2, <1>3, <1>4 DEF DirInv

LEMMA ReapDeadQueuedStep ==
  ASSUME LedgerInv, NEW t \in Tasks, ReapDeadQueued(t)
  PROVE  LedgerInv'
<1> USE DEF LedgerInv, TypeOK
<1>1. DirInv' /\ StaysFenced
  BY Zenon, ReapQueuedKeeps DEF ReapDeadQueued
<1>2. EngineType'
  BY Zenon DEF ReapDeadQueued, EngineType, engineVars
<1>3. FlowType'
  BY Zenon DEF ReapDeadQueued, FlowType, runnerVars
<1>4. FenceFirst' /\ Carried'
  BY Zenon, <1>1, SameFenced DEF ReapDeadQueued, Carried
<1> QED
  BY Zenon, <1>1, <1>2, <1>3, <1>4 DEF DirInv

LEMMA RegisterStep ==
  ASSUME LedgerInv, NEW r \in Runners, Register(r)
  PROVE  LedgerInv'
<1> USE DEF LedgerInv, TypeOK
<1>0. session[r] + 1 \in Sessions /\ session' = [session EXCEPT ![r] = session[r] + 1]
  BY LedgerAssumption DEF Register, DirInv, DirType, Sessions
<1>1. DirInv' /\ StaysFenced
  BY Zenon, <1>0, RegisterKeeps DEF Register
<1>2. EngineType'
  BY Zenon DEF Register, EngineType, engineVars
<1>3. FlowType'
  BY Zenon, <1>0 DEF Register, FlowType
<1>4. FenceFirst' /\ Carried'
  BY Zenon, <1>1, SameFenced DEF Register, Carried
<1> QED
  BY Zenon, <1>1, <1>2, <1>3, <1>4 DEF DirInv

LEMMA RunnerLostStep ==
  ASSUME LedgerInv, NEW r \in Runners, RunnerLost(r)
  PROVE  LedgerInv'
<1> USE DEF LedgerInv, TypeOK
<1>1. DirInv' /\ StaysFenced
  BY Zenon, HealthKeeps DEF RunnerLost
<1>2. EngineType'
  BY Zenon DEF RunnerLost, EngineType, engineVars
<1>3. FlowType'
  BY Zenon, FaultTyped DEF RunnerLost, FlowType, runnerVars
<1>4. FenceFirst' /\ Carried'
  BY Zenon, <1>1, SameFenced DEF RunnerLost, Carried
<1> QED
  BY Zenon, <1>1, <1>2, <1>3, <1>4 DEF DirInv

LEMMA HeartbeatStep ==
  ASSUME LedgerInv, NEW r \in Runners, Heartbeat(r)
  PROVE  LedgerInv'
<1> USE DEF LedgerInv, TypeOK
<1>1. DirInv' /\ StaysFenced
  BY Zenon, HealthKeeps DEF Heartbeat
<1>2. EngineType'
  BY Zenon DEF Heartbeat, EngineType, engineVars
<1>3. FlowType'
  BY Zenon DEF Heartbeat, FlowType, runnerVars
<1>4. FenceFirst' /\ Carried'
  BY Zenon, <1>1, SameFenced DEF Heartbeat, Carried
<1> QED
  BY Zenon, <1>1, <1>2, <1>3, <1>4 DEF DirInv

LEMMA RemoveRunnerStep ==
  ASSUME LedgerInv, NEW r \in Runners, RemoveRunner(r)
  PROVE  LedgerInv'
<1> USE DEF LedgerInv, TypeOK
<1>1. DirInv' /\ StaysFenced
  BY Zenon, HealthKeeps DEF RemoveRunner
<1>2. EngineType'
  BY Zenon DEF RemoveRunner, EngineType, engineVars
<1>3. FlowType'
  BY Zenon DEF RemoveRunner, FlowType, runnerVars
<1>4. FenceFirst' /\ Carried'
  BY Zenon, <1>1, SameFenced DEF RemoveRunner, Carried
<1> QED
  BY Zenon, <1>1, <1>2, <1>3, <1>4 DEF DirInv

LEMMA FinishStep ==
  ASSUME LedgerInv, NEW t \in Tasks, Finish(t)
  PROVE  LedgerInv'
<1> USE DEF LedgerInv, TypeOK
<1>1. DirInv' /\ StaysFenced
  BY Zenon, SameKeeps DEF Finish
<1>2. EngineType'
  BY Zenon DEF Finish, EngineType, engineVars
<1>3. FlowType'
  BY Zenon, FaultTyped DEF Finish, FlowType, runnerVars
<1>4. FenceFirst' /\ Carried'
  BY Zenon, <1>1, SameFenced DEF Finish, Carried
<1> QED
  BY Zenon, <1>1, <1>2, <1>3, <1>4 DEF DirInv

LEMMA StutterStep == LedgerInv /\ UNCHANGED vars => LedgerInv'
<1> SUFFICES ASSUME LedgerInv, UNCHANGED vars PROVE LedgerInv'
  OBVIOUS
<1> USE DEF LedgerInv, TypeOK, vars
<1>1. DirInv' /\ StaysFenced
  BY Zenon, SameKeeps
<1>2. EngineType' /\ FlowType'
  BY Zenon DEF EngineType, engineVars, FlowType, runnerVars
<1>3. FenceFirst' /\ Carried'
  BY Zenon, <1>1, SameFenced DEF Carried
<1> QED
  BY Zenon, <1>1, <1>2, <1>3 DEF DirInv

LEMMA AdvanceStep ==
  ASSUME LedgerInv, NEW p \in Requests, Advance(p)
  PROVE  LedgerInv'
  BY Zenon, MarkStep, BuildStep, GiveUpStep, GiveBackStep, RecoverStep, RecordStep, FinalizeStep, RespondStep, ResolveStep, SettleStep,
     ReplayStep, CommitStep, ReleaseStep, OrphanAskStep DEF Advance

LEMMA PollStep ==
  ASSUME LedgerInv, NEW p \in Requests, NEW r \in Runners, Poll(p, r)
  PROVE  LedgerInv'
  BY Zenon, PollTakeStep, PollReplayStep, PollStrandedStep, PollClaimStep DEF Poll

\* Every step of every actor keeps the invariant.
LEMMA NextStep == LedgerInv /\ [Next]_vars => LedgerInv'
<1> SUFFICES ASSUME LedgerInv, [Next]_vars PROVE LedgerInv'
  OBVIOUS
<1>1. ASSUME NEW t \in Tasks,
             \/ Deliver(t) \/ Lapse(t) \/ MetaExpires(t) \/ Finish(t)
             \/ ReapStranded(t) \/ ReapDeadQueued(t)
      PROVE  LedgerInv'
  BY Zenon, <1>1, DeliverStep, LapseStep, MetaExpiresStep, FinishStep, ReapStrandedStep, ReapDeadQueuedStep
<1>2. ASSUME NEW c \in Claims, ReclaimExpired(c) \/ ReapLedger(c)
      PROVE  LedgerInv'
  BY Zenon, <1>2, ReclaimExpiredStep, ReapLedgerStep
<1>3. ASSUME NEW p \in Requests,
             \/ Advance(p) \/ Fails(p) \/ Dies(p)
             \/ \E r \in Runners : Poll(p, r) \/ \E t \in Tasks, n \in 1..MaxLeases : Report(p, r, t, n)
             \/ \E c \in Claims : OrphanTake(p, c)
      PROVE  LedgerInv'
  BY Zenon, <1>3, AdvanceStep, FailsStep, DiesStep, PollStep, ReportStep, OrphanTakeStep
<1>4. ASSUME NEW r \in Runners,
             \/ Register(r) \/ RunnerLost(r) \/ Heartbeat(r) \/ RemoveRunner(r)
             \/ \E t \in Tasks : Renew(r, t)
      PROVE  LedgerInv'
  BY Zenon, <1>4, RegisterStep, RunnerLostStep, HeartbeatStep, RemoveRunnerStep, RenewStep
<1>5. ASSUME Sweep \/ SweepDies PROVE LedgerInv'
  BY Zenon, <1>5, SweepListStep, SweepReleaseStep, SweepReclaimStep, SweepSettleStep, SweepDiesStep DEF Sweep
<1> QED
  BY Zenon, <1>1, <1>2, <1>3, <1>4, <1>5, StutterStep DEF Next

LEMMA AlwaysLedger == Spec => []LedgerInv
  BY InitLedger, NextStep, PTL DEF Spec

-----------------------------------------------------------------------------
(* A claim that is not in the expiry index waits for a resolver.           *)

Parked == ~Slow => \A c \in live : c \in expiry \/ (c \in ready /\ ~WorkingOn(c))

\* No claim is made or loses its place, and no request takes one up.
Calm ==
    /\ live' \subseteq live
    /\ \A c \in live' : (c \in expiry => c \in expiry') /\ (c \in ready => c \in ready')
NoNewWork == \A c \in Claims : WorkingOn(c)' => WorkingOn(c)

LEMMA CalmParked ==
  ASSUME LedgerInv, Parked, Calm, NoNewWork
  PROVE  Parked'
  BY Zenon DEF LedgerInv, DirInv, DirType, Parked, Calm, NoNewWork

LEMMA ScriptsCalm ==
  ASSUME DirInv
  PROVE  /\ UNCHANGED ledgerVars => Calm
         /\ \A c : MakeRecoverable(c) => Calm
         /\ \A c, n : FinalizeClaim(c, n) => Calm
         /\ \A c, d : SettleHandoff(c, d) => Calm
         /\ \A t, n : SettleFinalized(t, n) => Calm
         /\ \A r, t, n, b : ReleaseLeased(r, t, n, b) => Calm
         /\ \A t : ReleaseExpired(t) => Calm
         /\ \A t \in Tasks : ClearAssignment(t) => Calm
         /\ \A r, s : RegisterRunner(r, s) => Calm
<1> USE DEF Calm
<1>1. UNCHANGED ledgerVars => Calm
  BY Zenon DEF ledgerVars
<1>2. \A c : MakeRecoverable(c) => Calm
  BY Zenon DEF MakeRecoverable
<1>3. \A c, n : FinalizeClaim(c, n) => Calm
  BY Zenon DEF FinalizeClaim
<1>4. \A c, d : SettleHandoff(c, d) => Calm
  BY Zenon DEF SettleHandoff, Forget
<1>5. \A t, n : SettleFinalized(t, n) => Calm
  BY Zenon DEF SettleFinalized
<1>6. \A r, t, n, b : ReleaseLeased(r, t, n, b) => Calm
  BY DEF ReleaseLeased, SettleFinalized, dirVars, ledgerVars
<1>7. \A t : ReleaseExpired(t) => Calm
  BY Zenon DEF ReleaseExpired, ledgerVars
<1>8. \A t \in Tasks : ClearAssignment(t) => Calm
  <2> SUFFICES ASSUME NEW t \in Tasks, ClearAssignment(t) PROVE Calm
    OBVIOUS
  <2>1. index[t] \in live => row[t].claim = index[t]
    <3>1. index[t] \in live => index[t] # 0
      BY Zenon, LiveFacts, Numbers
    <3>2. index[t] # 0 => debt[index[t]].task = t
      BY Zenon DEF DirInv, Shape, IndexShaped
    <3>3. index[t] \in live => row[debt[index[t]].task].claim = index[t]
      BY Zenon DEF DirInv, LedgerMatches, ClaimsOwned, Owns
    <3> QED
      BY Zenon, <3>1, <3>2, <3>3
  <2> QED
    BY Zenon, <2>1 DEF ClearAssignment
<1>9. \A r, s : RegisterRunner(r, s) => Calm
  BY Zenon DEF RegisterRunner
<1> QED
  BY Zenon, <1>1, <1>2, <1>3, <1>4, <1>5, <1>6, <1>7, <1>8, <1>9

LEMMA MovesCalm ==
  ASSUME NEW p \in Requests, NEW pc, NEW t, NEW c, Moves(p, pc, t, c),
         c \notin Claims \/ (c = job[p].claim /\ job[p].pc # "respond")
  PROVE  NoNewWork
  BY Zenon DEF NoNewWork, WorkingOn, Moves

\* Requests that go on, or leave, take up no claim.
LEMMA StepsCalm ==
  ASSUME FlowType
  PROVE  /\ job' = job => NoNewWork
         /\ \A p \in Requests : Leave(p) => NoNewWork
         /\ \A p \in Requests, pc \in Steps : job[p].pc # "respond" /\ Enter(p, pc) => NoNewWork
         /\ \A p \in Requests, pc \in Steps, n \in Leases :
               job[p].pc # "respond" /\ Got(p, pc, n) => NoNewWork
<1>1. job' = job => NoNewWork
  BY Zenon DEF NoNewWork, WorkingOn
<1>2. \A p \in Requests : Leave(p) => NoNewWork
  BY Zenon, Numbers, LeaveMoves, MovesCalm
<1>3. \A p \in Requests, pc \in Steps : job[p].pc # "respond" /\ Enter(p, pc) => NoNewWork
  BY Zenon, EnterMoves, MovesCalm
<1>4. \A p \in Requests, pc \in Steps, n \in Leases :
         job[p].pc # "respond" /\ Got(p, pc, n) => NoNewWork
  BY Zenon, GrantMoves, MovesCalm
<1> QED
  BY Zenon, <1>1, <1>2, <1>3, <1>4

\* A request that takes a claim up finds it in the expiry index.
LEMMA TakesParked ==
  ASSUME LedgerInv, Parked, NEW p \in Requests, NEW pc, NEW t, NEW c, Moves(p, pc, t, c),
         c \in expiry', \A d \in live' \ {c} : d \in live /\ (d \in expiry => d \in expiry') /\ (d \in ready => d \in ready')
  PROVE  Parked'
<1>1. \A d \in Claims \ {c} : WorkingOn(d)' => WorkingOn(d)
  BY Zenon DEF WorkingOn, Moves
<1> QED
  BY Zenon, <1>1 DEF LedgerInv, DirInv, DirType, Parked

\* A request at work on its claim finds it in the expiry index, so it may
\* take the flag away.
LEMMA WorkerParked ==
  ASSUME LedgerInv, Parked, NEW p \in Requests, NEW pc \in Steps, Enter(p, pc), job[p].pc # "respond",
         UNCHANGED <<live, expiry>>, \A d \in live \ {job[p].claim} : d \in ready => d \in ready'
  PROVE  Parked'
<1>1. NoNewWork
  BY Zenon, StepsCalm DEF LedgerInv, TypeOK
<1>2. WorkingOn(job[p].claim)
  BY Zenon DEF WorkingOn
<1> QED
  BY Zenon, <1>1, <1>2 DEF LedgerInv, DirInv, DirType, Parked, NoNewWork

LEMMA AdvanceParked ==
  ASSUME LedgerInv, Parked, NEW p \in Requests, Advance(p)
  PROVE  Parked'
<1> USE DEF LedgerInv, TypeOK
<1>a. /\ job[p].pc \in Asking \cup {"mark"} => job[p].claim \in Claims
      /\ job[p].pc # "idle" => job[p].task \in Tasks
      /\ job[p].lease \in Leases /\ token \in [Tasks -> Leases]
  BY Zenon, AtWork
<1>1. CASE Mark(p)
  <2>1. CASE UNCHANGED dirVars /\ Leave(p)
    BY Zenon, <2>1, ScriptsCalm, StepsCalm, CalmParked DEF dirVars
  <2>2. CASE MarkLeaseMayExist(job[p].claim) /\ Enter(p, "build")
    BY Zenon, <1>1, <2>2, WorkerParked DEF Mark, At, MarkLeaseMayExist, Steps, Asking
  <2> QED
    BY Zenon, <1>1, <2>1, <2>2 DEF Mark
<1>2. CASE Build(p)
  <2>1. Calm
    BY Zenon, <1>2, ScriptsCalm DEF Build, dirVars
  <2>2. NoNewWork
    <3>1. job[p].pc = "build" /\ job[p].task \in Tasks
      BY Zenon, <1>2, <1>a DEF Build, At
    <3>2. CASE Buildable(job[p].task)
      <4>1. token[job[p].task] + 1 \in Leases
        BY <1>2, <3>1, <3>2, <1>a, LedgerAssumption DEF Build, Grant, Leases
      <4> QED
        BY Zenon, <1>2, <3>1, <3>2, <4>1, StepsCalm DEF Build, Steps, Asking
    <3>3. CASE ~Buildable(job[p].task)
      BY Zenon, <1>2, <3>1, <3>3, StepsCalm DEF Build, Steps, Asking
    <3> QED
      BY Zenon, <3>2, <3>3
  <2> QED
    BY Zenon, <2>1, <2>2, CalmParked
<1>3. CASE Recover(p)
  <2>1. Calm
    BY Zenon, <1>3, ScriptsCalm DEF Recover, dirVars
  <2>2. NoNewWork
    <3>1. job[p].pc = "recover" /\ job[p].task \in Tasks
      BY Zenon, <1>3, <1>a DEF Recover, At
    <3> QED
      BY Zenon, <1>3, <3>1, <1>a, StepsCalm DEF Recover, Steps, Asking
  <2> QED
    BY Zenon, <2>1, <2>2, CalmParked
<1>4. CASE Record(p)
  <2>1. CASE MakeRecoverable(job[p].claim) /\ Leave(p)
    BY Zenon, <2>1, ScriptsCalm, StepsCalm, CalmParked
  <2>2. CASE RecordLeaseCreated(job[p].claim, job[p].lease) /\ Enter(p, "finalize")
    BY Zenon, <1>4, <2>2, WorkerParked DEF Record, At, RecordLeaseCreated, Steps, Asking
  <2> QED
    BY Zenon, <1>4, <2>1, <2>2 DEF Record
<1>5. CASE Finalize(p)
  <2>1. Calm
    BY Zenon, <1>5, ScriptsCalm DEF Finalize
  <2>2. NoNewWork
    BY Zenon, <1>5, StepsCalm DEF Finalize, At, Steps
  <2> QED
    BY Zenon, <2>1, <2>2, CalmParked
<1>6. CASE Respond(p)
  BY Zenon, <1>6, ScriptsCalm, StepsCalm, CalmParked DEF Respond, dirVars
<1>7. CASE Resolve(p)
  <2>1. Calm
    BY Zenon, <1>7, ScriptsCalm DEF Resolve, dirVars
  <2>2. NoNewWork
    <3>1. job[p].pc = "resolve" /\ job[p].task \in Tasks
      BY Zenon, <1>7, <1>a DEF Resolve, At
    <3> QED
      BY Zenon, <1>7, <3>1, <1>a, StepsCalm DEF Resolve, Disposed, Steps, Asking
  <2> QED
    BY Zenon, <2>1, <2>2, CalmParked
<1>8. ASSUME NEW d \in {"drop", "requeue"}, Settle(p, d) PROVE Parked'
  <2>1. Calm
    BY Zenon, <1>8, ScriptsCalm DEF Settle
  <2> QED
    BY Zenon, <1>8, <2>1, StepsCalm, CalmParked DEF Settle
<1>9. CASE Replay(p)
  <2>1. Calm
    BY Zenon, <1>9, <1>a, ScriptsCalm DEF Replay, At, dirVars
  <2>2. NoNewWork
    BY Zenon, <1>9, <1>a, StepsCalm DEF Replay, At, Steps
  <2> QED
    BY Zenon, <2>1, <2>2, CalmParked
<1>10. CASE Commit(p)
  <2>1. Calm
    BY Zenon, <1>10, ScriptsCalm DEF Commit, dirVars
  <2>2. NoNewWork
    BY Zenon, <1>10, StepsCalm DEF Commit, At, Steps
  <2> QED
    BY Zenon, <2>1, <2>2, CalmParked
<1>11. CASE Release(p)
  BY Zenon, <1>11, ScriptsCalm, StepsCalm, CalmParked DEF Release
<1>12. CASE OrphanAsk(p)
  <2>1. Calm
    BY Zenon, <1>12, ScriptsCalm DEF OrphanAsk, dirVars
  <2>2. NoNewWork
    BY Zenon, <1>12, StepsCalm DEF OrphanAsk, Disposed, At, Steps, Asking
  <2> QED
    BY Zenon, <2>1, <2>2, CalmParked
<1>13. CASE GiveUp(p)
  <2>1. Calm
    BY Zenon, <1>13, ScriptsCalm DEF GiveUp, dirVars
  <2>2. NoNewWork
    BY Zenon, <1>13, StepsCalm DEF GiveUp, At, Steps, Asking
  <2> QED
    BY Zenon, <2>1, <2>2, CalmParked
<1>14. CASE GiveBack(p)
  BY Zenon, <1>14, ScriptsCalm, StepsCalm, CalmParked DEF GiveBack
<1> QED
  BY Zenon, <1>13, <1>14, <1>1, <1>2, <1>3, <1>4, <1>5, <1>6, <1>7, <1>8, <1>9, <1>10, <1>11, <1>12 DEF Advance

LEMMA PollParked ==
  ASSUME LedgerInv, Parked, NEW p \in Requests, NEW r \in Runners, Poll(p, r)
  PROVE  Parked'
<1> USE DEF LedgerInv, TypeOK
<1>1. ASSUME NEW c \in Claims, PollTake(p, r, c) PROVE Parked'
  <2>1. debt[c].task \in Tasks
    BY Zenon, <1>1, LiveFacts DEF PollTake, TakeRecovery, DirInv, LedgerMatches
  <2>2. Moves(p, "resolve", debt[c].task, c)
    BY Zenon, <1>1, <2>1, Numbers, WorkMoves DEF PollTake, Steps, Asking
  <2> QED
    BY Zenon, <1>1, <2>2, TakesParked DEF PollTake, TakeRecovery
<1>2. ASSUME NEW t \in Tasks, PollReplay(p, r, t) PROVE Parked'
  <2>1. row[t].lease \in Leases
    BY Zenon DEF DirInv, DirType, Rows
  <2>2. \E pc : Moves(p, pc, t, 0)
    BY Zenon, <1>2, <2>1, Numbers, WorkMoves DEF PollReplay, Steps
  <2>3. Calm
    BY Zenon, <1>2, ScriptsCalm DEF PollReplay, dirVars
  <2> QED
    BY Zenon, <2>2, <2>3, Numbers, MovesCalm, CalmParked
<1>3. ASSUME NEW t \in Tasks, PollStranded(p, r, t) PROVE Parked'
  BY Zenon, <1>3, ScriptsCalm, StepsCalm, CalmParked DEF PollStranded
<1>4. ASSUME NEW t \in Tasks, PollClaim(p, r, t) PROVE Parked'
  <2>1. made + 1 \in Claims
    BY <1>4, LedgerAssumption DEF PollClaim, DirInv, DirType, Claims
  <2>2. Moves(p, "mark", t, made + 1)
    BY Zenon, <1>4, <2>1, WorkMoves, Numbers DEF PollClaim, Steps
  <2> QED
    BY Zenon, <1>4, <2>2, TakesParked DEF PollClaim, ClaimAssignment
<1> QED
  BY Zenon, <1>1, <1>2, <1>3, <1>4 DEF Poll

LEMMA ReclaimParked ==
  ASSUME LedgerInv, Parked, NEW c \in Claims, ReclaimExpired(c)
  PROVE  Parked'
<1>1. \A d \in Claims : WorkingOn(d)' => WorkingOn(d)
  BY Zenon, StepsCalm DEF ReclaimExpired, LedgerInv, TypeOK, NoNewWork
<1>2. /\ live' \subseteq live
      /\ \A d \in live' \ {c} : (d \in expiry => d \in expiry') /\ (d \in ready => d \in ready')
      /\ c \in live' => c \in ready'
  BY Zenon DEF ReclaimExpired, ReclaimClaim, Forget
<1> QED
  BY Zenon, <1>1, <1>2 DEF LedgerInv, DirInv, DirType, Parked, ReclaimExpired

LEMMA OtherParked ==
  ASSUME LedgerInv, Parked,
         \/ \E t \in Tasks : \/ Deliver(t) \/ Lapse(t) \/ MetaExpires(t) \/ Finish(t)
                            \/ ReapStranded(t) \/ ReapDeadQueued(t)
         \/ \E c \in Claims : ReapLedger(c)
         \/ \E r \in Runners : \/ Register(r) \/ RunnerLost(r) \/ Heartbeat(r) \/ RemoveRunner(r)
                              \/ \E t \in Tasks : Renew(r, t)
         \/ Sweep \/ SweepDies \/ UNCHANGED vars
  PROVE  Parked'
<1> USE ScriptsCalm, StepsCalm, CalmParked DEF LedgerInv, TypeOK
<1>1. ASSUME NEW t \in Tasks,
             \/ Deliver(t) \/ Lapse(t) \/ MetaExpires(t) \/ Finish(t)
             \/ ReapStranded(t) \/ ReapDeadQueued(t)
      PROVE  Calm /\ job' = job
  BY Zenon, <1>1 DEF Deliver, Lapse, MetaExpires, Finish, ReapStranded, ReapDeadQueued, dirVars
<1>2. ASSUME NEW c \in Claims, ReapLedger(c) PROVE Calm /\ job' = job
  BY Zenon, <1>2 DEF ReapLedger
<1>3. ASSUME NEW r \in Runners,
             \/ Register(r) \/ RunnerLost(r) \/ Heartbeat(r) \/ RemoveRunner(r)
             \/ \E t \in Tasks : Renew(r, t)
      PROVE  Calm /\ job' = job
  BY Zenon, <1>3 DEF Register, RunnerLost, Heartbeat, RemoveRunner, Renew, dirVars
<1>4. ASSUME Sweep \/ SweepDies PROVE Calm /\ job' = job
  BY Zenon, <1>4 DEF Sweep, SweepList, SweepRelease, SweepReclaim, SweepSettle, SweepDies, dirVars
<1>5. ASSUME UNCHANGED vars PROVE Calm /\ job' = job
  BY Zenon, <1>5 DEF vars, dirVars
<1> QED
  BY Zenon, <1>1, <1>2, <1>3, <1>4, <1>5

LEMMA NextParked == LedgerInv /\ Parked /\ [Next]_vars => Parked'
<1> SUFFICES ASSUME LedgerInv, Parked, [Next]_vars PROVE Parked'
  OBVIOUS
<1>1. ASSUME NEW p \in Requests, Fails(p) \/ Dies(p) PROVE Parked'
  BY Zenon, <1>1, ScriptsCalm, StepsCalm, CalmParked DEF Fails, Dies, dirVars, LedgerInv, TypeOK
<1>2. ASSUME NEW p \in Requests, NEW r \in Runners, NEW t \in Tasks, NEW n \in 1..MaxLeases, Report(p, r, t, n)
      PROVE  Parked'
  <2>1. Calm
    BY Zenon, <1>2, ScriptsCalm DEF Report, dirVars, LedgerInv
  <2>2. NoNewWork
    <3>1. n \in Leases
      BY LedgerAssumption DEF Leases
    <3> QED
      BY <1>2, <3>1, Numbers, StepsCalm, WorkMoves, MovesCalm DEF Report, LedgerInv, TypeOK, Steps
  <2> QED
    BY Zenon, <2>1, <2>2, CalmParked
<1>3. ASSUME NEW p \in Requests, NEW c \in Claims, OrphanTake(p, c) PROVE Parked'
  <2>1. debt[c].task \in Tasks
    BY Zenon, <1>3, LiveFacts DEF OrphanTake, TakeRecovery, LedgerInv, DirInv, LedgerMatches
  <2>2. Moves(p, "orphan", debt[c].task, c)
    BY Zenon, <1>3, <2>1, Numbers DEF OrphanTake, Moves, LedgerInv, TypeOK, FlowType, Jobs, Steps, Asking
  <2> QED
    BY Zenon, <1>3, <2>2, TakesParked DEF OrphanTake, TakeRecovery
<1> QED
  BY Zenon, <1>1, <1>2, <1>3, AdvanceParked, PollParked, ReclaimParked, OtherParked DEF Next

-----------------------------------------------------------------------------
(* Every step moves assignments as on the board, or not at all.            *)

LEMMA AdvanceMoves ==
  ASSUME LedgerInv, NEW p \in Requests, Advance(p)
  PROVE  BoardMoves
<1> USE DEF LedgerInv
<1>1. ASSUME \/ Mark(p) \/ Build(p) \/ GiveUp(p) \/ GiveBack(p) \/ Recover(p) \/ Record(p) \/ Respond(p) \/ Resolve(p)
             \/ Commit(p) \/ OrphanAsk(p)
      PROVE  row' = row
  BY Zenon, <1>1 DEF Mark, Build, GiveUp, GiveBack, Recover, Record, Respond, Resolve, Commit, OrphanAsk,
     MarkLeaseMayExist, RecordLeaseCreated, MakeRecoverable, dirVars
<1>2. ASSUME Finalize(p) PROVE BoardMoves
  <2>1. CASE row' = row
    BY Zenon, <2>1, SameMoves
  <2>2. CASE Finalizable(job[p].claim) /\ FinalizeClaim(job[p].claim, job[p].lease)
    BY Zenon, <2>2, FinalizeMoves DEF Finalizable, Owns
  <2> QED
    BY Zenon, <1>2, <2>1, <2>2 DEF Finalize, MakeRecoverable
<1>3. ASSUME NEW d \in {"drop", "requeue"}, Settle(p, d) PROVE BoardMoves
  <2> DEFINE c == job[p].claim
             t == debt[c].task
  <2>1. CASE row' = row
    BY Zenon, <2>1, SameMoves
  <2>2. CASE Settleable(c) /\ SettleHandoff(c, d)
    <3>1. t \in Tasks /\ row[t].state \in {"none", "claimed"}
      BY Zenon, <2>2, LiveFacts DEF Settleable
    <3>2. CASE d = "requeue"
      <4>1. row' = [row EXCEPT ![t] = Requeued(t)]
        BY Zenon, <2>2, <3>2 DEF SettleHandoff
      <4> QED
        BY Zenon, <3>1, <4>1, QueuedMoves
    <3>3. CASE d # "requeue"
      <4>1. row' = [row EXCEPT ![t] = NoRow]
        BY Zenon, <2>2, <3>3 DEF SettleHandoff
      <4> QED
        BY Zenon, <3>1, <4>1, NoRowMoves
    <3> QED
      BY Zenon, <3>2, <3>3
  <2> QED
    BY Zenon, <1>3, <2>1, <2>2 DEF Settle, MakeRecoverable
<1>4. ASSUME Replay(p) PROVE BoardMoves
  <2>1. CASE row' = row
    BY Zenon, <2>1, SameMoves
  <2>2. CASE ClearAssignment(job[p].task)
    <3>1. job[p].task \in Tasks
      BY Zenon, <1>4, AtWork DEF Replay, At
    <3>2. row' = [row EXCEPT ![job[p].task] = NoRow]
      BY Zenon, <2>2 DEF ClearAssignment
    <3> QED
      BY Zenon, <3>1, <3>2, NoRowMoves
  <2> QED
    BY Zenon, <1>4, <2>1, <2>2 DEF Replay, dirVars
<1>5. ASSUME Release(p) PROVE BoardMoves
  <2> DEFINE t == job[p].task
  <2>1. CASE row' = row
    BY Zenon, <2>1, SameMoves
  <2>2. CASE row' = [row EXCEPT ![t] = NoRow] \/ row' = [row EXCEPT ![t] = [NoRow EXCEPT !.state = "released"]]
    <3>1. t \in Tasks
      BY Zenon, <1>5, AtWork DEF Release
    <3>2. CASE row' = [row EXCEPT ![t] = NoRow]
      BY Zenon, <3>1, <3>2, NoRowMoves
    <3>3. CASE row' = [row EXCEPT ![t] = [NoRow EXCEPT !.state = "released"]]
      BY Zenon, <3>1, <3>3, ReleasedMoves
    <3> QED
      BY Zenon, <2>2, <3>2, <3>3
  <2> QED
    BY Zenon, <1>5, <2>1, <2>2 DEF Release, ReleaseLeased, dirVars
<1> QED
  BY Zenon, <1>1, <1>2, <1>3, <1>4, <1>5, SameMoves DEF Advance

LEMMA PollMoves ==
  ASSUME LedgerInv, NEW p \in Requests, NEW r \in Runners, Poll(p, r)
  PROVE  BoardMoves
<1> USE DEF LedgerInv
<1>1. ASSUME NEW c \in Claims, PollTake(p, r, c) PROVE row' = row
  BY Zenon, <1>1 DEF PollTake, TakeRecovery
<1>2. ASSUME NEW t \in Tasks, PollReplay(p, r, t) PROVE row' = row
  BY Zenon, <1>2 DEF PollReplay, dirVars
<1>3. ASSUME NEW t \in Tasks, PollStranded(p, r, t) PROVE BoardMoves
  BY Zenon, <1>3, NoRowMoves DEF PollStranded, ReleaseExpired
<1>4. ASSUME NEW t \in Tasks, PollClaim(p, r, t) PROVE BoardMoves
  BY Zenon, <1>4, ClaimMoves DEF PollClaim
<1> QED
  BY Zenon, <1>1, <1>2, <1>3, <1>4, SameMoves DEF Poll

LEMMA SweepMoves ==
  ASSUME LedgerInv, Sweep \/ SweepDies
  PROVE  BoardMoves
<1> USE DEF LedgerInv
<1>1. ASSUME (\E t \in Tasks : SweepList(t)) \/ SweepReclaim \/ SweepSettle \/ SweepDies PROVE row' = row
  BY Zenon, <1>1 DEF SweepList, SweepReclaim, SweepSettle, SweepDies, dirVars
<1>2. ASSUME SweepRelease PROVE BoardMoves
  <2>1. CASE row' = row
    BY Zenon, <2>1, SameMoves
  <2>2. CASE ReleaseExpired(sweep.task)
    <3>1. sweep.task \in Tasks
      BY Zenon, <1>2 DEF SweepRelease, Carried
    <3> QED
      BY Zenon, <2>2, <3>1, NoRowMoves DEF ReleaseExpired
  <2> QED
    BY Zenon, <1>2, <2>1, <2>2 DEF SweepRelease, dirVars
<1> QED
  BY Zenon, <1>1, <1>2, SameMoves DEF Sweep

LEMMA TaskMoves ==
  ASSUME LedgerInv, NEW t \in Tasks,
         \/ Deliver(t) \/ Lapse(t) \/ MetaExpires(t) \/ Finish(t)
         \/ ReapStranded(t) \/ ReapDeadQueued(t)
  PROVE  BoardMoves
<1> USE DEF LedgerInv
<1>1. ASSUME Lapse(t) \/ MetaExpires(t) \/ Finish(t) PROVE row' = row
  BY Zenon, <1>1 DEF Lapse, MetaExpires, Finish, dirVars
<1>2. ASSUME Deliver(t) PROVE BoardMoves
  <2>1. row' = row \/ (row[t].state \in {"none", "released"} /\ row' = [row EXCEPT ![t] = Requeued(t)])
    BY Zenon, <1>2 DEF Deliver, Enqueue
  <2> QED
    BY Zenon, <2>1, SameMoves, QueuedMoves
<1>3. ASSUME ReapStranded(t) \/ ReapDeadQueued(t) PROVE BoardMoves
  BY Zenon, <1>3, NoRowMoves DEF ReapStranded, ReapDeadQueued, ReleaseExpired
<1> QED
  BY Zenon, <1>1, <1>2, <1>3, SameMoves

LEMMA ReclaimMoves ==
  ASSUME LedgerInv, NEW c \in Claims, ReclaimExpired(c)
  PROVE  BoardMoves
<1> USE DEF LedgerInv
<1> DEFINE t == debt[c].task
<1>1. c \in live
  BY Zenon DEF ReclaimExpired, DirInv, LedgerMatches
<1>2. t \in Tasks /\ Owns(c) /\ row[t].state = "claimed"
  BY Zenon, <1>1, LiveFacts DEF DirInv, LedgerMatches, ClaimsOwned, Owns
<1>3. row' = row \/ row' = [row EXCEPT ![t] = Requeued(t)]
  BY Zenon, <1>2 DEF ReclaimExpired, ReclaimClaim
<1> QED
  BY Zenon, <1>2, <1>3, SameMoves, QueuedMoves

LEMMA NextMoves == LedgerInv /\ [Next]_vars => BoardMoves
<1> SUFFICES ASSUME LedgerInv, [Next]_vars PROVE BoardMoves
  OBVIOUS
<1>1. ASSUME NEW c \in Claims, ReapLedger(c) PROVE row' = row
  BY Zenon, <1>1 DEF ReapLedger
<1>2. ASSUME NEW p \in Requests, Fails(p) \/ Dies(p) PROVE row' = row
  BY Zenon, <1>2 DEF Fails, Dies, MakeRecoverable, dirVars
<1>3. ASSUME NEW p \in Requests, NEW r \in Runners, NEW t \in Tasks, NEW n \in 1..MaxLeases, Report(p, r, t, n)
      PROVE  row' = row
  BY Zenon, <1>3 DEF Report, dirVars
<1>4. ASSUME NEW p \in Requests, NEW c \in Claims, OrphanTake(p, c) PROVE row' = row
  BY Zenon, <1>4 DEF OrphanTake, TakeRecovery
<1>5. ASSUME NEW r \in Runners,
             RunnerLost(r) \/ Heartbeat(r) \/ RemoveRunner(r) \/ \E t \in Tasks : Renew(r, t)
      PROVE  row' = row
  BY Zenon, <1>5 DEF RunnerLost, Heartbeat, RemoveRunner, Renew, dirVars
<1>6. ASSUME NEW r \in Runners, Register(r) PROVE BoardMoves
  BY Zenon, <1>6, RegisterMoves DEF Register, LedgerInv
<1>7. CASE UNCHANGED vars
  BY Zenon, <1>7, SameMoves DEF vars, dirVars
<1> QED
  BY Zenon, <1>1, <1>2, <1>3, <1>4, <1>5, <1>6, <1>7, SameMoves, AdvanceMoves, PollMoves, SweepMoves,
     TaskMoves, ReclaimMoves DEF Next

-----------------------------------------------------------------------------
(* The theorems.                                                           *)

\* Types of the whole model: no request carries a claim or a lease that was
\* never made.
THEOREM TypesHold == Spec => []TypeOK
<1>1. LedgerInv => TypeOK
  BY Zenon DEF LedgerInv
<1> QED
  BY <1>1, AlwaysLedger, PTL

\* Claim hashes, claimed rows, ledger records, the two claim indexes and the
\* queue lanes agree after every script of redis_runner_directory.go.
THEOREM LedgerStaysConsistent == Spec => []LedgerMatches
<1>1. LedgerInv => LedgerMatches
  BY Zenon DEF LedgerInv, DirInv
<1> QED
  BY <1>1, AlwaysLedger, PTL

\* Registrations and removals leave nothing under a session that is over
\* (redisRegisterRunnerLua, RemoveRunner).
THEOREM NothingUnderOldSessions == Spec => []SessionsCurrent
<1>1. LedgerInv => SessionsCurrent
  BY Zenon DEF LedgerInv, DirInv
<1> QED
  BY <1>1, AlwaysLedger, PTL

\* Whoever may be asking the engine for a lease has marked its claim first
\* (prepareClaimLease), and nothing takes the mark away under it.
THEOREM FenceIsHeld == Spec => []FenceFirst
<1>1. LedgerInv => FenceFirst
  BY Zenon DEF LedgerInv
<1> QED
  BY <1>1, AlwaysLedger, PTL

\* The counters that admit a claim (runnerClaimCount, runnerLeaseCount) are
\* exact after every script, and never add up to more than the capacity.
THEOREM CapacityIsExact == Spec => []CapacityExact
<1>1. LedgerInv => CapacityExact
  BY Zenon DEF LedgerInv, DirInv
<1> QED
  BY <1>1, AlwaysLedger, PTL

\* A claim that has left the expiry index waits with its flag up, if requests
\* do not outlast their claims (redisRecoverExpiredClaimsLua).
THEOREM ParkedClaimsAreReady == Spec => []ParkedIsReady
<1>1. Init => Parked
  BY Zenon DEF Init, DirInit, Parked
<1>2. Parked => ParkedIsReady
  BY Zenon DEF Parked, ParkedIsReady
<1> QED
  BY <1>1, <1>2, NextParked, AlwaysLedger, PTL DEF Spec

\* For any number of tasks, runners, requests and faults, the scripts of
\* redis_runner_directory.go and the requests that run them implement the
\* plain board: a claim is taken from the queue within the runner's capacity
\* (ClaimAssignment), is leased to its own runner (FinalizeClaim) or given
\* back, and a leased assignment is queued again only after its release.
THEOREM DirectoryImplementsBoard == Spec => ImplementsBoard
<1>1. Init => Board!Init
  <2> SUFFICES ASSUME Init PROVE Board!Init
    OBVIOUS
  <2>1. \A t \in Tasks : Place(t) = "away" /\ Holder(t) = Nobody
    BY DEF Init, DirInit, Place, Holder, NoRow
  <2> QED
    BY Zenon, <2>1 DEF Board!Init
<1>2. LedgerInv /\ [Next]_vars => [Board!Next]_(Board!vars)
  BY Zenon, NextMoves DEF BoardMoves
<1> QED
  BY <1>1, <1>2, AlwaysLedger, PTL DEF Spec, ImplementsBoard, Board!Spec

=============================================================================
