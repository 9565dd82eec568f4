----------------------- MODULE RunnerDirectory_waiting -----------------------
(***************************************************************************)
(* A node task the engine waits for is not forgotten by the directory.     *)
(* The inductive invariant Awaited goes with LedgerInv, which              *)
(* RunnerDirectory_proofs shows to hold: a task that waits is queued, or   *)
(* claimed by nobody who has a lease for it, and whoever drops a claim or  *)
(* clears a row does so for a task that does not wait.                     *)
(***************************************************************************)
EXTENDS RunnerDirectory_proofs

\* Pending, with no intent in the outbox and none taken for a duplicate.
Waiting == {t \in Tasks \ Groups : node[t] = "pending" /\ t \notin due \cup absorbed}

\* Requests that have a lease of the engine and have not written it yet.
Leasing == {"record", "finalize"}

\* What a request is at, it is at with reason.
Fits == \A p \in Requests :
    /\ job[p].pc \in Asking \cup {"mark"} /\ job[p].claim \in live => debt[job[p].claim].task = job[p].task
    /\ job[p].pc = "drop" => job[p].task \in Groups \/ node[job[p].task] = "done"

\* A waiting task is queued, or claimed by a request that has no lease for it.
Offered == \A t \in Waiting :
    \/ row[t].state = "queued"
    \/ /\ row[t].state = "claimed"
       /\ \A p \in Requests : job[p].pc \in Leasing => job[p].claim # row[t].claim

Awaited == Fits /\ Offered

\* What the scripts and the engine leave alone.
DebtsStay == \A c \in live' : c \in 1..made => c \in live /\ debt'[c].task = debt[c].task
RowStays(t) == row[t].state \in {"queued", "claimed"} =>
    \/ row'[t].state = "queued"
    \/ /\ row'[t].state = "claimed"
       /\ row'[t].claim \notin 1..made \/ (row[t].state = "claimed" /\ row'[t].claim = row[t].claim)
RowsStay == \A t \in Waiting : RowStays(t)
EngineStays ==
    /\ \A t \in Waiting' : t \in Waiting \/ row'[t].state = "queued"
    /\ \A t \in Tasks : node[t] = "done" => node'[t] = "done"
Stays == DebtsStay /\ RowsStay /\ EngineStays

LEMMA SameAwaited ==
  ASSUME LedgerInv, Awaited, Stays, job' = job
  PROVE  Awaited'
<1> USE DEF Stays, EngineStays
<1>1. Fits'
  BY Zenon DEF Awaited, Fits, DebtsStay, LedgerInv, Carried, Asking
<1>2. Offered'
  <2> SUFFICES ASSUME NEW t \in Waiting', row'[t].state # "queued"
               PROVE  /\ row'[t].state = "claimed"
                      /\ \A p \in Requests : job[p].pc \in Leasing => job[p].claim # row'[t].claim
    BY Zenon DEF Offered
  <2>1. t \in Waiting
    BY Zenon
  <2>2. RowStays(t)
    BY Zenon, <2>1 DEF RowsStay
  <2>3. \A p \in Requests : job[p].pc \in Leasing => job[p].claim \in 1..made
    BY Zenon DEF LedgerInv, Carried, Leasing, Asking
  <2> QED
    BY Zenon, <2>1, <2>2, <2>3 DEF Awaited, Offered, RowStays
<1> QED
  BY Zenon, <1>1, <1>2 DEF Awaited

\* A request that moves must have a reason for where it goes, and a lease only
\* for a task that does not wait.
LEMMA MoveAwaited ==
  ASSUME LedgerInv, LedgerInv', Awaited, Stays,
         NEW p \in Requests, NEW pc, NEW t, NEW c, Moves(p, pc, t, c),
         pc \in Asking \cup {"mark"} /\ c \in live' => debt'[c].task = t,
         pc = "drop" => t \in Groups \/ node'[t] = "done",
         pc \in Leasing => t \notin Waiting' \/ (job[p].pc \in Leasing /\ c = job[p].claim)
  PROVE  Awaited'
<1> USE DEF Stays, EngineStays
<1>1. Fits'
  <2> SUFFICES ASSUME NEW q \in Requests
               PROVE  /\ job'[q].pc \in Asking \cup {"mark"} /\ job'[q].claim \in live' =>
                             debt'[job'[q].claim].task = job'[q].task
                      /\ job'[q].pc = "drop" => job'[q].task \in Groups \/ node'[job'[q].task] = "done"
    BY Zenon DEF Fits
  <2>1. CASE q = p
    BY Zenon, <2>1 DEF Moves
  <2>2. CASE q # p
    <3>1. job'[q] = job[q]
      BY Zenon, <2>2 DEF Moves
    <3>2. /\ job[q].pc \in Asking \cup {"mark"} => job[q].claim \in 1..made
          /\ job[q].pc # "idle" => job[q].task \in Tasks
      BY Zenon DEF LedgerInv, Carried
    <3>3. /\ job[q].pc \in Asking \cup {"mark"} /\ job[q].claim \in live => debt[job[q].claim].task = job[q].task
          /\ job[q].pc = "drop" => job[q].task \in Groups \/ node[job[q].task] = "done"
      BY Zenon DEF Awaited, Fits
    <3>4. job[q].pc \in Asking \cup {"mark"} /\ job[q].claim \in live' => debt'[job[q].claim].task = job[q].task
      BY Zenon, <3>2, <3>3 DEF DebtsStay
    <3>5. job[q].pc = "drop" => job[q].task \in Groups \/ node'[job[q].task] = "done"
      BY Zenon, <3>2, <3>3
    <3> QED
      BY Zenon, <3>1, <3>3, <3>4, <3>5
  <2> QED
    BY Zenon, <2>1, <2>2
<1>2. Offered'
  <2> SUFFICES ASSUME NEW u \in Waiting', row'[u].state # "queued"
               PROVE  /\ row'[u].state = "claimed"
                      /\ \A q \in Requests : job'[q].pc \in Leasing => job'[q].claim # row'[u].claim
    BY Zenon DEF Offered
  <2>1. u \in Waiting /\ u \in Tasks
    BY Zenon DEF Waiting
  <2>2. RowStays(u)
    BY Zenon, <2>1 DEF RowsStay
  <2>3. \A q \in Requests : job[q].pc \in Leasing => job[q].claim \in 1..made
    BY Zenon DEF LedgerInv, Carried, Leasing, Asking
  <2>4. /\ row'[u].state = "claimed"
        /\ \A q \in Requests : job[q].pc \in Leasing => job[q].claim # row'[u].claim
    BY Zenon, <2>1, <2>2, <2>3 DEF Awaited, Offered, RowStays
  <2>5. row'[u].claim \in live' /\ debt'[row'[u].claim].task = u
    BY Zenon, <2>1, <2>4 DEF LedgerInv, DirInv, LedgerMatches, RowsClaimed
  <2>6. job'[p].pc \in Leasing => job'[p].claim # row'[u].claim
    BY Zenon, <2>4, <2>5 DEF Moves, Leasing, Asking
  <2> QED
    BY Zenon, <2>4, <2>6 DEF Moves
<1> QED
  BY Zenon, <1>1, <1>2 DEF Awaited

\* A request that leaves, and one that goes on with its task and claim to a
\* step that needs no reason.
LEMMA LeaveAwaited ==
  ASSUME LedgerInv, LedgerInv', Awaited, Stays, NEW p \in Requests, Leave(p)
  PROVE  Awaited'
<1>1. Moves(p, "idle", NoTask, 0)
  BY Zenon, LeaveMoves DEF LedgerInv, TypeOK
<1> QED
  BY Zenon, <1>1, MoveAwaited DEF Asking, Leasing

LEMMA GoAwaited ==
  ASSUME LedgerInv, LedgerInv', Awaited, Stays, NEW p \in Requests, NEW pc,
         Moves(p, pc, job[p].task, job[p].claim),
         pc \in Asking \cup {"mark"} => job[p].pc \in Asking \cup {"mark"},
         pc = "drop" => job[p].task \in Groups \/ node'[job[p].task] = "done",
         pc \in Leasing => job[p].task \notin Waiting' \/ job[p].pc \in Leasing
  PROVE  Awaited'
<1>1. ASSUME pc \in Asking \cup {"mark"}, job[p].claim \in live'
      PROVE  debt'[job[p].claim].task = job[p].task
  <2>1. job[p].claim \in 1..made /\ job[p].pc \in Asking \cup {"mark"}
    BY Zenon, <1>1 DEF LedgerInv, Carried
  <2> QED
    BY Zenon, <1>1, <2>1 DEF Stays, DebtsStay, Awaited, Fits
<1> QED
  BY Zenon, <1>1, MoveAwaited

\* No claim changes its task, and no row leaves the lanes or its claim.
Mild == DebtsStay /\ \A t \in Tasks : RowStays(t)

LEMMA LedgerMild ==
  ASSUME DirInv, UNCHANGED row
  PROVE  /\ UNCHANGED <<debt, live>> => Mild
         /\ \A c \in Claims : MarkLeaseMayExist(c) => Mild
         /\ \A c \in Claims : \A n : RecordLeaseCreated(c, n) => Mild
         /\ \A c : MakeRecoverable(c) => Mild
         /\ \A c : TakeRecovery(c) => Mild
         /\ \A t, n : SettleFinalized(t, n) => Mild
<1>a. live \subseteq Claims /\ debt \in [Claims -> Debts]
  BY Zenon DEF DirInv, DirType
<1>b. \A t : RowStays(t)
  BY Zenon DEF RowStays
<1> USE DEF Mild, DebtsStay
<1>1. UNCHANGED <<debt, live>> => Mild
  BY Zenon, <1>b
<1>2. \A c \in Claims : MarkLeaseMayExist(c) => Mild
  BY <1>a, <1>b DEF MarkLeaseMayExist, Turned
<1>3. \A c \in Claims : \A n : RecordLeaseCreated(c, n) => Mild
  BY <1>a, <1>b DEF RecordLeaseCreated, Turned
<1>4. (\A c : MakeRecoverable(c) => Mild) /\ (\A c : TakeRecovery(c) => Mild)
  BY Zenon, <1>b DEF MakeRecoverable, TakeRecovery
<1>5. \A t, n : SettleFinalized(t, n) => Mild
  <2> SUFFICES ASSUME NEW t, NEW n, SettleFinalized(t, n), NEW c \in live'
               PROVE  c \in live /\ debt'[c] = debt[c]
    BY Zenon, <1>b
  <2>1. c \in live /\ c \in Claims /\ debt[c].state # "finalized"
    BY Zenon, <1>a DEF SettleFinalized, DirInv, LedgerMatches, RecordsLive, Uncertain
  <2> QED
    BY Zenon, <2>1 DEF SettleFinalized, SettledDebt
<1> QED
  BY Zenon, <1>1, <1>2, <1>3, <1>4, <1>5

\* A script that takes a claim away changes no other.
LEMMA ForgetKeepsDebts ==
  ASSUME DirInv, NEW c, Forget(c)
  PROVE  DebtsStay
  BY Zenon DEF DirInv, DirType, Forget, DebtsStay

\* Only the row of one task changes.
LEMMA OneRow ==
  ASSUME DirInv, NEW t, NEW new, row' = [row EXCEPT ![t] = new]
  PROVE  \A u \in Tasks : u = t \/ RowStays(u)
  BY Zenon DEF DirInv, DirType, RowStays

LEMMA RowsMild ==
  ASSUME DirInv
  PROVE  /\ \A t \in Tasks : Enqueue(t) /\ UNCHANGED ledgerVars => Mild
         /\ \A c \in live : SettleHandoff(c, "requeue") => Mild
         /\ \A r, t, n, b : ReleaseLeased(r, t, n, b) => Mild
         /\ \A t : row[t].state = "leased" /\ ReleaseExpired(t) => Mild
         /\ \A c \in Claims : ReclaimClaim(c) => Mild
         /\ \A r \in Runners : \A s : RegisterRunner(r, s) => Mild
<1>a. live \subseteq Claims /\ debt \in [Claims -> Debts] /\ row \in [Tasks -> Rows]
  BY Zenon DEF DirInv, DirType
<1>b. UNCHANGED <<debt, live>> => DebtsStay
  BY Zenon DEF DebtsStay
<1> USE DEF Mild
<1>1. ASSUME NEW t \in Tasks, Enqueue(t), UNCHANGED ledgerVars PROVE Mild
  <2>1. CASE row[t].state \in {"none", "released"}
    <3>1. \A u \in Tasks : u = t \/ RowStays(u)
      BY Zenon, <1>1, <2>1, OneRow DEF Enqueue
    <3>2. RowStays(t)
      BY Zenon, <2>1 DEF RowStays
    <3> QED
      BY Zenon, <1>1, <1>b, <3>1, <3>2 DEF ledgerVars
  <2>2. CASE row[t].state \notin {"none", "released"}
    BY Zenon, <1>1, <1>b, <2>2 DEF Enqueue, ledgerVars, RowStays
  <2> QED
    BY Zenon, <2>1, <2>2
<1>2. ASSUME NEW c \in live, SettleHandoff(c, "requeue") PROVE Mild
  <2>1. \A u \in Tasks : u = debt[c].task \/ RowStays(u)
    BY Zenon, <1>2, OneRow DEF SettleHandoff
  <2>2. debt[c].task \in Tasks => RowStays(debt[c].task)
    BY Zenon, <1>2, <1>a DEF SettleHandoff, RowStays, Requeued, NoRow
  <2> QED
    BY Zenon, <1>2, <2>1, <2>2, ForgetKeepsDebts DEF SettleHandoff
<1>3. ASSUME NEW r, NEW t, NEW n, NEW b, ReleaseLeased(r, t, n, b) PROVE Mild
  <2>1. CASE UNCHANGED dirVars
    BY Zenon, <2>1, LedgerMild DEF dirVars, ledgerVars
  <2>2. CASE row[t].state = "leased" /\ row[t].runner = r /\ row[t].lease = n
    <3>1. \A u \in Tasks : u = t \/ RowStays(u)
      BY Zenon, <1>3, <2>2, OneRow DEF ReleaseLeased
    <3>2. RowStays(t)
      BY Zenon, <2>2 DEF RowStays
    <3>3. SettleFinalized(t, n)
      BY Zenon, <1>3, <2>2 DEF ReleaseLeased
    <3>4. ASSUME NEW c \in live' PROVE c \in live /\ debt'[c] = debt[c]
      <4>1. c \in live /\ c \in Claims /\ debt[c].state # "finalized"
        BY Zenon, <1>a, <3>3, <3>4 DEF SettleFinalized, DirInv, LedgerMatches, RecordsLive, Uncertain
      <4> QED
        BY Zenon, <3>3, <4>1 DEF SettleFinalized, SettledDebt
    <3> QED
      BY Zenon, <3>1, <3>2, <3>4 DEF DebtsStay
  <2> QED
    BY Zenon, <1>3, <2>1, <2>2 DEF ReleaseLeased
<1>4. ASSUME NEW t, row[t].state = "leased", ReleaseExpired(t) PROVE Mild
  <2>1. \A u \in Tasks : u = t \/ RowStays(u)
    BY Zenon, <1>4, OneRow DEF ReleaseExpired
  <2>2. RowStays(t)
    BY Zenon, <1>4 DEF RowStays
  <2> QED
    BY Zenon, <1>4, <1>b, <2>1, <2>2 DEF ReleaseExpired, ledgerVars
<1>5. ASSUME NEW c \in Claims, ReclaimClaim(c) PROVE Mild
  <2>1. CASE debt[c].state \in Uncertain
    <3>1. UNCHANGED <<row, debt, live>>
      BY Zenon, <1>5, <2>1 DEF ReclaimClaim
    <3> QED
      BY Zenon, <3>1, LedgerMild
  <2>2. CASE debt[c].state \notin Uncertain
    <3>1. \A u \in Tasks : u = debt[c].task \/ RowStays(u)
      BY Zenon, <1>5, <2>2, OneRow DEF ReclaimClaim
    <3>2. debt[c].task \in Tasks => RowStays(debt[c].task)
      <4> SUFFICES ASSUME debt[c].task \in Tasks PROVE RowStays(debt[c].task)
        OBVIOUS
      <4>1. row'[debt[c].task] = IF Owns(c) THEN Requeued(debt[c].task) ELSE row[debt[c].task]
        BY Zenon, <1>5, <1>a, <2>2 DEF ReclaimClaim
      <4>2. Requeued(debt[c].task).state = "queued"
        BY Zenon DEF Requeued, NoRow
      <4> QED
        BY <4>1, <4>2 DEF RowStays
    <3> QED
      BY Zenon, <1>5, <2>2, <3>1, <3>2, ForgetKeepsDebts DEF ReclaimClaim
  <2> QED
    BY Zenon, <2>1, <2>2
<1>6. ASSUME NEW r \in Runners, NEW s, RegisterRunner(r, s) PROVE Mild
  <2>1. DebtsStay
    <3> SUFFICES ASSUME NEW c \in live' PROVE c \in live /\ debt'[c].task = debt[c].task
      BY Zenon DEF DebtsStay
    <3>1. c \in live /\ c \in Claims /\ c \notin Reserved(r) /\ debt[c] \in Debts
      BY Zenon, <1>6, <1>a DEF RegisterRunner
    <3>2. Rebound(debt[c], s).task = debt[c].task
      BY <3>1 DEF Rebound, Debts
    <3> QED
      BY Zenon, <1>6, <3>1, <3>2 DEF RegisterRunner
  <2>2. ASSUME NEW t \in Tasks PROVE RowStays(t)
    <3>1. Rebound(row[t], s).state = row[t].state /\ Rebound(row[t], s).claim = row[t].claim
      BY <1>a DEF Rebound, Rows
    <3>2. Requeued(t).state = "queued"
      BY Zenon DEF Requeued, NoRow
    <3>3. row'[t] \in {Requeued(t), Rebound(row[t], s), row[t]}
      BY Zenon, <1>6 DEF RegisterRunner
    <3> QED
      BY Zenon, <3>1, <3>2, <3>3 DEF RowStays
  <2> QED
    BY Zenon, <2>1, <2>2
<1> QED
  BY Zenon, <1>1, <1>2, <1>3, <1>4, <1>5, <1>6

LEMMA EngineSame ==
  ASSUME UNCHANGED <<node, due, absorbed>>
  PROVE  EngineStays
  BY Zenon DEF EngineStays, Waiting

LEMMA MildStays ==
  ASSUME Mild, EngineStays
  PROVE  Stays
  BY Zenon DEF Mild, Stays, RowsStay, Waiting

\* A request goes on while directory and engine stay.
LEMMA AdvanceAwaited ==
  ASSUME LedgerInv, Awaited, NEW p \in Requests, Advance(p)
  PROVE  Awaited'
<1> USE DEF LedgerInv, TypeOK
<1>a. /\ job[p].pc \in Asking \cup {"mark"} => job[p].claim \in Claims
      /\ job[p].pc # "idle" => job[p].task \in Tasks
      /\ job[p].lease \in Leases /\ token \in [Tasks -> Leases]
  BY Zenon, AtWork
<1>b. LedgerInv'
  BY Zenon, AdvanceStep
<1>c. UNCHANGED dirVars => Mild
  BY Zenon, LedgerMild DEF dirVars, ledgerVars
<1>d. UNCHANGED engineVars => EngineStays
  BY Zenon, EngineSame DEF engineVars
<1>e. \A c : MakeRecoverable(c) => Mild
  BY Zenon, LedgerMild DEF MakeRecoverable
<1>f. Stays /\ Leave(p) => Awaited'
  BY Zenon, <1>b, LeaveAwaited
<1>1. CASE Mark(p)
  <2>1. EngineStays
    BY Zenon, <1>1, <1>d DEF Mark
  <2>2. CASE UNCHANGED dirVars /\ Leave(p)
    BY Zenon, <1>c, <1>f, <2>1, <2>2, MildStays
  <2>3. CASE MarkLeaseMayExist(job[p].claim) /\ Enter(p, "build")
    <3>1. Moves(p, "build", job[p].task, job[p].claim)
      BY Zenon, <2>3, EnterMoves DEF Steps, Asking
    <3>2. Mild
      BY Zenon, <1>1, <1>a, <2>3, LedgerMild DEF Mark, At, MarkLeaseMayExist
    <3> QED
      BY Zenon, <1>1, <1>b, <2>1, <3>1, <3>2, MildStays, GoAwaited DEF Mark, At, Leasing
  <2> QED
    BY Zenon, <1>1, <2>2, <2>3 DEF Mark
<1>2. CASE Build(p)
  <2> DEFINE t == job[p].task
  <2>1. job[p].pc = "build" /\ t \in Tasks /\ Mild
    BY Zenon, <1>2, <1>a, <1>c DEF Build, At
  <2>2. CASE Buildable(t)
    <3>1. token[t] + 1 \in Leases
      BY <1>2, <2>1, <2>2, <1>a, LedgerAssumption DEF Build, Grant, Leases
    <3>2. PICK pc \in {"record", "giveup"} : Moves(p, pc, t, job[p].claim)
      BY Zenon, <1>2, <2>2, <3>1, GrantMoves DEF Build, Steps, Asking
    <3>3. node' = [node EXCEPT ![t] = "running"] /\ UNCHANGED <<due, absorbed>> /\ node[t] # "done"
      BY Zenon, <1>2, <2>2 DEF Build, Grant, Buildable, Running
    <3>4. EngineStays /\ t \notin Waiting'
      BY Zenon, <2>1, <3>3 DEF EngineStays, Waiting, EngineType
    <3> QED
      BY Zenon, <1>b, <2>1, <3>2, <3>4, MildStays, GoAwaited DEF Asking, Leasing
  <2>3. CASE ~Buildable(t)
    <3>1. EngineStays /\ node' = node
      BY Zenon, <1>2, <1>d, <2>3 DEF Build, engineVars
    <3>2. CASE node[t] = "done"
      <4>1. Moves(p, "drop", t, job[p].claim)
        BY Zenon, <1>2, <2>3, <3>2, EnterMoves DEF Build, Steps, Asking
      <4> QED
        BY Zenon, <1>b, <2>1, <3>1, <3>2, <4>1, MildStays, GoAwaited DEF Asking, Leasing
    <3>3. CASE node[t] # "done"
      <4>1. Moves(p, "recover", t, job[p].claim)
        BY Zenon, <1>2, <2>3, <3>3, EnterMoves DEF Build, Steps, Asking
      <4> QED
        BY Zenon, <1>b, <2>1, <3>1, <4>1, MildStays, GoAwaited DEF Asking, Leasing
    <3> QED
      BY Zenon, <3>2, <3>3
  <2> QED
    BY Zenon, <2>2, <2>3
<1>3. CASE Recover(p)
  <2> DEFINE t == job[p].task
  <2>1. job[p].pc = "recover" /\ t \in Tasks /\ EngineStays /\ UNCHANGED engineVars
    BY Zenon, <1>3, <1>a, <1>d DEF Recover, At
  <2>2. CASE Recoverable(t) /\ Got(p, "record", token[t]) /\ UNCHANGED dirVars
    <3>1. Moves(p, "record", t, job[p].claim)
      BY Zenon, <1>a, <2>1, <2>2, GrantMoves DEF Steps, Asking
    <3>2. t \notin Waiting'
      BY Zenon, <2>1, <2>2 DEF Recoverable, Running, engineVars, Waiting
    <3> QED
      BY Zenon, <1>b, <1>c, <2>1, <2>2, <3>1, <3>2, MildStays, GoAwaited DEF Asking
  <2>3. CASE (node[t] = "done" \/ t \in Groups) /\ Enter(p, "drop") /\ UNCHANGED dirVars
    <3>1. Moves(p, "drop", t, job[p].claim)
      BY Zenon, <2>3, EnterMoves DEF Steps, Asking
    <3> QED
      BY Zenon, <1>b, <1>c, <2>1, <2>3, <3>1, MildStays, GoAwaited DEF Asking, Leasing, engineVars
  <2>4. CASE MakeRecoverable(job[p].claim) /\ Leave(p)
    BY Zenon, <1>e, <1>f, <2>1, <2>4, MildStays
  <2> QED
    BY Zenon, <1>3, <2>2, <2>3, <2>4 DEF Recover
<1>4. CASE Record(p)
  <2>1. job[p].pc = "record" /\ EngineStays
    BY Zenon, <1>4, <1>d DEF Record, At
  <2>2. CASE MakeRecoverable(job[p].claim) /\ Leave(p)
    BY Zenon, <1>e, <1>f, <2>1, <2>2, MildStays
  <2>3. CASE RecordLeaseCreated(job[p].claim, job[p].lease) /\ Enter(p, "finalize")
    <3>1. Moves(p, "finalize", job[p].task, job[p].claim)
      BY Zenon, <2>3, EnterMoves DEF Steps, Asking
    <3>2. Mild
      BY Zenon, <1>a, <2>1, <2>3, LedgerMild DEF RecordLeaseCreated, Asking
    <3> QED
      BY Zenon, <1>b, <2>1, <3>1, <3>2, MildStays, GoAwaited DEF Asking, Leasing
  <2> QED
    BY Zenon, <1>4, <2>2, <2>3 DEF Record
<1>5. CASE Finalize(p)
  <2> DEFINE c == job[p].claim
  <2>1. job[p].pc = "finalize" /\ EngineStays
    BY Zenon, <1>5, <1>d DEF Finalize, At
  <2>2. CASE MakeRecoverable(c) /\ Leave(p)
    BY Zenon, <1>e, <1>f, <2>1, <2>2, MildStays
  <2>3. CASE Owns(c) /\ FinalizeClaim(c, job[p].lease) /\ Enter(p, "respond")
    <3>1. Moves(p, "respond", job[p].task, c)
      BY Zenon, <2>3, EnterMoves DEF Steps
    <3>2. debt[c].task \notin Waiting
      BY Zenon, <2>1, <2>3 DEF Owns, Awaited, Offered, Leasing
    <3>3. \A u \in Tasks : u = debt[c].task \/ RowStays(u)
      BY Zenon, <2>3, OneRow DEF FinalizeClaim
    <3>4. DebtsStay
      BY Zenon, <2>3 DEF FinalizeClaim, DebtsStay, DirInv, DirType
    <3>5. Stays
      BY Zenon, <2>1, <3>2, <3>3, <3>4 DEF Stays, RowsStay, Waiting
    <3> QED
      BY Zenon, <1>b, <3>1, <3>5, GoAwaited DEF Asking, Leasing
  <2> QED
    BY Zenon, <1>5, <2>2, <2>3 DEF Finalize, Finalizable
<1>6. CASE Respond(p)
  BY Zenon, <1>6, <1>c, <1>d, <1>f, MildStays DEF Respond
<1>7. CASE Resolve(p)
  <2> DEFINE t == job[p].task
  <2>1. job[p].pc = "resolve" /\ t \in Tasks /\ Stays /\ UNCHANGED engineVars
    BY Zenon, <1>7, <1>a, <1>c, <1>d, MildStays DEF Resolve, At
  <2>2. CASE Recoverable(t)
    <3>1. Moves(p, "finalize", t, job[p].claim)
      BY Zenon, <1>7, <1>a, <2>1, <2>2, GrantMoves DEF Resolve, Steps, Asking
    <3>2. t \notin Waiting'
      BY Zenon, <2>1, <2>2 DEF Recoverable, Running, engineVars, Waiting
    <3> QED
      BY Zenon, <1>b, <2>1, <3>1, <3>2, GoAwaited DEF Asking
  <2>3. CASE (node[t] = "done" \/ t \in Groups) /\ Enter(p, "drop")
    <3>1. Moves(p, "drop", t, job[p].claim)
      BY Zenon, <2>3, EnterMoves DEF Steps, Asking
    <3> QED
      BY Zenon, <1>b, <2>1, <2>3, <3>1, GoAwaited DEF Asking, Leasing, engineVars
  <2>4. CASE Enter(p, "requeue")
    <3>1. Moves(p, "requeue", t, job[p].claim)
      BY Zenon, <2>4, EnterMoves DEF Steps, Asking
    <3> QED
      BY Zenon, <1>b, <2>1, <3>1, GoAwaited DEF Asking, Leasing
  <2> QED
    BY Zenon, <1>7, <2>2, <2>3, <2>4 DEF Resolve, Disposed
<1>8. ASSUME NEW d \in {"drop", "requeue"}, Settle(p, d) PROVE Awaited'
  <2> DEFINE c == job[p].claim
  <2>1. job[p].pc = d /\ EngineStays /\ Leave(p)
    BY Zenon, <1>8, <1>d DEF Settle, At
  <2>2. CASE MakeRecoverable(c)
    BY Zenon, <1>e, <1>f, <2>1, <2>2, MildStays
  <2>3. CASE c \in live /\ SettleHandoff(c, d) /\ d = "requeue"
    BY Zenon, <1>f, <2>1, <2>3, RowsMild, MildStays
  <2>4. CASE c \in live /\ SettleHandoff(c, d) /\ d = "drop"
    <3>1. debt[c].task \notin Waiting
      <4>1. debt[c].task = job[p].task
        BY Zenon, <2>1, <2>4 DEF Awaited, Fits, Asking
      <4>2. job[p].task \in Groups \/ node[job[p].task] = "done"
        BY Zenon, <2>1, <2>4 DEF Awaited, Fits
      <4> QED
        BY Zenon, <4>1, <4>2 DEF Waiting
    <3>2. \A u \in Tasks : u = debt[c].task \/ RowStays(u)
      BY Zenon, <2>4, OneRow DEF SettleHandoff
    <3>3. DebtsStay
      BY Zenon, <2>4, ForgetKeepsDebts DEF SettleHandoff
    <3> QED
      BY Zenon, <1>f, <2>1, <3>1, <3>2, <3>3 DEF Stays, RowsStay, Waiting
  <2> QED
    BY Zenon, <1>8, <2>2, <2>3, <2>4 DEF Settle, Settleable
<1>9. CASE Replay(p)
  <2> DEFINE t == job[p].task
  <2>1. job[p].pc = "replay" /\ EngineStays /\ t \in Tasks
    BY Zenon, <1>9, <1>a, <1>d DEF Replay, At
  <2>2. CASE UNCHANGED dirVars /\ (Enter(p, "respond") \/ Got(p, "respond", token[t]))
    <3>1. Moves(p, "respond", t, job[p].claim)
      BY Zenon, <1>a, <2>1, <2>2, EnterMoves, GrantMoves DEF Steps
    <3> QED
      BY Zenon, <1>b, <1>c, <2>1, <2>2, <3>1, MildStays, GoAwaited DEF Asking, Leasing
  <2>3. CASE UNCHANGED dirVars /\ Leave(p)
    BY Zenon, <1>c, <1>f, <2>1, <2>3, MildStays
  <2>4. CASE t \in Groups /\ ClearAssignment(t) /\ Leave(p)
    <3>1. \A u \in Tasks : u = t \/ RowStays(u)
      BY Zenon, <2>4, OneRow DEF ClearAssignment
    <3>2. index[t] \in live => row[t].claim = index[t]
      <4>1. index[t] \in live => index[t] # 0
        BY Zenon, LiveFacts, Numbers
      <4>3. index[t] # 0 => debt[index[t]].task = t
        BY Zenon, <2>1 DEF DirInv, Shape, IndexShaped
      <4>4. index[t] \in live => row[debt[index[t]].task].claim = index[t]
        BY Zenon DEF DirInv, LedgerMatches, ClaimsOwned, Owns
      <4> QED
        BY Zenon, <4>1, <4>3, <4>4
    <3>3. DebtsStay
      BY Zenon, <2>4, <3>2 DEF ClearAssignment, DebtsStay, DirInv, DirType
    <3> QED
      BY Zenon, <1>f, <2>1, <2>4, <3>1, <3>3 DEF Stays, RowsStay, Waiting
  <2> QED
    BY Zenon, <1>9, <2>2, <2>3, <2>4 DEF Replay
<1>10. CASE Commit(p)
  <2> DEFINE t == job[p].task
  <2>1. job[p].pc = "commit" /\ t \in Tasks /\ Mild
    BY Zenon, <1>10, <1>a, <1>c DEF Commit, At
  <2>2. EngineStays
    <3>1. CASE UNCHANGED engineVars
      BY Zenon, <1>d, <3>1
    <3>2. CASE /\ Current(t, job[p].lease) /\ node' = [node EXCEPT ![t] = "done"]
               /\ UNCHANGED <<due, absorbed>>
      BY Zenon, <2>1, <3>2 DEF EngineStays, Waiting, EngineType
    <3>3. CASE Current(t, job[p].lease) /\ node' = [node EXCEPT ![t] = "pending"] /\ Intend(t)
      BY Zenon, <2>1, <3>3 DEF EngineStays, Waiting, EngineType, Intend, Current, Running
    <3> QED
      BY Zenon, <1>10, <3>1, <3>2, <3>3 DEF Commit
  <2>3. \E pc \in {"release", "release_stale"} : Enter(p, pc)
    BY Zenon, <1>10 DEF Commit
  <2>4. PICK pc \in {"release", "release_stale"} : Moves(p, pc, t, job[p].claim)
    BY Zenon, <2>3, EnterMoves DEF Steps
  <2>5. pc \notin Asking \cup {"mark"} \cup Leasing /\ pc # "drop"
    BY Zenon DEF Asking, Leasing
  <2> QED
    BY Zenon, <1>b, <2>1, <2>2, <2>4, <2>5, MildStays, GoAwaited
<1>11. CASE Release(p)
  BY Zenon, <1>11, <1>d, <1>f, RowsMild, MildStays DEF Release
<1>12. CASE OrphanAsk(p)
  <2> DEFINE t == job[p].task
  <2>1. job[p].pc = "orphan" /\ EngineStays /\ UNCHANGED engineVars
    BY Zenon, <1>12, <1>d DEF OrphanAsk, At
  <2>2. CASE MakeRecoverable(job[p].claim) /\ Leave(p)
    BY Zenon, <1>e, <1>f, <2>1, <2>2, MildStays
  <2>3. CASE UNCHANGED dirVars /\ Enter(p, "drop") /\ (node[t] = "done" \/ t \in Groups)
    <3>1. Moves(p, "drop", t, job[p].claim)
      BY Zenon, <2>3, EnterMoves DEF Steps, Asking
    <3> QED
      BY Zenon, <1>b, <1>c, <2>1, <2>3, <3>1, MildStays, GoAwaited DEF Asking, Leasing, engineVars
  <2>4. CASE UNCHANGED dirVars /\ Enter(p, "requeue")
    <3>1. Moves(p, "requeue", t, job[p].claim)
      BY Zenon, <2>4, EnterMoves DEF Steps, Asking
    <3> QED
      BY Zenon, <1>b, <1>c, <2>1, <2>4, <3>1, MildStays, GoAwaited DEF Asking, Leasing
  <2> QED
    BY Zenon, <1>12, <2>2, <2>3, <2>4 DEF OrphanAsk, Disposed
<1>13. CASE GiveUp(p)
  <2> DEFINE t == job[p].task
  <2>1. job[p].pc = "giveup" /\ t \in Tasks /\ Mild
    BY Zenon, <1>13, <1>a, <1>c DEF GiveUp, At
  <2>2. EngineStays
    <3>1. CASE UNCHANGED engineVars
      BY Zenon, <1>d, <3>1
    <3>2. CASE Current(t, job[p].lease) /\ node' = [node EXCEPT ![t] = "pending"] /\ Intend(t)
      BY Zenon, <2>1, <3>2 DEF EngineStays, Waiting, EngineType, Intend, Current, Running
    <3> QED
      BY Zenon, <1>13, <3>1, <3>2 DEF GiveUp
  <2>3. Moves(p, "giveback", t, job[p].claim)
    BY Zenon, <1>13, EnterMoves DEF GiveUp, Steps, Asking
  <2> QED
    BY Zenon, <1>b, <2>1, <2>2, <2>3, MildStays, GoAwaited DEF Asking, Leasing
<1>14. CASE GiveBack(p)
  BY Zenon, <1>14, <1>d, <1>e, <1>f, MildStays DEF GiveBack
<1> QED
  BY Zenon, <1>13, <1>14, <1>1, <1>2, <1>3, <1>4, <1>5, <1>6, <1>7, <1>8, <1>9, <1>10, <1>11, <1>12 DEF Advance

LEMMA PollAwaited ==
  ASSUME LedgerInv, Awaited, NEW p \in Requests, NEW r \in Runners, Poll(p, r)
  PROVE  Awaited'
<1> USE DEF LedgerInv, TypeOK
<1>a. LedgerInv'
  BY Zenon, PollStep
<1>b. UNCHANGED engineVars => EngineStays
  BY Zenon, EngineSame DEF engineVars
<1>1. ASSUME NEW c \in Claims, PollTake(p, r, c) PROVE Awaited'
  <2>1. debt[c].task \in Tasks
    BY Zenon, <1>1, LiveFacts DEF PollTake, TakeRecovery, DirInv, LedgerMatches
  <2>2. Moves(p, "resolve", debt[c].task, c)
    BY Zenon, <1>1, <2>1, Numbers, WorkMoves DEF PollTake, Steps, Asking
  <2>3. Stays
    BY Zenon, <1>1, <1>b, LedgerMild, MildStays DEF PollTake, TakeRecovery
  <2>4. debt'[c].task = debt[c].task
    BY Zenon, <1>1 DEF PollTake, TakeRecovery
  <2> QED
    BY Zenon, <1>a, <2>2, <2>3, <2>4, MoveAwaited DEF Leasing
<1>2. ASSUME NEW t \in Tasks, PollReplay(p, r, t) PROVE Awaited'
  <2>1. row[t].lease \in Leases
    BY Zenon DEF DirInv, DirType, Rows
  <2>2. Stays
    BY Zenon, <1>2, <1>b, LedgerMild, MildStays DEF PollReplay, dirVars, ledgerVars
  <2>3. PICK pc \in {"replay", "respond"} : Moves(p, pc, t, 0)
    BY Zenon, <1>2, <2>1, Numbers, WorkMoves DEF PollReplay, Steps
  <2>4. pc \notin Asking \cup {"mark"} \cup Leasing /\ pc # "drop"
    BY Zenon DEF Asking, Leasing
  <2> QED
    BY Zenon, <1>a, <2>2, <2>3, <2>4, MoveAwaited
<1>3. ASSUME NEW t \in Tasks, PollStranded(p, r, t) PROVE Awaited'
  BY Zenon, <1>3, <1>b, RowsMild, MildStays, SameAwaited DEF PollStranded
<1>4. ASSUME NEW t \in Tasks, PollClaim(p, r, t) PROVE Awaited'
  <2> DEFINE c == made + 1
  <2>1. c \in Claims /\ c \notin 1..made
    BY <1>4, LedgerAssumption DEF PollClaim, DirInv, DirType, Claims
  <2>2. Moves(p, "mark", t, c)
    BY Zenon, <1>4, <2>1, WorkMoves, Numbers DEF PollClaim, Steps
  <2>3. ClaimAssignment(r, t, c) /\ EngineStays
    BY Zenon, <1>4, <1>b DEF PollClaim
  <2> HIDE DEF c
  <2>4. debt'[c].task = t
    BY Zenon, <2>1, <2>3 DEF ClaimAssignment, DirInv, DirType
  <2>5. DebtsStay
    BY Zenon, <2>1, <2>3 DEF ClaimAssignment, DebtsStay, DirInv, DirType
  <2>6. \A u \in Tasks : u = t \/ RowStays(u)
    BY Zenon, <2>3, OneRow DEF ClaimAssignment
  <2>7. RowStays(t)
    BY Zenon, <2>1, <2>3 DEF ClaimAssignment, RowStays, DirInv, DirType
  <2>8. Stays
    BY Zenon, <2>3, <2>5, <2>6, <2>7, MildStays DEF Mild
  <2> QED
    BY Zenon, <1>a, <2>2, <2>4, <2>8, MoveAwaited DEF Leasing
<1> QED
  BY Zenon, <1>1, <1>2, <1>3, <1>4 DEF Poll

\* The steps outside the requests: deliveries, time, the sweeper and its
\* reapers, the runners.
LEMMA OtherAwaited ==
  ASSUME LedgerInv, Awaited,
         \/ \E t \in Tasks : \/ Deliver(t) \/ Lapse(t) \/ MetaExpires(t) \/ Finish(t)
                            \/ ReapStranded(t) \/ ReapDeadQueued(t)
         \/ \E c \in Claims : ReclaimExpired(c) \/ ReapLedger(c)
         \/ \E r \in Runners : \/ Register(r) \/ RunnerLost(r) \/ Heartbeat(r) \/ RemoveRunner(r)
                              \/ \E t \in Tasks : Renew(r, t)
         \/ Sweep \/ SweepDies \/ UNCHANGED vars
  PROVE  Awaited'
<1> USE DEF LedgerInv, TypeOK
<1>a. row \in [Tasks -> Rows]
  BY Zenon DEF DirInv, DirType
<1>b. UNCHANGED engineVars => EngineStays
  BY Zenon, EngineSame DEF engineVars
<1>c. UNCHANGED dirVars => Mild
  BY Zenon, LedgerMild DEF dirVars, ledgerVars
<1>d. UNCHANGED row /\ UNCHANGED ledgerVars => Mild
  BY Zenon, LedgerMild DEF ledgerVars
<1>1. ASSUME NEW t \in Tasks, Deliver(t) PROVE Stays /\ job' = job
  <2>1. UNCHANGED ledgerVars /\ UNCHANGED node /\ job' = job
    BY Zenon, <1>1 DEF Deliver
  <2>2. CASE node[t] = "done"
    <3>1. Mild
      BY Zenon, <1>1, <1>d, <2>1, <2>2 DEF Deliver
    <3>2. EngineStays
      <4>1. \A u \in Tasks \ {t} : (u \in due => u \in due') /\ (u \in absorbed => u \in absorbed')
        BY Zenon, <1>1 DEF Deliver
      <4> QED
        BY Zenon, <2>1, <2>2, <4>1 DEF EngineStays, Waiting
    <3> QED
      BY Zenon, <2>1, <3>1, <3>2, MildStays
  <2>3. CASE node[t] # "done"
    <3>1. Enqueue(t)
      BY Zenon, <1>1, <2>3 DEF Deliver
    <3>2. Mild
      BY Zenon, <2>1, <3>1, RowsMild
    <3>3. EngineStays
      <4>1. /\ \A u \in Tasks \ {t} : (u \in due => u \in due') /\ (u \in absorbed => u \in absorbed')
            /\ \/ UNCHANGED <<due, absorbed>>
               \/ row[t].state \in {"claimed", "leased"} => t \in absorbed'
        BY Zenon, <1>1 DEF Deliver
      <4>2. row[t].state \notin {"claimed", "leased"} => row'[t].state = "queued"
        <5>1. row[t].state \in {"none", "queued", "claimed", "leased", "released"}
          BY Zenon, <1>a DEF Rows, RowStates
        <5>2. Requeued(t).state = "queued"
          BY Zenon DEF Requeued, NoRow
        <5>3. CASE row[t].state \in {"none", "released"}
          BY Zenon, <1>a, <3>1, <5>2, <5>3 DEF Enqueue
        <5>4. CASE row[t].state = "queued"
          BY Zenon, <3>1, <5>4 DEF Enqueue
        <5> QED
          BY Zenon, <5>1, <5>3, <5>4
      <4>3. ASSUME NEW u \in Waiting' PROVE u \in Waiting \/ row'[u].state = "queued"
        <5>1. CASE u # t
          BY Zenon, <2>1, <4>1, <4>3, <5>1 DEF Waiting
        <5>2. CASE u = t /\ UNCHANGED <<due, absorbed>>
          BY Zenon, <2>1, <4>3, <5>2 DEF Waiting
        <5>3. CASE u = t /\ (row[t].state \in {"claimed", "leased"} => t \in absorbed')
          BY Zenon, <4>2, <4>3, <5>3 DEF Waiting
        <5> QED
          BY Zenon, <4>1, <5>1, <5>2, <5>3
      <4> QED
        BY Zenon, <2>1, <4>3 DEF EngineStays
    <3> QED
      BY Zenon, <2>1, <3>2, <3>3, MildStays
  <2> QED
    BY Zenon, <2>2, <2>3
<1>2. ASSUME NEW t \in Tasks, Lapse(t) \/ MetaExpires(t) PROVE Stays /\ job' = job
  <2>1. Mild
    BY Zenon, <1>2, <1>c, <1>d DEF Lapse, MetaExpires
  <2>2. EngineStays /\ job' = job
    BY Zenon, <1>2, EngineSame DEF Lapse, MetaExpires, engineVars
  <2> QED
    BY Zenon, <2>1, <2>2, MildStays
<1>3. ASSUME NEW t \in Tasks, Finish(t) PROVE Stays /\ job' = job
  <2>1. Mild /\ job' = job
    BY Zenon, <1>3, <1>c DEF Finish
  <2>2. EngineStays
    BY Zenon, <1>3 DEF Finish, EngineStays, Waiting, EngineType
  <2> QED
    BY Zenon, <2>1, <2>2, MildStays
<1>4. ASSUME NEW t \in Tasks, ReapStranded(t) PROVE Stays /\ job' = job
  BY Zenon, <1>4, <1>b, RowsMild, MildStays DEF ReapStranded
<1>5. ASSUME NEW t \in Tasks, ReapDeadQueued(t) PROVE Stays /\ job' = job
  <2>1. \A u \in Tasks : u = t \/ RowStays(u)
    BY Zenon, <1>5, OneRow DEF ReapDeadQueued
  <2>2. t \notin Waiting
    BY Zenon, <1>5 DEF ReapDeadQueued, Waiting
  <2>3. DebtsStay /\ EngineStays /\ job' = job
    BY Zenon, <1>5, <1>b DEF ReapDeadQueued, ledgerVars, DebtsStay
  <2> QED
    BY Zenon, <2>1, <2>2, <2>3 DEF Stays, RowsStay, Waiting
<1>6. ASSUME NEW c \in Claims, ReclaimExpired(c) PROVE Stays /\ job' = job
  BY Zenon, <1>6, <1>b, RowsMild, MildStays DEF ReclaimExpired
<1>7. ASSUME NEW c \in Claims, ReapLedger(c) PROVE Stays /\ job' = job
  BY Zenon, <1>7, <1>b, LedgerMild, MildStays DEF ReapLedger
<1>8. ASSUME NEW r \in Runners, Register(r) PROVE Stays /\ job' = job
  BY Zenon, <1>8, <1>b, RowsMild, MildStays DEF Register
<1>9. ASSUME NEW r \in Runners, RunnerLost(r) \/ Heartbeat(r) \/ RemoveRunner(r) PROVE Stays /\ job' = job
  BY Zenon, <1>9, <1>b, <1>c, MildStays DEF RunnerLost, Heartbeat, RemoveRunner
<1>10. ASSUME NEW r \in Runners, NEW t \in Tasks, Renew(r, t) PROVE Stays /\ job' = job
  BY Zenon, <1>10, <1>c, EngineSame, MildStays DEF Renew
<1>11. ASSUME SweepRelease \/ SweepSettle \/ (\E t \in Tasks : SweepList(t)) \/ SweepDies PROVE Stays /\ job' = job
  <2>1. EngineStays /\ job' = job
    BY Zenon, <1>11, <1>b DEF SweepRelease, SweepSettle, SweepList, SweepDies
  <2>2. Mild
    BY Zenon, <1>11, <1>c, RowsMild, LedgerMild DEF SweepRelease, SweepSettle, SweepList, SweepDies
  <2> QED
    BY Zenon, <2>1, <2>2, MildStays
<1>12. ASSUME SweepReclaim PROVE Stays /\ job' = job
  <2>1. Mild /\ job' = job
    BY Zenon, <1>12, <1>c DEF SweepReclaim
  <2>2. CASE UNCHANGED engineVars
    BY Zenon, <1>b, <2>1, <2>2, MildStays
  <2>3. CASE /\ Current(sweep.task, sweep.lease)
             /\ node' = [node EXCEPT ![sweep.task] = "pending"] /\ Intend(sweep.task)
    BY Zenon, <2>1, <2>3, MildStays DEF EngineStays, Waiting, EngineType, Intend, Current, Running
  <2> QED
    BY Zenon, <1>12, <2>2, <2>3 DEF SweepReclaim
<1>13. ASSUME UNCHANGED vars PROVE Stays /\ job' = job
  BY Zenon, <1>13, <1>b, <1>c, MildStays DEF vars
<1> QED
  BY Zenon, <1>1, <1>2, <1>3, <1>4, <1>5, <1>6, <1>7, <1>8, <1>9, <1>10, <1>11, <1>12, <1>13, SameAwaited
     DEF Sweep

LEMMA NextAwaited == LedgerInv /\ Awaited /\ [Next]_vars => Awaited'
<1> SUFFICES ASSUME LedgerInv, Awaited, [Next]_vars PROVE Awaited'
  OBVIOUS
<1>a. LedgerInv'
  BY Zenon, NextStep
<1>b. UNCHANGED engineVars => EngineStays
  BY Zenon, EngineSame DEF engineVars
<1>c. UNCHANGED dirVars => Mild
  BY Zenon, LedgerMild DEF dirVars, ledgerVars, LedgerInv
<1>1. ASSUME NEW p \in Requests, Fails(p) \/ Dies(p) PROVE Awaited'
  <2>1. Mild
    BY Zenon, <1>1, <1>c, LedgerMild DEF Fails, Dies, MakeRecoverable, LedgerInv
  <2> QED
    BY Zenon, <1>1, <1>a, <1>b, <2>1, MildStays, LeaveAwaited DEF Fails, Dies
<1>2. ASSUME NEW p \in Requests, NEW r \in Runners, NEW t \in Tasks, NEW n \in 1..MaxLeases, Report(p, r, t, n)
      PROVE  Awaited'
  <2>1. Stays
    BY Zenon, <1>2, <1>b, <1>c, MildStays DEF Report
  <2>2. CASE job' = job
    BY Zenon, <2>1, <2>2, SameAwaited
  <2>3. CASE job' = [job EXCEPT ![p] = Work("commit", r, t, 0, n)]
    <3>1. n \in Leases
      BY LedgerAssumption DEF Leases
    <3>2. Moves(p, "commit", t, 0)
      BY Zenon, <2>3, <3>1, WorkMoves DEF LedgerInv, TypeOK, Steps
    <3> QED
      BY Zenon, <1>a, <2>1, <3>2, MoveAwaited DEF Asking, Leasing
  <2> QED
    BY Zenon, <1>2, <2>2, <2>3 DEF Report
<1>3. ASSUME NEW p \in Requests, NEW c \in Claims, OrphanTake(p, c) PROVE Awaited'
  <2>1. debt[c].task \in Tasks
    BY Zenon, <1>3, LiveFacts DEF OrphanTake, TakeRecovery, LedgerInv, DirInv, LedgerMatches
  <2>2. Moves(p, "orphan", debt[c].task, c)
    BY Zenon, <1>3, <2>1, Numbers DEF OrphanTake, Moves, LedgerInv, TypeOK, FlowType, Jobs, Steps, Asking
  <2>3. Stays
    BY Zenon, <1>3, <1>b, LedgerMild, MildStays DEF OrphanTake, TakeRecovery, LedgerInv
  <2>4. debt'[c].task = debt[c].task
    BY Zenon, <1>3 DEF OrphanTake, TakeRecovery
  <2> QED
    BY Zenon, <1>a, <2>2, <2>3, <2>4, MoveAwaited DEF Leasing
<1> QED
  BY Zenon, <1>1, <1>2, <1>3, AdvanceAwaited, PollAwaited, OtherAwaited DEF Next

-----------------------------------------------------------------------------
(* The theorem.                                                            *)

\* A node task the engine waits for stays in the outbox, the lanes or a claim:
\* only an intent answered as a duplicate (EnqueueAssignment) can go missing,
\* whichever resolver, reaper, sweep or registration meets the task.
THEOREM NodeTasksAreKept == Spec => []LostOnlyAsDuplicate
<1>1. Init => Awaited
  <2> SUFFICES ASSUME Init PROVE Awaited
    OBVIOUS
  <2>1. \A p \in Requests : job[p].pc = "idle"
    BY Zenon DEF Init, Idle
  <2>2. Waiting = {}
    BY Zenon DEF Init, Waiting
  <2> QED
    BY Zenon, <2>1, <2>2 DEF Awaited, Fits, Offered, Asking
<1>2. Awaited => LostOnlyAsDuplicate
  BY Zenon DEF Awaited, Offered, Waiting, LostOnlyAsDuplicate
<1> QED
  BY <1>1, <1>2, NextAwaited, AlwaysLedger, PTL DEF Spec

==============================================================================
