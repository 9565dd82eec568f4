---------------------------- MODULE HandoffLedger ----------------------------
(***************************************************************************)
(* The runner directory in Redis: assignment rows, queue lanes, claims     *)
(* with their expiry index, the handoff ledger, registrations and their    *)
(* capacity counters.                                                      *)
(*                                                                         *)
(* Every Lua script of service/control/redis_runner_directory.go is one    *)
(* operator and runs atomically.  Who runs which script when is the        *)
(* subject of RunnerDirectory.                                             *)
(***************************************************************************)
EXTENDS Integers, FiniteSets

CONSTANTS
    Tasks,        \* one assignment ID each; a retry or a requeue keeps the ID
    Runners,
    Capacity,     \* capacity every runner registers with
    MaxClaims,    \* bound: claims made in a behaviour
    MaxLeases,    \* bound: engine leases per task
    MaxSessions,  \* bound: registrations per runner
    Nobody, NoTask

ASSUME LedgerAssumption ==
    /\ NoTask \notin Tasks /\ Nobody \notin Runners
    /\ Capacity \in Nat \ {0} /\ MaxClaims \in Nat
    /\ MaxLeases \in Nat /\ MaxSessions \in Nat
    /\ IsFiniteSet(Tasks) /\ IsFiniteSet(Runners)

Claims == 1..MaxClaims
Leases == 0..MaxLeases
Sessions == 0..MaxSessions

VARIABLES
    \* assignment rows, queue lanes, lease metadata keys
    row, queue, meta,
    \* handoff ledger, claim hashes, expiry index, recovery-ready flags, and
    \* the claim each assignment's ledger entry is found by
    debt, live, expiry, ready, index, made,
    \* registration: last session, health of the runner, capacity counters
    session, health, claims, leases

ledgerVars == <<debt, live, expiry, ready, index>>
dirVars == <<row, queue, meta, ledgerVars, claims, leases>>
runnerVars == <<session, health>>

Uncertain == {"lease_may_exist", "lease_created"}
NoRow == [state |-> "none", claim |-> 0, runner |-> Nobody, session |-> 0, lease |-> 0]
NoDebt == [state |-> "none", task |-> NoTask, runner |-> Nobody, session |-> 0, lease |-> 0]

RowStates == {"none", "queued", "claimed", "leased", "released"}
DebtStates == Uncertain \cup {"none", "reserved", "finalized"}
Rows == [state : RowStates, claim : Claims \cup {0}, runner : Runners \cup {Nobody},
         session : Sessions, lease : Leases]
Debts == [state : DebtStates, task : Tasks \cup {NoTask}, runner : Runners \cup {Nobody},
          session : Sessions, lease : Leases]

DirType ==
    /\ row \in [Tasks -> Rows]
    /\ queue \subseteq Tasks /\ meta \subseteq Tasks
    /\ debt \in [Claims -> Debts]
    /\ live \subseteq Claims /\ expiry \subseteq Claims /\ ready \subseteq Claims
    /\ index \in [Tasks -> Claims \cup {0}]
    /\ claims \in [Runners -> Nat] /\ leases \in [Runners -> Nat]
    /\ made \in 0..MaxClaims
    /\ session \in [Runners -> Sessions]
    /\ health \in [Runners -> {"gone", "live", "silent", "dead"}]

\* Nobody has registered and nothing is queued.
DirInit ==
    /\ row = [t \in Tasks |-> NoRow] /\ queue = {} /\ meta = {}
    /\ debt = [c \in Claims |-> NoDebt] /\ live = {} /\ expiry = {} /\ ready = {}
    /\ index = [t \in Tasks |-> 0] /\ made = 0
    /\ session = [r \in Runners |-> 0] /\ health = [r \in Runners |-> "gone"]
    /\ claims = [r \in Runners |-> 0] /\ leases = [r \in Runners |-> 0]

\* Counters are only ever taken down to zero.
Less(n) == IF n > 0 THEN n - 1 ELSE 0

\* The directory has a session for the runner.
Registered(r) == health[r] # "gone"

-----------------------------------------------------------------------------
(* The scripts.  A script changes rows, ledger and counters in one step.   *)

\* Faulty: the expiry entry outlives its claim.
ForgetKeepsExpiry(c) ==
    /\ debt' = [debt EXCEPT ![c] = NoDebt]
    /\ live' = live \ {c}
    /\ expiry' = expiry
    /\ ready' = ready \ {c}
    /\ index' = [index EXCEPT ![debt[c].task] = 0]
    /\ claims' = [claims EXCEPT ![debt[c].runner] = Less(@)]

\* The claim hash, its expiry entry and its ledger record go together.
Forget(c) ==
    /\ debt' = [debt EXCEPT ![c] = NoDebt]
    /\ live' = live \ {c}
    /\ expiry' = expiry \ {c}
    /\ ready' = ready \ {c}
    /\ index' = [index EXCEPT ![debt[c].task] = 0]
    /\ claims' = [claims EXCEPT ![debt[c].runner] = Less(@)]

\* Back to the lanes: every stale copy is removed before the one pushed.
Requeued(t) == [NoRow EXCEPT !.state = "queued"]

Owns(c) == LET t == debt[c].task IN
    c \in live /\ row[t].state = "claimed" /\ row[t].claim = c

\* EnqueueAssignment: a task the directory already holds is a duplicate.
Enqueue(t) ==
    IF row[t].state \in {"none", "released"}
    THEN /\ row' = [row EXCEPT ![t] = Requeued(t)]
         /\ queue' = queue \cup {t}
         /\ meta' = meta \ {t}
    ELSE UNCHANGED <<row, queue, meta>>

ClaimAssignment(r, t, c) ==
    /\ Capacity - claims[r] - leases[r] > 0
    /\ row[t].state = "queued" /\ t \in queue
    /\ queue' = queue \ {t}
    /\ row' = [row EXCEPT ![t] = [state |-> "claimed", claim |-> c, runner |-> r,
                                  session |-> session[r], lease |-> 0]]
    /\ debt' = [debt EXCEPT ![c] = [state |-> "reserved", task |-> t, runner |-> r,
                                    session |-> session[r], lease |-> 0]]
    /\ live' = live \cup {c}
    /\ expiry' = expiry \cup {c}
    /\ index' = [index EXCEPT ![t] = c]
    /\ claims' = [claims EXCEPT ![r] = @ + 1]
    /\ UNCHANGED <<meta, ready, leases>>

\* Faulty: the mark is only written once the lease exists.
MarkLater(c) ==
    /\ ready' = ready \ {c}
    /\ UNCHANGED <<row, queue, meta, debt, live, expiry, index, claims, leases>>

\* The record of the claim, in another state and with a lease.
Turned(c, state, n) ==
    [state |-> state, task |-> debt[c].task, runner |-> debt[c].runner,
     session |-> debt[c].session, lease |-> n]

MarkLeaseMayExist(c) ==
    /\ debt' = [debt EXCEPT ![c] = Turned(c, "lease_may_exist", debt[c].lease)]
    /\ ready' = IF debt[c].state = "reserved" THEN ready \ {c} ELSE ready
    /\ UNCHANGED <<row, queue, meta, live, expiry, index, claims, leases>>

\* The recovery flag is dropped; the expiry entry is left as it is.
RecordLeaseCreated(c, n) ==
    /\ debt' = [debt EXCEPT ![c] = Turned(c, "lease_created", n)]
    /\ ready' = ready \ {c}
    /\ UNCHANGED <<row, queue, meta, live, expiry, index, claims, leases>>

MakeRecoverable(c) ==
    /\ ready' = IF c \in Claims /\ debt[c].state \in Uncertain THEN ready \cup {c} ELSE ready
    /\ UNCHANGED <<row, queue, meta, debt, live, expiry, index, claims, leases>>

\* Faulty: the resolver token is taken without a deadline to come back by.
TakeForever(c) ==
    /\ debt[c].state \in Uncertain /\ c \in ready
    /\ ready' = ready \ {c}
    /\ UNCHANGED <<row, queue, meta, debt, live, expiry, index, claims, leases>>

TakeRecovery(c) ==
    /\ debt[c].state \in Uncertain /\ c \in ready
    /\ ready' = ready \ {c}
    /\ expiry' = expiry \cup {c}
    /\ UNCHANGED <<row, queue, meta, debt, live, index, claims, leases>>

\* Faulty: the slot is not moved from the claims to the leases.
FinalizeKeepsSlot(c, n) ==
    LET t == debt[c].task IN
    /\ row' = [row EXCEPT ![t] = [state |-> "leased", claim |-> 0, runner |-> debt[c].runner,
                                  session |-> debt[c].session, lease |-> n]]
    /\ meta' = meta \cup {t}
    /\ live' = live \ {c} /\ expiry' = expiry \ {c} /\ ready' = ready \ {c}
    /\ debt' = [debt EXCEPT ![c] = Turned(c, "finalized", n)]
    /\ index' = [index EXCEPT ![t] = c]
    /\ leases' = [leases EXCEPT ![debt[c].runner] = @ + 1]
    /\ UNCHANGED <<queue, claims>>

\* Faulty: the row is given the claim's number where the lease's belongs.
FinalizeMixesIDs(c, n) ==
    LET t == debt[c].task IN
    /\ row' = [row EXCEPT ![t] = [state |-> "leased", claim |-> 0, runner |-> debt[c].runner,
                                  session |-> debt[c].session, lease |-> c]]
    /\ meta' = meta \cup {t}
    /\ live' = live \ {c} /\ expiry' = expiry \ {c} /\ ready' = ready \ {c}
    /\ debt' = [debt EXCEPT ![c] = Turned(c, "finalized", n)]
    /\ index' = [index EXCEPT ![t] = c]
    /\ claims' = [claims EXCEPT ![debt[c].runner] = Less(@)]
    /\ leases' = [leases EXCEPT ![debt[c].runner] = @ + 1]
    /\ UNCHANGED queue

FinalizeClaim(c, n) ==
    LET t == debt[c].task IN
    /\ row' = [row EXCEPT ![t] = [state |-> "leased", claim |-> 0, runner |-> debt[c].runner,
                                  session |-> debt[c].session, lease |-> n]]
    /\ meta' = meta \cup {t}
    /\ live' = live \ {c} /\ expiry' = expiry \ {c} /\ ready' = ready \ {c}
    /\ debt' = [debt EXCEPT ![c] = Turned(c, "finalized", n)]
    /\ index' = [index EXCEPT ![t] = c]
    /\ claims' = [claims EXCEPT ![debt[c].runner] = Less(@)]
    /\ leases' = [leases EXCEPT ![debt[c].runner] = @ + 1]
    /\ UNCHANGED queue

\* The claim itself proves ownership; a row that is leased or queued blocks.
Settleable(c) ==
    c \in live /\ debt[c].state \in Uncertain /\ row[debt[c].task].state \in {"none", "claimed"}

SettleHandoff(c, disposition) ==
    LET t == debt[c].task IN
    /\ row' = [row EXCEPT ![t] = IF disposition = "requeue" THEN Requeued(t) ELSE NoRow]
    /\ queue' = IF disposition = "requeue" THEN queue \cup {t} ELSE queue \ {t}
    /\ meta' = meta \ {t}
    /\ Forget(c)
    /\ UNCHANGED leases

\* The assignment's ledger record, if it is this lease's, is settled.
SettledDebt(t, n) ==
    {c \in Claims : c = index[t] /\ debt[c].state = "finalized" /\ debt[c].lease = n}

SettleFinalized(t, n) ==
    LET gone == SettledDebt(t, n) IN
    /\ debt' = [c \in Claims |-> IF c \in gone THEN NoDebt ELSE debt[c]]
    /\ index' = IF gone = {} THEN index ELSE [index EXCEPT ![t] = 0]
    /\ UNCHANGED <<live, expiry, ready>>

ReleaseLeased(r, t, n, seen) ==
    IF row[t].state = "leased" /\ row[t].runner = r /\ row[t].lease = n
    THEN /\ row' = [row EXCEPT ![t] = IF seen THEN NoRow ELSE [NoRow EXCEPT !.state = "released"]]
         /\ queue' = IF seen THEN queue \ {t} ELSE queue
         /\ meta' = meta \ {t}
         /\ leases' = [leases EXCEPT ![r] = Less(@)]
         /\ SettleFinalized(t, n)
         /\ UNCHANGED claims
    ELSE UNCHANGED dirVars

\* The row and the slot go; the ledger record stays until it is settled.
ReleaseExpired(t) ==
    /\ row' = [row EXCEPT ![t] = NoRow]
    /\ queue' = queue \ {t}
    /\ meta' = meta \ {t}
    /\ leases' = [leases EXCEPT ![row[t].runner] = Less(@)]
    /\ UNCHANGED <<ledgerVars, claims>>

\* ClearAssignment asks for nothing: the row goes whatever its state.
ClearAssignment(t) ==
    LET c == row[t].claim
        d == index[t] IN
    /\ row' = [row EXCEPT ![t] = NoRow]
    /\ queue' = queue \ {t}
    /\ meta' = meta \ {t}
    /\ live' = live \ {c} /\ expiry' = expiry \ {c} /\ ready' = ready \ {d}
    /\ debt' = [x \in Claims |-> IF x = d THEN NoDebt ELSE debt[x]]
    /\ index' = [index EXCEPT ![t] = 0]
    /\ claims' = IF c = 0 THEN claims ELSE [claims EXCEPT ![row[t].runner] = Less(@)]
    /\ leases' = IF row[t].state # "leased" THEN leases
                 ELSE [leases EXCEPT ![row[t].runner] = Less(@)]

\* Faulty: an uncertain handoff leaves the index and is offered to nobody.
ReclaimDrops(c) ==
    LET t == debt[c].task IN
    IF debt[c].state \in Uncertain
    THEN /\ expiry' = expiry \ {c}
         /\ UNCHANGED <<row, queue, meta, debt, live, ready, index, claims, leases>>
    ELSE /\ row' = [row EXCEPT ![t] = IF Owns(c) THEN Requeued(t) ELSE @]
         /\ queue' = IF Owns(c) THEN queue \cup {t} ELSE queue
         /\ Forget(c)
         /\ UNCHANGED <<meta, leases>>

\* ReclaimExpiredClaims, for a claim whose expiry entry has come due: a plain
\* reservation is queued again, an uncertain handoff is only offered to its
\* resolvers and leaves the expiry index.
ReclaimClaim(c) ==
    LET t == debt[c].task IN
    IF debt[c].state \in Uncertain
    THEN /\ ready' = ready \cup {c}
         /\ expiry' = expiry \ {c}
         /\ UNCHANGED <<row, queue, meta, debt, live, index, claims, leases>>
    ELSE /\ row' = [row EXCEPT ![t] = IF Owns(c) THEN Requeued(t) ELSE @]
         /\ queue' = IF Owns(c) THEN queue \cup {t} ELSE queue
         /\ Forget(c)
         /\ UNCHANGED <<meta, leases>>

\* The claims of the runner that are plain reservations, and the others.
Reserved(r) == {c \in live : debt[c].runner = r /\ debt[c].state \notin Uncertain}
Kept(r) == {c \in live : debt[c].runner = r /\ debt[c].state \in Uncertain}

\* A row or a record, moved to another session.
Rebound(x, s) == [x EXCEPT !.session = s]

\* Faulty: finalized debts stay with the old session.
RegisterLeavesDebt(r, s) ==
    LET back == {t \in Tasks : row[t].state = "claimed" /\ row[t].claim \in Reserved(r)}
        mine == {t \in Tasks : row[t].runner = r /\
                    (row[t].state = "leased" \/ (row[t].state = "claimed" /\ row[t].claim \in Kept(r)))} IN
    /\ row' = [t \in Tasks |-> IF t \in back THEN Requeued(t)
                               ELSE IF t \in mine THEN Rebound(row[t], s)
                               ELSE row[t]]
    /\ queue' = queue \cup back
    /\ debt' = [c \in Claims |-> IF c \in Reserved(r) THEN NoDebt
                                 ELSE IF c \in Kept(r) THEN Rebound(debt[c], s)
                                 ELSE debt[c]]
    /\ live' = live \ Reserved(r) /\ expiry' = expiry \ Reserved(r)
    /\ ready' = (ready \ Reserved(r)) \cup Kept(r)
    /\ index' = [t \in Tasks |-> IF \E c \in Reserved(r) : debt[c].task = t THEN 0 ELSE index[t]]
    /\ claims' = [claims EXCEPT ![r] = Cardinality(Kept(r))]
    /\ UNCHANGED <<meta, leases>>

\* redisRegisterRunnerLua: reservations of the old session go back to the
\* queue; everything else the runner owes or holds moves to the new session.
RegisterRunner(r, s) ==
    LET back == {t \in Tasks : row[t].state = "claimed" /\ row[t].claim \in Reserved(r)}
        mine == {t \in Tasks : row[t].runner = r /\
                    (row[t].state = "leased" \/ (row[t].state = "claimed" /\ row[t].claim \in Kept(r)))} IN
    /\ row' = [t \in Tasks |-> IF t \in back THEN Requeued(t)
                               ELSE IF t \in mine THEN Rebound(row[t], s)
                               ELSE row[t]]
    /\ queue' = queue \cup back
    /\ debt' = [c \in Claims |-> IF c \in Reserved(r) THEN NoDebt
                                 ELSE IF debt[c].runner = r THEN Rebound(debt[c], s)
                                 ELSE debt[c]]
    /\ live' = live \ Reserved(r) /\ expiry' = expiry \ Reserved(r)
    /\ ready' = (ready \ Reserved(r)) \cup Kept(r)
    /\ index' = [t \in Tasks |-> IF \E c \in Reserved(r) : debt[c].task = t THEN 0 ELSE index[t]]
    /\ claims' = [claims EXCEPT ![r] = Cardinality(Kept(r))]
    /\ UNCHANGED <<meta, leases>>

\* The claim is still this runner's, under the session the runner has now.
Finalizable(c) ==
    Owns(c) /\ Registered(debt[c].runner) /\ session[debt[c].runner] = debt[c].session

\* What keeps a runner from being removed.
Outstanding(r) ==
    \/ claims[r] # 0 \/ leases[r] # 0
    \/ \E c \in Claims : debt[c].runner = r
    \/ \E t \in Tasks : row[t].state = "leased" /\ row[t].runner = r

-----------------------------------------------------------------------------
(* What the scripts keep.                                                  *)

ClaimsOf(r) == {c \in live : debt[c].runner = r}
LeasedTo(r) == {t \in Tasks : row[t].state = "leased" /\ row[t].runner = r}

\* The counters that admit a claim (runnerClaimCount, runnerLeaseCount) are
\* exactly the claims and leases there are, through every script that moves
\* them, and a runner is never given more than its capacity.  No script but a
\* registration recounts, so one lost decrement would cost a slot for ever.
CapacityExact ==
    \A r \in Runners :
        /\ claims[r] = Cardinality(ClaimsOf(r))
        /\ leases[r] = Cardinality(LeasedTo(r))
        /\ claims[r] + leases[r] <= Capacity

ClaimsOwned == \A c \in live : Owns(c) /\ index[debt[c].task] = c
RecordsLive == \A c \in Claims : debt[c].state \in Uncertain \cup {"reserved"} <=> c \in live
RowsClaimed ==
    \A t \in Tasks : row[t].state = "claimed" => row[t].claim \in live /\ debt[row[t].claim].task = t
LanesExact == \A t \in Tasks : row[t].state = "queued" <=> t \in queue

\* A claim, the claimed row, the ledger record and both indexes name each
\* other, and a queued row is on a lane.  The scripts write these hashes one
\* by one; the settle script trusts one direction of the claim index and the
\* sweep trusts the expiry index alone.
LedgerMatches ==
    /\ ClaimsOwned /\ RecordsLive /\ RowsClaimed /\ LanesExact
    /\ expiry \subseteq live /\ ready \subseteq live

\* Whatever a runner owes or holds is under its current session, however
\* registrations, removals and requests in progress interleave: a lease left
\* under an old session could neither be reported nor replayed.
SessionsCurrent ==
    /\ \A c \in Claims : debt[c].state # "none" =>
          Registered(debt[c].runner) /\ debt[c].session = session[debt[c].runner]
    /\ \A t \in Tasks : row[t].state \in {"claimed", "leased"} =>
          Registered(row[t].runner) /\ row[t].session = session[row[t].runner]

-----------------------------------------------------------------------------
\* What the rows say of an assignment's place.
Place(t) == IF row[t].state \in {"none", "released"} THEN "away" ELSE row[t].state
Holder(t) == IF row[t].state \in {"claimed", "leased"} THEN row[t].runner ELSE Nobody

Board == INSTANCE AssignmentBoard WITH
    place <- [t \in Tasks |-> Place(t)],
    holder <- [t \in Tasks |-> Holder(t)]
==============================================================================
