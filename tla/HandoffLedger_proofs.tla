------------------------ MODULE HandoffLedger_proofs ------------------------
(***************************************************************************)
(* Each script of the runner directory keeps the ledger consistent, from   *)
(* any state in which its callers run it, for any number of tasks and      *)
(* runners.  RunnerDirectory_proofs draws the conclusions for the control  *)
(* plane that runs them.                                                   *)
(***************************************************************************)
EXTENDS HandoffLedger, FiniteSetTheorems, TLAPS

\* What a record, a row and an index entry are like.
RecordsShaped == \A c \in Claims : debt[c].state # "none" =>
    debt[c].task \in Tasks /\ debt[c].runner \in Runners /\ c <= made
RowsShaped == \A t \in Tasks :
    /\ row[t].state = "claimed" =>
         row[t].runner = debt[row[t].claim].runner /\ row[t].session = debt[row[t].claim].session
    /\ row[t].state = "leased" => row[t].runner \in Runners
    /\ row[t].state # "claimed" => row[t].claim = 0
IndexShaped == \A t \in Tasks : index[t] # 0 =>
    debt[index[t]].task = t /\ debt[index[t]].state # "none"
Shape == RecordsShaped /\ RowsShaped /\ IndexShaped

DirInv == DirType /\ LedgerMatches /\ Shape /\ SessionsCurrent /\ CapacityExact

\* A script that makes no claim keeps the fences there are.
StaysFenced == \A c \in live' : c <= made =>
    c \in live /\ (debt[c].state \in Uncertain => debt'[c].state \in Uncertain)

\* The sets of numbers are only used through these facts.
LEMMA Numbers ==
    /\ 0 \notin Claims /\ Claims \subseteq Nat
    /\ 0 \in Leases /\ 0 \in Sessions
    /\ NoTask \notin Tasks /\ Nobody \notin Runners
  BY LedgerAssumption DEF Claims, Leases, Sessions

LEMMA InitKeeps == DirInit => DirInv
<1> SUFFICES ASSUME DirInit PROVE DirInv
  OBVIOUS
<1> USE DEF DirInit
<1>1. DirType
  BY Numbers, LedgerAssumption DEF DirType, Rows, Debts, NoRow, NoDebt, RowStates, DebtStates
<1>2. LedgerMatches /\ SessionsCurrent /\ Shape
  BY Zenon DEF LedgerMatches, ClaimsOwned, RecordsLive, RowsClaimed, LanesExact, SessionsCurrent,
         Shape, RecordsShaped, RowsShaped, IndexShaped, NoRow, NoDebt, Uncertain
<1>3. CapacityExact
  <2>1. \A r \in Runners : ClaimsOf(r) = {} /\ LeasedTo(r) = {}
    BY Zenon DEF ClaimsOf, LeasedTo, NoRow
  <2> QED
    BY <2>1, FS_EmptySet, LedgerAssumption DEF CapacityExact
<1> QED
  BY Zenon, <1>1, <1>2, <1>3 DEF DirInv

-----------------------------------------------------------------------------
(* The scripts.                                                            *)

LEMMA LiveFacts ==
  ASSUME DirInv
  PROVE  \A d \in live : /\ d \in Claims /\ debt[d].task \in Tasks /\ debt[d].runner \in Runners
                         /\ debt[d].state \notin {"none", "finalized"} /\ d <= made
  BY Zenon DEF DirInv, DirType, LedgerMatches, RecordsLive, Shape, RecordsShaped, Uncertain

LEMMA CounterLess ==
  \A f \in [Runners -> Nat] : \A r : [f EXCEPT ![r] = Less(@)] \in [Runners -> Nat]
<1>1. \A n \in Nat : Less(n) \in Nat
  BY DEF Less
<1> QED
  BY Zenon, <1>1

LEMMA SameCounts ==
  ASSUME CapacityExact, UNCHANGED <<row, debt, live, claims, leases>>
  PROVE  CapacityExact'
<1>1. \A r \in Runners : ClaimsOf(r)' = ClaimsOf(r) /\ LeasedTo(r)' = LeasedTo(r)
  BY Zenon DEF ClaimsOf, LeasedTo
<1> QED
  BY Zenon, <1>1 DEF CapacityExact

\* A step that leaves the directory alone.
LEMMA SameKeeps ==
  ASSUME DirInv, UNCHANGED <<dirVars, made, runnerVars>>
  PROVE  DirInv' /\ StaysFenced
<1> USE DEF dirVars, ledgerVars, runnerVars, DirInv
<1>1. CapacityExact'
  BY Zenon, SameCounts
<1> QED
  BY Zenon, <1>1 DEF DirType, LedgerMatches, ClaimsOwned, RecordsLive, RowsClaimed, LanesExact, Owns,
         Shape, RecordsShaped, RowsShaped, IndexShaped, SessionsCurrent, Registered, StaysFenced

-----------------------------------------------------------------------------
(* Counting.  The sets a counter stands for change by one element with it, *)
(* or not at all.                                                          *)

LEMMA Countable ==
  ASSUME DirInv
  PROVE  \A r : /\ IsFiniteSet(ClaimsOf(r)) /\ Cardinality(ClaimsOf(r)) \in Nat
               /\ IsFiniteSet(LeasedTo(r)) /\ Cardinality(LeasedTo(r)) \in Nat
<1> SUFFICES ASSUME NEW r
             PROVE  /\ IsFiniteSet(ClaimsOf(r)) /\ Cardinality(ClaimsOf(r)) \in Nat
                    /\ IsFiniteSet(LeasedTo(r)) /\ Cardinality(LeasedTo(r)) \in Nat
  OBVIOUS
<1>1. IsFiniteSet(Claims)
  BY FS_Interval, LedgerAssumption, 1 \in Int, MaxClaims \in Int DEF Claims
<1>2. ClaimsOf(r) \in SUBSET Claims
  BY Zenon DEF ClaimsOf, DirInv, DirType
<1>3. LeasedTo(r) \in SUBSET Tasks
  BY Zenon DEF LeasedTo
<1>4. IsFiniteSet(ClaimsOf(r)) /\ IsFiniteSet(LeasedTo(r))
  BY Zenon, <1>1, <1>2, <1>3, FS_Subset, LedgerAssumption
<1> QED
  BY Zenon, <1>4, FS_CardinalityType

LEMMA OneLess ==
  ASSUME NEW S, IsFiniteSet(S), NEW x \in S
  PROVE  Cardinality(S) \in Nat \ {0} /\ Cardinality(S \ {x}) = Less(Cardinality(S))
<1>1. Cardinality(S) \in Nat /\ Cardinality(S) # 0
  BY Zenon, FS_CardinalityType, FS_EmptySet
<1>2. Cardinality(S \ {x}) = Cardinality(S) - 1
  BY Zenon, FS_RemoveElement
<1> QED
  BY <1>1, <1>2 DEF Less

ClaimsSame == claims' = claims /\ \A q \in Runners : ClaimsOf(q)' = ClaimsOf(q)
ClaimsDrop == \E r \in Runners : \E c \in ClaimsOf(r) :
    /\ claims' = [claims EXCEPT ![r] = Less(@)]
    /\ \A q \in Runners : ClaimsOf(q)' = IF q = r THEN ClaimsOf(q) \ {c} ELSE ClaimsOf(q)
LeasesSame == leases' = leases /\ \A q \in Runners : LeasedTo(q)' = LeasedTo(q)
LeasesDrop == \E r \in Runners : \E t \in LeasedTo(r) :
    /\ leases' = [leases EXCEPT ![r] = Less(@)]
    /\ \A q \in Runners : LeasedTo(q)' = IF q = r THEN LeasedTo(q) \ {t} ELSE LeasedTo(q)

LEMMA ClaimsCounted ==
  ASSUME DirInv, ClaimsSame \/ ClaimsDrop
  PROVE  \A q \in Runners : /\ claims'[q] = Cardinality(ClaimsOf(q)')
                            /\ claims'[q] \in Nat /\ claims'[q] <= claims[q]
<1>1. CASE ClaimsSame
  BY <1>1, Countable DEF DirInv, CapacityExact, ClaimsSame
<1>2. CASE ClaimsDrop
  <2>0. PICK r \in Runners : \E c \in ClaimsOf(r) :
           /\ claims' = [claims EXCEPT ![r] = Less(@)]
           /\ \A q \in Runners : ClaimsOf(q)' = IF q = r THEN ClaimsOf(q) \ {c} ELSE ClaimsOf(q)
    BY Zenon, <1>2 DEF ClaimsDrop
  <2>1. PICK c \in ClaimsOf(r) :
           /\ claims' = [claims EXCEPT ![r] = Less(@)]
           /\ \A q \in Runners : ClaimsOf(q)' = IF q = r THEN ClaimsOf(q) \ {c} ELSE ClaimsOf(q)
    BY Zenon, <2>0
  <2>2. Cardinality(ClaimsOf(r) \ {c}) = Less(Cardinality(ClaimsOf(r)))
    BY Zenon, <2>1, Countable, OneLess
  <2>3. Less(claims[r]) \in Nat /\ Less(claims[r]) <= claims[r]
    BY DEF Less, DirInv, DirType
  <2> SUFFICES ASSUME NEW q \in Runners
               PROVE  claims'[q] = Cardinality(ClaimsOf(q)') /\ claims'[q] \in Nat /\ claims'[q] <= claims[q]
    OBVIOUS
  <2>4. claims[q] = Cardinality(ClaimsOf(q)) /\ claims \in [Runners -> Nat]
    BY Zenon DEF DirInv, DirType, CapacityExact
  <2>5. CASE q = r
    <3>1. claims'[q] = Less(claims[r]) /\ ClaimsOf(q)' = ClaimsOf(r) \ {c}
      BY Zenon, <2>1, <2>4, <2>5
    <3> QED
      BY Zenon, <2>2, <2>3, <2>4, <2>5, <3>1
  <2>6. CASE q # r
    <3>1. claims'[q] = claims[q] /\ ClaimsOf(q)' = ClaimsOf(q)
      BY Zenon, <2>1, <2>4, <2>6
    <3> QED
      BY <2>4, <3>1
  <2> QED
    BY Zenon, <2>5, <2>6
<1> QED
  BY Zenon, <1>1, <1>2

LEMMA LeasesCounted ==
  ASSUME DirInv, LeasesSame \/ LeasesDrop
  PROVE  \A q \in Runners : /\ leases'[q] = Cardinality(LeasedTo(q)')
                            /\ leases'[q] \in Nat /\ leases'[q] <= leases[q]
<1>1. CASE LeasesSame
  BY <1>1, Countable DEF DirInv, CapacityExact, LeasesSame
<1>2. CASE LeasesDrop
  <2>0. PICK r \in Runners : \E t \in LeasedTo(r) :
           /\ leases' = [leases EXCEPT ![r] = Less(@)]
           /\ \A q \in Runners : LeasedTo(q)' = IF q = r THEN LeasedTo(q) \ {t} ELSE LeasedTo(q)
    BY Zenon, <1>2 DEF LeasesDrop
  <2>1. PICK t \in LeasedTo(r) :
           /\ leases' = [leases EXCEPT ![r] = Less(@)]
           /\ \A q \in Runners : LeasedTo(q)' = IF q = r THEN LeasedTo(q) \ {t} ELSE LeasedTo(q)
    BY Zenon, <2>0
  <2>2. Cardinality(LeasedTo(r) \ {t}) = Less(Cardinality(LeasedTo(r)))
    BY Zenon, <2>1, Countable, OneLess
  <2>3. Less(leases[r]) \in Nat /\ Less(leases[r]) <= leases[r]
    BY DEF Less, DirInv, DirType
  <2> SUFFICES ASSUME NEW q \in Runners
               PROVE  leases'[q] = Cardinality(LeasedTo(q)') /\ leases'[q] \in Nat /\ leases'[q] <= leases[q]
    OBVIOUS
  <2>4. leases[q] = Cardinality(LeasedTo(q)) /\ leases \in [Runners -> Nat]
    BY Zenon DEF DirInv, DirType, CapacityExact
  <2>5. CASE q = r
    <3>1. leases'[q] = Less(leases[r]) /\ LeasedTo(q)' = LeasedTo(r) \ {t}
      BY Zenon, <2>1, <2>4, <2>5
    <3> QED
      BY Zenon, <2>2, <2>3, <2>4, <2>5, <3>1
  <2>6. CASE q # r
    <3>1. leases'[q] = leases[q] /\ LeasedTo(q)' = LeasedTo(q)
      BY Zenon, <2>1, <2>4, <2>6
    <3> QED
      BY <2>4, <3>1
  <2> QED
    BY Zenon, <2>5, <2>6
<1> QED
  BY Zenon, <1>1, <1>2

LEMMA Counted ==
  ASSUME DirInv, ClaimsSame \/ ClaimsDrop, LeasesSame \/ LeasesDrop
  PROVE  CapacityExact'
  BY ClaimsCounted, LeasesCounted, LedgerAssumption DEF CapacityExact, DirInv, DirType

-----------------------------------------------------------------------------
(* The scripts, one by one.                                                *)

\* ClaimAssignment, with a fresh claim.
LEMMA ClaimKeeps ==
  ASSUME DirInv, NEW r \in Runners, NEW t \in Tasks, NEW c \in Claims,
         c = made + 1, Registered(r), ClaimAssignment(r, t, c),
         made' = c, UNCHANGED runnerVars
  PROVE  DirInv' /\ StaysFenced
<1>f. \A d \in live : /\ d \in Claims /\ debt[d].task \in Tasks /\ debt[d].runner \in Runners
                       /\ debt[d].state \notin {"none", "finalized"} /\ d <= made
  BY Zenon, LiveFacts
<1> USE Numbers DEF DirInv, LedgerMatches, Shape, runnerVars, ClaimAssignment
<1>0. debt[c].state = "none" /\ c \notin live
  BY <1>f DEF RecordsShaped, RecordsLive, Uncertain, DirType
<1>1. DirType'
  BY CounterLess, <1>f, <1>0 DEF DirType, Rows, Debts, RowStates, DebtStates
<1>2. ClaimsOwned'
  BY <1>f, <1>0 DEF ClaimsOwned, Owns, DirType, Uncertain
<1>3. RecordsLive'
  BY Zenon, <1>f, <1>0 DEF RecordsLive, DirType, Uncertain
<1>4. RowsClaimed'
  BY <1>f, <1>0 DEF RowsClaimed, DirType, Uncertain
<1>5. LanesExact'
  BY Zenon, <1>f, <1>0 DEF LanesExact, DirType, Uncertain
<1>6. RecordsShaped'
  BY <1>f, <1>0 DEF RecordsShaped, DirType, Uncertain
<1>7. RowsShaped'
  BY <1>f, <1>0 DEF RowsShaped, RowsClaimed, DirType, Uncertain
<1>8. IndexShaped'
  BY <1>f, <1>0 DEF IndexShaped, DirType, Uncertain
<1>9. SessionsCurrent'
  BY Zenon, <1>f, <1>0 DEF SessionsCurrent, RecordsShaped, RowsShaped, DirType, Registered, Uncertain
<1>10. expiry' \subseteq live' /\ ready' \subseteq live'
  BY Zenon, <1>f, <1>0 DEF RecordsLive, DirType, Uncertain
<1>11. StaysFenced
  BY <1>f, <1>0 DEF StaysFenced, RecordsLive, DirType, Uncertain
<1>cap. CapacityExact'
  <2>1. \A q \in Runners : ClaimsOf(q)' = IF q = r THEN ClaimsOf(q) \cup {c} ELSE ClaimsOf(q)
    BY <1>f, <1>0 DEF ClaimsOf, DirType
  <2>2. c \notin ClaimsOf(r) /\ IsFiniteSet(ClaimsOf(r))
    BY Zenon, <1>0, Countable DEF ClaimsOf
  <2>3. Cardinality(ClaimsOf(r) \cup {c}) = Cardinality(ClaimsOf(r)) + 1
    BY Zenon, <2>2, FS_AddElement
  <2>4. LeasesSame
    BY Zenon DEF LeasesSame, LeasedTo, DirType
  <2>5. \A q \in Runners : leases'[q] = Cardinality(LeasedTo(q)') /\ leases'[q] = leases[q]
    BY Zenon, <2>4 DEF LeasesSame, CapacityExact
  <2>6. claims[r] \in Nat /\ leases[r] \in Nat /\ claims[r] + leases[r] < Capacity
    BY LedgerAssumption DEF DirType
  <2>7. ASSUME NEW q \in Runners
        PROVE  claims'[q] = Cardinality(ClaimsOf(q)') /\ claims'[q] + leases'[q] <= Capacity
    <3>1. claims[q] = Cardinality(ClaimsOf(q)) /\ claims[q] + leases[q] <= Capacity /\ claims \in [Runners -> Nat]
      BY Zenon DEF DirType, CapacityExact
    <3>2. CASE q = r
      <4>1. claims'[q] = claims[q] + 1 /\ Cardinality(ClaimsOf(q)') = claims[q] + 1
        BY Zenon, <2>1, <2>3, <3>1, <3>2
      <4> QED
        BY <4>1, <2>5, <2>6, <3>2, LedgerAssumption
    <3>3. CASE q # r
      <4>1. claims'[q] = claims[q] /\ ClaimsOf(q)' = ClaimsOf(q)
        BY Zenon, <2>1, <3>1, <3>3
      <4> QED
        BY Zenon, <4>1, <2>5, <3>1
    <3> QED
      BY Zenon, <3>2, <3>3
  <2> QED
    BY Zenon, <2>5, <2>7 DEF CapacityExact
<1> QED
  BY Zenon, <1>1, <1>2, <1>3, <1>4, <1>5, <1>6, <1>7, <1>8, <1>9, <1>10, <1>11, <1>cap

\* EnqueueAssignment.
LEMMA EnqueueKeeps ==
  ASSUME DirInv, NEW t \in Tasks, Enqueue(t), UNCHANGED <<ledgerVars, claims, leases>>,
         made' = made, UNCHANGED runnerVars
  PROVE  DirInv' /\ StaysFenced
<1>f. \A d \in live : /\ d \in Claims /\ debt[d].task \in Tasks /\ debt[d].runner \in Runners
                       /\ debt[d].state \notin {"none", "finalized"} /\ d <= made
  BY Zenon, LiveFacts
<1> USE Numbers DEF DirInv, LedgerMatches, Shape, runnerVars, Enqueue, Requeued, NoRow, ledgerVars
<1>0. DirType'
  BY CounterLess, <1>f DEF DirType, Rows, Debts, RowStates, DebtStates
<1>1. ClaimsOwned'
  BY <1>f DEF ClaimsOwned, Owns, DirType
<1>2. RecordsLive'
  BY Zenon, <1>f DEF RecordsLive, DirType
<1>3. RowsClaimed'
  BY <1>f DEF RowsClaimed, DirType
<1>4. LanesExact'
  BY <1>f DEF LanesExact, DirType
<1>5. RecordsShaped'
  BY Zenon, <1>f DEF RecordsShaped, DirType
<1>6. RowsShaped'
  BY <1>f DEF RowsShaped, RowsClaimed, DirType
<1>7. IndexShaped'
  BY Zenon, <1>f DEF IndexShaped, DirType
<1>8. SessionsCurrent'
  BY <1>f DEF SessionsCurrent, RecordsShaped, RowsShaped, DirType, Registered
<1>9. expiry' \subseteq live' /\ ready' \subseteq live'
  BY Zenon, <1>f DEF RecordsLive, DirType
<1>10. StaysFenced
  BY Zenon, <1>f DEF StaysFenced, RecordsLive, DirType
<1>cap. CapacityExact'
  <2>1. ClaimsSame
    BY Zenon, <1>f DEF ClaimsSame, ClaimsOf, DirType
  <2>2. LeasesSame
    BY <1>f DEF LeasesSame, LeasedTo, DirType
  <2> QED
    BY Zenon, <2>1, <2>2, Counted
<1> QED
  BY Zenon, <1>0, <1>1, <1>2, <1>3, <1>4, <1>5, <1>6, <1>7, <1>8, <1>9, <1>10, <1>cap

\* MarkHandoffLeaseMayExist.
LEMMA MarkKeeps ==
  ASSUME DirInv, NEW c \in Claims, Owns(c), MarkLeaseMayExist(c),
         made' = made, UNCHANGED runnerVars
  PROVE  DirInv' /\ StaysFenced
<1>f. \A d \in live : /\ d \in Claims /\ debt[d].task \in Tasks /\ debt[d].runner \in Runners
                       /\ debt[d].state \notin {"none", "finalized"} /\ d <= made
  BY Zenon, LiveFacts
<1> USE Numbers DEF DirInv, LedgerMatches, Shape, runnerVars, MarkLeaseMayExist, Turned
<1>0. c \in live
  BY Zenon, <1>f DEF Owns
<1>1. DirType'
  BY Zenon, CounterLess, <1>f, <1>0 DEF DirType, Rows, Debts, RowStates, DebtStates, Uncertain
<1>2. ClaimsOwned'
  BY Zenon, <1>f, <1>0 DEF ClaimsOwned, Owns, DirType, Uncertain
<1>3. RecordsLive'
  BY Zenon, <1>f, <1>0 DEF RecordsLive, DirType, Uncertain
<1>4. RowsClaimed'
  BY Zenon, <1>f, <1>0 DEF RowsClaimed, DirType, Uncertain
<1>5. LanesExact'
  BY Zenon, <1>f, <1>0 DEF LanesExact, DirType, Uncertain
<1>6. RecordsShaped'
  BY Zenon, <1>f, <1>0 DEF RecordsShaped, DirType, Uncertain
<1>7. RowsShaped'
  BY <1>f, <1>0 DEF RowsShaped, RowsClaimed, DirType, Uncertain
<1>8. IndexShaped'
  BY <1>f, <1>0 DEF IndexShaped, DirType, Uncertain
<1>9. SessionsCurrent'
  BY Zenon, <1>f, <1>0 DEF SessionsCurrent, RecordsShaped, RowsShaped, DirType, Registered, Uncertain
<1>10. expiry' \subseteq live' /\ ready' \subseteq live'
  BY Zenon, <1>f, <1>0 DEF RecordsLive, DirType, Uncertain
<1>11. StaysFenced
  BY Zenon, <1>f, <1>0 DEF StaysFenced, RecordsLive, DirType, Uncertain
<1>cap. CapacityExact'
  <2>1. ClaimsSame
    BY Zenon, <1>f, <1>0 DEF ClaimsSame, ClaimsOf, DirType
  <2>2. LeasesSame
    BY Zenon, <1>f DEF LeasesSame, LeasedTo, DirType
  <2> QED
    BY Zenon, <2>1, <2>2, Counted
<1> QED
  BY Zenon, <1>1, <1>2, <1>3, <1>4, <1>5, <1>6, <1>7, <1>8, <1>9, <1>10, <1>11, <1>cap

\* RecordHandoffLeaseCreated.
LEMMA RecordKeeps ==
  ASSUME DirInv, NEW c \in Claims, NEW n \in Leases, Owns(c), RecordLeaseCreated(c, n),
         made' = made, UNCHANGED runnerVars
  PROVE  DirInv' /\ StaysFenced
<1>f. \A d \in live : /\ d \in Claims /\ debt[d].task \in Tasks /\ debt[d].runner \in Runners
                       /\ debt[d].state \notin {"none", "finalized"} /\ d <= made
  BY Zenon, LiveFacts
<1> USE Numbers DEF DirInv, LedgerMatches, Shape, runnerVars, RecordLeaseCreated, Turned
<1>0. c \in live
  BY Zenon, <1>f DEF Owns
<1>1. DirType'
  BY Zenon, CounterLess, <1>f, <1>0 DEF DirType, Rows, Debts, RowStates, DebtStates, Uncertain
<1>2. ClaimsOwned'
  BY Zenon, <1>f, <1>0 DEF ClaimsOwned, Owns, DirType, Uncertain
<1>3. RecordsLive'
  BY Zenon, <1>f, <1>0 DEF RecordsLive, DirType, Uncertain
<1>4. RowsClaimed'
  BY Zenon, <1>f, <1>0 DEF RowsClaimed, DirType, Uncertain
<1>5. LanesExact'
  BY Zenon, <1>f, <1>0 DEF LanesExact, DirType, Uncertain
<1>6. RecordsShaped'
  BY Zenon, <1>f, <1>0 DEF RecordsShaped, DirType, Uncertain
<1>7. RowsShaped'
  BY Zenon, <1>f, <1>0 DEF RowsShaped, RowsClaimed, DirType, Uncertain
<1>8. IndexShaped'
  BY <1>f, <1>0 DEF IndexShaped, DirType, Uncertain
<1>9. SessionsCurrent'
  BY Zenon, <1>f, <1>0 DEF SessionsCurrent, RecordsShaped, RowsShaped, DirType, Registered, Uncertain
<1>10. expiry' \subseteq live' /\ ready' \subseteq live'
  BY Zenon, <1>f, <1>0 DEF RecordsLive, DirType, Uncertain
<1>11. StaysFenced
  BY Zenon, <1>f, <1>0 DEF StaysFenced, RecordsLive, DirType, Uncertain
<1>cap. CapacityExact'
  <2>1. ClaimsSame
    BY Zenon, <1>f, <1>0 DEF ClaimsSame, ClaimsOf, DirType
  <2>2. LeasesSame
    BY Zenon, <1>f DEF LeasesSame, LeasedTo, DirType
  <2> QED
    BY Zenon, <2>1, <2>2, Counted
<1> QED
  BY Zenon, <1>1, <1>2, <1>3, <1>4, <1>5, <1>6, <1>7, <1>8, <1>9, <1>10, <1>11, <1>cap

\* MakeHandoffRecoverable, of any claim.
LEMMA MakeRecoverableKeeps ==
  ASSUME DirInv, NEW c, MakeRecoverable(c),
         made' = made, UNCHANGED runnerVars
  PROVE  DirInv' /\ StaysFenced
<1>f. \A d \in live : /\ d \in Claims /\ debt[d].task \in Tasks /\ debt[d].runner \in Runners
                       /\ debt[d].state \notin {"none", "finalized"} /\ d <= made
  BY Zenon, LiveFacts
<1> USE Numbers DEF DirInv, LedgerMatches, Shape, runnerVars, MakeRecoverable
<1>0. DirType'
  BY CounterLess, <1>f DEF DirType, Rows, Debts, RowStates, DebtStates
<1>1. ClaimsOwned'
  BY Zenon, <1>f DEF ClaimsOwned, Owns, DirType
<1>2. RecordsLive'
  BY Zenon, <1>f DEF RecordsLive, DirType
<1>3. RowsClaimed'
  BY Zenon, <1>f DEF RowsClaimed, DirType
<1>4. LanesExact'
  BY Zenon, <1>f DEF LanesExact, DirType
<1>5. RecordsShaped'
  BY Zenon, <1>f DEF RecordsShaped, DirType
<1>6. RowsShaped'
  BY Zenon, <1>f DEF RowsShaped, RowsClaimed, DirType
<1>7. IndexShaped'
  BY Zenon, <1>f DEF IndexShaped, DirType
<1>8. SessionsCurrent'
  BY Zenon, <1>f DEF SessionsCurrent, RecordsShaped, RowsShaped, DirType, Registered
<1>9. expiry' \subseteq live' /\ ready' \subseteq live'
  BY Zenon, <1>f DEF RecordsLive, DirType
<1>10. StaysFenced
  BY Zenon, <1>f DEF StaysFenced, RecordsLive, DirType
<1>cap. CapacityExact'
  <2>1. ClaimsSame
    BY Zenon, <1>f DEF ClaimsSame, ClaimsOf, DirType
  <2>2. LeasesSame
    BY Zenon, <1>f DEF LeasesSame, LeasedTo, DirType
  <2> QED
    BY Zenon, <2>1, <2>2, Counted
<1> QED
  BY Zenon, <1>0, <1>1, <1>2, <1>3, <1>4, <1>5, <1>6, <1>7, <1>8, <1>9, <1>10, <1>cap

\* TakeHandoffRecovery.
LEMMA TakeKeeps ==
  ASSUME DirInv, NEW c \in Claims, TakeRecovery(c),
         made' = made, UNCHANGED runnerVars
  PROVE  DirInv' /\ StaysFenced
<1>f. \A d \in live : /\ d \in Claims /\ debt[d].task \in Tasks /\ debt[d].runner \in Runners
                       /\ debt[d].state \notin {"none", "finalized"} /\ d <= made
  BY Zenon, LiveFacts
<1> USE Numbers DEF DirInv, LedgerMatches, Shape, runnerVars, TakeRecovery
<1>0. DirType'
  BY CounterLess, <1>f DEF DirType, Rows, Debts, RowStates, DebtStates
<1>1. ClaimsOwned'
  BY Zenon, <1>f DEF ClaimsOwned, Owns, DirType
<1>2. RecordsLive'
  BY Zenon, <1>f DEF RecordsLive, DirType
<1>3. RowsClaimed'
  BY Zenon, <1>f DEF RowsClaimed, DirType
<1>4. LanesExact'
  BY Zenon, <1>f DEF LanesExact, DirType
<1>5. RecordsShaped'
  BY Zenon, <1>f DEF RecordsShaped, DirType
<1>6. RowsShaped'
  BY Zenon, <1>f DEF RowsShaped, RowsClaimed, DirType
<1>7. IndexShaped'
  BY Zenon, <1>f DEF IndexShaped, DirType
<1>8. SessionsCurrent'
  BY Zenon, <1>f DEF SessionsCurrent, RecordsShaped, RowsShaped, DirType, Registered
<1>9. expiry' \subseteq live' /\ ready' \subseteq live'
  BY Zenon, <1>f DEF RecordsLive, DirType
<1>10. StaysFenced
  BY Zenon, <1>f DEF StaysFenced, RecordsLive, DirType
<1>cap. CapacityExact'
  <2>1. ClaimsSame
    BY Zenon, <1>f DEF ClaimsSame, ClaimsOf, DirType
  <2>2. LeasesSame
    BY Zenon, <1>f DEF LeasesSame, LeasedTo, DirType
  <2> QED
    BY Zenon, <2>1, <2>2, Counted
<1> QED
  BY Zenon, <1>0, <1>1, <1>2, <1>3, <1>4, <1>5, <1>6, <1>7, <1>8, <1>9, <1>10, <1>cap

\* FinalizeClaim.
LEMMA FinalizeKeeps ==
  ASSUME DirInv, NEW c \in Claims, NEW n \in Leases, Finalizable(c), FinalizeClaim(c, n),
         made' = made, UNCHANGED runnerVars
  PROVE  DirInv' /\ StaysFenced
<1>f. \A d \in live : /\ d \in Claims /\ debt[d].task \in Tasks /\ debt[d].runner \in Runners
                       /\ debt[d].state \notin {"none", "finalized"} /\ d <= made
  BY Zenon, LiveFacts
<1> USE Numbers DEF DirInv, LedgerMatches, Shape, runnerVars, FinalizeClaim, Finalizable, Turned
<1>0. c \in live /\ row[debt[c].task].claim = c /\ row[debt[c].task].state = "claimed"
  BY Zenon, <1>f DEF Owns
<1>1. debt[c].task \in Tasks /\ debt[c].runner \in Runners
  BY Zenon, <1>f, <1>0 DEF RecordsShaped, RecordsLive, Uncertain
<1>2. DirType'
  BY CounterLess, <1>f, <1>0, <1>1 DEF DirType, Rows, Debts, RowStates, DebtStates
<1>3. ClaimsOwned'
  BY <1>f, <1>0, <1>1 DEF ClaimsOwned, Owns, DirType, Uncertain
<1>4. RecordsLive'
  BY Zenon, <1>f, <1>0, <1>1 DEF RecordsLive, DirType, Uncertain
<1>5. RowsClaimed'
  BY Zenon, <1>f, <1>0, <1>1 DEF RowsClaimed, DirType, Uncertain
<1>6. LanesExact'
  BY Zenon, <1>f, <1>0, <1>1 DEF LanesExact, DirType, Uncertain
<1>7. RecordsShaped'
  BY Zenon, <1>f, <1>0, <1>1 DEF RecordsShaped, DirType, Uncertain
<1>8. RowsShaped'
  BY <1>f, <1>0, <1>1 DEF RowsShaped, RowsClaimed, DirType, Uncertain
<1>9. IndexShaped'
  BY <1>f, <1>0, <1>1 DEF IndexShaped, DirType, Uncertain
<1>10. SessionsCurrent'
  BY Zenon, <1>f, <1>0, <1>1 DEF SessionsCurrent, RecordsShaped, RowsShaped, DirType, Registered, Uncertain
<1>11. expiry' \subseteq live' /\ ready' \subseteq live'
  BY Zenon, <1>f, <1>0, <1>1 DEF RecordsLive, DirType, Uncertain
<1>12. StaysFenced
  BY Zenon, <1>f, <1>0, <1>1 DEF StaysFenced, RecordsLive, DirType, Uncertain
<1>cap. CapacityExact'
  <2> DEFINE r == debt[c].runner
             t == debt[c].task
  <2>1. \A q \in Runners : ClaimsOf(q)' = IF q = r THEN ClaimsOf(q) \ {c} ELSE ClaimsOf(q)
    BY Zenon, <1>f, <1>0 DEF ClaimsOf, DirType
  <2>2. \A q \in Runners : LeasedTo(q)' = IF q = r THEN LeasedTo(q) \cup {t} ELSE LeasedTo(q)
    BY Zenon, <1>0, <1>1 DEF LeasedTo, DirType
  <2>3. c \in ClaimsOf(r) /\ t \notin LeasedTo(r) /\ IsFiniteSet(ClaimsOf(r)) /\ IsFiniteSet(LeasedTo(r))
    BY Zenon, <1>0, Countable DEF ClaimsOf, LeasedTo
  <2>4. /\ Cardinality(ClaimsOf(r)) \in Nat \ {0}
        /\ Cardinality(ClaimsOf(r) \ {c}) = Less(Cardinality(ClaimsOf(r)))
    BY Zenon, <2>3, OneLess
  <2>5. Cardinality(LeasedTo(r) \cup {t}) = Cardinality(LeasedTo(r)) + 1
    BY Zenon, <2>3, FS_AddElement
  <2>6. claims' = [claims EXCEPT ![r] = Less(@)] /\ leases' = [leases EXCEPT ![r] = @ + 1]
    OBVIOUS
  <2>7. ASSUME NEW q \in Runners
        PROVE  /\ claims'[q] = Cardinality(ClaimsOf(q)') /\ leases'[q] = Cardinality(LeasedTo(q)')
               /\ claims'[q] + leases'[q] <= Capacity
    <3>1. CASE q = r
      <4>1. /\ claims[q] = Cardinality(ClaimsOf(q)) /\ leases[q] = Cardinality(LeasedTo(q))
            /\ claims[q] + leases[q] <= Capacity /\ leases[q] \in Nat /\ claims[q] \in Nat \ {0}
        BY Zenon, <3>1, <2>4 DEF CapacityExact, DirType
      <4>2. claims'[q] = claims[q] - 1 /\ leases'[q] = leases[q] + 1
        BY <3>1, <4>1, <2>6 DEF Less, DirType
      <4>3. /\ Cardinality(ClaimsOf(q)') = claims[q] - 1
            /\ Cardinality(LeasedTo(q)') = leases[q] + 1
        <5>1. ClaimsOf(q)' = ClaimsOf(r) \ {c} /\ LeasedTo(q)' = LeasedTo(r) \cup {t}
          BY Zenon, <3>1, <2>1, <2>2
        <5>2. Less(claims[q]) = claims[q] - 1
          BY <4>1 DEF Less
        <5> QED
          BY Zenon, <3>1, <4>1, <5>1, <5>2, <2>4, <2>5
      <4> QED
        BY <4>1, <4>2, <4>3, LedgerAssumption
    <3>2. CASE q # r
      BY Zenon, <3>2, <2>1, <2>2, <2>6 DEF CapacityExact, DirType
    <3> QED
      BY Zenon, <3>1, <3>2
  <2> QED
    BY Zenon, <2>7 DEF CapacityExact
<1> QED
  BY Zenon, <1>2, <1>3, <1>4, <1>5, <1>6, <1>7, <1>8, <1>9, <1>10, <1>11, <1>12, <1>cap

\* SettleHandoff, with either disposition.
LEMMA SettleKeeps ==
  ASSUME DirInv, NEW c \in Claims, NEW d, Settleable(c), SettleHandoff(c, d),
         made' = made, UNCHANGED runnerVars
  PROVE  DirInv' /\ StaysFenced
<1>f. \A e \in live : /\ e \in Claims /\ debt[e].task \in Tasks /\ debt[e].runner \in Runners
                       /\ debt[e].state \notin {"none", "finalized"} /\ e <= made
  BY Zenon, LiveFacts
<1> USE Numbers DEF DirInv, LedgerMatches, Shape, runnerVars, SettleHandoff, Settleable, Forget, Requeued, NoRow, NoDebt
<1>0. c \in live /\ row[debt[c].task].claim = c /\ row[debt[c].task].state = "claimed"
  BY Zenon, <1>f DEF ClaimsOwned, Owns
<1>1. debt[c].task \in Tasks /\ debt[c].runner \in Runners
  BY Zenon, <1>f, <1>0 DEF RecordsShaped, RecordsLive, Uncertain
<1>2. DirType'
  BY Zenon, CounterLess, <1>f, <1>0, <1>1 DEF DirType, Rows, Debts, RowStates, DebtStates
<1>3. ClaimsOwned'
  BY <1>f, <1>0, <1>1 DEF ClaimsOwned, Owns, DirType, Uncertain
<1>4. RecordsLive'
  BY Zenon, <1>f, <1>0, <1>1 DEF RecordsLive, DirType, Uncertain
<1>5. RowsClaimed'
  BY Zenon, <1>f, <1>0, <1>1 DEF RowsClaimed, DirType, Uncertain
<1>6. LanesExact'
  BY Zenon, <1>f, <1>0, <1>1 DEF LanesExact, DirType, Uncertain
<1>7. RecordsShaped'
  BY Zenon, <1>f, <1>0, <1>1 DEF RecordsShaped, DirType, Uncertain
<1>8. RowsShaped'
  BY <1>f, <1>0, <1>1 DEF RowsShaped, RowsClaimed, DirType, Uncertain
<1>9. IndexShaped'
  BY <1>f, <1>0, <1>1 DEF IndexShaped, DirType, Uncertain
<1>10. SessionsCurrent'
  BY Zenon, <1>f, <1>0, <1>1 DEF SessionsCurrent, RecordsShaped, RowsShaped, DirType, Registered, Uncertain
<1>11. expiry' \subseteq live' /\ ready' \subseteq live'
  BY Zenon, <1>f, <1>0, <1>1 DEF RecordsLive, DirType, Uncertain
<1>12. StaysFenced
  BY Zenon, <1>f, <1>0, <1>1 DEF StaysFenced, RecordsLive, DirType, Uncertain
<1>cap. CapacityExact'
  <2>1. ClaimsDrop
    <3>1. debt[c].runner \in Runners /\ c \in ClaimsOf(debt[c].runner)
      BY Zenon, <1>0, <1>1 DEF ClaimsOf
    <3>2. claims' = [claims EXCEPT ![debt[c].runner] = Less(@)]
      BY Zenon, <1>0
    <3>3. \A q \in Runners : ClaimsOf(q)' = IF q = debt[c].runner THEN ClaimsOf(q) \ {c} ELSE ClaimsOf(q)
      BY Zenon, <1>f DEF ClaimsOf, DirType
    <3> QED
      BY Zenon, <3>1, <3>2, <3>3 DEF ClaimsDrop
  <2>2. LeasesSame
    BY Zenon, <1>0, <1>1 DEF LeasesSame, LeasedTo, DirType
  <2> QED
    BY Zenon, <2>1, <2>2, Counted
<1> QED
  BY Zenon, <1>2, <1>3, <1>4, <1>5, <1>6, <1>7, <1>8, <1>9, <1>10, <1>11, <1>12, <1>cap

\* What SettleFinalizedHandoff does to the ledger: nothing, or one record goes.
LEMMA SettledShape ==
  ASSUME DirInv, NEW t \in Tasks, NEW n, SettleFinalized(t, n)
  PROVE  /\ live' = live /\ expiry' = expiry /\ ready' = ready
         /\ \/ debt' = debt /\ index' = index
            \/ /\ index[t] \in Claims \ live /\ index' = [index EXCEPT ![t] = 0]
               /\ debt' = [debt EXCEPT ![index[t]] = NoDebt]
<1> USE DEF DirInv, DirType
<1>1. CASE SettledDebt(t, n) = {}
  BY Zenon, <1>1 DEF SettleFinalized
<1>2. CASE SettledDebt(t, n) # {}
  <2>1. index[t] \in Claims /\ debt[index[t]].state = "finalized" /\ SettledDebt(t, n) = {index[t]}
    BY Zenon, <1>2 DEF SettledDebt
  <2>2. index[t] \notin live
    BY Zenon, <2>1, LiveFacts
  <2>3. debt' = [debt EXCEPT ![index[t]] = NoDebt]
    BY Zenon, <2>1 DEF SettleFinalized
  <2> QED
    BY Zenon, <1>2, <2>1, <2>2, <2>3 DEF SettleFinalized
<1> QED
  BY Zenon, <1>1, <1>2

\* SettleFinalizedHandoff.
LEMMA SettleFinalizedKeeps ==
  ASSUME DirInv, NEW t \in Tasks, NEW n, SettleFinalized(t, n),
         UNCHANGED <<row, queue, meta, claims, leases>>, made' = made, UNCHANGED runnerVars
  PROVE  DirInv' /\ StaysFenced
<1>f. \A d \in live : /\ d \in Claims /\ debt[d].task \in Tasks /\ debt[d].runner \in Runners
                       /\ debt[d].state \notin {"none", "finalized"} /\ d <= made
  BY Zenon, LiveFacts
<1> USE Numbers DEF DirInv, LedgerMatches, Shape, runnerVars, NoDebt
<1>0. live' = live /\ expiry' = expiry /\ ready' = ready
      /\ \/ debt' = debt /\ index' = index
         \/ /\ index[t] \in Claims \ live /\ index' = [index EXCEPT ![t] = 0]
            /\ debt' = [debt EXCEPT ![index[t]] = NoDebt]
  BY Zenon, <1>f, SettledShape
<1>1. \A d \in live : debt'[d] = debt[d]
  BY Zenon, <1>f, <1>0 DEF DirType
<1>2. DirType'
  BY CounterLess, <1>f, <1>0, <1>1 DEF DirType, Rows, Debts, RowStates, DebtStates
<1>3. ClaimsOwned'
  BY <1>f, <1>0, <1>1 DEF ClaimsOwned, Owns, DirType, Uncertain, RecordsLive
<1>4. RecordsLive'
  BY <1>f, <1>0, <1>1 DEF RecordsLive, DirType, Uncertain, RecordsLive
<1>5. RowsClaimed'
  BY ZenonT(60), <1>f, <1>0, <1>1 DEF RowsClaimed, DirType, Uncertain, RecordsLive
<1>6. LanesExact'
  BY Zenon, <1>f, <1>0, <1>1 DEF LanesExact, DirType, Uncertain, RecordsLive
<1>7. RecordsShaped'
  BY <1>f, <1>0, <1>1 DEF RecordsShaped, DirType, Uncertain, RecordsLive
<1>8. RowsShaped'
  BY ZenonT(60), <1>f, <1>0, <1>1 DEF RowsShaped, RowsClaimed, DirType, Uncertain, RecordsLive
<1>9. IndexShaped'
  BY <1>f, <1>0, <1>1 DEF IndexShaped, DirType, Uncertain, RecordsLive
<1>10. SessionsCurrent'
  BY <1>f, <1>0, <1>1 DEF SessionsCurrent, RecordsShaped, RowsShaped, DirType, Registered, Uncertain, RecordsLive
<1>11. expiry' \subseteq live' /\ ready' \subseteq live'
  BY Zenon, <1>f, <1>0, <1>1 DEF RecordsLive, DirType, Uncertain, RecordsLive
<1>12. StaysFenced
  BY Zenon, <1>f, <1>0, <1>1 DEF StaysFenced, RecordsLive, DirType, Uncertain, RecordsLive
<1>cap. CapacityExact'
  <2>1. ClaimsSame
    <3>1. live' = live /\ claims' = claims
      BY Zenon, <1>0
    <3> QED
      BY Zenon, <3>1, <1>1 DEF ClaimsSame, ClaimsOf
  <2>2. LeasesSame
    BY Zenon, <1>f DEF LeasesSame, LeasedTo, DirType
  <2> QED
    BY Zenon, <2>1, <2>2, Counted
<1> QED
  BY Zenon, <1>2, <1>3, <1>4, <1>5, <1>6, <1>7, <1>8, <1>9, <1>10, <1>11, <1>12, <1>cap

\* ReleaseLeased, of a lease that matches.
LEMMA ReleaseKeeps ==
  ASSUME DirInv, NEW r, NEW t \in Tasks, NEW n, NEW b \in BOOLEAN, ReleaseLeased(r, t, n, b),
         row[t].state = "leased" /\ row[t].runner = r /\ row[t].lease = n,
         made' = made, UNCHANGED runnerVars
  PROVE  DirInv' /\ StaysFenced
<1>f. \A d \in live : /\ d \in Claims /\ debt[d].task \in Tasks /\ debt[d].runner \in Runners
                       /\ debt[d].state \notin {"none", "finalized"} /\ d <= made
  BY Zenon, LiveFacts
<1> USE Numbers DEF DirInv, LedgerMatches, Shape, runnerVars, ReleaseLeased, NoDebt, NoRow
<1>0. live' = live /\ expiry' = expiry /\ ready' = ready
      /\ \/ debt' = debt /\ index' = index
         \/ /\ index[t] \in Claims \ live /\ index' = [index EXCEPT ![t] = 0]
            /\ debt' = [debt EXCEPT ![index[t]] = NoDebt]
  BY Zenon, <1>f, SettledShape
<1>1. \A d \in live : debt'[d] = debt[d]
  BY Zenon, <1>f, <1>0 DEF DirType
<1>2. DirType'
  BY CounterLess, <1>f, <1>0, <1>1 DEF DirType, Rows, Debts, RowStates, DebtStates
<1>3. ClaimsOwned'
  BY <1>f, <1>0, <1>1 DEF ClaimsOwned, Owns, DirType, Uncertain, RecordsLive
<1>4. RecordsLive'
  BY <1>f, <1>0, <1>1 DEF RecordsLive, DirType, Uncertain, RecordsLive
<1>5. RowsClaimed'
  BY <1>f, <1>0, <1>1 DEF RowsClaimed, DirType, Uncertain, RecordsLive
<1>6. LanesExact'
  BY <1>f, <1>0, <1>1 DEF LanesExact, DirType, Uncertain, RecordsLive
<1>7. RecordsShaped'
  BY <1>f, <1>0, <1>1 DEF RecordsShaped, DirType, Uncertain, RecordsLive
<1>8. RowsShaped'
  BY <1>f, <1>0, <1>1 DEF RowsShaped, RowsClaimed, DirType, Uncertain, RecordsLive
<1>9. IndexShaped'
  BY <1>f, <1>0, <1>1 DEF IndexShaped, DirType, Uncertain, RecordsLive
<1>10. SessionsCurrent'
  <2>1. ASSUME NEW d \in Claims, debt'[d].state # "none" PROVE debt'[d] = debt[d]
    BY <1>0, <2>1 DEF DirType
  <2>2. ASSUME NEW u \in Tasks, row'[u].state \in {"claimed", "leased"} PROVE row'[u] = row[u]
    BY <1>f, <2>2 DEF DirType
  <2>3. session' = session /\ health' = health
    BY Zenon
  <2>q. QED
    BY Zenon, <2>1, <2>2, <2>3 DEF SessionsCurrent, Registered
<1>11. expiry' \subseteq live' /\ ready' \subseteq live'
  BY Zenon, <1>f, <1>0, <1>1 DEF RecordsLive, DirType, Uncertain, RecordsLive
<1>12. StaysFenced
  BY Zenon, <1>f, <1>0, <1>1 DEF StaysFenced, RecordsLive, DirType, Uncertain, RecordsLive
<1>cap. CapacityExact'
  <2>1. ClaimsSame
    BY <1>f, <1>0, <1>1 DEF ClaimsSame, ClaimsOf, DirType
  <2>2. LeasesDrop
    <3>1. row[t].runner \in Runners /\ t \in LeasedTo(row[t].runner)
      BY Zenon DEF LeasedTo, RowsShaped
    <3>2. leases' = [leases EXCEPT ![row[t].runner] = Less(@)]
      OBVIOUS
    <3>3. \A q \in Runners : LeasedTo(q)' = IF q = row[t].runner THEN LeasedTo(q) \ {t} ELSE LeasedTo(q)
      BY DEF LeasedTo, DirType
    <3> QED
      BY Zenon, <3>1, <3>2, <3>3 DEF LeasesDrop
  <2> QED
    BY Zenon, <2>1, <2>2, Counted
<1> QED
  BY Zenon, <1>2, <1>3, <1>4, <1>5, <1>6, <1>7, <1>8, <1>9, <1>10, <1>11, <1>12, <1>cap

\* ReleaseExpiredLease.
LEMMA ReleaseExpiredKeeps ==
  ASSUME DirInv, NEW t \in Tasks, row[t].state = "leased", ReleaseExpired(t),
         made' = made, UNCHANGED runnerVars
  PROVE  DirInv' /\ StaysFenced
<1>f. \A d \in live : /\ d \in Claims /\ debt[d].task \in Tasks /\ debt[d].runner \in Runners
                       /\ debt[d].state \notin {"none", "finalized"} /\ d <= made
  BY Zenon, LiveFacts
<1> USE Numbers DEF DirInv, LedgerMatches, Shape, runnerVars, ReleaseExpired, NoRow, ledgerVars
<1>0. DirType'
  BY Zenon, CounterLess, <1>f DEF DirType, Rows, Debts, RowStates, DebtStates
<1>1. ClaimsOwned'
  BY Zenon, <1>f DEF ClaimsOwned, Owns, DirType
<1>2. RecordsLive'
  BY Zenon, <1>f DEF RecordsLive, DirType
<1>3. RowsClaimed'
  BY Zenon, <1>f DEF RowsClaimed, DirType
<1>4. LanesExact'
  BY Zenon, <1>f DEF LanesExact, DirType
<1>5. RecordsShaped'
  BY Zenon, <1>f DEF RecordsShaped, DirType
<1>6. RowsShaped'
  BY Zenon, <1>f DEF RowsShaped, RowsClaimed, DirType
<1>7. IndexShaped'
  BY Zenon, <1>f DEF IndexShaped, DirType
<1>8. SessionsCurrent'
  BY Zenon, <1>f DEF SessionsCurrent, RecordsShaped, RowsShaped, DirType, Registered
<1>9. expiry' \subseteq live' /\ ready' \subseteq live'
  BY Zenon, <1>f DEF RecordsLive, DirType
<1>10. StaysFenced
  BY Zenon, <1>f DEF StaysFenced, RecordsLive, DirType
<1>cap. CapacityExact'
  <2>1. ClaimsSame
    BY Zenon, <1>f DEF ClaimsSame, ClaimsOf, DirType
  <2>2. LeasesDrop
    <3>1. row[t].runner \in Runners /\ t \in LeasedTo(row[t].runner)
      BY Zenon DEF LeasedTo, RowsShaped
    <3>2. leases' = [leases EXCEPT ![row[t].runner] = Less(@)]
      OBVIOUS
    <3>3. \A q \in Runners : LeasedTo(q)' = IF q = row[t].runner THEN LeasedTo(q) \ {t} ELSE LeasedTo(q)
      BY Zenon DEF LeasedTo, DirType
    <3> QED
      BY Zenon, <3>1, <3>2, <3>3 DEF LeasesDrop
  <2> QED
    BY Zenon, <2>1, <2>2, Counted
<1> QED
  BY Zenon, <1>0, <1>1, <1>2, <1>3, <1>4, <1>5, <1>6, <1>7, <1>8, <1>9, <1>10, <1>cap

\* ClearAssignment, whatever the row.
LEMMA ClearKeeps ==
  ASSUME DirInv, NEW t \in Tasks, ClearAssignment(t),
         made' = made, UNCHANGED runnerVars
  PROVE  DirInv' /\ StaysFenced
<1>f. \A d \in live : /\ d \in Claims /\ debt[d].task \in Tasks /\ debt[d].runner \in Runners
                       /\ debt[d].state \notin {"none", "finalized"} /\ d <= made
  BY Zenon, LiveFacts
<1> USE Numbers DEF DirInv, LedgerMatches, Shape, runnerVars, ClearAssignment, NoRow, NoDebt
<1>0. row[t].claim # 0 => row[t].state = "claimed" /\ row[t].claim \in live /\ index[t] = row[t].claim
  BY Zenon, <1>f DEF RowsShaped, RowsClaimed, ClaimsOwned
<1>1. index[t] \in live => row[t].claim = index[t]
  BY ZenonT(60), <1>f DEF ClaimsOwned, Owns, IndexShaped, DirType
<1>2. \A u \in Tasks \ {t} : row[u].state = "claimed" => row[u].claim \in live /\ row[u].claim \notin {row[t].claim, index[t]}
  BY <1>f, <1>0 DEF RowsClaimed, IndexShaped, DirType
<1>3. \A x \in Claims : debt'[x] = IF x = index[t] THEN NoDebt ELSE debt[x]
  BY Zenon, <1>f DEF ClearAssignment
<1>4. DirType'
  BY Zenon, CounterLess, <1>f, <1>0, <1>1, <1>2, <1>3 DEF DirType, Rows, Debts, RowStates, DebtStates
<1>5. ClaimsOwned'
  BY SMTT(30), <1>f, <1>0, <1>1, <1>2, <1>3 DEF ClaimsOwned, Owns, DirType, IndexShaped, Uncertain
<1>6. RecordsLive'
  BY SMTT(30), <1>f, <1>0, <1>1, <1>2, <1>3 DEF RecordsLive, DirType, Uncertain
<1>7. RowsClaimed'
  BY Zenon, <1>f, <1>0, <1>1, <1>2, <1>3 DEF RowsClaimed, DirType
<1>8. LanesExact'
  BY Zenon, <1>f, <1>0, <1>1, <1>2, <1>3 DEF LanesExact, DirType
<1>9. RecordsShaped'
  BY Zenon, <1>f, <1>0, <1>1, <1>2, <1>3 DEF RecordsShaped, DirType
<1>10. RowsShaped'
  BY Zenon, <1>f, <1>0, <1>1, <1>2, <1>3 DEF RowsShaped, DirType
<1>11. IndexShaped'
  BY <1>f, <1>0, <1>1, <1>2, <1>3 DEF IndexShaped, DirType
<1>12. SessionsCurrent'
  BY Zenon, <1>f, <1>0, <1>1, <1>2, <1>3 DEF SessionsCurrent, RecordsShaped, RowsShaped, DirType, Registered
<1>13. expiry' \subseteq live' /\ ready' \subseteq live'
  BY Zenon, <1>f, <1>0, <1>1, <1>2, <1>3 DEF DirType
<1>14. StaysFenced
  BY Zenon, <1>f, <1>0, <1>1, <1>2, <1>3 DEF StaysFenced, DirType
<1>cap. CapacityExact'
  <2> DEFINE r == row[t].runner
             c == row[t].claim
  <2>1. ClaimsSame \/ ClaimsDrop
    <3>1. CASE c = 0
      <4>1. live' = live /\ claims' = claims
        BY Zenon, <3>1, <1>f
      <4>2. \A d \in live : d # index[t] /\ debt'[d] = debt[d]
        BY Zenon, <3>1, <1>f, <1>1, <1>3
      <4> QED
        BY Zenon, <4>1, <4>2 DEF ClaimsSame, ClaimsOf
    <3>2. CASE c # 0
      <4>1. r \in Runners /\ c \in ClaimsOf(r) /\ r = debt[c].runner
        BY Zenon, <3>2, <1>0, <1>f DEF ClaimsOf, RowsShaped
      <4>2. claims' = [claims EXCEPT ![r] = Less(@)]
        BY Zenon, <3>2
      <4>3. \A q \in Runners : ClaimsOf(q)' = IF q = r THEN ClaimsOf(q) \ {c} ELSE ClaimsOf(q)
        <5>1. live' = live \ {c} /\ \A d \in live \ {c} : debt'[d] = debt[d]
          BY Zenon, <3>2, <1>0, <1>3, <1>f
        <5> QED
          BY SMTT(30), <5>1, <4>1 DEF ClaimsOf
      <4> QED
        BY Zenon, <4>1, <4>2, <4>3 DEF ClaimsDrop
    <3> QED
      BY Zenon, <3>1, <3>2
  <2>2. LeasesSame \/ LeasesDrop
    <3>1. CASE row[t].state # "leased"
      BY Zenon, <3>1 DEF LeasesSame, LeasedTo, DirType
    <3>2. CASE row[t].state = "leased"
      <4>1. r \in Runners /\ t \in LeasedTo(r)
        BY Zenon, <3>2 DEF LeasedTo, RowsShaped
      <4>2. leases' = [leases EXCEPT ![r] = Less(@)]
        BY Zenon, <3>2
      <4>3. \A q \in Runners : LeasedTo(q)' = IF q = r THEN LeasedTo(q) \ {t} ELSE LeasedTo(q)
        BY Zenon, <3>2 DEF LeasedTo, DirType
      <4> QED
        BY Zenon, <4>1, <4>2, <4>3 DEF LeasesDrop
    <3> QED
      BY Zenon, <3>1, <3>2
  <2> QED
    BY Zenon, <2>1, <2>2, Counted
<1> QED
  BY Zenon, <1>4, <1>5, <1>6, <1>7, <1>8, <1>9, <1>10, <1>11, <1>12, <1>13, <1>14, <1>cap

\* One claim of RecoverExpiredClaims.
LEMMA ReclaimKeeps ==
  ASSUME DirInv, NEW c \in Claims, c \in live, ReclaimClaim(c),
         made' = made, UNCHANGED runnerVars
  PROVE  DirInv' /\ StaysFenced
<1>f. \A d \in live : /\ d \in Claims /\ debt[d].task \in Tasks /\ debt[d].runner \in Runners
                       /\ debt[d].state \notin {"none", "finalized"} /\ d <= made
  BY Zenon, LiveFacts
<1> USE Numbers DEF DirInv, LedgerMatches, Shape, runnerVars, ReclaimClaim, Forget, Requeued, NoRow, NoDebt
<1>0. Owns(c) /\ row[debt[c].task].claim = c /\ row[debt[c].task].state = "claimed"
  BY Zenon, <1>f DEF ClaimsOwned, Owns
<1>1. debt[c].task \in Tasks /\ debt[c].runner \in Runners
  BY Zenon, <1>f DEF RecordsShaped, RecordsLive, Uncertain
<1>2. DirType'
  BY CounterLess, <1>f, <1>0, <1>1 DEF DirType, Rows, Debts, RowStates, DebtStates
<1>3. ClaimsOwned'
  BY <1>f, <1>0, <1>1 DEF ClaimsOwned, Owns, DirType, Uncertain
<1>4. RecordsLive'
  BY <1>f, <1>0, <1>1 DEF RecordsLive, DirType, Uncertain
<1>5. RowsClaimed'
  BY <1>f, <1>0, <1>1 DEF RowsClaimed, DirType, Uncertain
<1>6. LanesExact'
  BY <1>f, <1>0, <1>1 DEF LanesExact, DirType, Uncertain
<1>7. RecordsShaped'
  BY <1>f, <1>0, <1>1 DEF RecordsShaped, DirType, Uncertain
<1>8. RowsShaped'
  BY SMTT(30), <1>f, <1>0, <1>1 DEF RowsShaped, RowsClaimed, DirType, Uncertain
<1>9. IndexShaped'
  BY <1>f, <1>0, <1>1 DEF IndexShaped, DirType, Uncertain
<1>10. SessionsCurrent'
  <2>1. ASSUME NEW d \in Claims, debt'[d].state # "none" PROVE debt'[d] = debt[d]
    BY <1>f, <2>1 DEF DirType
  <2>2. ASSUME NEW u \in Tasks, row'[u].state \in {"claimed", "leased"} PROVE row'[u] = row[u]
    BY <1>f, <2>2 DEF DirType
  <2>3. session' = session /\ health' = health
    BY Zenon
  <2>q. QED
    BY Zenon, <2>1, <2>2, <2>3 DEF SessionsCurrent, Registered
<1>11. expiry' \subseteq live' /\ ready' \subseteq live'
  BY <1>f, <1>0, <1>1 DEF RecordsLive, DirType, Uncertain
<1>12. StaysFenced
  BY Zenon, <1>f, <1>0, <1>1 DEF StaysFenced, RecordsLive, DirType, Uncertain
<1>cap. CapacityExact'
  <2>1. CASE debt[c].state \in Uncertain
    <3>1. ClaimsSame
      BY Zenon, <2>1 DEF ClaimsSame, ClaimsOf
    <3>2. LeasesSame
      BY Zenon, <2>1 DEF LeasesSame, LeasedTo
    <3> QED
      BY Zenon, <3>1, <3>2, Counted
  <2>2. CASE debt[c].state \notin Uncertain
    <3>1. ClaimsDrop
      <4>1. debt[c].runner \in Runners /\ c \in ClaimsOf(debt[c].runner)
        BY Zenon, <1>1 DEF ClaimsOf
      <4>2. claims' = [claims EXCEPT ![debt[c].runner] = Less(@)]
        BY Zenon, <2>2
      <4>3. \A q \in Runners : ClaimsOf(q)' = IF q = debt[c].runner THEN ClaimsOf(q) \ {c} ELSE ClaimsOf(q)
        BY <2>2, <1>f DEF ClaimsOf, DirType
      <4> QED
        BY Zenon, <4>1, <4>2, <4>3 DEF ClaimsDrop
    <3>2. LeasesSame
      BY <2>2, <1>0, <1>1 DEF LeasesSame, LeasedTo, DirType
    <3> QED
      BY Zenon, <3>1, <3>2, Counted
  <2> QED
    BY Zenon, <2>1, <2>2
<1> QED
  BY Zenon, <1>2, <1>3, <1>4, <1>5, <1>6, <1>7, <1>8, <1>9, <1>10, <1>11, <1>12, <1>cap

\* A dead queued assignment is removed.
LEMMA ReapQueuedKeeps ==
  ASSUME DirInv, NEW t \in Tasks, row[t].state = "queued", row' = [row EXCEPT ![t] = NoRow],
         queue' = queue \ {t}, UNCHANGED <<meta, ledgerVars, claims, leases>>, made' = made, UNCHANGED runnerVars
  PROVE  DirInv' /\ StaysFenced
<1>f. \A d \in live : /\ d \in Claims /\ debt[d].task \in Tasks /\ debt[d].runner \in Runners
                       /\ debt[d].state \notin {"none", "finalized"} /\ d <= made
  BY Zenon, LiveFacts
<1> USE Numbers DEF DirInv, LedgerMatches, Shape, runnerVars, NoRow, ledgerVars
<1>0. DirType'
  BY Zenon, CounterLess, <1>f DEF DirType, Rows, Debts, RowStates, DebtStates
<1>1. ClaimsOwned'
  BY Zenon, <1>f DEF ClaimsOwned, Owns, DirType
<1>2. RecordsLive'
  BY Zenon, <1>f DEF RecordsLive, DirType
<1>3. RowsClaimed'
  BY Zenon, <1>f DEF RowsClaimed, DirType
<1>4. LanesExact'
  BY Zenon, <1>f DEF LanesExact, DirType
<1>5. RecordsShaped'
  BY Zenon, <1>f DEF RecordsShaped, DirType
<1>6. RowsShaped'
  BY Zenon, <1>f DEF RowsShaped, RowsClaimed, DirType
<1>7. IndexShaped'
  BY Zenon, <1>f DEF IndexShaped, DirType
<1>8. SessionsCurrent'
  BY Zenon, <1>f DEF SessionsCurrent, RecordsShaped, RowsShaped, DirType, Registered
<1>9. expiry' \subseteq live' /\ ready' \subseteq live'
  BY Zenon, <1>f DEF RecordsLive, DirType
<1>10. StaysFenced
  BY Zenon, <1>f DEF StaysFenced, RecordsLive, DirType
<1>cap. CapacityExact'
  <2>1. ClaimsSame
    BY Zenon, <1>f DEF ClaimsSame, ClaimsOf, DirType
  <2>2. LeasesSame
    BY Zenon, <1>f DEF LeasesSame, LeasedTo, DirType
  <2> QED
    BY Zenon, <2>1, <2>2, Counted
<1> QED
  BY Zenon, <1>0, <1>1, <1>2, <1>3, <1>4, <1>5, <1>6, <1>7, <1>8, <1>9, <1>10, <1>cap


\* RegisterRunner.
LEMMA RegisterKeeps ==
  ASSUME DirInv, NEW r \in Runners, NEW s \in Sessions, RegisterRunner(r, s),
         session' = [session EXCEPT ![r] = s], health' = [health EXCEPT ![r] = "live"], made' = made
  PROVE  DirInv' /\ StaysFenced
<1> DEFINE back(t) == row[t].state = "claimed" /\ row[t].claim \in live /\ row[t].runner = r
                      /\ debt[row[t].claim].state \notin Uncertain
           mine(t) == row[t].state \in {"claimed", "leased"} /\ row[t].runner = r /\ ~back(t)
           fresh(c) == c \in live /\ debt[c].runner = r /\ debt[c].state \notin Uncertain
<1>f. \A d \in live : /\ d \in Claims /\ debt[d].task \in Tasks /\ debt[d].runner \in Runners
                       /\ debt[d].state \notin {"none", "finalized"} /\ d <= made
  BY Zenon, LiveFacts
<1>b. /\ \A x \in Rows : /\ Rebound(x, s) \in Rows /\ Rebound(x, s).state = x.state
                          /\ Rebound(x, s).claim = x.claim /\ Rebound(x, s).runner = x.runner
                          /\ Rebound(x, s).session = s
      /\ \A x \in Debts : /\ Rebound(x, s) \in Debts /\ Rebound(x, s).state = x.state
                           /\ Rebound(x, s).task = x.task /\ Rebound(x, s).runner = x.runner
                           /\ Rebound(x, s).session = s
  BY Zenon DEF Rebound, Rows, Debts
<1> USE Numbers DEF DirInv, LedgerMatches, Shape
<1>1. /\ DOMAIN row' = Tasks /\ row' = [t \in Tasks |-> row'[t]]
      /\ \A t \in Tasks : row'[t] = IF back(t) THEN Requeued(t)
                                  ELSE IF mine(t) THEN Rebound(row[t], s) ELSE row[t]
  BY Zenon, <1>f, <1>b DEF RegisterRunner, Reserved, Kept, RowsShaped, RowsClaimed
<1>2. /\ debt' = [c \in Claims |-> debt'[c]]
      /\ \A c \in Claims : debt'[c] = IF fresh(c) THEN NoDebt
                                   ELSE IF debt[c].runner = r THEN Rebound(debt[c], s) ELSE debt[c]
  BY Zenon, <1>f, <1>b DEF RegisterRunner, Reserved
<1>3. /\ live' = {c \in live : ~fresh(c)} /\ expiry' = {c \in expiry : ~fresh(c)}
      /\ \A c \in ready' : c \in live /\ ~fresh(c)
  BY Zenon, <1>f, <1>b DEF RegisterRunner, Reserved, Kept
<1>4. /\ queue' = queue \cup {t \in Tasks : back(t)}
      /\ meta' = meta /\ leases' = leases /\ claims' \in [Runners -> Nat]
  <2>1. Cardinality(Kept(r)) \in Nat
    <3>1. Kept(r) \in SUBSET ClaimsOf(r)
      BY Zenon DEF Kept, ClaimsOf
    <3> QED
      BY Zenon, <3>1, Countable, FS_Subset, FS_CardinalityType
  <2> QED
    BY <2>1, <1>f, <1>b DEF RegisterRunner, Reserved, RowsShaped, RowsClaimed, DirType
<1>5. /\ index' = [t \in Tasks |-> index'[t]]
      /\ \A t \in Tasks : index'[t] = IF back(t) THEN 0 ELSE index[t]
  <2>1. \A t \in Tasks : (\E c \in Reserved(r) : debt[c].task = t) <=> back(t)
    <3>1. \A t \in Tasks, c \in live : debt[c].task = t => row[t].claim = c /\ row[t].state = "claimed"
      BY <1>f, <1>b DEF ClaimsOwned, Owns
    <3>2. \A t \in Tasks : row[t].state = "claimed" =>
             /\ row[t].claim \in live /\ debt[row[t].claim].task = t
             /\ debt[row[t].claim].runner = row[t].runner
      BY Zenon, <1>f, <1>b DEF RowsClaimed, RowsShaped
    <3> QED
      BY <3>1, <3>2 DEF Reserved
  <2> QED
    BY Zenon, <2>1, <1>f, <1>b DEF RegisterRunner
<1>6. \A t \in Tasks : Requeued(t) \in Rows /\ Requeued(t).state = "queued" /\ Requeued(t).claim = 0
  BY Zenon, <1>f, <1>b DEF Requeued, NoRow, Rows, RowStates
<1>7. NoDebt \in Debts /\ NoDebt.state = "none"
  BY Zenon, <1>f, <1>b DEF NoDebt, Debts, DebtStates
<1>8. DirType'
  <2>1. row' \in [Tasks -> Rows]
    BY <1>1, <1>6, <1>f, <1>b DEF DirType
  <2>2. debt' \in [Claims -> Debts]
    BY <1>2, <1>7, <1>f, <1>b DEF DirType
  <2> QED
    BY Zenon, <2>1, <2>2, <1>3, <1>4, <1>5 DEF DirType
<1>9. ClaimsOwned'
  <2> SUFFICES ASSUME NEW c \in live' PROVE Owns(c)' /\ index'[debt'[c].task] = c
    BY Zenon, <1>f, <1>b DEF ClaimsOwned
  <2>1. c \in live /\ ~fresh(c) /\ debt'[c].task = debt[c].task /\ debt[c].task \in Tasks
    BY Zenon, <1>2, <1>3, <1>f, <1>b DEF DirType
  <2>2. /\ row[debt[c].task].state = "claimed" /\ row[debt[c].task].claim = c
        /\ index[debt[c].task] = c /\ ~back(debt[c].task)
    BY Zenon, <2>1 DEF ClaimsOwned, Owns, RowsShaped
  <2> QED
    BY <2>1, <2>2, <1>1, <1>5, <1>f, <1>b DEF Owns, DirType
<1>10. RecordsLive'
  BY <1>2, <1>3, <1>7, <1>f, <1>b DEF RecordsLive, DirType, Uncertain
<1>11. RowsClaimed'
  <2> SUFFICES ASSUME NEW t \in Tasks, row'[t].state = "claimed"
               PROVE  row'[t].claim \in live' /\ debt'[row'[t].claim].task = t
    BY Zenon, <1>f, <1>b DEF RowsClaimed
  <2>1. row[t].state = "claimed" /\ row'[t].claim = row[t].claim /\ ~back(t)
    BY <1>1, <1>6, <1>f, <1>b DEF DirType
  <2>2. row[t].claim \in live /\ ~fresh(row[t].claim) /\ debt[row[t].claim].task = t
    BY Zenon, <2>1, <1>f, <1>b DEF RowsClaimed, RowsShaped
  <2> QED
    BY <2>1, <2>2, <1>2, <1>3, <1>f, <1>b DEF DirType
<1>12. LanesExact'
  BY <1>1, <1>4, <1>6, <1>f, <1>b DEF LanesExact, DirType
<1>13. RecordsShaped'
  BY <1>2, <1>7, <1>f, <1>b DEF RecordsShaped, DirType
<1>14. RowsShaped'
  <2> SUFFICES ASSUME NEW t \in Tasks
               PROVE  /\ row'[t].state = "claimed" =>
                           /\ row'[t].runner = debt'[row'[t].claim].runner
                           /\ row'[t].session = debt'[row'[t].claim].session
                      /\ row'[t].state = "leased" => row'[t].runner \in Runners
                      /\ row'[t].state # "claimed" => row'[t].claim = 0
    BY Zenon, <1>f, <1>b DEF RowsShaped
  <2>1. CASE back(t)
    BY Zenon, <2>1, <1>1, <1>6
  <2>2. CASE ~back(t)
    <3>1. row'[t].state = row[t].state /\ row'[t].claim = row[t].claim /\ row'[t].runner = row[t].runner
      BY Zenon, <2>2, <1>1, <1>f, <1>b DEF DirType
    <3>2. ASSUME row[t].state = "claimed"
          PROVE  /\ row'[t].runner = debt'[row'[t].claim].runner
                 /\ row'[t].session = debt'[row'[t].claim].session
      <4>1. row[t].claim \in live /\ ~fresh(row[t].claim) /\ row[t].runner = debt[row[t].claim].runner
            /\ row[t].session = debt[row[t].claim].session
        BY Zenon, <2>2, <3>2, <1>f, <1>b DEF RowsClaimed, RowsShaped
      <4> QED
        BY <2>2, <3>1, <3>2, <4>1, <1>1, <1>2, <1>f, <1>b DEF DirType
    <3> QED
      BY Zenon, <3>1, <3>2, <1>f, <1>b DEF RowsShaped
  <2> QED
    BY Zenon, <2>1, <2>2
<1>15. IndexShaped'
  <2> SUFFICES ASSUME NEW t \in Tasks, index'[t] # 0
               PROVE  debt'[index'[t]].task = t /\ debt'[index'[t]].state # "none"
    BY Zenon, <1>f, <1>b DEF IndexShaped
  <2>1. index'[t] = index[t] /\ index[t] \in Claims /\ ~back(t)
    BY <1>5, <1>f, <1>b DEF DirType
  <2>2. ~fresh(index[t])
    BY <2>1, <1>f, <1>b DEF IndexShaped, ClaimsOwned, Owns, RowsShaped
  <2> QED
    BY <2>1, <2>2, <1>2, <1>f, <1>b DEF IndexShaped, DirType
<1>16. SessionsCurrent'
  <2>1. \A c \in Claims : debt'[c].state # "none" =>
           health'[debt'[c].runner] # "gone" /\ debt'[c].session = session'[debt'[c].runner]
    BY <1>2, <1>7, <1>f, <1>b DEF SessionsCurrent, RecordsShaped, Registered, DirType
  <2>2. \A t \in Tasks : row'[t].state \in {"claimed", "leased"} =>
           health'[row'[t].runner] # "gone" /\ row'[t].session = session'[row'[t].runner]
    BY <1>1, <1>6, <1>f, <1>b DEF SessionsCurrent, RowsShaped, Registered, DirType
  <2> QED
    BY Zenon, <2>1, <2>2, <1>f, <1>b DEF SessionsCurrent, Registered
<1>17. expiry' \subseteq live' /\ ready' \subseteq live'
  BY Zenon, <1>3
<1>18. StaysFenced
  BY <1>2, <1>3, <1>f, <1>b DEF StaysFenced, DirType
<1>cap. CapacityExact'
  <2>1. \A q \in Runners : ClaimsOf(q)' = IF q = r THEN Kept(r) ELSE ClaimsOf(q)
    BY <1>2, <1>3, <1>f, <1>b DEF ClaimsOf, Kept, DirType
  <2>2. \A q \in Runners : LeasedTo(q)' = LeasedTo(q)
    BY <1>1, <1>6, <1>b DEF LeasedTo, DirType
  <2>3. Kept(r) \in SUBSET ClaimsOf(r)
    BY Zenon DEF Kept, ClaimsOf
  <2>4. /\ IsFiniteSet(Kept(r)) /\ Cardinality(Kept(r)) \in Nat
        /\ Cardinality(Kept(r)) <= Cardinality(ClaimsOf(r))
    BY Zenon, <2>3, Countable, FS_Subset, FS_CardinalityType
  <2>5. claims' = [claims EXCEPT ![r] = Cardinality(Kept(r))] /\ leases' = leases
    BY Zenon DEF RegisterRunner
  <2>6. claims[r] \in Nat /\ leases[r] \in Nat /\ Cardinality(Kept(r)) + leases[r] <= Capacity
    BY <2>4, LedgerAssumption DEF CapacityExact, DirType
  <2> QED
    BY Zenon, <2>1, <2>2, <2>5, <2>6 DEF CapacityExact, DirType
<1> QED
  BY Zenon, <1>8, <1>9, <1>10, <1>11, <1>12, <1>13, <1>14, <1>15, <1>16, <1>17, <1>18, <1>cap

\* A metadata key expires; nothing else of the directory looks at it.
LEMMA MetaKeeps ==
  ASSUME DirInv, meta' \subseteq Tasks, UNCHANGED <<row, queue, ledgerVars, claims, leases, made, runnerVars>>
  PROVE  DirInv' /\ StaysFenced
<1> USE DEF ledgerVars, runnerVars, DirInv
<1>1. CapacityExact'
  BY Zenon, SameCounts
<1> QED
  BY Zenon, <1>1 DEF DirType, LedgerMatches, ClaimsOwned, RecordsLive, RowsClaimed, LanesExact, Owns,
         Shape, RecordsShaped, RowsShaped, IndexShaped, SessionsCurrent, Registered, StaysFenced

\* A runner's health changes; it is only forgotten when it owes nothing.
LEMMA HealthKeeps ==
  ASSUME DirInv, UNCHANGED <<dirVars, made, session>>, NEW r \in Runners,
         NEW h \in {"gone", "live", "silent", "dead"}, health' = [health EXCEPT ![r] = h], h = "gone" => ~Outstanding(r)
  PROVE  DirInv' /\ StaysFenced
<1> USE DEF dirVars, ledgerVars, DirInv
<1>1. DirType' /\ LedgerMatches' /\ Shape' /\ StaysFenced
  BY Zenon DEF DirType, LedgerMatches, ClaimsOwned, RecordsLive, RowsClaimed, LanesExact, Owns,
         Shape, RecordsShaped, RowsShaped, IndexShaped, StaysFenced
<1>2. SessionsCurrent'
  BY DEF Outstanding, SessionsCurrent, Registered, Shape, RowsShaped, RecordsShaped, RowsClaimed,
         LedgerMatches, DirType
<1>3. CapacityExact'
  BY Zenon, SameCounts
<1> QED
  BY Zenon, <1>1, <1>2, <1>3
-----------------------------------------------------------------------------
(* What the scripts do on the board.                                       *)

BoardMoves == [Board!Next]_(Board!vars)

LEMMA SameMoves ==
  ASSUME row' = row
  PROVE  BoardMoves
<1>1. \A u \in Tasks : Place(u)' = Place(u) /\ Holder(u)' = Holder(u)
  BY Zenon DEF Place, Holder
<1> QED
  BY Zenon, <1>1 DEF BoardMoves, Board!vars

LEMMA PutMoves ==
  ASSUME NEW T, NEW p, NEW h,
         \A u \in Tasks : /\ Place(u)' = IF u \in T THEN p ELSE Place(u)
                          /\ Holder(u)' = IF u \in T THEN h ELSE Holder(u)
  PROVE  Board!Put(T, p, h)
<1>1. [u \in Tasks |-> Place(u)'] = [u \in Tasks |-> IF u \in T THEN p ELSE [t \in Tasks |-> Place(t)][u]]
  BY Zenon
<1>2. [u \in Tasks |-> Holder(u)'] = [u \in Tasks |-> IF u \in T THEN h ELSE [t \in Tasks |-> Holder(t)][u]]
  BY Zenon
<1> QED
  BY Zenon, <1>1, <1>2 DEF Board!Put

\* One row is written.
LEMMA RowMoves ==
  ASSUME DirType, NEW t \in Tasks, NEW x, row' = [row EXCEPT ![t] = x], NEW p, NEW h,
         p = IF x.state \in {"none", "released"} THEN "away" ELSE x.state,
         h = IF x.state \in {"claimed", "leased"} THEN x.runner ELSE Nobody
  PROVE  \A u \in Tasks : /\ Place(u)' = IF u \in {t} THEN p ELSE Place(u)
                          /\ Holder(u)' = IF u \in {t} THEN h ELSE Holder(u)
<1> SUFFICES ASSUME NEW u \in Tasks
             PROVE  /\ Place(u)' = IF u \in {t} THEN p ELSE Place(u)
                    /\ Holder(u)' = IF u \in {t} THEN h ELSE Holder(u)
  OBVIOUS
<1>1. CASE u = t
  <2>1. row'[u] = x
    BY Zenon, <1>1 DEF DirType
  <2>2. Place(u)' = p /\ Holder(u)' = h
    BY <2>1 DEF Place, Holder
  <2> QED
    BY Zenon, <1>1, <2>2
<1>2. CASE u # t
  <2>1. row'[u] = row[u]
    BY Zenon, <1>2 DEF DirType
  <2>2. Place(u)' = Place(u) /\ Holder(u)' = Holder(u)
    BY <2>1 DEF Place, Holder
  <2> QED
    BY Zenon, <1>2, <2>2
<1> QED
  BY Zenon, <1>1, <1>2

LEMMA ClaimedHolder ==
  ASSUME DirInv, NEW t \in Tasks, row[t].state = "claimed"
  PROVE  Place(t) = "claimed" /\ Holder(t) = row[t].runner /\ Holder(t) \in Runners
<1>1. row[t].claim \in live /\ row[t].runner = debt[row[t].claim].runner
  BY Zenon DEF DirInv, LedgerMatches, RowsClaimed, Shape, RowsShaped
<1>2. row[t].runner \in Runners
  BY Zenon, <1>1, LiveFacts
<1> QED
  BY Zenon, <1>2 DEF Place, Holder

\* An assignment is offered, or a claim gives it back.
LEMMA QueuedMoves ==
  ASSUME DirInv, NEW t \in Tasks, row[t].state \in {"none", "released", "claimed"},
         row' = [row EXCEPT ![t] = Requeued(t)]
  PROVE  BoardMoves
<1>1. PICK x : x = Requeued(t)
  OBVIOUS
<1>x. /\ "queued" = IF x.state \in {"none", "released"} THEN "away" ELSE x.state
      /\ Nobody = IF x.state \in {"claimed", "leased"} THEN x.runner ELSE Nobody
  BY <1>1 DEF Requeued, NoRow
<1>2. \A u \in Tasks : /\ Place(u)' = IF u \in {t} THEN "queued" ELSE Place(u)
                       /\ Holder(u)' = IF u \in {t} THEN Nobody ELSE Holder(u)
  BY Zenon, <1>1, <1>x, RowMoves DEF DirInv
<1>3. Board!Put({t}, "queued", Nobody)
  BY Zenon, <1>2, PutMoves
<1>4. CASE row[t].state = "claimed"
  <2>1. Board!Return(Holder(t), {t})
    BY Zenon, <1>3, <1>4, ClaimedHolder DEF Board!Return
  <2> QED
    BY Zenon, <1>4, <2>1, ClaimedHolder DEF BoardMoves, Board!Next
<1>5. CASE row[t].state \in {"none", "released"}
  BY Zenon, <1>3, <1>5 DEF BoardMoves, Board!Next, Board!Offer, Place
<1> QED
  BY Zenon, <1>4, <1>5

Gone(x) == x.state \in {"none", "released"}

\* An assignment leaves the board, or was not on it.
LEMMA GoneMoves ==
  ASSUME DirInv, NEW t \in Tasks, NEW x, Gone(x), row' = [row EXCEPT ![t] = x]
  PROVE  BoardMoves
<1>x. /\ "away" = IF x.state \in {"none", "released"} THEN "away" ELSE x.state
      /\ Nobody = IF x.state \in {"claimed", "leased"} THEN x.runner ELSE Nobody
  BY DEF Gone
<1>1. \A u \in Tasks : /\ Place(u)' = IF u \in {t} THEN "away" ELSE Place(u)
                       /\ Holder(u)' = IF u \in {t} THEN Nobody ELSE Holder(u)
  BY Zenon, <1>x, RowMoves DEF DirInv
<1>2. CASE Place(t) = "away"
  <2>1. row[t].state \in {"none", "released"}
    BY Zenon, <1>2 DEF Place, DirInv, DirType, Rows, RowStates
  <2>2. Holder(t) = Nobody
    BY Zenon, <2>1 DEF Holder
  <2>3. \A u \in Tasks : Place(u)' = Place(u) /\ Holder(u)' = Holder(u)
    BY Zenon, <1>1, <1>2, <2>2
  <2> QED
    BY Zenon, <2>3 DEF BoardMoves, Board!vars
<1>3. CASE Place(t) # "away"
  <2>1. Board!Put({t}, "away", Nobody)
    BY Zenon, <1>1, PutMoves
  <2> QED
    BY Zenon, <1>3, <2>1 DEF BoardMoves, Board!Next, Board!Remove
<1> QED
  BY Zenon, <1>2, <1>3

LEMMA NoRowMoves ==
  ASSUME DirInv, NEW t \in Tasks, row' = [row EXCEPT ![t] = NoRow]
  PROVE  BoardMoves
<1>1. PICK x : x = NoRow
  OBVIOUS
<1>2. Gone(x)
  BY <1>1 DEF NoRow, Gone
<1> QED
  BY Zenon, <1>1, <1>2, GoneMoves

LEMMA ReleasedMoves ==
  ASSUME DirInv, NEW t \in Tasks, row' = [row EXCEPT ![t] = [NoRow EXCEPT !.state = "released"]]
  PROVE  BoardMoves
<1>1. PICK x : x = [NoRow EXCEPT !.state = "released"]
  BY Zenon
<1>2. Gone(x)
  BY <1>1 DEF NoRow, Gone
<1>3. row' = [row EXCEPT ![t] = x]
  BY Zenon, <1>1
<1> QED
  BY Zenon, <1>2, <1>3, GoneMoves

LEMMA FinalizeMoves ==
  ASSUME DirInv, NEW c \in live, Owns(c), NEW n, FinalizeClaim(c, n)
  PROVE  BoardMoves
<1> DEFINE t == debt[c].task
           x == [state |-> "leased", claim |-> 0, runner |-> debt[c].runner,
                 session |-> debt[c].session, lease |-> n]
<1>1. t \in Tasks /\ row[t].state = "claimed" /\ row[t].runner = debt[c].runner
  BY Zenon, LiveFacts DEF Owns, DirInv, Shape, RowsShaped
<1>2. Place(t) = "claimed" /\ Holder(t) = debt[c].runner
  BY Zenon, <1>1, ClaimedHolder
<1>3. row' = [row EXCEPT ![t] = x] /\ x.state = "leased" /\ x.runner = debt[c].runner
  BY Zenon DEF FinalizeClaim
<1> HIDE DEF t, x
<1>x. /\ "leased" = IF x.state \in {"none", "released"} THEN "away" ELSE x.state
      /\ Holder(t) = IF x.state \in {"claimed", "leased"} THEN x.runner ELSE Nobody
  BY <1>2, <1>3
<1>4. \A u \in Tasks : /\ Place(u)' = IF u \in {t} THEN "leased" ELSE Place(u)
                       /\ Holder(u)' = IF u \in {t} THEN Holder(t) ELSE Holder(u)
  BY Zenon, <1>1, <1>3, <1>x, RowMoves DEF DirInv
<1>5. Board!Put({t}, "leased", Holder(t))
  BY Zenon, <1>4, PutMoves
<1>6. Board!Lease(t)
  BY Zenon, <1>1, <1>2, <1>5 DEF Board!Lease
<1> QED
  BY Zenon, <1>1, <1>6 DEF BoardMoves, Board!Next

\* What the board says a runner has is what the counters count.
LEMMA BoardCounted ==
  ASSUME DirInv, NEW r \in Runners
  PROVE  Board!Cardinality(Board!With(r)) <= claims[r] + leases[r]
<1> DEFINE claimed == {t \in Tasks : row[t].state = "claimed" /\ row[t].runner = r}
           f == [c \in ClaimsOf(r) |-> debt[c].task]
<1>1. Board!With(r) = claimed \cup LeasedTo(r)
  BY Zenon, Numbers DEF Board!With, Holder, LeasedTo
<1>2. f \in Surjection(ClaimsOf(r), claimed)
  <2>1. \A c \in ClaimsOf(r) : f[c] \in claimed
    <3> SUFFICES ASSUME NEW c \in ClaimsOf(r) PROVE f[c] \in claimed
      OBVIOUS
    <3>1. c \in live /\ debt[c].runner = r
      BY Zenon DEF ClaimsOf
    <3>2. debt[c].task \in Tasks /\ row[debt[c].task].state = "claimed" /\ row[debt[c].task].claim = c
      BY Zenon, <3>1, LiveFacts DEF DirInv, LedgerMatches, ClaimsOwned, Owns
    <3>3. row[debt[c].task].runner = r
      BY Zenon, <3>1, <3>2 DEF DirInv, Shape, RowsShaped
    <3> QED
      BY Zenon, <3>2, <3>3
  <2>2. \A t \in claimed : row[t].claim \in ClaimsOf(r) /\ f[row[t].claim] = t
    BY Zenon DEF ClaimsOf, DirInv, LedgerMatches, RowsClaimed, Shape, RowsShaped
  <2> QED
    BY Zenon, <2>1, <2>2 DEF Surjection
<1>3. IsFiniteSet(claimed) /\ Cardinality(claimed) <= Cardinality(ClaimsOf(r))
  BY Zenon, <1>2, Countable, FS_Surjection
<1> HIDE DEF claimed
<1>4. Cardinality(claimed \cup LeasedTo(r)) =
        Cardinality(claimed) + Cardinality(LeasedTo(r)) - Cardinality(claimed \cap LeasedTo(r))
  BY Zenon, <1>3, Countable, FS_Union
<1>5. Cardinality(claimed) \in Nat /\ Cardinality(claimed \cap LeasedTo(r)) \in Nat
  BY Zenon, <1>3, FS_CardinalityType, FS_Intersection
<1>6. Cardinality(claimed \cup LeasedTo(r)) <= claims[r] + leases[r]
  <2>1. claims[r] = Cardinality(ClaimsOf(r)) /\ leases[r] = Cardinality(LeasedTo(r))
    BY Zenon DEF DirInv, CapacityExact
  <2>2. Cardinality(ClaimsOf(r)) \in Nat /\ Cardinality(LeasedTo(r)) \in Nat
    BY Zenon, Countable
  <2> QED
    BY <1>3, <1>4, <1>5, <2>1, <2>2
<1>7. Board!Cardinality(Board!With(r)) = Cardinality(Board!With(r))
  BY Zenon DEF Board!Cardinality, Cardinality
<1> QED
  BY Zenon, <1>1, <1>6, <1>7

LEMMA ClaimMoves ==
  ASSUME DirInv, NEW r \in Runners, NEW t \in Tasks, NEW c, ClaimAssignment(r, t, c)
  PROVE  BoardMoves
<1> DEFINE x == [state |-> "claimed", claim |-> c, runner |-> r, session |-> session[r], lease |-> 0]
<1>1. row[t].state = "queued" /\ row' = [row EXCEPT ![t] = x] /\ x.state = "claimed" /\ x.runner = r
  BY Zenon DEF ClaimAssignment
<1> HIDE DEF x
<1>x. /\ "claimed" = IF x.state \in {"none", "released"} THEN "away" ELSE x.state
      /\ r = IF x.state \in {"claimed", "leased"} THEN x.runner ELSE Nobody
  BY <1>1
<1>2. \A u \in Tasks : /\ Place(u)' = IF u \in {t} THEN "claimed" ELSE Place(u)
                       /\ Holder(u)' = IF u \in {t} THEN r ELSE Holder(u)
  BY Zenon, <1>1, <1>x, RowMoves DEF DirInv
<1>3. Board!Put({t}, "claimed", r)
  BY Zenon, <1>2, PutMoves
<1>4. Board!Cardinality(Board!With(r)) < Capacity
  <2>1. PICK k : k = Board!Cardinality(Board!With(r))
    OBVIOUS
  <2>2. k \in Int
    <3>1. Board!Cardinality(Board!With(r)) = Cardinality(Board!With(r))
      BY Zenon DEF Board!Cardinality, Cardinality
    <3>2. Board!With(r) \in SUBSET Tasks
      BY Zenon DEF Board!With
    <3>3. Cardinality(Board!With(r)) \in Nat
      BY Zenon, <3>2, FS_Subset, FS_CardinalityType, LedgerAssumption
    <3> QED
      BY <2>1, <3>1, <3>3
  <2>3. k <= claims[r] + leases[r] /\ claims[r] \in Nat /\ leases[r] \in Nat
    BY Zenon, <2>1, BoardCounted DEF DirInv, DirType
  <2>4. Capacity - claims[r] - leases[r] > 0
    BY Zenon DEF ClaimAssignment
  <2>5. k < Capacity
    BY <2>2, <2>3, <2>4, LedgerAssumption
  <2> QED
    BY Zenon, <2>1, <2>5
<1>5. Place(t) = "queued"
  BY Zenon, <1>1 DEF Place
<1>6. Board!Claim(r, t)
  BY Zenon, <1>3, <1>4, <1>5 DEF Board!Claim
<1> QED
  BY Zenon, <1>6 DEF BoardMoves, Board!Next

\* A registration gives the runner's plain reservations back, all at once.
LEMMA RegisterMoves ==
  ASSUME DirInv, NEW r \in Runners, NEW s, RegisterRunner(r, s)
  PROVE  BoardMoves
<1> DEFINE back == {t \in Tasks : row[t].state = "claimed" /\ row[t].claim \in Reserved(r)}
<1>1. \A u \in Tasks : u \in back => row'[u] = Requeued(u)
  BY Zenon DEF RegisterRunner
<1>2. \A u \in Tasks : u \notin back => row'[u] = row[u] \/ row'[u] = Rebound(row[u], s)
  BY Zenon DEF RegisterRunner
<1>3. \A u \in Tasks : Rebound(row[u], s).state = row[u].state /\ Rebound(row[u], s).runner = row[u].runner
  BY DEF Rebound, DirInv, DirType, Rows
<1>4. \A u \in back : Place(u) = "claimed" /\ Holder(u) = r
  BY Zenon, ClaimedHolder DEF Reserved, DirInv, Shape, RowsShaped
<1>5. \A u : Requeued(u).state = "queued"
  BY DEF Requeued, NoRow
<1> HIDE DEF back
<1>6. \A u \in Tasks : u \in back => Place(u)' = "queued" /\ Holder(u)' = Nobody
  BY Zenon, <1>1, <1>5 DEF Place, Holder
<1>7. \A u \in Tasks : u \notin back => Place(u)' = Place(u) /\ Holder(u)' = Holder(u)
  <2> SUFFICES ASSUME NEW u \in Tasks, u \notin back
               PROVE  Place(u)' = Place(u) /\ Holder(u)' = Holder(u)
    OBVIOUS
  <2>1. row'[u].state = row[u].state /\ row'[u].runner = row[u].runner
    BY Zenon, <1>2, <1>3
  <2> QED
    BY Zenon, <2>1 DEF Place, Holder
<1>8. Board!Put(back, "queued", Nobody)
  <2>1. \A u \in Tasks : /\ Place(u)' = IF u \in back THEN "queued" ELSE Place(u)
                         /\ Holder(u)' = IF u \in back THEN Nobody ELSE Holder(u)
    BY Zenon, <1>6, <1>7
  <2> QED
    BY Zenon, <2>1, PutMoves
<1>9. back \in SUBSET Tasks
  BY Zenon DEF back
<1>10. Board!Return(r, back)
  BY Zenon, <1>4, <1>8, <1>9 DEF Board!Return
<1> QED
  BY Zenon, <1>9, <1>10 DEF BoardMoves, Board!Next
=============================================================================
