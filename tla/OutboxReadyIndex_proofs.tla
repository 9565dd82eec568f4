----------------------- MODULE OutboxReadyIndex_proofs -----------------------
(***************************************************************************)
(* The prune protocol never loses a registration, for any number of        *)
(* entries, drainers and faults.                                           *)
(***************************************************************************)
EXTENDS OutboxReadyIndex, TLAPS

\* A repair writes the score it read, which is a score.
RepairHasScore == \A d \in Drainers : pc[d] = "repair" => read[d] # None

Inv == TypeOK /\ RepairHasScore /\ Registered

\* Scores, and None, which is no score.
LEMMA NoneFacts == None \notin Score /\ 0 \in Score /\ Horizon \in Score
  BY HorizonAssumption DEF None, Score

\* Every action keeps the types.
LEMMA TypeStep ==
  ASSUME TypeOK, Next
  PROVE  TypeOK'
<1> USE NoneFacts, MaxFaultsAssumption, SweepEveryAssumption
<1>1. ASSUME NEW e \in Entries, Mark(e) \/ MarkFails(e) PROVE TypeOK'
  <2>1. CASE Mark(e)
    BY ZenonT(60), <2>1 DEF TypeOK, Mark, ZAdd, work, local
  <2>2. CASE MarkFails(e)
    <3>1. proven' \in [Drainers -> BOOLEAN]
      BY ZenonT(60), <2>2 DEF TypeOK, MarkFails
    <3>2. QED
      BY <2>2, <3>1 DEF TypeOK, MarkFails, Fault, work
  <2>3. QED
    BY <1>1, <2>1, <2>2
<1>2. ASSUME NEW e \in Entries, NEW delay \in Score, Append(e, delay) PROVE TypeOK'
  BY <1>2 DEF TypeOK, Append, local, ghost
<1>3. ASSUME NEW b \in BOOLEAN, SetPaused(b) PROVE TypeOK'
  BY <1>3 DEF TypeOK, SetPaused, local, ghost
<1>4. CASE Expire
  BY <1>4 DEF TypeOK, Expire, local, ghost
<1>5. CASE Tick
  BY <1>5, HorizonAssumption DEF TypeOK, Tick, ghost, Score, None
<1>6. ASSUME NEW d \in Drainers, Rollback(d) PROVE TypeOK'
  BY <1>6 DEF TypeOK, Rollback, Step, PC, Removing, work, local, ghost
<1>7. ASSUME NEW d \in Drainers, Discover(d) PROVE TypeOK'
  BY <1>7 DEF TypeOK, Discover, SweepDue, Step, PC, Removing, work, local, ghost
<1>8. ASSUME NEW d \in Drainers, ReadIndex(d) PROVE TypeOK'
  BY <1>8 DEF TypeOK, ReadIndex, AfterRead, Step, PC, Removing, work, local, ghost
<1>9. ASSUME NEW d \in Drainers, Probe(d) PROVE TypeOK'
  BY <1>9 DEF TypeOK, Probe, Step, PC, Removing, work, local, ghost
<1>10. ASSUME NEW d \in Drainers, RemoveOrphan(d) PROVE TypeOK'
  BY <1>10 DEF TypeOK, RemoveOrphan, ZRem, Step, PC, Removing, work, local, ghost
<1>11. ASSUME NEW d \in Drainers, Reprobe(d) PROVE TypeOK'
  BY <1>11 DEF TypeOK, Reprobe, Step, PC, Removing, work, local, ghost
<1>12. ASSUME NEW d \in Drainers, Reregister(d) PROVE TypeOK'
  BY ZenonT(60), <1>12 DEF TypeOK, Reregister, ZAdd, Step, PC, Removing, work, local, ghost
<1>13. ASSUME NEW d \in Drainers, Scan(d) PROVE TypeOK'
  BY <1>13 DEF TypeOK, Scan, Step, PC, Removing, work, local, ghost
<1>14. ASSUME NEW d \in Drainers, FlushAfterCommit(d) PROVE TypeOK'
  BY <1>14 DEF TypeOK, FlushAfterCommit, Step, PC, Removing, work, local, ghost
<1>15. ASSUME NEW d \in Drainers, Claim(d) PROVE TypeOK'
  BY <1>15 DEF TypeOK, Claim, Due, Step, PC, Removing, work, local, ghost
<1>16. ASSUME NEW d \in Drainers, ClaimNothing(d) PROVE TypeOK'
  BY <1>16 DEF TypeOK, ClaimNothing, ReadEarliest, Step, PC, Removing, work, local, ghost
<1>17. ASSUME NEW d \in Drainers, BatchDone(d) PROVE TypeOK'
  BY <1>17 DEF TypeOK, BatchDone, Step, PC, Removing, work, local, ghost
<1>18. ASSUME NEW d \in Drainers, Refresh(d) PROVE TypeOK'
  BY <1>18 DEF TypeOK, Refresh, ReadEarliest, Step, PC, Removing, work, local, ghost
<1>19. ASSUME NEW d \in Drainers, Arm(d) PROVE TypeOK'
  BY ZenonT(60), <1>19 DEF TypeOK, Arm, ZAdd, ZRem, Forget, Step, PC, Removing, work, local, ghost
<1>20. ASSUME NEW d \in Drainers, Verify(d) PROVE TypeOK'
  BY <1>20 DEF TypeOK, Verify, ReadEarliest, Step, PC, Removing, work, local, ghost
<1>21. ASSUME NEW d \in Drainers, Repair(d) PROVE TypeOK'
  BY ZenonT(60), <1>21 DEF TypeOK, Repair, ZAdd, Forget, Step, PC, Removing, work, local, ghost
<1>22. ASSUME NEW d \in Drainers, Record(d) PROVE TypeOK'
  BY <1>22 DEF TypeOK, Record, Step, PC, Removing, work, local, ghost
<1>23. ASSUME NEW d \in Drainers, QueueFull(d) PROVE TypeOK'
  BY <1>23 DEF TypeOK, QueueFull, Step, PC, Removing, work, local, ghost
<1>24. ASSUME NEW d \in Drainers, IndexFails(d) PROVE TypeOK'
  BY <1>24 DEF TypeOK, IndexFails, Fault, Forget, Step, PC, Removing, work, local, ghost
<1>25. ASSUME NEW d \in Drainers, FlushFails(d) PROVE TypeOK'
  BY <1>25 DEF TypeOK, FlushFails, Fault, Step, PC, Removing, work, local, ghost
<1>26. ASSUME NEW d \in Drainers, Crash(d) PROVE TypeOK'
  BY <1>26 DEF TypeOK, Crash, Fault, Forget, Step, PC, Removing, work, local, ghost
<1>27. ASSUME NEW d \in Drainers, NEW e \in Entries, Ack(d, e) PROVE TypeOK'
  BY <1>27 DEF TypeOK, Ack, Step, PC, Removing, local, ghost
<1>28. ASSUME NEW d \in Drainers, NEW e \in Entries, Release(d, e) PROVE TypeOK'
  BY <1>28 DEF TypeOK, Release, GiveBack, Step, PC, Removing, local, ghost
<1>29. ASSUME NEW d \in Drainers, NEW e \in Entries, Fail(d, e) PROVE TypeOK'
  BY <1>29 DEF TypeOK, Fail, GiveBack, Step, PC, Removing, local, ghost
<1>30. QED
  BY <1>1, <1>2, <1>3, <1>4, <1>5, <1>6, <1>7, <1>8, <1>9, <1>10, <1>11, <1>12, <1>13, <1>14, <1>15, <1>16, <1>17, <1>18, <1>19, <1>20, <1>21, <1>22, <1>23, <1>24, <1>25, <1>26, <1>27, <1>28, <1>29 DEF Next, Discovery, Flush, Settle

\* A repair has a score to write: Verify read one because there was work.
LEMMA RepairStep ==
  ASSUME TypeOK, RepairHasScore, Next
  PROVE  RepairHasScore'
<1> SUFFICES ASSUME NEW c \in Drainers, pc'[c] = "repair" PROVE read'[c] # None
  BY DEF RepairHasScore
<1> DEFINE Same == pc[c] = "repair" /\ read'[c] = read[c]
<1>1. Same => read'[c] # None
  BY DEF RepairHasScore
<1>2. ASSUME NEW e \in Entries, Mark(e) \/ MarkFails(e) PROVE Same
  BY <1>2 DEF Mark, MarkFails, local
<1>3. ASSUME NEW e \in Entries, NEW delay \in Score, Append(e, delay) PROVE Same
  BY <1>3 DEF Append, local
<1>4. ASSUME NEW b \in BOOLEAN, SetPaused(b) PROVE Same
  BY <1>4 DEF SetPaused, local
<1>5. CASE Expire
  BY <1>1, <1>5 DEF Expire, local
<1>6. CASE Tick
  <2>1. read[c] # None /\ read[c] \in Score
    BY <1>6 DEF TypeOK, Tick, RepairHasScore
  <2>2. QED
    BY <1>6, <2>1, HorizonAssumption DEF TypeOK, Tick, Score, None
<1>7. ASSUME NEW d \in Drainers, Verify(d) PROVE read'[c] # None
  <2>1. CASE c = d
    <3>1. pending # {}
      BY <1>7, <2>1 DEF TypeOK, Verify, Step
    <3>2. PICK s \in Score \cup {None} : Earliest(s) /\ read' = [read EXCEPT ![d] = s]
      BY ZenonT(60), <1>7 DEF Verify, ReadEarliest
    <3>3. s \in Score
      BY <3>1, <3>2 DEF Earliest, TypeOK
    <3>4. QED
      BY <2>1, <3>2, <3>3, NoneFacts DEF TypeOK
  <2>2. CASE c # d
    BY <1>1, <1>7, <2>2 DEF TypeOK, Verify, Step, ReadEarliest
  <2>3. QED
    BY <2>1, <2>2
<1>8. ASSUME NEW d \in Drainers, Discovery(d) \/ Rollback(d) \/ FlushAfterCommit(d) \/ QueueFull(d)
      PROVE Same
  <2>1. read' = read
    BY <1>8 DEF Discovery, Discover, ReadIndex, Probe, RemoveOrphan, Reprobe, Reregister, Scan,
                Rollback, FlushAfterCommit, QueueFull, local
  <2>2. pc[c] = "repair"
    BY <1>8 DEF Discovery, Discover, ReadIndex, Probe, RemoveOrphan, Reprobe, Reregister, Scan,
                Rollback, FlushAfterCommit, QueueFull, Step, TypeOK, AfterRead
  <2>3. QED
    BY <2>1, <2>2
<1>9. ASSUME NEW d \in Drainers,
             Claim(d) \/ ClaimNothing(d) \/ BatchDone(d) \/ Refresh(d) \/ Arm(d) \/ Repair(d) \/ Record(d)
      PROVE Same
  BY <1>9 DEF Claim, ClaimNothing, BatchDone, Refresh, Arm, Repair, Record, ReadEarliest, Forget,
              Step, TypeOK, local
<1>10. ASSUME NEW d \in Drainers, IndexFails(d) \/ FlushFails(d) \/ Crash(d)
       PROVE Same
  BY <1>10 DEF IndexFails, FlushFails, Crash, Forget, Step, TypeOK
<1>11. ASSUME NEW d \in Drainers, NEW e \in Entries, Settle(d, e) PROVE Same
  BY <1>11 DEF Settle, Ack, Release, Fail, GiveBack, Step, TypeOK
<1>12. QED
  BY <1>1, <1>2, <1>3, <1>4, <1>5, <1>6, <1>7, <1>8, <1>9, <1>10, <1>11 DEF Next, Flush

\* A step that adds no work, takes no registration away and lets no prune stop
\* halfway keeps Registered.
LEMMA QuietStep ==
  ASSUME Registered,
         pending' # {} => pending # {},
         index # None => index' # None,
         unmarked' = unmarked, lost => lost',
         \A c \in Drainers : pc[c] \in Removing => pc'[c] \in Removing
  PROVE  Registered'
  BY DEF Registered

\* The prune protocol: whoever takes the member away looks again.
LEMMA RegisteredStep ==
  ASSUME TypeOK, RepairHasScore, Registered, Next
  PROVE  Registered'
<1>1. ASSUME NEW e \in Entries, Mark(e) \/ MarkFails(e) PROVE Registered'
  BY <1>1, NoneFacts DEF Registered, Mark, MarkFails, ZAdd
<1>2. ASSUME NEW e \in Entries, NEW delay \in Score, Append(e, delay) PROVE Registered'
  BY <1>2 DEF Registered, Append
<1>3. ASSUME NEW b \in BOOLEAN, SetPaused(b) PROVE Registered'
  BY <1>3, QuietStep DEF SetPaused, ghost
<1>4. CASE Expire
  BY <1>4 DEF Registered, Expire
<1>5. CASE Tick
  <2>1. index # None => index' # None
    BY <1>5, HorizonAssumption DEF TypeOK, Tick, Score, None
  <2>2. QED
    BY <1>5, <2>1, QuietStep DEF Tick, ghost
<1>6. ASSUME NEW d \in Drainers,
             Discover(d) \/ ReadIndex(d) \/ Probe(d) \/ Scan(d) \/ FlushAfterCommit(d) \/ Claim(d)
             \/ ClaimNothing(d) \/ BatchDone(d) \/ Refresh(d) \/ QueueFull(d) \/ Rollback(d) \/ Record(d)
             \/ FlushFails(d)
      PROVE Registered'
  <2>1. \A c \in Drainers : pc[c] \in Removing => pc'[c] \in Removing
    BY ZenonT(60), <1>6 DEF Discover, ReadIndex, Probe, Scan, FlushAfterCommit, Claim, ClaimNothing, BatchDone,
                Refresh, QueueFull, Rollback, Record, FlushFails, Step, TypeOK, Removing
  <2>2. UNCHANGED <<index, unmarked, lost>> /\ pending' \subseteq pending
    BY <1>6 DEF Discover, ReadIndex, Probe, Scan, FlushAfterCommit, Claim, ClaimNothing, BatchDone,
                Refresh, QueueFull, Rollback, Record, FlushFails, work, ghost
  <2>3. QED
    BY ZenonT(60), <2>1, <2>2, QuietStep
<1>7. ASSUME NEW d \in Drainers, RemoveOrphan(d) \/ (Arm(d) /\ read[d] = None) PROVE Registered'
  <2>1. pc'[d] \in Removing
    BY <1>7 DEF RemoveOrphan, Arm, Step, TypeOK, Removing
  <2>2. QED
    BY <2>1 DEF Registered
<1>8. ASSUME NEW d \in Drainers, Reregister(d) \/ Repair(d) \/ (Arm(d) /\ read[d] # None)
      PROVE Registered'
  <2>1. index' # None
    BY <1>8, NoneFacts DEF Reregister, Repair, Arm, ZAdd, Step, RepairHasScore
  <2>2. QED
    BY <2>1 DEF Registered
<1>9. ASSUME NEW d \in Drainers, Reprobe(d) \/ Verify(d) PROVE Registered'
  <2>1. CASE pending = {}
    BY <1>9, <2>1 DEF Registered, Reprobe, Verify, work
  <2>2. CASE pending # {}
    <3>1. pc'[d] \in Removing
      BY <1>9, <2>2 DEF Reprobe, Verify, Step, TypeOK, Removing
    <3>2. QED
      BY <3>1 DEF Registered
  <2>3. QED
    BY ZenonT(60), <2>1, <2>2
<1>10. ASSUME NEW d \in Drainers, IndexFails(d) \/ Crash(d) PROVE Registered'
  <2>1. CASE pc[d] \in Removing
    BY ZenonT(60), <1>10, <2>1 DEF Registered, IndexFails, Crash
  <2>2. CASE pc[d] \notin Removing
    <3>1. \A c \in Drainers : pc[c] \in Removing => pc'[c] \in Removing
      BY <1>10, <2>2 DEF IndexFails, Crash, Step, TypeOK
    <3>2. QED
      BY ZenonT(60), <1>10, <3>1, QuietStep DEF IndexFails, Crash, work
  <2>3. QED
    BY <2>1, <2>2
<1>11. ASSUME NEW d \in Drainers, NEW e \in Entries, Settle(d, e) PROVE Registered'
  <2>1. \A c \in Drainers : pc[c] \in Removing => pc'[c] \in Removing
    BY <1>11 DEF Settle, Ack, Release, Fail, Step, TypeOK, Removing
  <2>2. UNCHANGED <<index, unmarked, lost>> /\ pending' \subseteq pending
    BY <1>11 DEF Settle, Ack, Release, Fail, GiveBack, ghost
  <2>3. QED
    BY <2>1, <2>2, QuietStep
<1>12. QED
  BY ZenonT(60), <1>1, <1>2, <1>3, <1>4, <1>5, <1>6, <1>7, <1>8, <1>9, <1>10, <1>11 DEF Next, Discovery, Flush

\* Producers, drainers, prunes and faults keep the invariant.
LEMMA Invariance == Spec => []Inv
<1>1. Init => Inv
  <2>1. Init => TypeOK
    <3>1. 0 \in 0..MaxFaults /\ 0 \in 0..(SweepEvery - 1)
      BY MaxFaultsAssumption, SweepEveryAssumption
    <3>2. "idle" \in PC
      BY DEF PC
    <3> SUFFICES ASSUME Init PROVE TypeOK
      OBVIOUS
    <3>3. sweeping \in [Drainers -> BOOLEAN] /\ proven \in [Drainers -> BOOLEAN]
      BY ZenonT(60) DEF Init
    <3>4. paused \in BOOLEAN /\ lost \in BOOLEAN
      BY ZenonT(60) DEF Init
    <3>5. held \in [Drainers -> SUBSET Entries] /\ failing \in [Drainers -> SUBSET Entries]
      BY DEF Init
    <3>6. score \in [Entries -> Score] /\ read \in [Drainers -> Score \cup {None}]
      BY NoneFacts DEF Init
    <3>7. pc \in [Drainers -> PC] /\ calls \in [Drainers -> 0..(SweepEvery - 1)]
      BY <3>1, <3>2 DEF Init
    <3>8. QED
      BY <3>1, <3>3, <3>4, <3>5, <3>6, <3>7 DEF Init, TypeOK
  <2>2. Init => RepairHasScore /\ Registered
    BY DEF Init, RepairHasScore, Registered
  <2>3. QED
    BY <2>1, <2>2 DEF Inv
<1>2. Inv /\ [Next]_vars => Inv'
  <2>1. ASSUME Inv, Next PROVE Inv'
    BY <2>1, TypeStep, RepairStep, RegisteredStep DEF Inv
  <2>2. ASSUME Inv, UNCHANGED vars PROVE Inv'
    BY <2>2 DEF Inv, TypeOK, RepairHasScore, Registered, vars
  <2>3. QED
    BY <2>1, <2>2
<1>3. QED
  BY <1>1, <1>2, PTL DEF Spec

\* With any number of producers and drainers, whatever the delays and faults:
\* ready work is named by the index, or someone who will name it is on the
\* way, unless a fault dropped the write (applyOutboxReadyIndex,
\* repairStaleOutboxIndexMembers, markOutboxReadyIndex).
THEOREM NoRegistrationIsRaced == Spec => []Registered
<1>1. Inv => Registered
  BY DEF Inv
<1>2. QED
  BY <1>1, Invariance, PTL

\* Every drainer is at a step of the flush, claims only entries and remembers
\* only scores, and no score is ever further away than an append put it.
THEOREM TypeCorrect == Spec => []TypeOK
<1>1. Inv => TypeOK
  BY DEF Inv
<1>2. QED
  BY <1>1, Invariance, PTL
=============================================================================
