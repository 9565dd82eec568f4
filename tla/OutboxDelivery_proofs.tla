------------------------ MODULE OutboxDelivery_proofs ------------------------
(***************************************************************************)
(* No intent is lost or resurrected, a replay is decided once, and only an *)
(* unfenced settlement can break the exclusivity of a claim, for any       *)
(* number of entries, deliverers, requests and faults and both stores.     *)
(***************************************************************************)
EXTENDS OutboxDelivery, FiniteSetTheorems, TLAPS

\* A flush past the handoff works on an entry of its own, and acknowledges
\* only what was consumed.
CurOK ==
    \A d \in Deliverers :
        /\ held[d] \subseteq put
        /\ pc[d] \in {"ack", "record", "forget"} => cur[d] \in put
        /\ pc[d] = "ack" => outcome[cur[d]] # Nothing

\* Unless a claim was disturbed, the store hides a held entry at least as long
\* as its holder believes, and never has it among the dead letters.
LeaseCovers ==
    ~stale => \A d \in Deliverers, e \in Entries :
        Holds(d, e) => /\ e \notin dead
                       /\ e \in body => ready[e] >= deadline[d][e]

\* The flushes that saw a handoff of e fail and have yet to record it.
Recorders(e) == {d \in Deliverers : pc[d] = "record" /\ cur[d] = e}

\* Every attempt that is counted, and every one that is about to be, is a
\* failed handoff that no dead-lettering has used up.
FailuresCover ==
    \A e \in Entries : /\ IsFiniteSet(Recorders(e))
                       /\ failures[e] >= attempts[e] + Cardinality(Recorders(e))

\* The inductive invariant.
Inv == /\ TypeOK /\ CurOK /\ BodyIffReady /\ NothingLost /\ LeaseCovers /\ ExclusiveUnlessDisturbed
       /\ FailuresCover

\* Ready scores, and None, which is no score.
LEMMA Numbers ==
  /\ None \notin 0..TTL /\ 0 \in 0..TTL /\ TTL \in 0..TTL /\ TTL > 0 /\ None = -1
  /\ 0 \in 0..(MaxAttempts - 1)
  BY TTLAssumption, MaxAttemptsAssumption DEF None

\* A renewal extends only leases whose deadline the caller knows.
LEMMA RenewIsFenced ==
  ASSUME TypeOK, NEW d \in Deliverers, RenewOutbox(d)
  PROVE  \E granted \in SUBSET Entries, told \in SUBSET Entries :
            /\ told \subseteq granted
            /\ \A e \in granted : Owned(d, e)
            /\ Renewed(d, granted, told)
<1> DEFINE granted == {e \in keep[d] : Owned(d, e)}
           told == IF Backend = "redis" /\ granted # keep[d] THEN {} ELSE granted
<1>1. granted \in SUBSET Entries /\ told \in SUBSET Entries /\ told \subseteq granted
  BY DEF TypeOK
<1>2. Renewed(d, granted, told)
  BY DEF RenewOutbox
<1>3. \A e \in granted : Owned(d, e)
  OBVIOUS
<1> HIDE DEF granted, told
<1>4. QED
  BY <1>1, <1>2, <1>3

\* A replay is decided, whatever state the node is in.
LEMMA VerdictType ==
  ASSUME TypeOK, NEW e \in Entries, NEW ns \in NodeStates, NEW act \in Activations
  PROVE  Verdict(e, ns, act) \in Rejections \cup {"replayed"}
<1>1. NodeVerdict(e, ns, act) \in Rejections \cup {"replayed"} \/ act = "legacy"
  <2>1. CASE Allows(intent[e], ns) /\ act # "legacy"
    BY <2>1, Zenon DEF NodeVerdict, Rejections, Activations
  <2>2. CASE ~Allows(intent[e], ns)
    BY <2>2, Zenon DEF NodeVerdict, Rejections
  <2>3. QED
    BY <2>1, <2>2
<1>2. status \in {"running", "paused", "ended", "gone"}
  BY DEF TypeOK
<1>3. QED
  BY <1>1, <1>2, Zenon DEF Verdict, Rejections

\* Every action keeps the types.
LEMMA TypeStep ==
  ASSUME TypeOK, CurOK, Next
  PROVE  TypeOK'
<1> USE Numbers
<1>1. ASSUME NEW e \in Entries, Put(e) PROVE TypeOK'
  BY <1>1 DEF TypeOK, Put, flush, ghost
<1>2. ASSUME NEW s \in {"running", "paused", "ended", "gone"}, SetStatus(s) PROVE TypeOK'
  BY <1>2 DEF TypeOK, SetStatus, flush, ghost
<1>3. CASE Tick
  BY <1>3, TTLAssumption DEF TypeOK, Tick, ghost
<1>4. ASSUME NEW d \in Deliverers, LeaseOutbox(d) PROVE TypeOK'
  BY <1>4 DEF TypeOK, LeaseOutbox, Claimed, Due, Goto, ghost
<1>5. ASSUME NEW d \in Deliverers, AckOutbox(d) PROVE TypeOK'
  BY ZenonT(60), <1>5 DEF TypeOK, AckOutbox, Goto, ghost
<1>6. ASSUME NEW d \in Deliverers, Forget(d) PROVE TypeOK'
  BY ZenonT(60), <1>6 DEF TypeOK, Forget, Goto, store, ghost
<1>7. ASSUME NEW d \in Deliverers, RecordOutboxFailure(d) PROVE TypeOK'
  <2>1. cur[d] \in put
    BY <1>7 DEF CurOK, RecordOutboxFailure, Goto
  <2>2. stale' \in BOOLEAN
    BY ZenonT(60), <1>7 DEF TypeOK, RecordOutboxFailure, Disturbs
  <2>3. attempts' \in [Entries -> 0..(MaxAttempts - 1)]
    BY <1>7, <2>1, MaxAttemptsAssumption DEF TypeOK, RecordOutboxFailure
  <2>4. failures' \in [Entries -> Int] /\ faults' \in 0..MaxFaults
    BY <1>7, <2>1, MaxAttemptsAssumption, MaxFaultsAssumption DEF TypeOK, RecordOutboxFailure, Fault
  <2>5. QED
    BY ZenonT(60), <1>7, <2>1, <2>2, <2>3, <2>4 DEF TypeOK, RecordOutboxFailure, Goto
<1>8. ASSUME NEW d \in Deliverers, Return(d) PROVE TypeOK'
  BY <1>8 DEF TypeOK, Return, store, ghost
<1>9. ASSUME NEW d \in Deliverers, NEW e \in Entries, GiveBack(d, e) PROVE TypeOK'
  <2>1. stale' \in BOOLEAN
    BY ZenonT(60), <1>9 DEF TypeOK, GiveBack, ReleaseOutbox, Disturbs
  <2>2. ready' \in [Entries -> 0..TTL \cup {None}]
    BY <1>9, TTLAssumption DEF TypeOK, GiveBack, ReleaseOutbox
  <2>3. faults' \in 0..MaxFaults
    BY <1>9, MaxFaultsAssumption DEF TypeOK, GiveBack, ReleaseOutbox, Fault
  <2>4. deadline' \in [Deliverers -> [Entries -> 0..TTL]]
    BY <1>9, TTLAssumption DEF TypeOK, GiveBack
  <2>5. held' \in [Deliverers -> SUBSET Entries] /\ keep' \in [Deliverers -> SUBSET Entries]
    BY <1>9 DEF TypeOK, GiveBack
  <2>q. QED
    BY Zenon, <1>9, <2>1, <2>2, <2>3, <2>4, <2>5 DEF TypeOK, GiveBack
<1>10. ASSUME NEW d \in Deliverers, NEW e \in Entries, Handoff(d, e) PROVE TypeOK'
  BY ZenonT(60), <1>10 DEF TypeOK, Handoff, Goto, store
<1>11. ASSUME NEW d \in Deliverers, NEW e \in Entries, HandoffFails(d, e) PROVE TypeOK'
  <2>1. stale' \in BOOLEAN
    BY ZenonT(60), <1>11 DEF TypeOK, HandoffFails, ReleaseOutbox, Disturbs
  <2>2. ready' \in [Entries -> 0..TTL \cup {None}]
    BY <1>11, TTLAssumption DEF TypeOK, HandoffFails, ReleaseOutbox
  <2>3. faults' \in 0..MaxFaults
    BY <1>11, MaxFaultsAssumption DEF TypeOK, HandoffFails, ReleaseOutbox, Fault
  <2>4. failures' \in [Entries -> Int]
    BY <1>11 DEF TypeOK, HandoffFails
  <2>5. cur' \in [Deliverers -> Entries \cup {Nothing}]
    BY Zenon, <1>11 DEF TypeOK, HandoffFails
  <2>6. pc' \in [Deliverers -> {"idle", "deliver", "ack", "release", "record", "forget"}]
    BY Zenon, <1>11 DEF TypeOK, HandoffFails, Goto
  <2>q. QED
    BY Zenon, <1>11, <2>1, <2>2, <2>3, <2>4, <2>5, <2>6 DEF TypeOK, HandoffFails
<1>12. ASSUME NEW d \in Deliverers, QueueFull(d) PROVE TypeOK'
  BY <1>12 DEF TypeOK, QueueFull, Goto, store, ghost
<1>13. ASSUME NEW d \in Deliverers, RenewOutbox(d) PROVE TypeOK'
  <2>1. PICK granted \in SUBSET Entries, told \in SUBSET Entries : Renewed(d, granted, told)
    BY <1>13, RenewIsFenced
  <2>2. QED
    BY <2>1 DEF TypeOK, Renewed, ghost
<1>14. ASSUME NEW d \in Deliverers, Abandon(d) PROVE TypeOK'
  BY <1>14, MaxFaultsAssumption DEF TypeOK, Abandon, Fault, store
<1>15. ASSUME NEW r \in Requests, NEW e \in Entries, NEW ns \in NodeStates, NEW act \in Activations,
              ReplayDeadLetter(r, e, ns, act)
       PROVE  TypeOK'
  <2>1. PICK v \in Rejections \cup {"replayed"} : e \in dead /\ Decide(r, e, v)
    BY <1>15, VerdictType DEF ReplayDeadLetter
  <2>2. receipts' \in [Requests -> Rejections \cup {"replayed", Nothing}]
    BY <2>1 DEF TypeOK, Decide
  <2>3. /\ body' \subseteq put' /\ dead' \subseteq put' /\ put' \subseteq Entries
        /\ ready' \in [Entries -> 0..TTL \cup {None}]
        /\ attempts' \in [Entries -> 0..(MaxAttempts - 1)]
        /\ replayedBy' \in [Entries -> Requests \cup {Nothing}]
    <3>1. CASE v = "replayed"
      <4>1. body' \subseteq put' /\ dead' \subseteq put' /\ put' \subseteq Entries
        BY <2>1, <3>1 DEF TypeOK, Decide
      <4>2. ready' \in [Entries -> 0..TTL \cup {None}]
        BY ZenonT(60), <2>1, <3>1 DEF TypeOK, Decide
      <4>3. attempts' \in [Entries -> 0..(MaxAttempts - 1)]
        BY ZenonT(60), <2>1, <3>1 DEF TypeOK, Decide
      <4>4. replayedBy' \in [Entries -> Requests \cup {Nothing}]
        BY ZenonT(60), <2>1, <3>1 DEF TypeOK, Decide
      <4>5. QED
        BY <4>1, <4>2, <4>3, <4>4
    <3>2. CASE v # "replayed"
      BY <2>1, <3>2 DEF TypeOK, Decide
    <3>3. QED
      BY <3>1, <3>2
  <2>4. QED
    BY <2>1, <2>2, <2>3 DEF TypeOK, Decide, flush, ghost
<1>16. QED
  BY <1>1, <1>2, <1>3, <1>4, <1>5, <1>6, <1>7, <1>8, <1>9, <1>10, <1>11, <1>12, <1>13, <1>14, <1>15
  DEF Next, Flush, Deliver

\* Only a handoff consumes.
LEMMA OutcomeCases ==
  ASSUME [Next]_vars
  PROVE  outcome' = outcome \/ \E d \in Deliverers, e \in Entries : Handoff(d, e)
  BY ZenonT(60)
  DEF Next, Put, SetStatus, Tick, Flush, LeaseOutbox, AckOutbox, Forget, RecordOutboxFailure, Return,
      GiveBack, Deliver, HandoffFails, QueueFull, RenewOutbox, Renewed, Abandon,
      ReplayDeadLetter, Decide, store, ghost, vars

\* What was consumed stays consumed.
LEMMA OutcomeStays ==
  ASSUME TypeOK, [Next]_vars
  PROVE  \A e \in Entries : outcome[e] # Nothing => outcome'[e] # Nothing
<1>1. CASE outcome' = outcome
  BY <1>1
<1>2. ASSUME NEW d \in Deliverers, NEW e \in Entries, Handoff(d, e)
      PROVE  \A x \in Entries : outcome[x] # Nothing => outcome'[x] # Nothing
  BY <1>2 DEF TypeOK, Handoff, Nothing
<1>3. QED
  BY <1>1, <1>2, OutcomeCases

\* Only a handoff leads to an acknowledgement.
LEMMA CurStep ==
  ASSUME TypeOK, CurOK, Next
  PROVE  CurOK'
<1>1. put \subseteq put'
  BY ZenonT(60) DEF Next, Put, SetStatus, Tick, Flush, LeaseOutbox, AckOutbox, Forget, RecordOutboxFailure, Return,
         GiveBack, Deliver, Handoff, HandoffFails, QueueFull, RenewOutbox, Renewed, Abandon,
         ReplayDeadLetter, Decide, store
<1>2. \A e \in Entries : outcome[e] # Nothing => outcome'[e] # Nothing
  BY OutcomeStays
<1> SUFFICES ASSUME NEW c \in Deliverers
             PROVE  /\ held'[c] \subseteq put'
                    /\ pc'[c] \in {"ack", "record", "forget"} => cur'[c] \in put'
                    /\ pc'[c] = "ack" => outcome'[cur'[c]] # Nothing
  BY DEF CurOK
<1> DEFINE Goal == /\ held'[c] \subseteq put'
                   /\ pc'[c] \in {"ack", "record", "forget"} => cur'[c] \in put'
                   /\ pc'[c] = "ack" => outcome'[cur'[c]] # Nothing
           Same == held'[c] \subseteq held[c] /\ pc'[c] = pc[c] /\ cur'[c] = cur[c]
<1>3. Same => Goal
  BY ZenonT(60), <1>1, <1>2 DEF CurOK, TypeOK
<1>4. ASSUME NEW e \in Entries, Put(e) PROVE Same
  BY <1>4 DEF Put, flush
<1>5. ASSUME NEW s \in {"running", "paused", "ended", "gone"}, SetStatus(s) PROVE Same
  BY <1>5 DEF SetStatus, flush
<1>6. CASE Tick
  BY <1>3, <1>6 DEF Tick
<1>7. ASSUME NEW d \in Deliverers, LeaseOutbox(d) PROVE Goal
  <2>1. CASE c = d
    BY <1>7, <2>1 DEF TypeOK, LeaseOutbox, Claimed, Due, Goto
  <2>2. CASE c # d
    BY <1>3, <1>7, <2>2 DEF TypeOK, LeaseOutbox, Claimed, Goto
  <2>3. QED
    BY <2>1, <2>2
<1>8. ASSUME NEW d \in Deliverers, AckOutbox(d) \/ RecordOutboxFailure(d) PROVE Goal
  <2>1. CASE c = d
    BY <1>1, <1>8, <2>1 DEF TypeOK, CurOK, AckOutbox, RecordOutboxFailure, Goto
  <2>2. CASE c # d
    BY <1>3, <1>8, <2>2 DEF TypeOK, AckOutbox, RecordOutboxFailure, Goto
  <2>3. QED
    BY <2>1, <2>2
<1>9. ASSUME NEW d \in Deliverers, Forget(d) \/ Return(d) \/ QueueFull(d) \/ Abandon(d) PROVE Goal
  <2>1. CASE c = d
    BY <1>1, <1>9, <2>1 DEF TypeOK, CurOK, Forget, Return, QueueFull, Abandon, Goto, store
  <2>2. CASE c # d
    BY <1>3, <1>9, <2>2 DEF TypeOK, Forget, Return, QueueFull, Abandon, Goto
  <2>3. QED
    BY <2>1, <2>2
<1>10. ASSUME NEW d \in Deliverers, NEW e \in Entries, GiveBack(d, e) PROVE Same
  BY <1>10 DEF TypeOK, GiveBack
<1>11. ASSUME NEW d \in Deliverers, RenewOutbox(d) PROVE Same
  BY <1>11 DEF RenewOutbox, Renewed
<1>12. ASSUME NEW d \in Deliverers, NEW e \in Entries, Handoff(d, e) PROVE Goal
  <2>1. CASE c = d
    BY <1>12, <2>1 DEF TypeOK, CurOK, Handoff, Goto, store, Nothing
  <2>2. CASE c # d
    BY <1>3, <1>12, <2>2 DEF TypeOK, Handoff, Goto
  <2>3. QED
    BY <2>1, <2>2
<1>13. ASSUME NEW d \in Deliverers, NEW e \in Entries, HandoffFails(d, e) PROVE Goal
  <2>1. CASE c = d
    BY <1>13, <2>1 DEF TypeOK, CurOK, HandoffFails, Goto
  <2>2. CASE c # d
    BY <1>3, <1>13, <2>2 DEF TypeOK, HandoffFails, Goto
  <2>3. QED
    BY <2>1, <2>2
<1>14. ASSUME NEW r \in Requests, NEW e \in Entries, NEW ns \in NodeStates, NEW act \in Activations,
              ReplayDeadLetter(r, e, ns, act)
       PROVE  Same
  BY <1>14 DEF ReplayDeadLetter, Decide, flush
<1>15. QED
  BY ZenonT(60), <1>3, <1>4, <1>5, <1>6, <1>7, <1>8, <1>9, <1>10, <1>11, <1>12, <1>13, <1>14
  DEF Next, Flush, Deliver

\* What a step does to the stored intents: nothing, or one intent is appended,
\* acknowledged, dead-lettered or replayed.
Quiet ==
    /\ put' = put /\ body' = body /\ dead' = dead /\ receipts' = receipts
    /\ \A e \in Entries : ready'[e] # None <=> ready[e] # None

Settled(d) ==
    /\ pc[d] = "ack" /\ cur[d] \in put
    /\ put' = put /\ dead' = dead /\ receipts' = receipts
    /\ body' = body \ {cur[d]} /\ ready' = [ready EXCEPT ![cur[d]] = None]

Buried(e) ==
    /\ e \in body
    /\ put' = put /\ dead' = dead \cup {e} /\ receipts' = receipts
    /\ body' = body \ {e} /\ ready' = [ready EXCEPT ![e] = None]

Revived(r, e) ==
    /\ e \in dead /\ receipts[r] = Nothing
    /\ put' = put /\ receipts' = [receipts EXCEPT ![r] = "replayed"]
    /\ dead' = dead \ {e} /\ body' = body \cup {e} /\ ready' = [ready EXCEPT ![e] = 0]
    /\ replayedBy' = [replayedBy EXCEPT ![e] = r]

Rejected(r) ==
    /\ receipts[r] = Nothing
    /\ \E v \in Rejections : receipts' = [receipts EXCEPT ![r] = v]
    /\ put' = put /\ body' = body /\ dead' = dead /\ ready' = ready

\* Every step is one of these, whatever the flush or the operator does.
LEMMA StoreCases ==
  ASSUME TypeOK, CurOK, BodyIffReady, [Next]_vars
  PROVE  \/ Quiet
         \/ \E e \in Entries : Put(e) \/ Buried(e)
         \/ \E d \in Deliverers : Settled(d)
         \/ \E r \in Requests : Rejected(r) \/ \E e \in Entries : Revived(r, e)
<1> USE Numbers
<1>1. CASE UNCHANGED vars
  BY <1>1 DEF vars, Quiet
<1>2. ASSUME NEW s \in {"running", "paused", "ended", "gone"}, SetStatus(s) PROVE Quiet
  BY <1>2 DEF SetStatus, Quiet
<1>3. CASE Tick
  <2>1. \A e \in Entries : ready'[e] # None <=> ready[e] # None
    BY <1>3, TTLAssumption DEF TypeOK, Tick
  <2>2. QED
    BY <1>3, <2>1 DEF Tick, Quiet
<1>4. ASSUME NEW d \in Deliverers, LeaseOutbox(d) PROVE Quiet
  BY ZenonT(60), <1>4 DEF TypeOK, LeaseOutbox, Due, Quiet
<1>5. ASSUME NEW d \in Deliverers, AckOutbox(d) PROVE Settled(d)
  BY <1>5 DEF CurOK, AckOutbox, Goto, Settled
<1>6. ASSUME NEW d \in Deliverers, Forget(d) \/ Return(d) \/ QueueFull(d) \/ Abandon(d) PROVE Quiet
  BY <1>6 DEF Forget, Return, QueueFull, Abandon, store, Quiet
<1>7. ASSUME NEW d \in Deliverers, RecordOutboxFailure(d) PROVE Quiet \/ \E e \in Entries : Buried(e)
  <2>1. cur[d] \in Entries
    BY <1>7 DEF TypeOK, CurOK, RecordOutboxFailure, Goto
  <2>2. Quiet \/ Buried(cur[d])
    BY ZenonT(60), <1>7 DEF RecordOutboxFailure, Quiet, Buried
  <2>3. QED
    BY <2>1, <2>2
<1>8. ASSUME NEW d \in Deliverers, NEW e \in Entries, GiveBack(d, e) \/ HandoffFails(d, e) PROVE Quiet
  BY <1>8 DEF TypeOK, BodyIffReady, GiveBack, HandoffFails, ReleaseOutbox, Quiet
<1>9. ASSUME NEW d \in Deliverers, NEW e \in Entries, Handoff(d, e) PROVE Quiet
  BY <1>9 DEF Handoff, store, Quiet
<1>10. ASSUME NEW d \in Deliverers, RenewOutbox(d) PROVE Quiet
  <2>1. PICK granted \in SUBSET Entries, told \in SUBSET Entries :
           (\A e \in granted : Owned(d, e)) /\ Renewed(d, granted, told)
    BY <1>10, RenewIsFenced
  <2>2. QED
    BY <2>1 DEF TypeOK, BodyIffReady, Owned, Renewed, Quiet
<1>11. ASSUME NEW r \in Requests, NEW e \in Entries, NEW ns \in NodeStates, NEW act \in Activations,
              ReplayDeadLetter(r, e, ns, act)
       PROVE  Rejected(r) \/ Revived(r, e)
  <2>1. PICK v \in Rejections \cup {"replayed"} : e \in dead /\ receipts[r] = Nothing /\ Decide(r, e, v)
    BY <1>11, VerdictType DEF ReplayDeadLetter
  <2>2. CASE v = "replayed"
    BY <2>1, <2>2 DEF Decide, Revived
  <2>3. CASE v # "replayed"
    BY ZenonT(60), <2>1, <2>3 DEF Decide, Rejected
  <2>4. QED
    BY <2>2, <2>3
<1>12. QED
  BY <1>1, <1>2, <1>3, <1>4, <1>5, <1>6, <1>7, <1>8, <1>9, <1>10, <1>11 DEF Next, Flush, Deliver

\* Bodies and ready members go together, and nothing leaves unconsumed.
LEMMA BodyStep ==
  ASSUME TypeOK, CurOK, BodyIffReady, NothingLost, [Next]_vars
  PROVE  BodyIffReady' /\ NothingLost'
<1> USE Numbers
<1>1. \A e \in Entries : outcome[e] # Nothing => outcome'[e] # Nothing
  BY OutcomeStays
<1>2. CASE Quiet
  BY <1>1, <1>2 DEF TypeOK, BodyIffReady, NothingLost, Quiet
<1>3. ASSUME NEW e \in Entries, Put(e) PROVE BodyIffReady' /\ NothingLost'
  BY <1>1, <1>3 DEF TypeOK, BodyIffReady, NothingLost, Put
<1>4. ASSUME NEW e \in Entries, Buried(e) PROVE BodyIffReady' /\ NothingLost'
  BY <1>1, <1>4 DEF TypeOK, BodyIffReady, NothingLost, Buried
<1>5. ASSUME NEW d \in Deliverers, Settled(d) PROVE BodyIffReady' /\ NothingLost'
  BY <1>1, <1>5 DEF TypeOK, CurOK, BodyIffReady, NothingLost, Settled
<1>6. ASSUME NEW r \in Requests, NEW e \in Entries, Revived(r, e) PROVE BodyIffReady' /\ NothingLost'
  BY <1>1, <1>6 DEF TypeOK, BodyIffReady, NothingLost, Revived
<1>7. ASSUME NEW r \in Requests, Rejected(r) PROVE BodyIffReady' /\ NothingLost'
  BY <1>1, <1>7 DEF TypeOK, BodyIffReady, NothingLost, Rejected
<1>8. QED
  BY <1>2, <1>3, <1>4, <1>5, <1>6, <1>7, StoreCases

-----------------------------------------------------------------------------
(* Leases.                                                                 *)


\* No step but a claim adds a holder; a claim takes only what nobody holds,
\* and whoever shortens the hiding of a held entry disturbs it.
LEMMA LeaseStep ==
  ASSUME TypeOK, CurOK, BodyIffReady, LeaseCovers, ExclusiveUnlessDisturbed, TypeOK', Next
  PROVE  LeaseCovers' /\ ExclusiveUnlessDisturbed'
<1> USE Numbers
<1>0. stale => stale'
  <2>1. ASSUME NEW d \in Deliverers, NEW e \in Entries, ReleaseOutbox(d, e) PROVE stale => stale'
    BY ZenonT(60), <2>1 DEF ReleaseOutbox
  <2>2. ASSUME NEW d \in Deliverers, RecordOutboxFailure(d) PROVE stale => stale'
    BY ZenonT(60), <2>2 DEF RecordOutboxFailure
  <2>3. ASSUME NEW d \in Deliverers, RenewOutbox(d) PROVE stale' = stale
    BY <2>3 DEF RenewOutbox, Renewed, ghost
  <2>4. QED
    BY ZenonT(60), <2>1, <2>2, <2>3
    DEF Next, Put, SetStatus, Tick, Flush, LeaseOutbox, AckOutbox, Forget, Return, GiveBack, Deliver, Handoff,
        HandoffFails, QueueFull, Abandon, ReplayDeadLetter, Decide, ghost
<1> SUFFICES ASSUME ~stale' PROVE LeaseCovers' /\ ExclusiveUnlessDisturbed'
  BY ZenonT(60) DEF LeaseCovers, ExclusiveUnlessDisturbed
<1> DEFINE Covers == \A d \in Deliverers, e \in Entries :
              Holds(d, e) => e \notin dead /\ (e \in body => ready[e] >= deadline[d][e])
           NoNew == \A d \in Deliverers, e \in Entries : Holds(d, e)' => Holds(d, e)
           Covers1 == \A d \in Deliverers, e \in Entries :
              Holds(d, e)' => e \notin dead' /\ (e \in body' => ready'[e] >= deadline'[d][e])
<1>1. ~stale /\ Covers
  BY <1>0 DEF LeaseCovers
<1>2. NoNew => ExclusiveUnlessDisturbed'
  BY <1>1 DEF ExclusiveUnlessDisturbed
<1>3. Covers1 => LeaseCovers'
  BY ZenonT(60) DEF LeaseCovers
<1> HIDE DEF LeaseCovers, ExclusiveUnlessDisturbed
<1>4. ASSUME NEW e \in Entries, Put(e) PROVE NoNew /\ Covers1
  <2>1. \A d \in Deliverers, x \in Entries : Holds(d, x)' => Holds(d, x) /\ x # e
    BY <1>4 DEF Put, flush, Holds, CurOK
  <2>2. QED
    BY ZenonT(60), <1>1, <1>4, <2>1 DEF TypeOK, Put, flush
<1>5. ASSUME NEW s \in {"running", "paused", "ended", "gone"}, SetStatus(s) PROVE NoNew /\ Covers1
  BY ZenonT(60), <1>1, <1>5 DEF SetStatus, flush, Holds
<1>6. CASE Tick
  <2>1. \A d \in Deliverers, e \in Entries : deadline'[d][e] > 0 =>
           deadline[d][e] > 0 /\ deadline'[d][e] = deadline[d][e] - 1
    BY ZenonT(60), <1>6, TTLAssumption DEF TypeOK, Tick
  <2>2. \A e \in Entries : ready[e] > 0 => ready'[e] = ready[e] - 1
    BY ZenonT(60), <1>6, TTLAssumption DEF TypeOK, Tick
  <2>3. NoNew
    BY ZenonT(60), <1>6, <2>1 DEF Tick, Holds
  <2>4. ASSUME NEW d \in Deliverers, NEW e \in Entries, Holds(d, e)'
        PROVE  e \notin dead' /\ (e \in body' => ready'[e] >= deadline'[d][e])
    <3>1. Holds(d, e) /\ dead' = dead /\ body' = body /\ deadline'[d][e] > 0
      BY ZenonT(60), <1>6, <2>3, <2>4 DEF Tick, Holds
    <3>2. ready[e] \in Int /\ deadline[d][e] \in Int
      BY SMTT(60), TTLAssumption DEF TypeOK
    <3>3. QED
      BY SMTT(60), <1>1, <2>1, <2>2, <3>1, <3>2
  <2>5. QED
    BY ZenonT(60), <1>2, <1>3, <2>3, <2>4
<1>7. ASSUME NEW d \in Deliverers, LeaseOutbox(d) PROVE Covers1 /\ ExclusiveUnlessDisturbed'
  <2>1. \A c \in Deliverers, e \in Due : ~Holds(c, e)
    BY SMTT(60), <1>1 DEF Due, Holds, TypeOK
  <2>2. \A c \in Deliverers, e \in Entries : Holds(c, e)' => (IF c = d THEN e \in Due ELSE Holds(c, e))
    BY ZenonT(60), <1>7 DEF LeaseOutbox, Claimed, Goto, Holds, TypeOK
  <2>3. \A e \in Due : ready'[e] = TTL /\ e \in body /\ e \notin dead
    BY <1>7 DEF LeaseOutbox, Due, TypeOK, BodyIffReady
  <2>4. \A e \in Entries : e \notin Due => ready'[e] = ready[e]
    BY ZenonT(60), <1>7 DEF LeaseOutbox
  <2>5. \A c \in Deliverers, e \in Entries : deadline'[c][e] <= TTL /\ (c # d => deadline'[c][e] = deadline[c][e])
    BY <1>7, TTLAssumption DEF LeaseOutbox, Claimed, TypeOK
  <2>6. body' = body /\ dead' = dead
    BY ZenonT(60), <1>7 DEF LeaseOutbox
  <2>7. Covers1
    BY ZenonT(60), <1>1, <2>1, <2>2, <2>3, <2>4, <2>5, <2>6, TTLAssumption
  <2>8. ExclusiveUnlessDisturbed'
    BY ZenonT(60), <1>1, <2>1, <2>2 DEF ExclusiveUnlessDisturbed
  <2>9. QED
    BY ZenonT(60), <2>7, <2>8
<1>8. ASSUME NEW d \in Deliverers, AckOutbox(d) PROVE NoNew /\ Covers1
  <2>1. NoNew
    BY <1>8 DEF AckOutbox, Goto, Holds, TypeOK
  <2>2. QED
    BY ZenonT(60), <1>1, <1>8, <2>1 DEF AckOutbox, TypeOK
<1>9. ASSUME NEW d \in Deliverers, Forget(d) PROVE NoNew /\ Covers1
  <2>1. cur[d] \in Entries
    BY ZenonT(60), <1>9 DEF Forget, Goto, CurOK, TypeOK
  <2>2. \A c \in Deliverers, e \in Entries : Holds(c, e)' => Holds(c, e) /\ deadline'[c][e] = deadline[c][e]
    BY ZenonT(60), <1>9, <2>1 DEF Forget, Goto, Holds, TypeOK
  <2>3. QED
    BY ZenonT(60), <1>1, <1>9, <2>2 DEF Forget, store
<1>10. ASSUME NEW d \in Deliverers, RecordOutboxFailure(d) PROVE NoNew /\ Covers1
  <2>1. NoNew
    BY ZenonT(60), <1>10 DEF RecordOutboxFailure, Goto, Holds, TypeOK
  <2>2. CASE dead' = dead /\ body' = body /\ ready' = ready
    BY ZenonT(60), <1>1, <1>10, <2>1, <2>2 DEF RecordOutboxFailure
  <2>3. CASE /\ cur[d] \in body /\ dead' = dead \cup {cur[d]} /\ body' = body \ {cur[d]}
             /\ ready' = [ready EXCEPT ![cur[d]] = None] /\ stale' = (stale \/ Disturbs(d, cur[d]))
    <3>1. \A c \in Deliverers : ~Holds(c, cur[d])'
      BY ZenonT(60), <1>10, <2>1, <2>3 DEF RecordOutboxFailure, Goto, Disturbs, Holds, TypeOK
    <3>2. QED
      BY SMTT(60), <1>1, <1>10, <2>1, <2>3, <3>1 DEF RecordOutboxFailure, TypeOK
  <2>4. QED
    BY ZenonT(60), <1>10, <2>2, <2>3 DEF RecordOutboxFailure
<1>11. ASSUME NEW d \in Deliverers, Return(d) \/ QueueFull(d) PROVE NoNew /\ Covers1
  <2>1. NoNew
    BY ZenonT(60), <1>11 DEF Return, QueueFull, Goto, Holds, TypeOK
  <2>2. QED
    BY ZenonT(60), <1>1, <1>11, <2>1 DEF Return, QueueFull, store
<1>12. ASSUME NEW d \in Deliverers, NEW e \in Entries, GiveBack(d, e) PROVE NoNew /\ Covers1
  <2>1. \A c \in Deliverers, x \in Entries : Holds(c, x)' =>
           Holds(c, x) /\ deadline'[c][x] = deadline[c][x] /\ ~(c = d /\ x = e)
    BY <1>12 DEF GiveBack, Holds, TypeOK
  <2>2. CASE UNCHANGED ready
    BY ZenonT(60), <1>1, <1>12, <2>1, <2>2 DEF GiveBack
  <2>3. CASE ready' = [ready EXCEPT ![e] = IF e \in body THEN 0 ELSE @] /\ stale' = (stale \/ Disturbs(d, e))
    <3>1. \A c \in Deliverers : e \in body => ~Holds(c, e)'
      BY ZenonT(60), <2>1, <2>3 DEF Disturbs
    <3>2. QED
      BY SMTT(60), <1>1, <1>12, <2>1, <2>3, <3>1 DEF GiveBack, TypeOK
  <2>4. QED
    BY ZenonT(60), <1>12, <2>2, <2>3 DEF GiveBack, ReleaseOutbox
<1>13. ASSUME NEW d \in Deliverers, NEW e \in Entries, Handoff(d, e) PROVE NoNew /\ Covers1
  <2>1. NoNew
    BY <1>13 DEF Handoff, Goto, Holds, TypeOK
  <2>2. QED
    BY <1>1, <1>13, <2>1 DEF Handoff, store
<1>14. ASSUME NEW d \in Deliverers, NEW e \in Entries, HandoffFails(d, e) PROVE NoNew /\ Covers1
  <2>1. \A c \in Deliverers, x \in Entries : Holds(c, x)' => Holds(c, x) /\ ~(c = d /\ x = e)
    BY ZenonT(60), <1>14 DEF HandoffFails, Goto, Holds, TypeOK
  <2>2. CASE UNCHANGED ready
    BY ZenonT(60), <1>1, <1>14, <2>1, <2>2 DEF HandoffFails
  <2>3. CASE ready' = [ready EXCEPT ![e] = IF e \in body THEN 0 ELSE @] /\ stale' = (stale \/ Disturbs(d, e))
    <3>1. \A c \in Deliverers : e \in body => ~Holds(c, e)'
      BY ZenonT(60), <2>1, <2>3 DEF Disturbs
    <3>2. QED
      BY <1>1, <1>14, <2>1, <2>3, <3>1 DEF HandoffFails, TypeOK
  <2>4. QED
    BY <1>14, <2>2, <2>3 DEF HandoffFails, ReleaseOutbox
<1>15. ASSUME NEW d \in Deliverers, RenewOutbox(d) PROVE NoNew /\ Covers1
  <2>1. PICK granted \in SUBSET Entries, told \in SUBSET Entries :
           told \subseteq granted /\ (\A e \in granted : Owned(d, e)) /\ Renewed(d, granted, told)
    BY <1>15, RenewIsFenced
  <2>2. NoNew
    BY <2>1 DEF Renewed, Owned, Holds, TypeOK
  <2>3. \A c \in Deliverers, e \in Entries :
           /\ deadline'[c][e] \in Int /\ deadline'[c][e] <= TTL
           /\ deadline'[c][e] = deadline[c][e] \/ e \in granted
    BY <2>1, TTLAssumption DEF Renewed, TypeOK
  <2>4. \A e \in Entries : ready'[e] = IF e \in granted THEN TTL ELSE ready[e]
    BY <2>1 DEF Renewed
  <2>5. body' = body /\ dead' = dead
    BY <2>1 DEF Renewed
  <2>6. ASSUME NEW c \in Deliverers, NEW e \in Entries, Holds(c, e)'
        PROVE  e \notin dead' /\ (e \in body' => ready'[e] >= deadline'[c][e])
    <3>1. Holds(c, e)
      BY Zenon, <2>2, <2>6
    <3>2. e \notin dead' /\ (e \in body' => ready[e] >= deadline[c][e])
      BY Zenon, <1>1, <2>5, <3>1
    <3>3. CASE e \in granted
      <4>1. ready'[e] = TTL
        BY Zenon, <2>4, <3>3
      <4>2. deadline'[c][e] \in Int /\ deadline'[c][e] <= TTL
        BY Zenon, <2>3
      <4>3. QED
        BY <3>2, <4>1, <4>2, TTLAssumption
    <3>4. CASE e \notin granted
      <4>1. ready'[e] = ready[e]
        BY Zenon, <2>4, <3>4
      <4>2. deadline'[c][e] = deadline[c][e]
        BY Zenon, <2>3, <3>4
      <4>3. QED
        BY Zenon, <3>2, <4>1, <4>2
    <3>5. QED
      BY Zenon, <3>3, <3>4
  <2>7. QED
    BY Zenon, <2>2, <2>6
<1>16. ASSUME NEW d \in Deliverers, Abandon(d) PROVE NoNew /\ Covers1
  <2>1. \A c \in Deliverers, e \in Entries : Holds(c, e)' => Holds(c, e) /\ deadline'[c][e] = deadline[c][e]
    BY ZenonT(60), <1>16 DEF Abandon, Holds, TypeOK
  <2>2. QED
    BY ZenonT(60), <1>1, <1>16, <2>1 DEF Abandon, store
<1>17. ASSUME NEW r \in Requests, NEW e \in Entries, NEW ns \in NodeStates, NEW act \in Activations,
              ReplayDeadLetter(r, e, ns, act)
       PROVE  NoNew /\ Covers1
  <2>1. NoNew /\ deadline' = deadline
    BY ZenonT(60), <1>17 DEF ReplayDeadLetter, Decide, flush, Holds
  <2>2. PICK v : e \in dead /\ Decide(r, e, v)
    BY ZenonT(60), <1>17 DEF ReplayDeadLetter
  <2>3. CASE v = "replayed"
    <3>1. \A c \in Deliverers : ~Holds(c, e)'
      BY ZenonT(60), <1>1, <2>1, <2>2
    <3>2. /\ dead' = dead \ {e} /\ body' = body \cup {e}
          /\ \A x \in Entries \ {e} : ready'[x] = ready[x]
      BY <2>2, <2>3 DEF Decide, TypeOK
    <3>3. QED
      BY ZenonT(60), <1>1, <2>1, <3>1, <3>2
  <2>4. CASE v # "replayed"
    BY ZenonT(60), <1>1, <2>1, <2>2, <2>4 DEF Decide
  <2>5. QED
    BY ZenonT(60), <2>1, <2>3, <2>4
<1> HIDE DEF NoNew, Covers1
<1>18. QED
  BY ZenonT(60), <1>2, <1>3, <1>4, <1>5, <1>6, <1>7, <1>8, <1>9, <1>10, <1>11, <1>12, <1>13, <1>14, <1>15, <1>16, <1>17
  DEF Next, Flush, Deliver

\* A failed handoff is counted at most once, by the flush that saw it.
LEMMA FailureStep ==
  ASSUME TypeOK, CurOK, FailuresCover, Next
  PROVE  FailuresCover'
<1> SUFFICES ASSUME NEW x \in Entries
             PROVE  /\ IsFiniteSet(Recorders(x)')
                    /\ failures'[x] >= attempts'[x] + Cardinality(Recorders(x)')
  BY DEF FailuresCover
<1> DEFINE R == Recorders(x)
           Goal == IsFiniteSet(R') /\ failures'[x] >= attempts'[x] + Cardinality(R')
           Fewer == R' \subseteq R /\ failures'[x] = failures[x] /\ (attempts'[x] = attempts[x] \/ attempts'[x] = 0)
<1>1. /\ IsFiniteSet(R) /\ Cardinality(R) \in Nat /\ failures[x] >= attempts[x] + Cardinality(R)
      /\ failures[x] \in Int /\ attempts[x] \in Nat /\ attempts[x] <= MaxAttempts - 1
  BY FS_CardinalityType, MaxAttemptsAssumption DEF FailuresCover, TypeOK
<1>2. Fewer => Goal
  <2> SUFFICES ASSUME Fewer PROVE Goal
    OBVIOUS
  <2>1. IsFiniteSet(R') /\ Cardinality(R') <= Cardinality(R) /\ Cardinality(R') \in Nat
    BY <1>1, FS_Subset, FS_CardinalityType
  <2> QED
    BY <1>1, <2>1
<1>3. ASSUME NEW e \in Entries, Put(e) PROVE Fewer
  BY <1>3 DEF Put, flush, ghost, Recorders
<1>4. ASSUME NEW s \in {"running", "paused", "ended", "gone"}, SetStatus(s) PROVE Fewer
  BY <1>4 DEF SetStatus, flush, ghost, Recorders
<1>5. ASSUME Tick PROVE Fewer
  BY <1>5 DEF Tick, ghost, Recorders
<1>6. ASSUME NEW d \in Deliverers, LeaseOutbox(d) PROVE Fewer
  BY <1>6 DEF LeaseOutbox, Claimed, Goto, ghost, Recorders, TypeOK
<1>7. ASSUME NEW d \in Deliverers, AckOutbox(d) PROVE Fewer
  BY <1>7 DEF AckOutbox, Goto, ghost, Recorders, TypeOK
<1>8. ASSUME NEW d \in Deliverers, Forget(d) \/ Return(d) \/ QueueFull(d) \/ Abandon(d) PROVE Fewer
  BY <1>8 DEF Forget, Return, QueueFull, Abandon, Goto, store, ghost, Recorders, TypeOK
<1>9. ASSUME NEW d \in Deliverers, NEW e \in Entries, GiveBack(d, e) \/ Handoff(d, e) PROVE Fewer
  BY <1>9 DEF GiveBack, Handoff, Goto, store, Recorders, TypeOK
<1>10. ASSUME NEW d \in Deliverers, RenewOutbox(d) PROVE Fewer
  BY Zenon, <1>10 DEF RenewOutbox, Renewed, ghost, Recorders
<1>11. ASSUME NEW d \in Deliverers, NEW e \in Entries, HandoffFails(d, e) PROVE Goal
  <2>1. /\ attempts' = attempts /\ failures' = [failures EXCEPT ![e] = @ + 1]
        /\ pc' = [pc EXCEPT ![d] = "record"] /\ cur' = [cur EXCEPT ![d] = e] /\ pc[d] = "deliver"
    BY <1>11 DEF HandoffFails, Goto
  <2>2. CASE x = e
    <3>1. R' = R \cup {d} /\ d \notin R
      BY <2>1, <2>2 DEF Recorders, TypeOK
    <3>2. IsFiniteSet(R') /\ Cardinality(R') = Cardinality(R) + 1
      BY <1>1, <3>1, FS_AddElement
    <3> QED
      BY <1>1, <2>1, <2>2, <3>2 DEF TypeOK
  <2>3. CASE x # e
    <3>1. R' \subseteq R
      BY <2>1, <2>3 DEF Recorders, TypeOK
    <3> QED
      BY <1>2, <2>1, <2>3, <3>1 DEF TypeOK
  <2> QED
    BY <2>2, <2>3
<1>12. ASSUME NEW d \in Deliverers, RecordOutboxFailure(d) PROVE Goal
  <2> DEFINE e == cur[d]
  <2>1. pc[d] = "record" /\ pc' = [pc EXCEPT ![d] = "forget"] /\ cur' = cur /\ e \in Entries
    BY <1>12 DEF RecordOutboxFailure, Goto, CurOK, TypeOK
  <2>2. \/ UNCHANGED <<attempts, failures>>
        \/ attempts' = [attempts EXCEPT ![e] = @ + 1] /\ failures' = failures
        \/ /\ attempts[e] + 1 >= MaxAttempts /\ attempts' = [attempts EXCEPT ![e] = 0]
           /\ failures' = [failures EXCEPT ![e] = @ - MaxAttempts]
    BY <1>12 DEF RecordOutboxFailure
  <2>3. CASE x = e
    <3>1. R' = R \ {d} /\ d \in R
      BY <2>1, <2>3 DEF Recorders, TypeOK
    <3>2. IsFiniteSet(R') /\ Cardinality(R') = Cardinality(R) - 1
      BY <1>1, <3>1, FS_RemoveElement
    <3> HIDE DEF R
    <3> QED
      BY <1>1, <2>2, <2>3, <3>2, MaxAttemptsAssumption DEF TypeOK
  <2>4. CASE x # e
    <3>1. R' \subseteq R
      BY <2>1, <2>4 DEF Recorders, TypeOK
    <3> HIDE DEF R
    <3> QED
      BY <1>2, <2>2, <2>4, <3>1 DEF TypeOK
  <2> QED
    BY <2>3, <2>4
<1>13. ASSUME NEW r \in Requests, NEW e \in Entries, NEW ns \in NodeStates, NEW act \in Activations,
              ReplayDeadLetter(r, e, ns, act)
       PROVE  Fewer
  <2>1. R' = R /\ failures' = failures
    BY Zenon, <1>13 DEF ReplayDeadLetter, Decide, flush, ghost, Recorders
  <2>2. PICK v : Decide(r, e, v)
    BY <1>13 DEF ReplayDeadLetter
  <2> QED
    BY <2>1, <2>2 DEF Decide, TypeOK
<1> HIDE DEF R, Goal, Fewer
<1>14. Goal
  BY ZenonT(60), <1>2, <1>3, <1>4, <1>5, <1>6, <1>7, <1>8, <1>9, <1>10, <1>11, <1>12, <1>13
  DEF Next, Flush, Deliver
<1> QED
  BY <1>14 DEF R, Goal

\* Flushes, keepers, crashes and replays keep the invariant.
LEMMA Invariance == Spec => []Inv
<1>1. Init => Inv
  <2> SUFFICES ASSUME Init PROVE Inv
    OBVIOUS
  <2>1. TypeOK
    <3>1. stale \in BOOLEAN /\ put = {} /\ body = {} /\ dead = {}
      BY ZenonT(60) DEF Init
    <3>2. /\ ready \in [Entries -> 0..TTL \cup {None}]
          /\ attempts \in [Entries -> 0..(MaxAttempts - 1)]
          /\ failures \in [Entries -> Int] /\ faults \in 0..MaxFaults
      BY Numbers, MaxFaultsAssumption DEF Init
    <3>3. /\ intent \in [Entries -> Sources] /\ status \in {"running", "paused", "ended", "gone"}
          /\ receipts \in [Requests -> Rejections \cup {"replayed", Nothing}]
          /\ replayedBy \in [Entries -> Requests \cup {Nothing}]
      BY DEF Init
    <3>4. /\ pc \in [Deliverers -> {"idle", "deliver", "ack", "release", "record", "forget"}]
          /\ cur \in [Deliverers -> Entries \cup {Nothing}]
          /\ held \in [Deliverers -> SUBSET Entries] /\ keep \in [Deliverers -> SUBSET Entries]
          /\ outcome \in [Entries -> {Nothing, "sent", "dropped"}]
      BY DEF Init
    <3>5. deadline \in [Deliverers -> [Entries -> 0..TTL]]
      BY Numbers DEF Init
    <3>6. QED
      BY <3>1, <3>2, <3>3, <3>4, <3>5 DEF TypeOK
  <2>2. \A d \in Deliverers : held[d] = {} /\ pc[d] = "idle"
    BY DEF Init
  <2>3. CurOK /\ LeaseCovers /\ ExclusiveUnlessDisturbed
    BY <2>2 DEF CurOK, LeaseCovers, ExclusiveUnlessDisturbed, Holds
  <2>4. BodyIffReady /\ NothingLost
    BY DEF Init, BodyIffReady, NothingLost
  <2>5. FailuresCover
    <3>1. \A e \in Entries : Recorders(e) = {}
      BY <2>2 DEF Recorders
    <3>2. \A e \in Entries : failures[e] = 0 /\ attempts[e] = 0
      BY DEF Init
    <3> QED
      BY <3>1, <3>2, FS_EmptySet DEF FailuresCover
  <2>6. QED
    BY <2>1, <2>3, <2>4, <2>5 DEF Inv
<1>2. Inv /\ [Next]_vars => Inv'
  <2>1. Inv /\ Next => Inv'
    BY ZenonT(60), TypeStep, CurStep, BodyStep, LeaseStep, FailureStep DEF Inv
  <2>2. Inv /\ UNCHANGED vars => Inv'
    <3> SUFFICES ASSUME Inv, UNCHANGED vars PROVE Inv'
      OBVIOUS
    <3>1. TypeOK' /\ CurOK' /\ BodyIffReady' /\ NothingLost' /\ LeaseCovers' /\ ExclusiveUnlessDisturbed'
      BY DEF Inv, vars, TypeOK, CurOK, BodyIffReady, NothingLost, LeaseCovers, ExclusiveUnlessDisturbed, Holds
    <3>2. FailuresCover'
      BY Zenon DEF Inv, vars, FailuresCover, Recorders
    <3> QED
      BY <3>1, <3>2 DEF Inv
  <2>3. QED
    BY <2>1, <2>2
<1>3. QED
  BY <1>1, <1>2, PTL DEF Spec

\* Scores stay within the lease, attempts below the limit, and a flush works
\* only on entries that were appended.
THEOREM TypeCorrect == Spec => []TypeOK
<1>1. Inv => TypeOK
  BY DEF Inv
<1>2. QED
  BY <1>1, Invariance, PTL

\* recordOutboxDeliveryFailure gives up no intent before MaxAttempts handoffs
\* of it failed since it was last appended, replayed or given up.
THEOREM DeadLettersAreEarned == Spec => []DeadIsEarned
<1>1. Inv => DeadIsEarned
  <2> SUFFICES ASSUME Inv, NEW e \in Entries PROVE failures[e] >= 0
    BY DEF DeadIsEarned
  <2>1. Cardinality(Recorders(e)) \in Nat /\ attempts[e] \in Nat /\ failures[e] \in Int
    BY FS_CardinalityType, MaxAttemptsAssumption DEF Inv, FailuresCover, TypeOK
  <2> QED
    BY <2>1 DEF Inv, FailuresCover
<1>2. QED
  BY <1>1, Invariance, PTL

\* The equivalence recordOutboxFailureLua and releaseOutboxLua rest on.
THEOREM BodiesAreReady == Spec => []BodyIffReady
<1>1. Inv => BodyIffReady
  BY DEF Inv
<1>2. QED
  BY <1>1, Invariance, PTL

\* At-least-once delivery: FlushOutbox gives up no intent it did not hand over.
THEOREM NoIntentIsLost == Spec => []NothingLost
<1>1. Inv => NothingLost
  BY DEF Inv
<1>2. QED
  BY <1>1, Invariance, PTL

\* Fenced renewals never steal: only a settlement by a deliverer whose lease
\* ran out can put an entry into two hands.
THEOREM ClaimsAreExclusive == Spec => []ExclusiveUnlessDisturbed
<1>1. Inv => ExclusiveUnlessDisturbed
  BY DEF Inv
<1>2. QED
  BY <1>1, Invariance, PTL

\* Claims, leases, failures and faults stutter in the abstract outbox; a
\* handoff consumes an intent that is not settled, an acknowledgement settles
\* one that was consumed, and the dead letters are entered and left as there.
THEOREM Refinement == Spec => ImplementsOutbox
<1> DEFINE Consumed == {e \in Entries : outcome[e] # Nothing}
<1>1. ASSUME Init PROVE Promise!Init
  <2>1. Consumed = {}
    BY <1>1 DEF Init
  <2>2. QED
    BY <1>1, <2>1 DEF Init, Promise!Init
<1>2. ASSUME Inv, [Next]_vars PROVE [Promise!Next]_(Promise!vars)
  <2>1. TypeOK /\ CurOK /\ BodyIffReady /\ NothingLost
    BY <1>2 DEF Inv
  <2>2. ASSUME NEW d \in Deliverers, NEW e \in Entries, Handoff(d, e)
        PROVE  Promise!Consume(e) \/ UNCHANGED Promise!vars
    <3>1. put' = put /\ body' = body /\ dead' = dead
      BY <2>2 DEF Handoff, store
    <3>2. e \in put /\ (outcome[e] = Nothing => e \in body \cup dead)
      BY <2>1, <2>2 DEF CurOK, NothingLost, Handoff
    <3>3. Consumed' = Consumed \cup {e}
      BY <2>1, <2>2 DEF Handoff, TypeOK, Nothing
    <3>4. e \in Consumed \/ e \in (body \cup dead) \ Consumed
      BY <3>2
    <3> HIDE DEF Consumed
    <3>5. CASE e \in Consumed
      <4>1. Consumed' = Consumed
        BY <3>3, <3>5
      <4>2. QED
        BY <4>1, <3>1 DEF Promise!vars, Consumed
    <3>6. CASE e \in (body \cup dead) \ Consumed
      BY <3>6, <3>1, <3>3 DEF Promise!Consume, Consumed
    <3>7. QED
      BY <3>4, <3>5, <3>6
  <2>3. ASSUME outcome' = outcome
        PROVE  Promise!Next \/ UNCHANGED Promise!vars
    <3>0. Consumed' = Consumed
      BY <2>3
    <3>1. CASE Quiet \/ \E r \in Requests : Rejected(r)
      BY <3>0, <3>1 DEF Quiet, Rejected, Promise!vars
    <3>2. ASSUME NEW e \in Entries, Put(e) PROVE Promise!Append(e)
      BY <3>0, <3>2 DEF Put, Promise!Append
    <3>3. ASSUME NEW e \in Entries, Buried(e) PROVE Promise!GiveUp(e)
      BY <3>0, <3>3 DEF Buried, Promise!GiveUp
    <3>4. ASSUME NEW d \in Deliverers, Settled(d)
          PROVE  cur[d] \in Entries /\ (Promise!Settle(cur[d]) \/ UNCHANGED Promise!vars)
      <4>1. cur[d] \in Entries /\ outcome[cur[d]] # Nothing
        BY <2>1, <3>4 DEF Settled, CurOK, TypeOK
      <4>2. CASE cur[d] \in body
        BY <3>0, <3>4, <4>1, <4>2 DEF Settled, Promise!Settle
      <4>3. CASE cur[d] \notin body
        BY <3>0, <3>4, <4>1, <4>3 DEF Settled, Promise!vars
      <4>4. QED
        BY <4>1, <4>2, <4>3
    <3>5. ASSUME NEW r \in Requests, NEW e \in Entries, Revived(r, e) PROVE Promise!Replay(e)
      BY <3>0, <3>5 DEF Revived, Promise!Replay
    <3>6. QED
      BY ZenonT(60), <1>2, <2>1, <3>1, <3>2, <3>3, <3>4, <3>5, StoreCases DEF Promise!Next
  <2>4. QED
    BY ZenonT(60), <1>2, <2>2, <2>3, OutcomeCases DEF Promise!Next
<1>3. QED
  BY <1>1, <1>2, Invariance, PTL DEF Spec, ImplementsOutbox, Promise!Spec

\* An acknowledged intent never comes back, not even by a late failure report,
\* a late release or a replay (recordOutboxFailureLua, releaseOutboxLua).
SettledStaysSettled ==
    [][\A e \in put : e \notin body \cup dead => e \notin body' \cup dead']_vars

\* An acknowledged intent stays gone, whatever arrives late.
THEOREM AckIsFinal == Spec => SettledStaysSettled
<1>1. Inv /\ [Next]_vars => [\A e \in put : e \notin body \cup dead => e \notin body' \cup dead']_vars
  <2> SUFFICES ASSUME Inv, [Next]_vars, NEW e \in put, e \notin body \cup dead
               PROVE  e \notin body' \cup dead'
    OBVIOUS
  <2>1. TypeOK /\ CurOK /\ BodyIffReady
    BY DEF Inv
  <2>2. QED
    BY <2>1, StoreCases DEF Quiet, Put, Buried, Settled, Revived, Rejected
<1>2. QED
  BY <1>1, Invariance, PTL DEF Spec, SettledStaysSettled

\* A RequestID is answered once, and a dead letter moves once per RequestID.
THEOREM ReplayIsIdempotent == Spec => ReceiptsAreFinal
<1> DEFINE Final ==
      /\ \A r \in Requests : receipts[r] # Nothing => receipts'[r] = receipts[r]
      /\ \A e \in dead \cap body' : \E r \in Requests :
            receipts[r] = Nothing /\ receipts'[r] = "replayed" /\ replayedBy'[e] = r
<1>1. Inv /\ [Next]_vars => [Final]_vars
  <2> SUFFICES ASSUME Inv, [Next]_vars PROVE Final
    OBVIOUS
  <2>1. TypeOK /\ CurOK /\ BodyIffReady
    BY DEF Inv
  <2>2. \A e \in dead : e \in Entries /\ e \notin body
    BY ZenonT(60), <2>1 DEF TypeOK, BodyIffReady
  <2>3. CASE Quiet
    BY ZenonT(60), <2>2, <2>3 DEF Quiet
  <2>4. ASSUME NEW e \in Entries, Put(e) PROVE Final
    BY <2>1, <2>2, <2>4 DEF Put, TypeOK
  <2>5. ASSUME NEW e \in Entries, Buried(e) PROVE Final
    BY ZenonT(60), <2>2, <2>5 DEF Buried
  <2>6. ASSUME NEW d \in Deliverers, Settled(d) PROVE Final
    BY <2>2, <2>6 DEF Settled
  <2>7. ASSUME NEW r \in Requests, NEW e \in Entries, Revived(r, e) PROVE Final
    BY <2>1, <2>2, <2>7 DEF Revived, TypeOK
  <2>8. ASSUME NEW r \in Requests, Rejected(r) PROVE Final
    BY <2>1, <2>2, <2>8 DEF Rejected, TypeOK
  <2>9. QED
    BY ZenonT(60), <2>1, <2>3, <2>4, <2>5, <2>6, <2>7, <2>8, StoreCases
<1>2. QED
  BY <1>1, Invariance, PTL DEF Spec, ReceiptsAreFinal
=============================================================================
