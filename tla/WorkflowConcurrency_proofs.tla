--------------------- MODULE WorkflowConcurrency_proofs ---------------------
(***************************************************************************)
(* The accounting of slots, the holds of intents, the bound on admissions  *)
(* and the order of the line, for any number of executions, limits and     *)
(* backlogs.                                                               *)
(***************************************************************************)
EXTENDS WorkflowConcurrency, SequenceTheorems, FiniteSetTheorems, TLAPS

\* A started execution has its intents, no insert is in flight and no release is
\* to come for an execution the store does not know, and the release comes after
\* the insert.
Started ==
    \A e \in Executions :
        /\ status[e] \in {"running", "paused"} => intents[e] # "none"
        /\ status[e] = "none" => e \notin pending /\ e \notin releasing
        /\ e \in pending => e \notin releasing

Inv == TypeOK /\ SlotAccounting /\ HoldMatchesStatus /\ Started

\* Sequence s without its p-th element.
Cut(s, p) == SubSeq(s, 1, p - 1) \o SubSeq(s, p + 1, Len(s))

\* The members of q stand in q in the order in which they stand in the line.
KeepsOrder(q) ==
    \A i, j \in 1..Len(q) : i < j =>
        \E m, n \in DOMAIN queued : m < n /\ queued[m] = q[i] /\ queued[n] = q[j]

\* The line without e, how many of it are promoted when e leaves, and who.
Rest(e) == removeQueued(e)
Count(e) == IF e \in holders \cup Line THEN PromoteCount(holders \ {e}, Rest(e)) ELSE 0
Promoted(e) == {Rest(e)[i] : i \in 1..Count(e)}

-----------------------------------------------------------------------------
(* Sequences and cardinalities.                                            *)

\* Taking an element out of a sequence closes the gap.
LEMMA Removed ==
    ASSUME NEW S, NEW s \in Seq(S), NEW p \in 1..Len(s)
    PROVE  /\ Cut(s, p) \in Seq(S)
           /\ Len(Cut(s, p)) = Len(s) - 1
           /\ \A i \in 1..Len(s)-1 : Cut(s, p)[i] = s[IF i < p THEN i ELSE i + 1]
<1>1. Cut(s, p) = SubSeq(s, 1, p - 1) \o SubSeq(s, p + 1, Len(s))
  BY DEF Cut
<1>2. /\ SubSeq(s, 1, p - 1) \in Seq(S) /\ Len(SubSeq(s, 1, p - 1)) = p - 1
      /\ \A i \in 1..p-1 : SubSeq(s, 1, p - 1)[i] = s[i]
  BY SubSeqProperties
<1>3. /\ SubSeq(s, p + 1, Len(s)) \in Seq(S) /\ Len(SubSeq(s, p + 1, Len(s))) = Len(s) - p
      /\ \A i \in 1..Len(s)-p : SubSeq(s, p + 1, Len(s))[i] = s[p + i]
  BY SubSeqProperties
<1>4. PICK a : a = SubSeq(s, 1, p - 1)
  BY Zenon
<1>5. PICK b : b = SubSeq(s, p + 1, Len(s))
  BY Zenon
<1>6. a \in Seq(S) /\ Len(a) = p - 1 /\ \A i \in 1..p-1 : a[i] = s[i]
  BY <1>2, <1>4, Zenon
<1>7. b \in Seq(S) /\ Len(b) = Len(s) - p /\ \A i \in 1..Len(s)-p : b[i] = s[p + i]
  BY <1>3, <1>5, Zenon
<1>8. Cut(s, p) = a \o b
  BY Zenon, <1>1, <1>4, <1>5
<1>9. /\ a \o b \in Seq(S)
       /\ Len(a \o b) = Len(s) - 1
       /\ \A i \in 1..Len(s)-1 : (a \o b)[i] = s[IF i < p THEN i ELSE i + 1]
  <2>1. /\ a \o b \in Seq(S)
        /\ Len(a \o b) = Len(a) + Len(b)
        /\ \A i \in 1..Len(a) + Len(b) : (a \o b)[i] = IF i <= Len(a) THEN a[i] ELSE b[i - Len(a)]
    <3>1. a \in Seq(S) /\ b \in Seq(S)
      BY <1>6, <1>7
    <3>q. QED
      BY <3>1, ConcatProperties, Zenon
  <2>2. Len(a \o b) = Len(s) - 1
    BY <2>1, <1>6, <1>7
  <2>3. ASSUME NEW i \in 1..Len(s)-1, i < p PROVE (a \o b)[i] = s[i]
    BY <2>1, <2>3, <1>6, <1>7
  <2>4. ASSUME NEW i \in 1..Len(s)-1, ~(i < p) PROVE (a \o b)[i] = s[i + 1]
    <3>1. i - Len(a) \in 1..Len(s)-p /\ ~(i <= Len(a)) /\ i \in 1..Len(a) + Len(b)
      BY <2>4, <1>6, <1>7
    <3>2. (a \o b)[i] = b[i - Len(a)]
      BY <3>1, <2>1
    <3>3. b[i - Len(a)] = s[p + (i - Len(a))] /\ p + (i - Len(a)) = i + 1
      BY <3>1, <1>6, <1>7
    <3>q. QED
      BY <3>2, <3>3
  <2>q. QED
    BY <2>1, <2>2, <2>3, <2>4
<1>q. QED
  BY <1>8, <1>9, Zenon

\* A line without duplicates is no longer than there are executions.
LEMMA LineIsShort ==
    ASSUME NEW q \in Seq(Executions),
           \A i, j \in 1..Len(q) : q[i] = q[j] => i = j
    PROVE  Len(q) <= Cardinality(Executions)
<1>1. q \in Injection(1..Len(q), Executions)
  BY DEF Injection, IsInjective
<1>2. Cardinality(1..Len(q)) = Len(q)
  BY SMTT(30), FS_Interval
<1>3. Cardinality(1..Len(q)) <= Cardinality(Executions)
  BY <1>1, FS_Injection, ExecutionsAssumption
<1>q. QED
  BY <1>2, <1>3

\* The first k members of a line are at most k.
LEMMA FirstAreFew ==
    ASSUME NEW q \in Seq(Executions), NEW k \in 0..Len(q)
    PROVE  IsFiniteSet({q[i] : i \in 1..k}) /\ Cardinality({q[i] : i \in 1..k}) <= k
<1> DEFINE T == {q[i] : i \in 1..k}
           f == [i \in 1..k |-> q[i]]
<1>1. f \in Surjection(1..k, T)
  BY Zenon DEF Surjection
<1>2. IsFiniteSet(1..k) /\ Cardinality(1..k) = k
  BY FS_Interval
<1>3. IsFiniteSet(T) /\ Cardinality(T) <= Cardinality(1..k)
  BY <1>1, <1>2, FS_Surjection
<1>q. QED
  BY <1>2, <1>3

-----------------------------------------------------------------------------
(* A departure.                                                            *)

\* removeQueued takes e out of the line and keeps the order of the others.
LEMMA RestOfLine ==
    ASSUME Inv, NEW e \in Executions, NEW r, r = Rest(e)
    PROVE  /\ r \in Seq(Executions)
           /\ \A i, j \in 1..Len(r) : r[i] = r[j] => i = j
           /\ {r[i] : i \in 1..Len(r)} = Line \ {e}
           /\ KeepsOrder(r)
<1>1. /\ queued \in Seq(Executions) /\ DOMAIN queued = 1..Len(queued) /\ Len(queued) \in Nat
      /\ \A i, j \in 1..Len(queued) : queued[i] = queued[j] => i = j
  BY DEF Inv, TypeOK, SlotAccounting
<1>2. CASE e \notin Line
  <2>1. r = queued
    BY <1>1, <1>2 DEF Rest, removeQueued, Line
  <2>q. QED
    BY <1>1, <1>2, <2>1 DEF Line, KeepsOrder
<1>3. CASE e \in Line
  <2>1. PICK p \in 1..Len(queued) : queued[p] = e
    BY <1>1, <1>3 DEF Line
  <2>2. /\ Cut(queued, p) \in Seq(Executions)
        /\ Len(Cut(queued, p)) = Len(queued) - 1
        /\ \A i \in 1..Len(queued)-1 :
             Cut(queued, p)[i] = queued[IF i < p THEN i ELSE i + 1]
    BY <1>1, Removed, Zenon
  <2>4. /\ r \in Seq(Executions) /\ Len(r) = Len(queued) - 1
        /\ \A i \in 1..Len(queued)-1 : r[i] = queued[IF i < p THEN i ELSE i + 1]
    <3>1. (CHOOSE i \in DOMAIN queued : queued[i] = e) = p
      BY <1>1, <2>1
    <3>2. r = Cut(queued, p)
      BY Zenon, <1>3, <3>1 DEF Rest, removeQueued, Cut
    <3>q. QED
      BY <2>2, <3>2, Zenon
  <2>5. \A i, j \in 1..Len(r) : r[i] = r[j] => i = j
    BY SMTT(30), <1>1, <2>4
  <2>6. KeepsOrder(r)
    <3>1. SUFFICES ASSUME NEW i \in 1..Len(r), NEW j \in 1..Len(r), i < j
                   PROVE  \E m, n \in DOMAIN queued : m < n /\ queued[m] = r[i] /\ queued[n] = r[j]
      BY DEF KeepsOrder
    <3> DEFINE m == IF i < p THEN i ELSE i + 1
               n == IF j < p THEN j ELSE j + 1
    <3>2. m \in 1..Len(queued) /\ n \in 1..Len(queued) /\ m < n
      BY <3>1, <2>4, <1>1
    <3>3. queued[m] = r[i] /\ queued[n] = r[j]
      BY SMTT(30), <2>4, <1>1
    <3>q. QED
      BY SMTT(30), <3>2, <3>3, <1>1
  <2>7. {r[i] : i \in 1..Len(r)} = Line \ {e}
    <3>1. ASSUME NEW i \in 1..Len(r) PROVE r[i] \in Line /\ r[i] # e
      <4> DEFINE m == IF i < p THEN i ELSE i + 1
      <4>1. m \in 1..Len(queued) /\ m # p /\ r[i] = queued[m]
        BY <2>4, <1>1
      <4>q. QED
        BY SMTT(30), <4>1, <1>1, <2>1 DEF Line
    <3>2. ASSUME NEW x \in Line, x # e PROVE \E i \in 1..Len(r) : r[i] = x
      <4>1. PICK m \in 1..Len(queued) : queued[m] = x
        BY <1>1 DEF Line
      <4>2. m # p
        BY <4>1, <3>2, <2>1
      <4>3. CASE m < p
        BY SMTT(30), <4>1, <4>3, <2>4, <1>1
      <4>4. CASE m > p
        <5>1. m - 1 \in 1..Len(r) /\ ~(m - 1 < p) /\ (m - 1) + 1 = m
          BY <4>4, <2>4, <1>1
        <5>2. r[m - 1] = x
          BY SMTT(30), <5>1, <2>4, <4>1
        <5>q. QED
          BY <5>1, <5>2
      <4>q. QED
        BY <4>2, <4>3, <4>4
    <3>q. QED
      BY <3>1, <3>2
  <2>q. QED
    BY Zenon, <2>4, <2>5, <2>6, <2>7
<1>q. QED
  BY <1>2, <1>3

\* promoteLocked moves no more than the line holds, and only into free slots.
LEMMA PromotionFits ==
    ASSUME Inv, NEW e \in Executions
    PROVE  /\ Count(e) \in 0..Len(Rest(e))
           /\ IsFiniteSet(holders \ {e}) /\ Cardinality(holders \ {e}) \in Nat
           /\ limit \in Nat
           /\ Count(e) > 0 => Count(e) + Cardinality(holders \ {e}) <= limit
           /\ e \in holders \cup Line /\ Count(e) = 0 =>
                Cardinality(holders \ {e}) >= limit \/ Len(Rest(e)) = 0
<1>1. Len(Rest(e)) \in Nat /\ limit \in Nat
  BY RestOfLine, LimitsAssumption DEF Inv, TypeOK
<1>2. IsFiniteSet(holders \ {e}) /\ Cardinality(holders \ {e}) \in Nat
  BY ExecutionsAssumption, FS_Subset, FS_CardinalityType DEF Inv, TypeOK
<1>q. QED
  BY <1>1, <1>2 DEF Count, PromoteCount

\* What a departure leaves: P moves from the head of the line to the holders.
LEMMA Departure ==
    ASSUME Inv, NEW e \in Executions, NEW final, NEW left, Depart(e, final, left),
           NEW P, P = Promoted(e)
    PROVE  /\ P \subseteq Line \ {e}
           /\ holders' = (holders \ {e}) \cup P
           /\ queued' \in Seq(Executions) /\ DOMAIN queued' = 1..Len(queued')
           /\ \A i, j \in DOMAIN queued' : queued'[i] = queued'[j] => i = j
           /\ Line' = (Line \ {e}) \ P
           /\ limit' = IF e \in holders \cup Line /\ holders' = {} /\ Line' = {} THEN 0 ELSE limit
           /\ e \notin holders \cup Line => P = {}
           /\ P # {} => Cardinality(holders') <= limit
           /\ Line' # {} => holders' # {}
           /\ \A i, j \in DOMAIN queued : i < j /\ queued[j] \in P => queued[i] \notin Line'
           /\ \A i, j \in DOMAIN queued' : i < j =>
                \E m, n \in DOMAIN queued : m < n /\ queued[m] = queued'[i] /\ queued[n] = queued'[j]
<1>1. PICK r : r = Rest(e)
  OBVIOUS
<1>2. PICK k : k = Count(e)
  OBVIOUS
<1>3. /\ r \in Seq(Executions) /\ Len(r) \in Nat
      /\ \A i, j \in 1..Len(r) : r[i] = r[j] => i = j
      /\ {r[i] : i \in 1..Len(r)} = Line \ {e}
      /\ KeepsOrder(r)
  <2>1. Len(r) \in Nat
    BY <1>1, RestOfLine
  <2>2. r \in Seq(Executions) /\ \A i, j \in 1..Len(r) : r[i] = r[j] => i = j
    BY <1>1, RestOfLine
  <2>3. {r[i] : i \in 1..Len(r)} = Line \ {e}
    BY <1>1, RestOfLine
  <2>4. KeepsOrder(r)
    BY <1>1, RestOfLine
  <2>q. QED
    BY <2>1, <2>2, <2>3, <2>4
<1>4. /\ k \in 0..Len(r)
      /\ IsFiniteSet(holders \ {e}) /\ Cardinality(holders \ {e}) \in Nat /\ limit \in Nat
      /\ k > 0 => k + Cardinality(holders \ {e}) <= limit
  BY <1>1, <1>2, PromotionFits
<1>5. P = {r[i] : i \in 1..k}
  BY <1>1, <1>2 DEF Promoted
<1>6. /\ holders' = (holders \ {e}) \cup P
      /\ queued' = SubSeq(r, k + 1, Len(r))
      /\ limit' = IF e \in holders \cup Line /\ holders' = {} /\ queued' = <<>> THEN 0 ELSE limit
  BY <1>1, <1>2, <1>5 DEF Depart, Rest, Count
<1>7. PICK n : n = Len(r) - k
  OBVIOUS
<1>8. /\ queued' \in Seq(Executions) /\ Len(queued') = n /\ DOMAIN queued' = 1..n /\ n \in 0..Len(r)
      /\ \A i \in 1..n : queued'[i] = r[k + i]
  <2>1. \A i \in k+1..Len(r) : r[i] \in Executions
    BY <1>3, <1>4
  <2>2. /\ SubSeq(r, k + 1, Len(r)) \in Seq(Executions)
        /\ Len(SubSeq(r, k + 1, Len(r))) = IF k + 1 <= Len(r) THEN Len(r) - (k + 1) + 1 ELSE 0
        /\ \A i \in 1..Len(r)-(k+1)+1 : SubSeq(r, k + 1, Len(r))[i] = r[(k + 1) + i - 1]
    BY SMTT(30), <2>1, <1>3, <1>4, SubSeqProperties
  <2>3. /\ queued' \in Seq(Executions)
        /\ Len(queued') = IF k + 1 <= Len(r) THEN Len(r) - (k + 1) + 1 ELSE 0
        /\ \A i \in 1..Len(r)-(k+1)+1 : queued'[i] = r[(k + 1) + i - 1]
    BY <2>2, <1>6, Zenon
  <2>q. QED
    BY SMTT(30), <2>3, <1>3, <1>4, <1>7
<1>9. P \subseteq Line \ {e}
  BY <1>3, <1>4, <1>5
<1>10. Line' = {r[i] : i \in k+1..Len(r)}
  <2>1. ASSUME NEW i \in 1..n PROVE queued'[i] \in {r[j] : j \in k+1..Len(r)}
    BY SMTT(30), <1>3, <1>4, <1>7, <1>8
  <2>2. ASSUME NEW j \in k+1..Len(r) PROVE \E i \in 1..n : queued'[i] = r[j]
    <3>1. j - k \in 1..n /\ k + (j - k) = j
      BY <1>3, <1>4, <1>7
    <3>2. queued'[j - k] = r[j]
      BY <3>1, <1>8
    <3>q. QED
      BY <3>1, <3>2
  <2>q. QED
    BY ZenonT(60), <2>1, <2>2, <1>8 DEF Line
<1>11. Line' = (Line \ {e}) \ P
  <2>1. ASSUME NEW i \in k+1..Len(r) PROVE r[i] \in Line \ {e} /\ r[i] \notin P
    BY <1>3, <1>4, <1>5
  <2>2. ASSUME NEW x \in Line \ {e}, x \notin P PROVE x \in Line'
    <3>1. PICK i \in 1..Len(r) : r[i] = x
      BY <1>3
    <3>2. i \in k+1..Len(r)
      BY <3>1, <2>2, <1>5, <1>4, <1>3
    <3>q. QED
      BY <3>1, <3>2, <1>10
  <2>q. QED
    BY <2>1, <2>2, <1>10
<1>12. \A i, j \in DOMAIN queued' : queued'[i] = queued'[j] => i = j
  <2>1. SUFFICES ASSUME NEW i \in DOMAIN queued', NEW j \in DOMAIN queued', queued'[i] = queued'[j]
                 PROVE  i = j
    OBVIOUS
  <2>2. i \in Int /\ j \in Int /\ k \in Int /\ k + i \in 1..Len(r) /\ k + j \in 1..Len(r)
    BY SMTT(30), <1>3, <1>4, <1>7, <1>8
  <2>3. r[k + i] = r[k + j]
    BY <2>1, <1>8
  <2>4. k + i = k + j
    BY SMTT(30), <2>2, <2>3, <1>3
  <2>q. QED
    BY <2>2, <2>4
<1>13. queued' = <<>> <=> Line' = {}
  <2>1. CASE n = 0
    BY <2>1, <1>8 DEF Line
  <2>2. CASE n # 0
    <3>1. 1 \in DOMAIN queued'
      BY <2>2, <1>3, <1>8
    <3>2. queued'[1] \in Line'
      BY <3>1, Zenon DEF Line
    <3>3. queued' # <<>>
      BY <2>2, <1>8
    <3>q. QED
      BY <3>2, <3>3
  <2>q. QED
    BY <2>1, <2>2
<1>14. e \notin holders \cup Line => P = {}
  BY <1>2, <1>5 DEF Count
<1>15. P # {} => Cardinality(holders') <= limit
  <2>1. IsFiniteSet(P) /\ Cardinality(P) <= k
    <3>1. r \in Seq(Executions) /\ k \in 0..Len(r)
      BY <1>3, <1>4
    <3>2. IsFiniteSet({r[i] : i \in 1..k}) /\ Cardinality({r[i] : i \in 1..k}) <= k
      BY <3>1, FirstAreFew, Zenon
    <3>q. QED
      BY <3>2, <1>5, Zenon
  <2>2. Cardinality(holders') = Cardinality(holders \ {e}) + Cardinality(P) - Cardinality((holders \ {e}) \cap P)
    BY <2>1, <1>4, <1>6, FS_Union
  <2>3. Cardinality((holders \ {e}) \cap P) \in Nat /\ Cardinality(P) \in Nat
    BY <2>1, FS_Subset, FS_CardinalityType
  <2>4. P # {} => k > 0
    BY <1>4, <1>5
  <2>q. QED
    BY SMTT(30), <2>1, <2>2, <2>3, <2>4, <1>4
<1>16. \A i, j \in DOMAIN queued : i < j /\ queued[j] \in P => queued[i] \notin Line'
  <2>1. SUFFICES ASSUME NEW i \in DOMAIN queued, NEW j \in DOMAIN queued, i < j,
                        queued[j] \in P, queued[i] \in Line'
                 PROVE  FALSE
    OBVIOUS
  <2>2. PICK y \in 1..k : queued[j] = r[y]
    BY <2>1, <1>5
  <2>3. PICK x \in k+1..Len(r) : queued[i] = r[x]
    BY <2>1, <1>10
  <2>4. y \in 1..Len(r) /\ x \in 1..Len(r) /\ y < x
    BY <1>3, <1>4
  <2>5. PICK mm, nn \in DOMAIN queued : mm < nn /\ queued[mm] = r[y] /\ queued[nn] = r[x]
    BY <2>4, <1>3 DEF KeepsOrder
  <2>6. mm = j /\ nn = i
    BY <2>2, <2>3, <2>5, Zenon DEF Inv, SlotAccounting
  <2>7. DOMAIN queued \subseteq Int
    BY DEF Inv, TypeOK
  <2>q. QED
    BY <2>1, <2>5, <2>6, <2>7
<1>17. \A i, j \in DOMAIN queued' : i < j =>
         \E mm, nn \in DOMAIN queued : mm < nn /\ queued[mm] = queued'[i] /\ queued[nn] = queued'[j]
  <2>1. SUFFICES ASSUME NEW i \in DOMAIN queued', NEW j \in DOMAIN queued', i < j
                 PROVE  \E mm, nn \in DOMAIN queued : mm < nn /\ queued[mm] = queued'[i] /\ queued[nn] = queued'[j]
    OBVIOUS
  <2>2. k + i \in 1..Len(r) /\ k + j \in 1..Len(r) /\ k + i < k + j
    BY SMTT(30), <2>1, <1>3, <1>4, <1>7, <1>8
  <2>3. queued'[i] = r[k + i] /\ queued'[j] = r[k + j]
    BY <1>8
  <2>q. QED
    BY <2>2, <2>3, <1>3 DEF KeepsOrder
<1>18. Line' # {} => holders' # {}
  <2>1. SUFFICES ASSUME holders' = {}, Line' # {} PROVE FALSE
    OBVIOUS
  <2>2. holders \ {e} = {} /\ P = {}
    BY Zenon, <2>1, <1>6
  <2>3. CASE e \in holders \cup Line
    <3>1. limit # 0
      BY Zenon, <2>3 DEF Inv, SlotAccounting
    <3>2. k = 0
      <4>1. ~(1 \in 1..k)
        BY Zenon, <2>2, <1>5
      <4>q. QED
        BY <4>1, <1>3, <1>4
    <3>3. Cardinality(holders \ {e}) = 0
      BY <2>2, FS_EmptySet
    <3>4. Cardinality(holders \ {e}) >= limit \/ Len(r) = 0
      BY <2>3, <3>2, <1>1, <1>2, PromotionFits
    <3>5. Len(r) = 0
      BY <3>1, <3>3, <3>4, <1>4
    <3>6. Line \ {e} = {}
      BY <3>5, <1>3
    <3>q. QED
      BY Zenon, <3>6, <2>1, <1>11
  <2>4. CASE e \notin holders \cup Line
    <3>1. Line # {} /\ holders = {}
      BY Zenon, <2>1, <2>2, <2>4, <1>11
    <3>q. QED
      BY Zenon, <3>1 DEF Inv, SlotAccounting
  <2>q. QED
    BY Zenon, <2>3, <2>4
<1>q. QED
  BY <1>6, <1>8, <1>9, <1>11, <1>12, <1>13, <1>14, <1>15, <1>16, <1>17, <1>18, Zenon

-----------------------------------------------------------------------------
(* Steps.                                                                  *)

\* What a step may do to the holders and to the line.
Admits == ~(holders' \subseteq holders) => Cardinality(holders') <= limit'
Orders ==
    /\ \A i, j \in DOMAIN queued :
         i < j /\ queued[j] \in holders' => queued[i] \notin Line'
    /\ \A i, j \in DOMAIN queued' :
         i < j /\ queued'[j] \in Line =>
           \E m, n \in DOMAIN queued : m < n /\ queued[m] = queued'[i] /\ queued[n] = queued'[j]

\* A step that leaves holders and line alone keeps their order.
LEMMA Still ==
    ASSUME Inv, UNCHANGED <<holders, queued>>
    PROVE  Admits /\ Orders
<1>1. Line' = Line
  BY DEF Line
<1>2. holders \cap Line = {}
  BY DEF Inv, SlotAccounting
<1>3. \A j \in DOMAIN queued : queued[j] \in Line
  BY DEF Line
<1>q. QED
  BY <1>1, <1>2, <1>3, Zenon DEF Admits, Orders

\* A departure keeps the invariant, whoever wrote the last status.
LEMMA DepartStep ==
    ASSUME Inv, NEW e \in Executions,
           NEW final \in Terminal \cup {"none"}, NEW left \in {"none", "held", "due", "delivered"},
           Depart(e, final, left), pending' = pending \/ pending' = pending \ {e},
           releasing' = releasing,
           final = "none" => e \notin pending' /\ e \notin releasing,
           e \in pending' => left \in {"none", "held"}
    PROVE  Inv' /\ Admits /\ Orders
<1>1. PICK P : P = Promoted(e)
  OBVIOUS
<1>2. /\ P \subseteq Line \ {e}
      /\ holders' = (holders \ {e}) \cup P
      /\ queued' \in Seq(Executions) /\ DOMAIN queued' = 1..Len(queued')
      /\ \A i, j \in DOMAIN queued' : queued'[i] = queued'[j] => i = j
  BY <1>1, Departure
<1>3. /\ Line' = (Line \ {e}) \ P
      /\ limit' = IF e \in holders \cup Line /\ holders' = {} /\ Line' = {} THEN 0 ELSE limit
      /\ e \notin holders \cup Line => P = {}
      /\ P # {} => Cardinality(holders') <= limit
      /\ Line' # {} => holders' # {}
  BY <1>1, Departure
<1>4. /\ \A i, j \in DOMAIN queued : i < j /\ queued[j] \in P => queued[i] \notin Line'
      /\ \A i, j \in DOMAIN queued' : i < j =>
           \E m, n \in DOMAIN queued : m < n /\ queued[m] = queued'[i] /\ queued[n] = queued'[j]
  BY <1>1, Departure
<1>5. /\ status' = [x \in Executions |->
           IF x = e THEN final
           ELSE IF x \in P /\ status[x] = "queued" THEN "running"
           ELSE status[x]]
      /\ intents' = [x \in Executions |->
           IF x = e THEN left
           ELSE IF x \in P /\ intents[x] = "held" /\ x \notin pending THEN "due"
           ELSE intents[x]]
  BY <1>1 DEF Depart, Promoted, Count, Rest
<1>6. TypeOK'
  <2>1. status' \in [Executions -> Status] /\ intents' \in [Executions -> {"none", "held", "due", "delivered"}]
    BY <1>5 DEF Inv, TypeOK, Status
  <2>2. holders' \subseteq Executions /\ pending' \subseteq Executions /\ limit' \in Limits \cup {0}
    BY <1>2, <1>3 DEF Inv, TypeOK, Line
  <2>3. Len(queued') <= Cardinality(Executions)
    BY <1>2, LineIsShort
  <2>4. releasing' \subseteq Executions
    BY DEF Inv, TypeOK
  <2>q. QED
    BY <2>1, <2>2, <2>3, <2>4, <1>2 DEF TypeOK
<1>7. SlotAccounting'
  <2>1. holders' \cap Line' = {}
    BY <1>2, <1>3 DEF Inv, SlotAccounting
  <2>2. limit' = 0 <=> holders' \cup Line' = {}
    BY <1>2, <1>3 DEF Inv, SlotAccounting
  <2>3. ASSUME NEW x \in Executions
        PROVE  /\ status'[x] \in {"running", "paused"} => x \in holders'
               /\ status'[x] = "queued" => x \in Line'
               /\ status'[x] = "canceling" => x \in holders' \cup Line'
               /\ status'[x] \in Terminal \cup {"none"} => x \notin holders' \cup Line'
    <3>1. CASE x = e
      <4>1. status'[x] = final
        BY <1>5, <3>1
      <4>2. x \notin holders' \cup Line'
        BY <1>2, <1>3, <3>1
      <4>q. QED
        BY <4>1, <4>2 DEF Terminal
    <3>2. CASE x # e /\ x \in P
      <4>1. status[x] \in {"queued", "canceling"}
        BY <1>2, <3>2 DEF Inv, TypeOK, SlotAccounting, Status
      <4>2. status'[x] \in {"running", "canceling"}
        BY <4>1, <1>5, <3>2
      <4>3. x \in holders'
        BY <1>2, <3>2
      <4>q. QED
        BY <4>2, <4>3 DEF Terminal
    <3>3. CASE x # e /\ x \notin P
      <4>1. status'[x] = status[x]
        BY <1>5, <3>3
      <4>2. (x \in holders' <=> x \in holders) /\ (x \in Line' <=> x \in Line)
        BY <1>2, <1>3, <3>3
      <4>q. QED
        BY <4>1, <4>2 DEF Inv, SlotAccounting
    <3>q. QED
      BY <3>1, <3>2, <3>3
  <2>q. QED
    BY <2>1, <2>2, <2>3, <1>2, <1>3, Zenon DEF SlotAccounting
<1>8. HoldMatchesStatus' /\ Started'
  <2>1. ASSUME NEW x \in Executions
        PROVE  /\ status'[x] = "queued" => intents'[x] = "held"
               /\ x \in pending' => intents'[x] \in {"none", "held"}
               /\ status'[x] \in {"running", "paused"} /\ x \notin pending' \cup releasing'
                    => intents'[x] \in {"due", "delivered"}
               /\ status'[x] \in {"running", "paused"} => intents'[x] # "none"
               /\ status'[x] = "none" => x \notin pending' /\ x \notin releasing'
               /\ x \in pending' => x \notin releasing'
    <3>1. CASE x = e
      BY <1>5, <3>1 DEF Terminal, Inv, Started
    <3>2. CASE x # e /\ x \in P
      <4>1. status[x] \in {"queued", "canceling"}
        BY <1>2, <3>2 DEF Inv, TypeOK, SlotAccounting, Status
      <4>q. QED
        BY <4>1, <1>5, <3>2 DEF Inv, TypeOK, HoldMatchesStatus, Started
    <3>3. CASE x # e /\ x \notin P
      BY <1>5, <3>3 DEF Inv, HoldMatchesStatus, Started
    <3>q. QED
      BY <3>1, <3>2, <3>3
  <2>q. QED
    BY <2>1, Zenon DEF HoldMatchesStatus, Started
<1>9. Admits
  BY <1>2, <1>3 DEF Admits
<1>10. Orders
  <2>1. \A j \in DOMAIN queued : queued[j] \in holders' => queued[j] \in P
    BY SMTT(30), <1>2 DEF Inv, SlotAccounting, Line
  <2>q. QED
    BY <2>1, <1>4, Zenon DEF Orders
<1>q. QED
  BY <1>6, <1>7, <1>8, <1>9, <1>10 DEF Inv

\* An admission keeps the invariant: into a free slot, to the end of the
\* line, or not at all.
LEMMA ChargeStep ==
    ASSUME Inv, NEW e \in Executions, NEW lim \in Limits, NEW durable \in BOOLEAN,
           status[e] = "none", HasRoom(lim), Charge(e, lim, durable)
    PROVE  Inv' /\ Admits /\ Orders
<1>1. e \notin holders \cup Line /\ e \notin pending /\ e \notin releasing
  BY DEF Inv, SlotAccounting, Started
<1>2. Line' = Line /\ holders' = holders \cup {e} /\ queued' = queued /\ limit' = lim /\ lim \in Nat \ {0}
  BY Zenon, LimitsAssumption DEF Charge, Line
<1>3. /\ status' = [status EXCEPT ![e] = "running"]
      /\ intents' = [intents EXCEPT ![e] = IF durable THEN "held" ELSE "due"]
      /\ pending' = IF durable THEN pending \cup {e} ELSE pending
      /\ releasing' = releasing
  BY DEF Charge, Created
<1>4. TypeOK'
  BY <1>2, <1>3 DEF Inv, TypeOK, Status
<1>5. SlotAccounting'
  BY <1>1, <1>2, <1>3 DEF Inv, TypeOK, SlotAccounting, Terminal
<1>6. HoldMatchesStatus' /\ Started'
  BY <1>1, <1>3 DEF Inv, TypeOK, HoldMatchesStatus, Started
<1>7. Admits
  <2>1. IsFiniteSet(holders) /\ Cardinality(holders) \in Nat
    BY ExecutionsAssumption, FS_Subset, FS_CardinalityType DEF Inv, TypeOK
  <2>2. Cardinality(holders \cup {e}) = Cardinality(holders) + 1
    BY Zenon, <2>1, <1>1, FS_AddElement
  <2>q. QED
    BY <2>1, <2>2, <1>2 DEF Admits, HasRoom
<1>8. Orders
  <2>1. \A j \in DOMAIN queued : queued[j] \notin holders'
    BY SMTT(30), <1>1, <1>2 DEF Inv, SlotAccounting, Line
  <2>q. QED
    BY <2>1, <1>2, Zenon DEF Orders
<1>q. QED
  BY <1>4, <1>5, <1>6, <1>7, <1>8 DEF Inv

\* Who has to wait finds a holder: the slots are taken, or there is a line.
LEMMA SomeoneHolds ==
    ASSUME Inv, NEW lim \in Limits, ~MayCharge(lim)
    PROVE  holders # {}
<1>1. CASE queued # <<>>
  <2>1. 1 \in DOMAIN queued
    BY <1>1 DEF Inv, TypeOK
  <2>2. Line # {}
    BY Zenon, <2>1 DEF Line
  <2>q. QED
    BY Zenon, <2>2 DEF Inv, SlotAccounting
<1>2. CASE ~HasRoom(lim)
  BY <1>2, LimitsAssumption, FS_EmptySet DEF HasRoom
<1>q. QED
  BY <1>1, <1>2 DEF MayCharge

LEMMA ParkStep ==
    ASSUME Inv, NEW e \in Executions, NEW lim \in Limits, NEW durable \in BOOLEAN,
           status[e] = "none", ~MayCharge(lim), Park(e, lim, durable)
    PROVE  Inv' /\ Admits /\ Orders
<1>1. e \notin holders \cup Line /\ e \notin pending /\ e \notin releasing
  BY DEF Inv, SlotAccounting, Started
<1>2. holders' = holders /\ queued' = Append(queued, e) /\ limit' = lim /\ lim \in Nat \ {0}
  BY Zenon, LimitsAssumption DEF Park
<1>3. /\ status' = [status EXCEPT ![e] = "queued"]
      /\ intents' = [intents EXCEPT ![e] = "held"]
      /\ pending' = IF durable THEN pending \cup {e} ELSE pending
      /\ releasing' = releasing
  BY DEF Park, Created
<1>4. /\ queued \in Seq(Executions) /\ Len(queued) \in Nat /\ DOMAIN queued = 1..Len(queued)
      /\ queued' \in Seq(Executions) /\ Len(queued') = Len(queued) + 1
      /\ DOMAIN queued' = 1..Len(queued) + 1
      /\ \A i \in 1..Len(queued) : queued'[i] = queued[i]
      /\ queued'[Len(queued) + 1] = e
  BY <1>2 DEF Inv, TypeOK
<1>5. \A i \in DOMAIN queued : queued[i] \in Line
  BY DEF Line
<1>6. \A i, j \in DOMAIN queued' : queued'[i] = queued'[j] => i = j
  BY <1>1, <1>4, <1>5 DEF Inv, SlotAccounting
<1>7. Line' = Line \cup {e}
  <2>1. \A i \in DOMAIN queued' : queued'[i] \in Line \cup {e}
    BY <1>4, <1>5
  <2>2. \A x \in Line \cup {e} : \E i \in DOMAIN queued' : queued'[i] = x
    BY <1>4 DEF Line
  <2>q. QED
    BY <2>1, <2>2 DEF Line
<1>8. TypeOK'
  <2>1. Len(queued') <= Cardinality(Executions)
    BY <1>4, <1>6, LineIsShort
  <2>q. QED
    BY <2>1, <1>2, <1>3, <1>4 DEF Inv, TypeOK, Status
<1>9. SlotAccounting'
  <2>1. \A x \in Executions :
          /\ status'[x] \in {"running", "paused"} => x \in holders'
          /\ status'[x] = "queued" => x \in Line'
          /\ status'[x] = "canceling" => x \in holders' \cup Line'
          /\ status'[x] \in Terminal \cup {"none"} => x \notin holders' \cup Line'
    BY <1>1, <1>2, <1>3, <1>7 DEF Inv, TypeOK, SlotAccounting, Terminal
  <2>2. holders' \cap Line' = {} /\ limit' # 0 /\ holders' \cup Line' # {}
    BY <1>1, <1>2, <1>7 DEF Inv, SlotAccounting
  <2>3. holders' # {}
    BY Zenon, <1>2, SomeoneHolds
  <2>q. QED
    BY <2>1, <2>2, <2>3, <1>6, Zenon DEF SlotAccounting
<1>10. HoldMatchesStatus' /\ Started'
  BY <1>1, <1>3 DEF Inv, TypeOK, HoldMatchesStatus, Started
<1>11. Admits
  BY <1>2 DEF Admits
<1>12. Orders
  <2>1. \A j \in DOMAIN queued : queued[j] \notin holders'
    BY <1>2 DEF Inv, SlotAccounting, Line
  <2>2. ASSUME NEW i \in DOMAIN queued', NEW j \in DOMAIN queued', i < j, queued'[j] \in Line
        PROVE  \E m, n \in DOMAIN queued : m < n /\ queued[m] = queued'[i] /\ queued[n] = queued'[j]
    <3>1. j # Len(queued) + 1
      BY <2>2, <1>1, <1>4
    <3>2. i \in DOMAIN queued /\ j \in DOMAIN queued
      BY <2>2, <3>1, <1>4
    <3>3. queued[i] = queued'[i] /\ queued[j] = queued'[j]
      BY <3>2, <1>4
    <3>q. QED
      BY <2>2, <3>2, <3>3
  <2>q. QED
    BY <2>1, <2>2, Zenon DEF Orders
<1>q. QED
  BY <1>8, <1>9, <1>10, <1>11, <1>12 DEF Inv

LEMMA RefuseStep ==
    ASSUME Inv, NEW lim \in Limits, ~MayCharge(lim), Refuse(lim)
    PROVE  Inv' /\ Admits /\ Orders
<1>1. Line' = Line /\ lim \in Nat \ {0}
  BY LimitsAssumption DEF Refuse, Line
<1>2. holders # {}
  BY Zenon, SomeoneHolds
<1>3. TypeOK' /\ HoldMatchesStatus' /\ Started'
  BY DEF Refuse, Inv, TypeOK, HoldMatchesStatus, Started
<1>4. SlotAccounting'
  BY <1>1, <1>2 DEF Refuse, Inv, SlotAccounting
<1>5. Admits /\ Orders
  BY Still DEF Refuse
<1>q. QED
  BY <1>3, <1>4, <1>5 DEF Inv

\* A step that changes only the status or the intents of one execution.
LEMMA CancelBeginStep ==
    ASSUME Inv, NEW e \in Executions, CancelBegin(e)
    PROVE  Inv' /\ Admits /\ Orders
<1>1. Line' = Line
  BY DEF CancelBegin, Line
<1>2. TypeOK' /\ HoldMatchesStatus' /\ Started'
  BY DEF CancelBegin, Inv, TypeOK, Status, HoldMatchesStatus, Started
<1>3. SlotAccounting'
  BY <1>1 DEF CancelBegin, Inv, TypeOK, SlotAccounting, Terminal
<1>q. QED
  BY <1>2, <1>3, Still DEF CancelBegin, Inv

LEMMA PauseStep ==
    ASSUME Inv, NEW e \in Executions, Pause(e) \/ Resume(e)
    PROVE  Inv' /\ Admits /\ Orders
<1>1. Line' = Line
  BY DEF Pause, Resume, Line
<1>2. TypeOK' /\ HoldMatchesStatus' /\ Started'
  BY DEF Pause, Resume, Inv, TypeOK, Status, HoldMatchesStatus, Started
<1>3. SlotAccounting'
  BY <1>1 DEF Pause, Resume, Inv, TypeOK, SlotAccounting, Terminal
<1>q. QED
  BY <1>2, <1>3, Still DEF Pause, Resume, Inv

LEMMA IntentStep ==
    ASSUME Inv, NEW e \in Executions, Deliver(e) \/ MirrorInserted(e) \/ ReleaseHold(e)
    PROVE  Inv' /\ Admits /\ Orders
<1>1. Line' = Line
  BY DEF Deliver, MirrorInserted, ReleaseHold, Line
<1>2. TypeOK'
  <2>1. CASE Deliver(e) \/ MirrorInserted(e)
    BY <2>1 DEF Deliver, MirrorInserted, Inv, TypeOK
  <2>2. CASE ReleaseHold(e)
    BY <2>2 DEF ReleaseHold, Inv, TypeOK
  <2>q. QED
    BY <2>1, <2>2
<1>3. HoldMatchesStatus' /\ Started'
  <2>1. CASE Deliver(e)
    BY <2>1 DEF Deliver, Inv, TypeOK, HoldMatchesStatus, Started
  <2>2. CASE MirrorInserted(e)
    BY <2>2 DEF MirrorInserted, Inv, HoldMatchesStatus, Started
  <2>3. CASE ReleaseHold(e)
    BY <2>3 DEF ReleaseHold, Inv, TypeOK, HoldMatchesStatus, Started, Terminal
  <2>q. QED
    BY <2>1, <2>2, <2>3
<1>4. SlotAccounting'
  BY <1>1 DEF Deliver, MirrorInserted, ReleaseHold, Inv, SlotAccounting
<1>q. QED
  BY <1>2, <1>3, <1>4, Still DEF Deliver, MirrorInserted, ReleaseHold, Inv

\* What AfterTerminal leaves is one of the intents' states, and nothing that
\* an insert in flight would find dispatchable.
LEMMA LeftBehind ==
    ASSUME Inv, NEW e \in Executions
    PROVE  /\ AfterTerminal(e) \in {"none", "held", "due", "delivered"}
           /\ e \in pending => AfterTerminal(e) \in {"none", "held"}
  BY DEF AfterTerminal, Inv, TypeOK, HoldMatchesStatus

\* The terminal writers and the rollback.
LEMMA EndStep ==
    ASSUME Inv, NEW e \in Executions,
           Finish(e) \/ ExpireDeadline(e) \/ ExpireQueued(e) \/ CancelEnd(e) \/ MirrorFailed(e)
    PROVE  Inv' /\ Admits /\ Orders
<1>1. ASSUME NEW final \in Terminal, Depart(e, final, AfterTerminal(e)),
             pending' = pending, releasing' = releasing
      PROVE  Inv' /\ Admits /\ Orders
  <2>1. final # "none" /\ final \in Terminal \cup {"none"}
    BY DEF Terminal
  <2>2. AfterTerminal(e) \in {"none", "held", "due", "delivered"}
    BY LeftBehind
  <2>3. e \in pending' => AfterTerminal(e) \in {"none", "held"}
    BY LeftBehind, <1>1
  <2>q. QED
    BY <1>1, <2>1, <2>2, <2>3, DepartStep
<1>2. CASE MirrorFailed(e)
  BY <1>2, DepartStep DEF MirrorFailed, Inv, Started
<1>3. CASE Finish(e)
  BY <1>1, <1>3 DEF Finish, Terminal
<1>4. CASE ExpireDeadline(e)
  BY <1>1, <1>4 DEF ExpireDeadline, Terminal
<1>5. CASE ExpireQueued(e)
  BY <1>1, <1>5 DEF ExpireQueued, Terminal
<1>6. CASE CancelEnd(e)
  BY <1>1, <1>6 DEF CancelEnd, Terminal
<1>q. QED
  BY <1>2, <1>3, <1>4, <1>5, <1>6

LEMMA SubmitStep ==
    ASSUME Inv, NEW e \in Executions, Submit(e)
    PROVE  Inv' /\ Admits /\ Orders
<1>1. PICK lim \in Limits, durable \in BOOLEAN :
        \/ SubmitReject(e, lim, durable)
        \/ \E max \in Backlogs : SubmitQueue(e, lim, max, durable)
  BY DEF Submit
<1>2. CASE SubmitReject(e, lim, durable)
  BY <1>2, ChargeStep, RefuseStep DEF SubmitReject, MayCharge
<1>3. ASSUME NEW max \in Backlogs, SubmitQueue(e, lim, max, durable)
      PROVE  Inv' /\ Admits /\ Orders
  BY <1>3, ChargeStep, ParkStep, RefuseStep DEF SubmitQueue, MayCharge
<1>q. QED
  BY <1>1, <1>2, <1>3

\* Every step keeps the invariant, the limit and the order of the line.
LEMMA Step ==
    ASSUME Inv, [Next]_vars
    PROVE  Inv' /\ ((Admits /\ Orders) \/ UNCHANGED vars)
<1>1. CASE UNCHANGED vars
  <2>1. Line' = Line
    BY <1>1 DEF vars, Line
  <2>2. TypeOK' /\ SlotAccounting'
    BY <1>1, <2>1, Zenon DEF vars, Inv, TypeOK, SlotAccounting
  <2>3. HoldMatchesStatus' /\ Started'
    BY <1>1 DEF vars, Inv, HoldMatchesStatus, Started
  <2>q. QED
    BY <1>1, <2>2, <2>3 DEF Inv
<1>2. CASE Next
  BY <1>2, SubmitStep, EndStep, CancelBeginStep, PauseStep, IntentStep, Zenon DEF Next, MirrorAnswer
<1>q. QED
  BY <1>1, <1>2

-----------------------------------------------------------------------------
LEMMA Invariance == Spec => []Inv
<1>1. Init => Inv
  <2> SUFFICES ASSUME Init PROVE Inv
    OBVIOUS
  <2>1. Line = {} /\ Len(queued) = 0
    BY DEF Init, Line
  <2>2. Cardinality(Executions) \in Nat
    BY ExecutionsAssumption, FS_CardinalityType
  <2>3. TypeOK
    BY <2>1, <2>2 DEF Init, TypeOK, Status
  <2>4. SlotAccounting /\ HoldMatchesStatus /\ Started
    BY <2>1 DEF Init, SlotAccounting, HoldMatchesStatus, Started, Terminal
  <2>q. QED
    BY <2>3, <2>4 DEF Inv
<1>2. Inv /\ [Next]_vars => Inv'
  BY Step
<1>q. QED
  BY <1>1, <1>2, PTL DEF Spec

\* Statuses, holders, line, limit and intents keep their types, and the line
\* is never longer than there are executions.
THEOREM TypeCorrect == Spec => []TypeOK
<1>1. Inv => TypeOK
  BY DEF Inv
<1>q. QED
  BY <1>1, Invariance, PTL

\* chargeSlotLocked, the line and releaseWorkflowSlotLocked account for every
\* execution exactly, however terminal writers, promotions and rollbacks of
\* durable inserts follow each other: no slot leaks and none is freed twice.
THEOREM SlotsAreExact == Spec => []SlotAccounting
<1>1. Inv => SlotAccounting
  BY DEF Inv
<1>q. QED
  BY <1>1, Invariance, PTL

\* The holds of the queue and of the durable insert (completePromotionLocked,
\* clearMirrorCreatePending, releaseInitialMirrorHold): nothing starts early, and
\* a started execution's intents stay held only as long as its submitter has the
\* insert or the release still to do.
THEOREM HoldsFollowStatus == Spec => []HoldMatchesStatus
<1>1. Inv => HoldMatchesStatus
  BY DEF Inv
<1>q. QED
  BY <1>1, Invariance, PTL

\* No admission and no promotion takes the holders over the limit in force,
\* whatever limits the submitted versions declare.
THEOREM LimitIsKept == Spec => NeverOverAdmits
<1>1. Inv /\ [Next]_vars => [~(holders' \subseteq holders) => Cardinality(holders') <= limit']_vars
  BY Step, Zenon DEF Admits
<1>q. QED
  BY <1>1, Invariance, PTL DEF Spec, NeverOverAdmits

\* removeQueued and promoteLocked keep the line first in, first out.
THEOREM LineStaysFifo == Spec => LineIsFifo
<1>1. Inv /\ [Next]_vars =>
        [/\ \A i, j \in DOMAIN queued :
              i < j /\ queued[j] \in holders' => queued[i] \notin Line'
         /\ \A i, j \in DOMAIN queued' :
              i < j /\ queued'[j] \in Line =>
                \E m, n \in DOMAIN queued : m < n /\ queued[m] = queued'[i] /\ queued[n] = queued'[j]]_vars
  BY Step, Zenon DEF Orders
<1>q. QED
  BY <1>1, Invariance, PTL DEF Spec, LineIsFifo

\* The line is never stuck behind a holder that waits for somebody else: as
\* long as an execution is queued some slot is held, and its holder has its
\* insert, the release of its hold, its cancel, its dispatch or its conclusion
\* ahead, or is paused
\* (promoteLocked runs only when a holder or a line member departs).
THEOREM LineIsNeverStuck == Spec => []LineMoves
<1>1. Inv => LineMoves
  <2>1. SUFFICES ASSUME Inv, NEW e \in Executions, status[e] = "queued"
                 PROVE  \E h \in holders : GoesOn(h) \/ status[h] = "paused"
    BY Zenon DEF LineMoves
  <2>2. Line # {}
    BY Zenon, <2>1 DEF Inv, SlotAccounting
  <2>3. PICK h : h \in holders
    BY Zenon, <2>1, <2>2 DEF Inv, SlotAccounting
  <2>4. h \in Executions /\ h \notin Line
    BY Zenon, <2>1, <2>3 DEF Inv, TypeOK, SlotAccounting
  <2>5. status[h] \in {"running", "paused", "canceling"}
    BY <2>1, <2>3, <2>4 DEF Inv, TypeOK, SlotAccounting, Status
  <2>6. status[h] = "running" /\ h \notin pending \cup releasing => intents[h] \in {"due", "delivered"}
    BY <2>1, <2>4 DEF Inv, HoldMatchesStatus
  <2>q. QED
    BY Zenon, <2>3, <2>5, <2>6 DEF GoesOn
<1>q. QED
  BY <1>1, Invariance, PTL

-----------------------------------------------------------------------------
(* The admission line.                                                     *)

\* The abstract line counts as the store does.
LEMMA SameCount == \A S : Slots!Cardinality(S) = Cardinality(S)
  BY Zenon DEF Slots!Cardinality, Cardinality

\* The first k members of a line without duplicates are k.
LEMMA FirstAreAll ==
    ASSUME NEW q \in Seq(Executions), NEW k \in 0..Len(q),
           \A i, j \in 1..Len(q) : q[i] = q[j] => i = j
    PROVE  IsFiniteSet({q[i] : i \in 1..k}) /\ Cardinality({q[i] : i \in 1..k}) = k
<1> DEFINE T == {q[i] : i \in 1..k}
           f == [i \in 1..k |-> q[i]]
<1>1. \A i \in 1..k : i \in 1..Len(q)
  OBVIOUS
<1>2. f \in [1..k -> T] /\ \A i \in 1..k : f[i] = q[i]
  BY Zenon
<1>3. \A i, j \in 1..k : f[i] = f[j] => i = j
  BY Zenon, <1>1, <1>2
<1>4. \A t \in T : \E i \in 1..k : f[i] = t
  BY Zenon, <1>2
<1>5. f \in Bijection(1..k, T)
  BY Zenon, <1>2, <1>3, <1>4 DEF Bijection, Injection, Surjection, IsInjective
<1>6. IsFiniteSet(1..k) /\ Cardinality(1..k) = k
  BY FS_Interval
<1>7. IsFiniteSet(T) /\ Cardinality(T) = Cardinality(1..k)
  <2>1. ExistsBijection(1..k, T)
    BY Zenon, <1>5 DEF ExistsBijection
  <2>q. QED
    BY Zenon, <1>6, <2>1, FS_Bijection
<1>q. QED
  BY Zenon, <1>6, <1>7

\* A departure promotes what the abstract line promotes.
LEMMA DepartPromotes ==
    ASSUME Inv, NEW e \in Executions, NEW final, NEW left, Depart(e, final, left),
           e \in holders \cup Line, NEW r, r = Rest(e), NEW k, k = Count(e)
    PROVE  k \in 0..Len(r) /\ Slots!Promote(holders \ {e}, r, k)
<1> DEFINE h == holders \ {e}
           P == {r[i] : i \in 1..k}
<1>1. /\ r \in Seq(Executions) /\ Len(r) \in Nat
      /\ \A i, j \in 1..Len(r) : r[i] = r[j] => i = j
      /\ {r[i] : i \in 1..Len(r)} = Line \ {e}
  BY SMTT(30), RestOfLine
<1>2. /\ k \in 0..Len(r) /\ limit \in Nat
      /\ IsFiniteSet(h) /\ Cardinality(h) \in Nat
      /\ k > 0 => k + Cardinality(h) <= limit
  BY PromotionFits
<1>3. k < Len(r) => k + Cardinality(h) >= limit
  <2>1. k = PromoteCount(h, r)
    BY Zenon DEF Count
  <2>q. QED
    BY <2>1, <1>1, <1>2 DEF PromoteCount
<1>4. /\ holders' = h \cup P
      /\ queued' = SubSeq(r, k + 1, Len(r))
      /\ limit' = IF holders' = {} /\ queued' = <<>> THEN 0 ELSE limit
  BY DEF Depart, Rest, Count
<1>5. queued' = [i \in 1..Len(r) - k |-> r[k + i]]
  <2>1. \A i \in k+1..Len(r) : r[i] \in Executions
    BY <1>1, <1>2
  <2>2. /\ SubSeq(r, k + 1, Len(r)) \in Seq(Executions)
        /\ Len(SubSeq(r, k + 1, Len(r))) = IF k + 1 <= Len(r) THEN Len(r) - (k + 1) + 1 ELSE 0
        /\ \A i \in 1..Len(r)-(k+1)+1 : SubSeq(r, k + 1, Len(r))[i] = r[(k + 1) + i - 1]
    BY SMTT(30), <2>1, <1>1, <1>2, SubSeqProperties
  <2>3. /\ queued' \in Seq(Executions)
        /\ Len(queued') = IF k + 1 <= Len(r) THEN Len(r) - (k + 1) + 1 ELSE 0
        /\ \A i \in 1..Len(r)-(k+1)+1 : queued'[i] = r[(k + 1) + i - 1]
    BY Zenon, <2>2, <1>4
  <2>4. Len(queued') = Len(r) - k
    BY <2>3, <1>1, <1>2
  <2>5. ASSUME NEW i \in 1..Len(r) - k PROVE queued'[i] = r[k + i]
    <3>1. i \in 1..Len(r)-(k+1)+1 /\ (k + 1) + i - 1 = k + i
      BY <1>1, <1>2
    <3>2. queued'[i] = r[(k + 1) + i - 1]
      BY Zenon, <2>3, <3>1
    <3>q. QED
      BY Zenon, <3>1, <3>2
  <2>6. queued' = [i \in 1..Len(queued') |-> queued'[i]]
    BY <2>3
  <2>q. QED
    BY Zenon, <2>4, <2>5, <2>6
<1>6. IsFiniteSet(P) /\ Cardinality(P) = k
  BY Zenon, <1>1, <1>2, FirstAreAll
<1>7. h \cap P = {}
  <2>1. \A i \in 1..k : i \in 1..Len(r)
    BY <1>1, <1>2
  <2>2. P \subseteq Line
    BY Zenon, <2>1, <1>1
  <2>q. QED
    BY Zenon, <2>2 DEF Inv, SlotAccounting
<1>8. Cardinality(holders') = Cardinality(h) + k
  <2>1. Cardinality(h \cup P) = Cardinality(h) + Cardinality(P) - Cardinality(h \cap P)
    BY <1>2, <1>6, FS_Union
  <2>2. Cardinality(h \cap P) = 0
    BY Zenon, <1>7, FS_EmptySet
  <2>q. QED
    BY <2>1, <2>2, <1>2, <1>4, <1>6
<1>9. (k > 0 => Cardinality(holders') <= limit) /\ (k < Len(r) => Cardinality(holders') >= limit)
  BY <1>1, <1>2, <1>3, <1>8
<1>q. QED
  BY Zenon, <1>2, <1>4, <1>5, <1>9, SameCount DEF Slots!Promote

\* Every terminal write and every rollback is a departure from the line, or
\* concerns an execution that already left it.
LEMMA DepartRefines ==
    ASSUME Inv, NEW e \in Executions, NEW final, NEW left, Depart(e, final, left)
    PROVE  Slots!Leave(e) \/ UNCHANGED Slots!vars
<1>1. PICK r : r = Rest(e)
  OBVIOUS
<1>2. PICK k : k = Count(e)
  OBVIOUS
<1>3. queued \in Seq(Executions) /\ DOMAIN queued = 1..Len(queued) /\ Len(queued) \in Nat
  BY DEF Inv, TypeOK
<1>4. CASE e \in holders
  <2>1. r = queued
    BY Zenon, <1>1, <1>4 DEF Rest, removeQueued, Inv, SlotAccounting
  <2>2. k \in 0..Len(r) /\ Slots!Promote(holders \ {e}, r, k)
    BY <1>1, <1>2, <1>4, DepartPromotes
  <2>q. QED
    BY Zenon, <1>4, <2>1, <2>2 DEF Slots!Leave
<1>5. CASE e \in Line
  <2>1. holders \ {e} = holders
    BY Zenon, <1>5 DEF Inv, SlotAccounting
  <2>2. k \in 0..Len(r) /\ Slots!Promote(holders, r, k)
    BY Zenon, <1>1, <1>2, <1>5, <2>1, DepartPromotes
  <2>3. PICK p \in 1..Len(queued) : queued[p] = e
    BY Zenon, <1>3, <1>5 DEF Line
  <2>4. r = Cut(queued, p)
    <3>1. (CHOOSE i \in DOMAIN queued : queued[i] = e) = p
      BY <1>3, <2>3 DEF Inv, SlotAccounting
    <3>q. QED
      BY Zenon, <1>1, <1>5, <3>1 DEF Rest, removeQueued, Cut
  <2>5. /\ r \in Seq(Executions) /\ Len(r) = Len(queued) - 1
        /\ \A i \in 1..Len(queued)-1 : r[i] = queued[IF i < p THEN i ELSE i + 1]
    BY <1>3, <2>4, Removed, Zenon
  <2>6. r = [i \in 1..Len(queued)-1 |-> r[i]]
    BY <2>5
  <2>7. r = Slots!Without(p)
    BY Zenon, <2>5, <2>6 DEF Slots!Without
  <2>q. QED
    BY Zenon, <1>3, <2>2, <2>3, <2>5, <2>7 DEF Slots!Leave
<1>6. CASE e \notin holders \cup Line
  <2>1. r = queued /\ k = 0
    BY Zenon, <1>1, <1>2, <1>6 DEF Rest, removeQueued, Count
  <2>2. holders' = holders /\ limit' = limit /\ queued' = SubSeq(queued, 1, Len(queued))
    BY <1>1, <1>2, <1>6, <2>1 DEF Depart, Rest, Count
  <2>3. SubSeq(queued, 1, Len(queued)) = queued
    BY <1>3
  <2>q. QED
    BY Zenon, <2>2, <2>3 DEF Slots!vars
<1>q. QED
  BY Zenon, <1>4, <1>5, <1>6

\* A submission is admitted, joins the end of the line, or is refused, the
\* last two only if it has to wait.
LEMMA SubmitRefines ==
    ASSUME Inv, NEW e \in Executions, Submit(e)
    PROVE  \E lim \in Limits : Slots!Admit(e, lim) \/ Slots!Join(e, lim) \/ Slots!Refuse(lim)
<1>1. PICK lim \in Limits, durable \in BOOLEAN :
        \/ SubmitReject(e, lim, durable)
        \/ \E max \in Backlogs : SubmitQueue(e, lim, max, durable)
  BY Zenon DEF Submit
<1>2. e \notin Slots!Present
  BY Zenon, <1>1 DEF SubmitReject, SubmitQueue, Inv, SlotAccounting, Slots!Present, Line
<1>3. ~MayCharge(lim) => Slots!MustWait(lim)
  <2>1. Cardinality(holders) \in Int /\ lim \in Int
    BY ExecutionsAssumption, LimitsAssumption, FS_Subset, FS_CardinalityType DEF Inv, TypeOK
  <2>2. ~HasRoom(lim) => Cardinality(holders) >= lim
    BY <2>1 DEF HasRoom
  <2>q. QED
    BY Zenon, <2>2, SameCount DEF MayCharge, Slots!MustWait
<1>4. CASE HasRoom(lim) /\ Charge(e, lim, durable)
  BY Zenon, <1>1, <1>2, <1>4, SameCount DEF HasRoom, Charge, Slots!Admit
<1>5. CASE ~MayCharge(lim) /\ Park(e, lim, durable)
  BY Zenon, <1>2, <1>3, <1>5 DEF Park, Slots!Join
<1>6. CASE ~MayCharge(lim) /\ Refuse(lim)
  BY Zenon, <1>3, <1>6 DEF Refuse, Slots!Refuse
<1>q. QED
  BY Zenon, <1>1, <1>4, <1>5, <1>6 DEF SubmitReject, SubmitQueue, MayCharge

\* Every step is a step of the abstract line or leaves it alone.
LEMMA StepRefines ==
    ASSUME Inv, [Next]_vars
    PROVE  [Slots!Next]_(Slots!vars)
<1>1. ASSUME NEW e \in Executions, Submit(e) PROVE Slots!Next
  BY Zenon, <1>1, SubmitRefines DEF Slots!Next
<1>2. ASSUME NEW e \in Executions,
             Finish(e) \/ ExpireDeadline(e) \/ ExpireQueued(e) \/ CancelEnd(e) \/ MirrorFailed(e)
      PROVE  Slots!Next \/ UNCHANGED Slots!vars
  <2>1. \E final, left : Depart(e, final, left)
    BY Zenon, <1>2 DEF Finish, ExpireDeadline, ExpireQueued, CancelEnd, MirrorFailed
  <2>q. QED
    BY Zenon, <2>1, DepartRefines DEF Slots!Next
<1>3. ASSUME NEW e \in Executions,
             CancelBegin(e) \/ Pause(e) \/ Resume(e) \/ Deliver(e) \/ MirrorInserted(e) \/ ReleaseHold(e)
      PROVE  UNCHANGED Slots!vars
  BY Zenon, <1>3 DEF CancelBegin, Pause, Resume, Deliver, MirrorInserted, ReleaseHold, Slots!vars
<1>4. CASE UNCHANGED vars
  BY Zenon, <1>4 DEF vars, Slots!vars
<1>q. QED
  BY Zenon, <1>1, <1>2, <1>3, <1>4 DEF Next, MirrorAnswer

\* For any number of executions, limits and backlogs, the store with its
\* statuses, held intents, durable inserts and rollbacks implements the plain
\* admission line (chargeSlotLocked, releaseWorkflowSlotLocked, promoteLocked).
THEOREM Refinement == Spec => ImplementsAdmission
<1>1. Init => Slots!Init
  BY Zenon DEF Init, Slots!Init
<1>2. Inv /\ [Next]_vars => [Slots!Next]_(Slots!vars)
  BY StepRefines
<1>q. QED
  BY <1>1, <1>2, Invariance, PTL DEF Spec, ImplementsAdmission, Slots!Spec
=============================================================================
