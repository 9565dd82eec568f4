----------------------- MODULE AtomicScheduling_proofs -----------------------
(***************************************************************************)
(* Proofs about AtomicScheduling, for every graph, policy, retry budget,   *)
(* backend and bound.  The inductive invariant is IndInv; a step is either *)
(* quiet (it decides no unit) or concludes one unit, and the two kinds     *)
(* have a lemma each.                                                      *)
(***************************************************************************)
EXTENDS AtomicScheduling, FiniteSetTheorems, TLAPS

-----------------------------------------------------------------------------
(* What a quiet step leaves alone, and that a step which concludes one     *)
(* unit for a proper reason keeps every part of IndInv.                    *)

\* Edges join units; their sets are finite.
LEMMA EdgeFacts ==
    /\ \A e \in Edges : e.src \in Units /\ e.dst \in Units /\ e.port \in Ports
    /\ \A v : IsFiniteSet(In(v))
    /\ \A u, v : Between(u, v) \subseteq In(v) /\ IsFiniteSet(Between(u, v))
    /\ \A u, p, v : Fed(u, p, v) \subseteq Between(u, v) /\ IsFiniteSet(Fed(u, p, v))
<1>1. \A e \in Edges : e.src \in Units /\ e.dst \in Units /\ e.port \in Ports
  BY EdgesAssumption
<1>2. \A S \in SUBSET Edges : IsFiniteSet(S)
  BY EdgesAssumption, FS_Subset
<1>3. /\ \A v : In(v) \in SUBSET Edges
      /\ \A u, v : Between(u, v) \in SUBSET Edges
      /\ \A u, p, v : Fed(u, p, v) \in SUBSET Edges
  BY DEF In, Between, Fed
<1>4. /\ \A u, v : Between(u, v) \subseteq In(v)
      /\ \A u, p, v : Fed(u, p, v) \subseteq Between(u, v)
  BY DEF In, Between, Fed
<1> QED
  BY <1>1, <1>2, <1>3, <1>4

\* The readings of the graph depend only on which units are decided and on
\* which port.
LEMMA SameReadings ==
    ASSUME \A u \in Units : Done(u)' <=> Done(u),
           port' = port
    PROVE  /\ \A e \in Edges : Feeds(e)' <=> Feeds(e)
           /\ \A u \in Units : (Ready(u)' <=> Ready(u)) /\ (Dry(u)' <=> Dry(u))
<1>1. \A e \in Edges : (Done(e.src)' <=> Done(e.src)) /\ (Feeds(e)' <=> Feeds(e))
  BY EdgeFacts DEF Feeds
<1>2. \A u : In(u) \subseteq Edges
  BY DEF In
<1> QED
  BY <1>1, <1>2 DEF Ready, Dry, Roots

\* A step that decides no unit and moves the execution at most towards a
\* cancel or a timeout.
Quiet ==
    /\ \A u \in Units : Done(u)' <=> Done(u)
    /\ \A u \in Units : Done(u) \/ status'[u] \in {"absent", "pending", "running"}
    /\ \A u \in Units : Done(u) => status'[u] = status[u]
    /\ port' = port
    /\ UNCHANGED countVars
    /\ \/ exec' = exec
       \/ exec = "running" /\ exec' \in {"canceling", "timeout"}
       \/ exec = "canceling" /\ exec' = "canceled"

\* A quiet step keeps everything the invariant says of counters, markers and
\* verdicts.
LEMMA QuietStep ==
    ASSUME IndInv, Quiet
    PROVE  CountersExact' /\ MarkersSound' /\ FailureConcludes' /\ VerdictSound'
<1> USE DEF IndInv
<1>1. /\ \A e \in Edges : Feeds(e)' <=> Feeds(e)
      /\ \A u \in Units : (Ready(u)' <=> Ready(u)) /\ (Dry(u)' <=> Dry(u))
  BY SameReadings DEF Quiet
<1>2. CountersExact'
  <2>1. {u \in Units : ~Done(u)}' = {u \in Units : ~Done(u)}
    BY DEF Quiet
  <2>2. \A v : /\ {e \in In(v) : ~Done(e.src)}' = {e \in In(v) : ~Done(e.src)}
               /\ {e \in In(v) : Feeds(e)}' = {e \in In(v) : Feeds(e)}
    BY <1>1, EdgeFacts DEF Quiet, In
  <2> QED
    BY <2>1, <2>2 DEF CountersExact, Quiet, countVars, Over
<1>3. MarkersSound'
  BY <1>1 DEF MarkersSound, Quiet, countVars, Over, Roots
<1>4. FailureConcludes'
  BY DEF FailureConcludes, Quiet, countVars, Over, MayFinish, Done, Final
<1>5. VerdictSound'
  BY DEF VerdictSound, Quiet, Over, Done, Final
<1> QED
  BY <1>2, <1>3, <1>4, <1>5

-----------------------------------------------------------------------------
(* Steps that decide a unit.                                               *)

\* What deciding u on port p does to the readings of the graph.
LEMMA ConcludeReadings ==
    ASSUME IndInv, NEW u \in Units, NEW st \in Final, NEW p, NEW fatal,
           ~Done(u), Conclude(u, st, p, fatal)
    PROVE  /\ \A w \in Units : Done(w)' <=> (Done(w) \/ w = u)
           /\ \A e \in Edges : Feeds(e)' <=> (Feeds(e) \/ (e.src = u /\ e.port = p))
           /\ \A w \in Units : (Ready(w) => Ready(w)') /\ (Dry(w) => Dry(w)')
           /\ \A w \in Units : Between(u, w) = {} => (Ready(w)' <=> Ready(w)) /\ (Dry(w)' <=> Dry(w))
<1>1. status \in [Units -> {"absent", "pending", "running"} \cup Final] /\ DOMAIN port = Units
  BY ZenonT(60) DEF IndInv, TypeOK
<1>2. /\ status' = [status EXCEPT ![u] = st]
      /\ port' = [port EXCEPT ![u] = p]
  BY DEF Conclude
<1>3. \A w \in Units : Done(w)' <=> (Done(w) \/ w = u)
  BY <1>1, <1>2 DEF Done
<1>4. \A e \in Edges : Feeds(e)' <=> (Feeds(e) \/ (e.src = u /\ e.port = p))
  BY <1>1, <1>2, <1>3, EdgeFacts DEF Feeds
<1>5. \A e \in Edges : /\ Done(e.src) => Done(e.src)'
                       /\ Done(e.src) => (Feeds(e)' <=> Feeds(e))
                       /\ Feeds(e) => Feeds(e)'
                       /\ e.src # u => (Done(e.src)' <=> Done(e.src)) /\ (Feeds(e)' <=> Feeds(e))
  BY <1>3, <1>4, EdgeFacts
<1>6. \A w : In(w) \subseteq Edges
  BY DEF In
<1>7. \A w \in Units : (Ready(w) => Ready(w)') /\ (Dry(w) => Dry(w)')
  BY <1>5, <1>6 DEF Ready, Dry, Roots
<1>8. \A w \in Units : Between(u, w) = {} => \A e \in In(w) : e.src # u
  BY DEF Between, In
<1>9. \A w \in Units : Between(u, w) = {} => (Ready(w)' <=> Ready(w)) /\ (Dry(w)' <=> Dry(w))
  BY <1>5, <1>6, <1>8 DEF Ready, Dry, Roots
<1> QED
  BY <1>3, <1>4, <1>7, <1>9

\* How the counted sets change when u is decided on port p.
LEMMA ConcludeCounts ==
    ASSUME IndInv, NEW u \in Units, NEW st \in Final, NEW p, NEW fatal,
           ~Done(u), Conclude(u, st, p, fatal)
    PROVE  /\ Cardinality({w \in Units : ~Done(w)}') = Cardinality({w \in Units : ~Done(w)}) - 1
           /\ Cardinality({w \in Units : ~Done(w)}) \in Nat
           /\ \A v \in Units :
                /\ Cardinality({e \in In(v) : ~Done(e.src)}')
                     = Cardinality({e \in In(v) : ~Done(e.src)}) - Cardinality(Between(u, v))
                /\ Cardinality({e \in In(v) : Feeds(e)}')
                     = Cardinality({e \in In(v) : Feeds(e)}) + Cardinality(Fed(u, p, v))
<1>1. {w \in Units : ~Done(w)}' = {w \in Units : ~Done(w)} \ {u}
  BY ConcludeReadings
<1>2. IsFiniteSet({w \in Units : ~Done(w)})
  BY UnitsAssumption, FS_Subset
<1>3. /\ Cardinality({w \in Units : ~Done(w)} \ {u}) = Cardinality({w \in Units : ~Done(w)}) - 1
      /\ Cardinality({w \in Units : ~Done(w)}) \in Nat
  BY ZenonT(60), <1>2, FS_RemoveElement, FS_CardinalityType
<1>4. ASSUME NEW v \in Units
      PROVE  /\ Cardinality({e \in In(v) : ~Done(e.src)}')
                  = Cardinality({e \in In(v) : ~Done(e.src)}) - Cardinality(Between(u, v))
             /\ Cardinality({e \in In(v) : Feeds(e)}')
                  = Cardinality({e \in In(v) : Feeds(e)}) + Cardinality(Fed(u, p, v))
  <2> DEFINE Open == {e \in In(v) : ~Done(e.src)}
             Live == {e \in In(v) : Feeds(e)}
  <2>1. In(v) \subseteq Edges /\ IsFiniteSet(In(v))
    BY ZenonT(60), EdgeFacts DEF In
  <2>2. {e \in In(v) : ~Done(e.src)}' = Open \ Between(u, v)
    BY <2>1, EdgeFacts, ConcludeReadings DEF Between, In
  <2>3. Open \cap Between(u, v) = Between(u, v)
    BY DEF Between, In
  <2>4. IsFiniteSet(Open) /\ IsFiniteSet(Live)
    BY <2>1, FS_Subset
  <2>5. Cardinality(Open \ Between(u, v)) = Cardinality(Open) - Cardinality(Between(u, v))
    BY ZenonT(60), <2>3, <2>4, FS_Difference
  <2>6. {e \in In(v) : Feeds(e)}' = Live \cup Fed(u, p, v)
    BY ZenonT(60), <2>1, ConcludeReadings DEF Fed, Between, In
  <2>7. Live \cap Fed(u, p, v) = {}
    BY DEF Fed, Between, Feeds
  <2>8. Cardinality(Live) \in Nat /\ Cardinality(Fed(u, p, v)) \in Nat
    BY <2>4, EdgeFacts, FS_CardinalityType
  <2>9. Cardinality(Live \cup Fed(u, p, v)) = Cardinality(Live) + Cardinality(Fed(u, p, v))
    <3>1. Cardinality(Live \cup Fed(u, p, v))
            = Cardinality(Live) + Cardinality(Fed(u, p, v)) - Cardinality(Live \cap Fed(u, p, v))
      BY <2>4, EdgeFacts, FS_Union
    <3>2. Cardinality(Live \cap Fed(u, p, v)) = 0
      BY <2>7, FS_EmptySet
    <3> HIDE DEF Live
    <3> QED
      BY <3>1, <3>2, <2>8
  <2> QED
    BY ZenonT(60), <2>2, <2>5, <2>6, <2>9
<1> QED
  BY ZenonT(60), <1>1, <1>3, <1>4

\* A step that decides unit u: st is failed exactly when the commit is fatal.
Deciding(u, st, p, fatal) ==
    /\ u \in Units /\ st \in Final /\ p \in Ports \cup {""} /\ fatal \in BOOLEAN
    /\ fatal <=> st = "failed"
    /\ ~Done(u)
    /\ Conclude(u, st, p, fatal)

\* Arrivals are counted only while the execution goes on running.
LEMMA ArriveOrNot ==
    ASSUME IndInv, NEW u, NEW st, NEW p, NEW fatal, Deciding(u, st, p, fatal)
    PROVE  /\ exec \in {"running", "canceling"}
           /\ exec' = "running" => exec = "running" /\ Arrive(u, p)
           /\ \/ exec = "running" /\ exec' = "running" /\ Arrive(u, p)
              \/ UNCHANGED <<inDegree, activeIns, scheduled, outbox>>
  BY ZenonT(60) DEF Deciding, Conclude, IndInv, TypeOK, Over, MayFinish

\* The counters stay exact.
LEMMA ConcludeCountersExact ==
    ASSUME IndInv, NEW u, NEW st, NEW p, NEW fatal, Deciding(u, st, p, fatal)
    PROVE  CountersExact'
<1>1. u \in Units /\ st \in Final /\ ~Done(u) /\ Conclude(u, st, p, fatal) /\ exec \notin Over
  BY ZenonT(60) DEF Deciding, Conclude
<1>2. remaining = Cardinality({w \in Units : ~Done(w)}) /\ remaining' = remaining - 1
  BY ZenonT(60), <1>1 DEF IndInv, CountersExact, Conclude
<1>3. remaining' = Cardinality({w \in Units : ~Done(w)}')
  BY <1>1, <1>2, ConcludeCounts
<1>4. ASSUME exec' = "running", NEW v \in Units
      PROVE  /\ inDegree'[v] = Cardinality({e \in In(v) : ~Done(e.src)}')
             /\ activeIns'[v] = Cardinality({e \in In(v) : Feeds(e)}')
  <2>1. exec = "running" /\ Arrive(u, p)
    BY <1>4, ArriveOrNot
  <2>2. /\ inDegree[v] = Cardinality({e \in In(v) : ~Done(e.src)})
        /\ activeIns[v] = Cardinality({e \in In(v) : Feeds(e)})
    BY <2>1 DEF IndInv, CountersExact
  <2>3. /\ inDegree'[v] = inDegree[v] - Cardinality(Between(u, v))
        /\ activeIns'[v] = activeIns[v] + Cardinality(Fed(u, p, v))
    BY ZenonT(60), <2>1 DEF Arrive
  <2>4. /\ Cardinality({e \in In(v) : ~Done(e.src)}')
             = Cardinality({e \in In(v) : ~Done(e.src)}) - Cardinality(Between(u, v))
        /\ Cardinality({e \in In(v) : Feeds(e)}')
             = Cardinality({e \in In(v) : Feeds(e)}) + Cardinality(Fed(u, p, v))
    BY ZenonT(60), <1>1, ConcludeCounts
  <2> QED
    BY <2>2, <2>3, <2>4
<1> QED
  BY ZenonT(60), <1>3, <1>4 DEF CountersExact

\* The marker a commit writes says what the graph says afterwards.
LEMMA DecisionSound ==
    ASSUME IndInv, NEW u, NEW st, NEW p, NEW fatal, Deciding(u, st, p, fatal),
           exec = "running", exec' = "running",
           NEW v \in Units, scheduled[v] = "none", Between(u, v) # {}
    PROVE  /\ v \notin Roots
           /\ Decision(u, p, v) = "execute" => Ready(v)'
           /\ Decision(u, p, v) = "skip" => Dry(v)'
           /\ Decision(u, p, v) = "none" => ~Ready(v)' /\ ~Dry(v)'
<1> DEFINE Open == {e \in In(v) : ~Done(e.src)}
           Live == {e \in In(v) : Feeds(e)}
<1>0. u \in Units /\ st \in Final /\ ~Done(u) /\ Conclude(u, st, p, fatal)
  BY ZenonT(60) DEF Deciding
<1>1. v \notin Roots /\ In(v) # {}
  BY EdgeFacts DEF Roots
<1>2. ~Ready(v) /\ ~Dry(v)
  BY <1>1 DEF IndInv, MarkersSound
<1>3. inDegree[v] = Cardinality(Open) /\ activeIns[v] = Cardinality(Live)
  BY ZenonT(60) DEF IndInv, CountersExact
<1>4. IsFiniteSet(Open) /\ IsFiniteSet(Live) /\ IsFiniteSet(Open') /\ In(v) \subseteq Edges
  BY ZenonT(60), EdgeFacts, FS_Subset DEF In
<1>5. /\ Cardinality(Open') = Cardinality(Open) - Cardinality(Between(u, v))
      /\ Cardinality(Open) \in Nat /\ Cardinality(Live) \in Nat
      /\ Cardinality(Open') \in Nat /\ Cardinality(Between(u, v)) \in Nat
  BY ZenonT(60), <1>0, <1>4, ConcludeCounts, EdgeFacts, FS_CardinalityType
<1>6. \A e \in In(v) : Feeds(e)' <=> (Feeds(e) \/ e \in Fed(u, p, v))
  BY <1>0, <1>4, ConcludeReadings DEF Fed, Between, In
<1>7. /\ Ready(v)' <=> /\ \E e \in In(v) : Feeds(e)'
                       /\ v \in WaitAny \/ Open' = {}
      /\ Dry(v)' <=> /\ Open' = {}
                     /\ \A e \in In(v) : ~Feeds(e)'
  BY <1>1 DEF Ready, Dry, Roots
<1>8. activeIns[v] = 0 <=> Live = {}
  BY <1>3, <1>4, FS_EmptySet
<1>9. inDegree[v] > Cardinality(Between(u, v)) <=> Open' # {}
  <2>1. Cardinality(Open') = 0 <=> Open' = {}
    BY <1>4, FS_EmptySet
  <2> HIDE DEF Open
  <2> QED
    BY <1>3, <1>5, <2>1
<1>10. v \in WaitAny => Live = {}
  BY <1>1, <1>2 DEF Ready
<1>11. Fed(u, p, v) \subseteq In(v)
  BY EdgeFacts
<1>12. activeIns[v] \in Nat
  BY ZenonT(60) DEF IndInv, TypeOK
<1>13. Live # {} <=> \E e \in In(v) : Feeds(e)
  OBVIOUS
<1> HIDE DEF Open, Live
<1>14. CASE v \in WaitAny /\ Fed(u, p, v) # {}
  BY ZenonT(60), <1>1, <1>6, <1>7, <1>8, <1>10, <1>11, <1>14 DEF Decision
<1>15. CASE ~(v \in WaitAny /\ Fed(u, p, v) # {}) /\ Open' # {}
  BY ZenonT(60), <1>1, <1>6, <1>7, <1>9, <1>10, <1>13, <1>15 DEF Decision
<1>16. CASE ~(v \in WaitAny /\ Fed(u, p, v) # {}) /\ Open' = {}
  BY <1>1, <1>6, <1>7, <1>8, <1>9, <1>11, <1>12, <1>13, <1>16 DEF Decision
<1> QED
  BY <1>14, <1>15, <1>16

\* Markers are written once, and only for units an arrival reached.
LEMMA MarkersWrittenOnce ==
    ASSUME IndInv, NEW u, NEW st, NEW p, NEW fatal, Deciding(u, st, p, fatal)
    PROVE  /\ scheduled' \in [Units -> {"none", "execute", "skip"}]
           /\ \A v \in Units : scheduled[v] # "none" => scheduled'[v] = scheduled[v]
           /\ \A v \in Units : scheduled'[v] # scheduled[v] =>
                /\ scheduled[v] = "none" /\ Between(u, v) # {}
                /\ scheduled'[v] = Decision(u, p, v)
                /\ exec = "running" /\ exec' = "running"
<1>1. scheduled \in [Units -> {"none", "execute", "skip"}]
  BY ZenonT(60) DEF IndInv, TypeOK
<1>2. CASE exec = "running" /\ exec' = "running" /\ Arrive(u, p)
  BY <1>1, <1>2 DEF Arrive, Decision
<1>3. CASE scheduled' = scheduled
  BY ZenonT(60), <1>1, <1>3
<1> QED
  BY <1>2, <1>3, ArriveOrNot

\* The markers stay sound.
LEMMA ConcludeMarkersSound ==
    ASSUME IndInv, NEW u, NEW st, NEW p, NEW fatal, Deciding(u, st, p, fatal)
    PROVE  MarkersSound'
<1>0. u \in Units /\ st \in Final /\ ~Done(u) /\ Conclude(u, st, p, fatal)
  BY ZenonT(60) DEF Deciding
<1> SUFFICES ASSUME NEW v \in Units
             PROVE  /\ scheduled'[v] = "execute" => v \notin Roots /\ Ready(v)'
                    /\ scheduled'[v] = "skip" => Dry(v)'
                    /\ scheduled'[v] = "none" /\ v \notin Roots /\ exec' = "running"
                         => ~Ready(v)' /\ ~Dry(v)'
  BY DEF MarkersSound, Roots
<1>1. /\ scheduled[v] = "execute" => v \notin Roots /\ Ready(v)
      /\ scheduled[v] = "skip" => Dry(v)
      /\ scheduled[v] = "none" /\ v \notin Roots /\ exec = "running" => ~Ready(v) /\ ~Dry(v)
  BY DEF IndInv, MarkersSound
<1>2. scheduled[v] \in {"none", "execute", "skip"} /\ scheduled'[v] \in {"none", "execute", "skip"}
  BY ZenonT(60), MarkersWrittenOnce DEF IndInv, TypeOK
<1>3. CASE scheduled[v] # "none"
  BY <1>0, <1>1, <1>2, <1>3, MarkersWrittenOnce, ConcludeReadings
<1>4. CASE scheduled[v] = "none" /\ Between(u, v) = {}
  BY ZenonT(60), <1>0, <1>1, <1>4, MarkersWrittenOnce, ConcludeReadings, ArriveOrNot
<1>5. CASE scheduled[v] = "none" /\ Between(u, v) # {} /\ exec' = "running"
  <2>1. exec = "running" /\ scheduled'[v] = Decision(u, p, v)
    BY <1>5, ArriveOrNot DEF Arrive
  <2> QED
    BY <1>2, <1>5, <2>1, DecisionSound
<1>6. CASE scheduled[v] = "none" /\ exec' # "running"
  BY <1>6, MarkersWrittenOnce
<1> QED
  BY <1>3, <1>4, <1>5, <1>6

\* A failure concludes the execution, and the verdict follows the units.
LEMMA ConcludeVerdict ==
    ASSUME IndInv, NEW u, NEW st, NEW p, NEW fatal, Deciding(u, st, p, fatal)
    PROVE  FailureConcludes' /\ VerdictSound'
<1>1. /\ u \in Units /\ st \in Final /\ ~Done(u) /\ Conclude(u, st, p, fatal)
      /\ fatal \in BOOLEAN /\ (fatal <=> st = "failed")
  BY ZenonT(60) DEF Deciding
<1>2. exec \in {"running", "canceling"} /\ failed \in Nat
  BY ZenonT(60), ArriveOrNot DEF IndInv, TypeOK
<1>3. \A w \in Units : status'[w] = IF w = u THEN st ELSE status[w]
  BY ZenonT(60), <1>1 DEF Conclude, IndInv, TypeOK
<1>4. MayFinish => failed = 0 /\ \A w \in Units : status[w] # "failed"
  BY <1>2 DEF IndInv, FailureConcludes, Over
<1>5. /\ exec' = "success" => MayFinish /\ ~fatal /\ remaining = 1
      /\ exec' = "failed" => fatal
      /\ exec' \in {"running", "canceling"} => exec' = exec /\ (~MayFinish \/ (~fatal /\ remaining # 1))
      /\ exec' \in {"running", "canceling", "success", "failed"}
      /\ failed' = IF fatal THEN failed + 1 ELSE failed
  BY <1>1, <1>2, <1>4 DEF Conclude
<1>6. exec' = exec => (MayFinish' <=> MayFinish)
  BY DEF MayFinish
<1>7. FailureConcludes'
  BY ZenonT(60), <1>1, <1>3, <1>4, <1>5, <1>6 DEF FailureConcludes, Over
<1>8. IsFiniteSet({w \in Units : ~Done(w)}') /\ Cardinality({w \in Units : ~Done(w)}') = remaining - 1
  <2>1. IsFiniteSet({w \in Units : ~Done(w)}')
    BY UnitsAssumption, FS_Subset
  <2>2. remaining = Cardinality({w \in Units : ~Done(w)})
    BY <1>2 DEF IndInv, CountersExact, Over
  <2> QED
    BY <1>1, <2>1, <2>2, ConcludeCounts
<1>9. remaining = 1 <=> \A w \in Units : Done(w)'
  <2>1. Cardinality({w \in Units : ~Done(w)}') = 0 <=> {w \in Units : ~Done(w)}' = {}
    BY ZenonT(60), <1>8, FS_EmptySet
  <2>2. {w \in Units : ~Done(w)}' = {} <=> \A w \in Units : Done(w)'
    OBVIOUS
  <2>3. remaining \in Int
    BY ZenonT(60) DEF IndInv, TypeOK
  <2> QED
    BY <1>8, <2>1, <2>2, <2>3
<1>10. exec' = "success" => \A w \in Units : Done(w)' /\ status'[w] # "failed"
  BY <1>1, <1>3, <1>4, <1>5, <1>9
<1>11. exec' = "failed" => \E w \in Units : status'[w] = "failed"
  BY Zenon, <1>1, <1>3, <1>5
<1>12. exec' = "running" => MayFinish /\ ~fatal /\ remaining # 1
  BY <1>5 DEF MayFinish
<1>13. exec' = "running" => \A w \in Units : status'[w] # "failed"
  BY <1>1, <1>3, <1>4, <1>12
<1>14. exec' = "running" => \E w \in Units : ~Done(w)'
  BY ZenonT(60), <1>9, <1>12
<1> QED
  BY <1>7, <1>10, <1>11, <1>13, <1>14 DEF VerdictSound

\* A decision for the right reason, that takes at most u's own task off the
\* queue and marks at most u's own intents as sent.
Proper(u, st, p) ==
    /\ IF st = "skipped" /\ p = "" THEN Dry(u) ELSE Ready(u)
    /\ queue' \subseteq queue /\ queue \subseteq queue' \cup {u}
    /\ sent' \subseteq sent \cup {i \in outbox : i.unit = u}

\* What a deciding step leaves in the outbox: the old intents, and one new
\* intent for each unit it marked.
LEMMA ConcludeOutbox ==
    ASSUME IndInv, NEW u, NEW st, NEW p, NEW fatal, Deciding(u, st, p, fatal)
    PROVE  /\ outbox \subseteq outbox'
           /\ outbox' \subseteq Intents
           /\ \A i \in outbox' \ outbox :
                i.kind \in {"execute", "skip"} /\ i.kind = scheduled'[i.unit] /\ i.n = 0
           /\ \A v \in Units : scheduled'[v] # scheduled[v] =>
                Intent(scheduled'[v], v, 0) \in outbox'
<1>1. outbox \subseteq Intents /\ scheduled \in [Units -> {"none", "execute", "skip"}]
  BY ZenonT(60) DEF IndInv, TypeOK
<1>2. CASE Arrive(u, p)
  <2>1. \A v \in Units : scheduled'[v] = Decision(u, p, v)
    BY ZenonT(60), <1>2 DEF Arrive
  <2>2. \A v \in Units : Decision(u, p, v) \in {"none", "execute", "skip"}
    BY <1>1 DEF Decision
  <2>3. \A i \in outbox' : i \in outbox \/ \E v \in Units :
          scheduled[v] = "none" /\ Decision(u, p, v) # "none" /\ i = Intent(Decision(u, p, v), v, 0)
    BY <1>2 DEF Arrive
  <2>4. \A v \in Units : scheduled[v] = "none" /\ Decision(u, p, v) # "none" =>
          Intent(Decision(u, p, v), v, 0) \in outbox'
    BY <1>2 DEF Arrive
  <2>5. \A v \in Units : scheduled[v] # "none" => Decision(u, p, v) = scheduled[v]
    BY DEF Decision
  <2>6. outbox \subseteq outbox'
    BY <1>2 DEF Arrive
  <2>7. outbox' \subseteq Intents
    BY <1>1, <2>2, <2>3 DEF Intents, Intent
  <2>8. \A i \in outbox' \ outbox :
          i.kind \in {"execute", "skip"} /\ i.kind = scheduled'[i.unit] /\ i.n = 0
    BY <2>1, <2>2, <2>3 DEF Intent
  <2>9. \A v \in Units : scheduled'[v] # scheduled[v] => Intent(scheduled'[v], v, 0) \in outbox'
    BY <2>1, <2>4, <2>5
  <2> QED
    BY ZenonT(60), <2>6, <2>7, <2>8, <2>9
<1>3. CASE UNCHANGED <<scheduled, outbox>>
  BY <1>1, <1>3
<1> QED
  BY <1>2, <1>3, ArriveOrNot

\* Types are kept.
LEMMA ConcludeTypeOK ==
    ASSUME IndInv, NEW u, NEW st, NEW p, NEW fatal, Deciding(u, st, p, fatal), Proper(u, st, p)
    PROVE  TypeOK'
<1>1. /\ u \in Units /\ st \in Final /\ p \in Ports \cup {""} /\ Conclude(u, st, p, fatal)
      /\ fatal \in BOOLEAN
  BY ZenonT(60) DEF Deciding
<1>2. TypeOK
  BY DEF IndInv
<1>3. /\ status' \in [Units -> {"absent", "pending", "running"} \cup Final]
      /\ port' \in [Units -> Ports \cup {""}]
      /\ attempt' = attempt
      /\ lapsed' \subseteq Units /\ listed' \subseteq Units
      /\ exec' \in {"running", "canceling"} \cup Over
  BY ZenonT(60), <1>1, <1>2 DEF TypeOK, Conclude, Over
<1>9. remaining' \in Int /\ failed' \in Nat
  <2>1. remaining \in Int /\ failed \in Nat
    BY ZenonT(60), <1>2 DEF TypeOK
  <2>2. remaining' = remaining - 1 /\ (failed' = failed + 1 \/ failed' = failed)
    BY ZenonT(60), <1>1 DEF Conclude
  <2> QED
    BY <2>1, <2>2
<1>4. inDegree' \in [Units -> Int] /\ activeIns' \in [Units -> Nat]
  <2>1. \A v : Cardinality(Between(u, v)) \in Nat /\ Cardinality(Fed(u, p, v)) \in Nat
    BY EdgeFacts, FS_CardinalityType
  <2>2. inDegree \in [Units -> Int] /\ activeIns \in [Units -> Nat]
    BY ZenonT(60), <1>2 DEF TypeOK
  <2>3. CASE Arrive(u, p)
    <3>1. \A v \in Units : /\ inDegree[v] - Cardinality(Between(u, v)) \in Int
                          /\ activeIns[v] + Cardinality(Fed(u, p, v)) \in Nat
      BY <2>1, <2>2
    <3> QED
      BY <2>3, <3>1 DEF Arrive
  <2>4. CASE UNCHANGED <<inDegree, activeIns>>
    BY <2>2, <2>4
  <2> QED
    BY ZenonT(60), <2>3, <2>4, ArriveOrNot
<1>5. outbox \subseteq outbox' /\ outbox' \subseteq Intents
  BY ConcludeOutbox
<1>6. sent' \subseteq outbox' /\ queue' \subseteq Units
  BY ZenonT(60), <1>2, <1>5 DEF TypeOK, Proper
<1> QED
  BY ZenonT(60), <1>2, <1>3, <1>4, <1>5, <1>6, <1>9, MarkersWrittenOnce DEF TypeOK

\* All work stays justified, and its leases ordered.
LEMMA ConcludeWork ==
    ASSUME IndInv, NEW u, NEW st, NEW p, NEW fatal, Deciding(u, st, p, fatal), Proper(u, st, p)
    PROVE  WorkJustified' /\ LeasesOrdered'
<1>1. u \in Units /\ st \in Final /\ ~Done(u) /\ Conclude(u, st, p, fatal)
  BY ZenonT(60) DEF Deciding
<1>2. /\ \A w \in Units : status'[w] = IF w = u THEN st ELSE status[w]
      /\ \A w \in Units : port'[w] = IF w = u THEN p ELSE port[w]
      /\ attempt' = attempt /\ lapsed' = lapsed \ {u} /\ listed' = listed \ {u}
  BY ZenonT(60), <1>1 DEF Conclude, IndInv, TypeOK
<1>3. \A w \in Units : ToRun(w) => ToRun(w)'
  BY MarkersWrittenOnce DEF ToRun, Roots
<1>4. \A w \in Units : (Ready(w) => Ready(w)') /\ (Dry(w) => Dry(w)')
  BY <1>1, ConcludeReadings
<1>5. WorkJustified
  BY DEF IndInv
<1>6. ASSUME NEW w \in Units
      PROVE  /\ w \in queue' \/ status'[w] \in {"pending", "running"} \/ attempt'[w] > 0 => ToRun(w)'
             /\ status'[w] = "pinned" => Ready(w)'
             /\ status'[w] = "skipped" => IF port'[w] = "" THEN Dry(w)' ELSE Ready(w)'
  BY ZenonT(60), <1>1, <1>2, <1>3, <1>4, <1>5 DEF WorkJustified, Proper, Final
<1>7. ASSUME NEW i \in outbox'
      PROVE  IF i.kind = "skip" THEN scheduled'[i.unit] = "skip" ELSE ToRun(i.unit)'
  <2>1. i.unit \in Units
    BY ConcludeOutbox DEF Intents
  <2>2. CASE i \in outbox
    BY ZenonT(60), <1>3, <1>5, <2>1, <2>2, MarkersWrittenOnce DEF WorkJustified
  <2>3. CASE i \notin outbox
    BY <2>1, <2>3, ConcludeOutbox DEF ToRun
  <2> QED
    BY <2>2, <2>3
<1>8. WorkJustified'
  BY ZenonT(60), <1>6, <1>7 DEF WorkJustified
<1>9. LeasesOrdered
  BY ZenonT(60) DEF IndInv
<1>10. ASSUME NEW i \in outbox', i.kind \in {"retry", "requeue"}
       PROVE  i.n <= attempt'[i.unit] /\ (i.n = attempt'[i.unit] => status'[i.unit] # "running")
  <2>1. i \in outbox /\ i.unit \in Units
    BY ZenonT(60), <1>10, ConcludeOutbox DEF Intents
  <2> QED
    BY ZenonT(60), <1>1, <1>2, <1>9, <1>10, <2>1 DEF LeasesOrdered, Final
<1>11. LeasesOrdered'
  BY ZenonT(60), <1>1, <1>2, <1>9, <1>10 DEF LeasesOrdered, Final
<1> QED
  BY <1>8, <1>11

\* Every unit the decision makes due is held by its new intent.
LEMMA ConcludeHeld ==
    ASSUME IndInv, NEW u, NEW st, NEW p, NEW fatal, Deciding(u, st, p, fatal), Proper(u, st, p)
    PROVE  WorkHeld'
<1> SUFFICES ASSUME exec' = "running", NEW w \in Units, ~Done(w)'
             PROVE  /\ ToRun(w)' => \/ \E i \in outbox' \ sent' : i.unit = w
                                    \/ w \in queue'
                                    \/ status'[w] = "running"
                    /\ scheduled'[w] = "skip" => \E i \in outbox' \ sent' : i.unit = w
  BY DEF WorkHeld
<1>1. u \in Units /\ st \in Final /\ ~Done(u) /\ Conclude(u, st, p, fatal) /\ exec = "running"
  BY ZenonT(60), ArriveOrNot DEF Deciding
<1>2. ~Done(w) /\ w # u
  BY <1>1, ConcludeReadings
<1>3. status'[w] = status[w]
  BY ZenonT(60), <1>1, <1>2 DEF Conclude, IndInv, TypeOK
<1>4. \A i \in outbox \ sent : i.unit = w => i \in outbox' \ sent'
  BY ZenonT(60), <1>2, ConcludeOutbox DEF Proper
<1>5. /\ ToRun(w) => \/ \E i \in outbox \ sent : i.unit = w
                     \/ w \in queue
                     \/ status[w] = "running"
      /\ scheduled[w] = "skip" => \E i \in outbox \ sent : i.unit = w
  BY <1>1, <1>2 DEF IndInv, WorkHeld
<1>6. CASE scheduled'[w] = scheduled[w]
  <2>1. ToRun(w)' <=> ToRun(w)
    BY <1>6 DEF ToRun, Roots
  <2>2. w \in queue => w \in queue'
    BY ZenonT(60), <1>2 DEF Proper
  <2> QED
    BY <1>3, <1>4, <1>5, <1>6, <2>1, <2>2
<1>7. CASE scheduled'[w] # scheduled[w]
  <2> DEFINE i == Intent(scheduled'[w], w, 0)
  <2>1. i \in outbox' /\ i.unit = w /\ i.kind = scheduled'[w]
    BY <1>7, ConcludeOutbox DEF Intent
  <2>2. scheduled[w] = "none" /\ Between(u, w) # {} /\ scheduled'[w] \in {"execute", "skip"}
    BY ZenonT(60), <1>7, MarkersWrittenOnce
  <2>3. w \notin Roots
    BY <2>2, EdgeFacts DEF Roots
  <2>4. i \notin outbox
    BY ZenonT(60), <2>1, <2>2, <2>3 DEF IndInv, WorkJustified, ToRun
  <2>5. i \notin sent'
    BY ZenonT(60), <2>4 DEF Proper, IndInv, TypeOK
  <2> QED
    BY ZenonT(60), <2>1, <2>5
<1> QED
  BY <1>6, <1>7

\* Every step that decides a unit keeps the invariant.
LEMMA ConcludeStep ==
    ASSUME IndInv, NEW u, NEW st, NEW p, NEW fatal, Deciding(u, st, p, fatal), Proper(u, st, p)
    PROVE  IndInv'
<1>1. TypeOK' /\ WorkJustified' /\ LeasesOrdered' /\ WorkHeld'
  BY ConcludeTypeOK, ConcludeWork, ConcludeHeld
<1>2. CountersExact' /\ MarkersSound' /\ FailureConcludes' /\ VerdictSound'
  BY ConcludeCountersExact, ConcludeMarkersSound, ConcludeVerdict
<1> QED
  BY <1>1, <1>2 DEF IndInv

-----------------------------------------------------------------------------
(* The actions, one by one.                                                *)

\* A unit that is to run is due.
LEMMA ToRunReady ==
    ASSUME IndInv
    PROVE  \A u \in Units : ToRun(u) => Ready(u)
  BY DEF IndInv, MarkersSound, ToRun, Ready

\* Reports that decide their unit.
LEMMA ReportStep ==
    ASSUME IndInv, NEW u \in Units, NEW n, Holds(u, n),
           NEW st \in {"success", "failed", "continued"}, NEW p \in Ports \cup {""}, NEW fatal,
           fatal = (st = "failed"),
           Conclude(u, st, p, fatal), UNCHANGED <<sent, queue>>
    PROVE  /\ Deciding(u, st, p, fatal) /\ Proper(u, st, p)
           /\ IndInv'
<1>1. Deciding(u, st, p, fatal)
  BY ZenonT(60) DEF Deciding, Holds, Done, Final
<1>2. Ready(u)
  BY ZenonT(60), ToRunReady DEF IndInv, WorkJustified, Holds
<1>3. Proper(u, st, p)
  BY ZenonT(60), <1>2 DEF Proper
<1> QED
  BY ZenonT(60), <1>1, <1>3, ConcludeStep

\* What on_error makes of an error.
LEMMA OutcomeFacts ==
    ASSUME NEW u \in Units
    PROVE  /\ Outcome(u).status \in {"success", "failed", "continued"}
           /\ Outcome(u).port \in Ports \cup {""}
           /\ Outcome(u).fatal = (Outcome(u).status = "failed")
<1>1. OnError[u] \in {"stop", "error_output", "main_output", "continue"}
  BY ZenonT(60), PolicyAssumption DEF Policies
<1>2. "main" \in Ports /\ "error" \in Ports
  BY ZenonT(60), PolicyAssumption
<1> QED
  BY ZenonT(60), <1>1, <1>2 DEF Outcome

\* The skip commit of the outbox dispatcher.
LEMMA SkipStep ==
    ASSUME IndInv, NEW i \in outbox, SkipUnit(i)
    PROVE  \/ Deciding(i.unit, "skipped", "", FALSE) /\ Proper(i.unit, "skipped", "") /\ IndInv'
           \/ /\ UNCHANGED <<exec, nodeVars, leaseVars, countVars, outbox, queue>>
              /\ exec = "running" => Done(i.unit)
<1>1. i.unit \in Units /\ i.kind = "skip" /\ scheduled[i.unit] = "skip"
  BY ZenonT(60) DEF IndInv, WorkJustified, TypeOK, Intents, SkipUnit
<1>2. Dry(i.unit)
  BY <1>1 DEF IndInv, MarkersSound
<1>3. CASE exec \notin Over /\ status[i.unit] \in {"absent", "pending"}
  <2>1. Conclude(i.unit, "skipped", "", FALSE) /\ queue' = queue /\ sent' = sent \cup {i}
    BY ZenonT(60), <1>3 DEF SkipUnit
  <2>2. Deciding(i.unit, "skipped", "", FALSE)
    BY ZenonT(60), <1>1, <1>3, <2>1 DEF Deciding, Done, Final
  <2>3. Proper(i.unit, "skipped", "")
    BY ZenonT(60), <1>2, <2>1 DEF Proper
  <2> QED
    BY ZenonT(60), <2>2, <2>3, ConcludeStep
<1>4. CASE ~(exec \notin Over /\ status[i.unit] \in {"absent", "pending"})
  <2>1. UNCHANGED <<exec, nodeVars, leaseVars, countVars, outbox, queue>>
    BY ZenonT(60), <1>4 DEF SkipUnit
  <2>2. i.unit \notin Roots
    BY <1>2 DEF Dry
  <2>3. ~ToRun(i.unit)
    BY <1>1, <2>2 DEF ToRun
  <2>4. status[i.unit] # "running" /\ status[i.unit] \in {"absent", "pending", "running"} \cup Final
    BY ZenonT(60), <1>1, <2>3 DEF IndInv, WorkJustified, TypeOK
  <2> QED
    BY ZenonT(60), <1>4, <2>1, <2>4 DEF Over, Done
<1> QED
  BY ZenonT(60), <1>3, <1>4

\* Disabled and pinned units.
LEMMA ServeStep ==
    ASSUME IndInv, NEW u \in Units, Serve(u)
    PROVE  \E st \in {"pinned", "skipped"} :
             Deciding(u, st, "main", FALSE) /\ Proper(u, st, "main") /\ IndInv'
<1> DEFINE st == IF Mode[u] = "pinned" THEN "pinned" ELSE "skipped"
<1>1. u \in queue /\ queue' \in {queue, queue \ {u}} /\ sent' = sent
  BY Zenon DEF Serve, Consume
<1>2. ToRun(u)
  BY ZenonT(60), <1>1 DEF IndInv, WorkJustified
<1>3. Ready(u)
  BY <1>2, ToRunReady
<1>4. "main" \in Ports /\ "main" # ""
  BY ZenonT(60), PolicyAssumption
<1>5. Deciding(u, st, "main", FALSE)
  BY ZenonT(60), <1>4 DEF Serve, Deciding, Done, Final
<1>6. Proper(u, st, "main")
  BY <1>1, <1>3, <1>4 DEF Proper
<1> QED
  BY ZenonT(60), <1>5, <1>6, ConcludeStep

\* For a quiet step only types, justification, lease order and holders are
\* left to show.
LEMMA QuietSuffices ==
    ASSUME IndInv, Quiet, TypeOK', WorkJustified', LeasesOrdered', WorkHeld'
    PROVE  IndInv'
  BY QuietStep DEF IndInv

\* Retry, release and reclaim: the lease ends, the new intent is of this lease
\* and none is delivered yet.
LEMMA GiveBackStep ==
    ASSUME IndInv, NEW u \in Units, NEW n, Holds(u, n), attempt[u] < MaxLeases[u],
           NEW k \in {"retry", "requeue"}, GiveBack(u, Intent(k, u, n))
    PROVE  Quiet /\ IndInv'
<1> DEFINE i == Intent(k, u, n)
<1>1. /\ status[u] = "running" /\ n = attempt[u] /\ n \in Nat
      /\ i.kind = k /\ i.unit = u /\ i.n = n /\ i \in Intents
  BY ZenonT(60) DEF Holds, Intent, Intents, IndInv, TypeOK
<1>2. /\ \A w \in Units : status'[w] = IF w = u THEN "pending" ELSE status[w]
      /\ status' \in [Units -> {"absent", "pending", "running"} \cup Final]
      /\ lapsed' = lapsed \ {u} /\ listed' = listed \ {u} /\ outbox' = outbox \cup {i}
      /\ UNCHANGED <<exec, attempt, port, countVars, sent, queue>>
  BY ZenonT(60) DEF GiveBack, IndInv, TypeOK
<1> HIDE DEF i
<1>3. Quiet
  BY ZenonT(60), <1>1, <1>2 DEF Quiet, Done, Final, IndInv, TypeOK
<1>4. TypeOK'
  BY ZenonT(60), <1>1, <1>2 DEF IndInv, TypeOK, countVars
<1>5. \A w \in Units : (Ready(w)' <=> Ready(w)) /\ (Dry(w)' <=> Dry(w)) /\ (ToRun(w)' <=> ToRun(w))
  BY <1>2, <1>3, SameReadings DEF Quiet, ToRun, countVars, Roots
<1>6. ToRun(u)
  BY ZenonT(60), <1>1 DEF IndInv, WorkJustified
<1>7. \A j \in outbox : j.unit \in Units
  BY ZenonT(60) DEF IndInv, TypeOK, Intents
<1>8. WorkJustified'
  BY ZenonT(60), <1>1, <1>2, <1>5, <1>6, <1>7 DEF IndInv, WorkJustified, countVars
<1>9. LeasesOrdered'
  BY <1>1, <1>2, <1>7 DEF IndInv, LeasesOrdered
<1>10. i \notin sent
  BY ZenonT(60), <1>1 DEF IndInv, LeasesOrdered, TypeOK
<1>11. WorkHeld'
  <2> SUFFICES ASSUME exec' = "running", NEW w \in Units, ~Done(w)'
               PROVE  /\ ToRun(w)' => \/ \E j \in outbox' \ sent' : j.unit = w
                                      \/ w \in queue'
                                      \/ status'[w] = "running"
                      /\ scheduled'[w] = "skip" => \E j \in outbox' \ sent' : j.unit = w
    BY ZenonT(60) DEF WorkHeld
  <2>1. CASE w = u
    BY <1>1, <1>2, <1>10, <2>1
  <2>2. CASE w # u
    BY ZenonT(60), <1>2, <1>3, <1>5, <2>2 DEF IndInv, WorkHeld, Quiet, countVars
  <2> QED
    BY ZenonT(60), <2>1, <2>2
<1> QED
  BY <1>3, <1>4, <1>8, <1>9, <1>11, QuietSuffices

\* Steps that change neither the execution, nor a node, nor a counter: leases
\* run out or are renewed, intents are delivered, handled or acknowledged,
\* tasks are dropped.
LEMMA DeliveryStep ==
    ASSUME IndInv, UNCHANGED <<exec, nodeVars, countVars>>,
           lapsed' \subseteq Units, listed' \subseteq Units,
           \A u \in lapsed' \cup listed' : status[u] = "running" /\ attempt[u] < MaxLeases[u],
           outbox' \subseteq outbox, sent' \subseteq outbox', queue' \subseteq Units,
           \A u \in queue' : u \in queue \/ ToRun(u),
           exec = "running" => \A u \in Units : ~Done(u) =>
             /\ u \in queue => u \in queue' \/ status[u] = "running"
             /\ \A i \in outbox \ sent : i.unit = u =>
                  i \in outbox' \ sent' \/ (ToRun(u) /\ u \in queue')
    PROVE  Quiet /\ IndInv'
<1>1. Quiet
  BY ZenonT(60) DEF Quiet, Done, Final, IndInv, TypeOK, nodeVars
<1>2. TypeOK'
  BY ZenonT(60) DEF IndInv, TypeOK, nodeVars, countVars
<1>3. \A w \in Units : (Ready(w)' <=> Ready(w)) /\ (Dry(w)' <=> Dry(w)) /\ (ToRun(w)' <=> ToRun(w))
  BY ZenonT(60), <1>1, SameReadings DEF Quiet, ToRun, countVars, Roots
<1>4. \A j \in outbox : j.unit \in Units
  BY ZenonT(60) DEF IndInv, TypeOK, Intents
<1>5. WorkJustified'
  BY ZenonT(60), <1>3, <1>4 DEF IndInv, WorkJustified, nodeVars, countVars
<1>6. LeasesOrdered'
  BY ZenonT(60) DEF IndInv, LeasesOrdered, nodeVars
<1>7. WorkHeld'
  <2> SUFFICES ASSUME exec = "running", NEW w \in Units, ~Done(w)
               PROVE  /\ ToRun(w) => \/ \E j \in outbox' \ sent' : j.unit = w
                                     \/ w \in queue'
                                     \/ status[w] = "running"
                      /\ scheduled[w] = "skip" => \E j \in outbox' \ sent' : j.unit = w
    BY ZenonT(60), <1>1, <1>3 DEF WorkHeld, nodeVars, countVars, Quiet
  <2>1. /\ ToRun(w) => \/ \E j \in outbox \ sent : j.unit = w
                       \/ w \in queue
                       \/ status[w] = "running"
        /\ scheduled[w] = "skip" => \E j \in outbox \ sent : j.unit = w
    BY ZenonT(60) DEF IndInv, WorkHeld
  <2>2. scheduled[w] = "skip" => ~ToRun(w)
    BY DEF IndInv, MarkersSound, Dry, ToRun
  <2> QED
    BY ZenonT(60), <2>1, <2>2
<1> QED
  BY <1>1, <1>2, <1>5, <1>6, <1>7, QuietSuffices

\* Granting a lease.
LEMMA AcquireStep ==
    ASSUME IndInv, NEW u \in Units, Acquire(u)
    PROVE  Quiet /\ IndInv'
<1>1. /\ u \in queue /\ queue' \subseteq queue /\ queue \subseteq queue' \cup {u}
      /\ Leasable(u)
      /\ status' = [status EXCEPT ![u] = "running"]
      /\ attempt' = [attempt EXCEPT ![u] = @ + 1]
      /\ lapsed' = lapsed \ {u} /\ listed' = listed \ {u}
      /\ UNCHANGED <<exec, port, countVars, outbox, sent>>
  BY DEF Acquire, Consume
<1>15. status \in [Units -> {"absent", "pending", "running"} \cup Final] /\ attempt \in [Units -> Nat]
  BY ZenonT(60) DEF IndInv, TypeOK
<1>2. /\ \A w \in Units : status'[w] = IF w = u THEN "running" ELSE status[w]
      /\ \A w \in Units : attempt'[w] = IF w = u THEN attempt[u] + 1 ELSE attempt[w]
      /\ status' \in [Units -> {"absent", "pending", "running"} \cup Final]
      /\ attempt' \in [Units -> Nat]
  BY SMTT(60), <1>1, <1>15
<1>3. attempt[u] < MaxLeases[u]
  BY <1>1, BoundAssumption DEF Leasable, IndInv, LeasesOrdered
<1>4. MaxLeases \in [Units -> Nat]
  BY BoundAssumption
<1>5. ~Done(u)
  BY ZenonT(60), <1>1 DEF Leasable, Done, Final
<1>6. Quiet
  <2>1. \A w \in Units : Done(w) => w # u
    BY ZenonT(60), <1>5
  <2>2. \A w \in Units : Done(w)' <=> Done(w)
    BY <1>2, <1>5 DEF Done, Final
  <2> QED
    BY <1>1, <1>2, <1>15, <2>1, <2>2 DEF Quiet, Done
<1>7. \A w \in Units : attempt'[w] <= MaxLeases[w]
  <2>1. \A w \in Units : attempt[w] <= MaxLeases[w]
    BY ZenonT(60) DEF IndInv, TypeOK
  <2> QED
    BY <1>2, <1>3, <1>4, <1>15, <2>1
<1>8. TypeOK'
  BY ZenonT(60), <1>1, <1>2, <1>7 DEF IndInv, TypeOK, countVars
<1>9. \A w \in Units : (Ready(w)' <=> Ready(w)) /\ (Dry(w)' <=> Dry(w)) /\ (ToRun(w)' <=> ToRun(w))
  BY <1>1, <1>6, SameReadings DEF Quiet, ToRun, countVars, Roots
<1>10. ToRun(u)
  BY ZenonT(60), <1>1 DEF IndInv, WorkJustified
<1>11. \A j \in outbox : j.unit \in Units /\ j.n \in Nat
  BY ZenonT(60) DEF IndInv, TypeOK, Intents
<1>12. WorkJustified'
  BY ZenonT(60), <1>1, <1>2, <1>9, <1>10, <1>11 DEF IndInv, WorkJustified, countVars
<1>13. LeasesOrdered'
  <2>1. LeasesOrdered
    BY ZenonT(60) DEF IndInv
  <2>2. ASSUME NEW j \in outbox, j.kind \in {"retry", "requeue"}
        PROVE  j.n <= attempt'[j.unit] /\ (j.n = attempt'[j.unit] => status'[j.unit] # "running")
    <3>1. j.n <= attempt[j.unit] /\ (j.n = attempt[j.unit] => status[j.unit] # "running")
      BY <2>1, <2>2 DEF LeasesOrdered
    <3>2. j.unit \in Units /\ j.n \in Nat /\ attempt[j.unit] \in Nat
      BY ZenonT(60), <1>11, <1>15
    <3> QED
      BY SMTT(60), <1>2, <3>1, <3>2
  <2>3. ASSUME NEW w \in Units
        PROVE  /\ w \in lapsed' \cup listed' => status'[w] = "running" /\ attempt'[w] < MaxLeases[w]
               /\ status'[w] = "absent" => attempt'[w] = 0
               /\ status'[w] = "pending" => attempt'[w] < MaxLeases[w]
    BY <1>1, <1>2, <2>1 DEF LeasesOrdered
  <2>4. outbox' = outbox
    BY ZenonT(60), <1>1
  <2> QED
    BY <2>2, <2>3, <2>4 DEF LeasesOrdered
<1>14. WorkHeld'
  <2> SUFFICES ASSUME exec' = "running", NEW w \in Units, ~Done(w)'
               PROVE  /\ ToRun(w)' => \/ \E j \in outbox' \ sent' : j.unit = w
                                      \/ w \in queue'
                                      \/ status'[w] = "running"
                      /\ scheduled'[w] = "skip" => \E j \in outbox' \ sent' : j.unit = w
    BY ZenonT(60) DEF WorkHeld
  <2>1. CASE w = u
    <3>1. scheduled[u] # "skip"
      BY <1>10 DEF IndInv, MarkersSound, Dry, ToRun
    <3> QED
      BY <1>1, <1>2, <2>1, <3>1 DEF countVars
  <2>2. CASE w # u
    BY ZenonT(60), <1>1, <1>2, <1>6, <1>9, <2>2 DEF IndInv, WorkHeld, Quiet, countVars
  <2> QED
    BY ZenonT(60), <2>1, <2>2
<1> QED
  BY <1>6, <1>8, <1>12, <1>13, <1>14, QuietSuffices

\* Cancel and timeout: the execution leaves "running", its outbox may go.
LEMMA StopStep ==
    ASSUME IndInv,
           \/ exec = "running" /\ exec' \in {"canceling", "timeout"}
           \/ exec = "canceling" /\ exec' = "canceled",
           outbox' \subseteq outbox, sent' \subseteq outbox',
           UNCHANGED <<nodeVars, leaseVars, countVars, queue>>
    PROVE  Quiet /\ IndInv'
<1>1. Quiet
  BY ZenonT(60) DEF Quiet, Done, Final, IndInv, TypeOK, nodeVars
<1>2. TypeOK'
  BY ZenonT(60) DEF IndInv, TypeOK, nodeVars, countVars, leaseVars, Over
<1>3. \A w \in Units : (Ready(w)' <=> Ready(w)) /\ (Dry(w)' <=> Dry(w)) /\ (ToRun(w)' <=> ToRun(w))
  BY ZenonT(60), <1>1, SameReadings DEF Quiet, ToRun, countVars, Roots
<1>4. \A j \in outbox : j.unit \in Units
  BY ZenonT(60) DEF IndInv, TypeOK, Intents
<1>5. WorkJustified'
  BY ZenonT(60), <1>3, <1>4 DEF IndInv, WorkJustified, nodeVars, countVars
<1>6. LeasesOrdered'
  BY ZenonT(60) DEF IndInv, LeasesOrdered, nodeVars, leaseVars
<1>7. WorkHeld'
  BY ZenonT(60) DEF WorkHeld
<1> QED
  BY <1>1, <1>2, <1>5, <1>6, <1>7, QuietSuffices

-----------------------------------------------------------------------------
(* Every step decides one unit for a proper reason, or is quiet.           *)

Decides == \E u \in Units, st \in Final, p \in Ports \cup {""}, fatal \in BOOLEAN :
             Deciding(u, st, p, fatal) /\ Proper(u, st, p)

\* A step of the specification preserves the invariant; it decides one unit or
\* it is quiet.
LEMMA NextStep ==
    ASSUME IndInv, Next
    PROVE  IndInv' /\ (Decides \/ Quiet)
<1>1. ASSUME NEW u \in Units, NEW n \in 1..attempt[u], NEW p \in Ports, CommitSuccess(u, n, p)
      PROVE  IndInv' /\ (Decides \/ Quiet)
  <2>1. Deciding(u, "success", p, FALSE) /\ Proper(u, "success", p) /\ IndInv'
    BY ZenonT(60), <1>1, ReportStep DEF CommitSuccess
  <2> QED
    BY ZenonT(60), <2>1 DEF Decides, Final
<1>2. ASSUME NEW u \in Units, NEW n \in 1..attempt[u], Retry(u, n)
      PROVE  IndInv' /\ (Decides \/ Quiet)
  <2>1. Holds(u, n) /\ n < MaxAttempts[u] /\ GiveBack(u, Intent("retry", u, n))
    BY <1>2 DEF Retry
  <2>2. attempt[u] < MaxLeases[u]
    BY <2>1, BoundAssumption DEF Holds
  <2> QED
    BY <2>1, <2>2, GiveBackStep
<1>3. ASSUME NEW u \in Units, NEW n \in 1..attempt[u], CommitError(u, n)
      PROVE  IndInv' /\ (Decides \/ Quiet)
  <2>1. /\ Holds(u, n) /\ UNCHANGED <<sent, queue>>
        /\ Conclude(u, Outcome(u).status, Outcome(u).port, Outcome(u).fatal)
    BY <1>3 DEF CommitError
  <2>2. /\ Deciding(u, Outcome(u).status, Outcome(u).port, Outcome(u).fatal)
        /\ Proper(u, Outcome(u).status, Outcome(u).port) /\ IndInv'
    BY ZenonT(60), <2>1, OutcomeFacts, ReportStep
  <2> QED
    BY ZenonT(60), <2>2, OutcomeFacts DEF Decides, Final
<1>4. ASSUME NEW u \in Units, NEW n \in 1..attempt[u], CommitFailure(u, n)
      PROVE  IndInv' /\ (Decides \/ Quiet)
  <2>1. Deciding(u, "failed", "", TRUE) /\ Proper(u, "failed", "") /\ IndInv'
    BY ZenonT(60), <1>4, ReportStep DEF CommitFailure
  <2> QED
    BY ZenonT(60), <2>1 DEF Decides, Final
<1>5. ASSUME NEW u \in Units, NEW n \in 1..attempt[u], Release(u, n)
      PROVE  IndInv' /\ (Decides \/ Quiet)
  BY <1>5, GiveBackStep DEF Release
<1>6. ASSUME NEW u \in Units, Reclaim(u)
      PROVE  IndInv' /\ (Decides \/ Quiet)
  <2>1. attempt[u] < MaxLeases[u]
    BY ZenonT(60), <1>6 DEF Reclaim, IndInv, LeasesOrdered
  <2> QED
    BY ZenonT(60), <1>6, <2>1, GiveBackStep DEF Reclaim
<1>7. \A u \in Units : u \in lapsed \cup listed => status[u] = "running" /\ attempt[u] < MaxLeases[u]
  BY DEF IndInv, LeasesOrdered
<1>8. lapsed \subseteq Units /\ listed \subseteq Units /\ sent \subseteq outbox /\ queue \subseteq Units
  BY ZenonT(60) DEF IndInv, TypeOK
<1>9. ASSUME NEW u \in Units, NEW n \in 1..attempt[u], Renew(u, n)
      PROVE  IndInv' /\ (Decides \/ Quiet)
  BY ZenonT(60), <1>7, <1>8, <1>9, DeliveryStep DEF Renew, deliveryVars
<1>10. ASSUME NEW u \in Units, Lapse(u)
       PROVE  IndInv' /\ (Decides \/ Quiet)
  BY ZenonT(60), <1>7, <1>8, <1>10, DeliveryStep DEF Lapse, deliveryVars
<1>11. ASSUME ListExpired
       PROVE  IndInv' /\ (Decides \/ Quiet)
  BY ZenonT(60), <1>7, <1>8, <1>11, DeliveryStep DEF ListExpired, deliveryVars
<1>12. ASSUME NEW u \in Units, Discard(u)
       PROVE  IndInv' /\ (Decides \/ Quiet)
  BY <1>7, <1>8, <1>12, DeliveryStep DEF Discard, leaseVars, Over, Done
<1>13. \A i \in outbox : i.unit \in Units
  BY ZenonT(60) DEF IndInv, TypeOK, Intents
<1>14. ASSUME NEW i \in outbox, Deliver(i)
       PROVE  IndInv' /\ (Decides \/ Quiet)
  <2>1. ToRun(i.unit)
    BY ZenonT(60), <1>14 DEF Deliver, IndInv, WorkJustified
  <2> QED
    BY <1>7, <1>8, <1>13, <1>14, <2>1, DeliveryStep DEF Deliver, leaseVars
<1>15. ASSUME NEW i \in outbox, SkipUnit(i)
       PROVE  IndInv' /\ (Decides \/ Quiet)
  <2>1. CASE Deciding(i.unit, "skipped", "", FALSE) /\ Proper(i.unit, "skipped", "") /\ IndInv'
    BY ZenonT(60), <1>13, <2>1 DEF Decides, Final
  <2>2. CASE /\ UNCHANGED <<exec, nodeVars, leaseVars, countVars, outbox, queue>>
             /\ exec = "running" => Done(i.unit)
    <3>1. sent' = sent \cup {i}
      BY ZenonT(60), <1>15 DEF SkipUnit
    <3> QED
      BY <1>7, <1>8, <2>2, <3>1, DeliveryStep DEF leaseVars
  <2> QED
    BY ZenonT(60), <1>15, <2>1, <2>2, SkipStep
<1>16. ASSUME NEW i \in outbox, Ack(i)
       PROVE  IndInv' /\ (Decides \/ Quiet)
  BY <1>7, <1>8, <1>16, DeliveryStep DEF Ack, leaseVars
<1>17. ASSUME NEW u \in Units, Acquire(u)
       PROVE  IndInv' /\ (Decides \/ Quiet)
  BY <1>17, AcquireStep
<1>18. ASSUME NEW u \in Units, Serve(u)
       PROVE  IndInv' /\ (Decides \/ Quiet)
  <2>1. PICK st \in {"pinned", "skipped"} :
          Deciding(u, st, "main", FALSE) /\ Proper(u, st, "main") /\ IndInv'
    BY ZenonT(60), <1>18, ServeStep
  <2> QED
    BY ZenonT(60), <2>1, PolicyAssumption DEF Decides, Final
<1>19. ASSUME CancelBegin \/ CancelEnd \/ ExpireExecution
       PROVE  IndInv' /\ (Decides \/ Quiet)
  BY ZenonT(60), <1>8, <1>19, StopStep DEF CancelBegin, CancelEnd, ExpireExecution, Cleanup, deliveryVars
<1> QED
  BY <1>1, <1>2, <1>3, <1>4, <1>5, <1>6, <1>9, <1>10, <1>11, <1>12, <1>14, <1>15, <1>16,
     <1>17, <1>18, <1>19 DEF Next, Report, Handle, Flush

-----------------------------------------------------------------------------
(* The theorems.                                                           *)

\* The state CreateExecutionWithOutbox leaves satisfies the invariant.
LEMMA InitInv ==
    ASSUME Init
    PROVE  IndInv
<1>1. /\ \A u \in Units : status[u] = "absent" /\ ~Done(u)
      /\ \A e \in Edges : ~Feeds(e)
      /\ \A u \in Units : scheduled[u] = "none" /\ attempt[u] = 0
      /\ exec = "running"
  BY ZenonT(60), EdgeFacts DEF Init, Done, Feeds, Final
<1>8. /\ \A i \in outbox : i.kind = "root" /\ i.unit \in Roots /\ i \in Intents
      /\ \A u \in Roots : \E i \in outbox : i.unit = u
      /\ sent = {}
  <2>1. outbox = {Intent("root", u, 0) : u \in Roots} /\ sent = {}
    BY ZenonT(60) DEF Init
  <2>2. \A u \in Roots : /\ Intent("root", u, 0).kind = "root" /\ Intent("root", u, 0).unit = u
                         /\ Intent("root", u, 0) \in Intents
    BY DEF Intent, Intents, Roots
  <2> QED
    BY <2>1, <2>2
<1>2. TypeOK
  <2>1. inDegree \in [Units -> Int]
    <3>1. \A v \in Units : Cardinality(In(v)) \in Nat
      BY EdgeFacts, FS_CardinalityType
    <3>2. inDegree = [v \in Units |-> Cardinality(In(v))]
      BY ZenonT(60) DEF Init
    <3> QED
      BY SMTT(60), <3>1, <3>2
  <2>2. remaining \in Int
    <3>1. Cardinality(Units) \in Nat
      BY UnitsAssumption, FS_CardinalityType
    <3>2. remaining = Cardinality(Units)
      BY ZenonT(60) DEF Init
    <3> QED
      BY <3>1, <3>2
  <2>3. outbox \subseteq Intents /\ sent \subseteq outbox
    BY <1>8
  <2>4. /\ status \in [Units -> {"absent", "pending", "running"} \cup Final]
        /\ port \in [Units -> Ports \cup {""}]
        /\ scheduled \in [Units -> {"none", "execute", "skip"}]
        /\ lapsed \subseteq Units /\ listed \subseteq Units /\ queue \subseteq Units
    BY ZenonT(60) DEF Init
  <2>5. attempt \in [Units -> Nat] /\ activeIns \in [Units -> Nat] /\ failed \in Nat
    BY ZenonT(60) DEF Init
  <2>6. \A u \in Units : attempt[u] <= MaxLeases[u]
    BY <1>1, BoundAssumption
  <2> QED
    BY ZenonT(60), <1>1, <2>1, <2>2, <2>3, <2>4, <2>5, <2>6 DEF TypeOK
<1>3. CountersExact
  <2>1. {u \in Units : ~Done(u)} = Units
    BY ZenonT(60), <1>1
  <2>2. \A v \in Units : {e \in In(v) : ~Done(e.src)} = In(v) /\ {e \in In(v) : Feeds(e)} = {}
    BY <1>1, EdgeFacts DEF In
  <2>3. Cardinality({}) = 0
    BY FS_EmptySet
  <2> QED
    BY ZenonT(60), <2>1, <2>2, <2>3 DEF Init, CountersExact
<1>4. MarkersSound
  <2>1. \A u \in Units : u \notin Roots => ~Ready(u) /\ ~Dry(u)
    BY <1>1, EdgeFacts DEF Roots, In, Ready, Dry
  <2> QED
    BY ZenonT(60), <1>1, <2>1 DEF MarkersSound
<1>5. WorkJustified /\ LeasesOrdered
  <2>1. queue = {} /\ lapsed = {} /\ listed = {}
    BY ZenonT(60) DEF Init
  <2>2. WorkJustified
    <3>1. \A i \in outbox : i.kind # "skip" /\ ToRun(i.unit)
      BY <1>8 DEF ToRun
    <3>2. \A u \in Units : /\ ~(u \in queue \/ status[u] \in {"pending", "running"} \/ attempt[u] > 0)
                           /\ status[u] \notin {"pinned", "skipped"}
      BY SMTT(60), <1>1, <2>1
    <3> QED
      BY ZenonT(60), <3>1, <3>2 DEF WorkJustified
  <2>3. LeasesOrdered
    <3>1. \A i \in outbox : i.kind \notin {"retry", "requeue"}
      BY ZenonT(60), <1>8
    <3> QED
      BY <1>1, <2>1, <3>1 DEF LeasesOrdered
  <2> QED
    BY <2>2, <2>3
<1>6. WorkHeld
  BY <1>1, <1>8 DEF WorkHeld, ToRun
<1>7. FailureConcludes /\ VerdictSound
  BY ZenonT(60), <1>1 DEF FailureConcludes, VerdictSound, Init
<1> QED
  BY <1>2, <1>3, <1>4, <1>5, <1>6, <1>7 DEF IndInv

\* Counters, markers, work, leases and verdict stay consistent through every
\* interleaving of lease, commit, retry, reclaim, delivery, cancel and expiry.
THEOREM Invariance == Spec => []IndInv
<1>1. ASSUME IndInv, [Next]_vars
      PROVE  IndInv'
  <2>1. CASE Next
    BY ZenonT(60), <1>1, <2>1, NextStep
  <2>2. CASE UNCHANGED vars
    <3>1. lapsed \subseteq Units /\ listed \subseteq Units /\ sent \subseteq outbox /\ queue \subseteq Units
      BY ZenonT(60), <1>1 DEF IndInv, TypeOK
    <3>2. \A u \in lapsed \cup listed : status[u] = "running" /\ attempt[u] < MaxLeases[u]
      BY <1>1, <3>1 DEF IndInv, LeasesOrdered
    <3> QED
      BY <1>1, <2>2, <3>1, <3>2, DeliveryStep DEF vars, nodeVars, countVars
  <2> QED
    BY <1>1, <2>1, <2>2
<1> QED
  BY <1>1, InitInv, PTL DEF Spec

\* The stored state is well formed and no unit is leased more often than the
\* bound allows.
THEOREM TypeCorrect == Spec => []TypeOK
<1>1. IndInv => TypeOK
  BY DEF IndInv
<1> QED
  BY <1>1, Invariance, PTL

\* in_degree, active_ins and remaining always agree with the graph.
THEOREM CountersStayExact == Spec => []CountersExact
<1>1. IndInv => CountersExact
  BY DEF IndInv
<1> QED
  BY <1>1, Invariance, PTL

\* The verdict of the execution is the verdict of its units.
THEOREM VerdictIsSound == Spec => []VerdictSound
<1>1. IndInv => VerdictSound
  BY DEF IndInv
<1> QED
  BY <1>1, Invariance, PTL

\* No unit runs before its merge says so, none is skipped while it might run.
THEOREM JoinIsRespected == Spec => []JoinRespected
<1>1. ASSUME IndInv
      PROVE  JoinRespected
  BY ZenonT(60), <1>1, ToRunReady DEF IndInv, WorkJustified, JoinRespected
<1> QED
  BY <1>1, Invariance, PTL

\* The markers tell who is due, so whoever is due is held.
LEMMA DueIsHeld ==
    ASSUME IndInv
    PROVE  NoLostWork
<1> SUFFICES ASSUME exec = "running", NEW u \in Units, ~Done(u), Ready(u) \/ Dry(u)
             PROVE  \/ \E i \in outbox \ sent : i.unit = u
                    \/ u \in queue
                    \/ status[u] = "running"
  BY DEF NoLostWork
<1>1. ToRun(u) \/ scheduled[u] = "skip"
  BY ZenonT(60) DEF IndInv, MarkersSound, ToRun, TypeOK
<1> QED
  BY ZenonT(60), <1>1 DEF IndInv, WorkHeld

\* A due unit is always held by an intent, the queue or a lease.
THEOREM NoWorkIsLost == Spec => []NoLostWork
<1>1. IndInv => NoLostWork
  BY DueIsHeld
<1> QED
  BY <1>1, Invariance, PTL

\* In a graph that passed detectUnitCycle an execution never comes to a halt
\* while it runs: some unit has all its inputs decided, and an intent, a task
\* or a lease stands for it, whatever was retried, reclaimed or redelivered.
THEOREM ExecutionsCanGoOn == Spec => []CanGoOn
<1>1. ASSUME IndInv
      PROVE  CanGoOn
  <2> SUFFICES ASSUME exec = "running", Units # {}
               PROVE  \E u \in Units :
                        /\ ~Done(u) /\ \A e \in In(u) : Done(e.src)
                        /\ \/ \E i \in outbox \ sent : i.unit = u
                           \/ u \in queue
                           \/ status[u] = "running"
    BY Zenon DEF CanGoOn
  <2> DEFINE S == {u \in Units : ~Done(u)}
  <2>1. S # {} /\ S \in SUBSET Units
    BY <1>1 DEF IndInv, VerdictSound
  <2>2. PICK u \in S : \A e \in Edges : e.dst = u => e.src \notin S
    BY Zenon, <2>1, AcyclicAssumption DEF Acyclic
  <2>3. \A e \in In(u) : Done(e.src)
    BY <2>2, EdgeFacts DEF In
  <2>4. u \in Units /\ (Ready(u) \/ Dry(u))
    BY <2>3 DEF Ready, Dry, Roots
  <2>5. NoLostWork
    BY <1>1, DueIsHeld
  <2> QED
    BY Zenon, <2>2, <2>3, <2>4, <2>5 DEF NoLostWork
<1> QED
  BY <1>1, Invariance, PTL

\* No late report, redelivery or reclaim reopens a decided unit, and the status
\* of an execution that is over never changes.
THEOREM DecisionsStayFinal == Spec => DecisionsAreFinal
<1>1. ASSUME IndInv, [Next]_vars
      PROVE  [/\ exec \in Over => exec' = exec
              /\ \A u \in Units : Done(u) => status'[u] = status[u] /\ port'[u] = port[u]]_vars
  <2>1. CASE Quiet
    BY <2>1 DEF Quiet, Over
  <2>2. CASE Decides
    <3>1. PICK u \in Units, st \in Final, p \in Ports \cup {""}, fatal \in BOOLEAN :
            Deciding(u, st, p, fatal)
      BY ZenonT(60), <2>2 DEF Decides
    <3> QED
      BY ZenonT(60), <1>1, <3>1 DEF Deciding, Conclude, IndInv, TypeOK
  <2> QED
    BY <1>1, <2>1, <2>2, NextStep
<1> QED
  BY <1>1, Invariance, PTL DEF Spec, DecisionsAreFinal

\* Over Redis a canceling execution can only become canceled.
THEOREM CancelOwnsTheVerdict == Backend = "redis" => (Spec => CancelWins)
<1> SUFFICES ASSUME Backend = "redis"
             PROVE  Spec => CancelWins
  OBVIOUS
<1>1. ASSUME IndInv, [Next]_vars
      PROVE  [exec = "canceling" => exec' \in {"canceling", "canceled"}]_vars
  <2>1. CASE Quiet
    BY <2>1 DEF Quiet
  <2>2. CASE Decides
    <3>1. PICK u \in Units, st \in Final, p \in Ports \cup {""}, fatal \in BOOLEAN :
            Conclude(u, st, p, fatal)
      BY ZenonT(60), <2>2 DEF Decides, Deciding
    <3>2. CASE exec = "canceling"
      <4>1. ~MayFinish
        BY ZenonT(60), <3>2 DEF MayFinish
      <4> QED
        BY ZenonT(60), <3>1, <3>2, <4>1 DEF Conclude
    <3> QED
      BY ZenonT(60), <3>2
  <2> QED
    BY ZenonT(60), <1>1, <2>1, <2>2, NextStep
<1> QED
  BY <1>1, Invariance, PTL DEF Spec, CancelWins

-----------------------------------------------------------------------------
(* Refinement.                                                             *)

\* The abstract readings of the graph are the concrete ones.
LEMMA FlowReadings ==
    /\ \A u \in Units : Flow!Decided(u) <=> Done(u)
    /\ \A e \in Edges : Flow!Feeds(e) <=> Feeds(e)
    /\ \A u \in Units : (Flow!Due(u) <=> Ready(u)) /\ (Flow!Cut(u) <=> Dry(u))
<1>1. \A u \in Units : Flow!Decided(u) <=> Done(u)
  BY ZenonT(60) DEF Flow!Decided, Done, Final
<1>2. \A e \in Edges : Flow!Feeds(e) <=> Feeds(e)
  BY <1>1, EdgeFacts DEF Flow!Feeds, Feeds
<1>3. \A u \in Units : Flow!In(u) = In(u) /\ (u \in Roots <=> In(u) = {})
  BY ZenonT(60) DEF Flow!In, In, Roots
<1>4. \A u : \A e \in In(u) : e \in Edges /\ e.src \in Units
  BY ZenonT(60), EdgeFacts DEF In
<1>5. \A u \in Units : (Flow!Due(u) <=> Ready(u)) /\ (Flow!Cut(u) <=> Dry(u))
  BY <1>1, <1>2, <1>3, <1>4 DEF Flow!Due, Flow!Cut, Ready, Dry
<1> QED
  BY <1>1, <1>2, <1>5

\* The store's verdict is the abstract one: `remaining` is 1 exactly when
\* every other unit is decided.
LEMMA ConcludeMapsVerdict ==
    ASSUME IndInv, NEW u \in Units, NEW st \in Final, NEW p, NEW fatal, Deciding(u, st, p, fatal)
    PROVE  Flow!Conclude(u, st)
<1> DEFINE S == {w \in Units : ~Done(w)}
<1>1. /\ ~Done(u) /\ Conclude(u, st, p, fatal) /\ fatal \in BOOLEAN /\ (fatal <=> st = "failed")
      /\ exec \in {"running", "canceling"}
  BY ZenonT(60), ArriveOrNot DEF Deciding
<1>2. remaining = Cardinality(S)
  BY <1>1 DEF IndInv, CountersExact, Over
<1>3. IsFiniteSet(S) /\ u \in S
  BY ZenonT(60), <1>1, UnitsAssumption, FS_Subset
<1>4. /\ Cardinality(S \ {u}) = Cardinality(S) - 1 /\ IsFiniteSet(S \ {u})
      /\ Cardinality(S) \in Nat
  BY ZenonT(60), <1>3, FS_RemoveElement, FS_CardinalityType
<1>5. Cardinality(S \ {u}) = 0 <=> S \ {u} = {}
  BY ZenonT(60), <1>4, FS_EmptySet
<1>6. S \ {u} = {} <=> \A w \in Units \ {u} : Flow!Decided(w)
  BY FlowReadings
<1> HIDE DEF S
<1>7. remaining = 1 <=> \A w \in Units \ {u} : Flow!Decided(w)
  BY <1>2, <1>4, <1>5, <1>6
<1>8. CASE MayFinish
  <2>1. failed = 0
    BY ZenonT(60), <1>1, <1>8 DEF IndInv, FailureConcludes, Over
  <2>2. failed' > 0 <=> st = "failed"
    BY SMTT(60), <1>1, <2>1 DEF Conclude
  <2>3. exec' = IF ~(fatal \/ remaining = 1) THEN exec
                ELSE IF st = "failed" THEN "failed" ELSE "success"
    BY <1>1, <1>8, <2>2 DEF Conclude
  <2>4. ~(exec = "canceling" /\ Backend = "redis")
    BY <1>8 DEF MayFinish
  <2> QED
    BY <1>1, <1>7, <2>3, <2>4 DEF Flow!Conclude
<1>9. CASE ~MayFinish
  <2>1. exec = "canceling" /\ Backend = "redis"
    BY <1>9, BackendAssumption DEF MayFinish
  <2>2. exec' = exec
    BY <1>1, <1>9 DEF Conclude
  <2> QED
    BY <2>1, <2>2 DEF Flow!Conclude
<1> QED
  BY <1>8, <1>9

\* An execution over the atomic store implements the abstract dataflow
\* execution: leases, retries, reclaims, redeliveries and counters stutter,
\* and a commit decides one due unit.
THEOREM Refinement == Spec => ImplementsDataflow
<1>1. ASSUME Init
      PROVE  Flow!Init
  BY ZenonT(60), <1>1 DEF Init, Flow!Init, Done, Final
<1>2. ASSUME IndInv, [Next]_vars
      PROVE  [Flow!Next]_(Flow!vars)
  <2>1. CASE Quiet
    <3>1. [w \in Units |-> IF Done(w) THEN status[w] ELSE "open"]'
            = [w \in Units |-> IF Done(w) THEN status[w] ELSE "open"]
      BY <2>1 DEF Quiet
    <3> QED
      BY ZenonT(60), <2>1, <3>1 DEF Quiet, Flow!Next, Flow!vars, Flow!Cancel, Flow!Canceled, Flow!Expire
  <2>2. CASE Decides
    <3>1. PICK u \in Units, st \in Final, p \in Ports \cup {""}, fatal \in BOOLEAN :
            Deciding(u, st, p, fatal) /\ Proper(u, st, p)
      BY ZenonT(60), <2>2 DEF Decides
    <3>2. ~Done(u) /\ Conclude(u, st, p, fatal) /\ exec \in {"running", "canceling"}
      BY ZenonT(60), <1>2, <3>1, ArriveOrNot DEF Deciding
    <3>3. [w \in Units |-> IF Done(w) THEN status[w] ELSE "open"]'
            = [[w \in Units |-> IF Done(w) THEN status[w] ELSE "open"] EXCEPT ![u] = st]
      BY ZenonT(60), <1>2, <3>2 DEF Conclude, Done, IndInv, TypeOK
    <3>4. Flow!Decide(u, st, p)
      BY ZenonT(60), <1>2, <3>1, <3>2, <3>3, FlowReadings, ConcludeMapsVerdict DEF Flow!Decide, Conclude
    <3>5. Flow!Run(u) \/ Flow!Skip(u)
      BY ZenonT(60), <3>1, <3>4, FlowReadings DEF Proper, Flow!Run, Flow!Skip, Flow!Verdicts, Final
    <3> QED
      BY ZenonT(60), <3>5 DEF Flow!Next
  <2>3. CASE UNCHANGED vars
    BY <2>3 DEF vars, Flow!vars, Done
  <2> QED
    BY ZenonT(60), <1>2, <2>1, <2>2, <2>3, NextStep
<1> QED
  BY <1>1, <1>2, Invariance, PTL DEF Spec, ImplementsDataflow, Flow!Spec

-----------------------------------------------------------------------------
(* Identifiers of intents are not used twice.                              *)

\* In this step an identifier that has been given out stays so, and one that is
\* appended had not been, and now is.
IssuesOnce(i) ==
    /\ Issued(i) => Issued(i)'
    /\ i \in outbox' /\ i \notin outbox => ~Issued(i) /\ Issued(i)'

\* What the steps need to know of the types.
LEMMA IssueFacts ==
    ASSUME IndInv, NEW i \in Intents
    PROVE  /\ i.unit \in Units /\ i.n \in Nat
           /\ status \in [Units -> {"absent", "pending", "running"} \cup Final]
           /\ attempt \in [Units -> Nat]
<1>1. i.unit \in Units /\ i.n \in Nat
  BY DEF Intents
<1> QED
  BY Zenon, <1>1 DEF IndInv, TypeOK

\* A commit writes markers of units that have none, with their intents.
LEMMA ConcludeIssues ==
    ASSUME IndInv, NEW u, NEW st, NEW p, NEW fatal, Deciding(u, st, p, fatal),
           NEW i \in Intents
    PROVE  IssuesOnce(i)
<1>1. st \in Final /\ attempt' = attempt /\ status' = [status EXCEPT ![u] = st]
  BY Zenon DEF Deciding, Conclude
<1>2. scheduled[i.unit] # "none" => scheduled'[i.unit] # "none"
  BY Zenon, MarkersWrittenOnce, IssueFacts
<1>3. status'[i.unit] = "running" => status[i.unit] = "running"
  BY <1>1, IssueFacts DEF Final
<1>4. Issued(i) => Issued(i)'
  BY Zenon, <1>1, <1>2, <1>3 DEF Issued
<1>5. ASSUME i \in outbox', i \notin outbox PROVE ~Issued(i) /\ Issued(i)'
  <2>1. Arrive(u, p)
    BY Zenon, <1>5, ArriveOrNot
  <2>2. PICK v \in Units : /\ scheduled[v] = "none" /\ Decision(u, p, v) # "none"
                           /\ i = Intent(Decision(u, p, v), v, 0)
    BY <1>5, <2>1 DEF Arrive
  <2>3. Decision(u, p, v) \in {"execute", "skip"}
    BY <2>2 DEF Decision
  <2>4. i.kind \in {"execute", "skip"} /\ i.unit = v
    BY <2>2, <2>3 DEF Intent
  <2>5. scheduled'[v] # "none"
    BY Zenon, <2>1, <2>2 DEF Arrive
  <2> QED
    BY <2>2, <2>4, <2>5 DEF Issued
<1> QED
  BY Zenon, <1>4, <1>5 DEF IssuesOnce

\* The holder's lease is the current one, and giving it back ends it.
LEMMA GiveBackIssues ==
    ASSUME IndInv, NEW u \in Units, NEW n, Holds(u, n),
           NEW k \in {"retry", "requeue"}, GiveBack(u, Intent(k, u, n)), NEW i \in Intents
    PROVE  IssuesOnce(i)
<1>1. /\ status' = [status EXCEPT ![u] = "pending"] /\ attempt' = attempt
      /\ scheduled' = scheduled /\ outbox' = outbox \cup {Intent(k, u, n)}
  BY Zenon DEF GiveBack, countVars
<1>2. status'[i.unit] = "running" => status[i.unit] = "running"
  BY <1>1, IssueFacts
<1>3. Issued(i) => Issued(i)'
  BY Zenon, <1>1, <1>2 DEF Issued
<1>4. ASSUME i \in outbox', i \notin outbox PROVE ~Issued(i) /\ Issued(i)'
  <2>1. i = Intent(k, u, n)
    BY Zenon, <1>1, <1>4
  <2>2. i.kind \in {"retry", "requeue"} /\ i.unit = u /\ i.n = attempt[u] /\ status[u] = "running"
    BY <2>1 DEF Intent, Holds
  <2>3. ~(i.n < attempt[u]) /\ status'[u] # "running"
    BY <1>1, <2>2, IssueFacts
  <2> QED
    BY <1>1, <2>2, <2>3 DEF Issued
<1> QED
  BY Zenon, <1>3, <1>4 DEF IssuesOnce

\* A new lease leaves the earlier ones behind.
LEMMA AcquireIssues ==
    ASSUME IndInv, NEW u \in Units, Acquire(u), NEW i \in Intents
    PROVE  IssuesOnce(i)
<1>1. attempt' = [attempt EXCEPT ![u] = @ + 1] /\ status' = [status EXCEPT ![u] = "running"]
      /\ scheduled' = scheduled /\ outbox' = outbox
  BY Zenon DEF Acquire, countVars
<1>2. CASE i.unit = u
  <2>1. attempt'[i.unit] = attempt[i.unit] + 1
    BY <1>1, <1>2, IssueFacts
  <2>2. i.n < attempt[i.unit] \/ i.n = attempt[i.unit] => i.n < attempt'[i.unit]
    BY <2>1, IssueFacts
  <2> QED
    BY Zenon, <1>1, <2>2 DEF IssuesOnce, Issued
<1>3. CASE i.unit # u
  <2>1. attempt'[i.unit] = attempt[i.unit] /\ status'[i.unit] = status[i.unit]
    BY <1>1, <1>3, IssueFacts
  <2> QED
    BY Zenon, <1>1, <2>1 DEF IssuesOnce, Issued
<1> QED
  BY Zenon, <1>2, <1>3

\* Steps that append nothing and touch neither rows nor markers.
LEMMA RestIssues ==
    ASSUME UNCHANGED <<nodeVars, countVars>>, outbox' \subseteq outbox, NEW i
    PROVE  IssuesOnce(i)
  BY Zenon DEF IssuesOnce, Issued, nodeVars, countVars

\* Every step issues an identifier at most once.
LEMMA IssueStep ==
    ASSUME IndInv, [Next]_vars, NEW i \in Intents
    PROVE  IssuesOnce(i)
<1>1. ASSUME NEW u \in Units, NEW n \in 1..attempt[u], NEW p \in Ports, CommitSuccess(u, n, p)
      PROVE  IssuesOnce(i)
  <2>1. Deciding(u, "success", p, FALSE)
    BY Zenon, <1>1, ReportStep DEF CommitSuccess
  <2> QED
    BY Zenon, <2>1, ConcludeIssues
<1>2. ASSUME NEW u \in Units, NEW n \in 1..attempt[u], Retry(u, n) PROVE IssuesOnce(i)
  BY Zenon, <1>2, GiveBackIssues DEF Retry
<1>3. ASSUME NEW u \in Units, NEW n \in 1..attempt[u], CommitError(u, n) PROVE IssuesOnce(i)
  <2>1. Deciding(u, Outcome(u).status, Outcome(u).port, Outcome(u).fatal)
    BY Zenon, <1>3, OutcomeFacts, ReportStep DEF CommitError
  <2> QED
    BY Zenon, <2>1, ConcludeIssues
<1>4. ASSUME NEW u \in Units, NEW n \in 1..attempt[u], CommitFailure(u, n) PROVE IssuesOnce(i)
  <2>1. Deciding(u, "failed", "", TRUE)
    BY Zenon, <1>4, ReportStep DEF CommitFailure
  <2> QED
    BY Zenon, <2>1, ConcludeIssues
<1>5. ASSUME NEW u \in Units, NEW n \in 1..attempt[u], Release(u, n) PROVE IssuesOnce(i)
  BY Zenon, <1>5, GiveBackIssues DEF Release
<1>6. ASSUME NEW u \in Units, Reclaim(u) PROVE IssuesOnce(i)
  BY Zenon, <1>6, GiveBackIssues DEF Reclaim
<1>7. ASSUME NEW u \in Units, NEW n \in 1..attempt[u], Renew(u, n) PROVE IssuesOnce(i)
  BY Zenon, <1>7, RestIssues DEF Renew, deliveryVars
<1>8. ASSUME NEW u \in Units, Lapse(u) \/ Discard(u) PROVE IssuesOnce(i)
  BY Zenon, <1>8, RestIssues DEF Lapse, Discard, deliveryVars
<1>9. ASSUME NEW u \in Units, Acquire(u) PROVE IssuesOnce(i)
  BY Zenon, <1>9, AcquireIssues
<1>10. ASSUME NEW u \in Units, Serve(u) PROVE IssuesOnce(i)
  <2>1. PICK st \in {"pinned", "skipped"} : Deciding(u, st, "main", FALSE)
    BY Zenon, <1>10, ServeStep
  <2> QED
    BY Zenon, <2>1, ConcludeIssues
<1>11. ASSUME NEW j \in outbox, SkipUnit(j) PROVE IssuesOnce(i)
  <2>1. CASE Deciding(j.unit, "skipped", "", FALSE)
    BY Zenon, <2>1, ConcludeIssues
  <2>2. CASE UNCHANGED <<exec, nodeVars, leaseVars, countVars, outbox, queue>>
    BY Zenon, <2>2, RestIssues
  <2> QED
    BY Zenon, <1>11, <2>1, <2>2, SkipStep
<1>12. ASSUME NEW j \in outbox, Deliver(j) \/ Ack(j) PROVE IssuesOnce(i)
  BY Zenon, <1>12, RestIssues DEF Deliver, Ack
<1>13. ASSUME ListExpired \/ CancelBegin \/ CancelEnd \/ ExpireExecution PROVE IssuesOnce(i)
  BY Zenon, <1>13, RestIssues DEF ListExpired, CancelBegin, CancelEnd, ExpireExecution, Cleanup, deliveryVars
<1>14. CASE UNCHANGED vars
  BY Zenon, <1>14, RestIssues DEF vars, nodeVars, countVars
<1> QED
  BY Zenon, <1>1, <1>2, <1>3, <1>4, <1>5, <1>6, <1>7, <1>8, <1>9, <1>10, <1>11, <1>12, <1>13, <1>14
     DEF Next, Report, Handle, Flush

\* An intent that has left the outbox, acknowledged or dropped by the cleanup,
\* never comes back under the same identifier (putOutboxEntryLocked compares
\* with the entries that are there, so nothing else would stop it): a commit,
\* a retry and a reclaim of the same unit never race for one.
THEOREM IntentsAreNotReissued ==
    ASSUME NEW i \in Intents
    PROVE  Spec => [](i \in outbox => [](~(i \in outbox) => []~(i \in outbox)))
<1>1. Init => (i \in outbox => Issued(i))
  <2> SUFFICES ASSUME Init, i \in outbox PROVE i.kind = "root"
    BY Zenon DEF Issued
  <2>1. PICK u \in Roots : i = Intent("root", u, 0)
    BY Zenon DEF Init
  <2> QED
    BY <2>1 DEF Intent
<1>2. ASSUME IndInv, [Next]_vars
      PROVE  /\ (i \in outbox => Issued(i)) => (i \in outbox => Issued(i))'
             /\ Issued(i) => Issued(i)'
             /\ Issued(i) /\ ~(i \in outbox) => ~(i \in outbox)'
  <2>1. IssuesOnce(i)
    BY Zenon, <1>2, IssueStep
  <2> QED
    BY Zenon, <2>1 DEF IssuesOnce
<1> QED
  BY <1>1, <1>2, Invariance, PTL DEF Spec
=============================================================================
