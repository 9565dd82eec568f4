--------------------------- MODULE AdmissionLine ---------------------------
(***************************************************************************)
(* What the concurrency limit of a workflow promises to its clients,       *)
(* without statuses, intents or the durable mirror.  A submission gets a   *)
(* free slot, a place at the end of the line, or a refusal, and the last   *)
(* two only when it really has to wait.  Whoever leaves makes room for as  *)
(* many from the head of the line as the limit in force then allows.       *)
(***************************************************************************)
EXTENDS Integers, Sequences, FiniteSets

CONSTANTS Executions, Limits

VARIABLES
    running,   \* executions that hold a slot
    line,      \* executions that wait, head first
    cap        \* the limit in force, 0 when nobody is there

vars == <<running, line, cap>>

Present == running \cup {line[i] : i \in DOMAIN line}

Init == running = {} /\ line = <<>> /\ cap = 0

Admit(e, lim) ==
    /\ e \notin Present
    /\ Cardinality(running) < lim
    /\ running' = running \cup {e}
    /\ line' = line
    /\ cap' = lim

MustWait(lim) == line # <<>> \/ Cardinality(running) >= lim

Join(e, lim) ==
    /\ e \notin Present
    /\ MustWait(lim)
    /\ running' = running
    /\ line' = Append(line, e)
    /\ cap' = lim

Refuse(lim) ==
    /\ MustWait(lim)
    /\ cap' = lim
    /\ UNCHANGED <<running, line>>

\* The line without its i-th member.
Without(i) == [j \in 1..Len(line) - 1 |-> line[IF j < i THEN j ELSE j + 1]]

\* Of those who wait in rest, the first k start, next to stay: not more than
\* the limit allows, and not fewer.
Promote(stay, rest, k) ==
    /\ running' = stay \cup {rest[i] : i \in 1..k}
    /\ line' = [i \in 1..Len(rest) - k |-> rest[k + i]]
    /\ k > 0 => Cardinality(running') <= cap
    /\ k < Len(rest) => Cardinality(running') >= cap
    /\ cap' = IF running' = {} /\ line' = <<>> THEN 0 ELSE cap

Leave(e) ==
    \/ e \in running /\ \E k \in 0..Len(line) : Promote(running \ {e}, line, k)
    \/ \E i \in DOMAIN line :
         line[i] = e /\ \E k \in 0..Len(line) - 1 : Promote(running, Without(i), k)

Next ==
    \/ \E e \in Executions : Leave(e) \/ \E lim \in Limits : Admit(e, lim) \/ Join(e, lim)
    \/ \E lim \in Limits : Refuse(lim)

Spec == Init /\ [][Next]_vars
=============================================================================
