------------------------------ MODULE Dataflow ------------------------------
(***************************************************************************)
(* What an execution of an acyclic workflow promises, without leases,      *)
(* messages, counters or retries: every unit is decided at most once, when *)
(* its inputs allow it, and the decisions determine the verdict.           *)
(***************************************************************************)
EXTENDS Integers, FiniteSets

CONSTANTS
    Units, Edges, WaitAny, Ports,
    CancelOwnsVerdict   \* a canceling execution only ever becomes canceled

VARIABLES
    exec,      \* execution status
    decision,  \* decision on each unit, "open" until it is made
    port       \* port the unit was decided on, "" for none

vars == <<exec, decision, port>>

Verdicts == {"success", "failed", "skipped", "continued", "pinned"}

In(u) == {e \in Edges : e.dst = u}
Decided(u) == decision[u] # "open"
Feeds(e) == Decided(e.src) /\ port[e.src] = e.port

Due(u) ==
    \/ In(u) = {}
    \/ /\ \E e \in In(u) : Feeds(e)
       /\ u \in WaitAny \/ \A e \in In(u) : Decided(e.src)

Cut(u) == In(u) # {} /\ \A e \in In(u) : Decided(e.src) /\ ~Feeds(e)

Init ==
    /\ exec = "running"
    /\ decision = [u \in Units |-> "open"]
    /\ port = [u \in Units |-> ""]

\* A failed decision fails the execution at once, the last decision completes
\* it; a cancel in progress may own the verdict.
Conclude(u, d) ==
    exec' = IF exec = "canceling" /\ CancelOwnsVerdict THEN exec
            ELSE IF d = "failed" THEN "failed"
            ELSE IF \A w \in Units \ {u} : Decided(w) THEN "success"
            ELSE exec

Decide(u, d, p) ==
    /\ exec \in {"running", "canceling"}
    /\ ~Decided(u)
    /\ decision' = [decision EXCEPT ![u] = d]
    /\ port' = [port EXCEPT ![u] = p]
    /\ Conclude(u, d)

Run(u) == Due(u) /\ \E d \in Verdicts, p \in Ports \cup {""} : Decide(u, d, p)

Skip(u) == Cut(u) /\ Decide(u, "skipped", "")

Cancel == exec = "running" /\ exec' = "canceling" /\ UNCHANGED <<decision, port>>

Canceled == exec = "canceling" /\ exec' = "canceled" /\ UNCHANGED <<decision, port>>

Expire == exec = "running" /\ exec' = "timeout" /\ UNCHANGED <<decision, port>>

Next ==
    \/ \E u \in Units : Run(u) \/ Skip(u)
    \/ Cancel
    \/ Canceled
    \/ Expire

Spec == Init /\ [][Next]_vars
=============================================================================
