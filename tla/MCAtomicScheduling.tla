------------------------- MODULE MCAtomicScheduling -------------------------
(* A branch whose two arms meet again: "a" routes to "b" on main and to "c" *)
(* on error, both arms lead to the merge "d".                               *)
EXTENDS AtomicScheduling

Edge(s, p, d) == [src |-> s, port |-> p, dst |-> d]

MCUnits == {"a", "b", "c", "d"}
MCPorts == {"main", "error"}
MCEdges == {Edge("a", "main", "b"), Edge("a", "error", "c"),
            Edge("b", "main", "d"), Edge("c", "main", "d")}
MCOnError == [u \in Units |-> IF u = "a" THEN "error_output"
                             ELSE IF u = "c" THEN "main_output" ELSE "stop"]
MCMaxAttempts == [u \in Units |-> IF u = "a" THEN 2 ELSE 1]
MCMaxLeases == [u \in Units |-> IF u \in {"a", "d"} THEN 2 ELSE 1]
MCMode == [u \in Units |-> "handler"]
MCWaitAny == {}

\* A race: the root "a", which may leave on error, and the pinned root "c"
\* lead to the wait_any merge "d", which the disabled unit "b" follows.
RaceEdges == {Edge("a", "main", "d"), Edge("c", "main", "d"), Edge("d", "main", "b")}
RaceOnError == [u \in Units |-> IF u = "a" THEN "error_output" ELSE "continue"]
RaceMaxLeases == [u \in Units |-> IF u = "a" THEN 2 ELSE 1]
RaceMode == [u \in Units |-> IF u = "b" THEN "disabled"
                            ELSE IF u = "c" THEN "pinned" ELSE "handler"]
RaceWaitAny == {"d"}

\* A chain: "b" is skipped when "a" errs.
ChainUnits == {"a", "b"}
ChainMaxLeases == [u \in Units |-> 2]
ChainEdges == {Edge("a", "main", "b")}
=============================================================================
