------------------------- MODULE MCRunnerDirectory -------------------------
(* Small instances of RunnerDirectory for TLC. *)
EXTENDS RunnerDirectory, TLC

Symmetry == {f @@ g : f \in Permutations(Requests), g \in Permutations(Runners)}
=============================================================================
