-------------------------- MODULE MCLeaderElection --------------------------
(* Two replicas with a renewer each, or one replica with two renewers and a *)
(* caller of IsLeader.  No symmetry: the runs check liveness.               *)
EXTENDS LeaderElection
=============================================================================
