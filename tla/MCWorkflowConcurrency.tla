----------------------- MODULE MCWorkflowConcurrency -----------------------
(* Three executions.  No symmetry: the run checks liveness.                *)
EXTENDS WorkflowConcurrency
=============================================================================
