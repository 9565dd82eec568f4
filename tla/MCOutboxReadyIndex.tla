------------------------ MODULE MCOutboxReadyIndex ------------------------
(* Two entries and one or two drainers.  No symmetry: a run checks liveness. *)
EXTENDS OutboxReadyIndex
=============================================================================
