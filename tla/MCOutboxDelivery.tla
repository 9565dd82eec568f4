-------------------------- MODULE MCOutboxDelivery --------------------------
(* Two flushes contend for one intent, which may be replayed once.  No      *)
(* symmetry: the run checks liveness.                                       *)
EXTENDS OutboxDelivery
=============================================================================
