--------------------------- MODULE MCSessionLock ---------------------------
(* Bounded instance of SessionLock. *)
EXTENDS SessionLock
=============================================================================
