--------------------------- MODULE MCSessionCallee ---------------------------
(* Small instances of SessionCallee for TLC. *)
EXTENDS SessionCallee
=============================================================================
