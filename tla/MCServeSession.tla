--------------------------- MODULE MCServeSession ---------------------------
(* Instances of ServeSession for TLC. *)
EXTENDS ServeSession
=============================================================================
