--------------------------- MODULE MCPauseCustody ---------------------------
(* Bounded instance of PauseCustody. *)
EXTENDS PauseCustody
=============================================================================
