------------------------------ MODULE MCPalloc ------------------------------
(* Palloc for TLC. *)
EXTENDS Palloc
=============================================================================
