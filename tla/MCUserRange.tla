---------------------------- MODULE MCUserRange -----------------------------
(* UserRange for TLC. *)
EXTENDS UserRange
=============================================================================
