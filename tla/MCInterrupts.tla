---------------------------- MODULE MCInterrupts -----------------------------
(* All masks the firmware may leave, with and without a user task. *)
EXTENDS Interrupts
=============================================================================
