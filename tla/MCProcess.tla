----------------------------- MODULE MCProcess ------------------------------
(***************************************************************************)
(* Process for TLC: three images, one of which is malformed, and the       *)
(* builds and memory sizes of each run.                                    *)
(***************************************************************************)
EXTENDS Process, TLC

CONSTANTS pulse, echo, bad

Registry == {pulse, echo, bad}
Malformed == {bad}

(* The registry's images span the same number of pages ... *)
EqualSpans == [p \in Registry |-> 2]
(* ... or not. *)
UnequalSpans == (pulse :> 2) @@ (echo :> 1) @@ (bad :> 1)

(* The window starts at page 2; a task and its successor need 11 private   *)
(* pages, one of them the idle stack, and 2 image pages: with 13 pages or  *)
(* more nothing ever runs out.                                             *)
Most == 14

(* Builds in which no refused exec can follow a successful one: the test   *)
(* hook of USER_TEST_EXEC_TRANSFER_FAIL refuses them all, and is compiled  *)
(* with the C first task.                                                  *)
Builds == {c \in Config : c.refuse => c.init # "elf"}

AnyConfigs == {c \in Builds : c.pages \in 0..Most}
ElfConfig == {[init |-> "elf", refuse |-> FALSE, pages |-> Most]}
(* One page too few for the stack of the second image. *)
TightConfig == {[init |-> "elf", refuse |-> FALSE, pages |-> 12]}
=============================================================================
