------------------------------- MODULE PageSet ------------------------------
(***************************************************************************)
(* What a page allocator promises, whatever its data structure: a page is  *)
(* either free or held by the client, an allocation hands out some free    *)
(* page, and a page that was taken or allocated stays out of everybody     *)
(* else's hands until it is given back.                                    *)
(***************************************************************************)
CONSTANT Page

VARIABLES free, held

absVars == <<free, held>>

AbsInit == free = Page /\ held = {}

(* Allocate or take: one free page changes hands. *)
Acquire(p) ==
    /\ p \in free
    /\ free' = free \ {p}
    /\ held' = held \cup {p}

GiveBack(p) ==
    /\ p \in held
    /\ held' = held \ {p}
    /\ free' = free \cup {p}

AbsNext == \E p \in Page : Acquire(p) \/ GiveBack(p)

AbsSpec == AbsInit /\ [][AbsNext]_absVars
=============================================================================
