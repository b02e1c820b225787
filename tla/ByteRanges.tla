----------------------------- MODULE ByteRanges -----------------------------
(***************************************************************************)
(* What kmalloc and kfree promise, whatever the allocator's structure: the *)
(* ranges that are handed out lie in memory the allocator owns, no two of  *)
(* them share a byte, and only a free of that very pointer ends one.  The  *)
(* memory of the allocator only grows.                                     *)
(***************************************************************************)
EXTENDS Integers

CONSTANT PageSize

VARIABLES
    arena,      \* the pages the allocator owns
    ranges      \* ranges[p]: the size that was asked for when p was returned

absVars == <<arena, ranges>>

PagesOf(p, size) == (p \div PageSize)..((p + size - 1) \div PageSize)
Disjoint(p, size, q, other) == p + size <= q \/ q + other <= p

AbsInit == arena = {} /\ ranges = <<>>

Grow ==
    /\ arena \subseteq arena'
    /\ UNCHANGED ranges

(* The allocator may acquire memory in order to serve a request. *)
Acquire(p, size) ==
    /\ arena \subseteq arena'
    /\ PagesOf(p, size) \subseteq arena'
    /\ \A q \in DOMAIN ranges : Disjoint(p, size, q, ranges[q])
    /\ ranges' = [q \in DOMAIN ranges \cup {p} |-> IF q = p THEN size ELSE ranges[q]]

Return(p) ==
    /\ p \in DOMAIN ranges
    /\ ranges' = [q \in DOMAIN ranges \ {p} |-> ranges[q]]
    /\ UNCHANGED arena

AbsNext ==
    \/ Grow
    \/ \E p \in DOMAIN ranges' : Acquire(p, ranges'[p])
    \/ \E p \in DOMAIN ranges : Return(p)

AbsSpec == AbsInit /\ [][AbsNext]_absVars
=============================================================================
