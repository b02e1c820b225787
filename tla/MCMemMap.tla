------------------------------ MODULE MCMemMap ------------------------------
(***************************************************************************)
(* MemMap for TLC: three places for a descriptor, each empty, or one or    *)
(* three pages of ordinary memory, or three pages of another type.  The    *)
(* first lies across the lower limit and the last across the upper one.    *)
(***************************************************************************)
EXTENDS MemMap

Place(page) ==
    {<<>>} \cup {<<[conventional |-> kind[1], start |-> page * PageSize, pages |-> kind[2]]>> :
                    kind \in {<<TRUE, 1>>, <<TRUE, 3>>, <<FALSE, 3>>}}

SmallMaps == {a \o b \o c : a \in Place(0), b \in Place(4), c \in Place(7)}
=============================================================================
