------------------------------ MODULE PageList ------------------------------
(***************************************************************************)
(* The free list of the physical page allocator (kernel/palloc.c) as pure  *)
(* operators on sequences: the head of the list is the first element.      *)
(*                                                                         *)
(* A page is a number.  Page number 0 is the null pointer, which           *)
(* palloc_alloc returns when the list is empty and palloc_free ignores.    *)
(* The list is intrusive in the code (the link is stored in the free page),*)
(* so a page that is pushed twice would tie the list into a cycle; the     *)
(* sequence then holds the page twice, which every client of this module   *)
(* is checked never to do.                                                 *)
(***************************************************************************)
EXTENDS Integers, Sequences, SequencesExt

Null == 0

(* The pages b, b+1, ..., e-1, last one first. *)
Descending(b, e) == [i \in 1..(IF b < e THEN e - b ELSE 0) |-> e - i]

\* Mutant: the page that starts at the end of the region is pushed too.
palloc_initialize_Past(n) == Descending(1, n + 2)

(* palloc_initialize pushes the pages of the region in ascending order, so *)
(* that the highest page is allocated first.                               *)
palloc_initialize(n) == Descending(1, n + 1)

(* palloc_alloc: the page it returns, and the list it leaves. *)
palloc_alloc(list) == IF list = <<>> THEN Null ELSE Head(list)

\* Mutant: the head is not advanced.
AfterAlloc_Keeps(list) == list

AfterAlloc(list) == IF list = <<>> THEN list ELSE Tail(list)

\* Mutant: the null page is pushed like any other.
palloc_free_Null(list, page) == <<page>> \o list

(* palloc_free pushes the page, and does nothing for the null page. *)
palloc_free(list, page) == IF page = Null THEN list ELSE <<page>> \o list

(* palloc_take walks the list and unlinks the first node at that address.  *)
Listed(list, page) == \E i \in DOMAIN list : list[i] = page
palloc_take(list, page) ==
    IF Listed(list, page)
    THEN RemoveAt(list, CHOOSE i \in DOMAIN list :
                          /\ list[i] = page
                          /\ \A j \in 1..(i - 1) : list[j] # page)
    ELSE list

(* The loop `for (page = b; page < e; ++page) if (page is not in [lo,hi))  *)
(* palloc_free(page)`: claim_window_pages and elf_release_user_image.      *)
FreeRangeExcept(list, b, e, lo, hi) ==
    Descending(hi, e) \o Descending(b, lo) \o list
=============================================================================
