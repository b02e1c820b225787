------------------------------- MODULE Palloc -------------------------------
(***************************************************************************)
(* kernel/palloc.c with a client: the kernel allocates any page, takes a   *)
(* given page (the loader's window) and gives back pages it holds.         *)
(***************************************************************************)
EXTENDS PageList

CONSTANT NumPages       \* pages of the region palloc_initialize is given

ASSUME NumPagesAssumption == NumPages \in Nat

Pages == 1..NumPages

VARIABLES freeList,        \* free_list_head and the links
          free_page_count, \* the counter the self test prints
          held             \* pages the kernel has and has not given back

vars == <<freeList, free_page_count, held>>

Init ==
    /\ freeList = palloc_initialize(NumPages)
    /\ free_page_count = NumPages
    /\ held = {}

(* palloc_alloc returns the head of the list; on an empty list it returns  *)
(* the null page and changes nothing.                                      *)
Alloc ==
    /\ palloc_alloc(freeList) # Null
    /\ freeList' = AfterAlloc(freeList)
    /\ free_page_count' = free_page_count - 1
    /\ held' = held \cup {palloc_alloc(freeList)}

Free(page) ==
    /\ page \in held
    /\ freeList' = palloc_free(freeList, page)
    /\ free_page_count' = free_page_count + 1
    /\ held' = held \ {page}

\* Mutant: the counter is not decremented.
Take_Uncounted(page) ==
    /\ Listed(freeList, page)
    /\ freeList' = palloc_take(freeList, page)
    /\ held' = held \cup {page}
    /\ UNCHANGED free_page_count

(* palloc_take returns 0 and changes nothing when the page is not listed.  *)
Take(page) ==
    /\ Listed(freeList, page)
    /\ freeList' = palloc_take(freeList, page)
    /\ free_page_count' = free_page_count - 1
    /\ held' = held \cup {page}

Next == Alloc \/ \E page \in Pages : Free(page) \/ Take(page)

Spec == Init /\ [][Next]_vars

-----------------------------------------------------------------------------
(* The variables have their types. *)
TypeOK ==
    /\ freeList \in Seq(Pages)
    /\ free_page_count \in Int
    /\ held \subseteq Pages

(* No page is linked into the free list twice: palloc_free writes the link *)
(* into the page, so a second entry would be a cycle.                      *)
NoPageListedTwice == IsInjective(freeList)

(* free_page_count, kept by hand in alloc, free and take, is the length of *)
(* the list.                                                               *)
CountIsLength == free_page_count = Len(freeList)

(* The list implements the abstract allocator: palloc_alloc and            *)
(* palloc_take hand out free pages only, and palloc_free returns exactly   *)
(* the page it is given.                                                   *)
Abstract == INSTANCE PageSet WITH Page <- Pages, free <- ToSet(freeList), held <- held
AbstractSpec == Abstract!AbsSpec

(* The free list is sound: its entries are pages of the region, none is    *)
(* linked twice, and the counter kept by hand agrees with it.              *)
ListSound == TypeOK /\ NoPageListedTwice /\ CountIsLength
=============================================================================
