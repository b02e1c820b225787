-------------------------------- MODULE Heap --------------------------------
(***************************************************************************)
(* The kernel heap (kernel/heap.c): a doubly linked list of blocks, sorted *)
(* by address, first fit, with a split on allocation and a merge of        *)
(* touching free blocks on free.  It grows by one page of kernel/palloc.c  *)
(* at a time and never gives a page back.                                  *)
(*                                                                         *)
(* The linked list is a sequence; next and prev are its neighbours.  Every *)
(* block that was ever linked has the magic number, and kernel code writes *)
(* inside the ranges it asked for, so the magic tests are true throughout. *)
(***************************************************************************)
EXTENDS Palloc, FiniteSetsExt

CONSTANTS
    Align,          \* heap_align
    Header,         \* sizeof(struct heap_block)
    PageSize,       \* heap_page_size
    RequestSize     \* sizes that a client about which nothing is known asks for

ASSUME HeapAssumption ==
    /\ Align \in Nat \ {0} /\ Header \in Nat \ {0} /\ PageSize \in Nat
    /\ Header % Align = 0 /\ PageSize % Align = 0
    /\ Header + Align <= PageSize
    /\ RequestSize \subseteq Nat

VARIABLES
    blocks,     \* heap_head and what it links to
    ranges      \* the pointers that are in use, with the size asked for

heapVars == <<vars, blocks, ranges>>

HeapInit ==
    /\ Init
    /\ blocks = <<>>
    /\ ranges = <<>>

-----------------------------------------------------------------------------
\* Mutant: the size is used as it is.
align_up_Not(size) == size

align_up(size) == ((size + Align - 1) \div Align) * Align

block_end(b) == b.addr + Header + b.size
Payload(b) == b.addr + Header

blocks_touch(left, right) == block_end(left) = right.addr

\* Mutant: the header of the block split off is not paid for.
split_block_Header(list, i, size) ==
    IF list[i].size <= size + Header + Align
    THEN list
    ELSE SubSeq(list, 1, i - 1)
         \o << [list[i] EXCEPT !.size = size],
               [addr |-> list[i].addr + Header + size,
                size |-> list[i].size - size, free |-> TRUE] >>
         \o SubSeq(list, i + 1, Len(list))

\* Mutant: blocks are handed out whole.
split_block_Never(list, i, size) == list

(* split_block: what remains becomes a block of its own, unless it would   *)
(* be no larger than the alignment.                                        *)
split_block(list, i, size) ==
    IF list[i].size <= size + Header + Align
    THEN list
    ELSE SubSeq(list, 1, i - 1)
         \o << [list[i] EXCEPT !.size = size],
               [addr |-> list[i].addr + Header + size,
                size |-> list[i].size - size - Header, free |-> TRUE] >>
         \o SubSeq(list, i + 1, Len(list))

\* Mutant: blocks in use are swallowed too.
Mergeable_InUse(list, i, k) ==
    \A j \in (i + 1)..k : blocks_touch(list[j - 1], list[j])

(* The loop of coalesce_forward swallows the blocks after block i for as   *)
(* long as the next one is free and touches what has been merged so far.   *)
Mergeable(list, i, k) ==
    \A j \in (i + 1)..k : list[j].free /\ blocks_touch(list[j - 1], list[j])

\* Mutant: the headers of the blocks swallowed are lost.
coalesce_forward_Header(list, i) ==
    LET last == Max({k \in i..Len(list) : Mergeable(list, i, k)})
    IN  SubSeq(list, 1, i - 1)
        \o << [list[i] EXCEPT !.size = block_end(list[last]) - Payload(list[i]) - (last - i) * Header] >>
        \o SubSeq(list, last + 1, Len(list))

coalesce_forward(list, i) ==
    LET last == Max({k \in i..Len(list) : Mergeable(list, i, k)})
    IN  SubSeq(list, 1, i - 1)
        \o << [list[i] EXCEPT !.size = block_end(list[last]) - Payload(list[i])] >>
        \o SubSeq(list, last + 1, Len(list))

(* The test on block->prev in insert_block_sorted and in kfree. *)
MergesBack(list, i) == i > 1 /\ list[i - 1].free /\ blocks_touch(list[i - 1], list[i])

(* The position of a new block: after every block at a lower address. *)
Position(list, addr) == Cardinality({i \in DOMAIN list : list[i].addr < addr}) + 1

(* insert_block_sorted: the list, and the index of the block it returns. *)
insert_block_sorted(list, block) ==
    LET i == Position(list, block.addr)
        linked == InsertAt(list, i, block)
        from == IF MergesBack(linked, i) THEN i - 1 ELSE i
    IN  [list |-> coalesce_forward(linked, from), index |-> from]

(* find_block: the first free block that is large enough. *)
Fits(list, i, size) == list[i].free /\ list[i].size >= size
Found(list, size) == \E i \in DOMAIN list : Fits(list, i, size)
find_block(list, size) == Min({i \in DOMAIN list : Fits(list, i, size)})

(* The rest of kmalloc once it has a block. *)
Allotted(list, i, size) ==
    LET split == split_block(list, i, size)
    IN  [split EXCEPT ![i].free = FALSE]

\* Mutant: the pointer is the block itself.
Handed_Block(list, i) == list[i].addr

Handed(list, i) == Payload(list[i])

-----------------------------------------------------------------------------
(* kmalloc where find_block has a block. *)
AllocFound(size) ==
    /\ size > 0
    /\ Found(blocks, align_up(size))
    /\ LET i == find_block(blocks, align_up(size))
       IN  /\ blocks' = Allotted(blocks, i, align_up(size))
           /\ ranges' = [p \in DOMAIN ranges \cup {Handed(blocks, i)} |->
                            IF p = Handed(blocks, i) THEN size ELSE ranges[p]]
    /\ UNCHANGED vars

(* kmalloc where it has none: grow_heap adds a page.  It returns NULL for  *)
(* a size that does not fit in one page, and when there is no page.        *)
Capacity == PageSize - Header
AllocGrow(size) ==
    /\ size > 0
    /\ ~Found(blocks, align_up(size))
    /\ align_up(size) <= Capacity
    /\ freeList # <<>>
    /\ LET block == [addr |-> palloc_alloc(freeList) * PageSize,
                     size |-> Capacity, free |-> TRUE]
           grown == insert_block_sorted(blocks, block)
           p == Handed(grown.list, grown.index)
       IN  /\ blocks' = Allotted(grown.list, grown.index, align_up(size))
           /\ ranges' = [q \in DOMAIN ranges \cup {p} |-> IF q = p THEN size ELSE ranges[q]]
    /\ freeList' = AfterAlloc(freeList)
    /\ free_page_count' = free_page_count - 1
    /\ UNCHANGED held

kmalloc(size) == AllocFound(size) \/ AllocGrow(size)

\* Mutant: the block before is not looked at.
Freed_Forward(list, i) == coalesce_forward([list EXCEPT ![i].free = TRUE], i)

(* kfree: merge forward, then let a free block before it merge forward. *)
Freed(list, i) ==
    LET merged == coalesce_forward([list EXCEPT ![i].free = TRUE], i)
    IN  IF MergesBack(merged, i) THEN coalesce_forward(merged, i - 1) ELSE merged

(* The header that kfree finds in front of a pointer.  Where it found none *)
(* that is in use it would halt the machine; EveryPointerFreeable says     *)
(* that this never happens.                                                *)
HeaderOf(list, p) == {i \in DOMAIN list : Payload(list[i]) = p /\ ~list[i].free}

kfree(p) ==
    /\ p \in DOMAIN ranges
    /\ HeaderOf(blocks, p) # {}
    /\ blocks' = Freed(blocks, CHOOSE i \in HeaderOf(blocks, p) : TRUE)
    /\ ranges' = [q \in DOMAIN ranges \ {p} |-> ranges[q]]
    /\ UNCHANGED vars

(* Other users of the page allocator, so that the heap's pages need not be *)
(* neighbours and need not come in descending order.                       *)
OtherAlloc == Alloc /\ UNCHANGED <<blocks, ranges>>
OtherFree(page) == Free(page) /\ UNCHANGED <<blocks, ranges>>

HeapNext ==
    \/ \E size \in RequestSize : kmalloc(size)
    \/ \E p \in DOMAIN ranges : kfree(p)
    \/ OtherAlloc
    \/ \E page \in held : OtherFree(page)

HeapSpec == HeapInit /\ [][HeapNext]_heapVars

-----------------------------------------------------------------------------
(* Properties *)

Block == [addr : Nat, size : Nat, free : BOOLEAN]

(* Every variable has its type, and every block is aligned. *)
HeapTypeOK ==
    /\ TypeOK
    /\ blocks \in Seq(Block)
    /\ \A i \in DOMAIN blocks : blocks[i].addr % Align = 0 /\ blocks[i].size % Align = 0
    /\ DOMAIN ranges \subseteq Nat
    /\ \A p \in DOMAIN ranges : ranges[p] \in Nat \ {0}

HeapPages == (Pages \ held) \ ToSet(freeList)
Extent(b) == (b.addr \div PageSize)..((block_end(b) - 1) \div PageSize)

(* A byte that belongs to some block, header included. *)
Covered(list, a) == \E i \in DOMAIN list : list[i].addr <= a /\ a < block_end(list[i])

(* The blocks, headers included, lie in ascending order, share no byte and *)
(* leave out no byte of the pages the heap has taken: splits and merges    *)
(* neither lose memory nor let two headers overlap.  The first byte of a   *)
(* gap would be the first one of a page or follow the last one of a block. *)
BlocksTile ==
    /\ \A i \in 1..(Len(blocks) - 1) : block_end(blocks[i]) <= blocks[i + 1].addr
    /\ \A i \in DOMAIN blocks : Extent(blocks[i]) \subseteq HeapPages
    /\ \A page \in HeapPages : Covered(blocks, page * PageSize)
    /\ \A i \in DOMAIN blocks :
          block_end(blocks[i]) \div PageSize \in HeapPages => Covered(blocks, block_end(blocks[i]))

(* Between calls no two free blocks touch, so that once everything is      *)
(* freed the heap can serve what it could serve when its pages were new:   *)
(* the one pass backwards in kfree and the one in insert_block_sorted are  *)
(* enough.                                                                 *)
FullyCoalesced ==
    \A i \in 1..(Len(blocks) - 1) :
        ~(blocks[i].free /\ blocks[i + 1].free /\ blocks_touch(blocks[i], blocks[i + 1]))

(* The check of kfree never fails on a pointer that is in use, and every   *)
(* block in use is somebody's: kfree would find the header in front of     *)
(* each pointer, whatever was split and merged since kmalloc returned it,  *)
(* and the block is still as large as what was asked for.                  *)
EveryPointerFreeable ==
    /\ \A p \in DOMAIN ranges :
          \E i \in HeaderOf(blocks, p) : blocks[i].size >= ranges[p]
    /\ {Payload(blocks[i]) : i \in {j \in DOMAIN blocks : ~blocks[j].free}} = DOMAIN ranges

(* The heap implements the abstract allocator: no two ranges it has handed *)
(* out share a byte, all lie in its own pages, and a range ends only by a  *)
(* kfree of its own pointer.                                               *)
Ranges == INSTANCE ByteRanges WITH arena <- HeapPages
RangesSpec == Ranges!AbsSpec

(* Between calls the list of blocks is sound: it tiles the heap's pages,   *)
(* is merged as far as possible and has a header for every live pointer.   *)
HeapSound == HeapTypeOK /\ BlocksTile /\ FullyCoalesced /\ EveryPointerFreeable
=============================================================================
