------------------------------- MODULE MemMap -------------------------------
(***************************************************************************)
(* From the firmware's memory map to the first free list:                  *)
(* memmap_capture_and_exit, memmap_parse and                               *)
(* memmap_find_largest_conventional_region of kernel/memmap.c and the      *)
(* region palloc_initialize makes of the result.                           *)
(*                                                                         *)
(* The firmware is external.  It may change its map, and with it the key,  *)
(* at any time until ExitBootServices succeeds; it refuses to exit for a   *)
(* key that is not the current one.  A map is a sequence of descriptors,   *)
(* and of the key only matters whether it is still the current one.        *)
(***************************************************************************)
EXTENDS PageList, FiniteSetsExt

CONSTANTS
    PageSize,
    LowCutoff, HighLimit,  \* palloc_low_cutoff, palloc_high_limit
    Maps                   \* the maps a firmware may report

ASSUME MemMapAssumption ==
    /\ PageSize \in Nat \ {0}
    /\ LowCutoff \in Nat /\ HighLimit \in Nat
    /\ Maps \subseteq Seq([conventional : BOOLEAN, start : Nat, pages : Nat])

VARIABLES
    firmware,       \* the firmware's map
    captured,       \* memory_map_buffer
    stale,          \* map_key is not the firmware's key any more
    regions,        \* memory_map_conventional_region_count
    pages,          \* memory_map_conventional_page_count
    pc,
    index,          \* loop variable of the search for a region
    best,           \* best_begin, best_end, best_pages
    freeList

vars == <<firmware, captured, stale, regions, pages, pc, index, best, freeList>>

NoRegion == [begin |-> 0, end |-> 0, pages |-> 0]

Init ==
    /\ firmware \in Maps
    /\ captured = <<>>
    /\ stale = FALSE
    /\ regions = 0
    /\ pages = 0
    /\ pc = "get1"
    /\ index = 1
    /\ best = NoRegion
    /\ freeList = <<>>

-----------------------------------------------------------------------------
(* The firmware changes its map behind the kernel's back. *)
FirmwareChanges ==
    /\ pc \in {"get1", "exit1", "get2", "exit2"}
    /\ firmware' \in Maps
    /\ stale' = TRUE
    /\ UNCHANGED <<captured, regions, pages, pc, index, best, freeList>>

Conventional(map) == {i \in DOMAIN map : map[i].conventional}
PageCount(map) == MapThenSumSet(LAMBDA i : map[i].pages, Conventional(map))

\* Mutant: the counters of the first try are not reset.
memmap_parse_Adds(map) ==
    /\ regions' = regions + Cardinality(Conventional(map))
    /\ pages' = pages + PageCount(map)

(* memmap_parse counts from zero. *)
memmap_parse(map) ==
    /\ regions' = Cardinality(Conventional(map))
    /\ pages' = PageCount(map)

(* GetMemoryMap: the map and its key, or an error. *)
GetMap(step, next) ==
    /\ pc = step
    /\ \/ /\ captured' = firmware
          /\ stale' = FALSE
          /\ memmap_parse(firmware)
          /\ pc' = next
       \/ pc' = "halted" /\ UNCHANGED <<captured, stale, regions, pages>>
    /\ UNCHANGED <<firmware, index, best, freeList>>

\* Mutant: the firmware's answer is not looked at.
Accepted_Always == TRUE

(* ExitBootServices succeeds only for the current key. *)
Accepted == ~stale

\* Mutant: the kernel tries again until it succeeds.
Refused_Retry(step) == "get2"

(* The first refusal leads to a second try, the second one to a halt. *)
Refused(step) == IF step = "exit1" THEN "get2" ELSE "halted"

ExitBootServices(step) ==
    /\ pc = step
    /\ pc' = IF Accepted THEN "search" ELSE Refused(step)
    /\ UNCHANGED <<firmware, captured, stale, regions, pages, index, best, freeList>>

-----------------------------------------------------------------------------
AlignDown(a) == (a \div PageSize) * PageSize
AlignUp(a) == AlignDown(a + PageSize - 1)

ClippedBegin(d) == AlignUp(IF d.start < LowCutoff THEN LowCutoff ELSE d.start)
ClippedEnd(d) ==
    LET end == d.start + d.pages * PageSize
    IN  AlignDown(IF end > HighLimit THEN HighLimit ELSE end)

\* Mutant: a region that is empty between the limits wraps to a huge one.
Clipped_Wraps(d) ==
    [begin |-> ClippedBegin(d), end |-> ClippedEnd(d),
     pages |-> ((ClippedEnd(d) - ClippedBegin(d)) \div PageSize) % (HighLimit + 1)]

(* A region whose end is not above its begin is skipped. *)
Clipped(d) ==
    [begin |-> ClippedBegin(d), end |-> ClippedEnd(d),
     pages |-> IF ClippedEnd(d) <= ClippedBegin(d) THEN 0
               ELSE (ClippedEnd(d) - ClippedBegin(d)) \div PageSize]

\* Mutant: any later region that is not empty replaces the best one.
Better_Last(d) == Clipped(d).pages > 0

Better(d) == Clipped(d).pages > best.pages

(* One turn of memmap_find_largest_conventional_region. *)
SearchRegion ==
    /\ pc = "search"
    /\ index <= Len(captured)
    /\ best' = IF captured[index].conventional /\ Better(captured[index])
               THEN Clipped(captured[index]) ELSE best
    /\ index' = index + 1
    /\ UNCHANGED <<firmware, captured, stale, regions, pages, pc, freeList>>

(* The rest of palloc_initialize; without a region the list stays empty. *)
FillFreeList ==
    /\ pc = "search"
    /\ index > Len(captured)
    /\ freeList' = Descending(best.begin \div PageSize, best.end \div PageSize)
    /\ pc' = "ready"
    /\ UNCHANGED <<firmware, captured, stale, regions, pages, index, best>>

KernelStep ==
    \/ GetMap("get1", "exit1") \/ ExitBootServices("exit1")
    \/ GetMap("get2", "exit2") \/ ExitBootServices("exit2")
    \/ SearchRegion \/ FillFreeList

Next == FirmwareChanges \/ KernelStep

(* The firmware's calls return and the CPU goes on. *)
Spec == Init /\ [][Next]_vars /\ WF_vars(KernelStep)

-----------------------------------------------------------------------------
(* Every variable has its type, and the region is an interval. *)
TypeOK ==
    /\ firmware \in Maps
    /\ captured \in Maps \cup {<<>>}
    /\ stale \in BOOLEAN
    /\ regions \in Nat /\ pages \in Nat
    /\ pc \in {"get1", "exit1", "get2", "exit2", "search", "ready", "halted"}
    /\ index \in Nat
    /\ best \in [begin : Nat, end : Nat, pages : Nat]
    /\ best.begin <= best.end
    /\ freeList \in Seq(Nat)

Exited == pc \in {"search", "ready"}

(* The counts the kernel prints are those of the map it goes on with, also *)
(* when the first one turned out to be stale: they are what the firmware   *)
(* reports at the moment it hands the machine over.                        *)
CountsOfFinalMap ==
    Exited =>
        /\ regions = Cardinality(Conventional(firmware))
        /\ pages = PageCount(firmware)

Covers(d, page) ==
    /\ d.start <= page * PageSize
    /\ (page + 1) * PageSize <= d.start + d.pages * PageSize

(* Every page on the free list is ordinary memory in the map the firmware  *)
(* left behind, and lies between the two limits: the allocator never gets  *)
(* memory that a stale map called free.                                    *)
FreePagesAreMemory ==
    \A i \in DOMAIN freeList :
        /\ LowCutoff <= freeList[i] * PageSize
        /\ (freeList[i] + 1) * PageSize <= HighLimit
        /\ \E j \in Conventional(firmware) : Covers(firmware[j], freeList[i])

(* The allocator gets the largest region there is: no descriptor has more  *)
(* pages between the limits than the list has, counted page by page.       *)
LargestRegionTaken ==
    pc = "ready" =>
        \A j \in Conventional(firmware) :
            Cardinality({p \in (LowCutoff \div PageSize)..(HighLimit \div PageSize) :
                            /\ LowCutoff <= p * PageSize
                            /\ (p + 1) * PageSize <= HighLimit
                            /\ Covers(firmware[j], p)}) <= Len(freeList)

(* Boot gets past the memory map or halts, however often the firmware      *)
(* changes its map: the kernel tries twice and not for ever.               *)
BootDecides == <>(pc \in {"ready", "halted"})

(* What the kernel knows of the memory is true of the firmware's last map. *)
FinalMapKnown == TypeOK /\ CountsOfFinalMap

(* The free list is the largest usable region of that map, and nothing but *)
(* usable memory.                                                          *)
RegionRight == FreePagesAreMemory /\ LargestRegionTaken
=============================================================================
