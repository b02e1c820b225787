---------------------------- MODULE MemMapProofs ----------------------------
(***************************************************************************)
(* What the kernel knows of the memory once boot services are gone, for    *)
(* every page size, limits and maps of any length.                         *)
(*                                                                         *)
(* The counts and the region are computed from the map that was captured;  *)
(* they are true of the firmware's map because ExitBootServices accepts    *)
(* only a key that is not stale, and a captured map whose key is not stale *)
(* is the firmware's (MapInv).  The loop that looks for the region keeps   *)
(* the largest one seen so far (BestInv).                                  *)
(***************************************************************************)
EXTENDS MemMap, PageListProofs, FiniteSetTheorems

-----------------------------------------------------------------------------
(* Sums.  MapThenSumSet takes the elements of a finite set one by one.     *)

Some(s) == CHOOSE x \in s : TRUE
IsSum(g, map, D) ==
    g = [s \in D |-> IF s = {} THEN 0 ELSE map[Some(s)].pages + g[s \ {Some(s)}]]
UpTo(S, n) == {s \in SUBSET S : Cardinality(s) <= n}

LEMMA SubsetCounts ==
  ASSUME NEW S, IsFiniteSet(S)
  PROVE  /\ \A s \in SUBSET S : IsFiniteSet(s) /\ Cardinality(s) \in Nat
                                 /\ Cardinality(s) <= Cardinality(S)
         /\ \A s \in SUBSET S : Cardinality(s) = 0 <=> s = {}
         /\ \A s \in SUBSET S : s # {} => /\ Some(s) \in s /\ s \ {Some(s)} \in SUBSET S
                                          /\ Cardinality(s \ {Some(s)}) = Cardinality(s) - 1
<1>1. \A s \in SUBSET S : /\ IsFiniteSet(s) /\ Cardinality(s) \in Nat
                          /\ Cardinality(s) <= Cardinality(S)
  BY FS_Subset, FS_CardinalityType
<1>2. \A s \in SUBSET S : Cardinality(s) = 0 <=> s = {}
  BY <1>1, FS_EmptySet
<1>3. ASSUME NEW s \in SUBSET S, s # {}
      PROVE  /\ Some(s) \in s /\ s \ {Some(s)} \in SUBSET S
             /\ Cardinality(s \ {Some(s)}) = Cardinality(s) - 1
  <2>1. Some(s) \in s
    BY <1>3 DEF Some
  <2> QED BY <1>1, <2>1, FS_RemoveElement
<1> QED BY <1>1, <1>2, <1>3

LEMMA SumExists ==
  ASSUME NEW map, NEW S, IsFiniteSet(S)
  PROVE  \E g : IsSum(g, map, SUBSET S)
<1> DEFINE T == {n \in Nat : ~ \E g : IsSum(g, map, UpTo(S, n))}
<1>1. ASSUME NEW n \in Nat, n + 1 \in T PROVE n \in T
  <2> SUFFICES ASSUME \E g : IsSum(g, map, UpTo(S, n)) PROVE FALSE
    OBVIOUS
  <2>1. PICK g : IsSum(g, map, UpTo(S, n))
    OBVIOUS
  <2> DEFINE h == [s \in UpTo(S, n + 1) |->
                     IF s = {} THEN 0 ELSE map[Some(s)].pages + g[s \ {Some(s)}]]
  <2>2. ASSUME NEW s \in UpTo(S, n + 1), s # {}
        PROVE  h[s \ {Some(s)}] = g[s \ {Some(s)}]
    <3>0. PICK r : r = s \ {Some(s)}
      OBVIOUS
    <3>1. r \in SUBSET S /\ Cardinality(r) = Cardinality(s) - 1 /\ Cardinality(s) <= n + 1
      BY <2>2, <3>0, SubsetCounts DEF UpTo
    <3>2. Cardinality(s) \in Nat /\ Cardinality(r) \in Nat
      BY <2>2, <3>1, SubsetCounts DEF UpTo
    <3>3. r \in UpTo(S, n) /\ r \in UpTo(S, n + 1)
      BY <3>1, <3>2 DEF UpTo
    <3>4. g[r] = IF r = {} THEN 0 ELSE map[Some(r)].pages + g[r \ {Some(r)}]
      BY <2>1, <3>3 DEF IsSum
    <3> QED BY <3>0, <3>3, <3>4
  <2>3. h = [s \in UpTo(S, n + 1) |->
               IF s = {} THEN 0 ELSE map[Some(s)].pages + h[s \ {Some(s)}]]
    BY <2>2
  <2>4. IsSum(h, map, UpTo(S, n + 1))
    BY <2>3, Zenon DEF IsSum
  <2> QED BY <1>1, <2>4, Zenon
<1>2. 0 \notin T
  <2> DEFINE h == [s \in UpTo(S, 0) |-> 0]
  <2>1. \A s \in UpTo(S, 0) : s = {}
    BY SubsetCounts DEF UpTo
  <2>2. h = [s \in UpTo(S, 0) |-> IF s = {} THEN 0 ELSE map[Some(s)].pages + h[s \ {Some(s)}]]
    BY <2>1
  <2>3. IsSum(h, map, UpTo(S, 0))
    BY <2>2, Zenon DEF IsSum
  <2> QED BY <2>3, Zenon
<1>3. T = {}
  <2> SUFFICES ASSUME T # {} PROVE FALSE
    OBVIOUS
  <2>0. T \subseteq Nat
    OBVIOUS
  <2> HIDE DEF T
  <2>1. PICK n \in T : \A m \in T : n <= m
    BY <2>0, LeastNumber
  <2>2. n \in Nat /\ n # 0
    BY <1>2, <2>0
  <2>3. n - 1 \in Nat /\ (n - 1) + 1 = n
    BY <2>2
  <2>4. n - 1 \in T
    BY <1>1, <2>3
  <2> QED BY <2>1, <2>2, <2>4
<1>4. Cardinality(S) \in Nat /\ UpTo(S, Cardinality(S)) = SUBSET S
  BY SubsetCounts, FS_CardinalityType DEF UpTo
<1>5. ~(Cardinality(S) \in T)
  BY <1>3
<1>6. \E g : IsSum(g, map, UpTo(S, Cardinality(S)))
  BY <1>4, <1>5, Zenon
<1> QED BY <1>4, <1>6

(* The sum of natural numbers is one. *)
LEMMA PageCountIsNat ==
  ASSUME NEW map, NEW S, S = Conventional(map), IsFiniteSet(S), \A i \in S : map[i].pages \in Nat
  PROVE  PageCount(map) \in Nat
<1>0. PICK g : g = CHOOSE h : IsSum(h, map, SUBSET S)
  OBVIOUS
<1>1. IsSum(g, map, SUBSET S)
  BY <1>0, SumExists
<1>2. PageCount(map) = g[S]
  BY <1>0 DEF PageCount, MapThenSumSet, MapThenFoldSet, IsSum, Some
<1>3. \A s \in SUBSET S : g[s] = IF s = {} THEN 0 ELSE map[Some(s)].pages + g[s \ {Some(s)}]
  BY <1>1 DEF IsSum
<1> DEFINE T == {n \in Nat : \E s \in SUBSET S : Cardinality(s) = n /\ g[s] \notin Nat}
<1>4. T = {}
  <2> SUFFICES ASSUME T # {} PROVE FALSE
    OBVIOUS
  <2>0. T \subseteq Nat
    OBVIOUS
  <2>1. PICK n \in T : \A m \in T : n <= m
    BY <2>0, LeastNumber
  <2>2. PICK s \in SUBSET S : Cardinality(s) = n /\ g[s] \notin Nat
    BY <2>1
  <2>3. s # {}
    <3>1. s = {} => g[s] = 0
      BY <1>3
    <3> QED BY <2>2, <3>1
  <2>4. PICK x, r : x = Some(s) /\ r = s \ {Some(s)}
    OBVIOUS
  <2>5. x \in S /\ r \in SUBSET S /\ Cardinality(r) = n - 1 /\ Cardinality(r) \in Nat /\ n \in Nat
    BY <2>2, <2>3, <2>4, SubsetCounts
  <2>6. g[s] = map[x].pages + g[r]
    BY <1>3, <2>3, <2>4
  <2>7. g[r] \notin Nat
    BY <2>2, <2>5, <2>6
  <2>8. n - 1 \in T
    BY <2>5, <2>7
  <2> QED BY <2>1, <2>5, <2>8
<1>5. Cardinality(S) \in Nat /\ S \in SUBSET S
  BY FS_CardinalityType
<1> QED BY <1>2, <1>4, <1>5

-----------------------------------------------------------------------------
(* Pages and addresses *)

Descriptor == [conventional : BOOLEAN, start : Nat, pages : Nat]

(* A page that is memory and lies between the limits. *)
Usable(d, page) ==
    LowCutoff <= page * PageSize /\ (page + 1) * PageSize <= HighLimit /\ Covers(d, page)

LEMMA Multiples ==
  ASSUME NEW a \in Int, NEW b \in Int
  PROVE  /\ a * PageSize \in Int /\ (a \in Nat => a * PageSize \in Nat)
         /\ (a + 1) * PageSize = a * PageSize + PageSize
         /\ a <= b => a * PageSize <= b * PageSize
         /\ a < b => a * PageSize + PageSize <= b * PageSize
<1>1. PageSize \in Nat /\ PageSize > 0
  BY MemMapAssumption
<1>2. PICK n : n = PageSize
  OBVIOUS
<1>3. n \in Nat /\ n > 0
  BY <1>1, <1>2
<1>4. a * n \in Int /\ b * n \in Int /\ (a \in Nat => a * n \in Nat)
  BY <1>3
<1>5. (a + 1) * n = a * n + n
  BY <1>3
<1>6. a <= b => a * n <= b * n
  BY <1>3
<1>7. a < b => a * n + n <= b * n
  <2>1. a < b => a + 1 <= b
    OBVIOUS
  <2>2. a + 1 <= b => (a + 1) * n <= b * n
    BY <1>3
  <2> QED BY <1>5, <2>1, <2>2
<1> QED BY <1>2, <1>4, <1>5, <1>6, <1>7

LEMMA AlignDownFacts ==
  ASSUME NEW a \in Nat
  PROVE  /\ a \div PageSize \in Nat
         /\ AlignDown(a) = (a \div PageSize) * PageSize
         /\ AlignDown(a) <= a /\ a < AlignDown(a) + PageSize
<1>1. PageSize \in Nat /\ PageSize > 0
  BY MemMapAssumption
<1>2. a \div PageSize \in Nat
  BY <1>1
<1>3. a = PageSize * (a \div PageSize) + (a % PageSize) /\ a % PageSize \in 0..(PageSize - 1)
  BY <1>1
<1> QED BY <1>1, <1>2, <1>3 DEF AlignDown

(* Page numbers of page addresses. *)
LEMMA PageOfMultiple ==
  ASSUME NEW k \in Nat
  PROVE  (k * PageSize) \div PageSize = k
<1>0. PICK a : a = k * PageSize
  OBVIOUS
<1>1. a \in Nat /\ PageSize \in Nat /\ PageSize > 0
  BY <1>0, MemMapAssumption, Multiples
<1>2. PICK m : m = a \div PageSize
  OBVIOUS
<1>3. m \in Nat /\ m * PageSize <= a /\ a < m * PageSize + PageSize
  BY <1>1, <1>2, AlignDownFacts
<1>4. ~(m < k)
  <2>1. m < k => m * PageSize + PageSize <= k * PageSize
    BY <1>3, Multiples
  <2>2. m * PageSize \in Nat
    BY <1>3, Multiples
  <2> QED BY <1>0, <1>1, <1>3, <2>1, <2>2
<1>5. ~(k < m)
  <2>1. k < m => k * PageSize + PageSize <= m * PageSize
    BY <1>3, Multiples
  <2>2. m * PageSize \in Nat
    BY <1>3, Multiples
  <2> QED BY <1>0, <1>1, <1>3, <2>1, <2>2
<1> QED BY <1>0, <1>2, <1>3, <1>4, <1>5

(* The clipped region of a descriptor is exactly its usable pages. *)
LEMMA ClippedFacts ==
  ASSUME NEW d \in Descriptor
  PROVE  \E b, e \in Nat :
            /\ Clipped(d) = [begin |-> b * PageSize, end |-> e * PageSize,
                             pages |-> IF e <= b THEN 0 ELSE e - b]
            /\ \A p \in Nat : Usable(d, p) <=> b <= p /\ p < e
<1>0. PICK n : n = PageSize
  OBVIOUS
<1>1. n \in Nat /\ n > 0 /\ LowCutoff \in Nat /\ HighLimit \in Nat
  BY <1>0, MemMapAssumption
<1>2. d.start \in Nat /\ d.pages \in Nat
  BY DEF Descriptor
<1>3. d.pages * n \in Nat
  BY <1>0, <1>2, Multiples
<1>4. PICK x, y : /\ x = (IF d.start < LowCutoff THEN LowCutoff ELSE d.start)
                  /\ y = (IF d.start + d.pages * n > HighLimit THEN HighLimit
                          ELSE d.start + d.pages * n)
  OBVIOUS
<1>5. x \in Nat /\ y \in Nat /\ x + n - 1 \in Nat
  BY <1>1, <1>2, <1>3, <1>4
<1>6. PICK b, e : b = (x + n - 1) \div n /\ e = y \div n
  OBVIOUS
<1>7. /\ b \in Nat /\ b * n <= x + n - 1 /\ x + n - 1 < b * n + n
      /\ ClippedBegin(d) = b * n
  BY <1>0, <1>4, <1>5, <1>6, AlignDownFacts DEF ClippedBegin, AlignUp
<1>8. e \in Nat /\ e * n <= y /\ y < e * n + n /\ ClippedEnd(d) = e * n
  BY <1>0, <1>4, <1>5, <1>6, AlignDownFacts DEF ClippedEnd
<1>9. b * n \in Nat /\ e * n \in Nat
  BY <1>0, <1>7, <1>8, Multiples
<1>10. x <= b * n /\ b * n < x + n
  BY <1>1, <1>5, <1>7, <1>9
<1>11. ASSUME NEW p \in Nat PROVE Usable(d, p) <=> b <= p /\ p < e
  <2>1. p * n \in Nat /\ (p + 1) * n = p * n + n
    BY <1>0, Multiples
  <2>2. Usable(d, p) <=> x <= p * n /\ p * n + n <= y
    <3>1. Usable(d, p) <=> /\ LowCutoff <= p * n /\ p * n + n <= HighLimit
                           /\ d.start <= p * n /\ p * n + n <= d.start + d.pages * n
      BY <1>0, <2>1 DEF Usable, Covers
    <3> QED BY <1>1, <1>2, <1>3, <1>4, <2>1, <3>1
  <2>3. x <= p * n <=> b <= p
    <3>1. b <= p => b * n <= p * n
      BY <1>0, <1>7, Multiples
    <3>2. p < b => p * n + n <= b * n
      BY <1>0, <1>7, Multiples
    <3>3. b <= p \/ p < b
      BY <1>7
    <3> QED BY <1>1, <1>5, <1>7, <1>9, <1>10, <2>1, <3>1, <3>2, <3>3
  <2>4. p * n + n <= y <=> p < e
    <3>1. p < e => p * n + n <= e * n
      BY <1>0, <1>8, Multiples
    <3>2. e <= p => e * n <= p * n
      BY <1>0, <1>8, Multiples
    <3>3. e <= p \/ p < e
      BY <1>8
    <3> QED BY <1>1, <1>5, <1>8, <1>9, <2>1, <3>1, <3>2, <3>3
  <2> QED BY <2>2, <2>3, <2>4
<1>12. Clipped(d).pages = IF e <= b THEN 0 ELSE e - b
  <2>1. e * n <= b * n <=> e <= b
    <3>1. e <= b => e * n <= b * n
      BY <1>0, <1>7, <1>8, Multiples
    <3>2. b < e => b * n + n <= e * n
      BY <1>0, <1>7, <1>8, Multiples
    <3>3. e <= b \/ b < e
      BY <1>7, <1>8
    <3> QED BY <1>1, <1>7, <1>8, <1>9, <3>1, <3>2, <3>3
  <2>2. e * n - b * n = (e - b) * n
    BY <1>1, <1>7, <1>8
  <2>3. ~(e <= b) => ((e - b) * n) \div n = e - b
    <3>1. ~(e <= b) => e - b \in Nat
      BY <1>7, <1>8
    <3> QED BY <1>0, <3>1, PageOfMultiple
  <2>4. Clipped(d).pages = IF e * n <= b * n THEN 0 ELSE (e * n - b * n) \div n
    BY <1>0, <1>7, <1>8 DEF Clipped
  <2> QED BY <2>1, <2>2, <2>3, <2>4
<1>13. Clipped(d) = [begin |-> b * n, end |-> e * n, pages |-> IF e <= b THEN 0 ELSE e - b]
  <2>1. Clipped(d) = [begin |-> ClippedBegin(d), end |-> ClippedEnd(d),
                      pages |-> Clipped(d).pages]
    BY DEF Clipped
  <2> QED BY <1>7, <1>8, <1>12, <2>1
<1> QED BY <1>0, <1>7, <1>8, <1>11, <1>13

-----------------------------------------------------------------------------
(* The invariant *)

CountsOf(map) ==
    /\ regions = Cardinality(Conventional(map))
    /\ pages = PageCount(map)

MapInv ==
    /\ pc \in {"exit1", "exit2", "search", "ready"} => CountsOf(captured)
    /\ pc \in {"exit1", "exit2", "search", "ready"} /\ ~stale => captured = firmware
    /\ Exited => ~stale

BestInv ==
    /\ ~Exited => index = 1 /\ best = NoRegion
    /\ index >= 1
    /\ best # NoRegion =>
         \E j \in Conventional(captured) : best = Clipped(captured[j]) /\ best.pages > 0
    /\ \A j \in Conventional(captured) : j < index => Clipped(captured[j]).pages <= best.pages

ListInv ==
    /\ pc # "ready" => freeList = <<>>
    /\ pc = "ready" =>
         /\ index > Len(captured)
         /\ freeList = Descending(best.begin \div PageSize, best.end \div PageSize)

MInv == TypeOK /\ MapInv /\ BestInv /\ ListInv

LEMMA MapFacts ==
  ASSUME NEW map \in Maps \cup {<<>>}
  PROVE  /\ map \in Seq(Descriptor) /\ Len(map) \in Nat /\ DOMAIN map = 1..Len(map)
         /\ \A i \in DOMAIN map : map[i] \in Descriptor
         /\ Conventional(map) \subseteq DOMAIN map /\ IsFiniteSet(Conventional(map))
         /\ Cardinality(Conventional(map)) \in Nat
         /\ PageCount(map) \in Nat
<1>1. map \in Seq(Descriptor)
  <2>1. <<>> \in Seq(Descriptor)
    OBVIOUS
  <2> QED BY <2>1, MemMapAssumption DEF Descriptor
<1>2. Len(map) \in Nat /\ DOMAIN map = 1..Len(map) /\ \A i \in DOMAIN map : map[i] \in Descriptor
  BY <1>1, ListFacts, ElementOfSeq
<1>3. Conventional(map) \subseteq DOMAIN map
  BY DEF Conventional
<1>4. IsFiniteSet(1..Len(map))
  BY <1>2, FS_Interval
<1>5. IsFiniteSet(Conventional(map)) /\ Cardinality(Conventional(map)) \in Nat
  BY <1>2, <1>3, <1>4, FS_Subset, FS_CardinalityType
<1>6. \A i \in Conventional(map) : map[i].pages \in Nat
  BY <1>2, <1>3 DEF Descriptor
<1>7. PageCount(map) \in Nat
  BY <1>5, <1>6, PageCountIsNat
<1> QED BY <1>1, <1>2, <1>3, <1>5, <1>7

(* A region that was chosen, as numbers of pages. *)
LEMMA RegionFacts ==
  ASSUME NEW d \in Descriptor
  PROVE  /\ Clipped(d) \in [begin : Nat, end : Nat, pages : Nat]
         /\ Clipped(d).pages > 0 => Clipped(d).begin <= Clipped(d).end
<1>1. PICK b, e \in Nat : Clipped(d) = [begin |-> b * PageSize, end |-> e * PageSize,
                                        pages |-> IF e <= b THEN 0 ELSE e - b]
  BY ClippedFacts
<1>2. b * PageSize \in Nat /\ e * PageSize \in Nat /\ (b <= e => b * PageSize <= e * PageSize)
  BY Multiples
<1>3. (IF e <= b THEN 0 ELSE e - b) \in Nat
  OBVIOUS
<1>4. Clipped(d) \in [begin : Nat, end : Nat, pages : Nat]
  BY <1>1, <1>2, <1>3
<1>5. Clipped(d).pages > 0 => b <= e
  BY <1>1
<1> QED BY <1>1, <1>2, <1>4, <1>5

LEMMA InitMInv == Init => MInv
<1> SUFFICES ASSUME Init PROVE MInv
  OBVIOUS
<1>1. TypeOK
  <2>1. <<>> \in Seq(Nat) /\ NoRegion.begin <= NoRegion.end
    BY DEF NoRegion
  <2>2. NoRegion \in [begin : Nat, end : Nat, pages : Nat]
    BY DEF NoRegion
  <2> QED BY <2>1, <2>2 DEF Init, TypeOK
<1>2. MapInv
  BY DEF Init, MapInv, Exited
<1>3. Conventional(captured) = {}
  BY MapFacts DEF Init, Conventional
<1>4. BestInv
  BY <1>3 DEF Init, BestInv
<1>5. ListInv
  BY DEF Init, ListInv
<1> QED BY <1>1, <1>2, <1>4, <1>5 DEF MInv

LEMMA FirmwareChangesInv == ASSUME MInv, FirmwareChanges PROVE MInv'
<1>1. /\ pc \in {"get1", "exit1", "get2", "exit2"} /\ firmware' \in Maps /\ stale' = TRUE
      /\ UNCHANGED <<captured, regions, pages, pc, index, best, freeList>>
  BY DEF FirmwareChanges
<1>2. TypeOK'
  BY <1>1 DEF MInv, TypeOK
<1>3. MapInv'
  BY <1>1 DEF MInv, MapInv, Exited, CountsOf
<1>4. BestInv' /\ ListInv'
  BY <1>1 DEF MInv, BestInv, ListInv, Exited
<1> QED BY <1>2, <1>3, <1>4 DEF MInv

LEMMA GetMapInv ==
  ASSUME MInv, NEW step, NEW next, step \in {"get1", "get2"}, next \in {"exit1", "exit2"},
         GetMap(step, next)
  PROVE  MInv'
<1>1. TypeOK /\ pc \in {"get1", "get2"} /\ UNCHANGED <<firmware, index, best, freeList>>
  BY DEF MInv, GetMap
<1>2. index = 1 /\ best = NoRegion /\ freeList = <<>>
  BY <1>1 DEF MInv, BestInv, ListInv, Exited
<1>3. pc' \in {"exit1", "exit2", "halted"}
  BY DEF GetMap
<1>4. BestInv' /\ ListInv'
  <2>1. captured' \in Maps \cup {<<>>}
    BY <1>1 DEF GetMap, TypeOK
  <2>2. \A j \in Conventional(captured') : ~(j < 1)
    BY <2>1, MapFacts
  <2> QED BY <1>1, <1>2, <1>3, <2>2 DEF BestInv, ListInv
<1>5. CASE pc' = "halted" /\ UNCHANGED <<captured, stale, regions, pages>>
  BY <1>1, <1>4, <1>5 DEF MInv, TypeOK, MapInv, Exited
<1>6. CASE captured' = firmware /\ stale' = FALSE /\ memmap_parse(firmware) /\ pc' = next
  <2>1. firmware \in Maps
    BY <1>1 DEF TypeOK
  <2>2. regions' \in Nat /\ pages' \in Nat
    BY <1>6, <2>1, MapFacts DEF memmap_parse
  <2>3. TypeOK'
    BY <1>1, <1>6, <2>1, <2>2 DEF TypeOK
  <2>4. MapInv'
    BY <1>1, <1>3, <1>6 DEF MapInv, CountsOf, memmap_parse, Exited
  <2> QED BY <1>4, <2>3, <2>4 DEF MInv
<1> QED BY <1>5, <1>6 DEF GetMap

LEMMA ExitInv ==
  ASSUME MInv, NEW step, step \in {"exit1", "exit2"}, ExitBootServices(step)
  PROVE  MInv'
<1>1. /\ pc \in {"exit1", "exit2"}
      /\ UNCHANGED <<firmware, captured, stale, regions, pages, index, best, freeList>>
      /\ \/ ~stale /\ pc' = "search"
         \/ pc' \in {"get2", "halted"}
  BY DEF ExitBootServices, Accepted, Refused
<1>2. TypeOK'
  BY <1>1 DEF MInv, TypeOK
<1>3. MapInv'
  BY <1>1 DEF MInv, MapInv, CountsOf, Exited
<1>4. BestInv' /\ ListInv'
  BY <1>1 DEF MInv, BestInv, ListInv, Exited
<1> QED BY <1>2, <1>3, <1>4 DEF MInv

LEMMA SearchRegionInv == ASSUME MInv, SearchRegion PROVE MInv'
<1>1. /\ TypeOK /\ pc = "search" /\ index <= Len(captured) /\ index' = index + 1
      /\ UNCHANGED <<firmware, captured, stale, regions, pages, pc, freeList>>
  BY DEF MInv, SearchRegion
<1>2. captured \in Maps \cup {<<>>} /\ index \in Nat /\ index >= 1
  BY <1>1 DEF MInv, TypeOK, BestInv
<1>3. index \in DOMAIN captured /\ captured[index] \in Descriptor
  BY <1>1, <1>2, MapFacts
<1>4. PICK d, c : d = captured[index] /\ c = Clipped(d)
  OBVIOUS
<1>5. /\ best' = IF d.conventional /\ c.pages > best.pages THEN c ELSE best
      /\ d.conventional <=> index \in Conventional(captured)
  BY <1>3, <1>4 DEF SearchRegion, Better, Conventional
<1>6. /\ c \in [begin : Nat, end : Nat, pages : Nat] /\ (c.pages > 0 => c.begin <= c.end)
      /\ best \in [begin : Nat, end : Nat, pages : Nat] /\ best.begin <= best.end
      /\ best.pages \in Nat /\ c.pages \in Nat
  BY <1>1, <1>3, <1>4, RegionFacts DEF TypeOK
<1>7. /\ best' \in [begin : Nat, end : Nat, pages : Nat] /\ best'.begin <= best'.end
      /\ best.pages <= best'.pages
      /\ index \in Conventional(captured) => c.pages <= best'.pages
      /\ best' = best \/ (index \in Conventional(captured) /\ best' = c /\ c.pages > 0)
  BY <1>5, <1>6
<1>8. TypeOK'
  BY <1>1, <1>2, <1>7 DEF TypeOK
<1>9. MapInv' /\ ListInv'
  BY <1>1 DEF MInv, MapInv, ListInv, CountsOf, Exited
<1>10. BestInv'
  <2>1. best' # NoRegion =>
          \E j \in Conventional(captured) : best' = Clipped(captured[j]) /\ best'.pages > 0
    BY <1>4, <1>7 DEF MInv, BestInv
  <2>2. ASSUME NEW j \in Conventional(captured), j < index'
        PROVE  Clipped(captured[j]).pages <= best'.pages
    <3>1. j \in Nat /\ captured[j] \in Descriptor
      BY <1>2, MapFacts
    <3>2. Clipped(captured[j]).pages \in Nat
      BY <3>1, RegionFacts
    <3>3. CASE j = index
      BY <1>4, <1>7, <3>3
    <3>4. CASE j # index
      <4>1. Clipped(captured[j]).pages <= best.pages
        BY <1>1, <1>2, <2>2, <3>1, <3>4 DEF MInv, BestInv
      <4>2. best'.pages \in Nat
        BY <1>7
      <4> QED BY <1>6, <1>7, <3>2, <4>1, <4>2
    <3> QED BY <3>3, <3>4
  <2>3. index' >= 1 /\ Exited'
    BY <1>1, <1>2 DEF Exited
  <2> QED BY <1>1, <2>1, <2>2, <2>3 DEF BestInv
<1> QED BY <1>8, <1>9, <1>10 DEF MInv

LEMMA FillFreeListInv == ASSUME MInv, FillFreeList PROVE MInv'
<1>1. /\ TypeOK /\ pc = "search" /\ index > Len(captured) /\ pc' = "ready"
      /\ freeList' = Descending(best.begin \div PageSize, best.end \div PageSize)
      /\ UNCHANGED <<firmware, captured, stale, regions, pages, index, best>>
  BY DEF MInv, FillFreeList
<1>2. PICK b, e : b = best.begin \div PageSize /\ e = best.end \div PageSize
  OBVIOUS
<1>3. b \in Nat /\ e \in Nat
  BY <1>1, <1>2, AlignDownFacts DEF TypeOK
<1>4. freeList' \in Seq(Nat)
  <2>1. Descending(b, e) \in Seq(b..(e - 1))
    BY <1>3, DescendingFacts
  <2>2. b..(e - 1) \subseteq Nat
    BY <1>3
  <2> QED BY <1>1, <1>2, <2>1, <2>2, SeqMonotonic
<1>5. TypeOK'
  BY <1>1, <1>4 DEF TypeOK
<1>6. MapInv' /\ BestInv' /\ ListInv'
  BY <1>1 DEF MInv, MapInv, BestInv, ListInv, CountsOf, Exited
<1> QED BY <1>5, <1>6 DEF MInv

LEMMA NextMInv == MInv /\ [Next]_vars => MInv'
<1> SUFFICES ASSUME MInv, [Next]_vars PROVE MInv'
  OBVIOUS
<1>1. CASE FirmwareChanges
  BY <1>1, FirmwareChangesInv
<1>2. CASE GetMap("get1", "exit1") \/ GetMap("get2", "exit2")
  BY <1>2, GetMapInv
<1>3. CASE ExitBootServices("exit1") \/ ExitBootServices("exit2")
  BY <1>3, ExitInv
<1>4. CASE SearchRegion
  BY <1>4, SearchRegionInv
<1>5. CASE FillFreeList
  BY <1>5, FillFreeListInv
<1>6. CASE UNCHANGED vars
  BY <1>6 DEF vars, MInv, TypeOK, MapInv, BestInv, ListInv, CountsOf, Exited
<1> QED BY <1>1, <1>2, <1>3, <1>4, <1>5, <1>6 DEF Next, KernelStep

LEMMA SpecMInv == Spec => []MInv
BY InitMInv, NextMInv, PTL DEF Spec

(* The list that FillFreeList makes, as numbers of pages. *)
LEMMA FilledList ==
  ASSUME MInv, pc = "ready"
  PROVE  /\ captured = firmware
         /\ Len(freeList) = best.pages
         /\ freeList \in Seq(Nat)
         /\ \A i \in DOMAIN freeList :
              \E j \in Conventional(firmware) : Usable(firmware[j], freeList[i])
<1>1. /\ captured = firmware /\ freeList \in Seq(Nat) /\ firmware \in Maps
      /\ freeList = Descending(best.begin \div PageSize, best.end \div PageSize)
  BY DEF MInv, TypeOK, MapInv, ListInv, Exited
<1>2. CASE best = NoRegion
  <2>1. best.begin = 0 /\ best.end = 0 /\ best.pages = 0
    BY <1>2 DEF NoRegion
  <2>2. 0 \div PageSize = 0
    <3>1. 0 * PageSize = 0
      BY MemMapAssumption
    <3> QED BY <3>1, PageOfMultiple
  <2>3. freeList = Descending(0, 0)
    BY <1>1, <2>1, <2>2
  <2>4. Len(freeList) = 0
    BY <2>3, DescendingFacts
  <2>5. DOMAIN freeList = {}
    BY <1>1, <2>4, ListFacts
  <2> QED BY <1>1, <2>1, <2>4, <2>5
<1>3. CASE best # NoRegion
  <2>1. PICK j \in Conventional(captured) : best = Clipped(captured[j]) /\ best.pages > 0
    BY <1>3 DEF MInv, BestInv
  <2>2. PICK d : d = firmware[j]
    OBVIOUS
  <2>3. d \in Descriptor /\ best = Clipped(d) /\ j \in Conventional(firmware)
    BY <1>1, <2>1, <2>2, MapFacts
  <2>4. PICK b, e \in Nat :
           /\ Clipped(d) = [begin |-> b * PageSize, end |-> e * PageSize,
                            pages |-> IF e <= b THEN 0 ELSE e - b]
           /\ \A p \in Nat : Usable(d, p) <=> b <= p /\ p < e
    BY <2>3, ClippedFacts
  <2>5. best.begin \div PageSize = b /\ best.end \div PageSize = e
    <3>1. best.begin = b * PageSize /\ best.end = e * PageSize
      BY <2>3, <2>4
    <3> QED BY <3>1, PageOfMultiple
  <2>6. freeList = Descending(b, e)
    BY <1>1, <2>5
  <2>7. PICK n : n = IF b < e THEN e - b ELSE 0
    OBVIOUS
  <2>8. Len(freeList) = n
    <3>1. Len(Descending(b, e)) = n
      BY <2>7, DescendingFacts
    <3> QED BY <2>6, <3>1
  <2>9. best.pages = n
    <3>1. best.pages = IF e <= b THEN 0 ELSE e - b
      BY <2>3, <2>4
    <3> QED BY <2>7, <3>1
  <2>10. ASSUME NEW i \in DOMAIN freeList PROVE Usable(d, freeList[i])
    <3>1. freeList \in Seq(b..(e - 1))
      BY <2>6, DescendingFacts
    <3>2. PICK p : p = freeList[i]
      OBVIOUS
    <3>3. p \in b..(e - 1)
      BY <3>1, <3>2, ListFacts, ElementOfSeq
    <3>4. p \in Nat /\ b <= p /\ p < e
      BY <3>3
    <3> QED BY <2>4, <3>2, <3>4
  <2> QED BY <1>1, <2>2, <2>3, <2>8, <2>9, <2>10
<1> QED BY <1>2, <1>3

LEMMA MInvKnown == MInv => FinalMapKnown
BY DEF MInv, MapInv, FinalMapKnown, CountsOfFinalMap, CountsOf, Exited

LEMMA MInvRegion == MInv => RegionRight
<1> SUFFICES ASSUME MInv PROVE RegionRight
  OBVIOUS
<1>1. FreePagesAreMemory
  <2>1. CASE pc = "ready"
    BY <2>1, FilledList DEF FreePagesAreMemory, Usable
  <2>2. CASE pc # "ready"
    <3>1. freeList = <<>>
      BY <2>2 DEF MInv, ListInv
    <3>2. DOMAIN freeList = {}
      BY <3>1
    <3> QED BY <3>2 DEF FreePagesAreMemory
  <2> QED BY <2>1, <2>2
<1>2. LargestRegionTaken
  <2> SUFFICES ASSUME pc = "ready", NEW j \in Conventional(firmware)
               PROVE  Cardinality({p \in (LowCutoff \div PageSize)..(HighLimit \div PageSize) :
                                     /\ LowCutoff <= p * PageSize
                                     /\ (p + 1) * PageSize <= HighLimit
                                     /\ Covers(firmware[j], p)}) <= Len(freeList)
    BY DEF LargestRegionTaken
  <2>1. /\ captured = firmware /\ Len(freeList) = best.pages /\ firmware \in Maps
        /\ best.pages \in Nat /\ index \in Nat
    BY FilledList DEF MInv, TypeOK
  <2>2. j \in 1..Len(firmware) /\ firmware[j] \in Descriptor /\ Len(firmware) \in Nat
    BY <2>1, MapFacts
  <2>3. j < index
    <3>1. index > Len(firmware)
      BY <2>1 DEF MInv, ListInv
    <3> QED BY <2>1, <2>2, <3>1
  <2>4. PICK d : d = firmware[j]
    OBVIOUS
  <2>5. Clipped(d).pages <= best.pages
    BY <2>1, <2>3, <2>4 DEF MInv, BestInv
  <2>6. PICK b, e \in Nat :
           /\ Clipped(d) = [begin |-> b * PageSize, end |-> e * PageSize,
                            pages |-> IF e <= b THEN 0 ELSE e - b]
           /\ \A p \in Nat : Usable(d, p) <=> b <= p /\ p < e
    BY <2>2, <2>4, ClippedFacts
  <2> DEFINE P == {p \in (LowCutoff \div PageSize)..(HighLimit \div PageSize) : Usable(d, p)}
  <2>7. P \subseteq b..(e - 1)
    <3> SUFFICES ASSUME NEW p \in P PROVE p \in b..(e - 1)
      OBVIOUS
    <3>1. LowCutoff \div PageSize \in Nat
      BY MemMapAssumption, AlignDownFacts
    <3>2. PICK lo : lo = LowCutoff \div PageSize
      OBVIOUS
    <3>3. PICK hi : hi = HighLimit \div PageSize
      OBVIOUS
    <3>4. HighLimit \div PageSize \in Nat
      BY MemMapAssumption, AlignDownFacts
    <3>5. p \in lo..hi /\ lo \in Nat /\ hi \in Nat /\ Usable(d, p)
      BY <3>1, <3>2, <3>3, <3>4
    <3>6. p \in Nat
      BY <3>5
    <3>7. b <= p /\ p < e
      BY <2>6, <3>5, <3>6
    <3> QED BY <3>6, <3>7
  <2> HIDE DEF P
  <2>8. /\ IsFiniteSet(b..(e - 1))
        /\ Cardinality(b..(e - 1)) = IF b > e - 1 THEN 0 ELSE (e - 1) - b + 1
    BY FS_Interval
  <2>9. Cardinality(b..(e - 1)) = Clipped(d).pages
    <3>1. Clipped(d).pages = IF e <= b THEN 0 ELSE e - b
      BY <2>6
    <3> QED BY <2>8, <3>1
  <2>10. Cardinality(P) <= Cardinality(b..(e - 1)) /\ Cardinality(P) \in Nat
    BY <2>7, <2>8, FS_Subset, FS_CardinalityType
  <2>11. Cardinality(P) <= Len(freeList)
    <3>1. Clipped(d).pages \in Nat
      BY <2>2, <2>4, RegionFacts
    <3> QED BY <2>1, <2>5, <2>9, <2>10, <3>1
  <2> QED BY <2>4, <2>11 DEF P, Usable
<1> QED BY <1>1, <1>2 DEF RegionRight

-----------------------------------------------------------------------------
(* Once ExitBootServices has succeeded, the region and page counts are     *)
(* those of the firmware's last map, also if it changed its map after the  *)
(* first GetMemoryMap or between any two calls.                            *)
THEOREM FinalMapIsKnown == Spec => []FinalMapKnown
<1>1. MInv => FinalMapKnown
  BY MInvKnown
<1>2. Spec => []MInv
  BY SpecMInv
<1> QED BY <1>1, <1>2, PTL

(* palloc_initialize hands the allocator only pages that this map calls    *)
(* memory and that lie between the limits, and no descriptor has more of   *)
(* them than the list: memmap_find_largest_conventional_region clips,      *)
(* aligns and compares right for every map.                                *)
THEOREM RegionIsRight == Spec => []RegionRight
<1>1. MInv => RegionRight
  BY MInvRegion
<1>2. Spec => []MInv
  BY SpecMInv
<1> QED BY <1>1, <1>2, PTL
=============================================================================
