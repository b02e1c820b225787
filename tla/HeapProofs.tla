----------------------------- MODULE HeapProofs -----------------------------
(***************************************************************************)
(* The page allocator and the heap that grows from it, for a region of any *)
(* size, any alignment, header and page size, and any sequence of calls.   *)
(***************************************************************************)
EXTENDS Heap, PageListProofs, FiniteSetTheorems

-----------------------------------------------------------------------------
(* The page allocator.  TypeOK, no repetition and the counter's exactness  *)
(* are inductive together with Split: a page is either listed or held,     *)
(* never both.                                                             *)

(* What makes Free and Take safe: held pages are not listed. *)
Split == held \cap ToSet(freeList) = {}

IInv == TypeOK /\ NoPageListedTwice /\ CountIsLength /\ Split

(* palloc_initialize sets up the list. *)
LEMMA InitInv == Init => IInv /\ Abstract!AbsInit
<1> SUFFICES ASSUME Init PROVE IInv /\ Abstract!AbsInit
  OBVIOUS
<1>1. /\ freeList \in Seq(1..((NumPages + 1) - 1))
      /\ ToSet(freeList) = 1..((NumPages + 1) - 1)
      /\ IsInjective(freeList)
      /\ Len(freeList) = IF 1 < NumPages + 1 THEN (NumPages + 1) - 1 ELSE 0
  <2>1. freeList = Descending(1, NumPages + 1)
    BY DEF Init, palloc_initialize
  <2>2. 1 \in Int /\ NumPages + 1 \in Int
    BY NumPagesAssumption
  <2> QED BY <2>1, <2>2, DescendingFacts
<1>2. (NumPages + 1) - 1 = NumPages
  BY NumPagesAssumption
<1>3. Len(freeList) = NumPages
  BY <1>1, NumPagesAssumption
<1>4. ToSet(freeList) = Pages /\ freeList \in Seq(Pages)
  BY <1>1, <1>2 DEF Pages
<1>5. IInv
  BY <1>1, <1>3, <1>4, NumPagesAssumption
     DEF Init, IInv, TypeOK, NoPageListedTwice, CountIsLength, Split
<1>6. Abstract!AbsInit
  BY <1>4 DEF Init, Abstract!AbsInit
<1> QED BY <1>5, <1>6

(* Every operation keeps the invariant and is a step of the abstract       *)
(* allocator.                                                              *)
LEMMA StepInv == IInv /\ [Next]_vars => IInv' /\ [Abstract!AbsNext]_(Abstract!absVars)
<1> SUFFICES ASSUME IInv, [Next]_vars
             PROVE  IInv' /\ [Abstract!AbsNext]_(Abstract!absVars)
  OBVIOUS
<1>1. /\ freeList \in Seq(Pages) /\ IsInjective(freeList)
      /\ free_page_count = Len(freeList) /\ free_page_count \in Int
      /\ held \subseteq Pages /\ held \cap ToSet(freeList) = {}
  BY DEF IInv, TypeOK, NoPageListedTwice, CountIsLength, Split
<1>2. Len(freeList) \in Nat /\ ToSet(freeList) \subseteq Pages
  BY <1>1, ListFacts
<1>3. CASE Alloc
  <2> DEFINE p == palloc_alloc(freeList)
  <2>1. freeList # <<>>
    BY <1>3 DEF Alloc, palloc_alloc
  <2>2. /\ p \in ToSet(freeList)
        /\ freeList' \in Seq(Pages)
        /\ Len(freeList') = Len(freeList) - 1
        /\ IsInjective(freeList')
        /\ ToSet(freeList') = ToSet(freeList) \ {p}
    BY <1>1, <1>3, <2>1, AllocFacts DEF Alloc
  <2>3. held' = held \cup {p} /\ free_page_count' = free_page_count - 1
    BY <1>3 DEF Alloc
  <2> HIDE DEF p
  <2>4. IInv'
    BY <1>1, <1>2, <2>2, <2>3 DEF IInv, TypeOK, NoPageListedTwice, CountIsLength, Split
  <2>5. Abstract!Acquire(p)
    BY <2>2, <2>3 DEF Abstract!Acquire
  <2> QED BY <2>2, <2>4, <2>5, <1>2 DEF Abstract!AbsNext
<1>4. ASSUME NEW p \in Pages, Free(p)
      PROVE  IInv' /\ [Abstract!AbsNext]_(Abstract!absVars)
  <2>1. p # Null
    BY NumPagesAssumption DEF Pages, Null
  <2>2. p \notin ToSet(freeList) /\ p \in held
    BY <1>1, <1>4 DEF Free
  <2>3. /\ freeList' \in Seq(Pages)
        /\ Len(freeList') = Len(freeList) + 1
        /\ IsInjective(freeList')
        /\ ToSet(freeList') = ToSet(freeList) \cup {p}
    BY <1>1, <1>4, <2>1, <2>2, FreeFacts DEF Free
  <2>4. held' = held \ {p} /\ free_page_count' = free_page_count + 1
    BY <1>4 DEF Free
  <2>5. IInv'
    BY <1>1, <1>2, <2>2, <2>3, <2>4
       DEF IInv, TypeOK, NoPageListedTwice, CountIsLength, Split
  <2>6. Abstract!GiveBack(p)
    BY <2>2, <2>3, <2>4 DEF Abstract!GiveBack
  <2> QED BY <2>5, <2>6 DEF Abstract!AbsNext
<1>5. ASSUME NEW p \in Pages, Take(p)
      PROVE  IInv' /\ [Abstract!AbsNext]_(Abstract!absVars)
  <2>1. p \in ToSet(freeList)
    BY <1>5 DEF Take, Listed, ToSet
  <2>2. /\ freeList' \in Seq(Pages)
        /\ Len(freeList') = Len(freeList) - 1
        /\ IsInjective(freeList')
        /\ ToSet(freeList') = ToSet(freeList) \ {p}
    BY <1>1, <1>5, <2>1, TakeFacts DEF Take
  <2>3. held' = held \cup {p} /\ free_page_count' = free_page_count - 1
    BY <1>5 DEF Take
  <2>4. IInv'
    BY <1>1, <1>2, <2>2, <2>3 DEF IInv, TypeOK, NoPageListedTwice, CountIsLength, Split
  <2>5. Abstract!Acquire(p)
    BY <2>1, <2>2, <2>3 DEF Abstract!Acquire
  <2> QED BY <2>4, <2>5 DEF Abstract!AbsNext
<1>6. CASE UNCHANGED vars
  BY <1>1, <1>6 DEF vars, IInv, TypeOK, NoPageListedTwice, CountIsLength, Split,
                    Abstract!absVars
<1> QED BY <1>3, <1>4, <1>5, <1>6 DEF Next

(* The list stays a list of pages of the region, palloc.c never links a    *)
(* page twice, and free_page_count is the length of the list, for every    *)
(* region size and every sequence of alloc, free and take.                 *)
THEOREM ListSafe == Spec => []ListSound
<1>1. IInv => ListSound
  BY DEF IInv, ListSound
<1>2. Init => IInv
  BY InitInv
<1>3. IInv /\ [Next]_vars => IInv'
  BY StepInv
<1> QED BY <1>1, <1>2, <1>3, PTL DEF Spec

(* palloc.c implements the abstract allocator: only free pages are handed  *)
(* out, and a held page stays held until it is given back.                 *)
THEOREM PallocRefines == Spec => AbstractSpec
<1>1. Init => IInv /\ Abstract!AbsInit
  BY InitInv
<1>2. IInv /\ [Next]_vars => IInv' /\ [Abstract!AbsNext]_(Abstract!absVars)
  BY StepInv
<1> QED BY <1>1, <1>2, PTL DEF Spec, AbstractSpec, Abstract!AbsSpec

-----------------------------------------------------------------------------
(* Lists of blocks.  Every operation of heap.c on its list replaces the    *)
(* blocks i..j by a few new ones.                                          *)

Splice(L, i, j, M) == SubSeq(L, 1, i - 1) \o M \o SubSeq(L, j + 1, Len(L))

LEMMA SubSeqIs ==
  ASSUME NEW S, NEW L \in Seq(S), NEW a \in Int, NEW b \in Int, 1 <= a, a <= b + 1, b <= Len(L)
  PROVE  /\ SubSeq(L, a, b) \in Seq(S)
         /\ Len(SubSeq(L, a, b)) = b - a + 1
         /\ \A k \in 1..(b - a + 1) : SubSeq(L, a, b)[k] = L[a + k - 1]
<1>1. Len(L) \in Nat
  BY LenProperties
<1>2. \A k \in a..b : L[k] \in S
  BY <1>1, ElementOfSeq
<1>3. PICK t : t = SubSeq(L, a, b)
  OBVIOUS
<1>4. /\ t \in Seq(S) /\ Len(t) = IF a <= b THEN b - a + 1 ELSE 0
      /\ \A k \in 1..(b - a + 1) : t[k] = L[a + k - 1]
  BY <1>2, <1>3, SubSeqProperties
<1>5. Len(t) = b - a + 1
  BY <1>4
<1> QED BY <1>3, <1>4, <1>5

LEMMA SpliceFacts ==
  ASSUME NEW S, NEW L \in Seq(S), NEW M \in Seq(S), NEW i \in Int, NEW j \in Int,
         1 <= i, i <= j + 1, j <= Len(L)
  PROVE  /\ Splice(L, i, j, M) \in Seq(S)
         /\ Len(L) \in Nat /\ Len(M) \in Nat
         /\ Len(Splice(L, i, j, M)) = (i - 1) + Len(M) + (Len(L) - j)
         /\ DOMAIN Splice(L, i, j, M) = 1..((i - 1) + Len(M) + (Len(L) - j))
         /\ \A k \in 1..((i - 1) + Len(M) + (Len(L) - j)) :
               Splice(L, i, j, M)[k] = IF k < i THEN L[k]
                                       ELSE IF k < i + Len(M) THEN M[k - i + 1]
                                       ELSE L[k - (i - 1) - Len(M) + j]
<1>1. PICK n, m : n = Len(L) /\ m = Len(M)
  OBVIOUS
<1>2. n \in Nat /\ m \in Nat /\ j <= n
  BY <1>1, LenProperties
<1>3. PICK f, g : f = SubSeq(L, 1, i - 1) /\ g = SubSeq(L, j + 1, n)
  OBVIOUS
<1>4. f \in Seq(S) /\ Len(f) = i - 1 /\ \A k \in 1..(i - 1) : f[k] = L[k]
  <2>1. i - 1 \in Int /\ 1 \in Int /\ 1 <= (i - 1) + 1 /\ i - 1 <= Len(L)
    BY <1>1, <1>2
  <2>2. /\ f \in Seq(S) /\ Len(f) = (i - 1) - 1 + 1
        /\ \A k \in 1..((i - 1) - 1 + 1) : f[k] = L[1 + k - 1]
    BY <1>3, <2>1, SubSeqIs
  <2> QED BY <2>2
<1>5. g \in Seq(S) /\ Len(g) = n - j /\ \A k \in 1..(n - j) : g[k] = L[j + k]
  <2>1. j + 1 \in Int /\ n \in Int /\ 1 <= j + 1 /\ j + 1 <= n + 1 /\ n <= Len(L)
    BY <1>1, <1>2
  <2>2. /\ g \in Seq(S) /\ Len(g) = n - (j + 1) + 1
        /\ \A k \in 1..(n - (j + 1) + 1) : g[k] = L[(j + 1) + k - 1]
    BY <1>3, <2>1, SubSeqIs
  <2>3. n - (j + 1) + 1 = n - j /\ \A k \in 1..(n - j) : (j + 1) + k - 1 = j + k
    BY <1>2
  <2> QED BY <2>2, <2>3
<1>6. PICK h : h = f \o M
  OBVIOUS
<1>7. /\ h \in Seq(S) /\ Len(h) = (i - 1) + m
      /\ \A k \in 1..((i - 1) + m) : h[k] = IF k <= i - 1 THEN f[k] ELSE M[k - (i - 1)]
  <2>1. /\ f \o M \in Seq(S) /\ Len(f \o M) = Len(f) + Len(M)
        /\ \A k \in 1..(Len(f) + Len(M)) :
              (f \o M)[k] = IF k <= Len(f) THEN f[k] ELSE M[k - Len(f)]
    BY <1>4, ConcatProperties, Zenon
  <2>2. Len(f) = i - 1 /\ Len(M) = m
    BY <1>1, <1>4
  <2>3. /\ h \in Seq(S) /\ Len(h) = Len(f) + Len(M)
        /\ \A k \in 1..(Len(f) + Len(M)) : h[k] = IF k <= Len(f) THEN f[k] ELSE M[k - Len(f)]
    BY <1>6, <2>1, Zenon
  <2> QED BY <2>2, <2>3, Zenon
<1>8. PICK r : r = h \o g
  OBVIOUS
<1>9. /\ r \in Seq(S) /\ Len(r) = ((i - 1) + m) + (n - j)
      /\ \A k \in 1..(((i - 1) + m) + (n - j)) :
            r[k] = IF k <= (i - 1) + m THEN h[k] ELSE g[k - ((i - 1) + m)]
  <2>1. /\ h \o g \in Seq(S) /\ Len(h \o g) = Len(h) + Len(g)
        /\ \A k \in 1..(Len(h) + Len(g)) :
              (h \o g)[k] = IF k <= Len(h) THEN h[k] ELSE g[k - Len(h)]
    BY <1>5, <1>7, ConcatProperties, Zenon
  <2>2. Len(h) = (i - 1) + m /\ Len(g) = n - j
    BY <1>5, <1>7
  <2>3. /\ r \in Seq(S) /\ Len(r) = Len(h) + Len(g)
        /\ \A k \in 1..(Len(h) + Len(g)) : r[k] = IF k <= Len(h) THEN h[k] ELSE g[k - Len(h)]
    BY <1>8, <2>1, Zenon
  <2> QED BY <2>2, <2>3, Zenon
<1>10. r = Splice(L, i, j, M)
  BY <1>1, <1>3, <1>6, <1>8 DEF Splice
<1>11. ASSUME NEW k \in 1..((i - 1) + m + (n - j))
       PROVE  r[k] = IF k < i THEN L[k] ELSE IF k < i + m THEN M[k - i + 1]
                     ELSE L[k - (i - 1) - m + j]
  <2>1. CASE k < i
    <3>1. k \in 1..(i - 1) /\ k <= (i - 1) + m
      BY <1>2, <2>1
    <3> QED BY <1>2, <1>4, <1>7, <1>9, <2>1, <3>1
  <2>2. CASE k >= i /\ k < i + m
    <3>1. k \in 1..((i - 1) + m) /\ ~(k <= i - 1) /\ k - (i - 1) = k - i + 1
      BY <1>2, <2>2
    <3>2. h[k] = M[k - i + 1]
      BY <1>7, <3>1
    <3> QED BY <1>2, <1>9, <2>2, <3>2
  <2>3. CASE k >= i + m
    <3>1. PICK l : l = k - ((i - 1) + m)
      OBVIOUS
    <3>2. l \in 1..(n - j) /\ j + l = k - (i - 1) - m + j
      BY <1>2, <2>3, <3>1
    <3>3. r[k] = g[l]
      BY <1>2, <1>9, <2>3, <3>1
    <3>4. g[l] = L[j + l]
      BY <1>5, <3>2
    <3> QED BY <1>2, <2>3, <3>2, <3>3, <3>4
  <2> QED BY <2>1, <2>2, <2>3, <1>2
<1>12. Len(r) = (i - 1) + m + (n - j)
  BY <1>2, <1>9
<1>13. DOMAIN r = 1..((i - 1) + m + (n - j))
  BY <1>9, <1>12, LenProperties
<1> QED BY <1>1, <1>2, <1>9, <1>10, <1>11, <1>12, <1>13

-----------------------------------------------------------------------------
(* Numbers *)

LEMMA HeapConstants ==
  /\ Align \in Nat /\ Align > 0 /\ Header \in Nat /\ Header > 0 /\ PageSize \in Nat
  /\ Header % Align = 0 /\ PageSize % Align = 0 /\ Header + Align <= PageSize /\ PageSize > 0
BY HeapAssumption

LEMMA Multiple ==
  ASSUME NEW n \in Nat, n > 0, NEW a \in Nat, a % n = 0
  PROVE  \E k \in Nat : a = k * n
<1>1. a = n * (a \div n) + (a % n) /\ a \div n \in Nat
  OBVIOUS
<1>2. a = (a \div n) * n
  BY <1>1
<1> QED BY <1>1, <1>2

LEMMA MultiplesAdd ==
  ASSUME NEW n \in Nat, n > 0, NEW a \in Nat, NEW b \in Nat, a % n = 0, b % n = 0
  PROVE  (a + b) % n = 0 /\ (b <= a => (a - b) % n = 0)
<1>1. PICK k \in Nat : a = k * n
  BY Multiple
<1>2. PICK l \in Nat : b = l * n
  BY Multiple
<1>3. a + b = (k + l) * n /\ a - b = (k - l) * n
  BY <1>1, <1>2
<1>4. \A x \in Int : (x * n) % n = 0
  OBVIOUS
<1> QED BY <1>3, <1>4

(* The size that kmalloc looks for: aligned, and no less than asked for. *)
LEMMA AlignUpFacts ==
  ASSUME NEW s \in Nat, s > 0
  PROVE  align_up(s) \in Nat /\ align_up(s) % Align = 0 /\ s <= align_up(s)
<1>1. PICK n, q : n = Align /\ q = (s + n - 1) \div n
  OBVIOUS
<1>2. n \in Nat /\ n > 0
  BY <1>1, HeapConstants
<1>3. PICK t \in Nat : t = s + n - 1
  BY <1>2
<1>4. q \in Nat /\ t = n * q + (t % n) /\ t % n \in 0..(n - 1)
  BY <1>1, <1>2, <1>3
<1>5. n * q = q * n /\ q * n \in Nat /\ (q * n) % n = 0
  BY <1>2, <1>4
<1>6. s <= q * n
  BY <1>2, <1>3, <1>4, <1>5
<1>7. align_up(s) = q * n
  BY <1>1 DEF align_up
<1> QED BY <1>1, <1>5, <1>6, <1>7

(* The bytes of a page are those whose address is divided down to it. *)
LEMMA PageOfByte ==
  ASSUME NEW a \in Nat, NEW p \in Nat
  PROVE  /\ a \div PageSize \in Nat /\ p * PageSize \in Nat
         /\ a \div PageSize = p <=> p * PageSize <= a /\ a < p * PageSize + PageSize
<1>1. PICK n, q : n = PageSize /\ q = a \div n
  OBVIOUS
<1>2. n \in Nat /\ n > 0
  BY <1>1, HeapConstants
<1>3. q \in Nat /\ a = n * q + (a % n) /\ a % n \in 0..(n - 1) /\ n * q = q * n
  BY <1>1, <1>2
<1>4. p * n \in Nat /\ q * n \in Nat
  BY <1>2, <1>3
<1>5. q * n <= a /\ a < q * n + n
  BY <1>2, <1>3, <1>4
<1>6. p < q => p * n + n <= q * n
  <2>1. p + 1 <= q => (p + 1) * n <= q * n
    BY <1>2, <1>3
  <2>2. (p + 1) * n = p * n + n
    BY <1>2
  <2> QED BY <1>3, <2>1, <2>2
<1>7. q < p => q * n + n <= p * n
  <2>1. q + 1 <= p => (q + 1) * n <= p * n
    BY <1>2, <1>3
  <2>2. (q + 1) * n = q * n + n
    BY <1>2, <1>3
  <2> QED BY <1>3, <2>1, <2>2
<1>8. q = p <=> p * n <= a /\ a < p * n + n
  BY <1>2, <1>3, <1>4, <1>5, <1>6, <1>7
<1> QED BY <1>1, <1>3, <1>4, <1>8

-----------------------------------------------------------------------------
(* What a list of blocks is *)

SoundBlock == {b \in Block : b.addr % Align = 0 /\ b.size % Align = 0 /\ b.size > 0}
Sorted(L) == \A k, l \in DOMAIN L : k < l => block_end(L[k]) <= L[l].addr
Good(L) == L \in Seq(SoundBlock) /\ Sorted(L)

Spans(b, a) == b.addr <= a /\ a < block_end(b)
InUse(L) == {b \in ToSet(L) : ~b.free}

(* Neighbours that kfree would have merged. *)
Loose(b, c) == ~(b.free /\ c.free /\ blocks_touch(b, c))
Merged(L) == \A k \in 1..(Len(L) - 1) : Loose(L[k], L[k + 1])
MergedFrom(L, i) == \A k \in i..(Len(L) - 1) : Loose(L[k], L[k + 1])

LEMMA BlockFacts ==
  ASSUME NEW b \in SoundBlock
  PROVE  /\ b \in Block /\ b.addr \in Nat /\ b.size \in Nat /\ b.size > 0 /\ b.free \in BOOLEAN
         /\ b.addr % Align = 0 /\ b.size % Align = 0
         /\ Payload(b) = b.addr + Header /\ Payload(b) \in Nat
         /\ block_end(b) = Payload(b) + b.size /\ block_end(b) \in Nat
         /\ b.addr < Payload(b) /\ Payload(b) < block_end(b) /\ b.addr < block_end(b)
BY HeapConstants DEF SoundBlock, Block, Payload, block_end

LEMMA GoodFacts ==
  ASSUME NEW L, Good(L)
  PROVE  /\ L \in Seq(SoundBlock) /\ Len(L) \in Nat /\ DOMAIN L = 1..Len(L)
         /\ \A k \in 1..Len(L) : L[k] \in SoundBlock
         /\ \A k, l \in 1..Len(L) : k < l => block_end(L[k]) <= L[l].addr
         /\ ToSet(L) = {L[k] : k \in 1..Len(L)}
BY LenProperties, ElementOfSeq DEF Good, Sorted, ToSet

(* Blocks of a list share no byte. *)
LEMMA BlocksApart ==
  ASSUME NEW L, Good(L), NEW b \in ToSet(L), NEW c \in ToSet(L), b # c
  PROVE  /\ block_end(b) <= c.addr \/ block_end(c) <= b.addr
         /\ Payload(b) # Payload(c)
<1>1. PICK k, l \in 1..Len(L) : b = L[k] /\ c = L[l]
  BY GoodFacts
<1>2. k \in Int /\ l \in Int /\ k # l
  BY <1>1, GoodFacts
<1>3. b \in SoundBlock /\ c \in SoundBlock
  BY <1>1, GoodFacts
<1>4. block_end(b) <= c.addr \/ block_end(c) <= b.addr
  BY <1>1, <1>2, GoodFacts
<1>5. Payload(b) # Payload(c)
  BY <1>3, <1>4, BlockFacts, HeapConstants
<1> QED BY <1>4, <1>5

(* Where a block of the new list comes from. *)
LEMMA SpliceOrigin ==
  ASSUME NEW S, NEW L \in Seq(S), NEW M \in Seq(S), NEW i \in Int, NEW j \in Int,
         1 <= i, i <= j + 1, j <= Len(L),
         NEW k \in DOMAIN Splice(L, i, j, M)
  PROVE  \/ k \in 1..(i - 1) /\ Splice(L, i, j, M)[k] = L[k]
         \/ k - i + 1 \in 1..Len(M) /\ Splice(L, i, j, M)[k] = M[k - i + 1]
         \/ /\ k > i - 1 + Len(M) /\ k - (i - 1) - Len(M) + j \in (j + 1)..Len(L)
            /\ Splice(L, i, j, M)[k] = L[k - (i - 1) - Len(M) + j]
<1>1. PICK r, n, m : r = Splice(L, i, j, M) /\ n = Len(L) /\ m = Len(M)
  OBVIOUS
<1>2. /\ n \in Nat /\ m \in Nat /\ DOMAIN r = 1..((i - 1) + m + (n - j))
      /\ \A l \in 1..((i - 1) + m + (n - j)) :
               r[l] = IF l < i THEN L[l] ELSE IF l < i + m THEN M[l - i + 1]
                      ELSE L[l - (i - 1) - m + j]
  BY <1>1, SpliceFacts
<1>3. k \in 1..((i - 1) + m + (n - j))
  BY <1>1, <1>2
<1>4. CASE k < i
  BY <1>1, <1>2, <1>3, <1>4
<1>5. CASE k >= i /\ k < i + m
  BY <1>1, <1>2, <1>3, <1>5
<1>6. CASE k >= i + m
  <2>1. r[k] = L[k - (i - 1) - m + j]
    BY <1>2, <1>3, <1>6
  <2>2. k > i - 1 + m /\ k - (i - 1) - m + j \in (j + 1)..n
    BY <1>2, <1>3, <1>6
  <2> QED BY <1>1, <2>1, <2>2
<1> QED BY <1>2, <1>3, <1>4, <1>5, <1>6

LEMMA SpliceRange ==
  ASSUME NEW S, NEW L \in Seq(S), NEW M \in Seq(S), NEW i \in Int, NEW j \in Int,
         1 <= i, i <= j + 1, j <= Len(L)
  PROVE  ToSet(Splice(L, i, j, M))
           = {L[k] : k \in 1..(i - 1)} \cup ToSet(M) \cup {L[k] : k \in (j + 1)..Len(L)}
<1>1. PICK r, n, m : r = Splice(L, i, j, M) /\ n = Len(L) /\ m = Len(M)
  OBVIOUS
<1>2. /\ n \in Nat /\ m \in Nat /\ DOMAIN r = 1..((i - 1) + m + (n - j))
      /\ \A l \in 1..((i - 1) + m + (n - j)) :
               r[l] = IF l < i THEN L[l] ELSE IF l < i + m THEN M[l - i + 1]
                      ELSE L[l - (i - 1) - m + j]
  BY <1>1, SpliceFacts
<1>3. ToSet(M) = {M[k] : k \in 1..m} /\ ToSet(r) = {r[k] : k \in DOMAIN r}
  BY <1>1, LenProperties DEF ToSet
<1>4. ASSUME NEW k \in DOMAIN r
      PROVE  r[k] \in {L[l] : l \in 1..(i - 1)} \cup {M[l] : l \in 1..m} \cup {L[l] : l \in (j + 1)..n}
  BY <1>1, <1>4, SpliceOrigin
<1>5. ASSUME NEW k \in 1..(i - 1) PROVE L[k] \in ToSet(r)
  <2>1. k \in DOMAIN r /\ r[k] = L[k]
    BY <1>1, <1>2
  <2> QED BY <1>3, <2>1
<1>6. ASSUME NEW k \in 1..m PROVE M[k] \in ToSet(r)
  <2>1. PICK l : l = k + i - 1
    OBVIOUS
  <2>2. l \in 1..((i - 1) + m + (n - j)) /\ ~(l < i) /\ l < i + m /\ l - i + 1 = k
    BY <1>1, <1>2, <2>1
  <2>3. l \in DOMAIN r /\ r[l] = M[k]
    BY <1>2, <2>2
  <2> QED BY <1>3, <2>3
<1>7. ASSUME NEW k \in (j + 1)..n PROVE L[k] \in ToSet(r)
  <2>1. PICK l : l = k - j + (i - 1) + m
    OBVIOUS
  <2>2. l \in 1..((i - 1) + m + (n - j)) /\ ~(l < i) /\ ~(l < i + m) /\ l - (i - 1) - m + j = k
    BY <1>1, <1>2, <2>1
  <2>3. l \in DOMAIN r /\ r[l] = L[k]
    BY <1>2, <2>2
  <2> QED BY <1>3, <2>3
<1> QED BY <1>1, <1>3, <1>4, <1>5, <1>6, <1>7

(* The new blocks lie between those before and those after them. *)
LEMMA SpliceGood ==
  ASSUME NEW L, Good(L), NEW M, Good(M), NEW i \in Int, NEW j \in Int,
         1 <= i, i <= j + 1, j <= Len(L),
         \A k \in 1..(i - 1) : \A l \in 1..Len(M) : block_end(L[k]) <= M[l].addr,
         \A k \in (j + 1)..Len(L) : \A l \in 1..Len(M) : block_end(M[l]) <= L[k].addr
  PROVE  Good(Splice(L, i, j, M))
<1>1. PICK r, n, m : r = Splice(L, i, j, M) /\ n = Len(L) /\ m = Len(M)
  OBVIOUS
<1>2. /\ L \in Seq(SoundBlock) /\ M \in Seq(SoundBlock) /\ n \in Nat /\ m \in Nat
      /\ \A k, l \in 1..n : k < l => block_end(L[k]) <= L[l].addr
      /\ \A k, l \in 1..m : k < l => block_end(M[k]) <= M[l].addr
  BY <1>1, GoodFacts
<1>3. r \in Seq(SoundBlock) /\ DOMAIN r = 1..((i - 1) + m + (n - j))
  BY <1>1, <1>2, SpliceFacts
<1>4. ASSUME NEW x \in DOMAIN r, NEW y \in DOMAIN r, x < y
      PROVE  block_end(r[x]) <= r[y].addr
  <2>1. \/ x \in 1..(i - 1) /\ r[x] = L[x]
        \/ x - i + 1 \in 1..m /\ r[x] = M[x - i + 1]
        \/ x > i - 1 + m /\ x - (i - 1) - m + j \in (j + 1)..n /\ r[x] = L[x - (i - 1) - m + j]
    BY <1>1, <1>2, SpliceOrigin
  <2>2. \/ y \in 1..(i - 1) /\ r[y] = L[y]
        \/ y - i + 1 \in 1..m /\ r[y] = M[y - i + 1]
        \/ y > i - 1 + m /\ y - (i - 1) - m + j \in (j + 1)..n /\ r[y] = L[y - (i - 1) - m + j]
    BY <1>1, <1>2, SpliceOrigin
  <2>3. x \in Int /\ y \in Int
    BY <1>3
  <2>4. CASE x \in 1..(i - 1) /\ r[x] = L[x]
    <3>1. CASE y \in 1..(i - 1) /\ r[y] = L[y]
      BY <1>1, <1>2, <1>4, <2>3, <2>4, <3>1
    <3>2. CASE y - i + 1 \in 1..m /\ r[y] = M[y - i + 1]
      BY <1>1, <1>2, <2>4, <3>2
    <3>3. CASE y - (i - 1) - m + j \in (j + 1)..n /\ r[y] = L[y - (i - 1) - m + j]
      <4>1. PICK z : z = y - (i - 1) - m + j
        OBVIOUS
      <4>2. x \in 1..n /\ z \in 1..n /\ x < z /\ r[y] = L[z]
        BY <1>1, <1>2, <2>3, <2>4, <3>3, <4>1
      <4> QED BY <1>2, <2>4, <4>2
    <3> QED BY <2>2, <3>1, <3>2, <3>3
  <2>5. CASE x - i + 1 \in 1..m /\ r[x] = M[x - i + 1]
    <3>1. CASE y - i + 1 \in 1..m /\ r[y] = M[y - i + 1]
      <4>1. PICK u, v : u = x - i + 1 /\ v = y - i + 1
        OBVIOUS
      <4>2. u \in 1..m /\ v \in 1..m /\ u < v
        BY <1>2, <1>4, <2>3, <2>5, <3>1, <4>1
      <4> QED BY <1>2, <2>5, <3>1, <4>1, <4>2
    <3>2. CASE y - (i - 1) - m + j \in (j + 1)..n /\ r[y] = L[y - (i - 1) - m + j]
      BY <1>1, <1>2, <2>5, <3>2
    <3>3. ~(y \in 1..(i - 1))
      BY <1>2, <1>4, <2>3, <2>5
    <3> QED BY <2>2, <3>1, <3>2, <3>3
  <2>6. CASE x > i - 1 + m /\ x - (i - 1) - m + j \in (j + 1)..n /\ r[x] = L[x - (i - 1) - m + j]
    <3>1. CASE y - (i - 1) - m + j \in (j + 1)..n /\ r[y] = L[y - (i - 1) - m + j]
      <4>1. PICK u, v : u = x - (i - 1) - m + j /\ v = y - (i - 1) - m + j
        OBVIOUS
      <4>2. u \in 1..n /\ v \in 1..n /\ u < v
        BY <1>1, <1>2, <1>4, <2>3, <2>6, <3>1, <4>1
      <4> QED BY <1>2, <2>6, <3>1, <4>1, <4>2
    <3>2. ~(y \in 1..(i - 1)) /\ ~(y - i + 1 \in 1..m)
      <4>1. x > i - 1 + m /\ x < y /\ m \in Nat /\ x \in Int /\ y \in Int
        BY <1>2, <1>4, <2>3, <2>6, Zenon
      <4> QED BY ONLY <4>1, i \in Int
    <3> QED BY <2>2, <3>1, <3>2
  <2> QED BY <2>1, <2>4, <2>5, <2>6
<1> QED BY <1>1, <1>3, <1>4 DEF Good, Sorted

(* A byte is covered as before if the new blocks cover what i..j did. *)
LEMMA SpliceCovers ==
  ASSUME NEW S, NEW L \in Seq(S), NEW M \in Seq(S), NEW i \in Int, NEW j \in Int,
         1 <= i, i <= j + 1, j <= Len(L), NEW a, NEW X,
         (\E k \in 1..Len(M) : Spans(M[k], a)) <=> ((\E k \in i..j : Spans(L[k], a)) \/ X)
  PROVE  Covered(Splice(L, i, j, M), a) <=> Covered(L, a) \/ X
<1>1. PICK r, n, m : r = Splice(L, i, j, M) /\ n = Len(L) /\ m = Len(M)
  OBVIOUS
<1>2. n \in Nat /\ m \in Nat /\ DOMAIN L = 1..n /\ DOMAIN M = 1..m
  BY <1>1, LenProperties
<1>3. ToSet(r) = {L[k] : k \in 1..(i - 1)} \cup {M[k] : k \in 1..m} \cup {L[k] : k \in (j + 1)..n}
  <2>1. ToSet(M) = {M[k] : k \in 1..m}
    BY <1>2 DEF ToSet
  <2>2. ToSet(r) = {L[k] : k \in 1..(i - 1)} \cup ToSet(M) \cup {L[k] : k \in (j + 1)..n}
    BY <1>1, SpliceRange
  <2> QED BY <2>1, <2>2
<1>4. Covered(r, a) <=> \E b \in ToSet(r) : Spans(b, a)
  BY DEF Covered, Spans, ToSet
<1>5. Covered(L, a) <=> \E k \in 1..n : Spans(L[k], a)
  BY <1>2 DEF Covered, Spans
<1>6. 1..n = (1..(i - 1)) \cup (i..j) \cup ((j + 1)..n)
  BY <1>1, <1>2
<1>7. Covered(L, a) <=> \/ \E k \in 1..(i - 1) : Spans(L[k], a)
                        \/ \E k \in i..j : Spans(L[k], a)
                        \/ \E k \in (j + 1)..n : Spans(L[k], a)
  BY <1>5, <1>6, Zenon
<1>8. Covered(r, a) <=> \/ \E k \in 1..(i - 1) : Spans(L[k], a)
                        \/ \E k \in 1..m : Spans(M[k], a)
                        \/ \E k \in (j + 1)..n : Spans(L[k], a)
  BY <1>3, <1>4
<1> QED BY <1>1, <1>7, <1>8

(* The neighbours in the new list. *)
LEMMA SpliceMerged ==
  ASSUME NEW S, NEW L \in Seq(S), NEW M \in Seq(S), NEW i \in Int, NEW j \in Int,
         1 <= i, i <= j + 1, j <= Len(L), Len(M) > 0,
         \A k \in 1..(i - 2) : Loose(L[k], L[k + 1]),
         i > 1 => Loose(L[i - 1], M[1]),
         \A k \in 1..(Len(M) - 1) : Loose(M[k], M[k + 1]),
         j < Len(L) => Loose(M[Len(M)], L[j + 1]),
         \A k \in (j + 1)..(Len(L) - 1) : Loose(L[k], L[k + 1])
  PROVE  Merged(Splice(L, i, j, M))
<1>1. PICK r, n, m : r = Splice(L, i, j, M) /\ n = Len(L) /\ m = Len(M)
  OBVIOUS
<1>2. /\ n \in Nat /\ m \in Nat /\ Len(r) = (i - 1) + m + (n - j)
      /\ \A l \in 1..((i - 1) + m + (n - j)) :
               r[l] = IF l < i THEN L[l] ELSE IF l < i + m THEN M[l - i + 1]
                      ELSE L[l - (i - 1) - m + j]
  <2>1. n \in Nat /\ m \in Nat
    BY <1>1, LenProperties
  <2>2. Len(r) = (i - 1) + m + (n - j)
    <3>1. Len(Splice(L, i, j, M)) = (i - 1) + Len(M) + (Len(L) - j)
      BY ONLY SpliceFacts, L \in Seq(S), M \in Seq(S), i \in Int, j \in Int,
              1 <= i, i <= j + 1, j <= Len(L)
    <3> QED BY ONLY <1>1, <3>1
  <2>3. \A l \in 1..((i - 1) + m + (n - j)) :
               r[l] = IF l < i THEN L[l] ELSE IF l < i + m THEN M[l - i + 1]
                      ELSE L[l - (i - 1) - m + j]
    BY ONLY <1>1, SpliceFacts, L \in Seq(S), M \in Seq(S), i \in Int, j \in Int,
            1 <= i, i <= j + 1, j <= Len(L)
  <2> QED BY <2>1, <2>2, <2>3
<1>3. ASSUME NEW k \in 1..(Len(r) - 1) PROVE Loose(r[k], r[k + 1])
  <2>0. k \in Int /\ k \in 1..((i - 1) + m + (n - j)) /\ k + 1 \in 1..((i - 1) + m + (n - j))
    BY <1>1, <1>2
  <2>1. CASE k + 1 < i
    <3>1. r[k] = L[k] /\ r[k + 1] = L[k + 1] /\ k \in 1..(i - 2)
      BY <1>2, <2>0, <2>1
    <3> QED BY <3>1
  <2>2. CASE k + 1 = i
    <3>1. r[k] = L[i - 1] /\ r[k + 1] = M[1] /\ i > 1
      <4>1. k = i - 1 /\ k < i /\ ~(k + 1 < i) /\ k + 1 < i + m /\ (k + 1) - i + 1 = 1
        BY <1>1, <1>2, <2>0, <2>2
      <4>2. r[k] = L[k] /\ r[k + 1] = M[(k + 1) - i + 1]
        BY <1>2, <2>0, <4>1
      <4> QED BY <2>0, <4>1, <4>2
    <3> QED BY <3>1
  <2>3. CASE i <= k /\ k + 1 < i + m
    <3>1. PICK l : l = k - i + 1
      OBVIOUS
    <3>2. l \in 1..(m - 1) /\ (k + 1) - i + 1 = l + 1 /\ ~(k < i) /\ ~(k + 1 < i) /\ k < i + m
      BY <1>2, <2>0, <2>3, <3>1
    <3>3. r[k] = M[l] /\ r[k + 1] = M[l + 1]
      BY <1>2, <2>0, <2>3, <3>1, <3>2
    <3> QED BY <1>1, <3>2, <3>3
  <2>4. CASE i <= k /\ k + 1 = i + m
    <3>1. k - i + 1 = m /\ (k + 1) - (i - 1) - m + j = j + 1 /\ j < n
          /\ ~(k < i) /\ k < i + m /\ ~(k + 1 < i) /\ ~(k + 1 < i + m)
      BY <1>2, <2>0, <2>4
    <3>2. r[k] = M[m] /\ r[k + 1] = L[j + 1]
      <4>1. r[k] = M[k - i + 1] /\ r[k + 1] = L[(k + 1) - (i - 1) - m + j]
        BY <1>2, <2>0, <3>1
      <4> QED BY <3>1, <4>1
    <3> QED BY <1>1, <3>1, <3>2
  <2>5. CASE i + m <= k
    <3>1. PICK l : l = k - (i - 1) - m + j
      OBVIOUS
    <3>2. /\ l \in (j + 1)..(n - 1) /\ (k + 1) - (i - 1) - m + j = l + 1
          /\ ~(k < i) /\ ~(k < i + m) /\ ~(k + 1 < i) /\ ~(k + 1 < i + m)
      BY <1>1, <1>2, <2>0, <2>5, <3>1
    <3>3. r[k] = L[l] /\ r[k + 1] = L[l + 1]
      BY <1>2, <2>0, <3>1, <3>2
    <3> QED BY <1>1, <3>2, <3>3
  <2> QED BY <1>1, <1>2, <2>0, <2>1, <2>2, <2>3, <2>4, <2>5
<1> QED BY <1>1, <1>3 DEF Merged

-----------------------------------------------------------------------------
(* coalesce_forward *)

(* How far the loop gets from block i, and the block that it leaves there. *)
Reaches(L, n, i, last, b) ==
  /\ coalesce_forward(L, i) = Splice(L, i, last, <<b>>)
  /\ Mergeable(L, i, last)
  /\ \A k \in i..n : Mergeable(L, i, k) => k <= last
  /\ last < n => ~(L[last + 1].free /\ blocks_touch(L[last], L[last + 1]))
  /\ b.addr = L[i].addr /\ b.free /\ block_end(b) = block_end(L[last])

LEMMA CoalesceIs ==
  ASSUME NEW L, Good(L), NEW n, n = Len(L), NEW i \in 1..n, L[i].free
  PROVE  \E last \in i..n, b \in SoundBlock : Reaches(L, n, i, last, b)
<1>2. /\ n \in Nat /\ \A k \in 1..n : L[k] \in SoundBlock
      /\ \A k, l \in 1..n : k < l => block_end(L[k]) <= L[l].addr
  BY GoodFacts
<1>3. i \in 1..n /\ i \in Int
  BY <1>2
<1> DEFINE T == {k \in i..n : Mergeable(L, i, k)}
<1>4. i \in T
  BY <1>2, <1>3 DEF Mergeable
<1>5. PICK last : last = Max(T)
  OBVIOUS
<1>6. last \in T /\ \A k \in T : k <= last
  <2>1. T \subseteq Nat /\ T # {} /\ \A x \in T : x <= n
    BY <1>2, <1>3, <1>4
  <2> QED BY <1>2, <1>5, <2>1, MaxFacts
<1>7. last \in i..n /\ Mergeable(L, i, last) /\ \A k \in i..n : Mergeable(L, i, k) => k <= last
  BY <1>6
<1>8. ASSUME last < n, L[last + 1].free, blocks_touch(L[last], L[last + 1]) PROVE FALSE
  <2>1. last + 1 \in i..n /\ ~(last + 1 <= last)
    BY <1>2, <1>3, <1>7, <1>8
  <2>2. \A j \in (i + 1)..(last + 1) : j \in (i + 1)..last \/ j = last + 1
    BY <1>3, <1>7
  <2>3. (last + 1) - 1 = last
    BY <1>3, <1>7
  <2>4. Mergeable(L, i, last + 1)
    BY <1>7, <1>8, <2>2, <2>3 DEF Mergeable
  <2> QED BY <1>7, <2>1, <2>4
<1>9. PICK c, e : c = L[i] /\ e = L[last]
  OBVIOUS
<1>10. last \in 1..n /\ c \in SoundBlock /\ e \in SoundBlock /\ c.free
  BY <1>2, <1>3, <1>7, <1>9
<1>11. block_end(c) <= block_end(e)
  <2>1. CASE last = i
    BY <1>9, <1>10, <2>1, BlockFacts
  <2>2. CASE i < last
    BY <1>2, <1>3, <1>9, <1>10, <2>2, BlockFacts
  <2> QED BY <1>3, <1>7, <2>1, <2>2
<1>12. PICK s : s = block_end(e) - Payload(c)
  OBVIOUS
<1>13. PICK b : b = [c EXCEPT !.size = s]
  OBVIOUS
<1>14. PICK ea, es, ca : ea = e.addr /\ es = e.size /\ ca = c.addr
  OBVIOUS
<1>15. s \in Nat /\ s > 0 /\ s % Align = 0
  <2>1. /\ ea \in Nat /\ es \in Nat /\ ca \in Nat
        /\ ea % Align = 0 /\ es % Align = 0 /\ ca % Align = 0
        /\ Payload(c) = ca + Header /\ block_end(e) = ea + Header + es
        /\ Payload(c) < block_end(c) /\ block_end(c) \in Nat
    BY <1>10, <1>14, BlockFacts, HeapConstants
  <2>2. Align \in Nat /\ Align > 0 /\ Header \in Nat
    BY HeapConstants
  <2>3. s = (ea + es) - ca /\ ca < ea + es
    BY <1>11, <1>12, <2>1, <2>2
  <2>4. (ea + es) % Align = 0
    BY <2>1, <2>2, MultiplesAdd, Zenon
  <2>5. ea + es \in Nat /\ ca <= ea + es
    BY <2>1, <2>3
  <2>6. ((ea + es) - ca) % Align = 0
    BY <2>1, <2>2, <2>4, <2>5, MultiplesAdd, Zenon
  <2> QED BY <2>1, <2>3, <2>6
<1>16. c \in Block /\ c.addr % Align = 0
  BY <1>10, BlockFacts
<1>17. b \in Block /\ b.addr = c.addr /\ b.size = s /\ b.free = c.free
  BY <1>13, <1>15, <1>16 DEF Block
<1>18. b \in SoundBlock
  BY <1>15, <1>16, <1>17 DEF SoundBlock
<1>19. block_end(b) = block_end(e)
  BY <1>10, <1>12, <1>17, <1>18, BlockFacts DEF block_end, Payload
<1>20. coalesce_forward(L, i) = Splice(L, i, last, <<b>>)
  BY <1>5, <1>9, <1>12, <1>13 DEF coalesce_forward, Splice
<1> QED BY <1>7, <1>8, <1>9, <1>10, <1>17, <1>18, <1>19, <1>20 DEF Reaches

LEMMA OneBlock ==
  ASSUME NEW b \in SoundBlock
  PROVE  /\ Good(<<b>>) /\ <<b>> \in Seq(SoundBlock) /\ Len(<<b>>) = 1 /\ <<b>>[1] = b
         /\ ToSet(<<b>>) = {b}
<1>1. <<b>> \in Seq(SoundBlock) /\ Len(<<b>>) = 1 /\ <<b>>[1] = b /\ DOMAIN <<b>> = 1..1
  OBVIOUS
<1>2. Good(<<b>>)
  BY <1>1 DEF Good, Sorted
<1>3. ToSet(<<b>>) = {b}
  BY <1>1 DEF ToSet
<1> QED BY <1>1, <1>2, <1>3

(* Later blocks begin later and end later. *)
LEMMA GoodOrder ==
  ASSUME NEW L, Good(L), NEW n, n = Len(L)
  PROVE  /\ \A k, l \in 1..n : k <= l => L[k].addr <= L[l].addr
         /\ \A k, l \in 1..n : k <= l => block_end(L[k]) <= block_end(L[l])
<1>1. /\ n \in Nat /\ \A k \in 1..n : L[k] \in SoundBlock
      /\ \A k, l \in 1..n : k < l => block_end(L[k]) <= L[l].addr
  BY GoodFacts
<1>2. ASSUME NEW k \in 1..n, NEW l \in 1..n, k <= l
      PROVE  L[k].addr <= L[l].addr /\ block_end(L[k]) <= block_end(L[l])
  <2>1. PICK x, y : x = L[k] /\ y = L[l]
    OBVIOUS
  <2>2. x \in SoundBlock /\ y \in SoundBlock
    BY <1>1, <2>1, Zenon
  <2>3. k = l \/ k < l
    BY <1>1, <1>2
  <2>4. x = y \/ block_end(x) <= y.addr
    BY <1>1, <2>1, <2>3, Zenon
  <2>5. x.addr <= y.addr /\ block_end(x) <= block_end(y)
    BY ONLY <2>2, <2>4, BlockFacts
  <2> QED BY <2>1, <2>5
<1> QED BY <1>2

(* Blocks that touch one another cover the bytes between their ends. *)
LEMMA ChainCovers ==
  ASSUME NEW L, Good(L), NEW n, n = Len(L), NEW i \in 1..n, NEW last \in i..n,
         Mergeable(L, i, last), NEW a \in Nat
  PROVE  (L[i].addr <= a /\ a < block_end(L[last])) <=> \E k \in i..last : Spans(L[k], a)
<1>2. /\ n \in Nat /\ \A k \in 1..n : L[k] \in SoundBlock
      /\ \A k, l \in 1..n : k < l => block_end(L[k]) <= L[l].addr
  BY GoodFacts
<1>3. i \in 1..n /\ last \in 1..n /\ i <= last /\ i..last \subseteq 1..n
  BY <1>2
<1>4. ASSUME L[i].addr <= a, a < block_end(L[last]) PROVE \E k \in i..last : Spans(L[k], a)
  <2> DEFINE T == {k \in i..last : a < block_end(L[k])}
  <2>1. last \in T /\ T \subseteq Nat
    BY <1>3, <1>4
  <2>2. PICK k \in T : \A l \in T : k <= l
    BY <2>1, LeastNumber
  <2>3. CASE k = i
    BY <1>4, <2>2, <2>3 DEF Spans
  <2>4. CASE k # i
    <3>1. k - 1 \in i..last /\ k \in (i + 1)..last /\ ~(k <= k - 1) /\ k - 1 \in 1..n
      BY <1>3, <2>2, <2>4
    <3>2. ~(a < block_end(L[k - 1]))
      BY <2>2, <3>1
    <3>3. block_end(L[k - 1]) = L[k].addr
      BY <3>1 DEF Mergeable, blocks_touch
    <3>4. L[k] \in SoundBlock
      BY <1>2, <1>3, <3>1
    <3>5. L[k].addr <= a
      BY <3>2, <3>3, <3>4, BlockFacts
    <3> QED BY <2>2, <3>5 DEF Spans
  <2> QED BY <2>3, <2>4
<1>5. ASSUME NEW k \in i..last, Spans(L[k], a)
      PROVE  L[i].addr <= a /\ a < block_end(L[last])
  <2>1. k \in 1..n /\ L[k] \in SoundBlock /\ L[i] \in SoundBlock /\ L[last] \in SoundBlock
    BY <1>2, <1>3
  <2>2. L[k].addr <= a /\ a < block_end(L[k])
    BY <1>5 DEF Spans
  <2>3. L[i].addr <= L[k].addr /\ block_end(L[k]) <= block_end(L[last])
    <3>1. i <= k /\ k <= last
      BY <1>3
    <3> QED BY <1>3, <2>1, <3>1, GoodOrder, Zenon
  <2> QED BY <2>1, <2>2, <2>3, BlockFacts
<1> QED BY <1>4, <1>5

(* One block in the place of those from i to j. *)
Replacing(L, n, i, j, b, r) ==
  /\ Good(L) /\ n = Len(L) /\ b \in SoundBlock
  /\ i \in Int /\ j \in Int /\ 1 <= i /\ i <= j + 1 /\ j <= n
  /\ r = Splice(L, i, j, <<b>>)

(* The blocks that stay. *)
Kept(L, n, i, j) == {L[k] : k \in 1..(i - 1)} \cup {L[k] : k \in (j + 1)..n}

LEMMA ReplaceFacts ==
  ASSUME NEW L, NEW n, NEW i, NEW j, NEW b, NEW r, Replacing(L, n, i, j, b, r)
  PROVE  /\ n \in Nat /\ r \in Seq(SoundBlock) /\ Len(r) = n - j + i
         /\ r[i] = b
         /\ \A k \in 1..(i - 1) : r[k] = L[k]
         /\ \A k \in (j + 1)..n : r[k - j + i] = L[k]
         /\ ToSet(r) = {b} \cup Kept(L, n, i, j)
<1>0. /\ Good(L) /\ n = Len(L) /\ b \in SoundBlock /\ L \in Seq(SoundBlock)
      /\ i \in Int /\ j \in Int /\ 1 <= i /\ i <= j + 1 /\ j <= n
      /\ r = Splice(L, i, j, <<b>>)
  BY DEF Replacing, Good
<1> USE <1>0
<1>1. PICK M : M = <<b>>
  OBVIOUS
<1>2. M \in Seq(SoundBlock) /\ Len(M) = 1 /\ M[1] = b /\ ToSet(M) = {b}
  <2>1. M \in Seq(SoundBlock) /\ Len(M) = 1 /\ M[1] = b /\ DOMAIN M = 1..1
    BY <1>1
  <2> QED BY <2>1 DEF ToSet
<1>3. n \in Nat
  BY LenProperties
<1>4. r = Splice(L, i, j, M) /\ j <= Len(L)
  BY <1>1
<1>5. /\ r \in Seq(SoundBlock) /\ Len(r) = (i - 1) + Len(M) + (Len(L) - j)
      /\ \A k \in 1..((i - 1) + Len(M) + (Len(L) - j)) :
            r[k] = IF k < i THEN L[k] ELSE IF k < i + Len(M) THEN M[k - i + 1]
                   ELSE L[k - (i - 1) - Len(M) + j]
  <2>0. M \in Seq(SoundBlock) /\ j <= Len(L)
    BY <1>2, <1>4
  <2>1. Splice(L, i, j, M) \in Seq(SoundBlock)
    BY ONLY SpliceFacts, <2>0, <1>0
  <2>2. Len(Splice(L, i, j, M)) = (i - 1) + Len(M) + (Len(L) - j)
    BY ONLY SpliceFacts, <2>0, <1>0
  <2>3. \A k \in 1..((i - 1) + Len(M) + (Len(L) - j)) :
          Splice(L, i, j, M)[k]
            = IF k < i THEN L[k] ELSE IF k < i + Len(M) THEN M[k - i + 1]
              ELSE L[k - (i - 1) - Len(M) + j]
    BY ONLY SpliceFacts, <2>0, <1>0
  <2> QED BY ONLY <1>4, <2>1, <2>2, <2>3, Zenon
<1>6. \A k \in 1..((i - 1) + 1 + (n - j)) :
            r[k] = IF k < i THEN L[k] ELSE IF k < i + 1 THEN M[k - i + 1]
                   ELSE L[k - (i - 1) - 1 + j]
  BY <1>2, <1>5, Zenon
<1>7. Len(r) = n - j + i
  <2>1. Len(r) = (i - 1) + 1 + (n - j)
    BY <1>2, <1>5, Zenon
  <2> QED BY <1>3, <2>1
<1>8. r[i] = b
  <2>1. i \in 1..((i - 1) + 1 + (n - j)) /\ i - i + 1 = 1 /\ ~(i < i) /\ i < i + 1
    BY <1>3
  <2>2. r[i] = M[i - i + 1]
    BY <1>6, <2>1
  <2> QED BY <1>2, <2>1, <2>2
<1>9. ASSUME NEW k \in 1..(i - 1) PROVE r[k] = L[k]
  <2>1. k \in 1..((i - 1) + 1 + (n - j)) /\ k < i
    BY <1>3
  <2> QED BY <1>6, <2>1
<1>10. ASSUME NEW k \in (j + 1)..n PROVE r[k - j + i] = L[k]
  <2>1. PICK l : l = k - j + i
    OBVIOUS
  <2>2. l \in 1..((i - 1) + 1 + (n - j)) /\ ~(l < i) /\ ~(l < i + 1) /\ l - (i - 1) - 1 + j = k
    BY <1>3, <2>1
  <2>3. r[l] = L[l - (i - 1) - 1 + j]
    BY <1>6, <2>2
  <2> QED BY <2>1, <2>2, <2>3
<1>11. ToSet(r) = {b} \cup Kept(L, n, i, j)
  <2>1. ToSet(r) = {L[k] : k \in 1..(i - 1)} \cup ToSet(M) \cup {L[k] : k \in (j + 1)..Len(L)}
    BY ONLY SpliceRange, <1>2, <1>4, <1>0
  <2> QED BY <1>2, <2>1, Zenon DEF Kept
<1> QED BY <1>3, <1>5, <1>7, <1>8, <1>9, <1>10, <1>11

LEMMA ReplaceGood ==
  ASSUME NEW L, NEW n, NEW i, NEW j, NEW b, NEW r, Replacing(L, n, i, j, b, r),
         \A k \in 1..(i - 1) : block_end(L[k]) <= b.addr,
         \A k \in (j + 1)..n : block_end(b) <= L[k].addr
  PROVE  Good(r)
<1>0. /\ Good(L) /\ n = Len(L) /\ b \in SoundBlock /\ L \in Seq(SoundBlock)
      /\ i \in Int /\ j \in Int /\ 1 <= i /\ i <= j + 1 /\ j <= n
      /\ r = Splice(L, i, j, <<b>>)
  BY DEF Replacing, Good
<1> USE <1>0
<1>1. PICK M : M = <<b>>
  OBVIOUS
<1>2. Good(M) /\ Len(M) = 1 /\ M[1] = b /\ j <= Len(L)
  BY <1>1, OneBlock
<1>3. \A k \in 1..(i - 1) : \A l \in 1..Len(M) : block_end(L[k]) <= M[l].addr
  <2>1. \A l \in 1..Len(M) : M[l] = b
    BY ONLY <1>2
  <2> QED BY <2>1, Zenon
<1>4. \A k \in (j + 1)..Len(L) : \A l \in 1..Len(M) : block_end(M[l]) <= L[k].addr
  <2>1. \A l \in 1..Len(M) : M[l] = b
    BY ONLY <1>2
  <2> QED BY <2>1, Zenon
<1>5. Good(Splice(L, i, j, M))
  BY ONLY SpliceGood, <1>2, <1>3, <1>4, <1>0
<1> QED BY ONLY <1>1, <1>5, <1>0, Zenon

LEMMA ReplaceCovers ==
  ASSUME NEW L, NEW n, NEW i, NEW j, NEW b, NEW r, Replacing(L, n, i, j, b, r), NEW a, NEW X,
         Spans(b, a) <=> (\E k \in i..j : Spans(L[k], a)) \/ X
  PROVE  Covered(r, a) <=> Covered(L, a) \/ X
<1>0. /\ Good(L) /\ n = Len(L) /\ b \in SoundBlock /\ L \in Seq(SoundBlock)
      /\ i \in Int /\ j \in Int /\ 1 <= i /\ i <= j + 1 /\ j <= n
      /\ r = Splice(L, i, j, <<b>>)
  BY DEF Replacing, Good
<1> USE <1>0
<1>1. PICK M : M = <<b>>
  OBVIOUS
<1>2. M \in Seq(SoundBlock) /\ Len(M) = 1 /\ M[1] = b /\ j <= Len(L)
  BY <1>1
<1>3. (\E k \in 1..Len(M) : Spans(M[k], a)) <=> Spans(b, a)
  <2>1. 1..Len(M) = {1}
    BY ONLY <1>2
  <2> QED BY ONLY <1>2, <2>1, Zenon
<1>4. (\E k \in 1..Len(M) : Spans(M[k], a)) <=> ((\E k \in i..j : Spans(L[k], a)) \/ X)
  BY ONLY <1>3, Spans(b, a) <=> (\E k \in i..j : Spans(L[k], a)) \/ X, Zenon
<1>5. Covered(Splice(L, i, j, M), a) <=> Covered(L, a) \/ X
  BY ONLY SpliceCovers, <1>2, <1>4, <1>0
<1> QED BY ONLY <1>1, <1>5, <1>0, Zenon

(* The neighbours from the new block on, and those before it. *)
LEMMA ReplaceLoose ==
  ASSUME NEW L, NEW n, NEW i, NEW j, NEW b, NEW r, Replacing(L, n, i, j, b, r)
  PROVE  /\ /\ \A k \in (j + 1)..(n - 1) : Loose(L[k], L[k + 1])
            /\ j < n => Loose(b, L[j + 1])
            => \A k \in i..(Len(r) - 1) : Loose(r[k], r[k + 1])
         /\ /\ \A k \in 1..(i - 2) : Loose(L[k], L[k + 1])
            /\ i > 1 => Loose(L[i - 1], b)
            => \A k \in 1..(i - 1) : Loose(r[k], r[k + 1])
<1>0. /\ Good(L) /\ n = Len(L) /\ b \in SoundBlock /\ L \in Seq(SoundBlock)
      /\ i \in Int /\ j \in Int /\ 1 <= i /\ i <= j + 1 /\ j <= n
      /\ r = Splice(L, i, j, <<b>>)
  BY DEF Replacing, Good
<1> USE <1>0
<1>1. /\ n \in Nat /\ Len(r) = n - j + i /\ r[i] = b
      /\ \A k \in 1..(i - 1) : r[k] = L[k]
      /\ \A k \in (j + 1)..n : r[k - j + i] = L[k]
  BY ONLY ReplaceFacts, Replacing(L, n, i, j, b, r)
<1>2. ASSUME \A k \in (j + 1)..(n - 1) : Loose(L[k], L[k + 1]), j < n => Loose(b, L[j + 1]),
             NEW k \in i..(Len(r) - 1)
      PROVE  Loose(r[k], r[k + 1])
  <2>1. PICK l : l = k - i + j
    OBVIOUS
  <2>2. /\ k \in Int /\ l \in j..(n - 1) /\ l + 1 \in (j + 1)..n /\ (l + 1) - j + i = k + 1
        /\ l > j => l \in (j + 1)..n /\ l \in (j + 1)..(n - 1)
        /\ l - j + i = k
    <3>1. k \in i..(n - j + i - 1)
      BY <1>1
    <3> QED BY ONLY <1>1, <2>1, <3>1, <1>0
  <2>3. r[k + 1] = L[l + 1]
    BY ONLY <1>1, <2>2
  <2>4. CASE l = j
    <3>1. k = i /\ j < n
      BY ONLY <2>1, <2>2, <2>4, <1>0
    <3> QED BY <1>1, <1>2, <2>3, <2>4, <3>1, Zenon
  <2>5. CASE l > j
    <3>1. r[k] = L[l]
      BY ONLY <1>1, <2>2, <2>5
    <3> QED BY <1>2, <2>2, <2>3, <2>5, <3>1, Zenon
  <2> QED BY ONLY <2>2, <2>4, <2>5, <1>0
<1>3. ASSUME \A k \in 1..(i - 2) : Loose(L[k], L[k + 1]), i > 1 => Loose(L[i - 1], b),
             NEW k \in 1..(i - 1)
      PROVE  Loose(r[k], r[k + 1])
  <2>1. r[k] = L[k] /\ k \in Int /\ k <= i - 1
    BY <1>1
  <2>2. CASE k = i - 1
    <3>1. k + 1 = i /\ i > 1
      BY <2>1, <2>2
    <3> QED BY <1>1, <1>3, <2>1, <2>2, <3>1, Zenon
  <2>3. CASE k < i - 1
    <3>1. k \in 1..(i - 2) /\ k + 1 \in 1..(i - 1)
      BY <2>1, <2>3
    <3> QED BY <1>1, <1>3, <2>1, <3>1, Zenon
  <2> QED BY <2>1, <2>2, <2>3
<1> QED BY <1>2, <1>3, Zenon

(* What coalesce_forward does to a list: block i grows over the free       *)
(* blocks that touch it.  Afterwards it touches no free block behind it,   *)
(* provided the blocks behind the ones it reaches at least were merged.    *)
LEMMA CoalesceFacts ==
  ASSUME NEW L, Good(L), NEW n, n = Len(L), NEW i \in 1..n, L[i].free,
         NEW r, r = coalesce_forward(L, i)
  PROVE  /\ Good(r) /\ i \in 1..Len(r)
         /\ r[i].addr = L[i].addr /\ r[i].free
         /\ \A k \in 1..(i - 1) : r[k] = L[k]
         /\ InUse(r) = InUse(L)
         /\ \A a \in Nat : Covered(r, a) <=> Covered(L, a)
         /\ \A m \in i..n : Mergeable(L, i, m) =>
               /\ L[m].size <= r[i].size
               /\ MergedFrom(L, m + 1) => MergedFrom(r, i)
<1>2. /\ n \in Nat /\ L \in Seq(SoundBlock) /\ \A k \in 1..n : L[k] \in SoundBlock
      /\ \A k, l \in 1..n : k < l => block_end(L[k]) <= L[l].addr
      /\ ToSet(L) = {L[k] : k \in 1..n}
  BY GoodFacts
<1>0. PICK last \in i..n, b \in SoundBlock : Reaches(L, n, i, last, b)
  BY CoalesceIs
<1>3. /\ last \in i..n /\ b \in SoundBlock
      /\ coalesce_forward(L, i) = Splice(L, i, last, <<b>>)
      /\ Mergeable(L, i, last)
      /\ \A k \in i..n : Mergeable(L, i, k) => k <= last
      /\ last < n => ~(L[last + 1].free /\ blocks_touch(L[last], L[last + 1]))
      /\ b.addr = L[i].addr /\ b.free /\ block_end(b) = block_end(L[last])
  BY <1>0 DEF Reaches
<1>4. i \in Int /\ last \in Int /\ 1 <= i /\ i <= last /\ i <= last + 1 /\ last <= n /\ last \in 1..n
  BY <1>2, <1>3
<1>7. Replacing(L, n, i, last, b, r)
  BY <1>3, <1>4, Zenon DEF Replacing
<1>8. /\ n \in Nat /\ Len(r) = n - last + i /\ r[i] = b
      /\ \A k \in 1..(i - 1) : r[k] = L[k]
      /\ ToSet(r) = {b} \cup Kept(L, n, i, last)
  <2>1. n \in Nat /\ Len(r) = n - last + i /\ r[i] = b
    BY ONLY <1>7, ReplaceFacts
  <2>2. \A k \in 1..(i - 1) : r[k] = L[k]
    BY ONLY <1>7, ReplaceFacts
  <2>3. ToSet(r) = {b} \cup Kept(L, n, i, last)
    BY ONLY <1>7, ReplaceFacts
  <2> QED BY ONLY <2>1, <2>2, <2>3, Zenon
<1>9. Good(r)
  <2>1. ASSUME NEW k \in 1..(i - 1) PROVE block_end(L[k]) <= b.addr
    <3>1. k \in 1..n /\ k < i
      BY <1>4
    <3> QED BY <1>2, <1>3, <3>1, Zenon
  <2>2. ASSUME NEW k \in (last + 1)..n PROVE block_end(b) <= L[k].addr
    <3>1. k \in 1..n /\ last < k
      BY <1>2, <1>4
    <3> QED BY <1>2, <1>3, <1>4, <3>1, Zenon
  <2> QED BY <1>7, <2>1, <2>2, ReplaceGood, Zenon
<1>10. i \in 1..Len(r)
  BY ONLY <1>4, <1>8
<1>11. InUse(r) = InUse(L)
  <2>2. \A k \in i..last : L[k].free
    <3>1. ASSUME NEW k \in i..last PROVE k = i \/ k \in (i + 1)..last
      BY <1>4
    <3> QED BY <1>3, <3>1, Zenon DEF Mergeable
  <2>3. \A k \in 1..n : k \in 1..(i - 1) \/ k \in i..last \/ k \in (last + 1)..n
    BY <1>2, <1>4
  <2>4. \A k \in 1..(i - 1) : k \in 1..n
    BY <1>4
  <2>5. \A k \in (last + 1)..n : k \in 1..n
    BY <1>2, <1>4
  <2> QED BY <1>2, <1>3, <1>8, <2>2, <2>3, <2>4, <2>5 DEF InUse, Kept
<1>12. ASSUME NEW a \in Nat PROVE Covered(r, a) <=> Covered(L, a)
  <2>1. (L[i].addr <= a /\ a < block_end(L[last])) <=> \E k \in i..last : Spans(L[k], a)
    BY ONLY <1>3, ChainCovers, Good(L), n = Len(L), i \in 1..n, a \in Nat
  <2> DEFINE X == a # a
  <2>2. Spans(b, a) <=> (\E k \in i..last : Spans(L[k], a)) \/ X
    BY <1>3, <2>1, Zenon DEF Spans
  <2> HIDE DEF X
  <2>3. Covered(r, a) <=> Covered(L, a) \/ X
    BY ONLY <1>7, <2>2, ReplaceCovers
  <2> QED BY <2>3 DEF X
<1>13. ASSUME NEW m \in i..n, Mergeable(L, i, m) PROVE L[m].size <= b.size
  <2>1. m \in 1..n /\ m <= last
    BY <1>3, <1>4, <1>13
  <2>2. L[m] \in SoundBlock /\ L[i] \in SoundBlock /\ L[last] \in SoundBlock
    BY <1>2, <1>4, <2>1
  <2>3. L[i].addr <= L[m].addr /\ block_end(L[m]) <= block_end(L[last])
    <3>1. i <= m
      BY <1>4
    <3> QED BY <1>4, <2>1, <3>1, GoodOrder, Zenon
  <2>5. PICK x, y, z : x = L[m] /\ y = L[i] /\ z = L[last]
    OBVIOUS
  <2>6. x \in SoundBlock /\ b.addr = y.addr /\ block_end(b) = block_end(z)
        /\ y.addr <= x.addr /\ block_end(x) <= block_end(z)
    BY <1>3, <2>2, <2>3, <2>5, Zenon
  <2>7. x.size <= b.size
    BY ONLY <1>3, <2>6, BlockFacts, HeapConstants
  <2> QED BY <2>5, <2>7
<1>14. ASSUME NEW m \in i..n, Mergeable(L, i, m), MergedFrom(L, m + 1)
       PROVE  MergedFrom(r, i)
  <2>1. m <= last
    BY <1>3, <1>14, Zenon
  <2>2. \A k \in (last + 1)..(n - 1) : k \in (m + 1)..(n - 1)
    BY <1>2, <1>4, <2>1
  <2>3. \A k \in (last + 1)..(n - 1) : Loose(L[k], L[k + 1])
    BY <1>14, <2>2, Zenon DEF MergedFrom
  <2>4. last < n => Loose(b, L[last + 1])
    BY <1>3, Zenon DEF Loose, blocks_touch
  <2> QED BY <1>7, <2>3, <2>4, ReplaceLoose, Zenon DEF MergedFrom
<1> QED BY <1>3, <1>8, <1>9, <1>10, <1>11, <1>12, <1>13, <1>14

(* The list after coalesce_forward is merged, if it was but for the blocks *)
(* that the loop reaches.                                                  *)
LEMMA CoalesceMerged ==
  ASSUME NEW L, Good(L), NEW n, n = Len(L), NEW i \in 1..n, L[i].free,
         NEW r, r = coalesce_forward(L, i),
         NEW m \in i..n, Mergeable(L, i, m),
         MergedFrom(L, m + 1),
         \A k \in 1..(i - 2) : Loose(L[k], L[k + 1]),
         i > 1 => Loose(L[i - 1], L[i])
  PROVE  Merged(r)
<1>1. /\ Good(r) /\ i \in 1..Len(r)
      /\ r[i].addr = L[i].addr /\ r[i].free
      /\ \A k \in 1..(i - 1) : r[k] = L[k]
      /\ MergedFrom(r, i)
  <2>0. Good(L) /\ n = Len(L) /\ i \in 1..n /\ L[i].free /\ r = coalesce_forward(L, i)
    OBVIOUS
  <2>1. Good(r) /\ i \in 1..Len(r) /\ r[i].addr = L[i].addr /\ r[i].free
    BY ONLY <2>0, CoalesceFacts
  <2>2. \A k \in 1..(i - 1) : r[k] = L[k]
    BY ONLY <2>0, CoalesceFacts
  <2>3. MergedFrom(L, m + 1) => MergedFrom(r, i)
    BY ONLY <2>0, CoalesceFacts, m \in i..n, Mergeable(L, i, m)
  <2> QED BY <2>1, <2>2, <2>3, Zenon
<1>2. n \in Nat /\ i \in Int /\ 1 <= i /\ Len(r) \in Nat
  BY <1>1, GoodFacts
<1>3. ASSUME NEW k \in 1..(Len(r) - 1) PROVE Loose(r[k], r[k + 1])
  <2>1. CASE k >= i
    <3>1. k \in i..(Len(r) - 1)
      BY <1>2, <2>1
    <3> QED BY <1>1, <3>1, Zenon DEF MergedFrom
  <2>2. CASE k < i - 1
    <3>1. k \in 1..(i - 2) /\ k \in 1..(i - 1) /\ k + 1 \in 1..(i - 1)
      BY <1>2, <2>2
    <3> QED BY <1>1, <3>1, Zenon
  <2>3. CASE k = i - 1
    <3>1. k \in 1..(i - 1) /\ k + 1 = i /\ i > 1
      BY <1>2, <2>3
    <3>2. r[k] = L[i - 1] /\ Loose(L[i - 1], L[i])
      BY <1>1, <2>3, <3>1, Zenon
    <3>3. Loose(L[i - 1], r[i])
      BY ONLY <1>1, <3>2, L[i].free DEF Loose, blocks_touch
    <3> QED BY <3>1, <3>2, <3>3, Zenon
  <2> QED BY <1>2, <2>1, <2>2, <2>3
<1> QED BY <1>3 DEF Merged

(* A block with another mark. *)
Marked(L, i, v) == [L EXCEPT ![i].free = v]

LEMMA MarkFacts ==
  ASSUME NEW L, Good(L), NEW n, n = Len(L), NEW i \in 1..n, NEW v \in BOOLEAN,
         NEW r, r = Marked(L, i, v)
  PROVE  /\ Good(r) /\ Len(r) = n
         /\ \A k \in 1..n : k # i => r[k] = L[k]
         /\ r[i].addr = L[i].addr /\ r[i].size = L[i].size /\ r[i].free = v
         /\ block_end(r[i]) = block_end(L[i])
         /\ ToSet(r) = {r[i]} \cup {L[k] : k \in 1..n \ {i}}
         /\ \A a \in Nat : Covered(r, a) <=> Covered(L, a)
<1>1. /\ n \in Nat /\ L \in Seq(SoundBlock) /\ \A k \in 1..n : L[k] \in SoundBlock
      /\ \A k, l \in 1..n : k < l => block_end(L[k]) <= L[l].addr
      /\ DOMAIN L = 1..n
  BY GoodFacts
<1>2. PICK c, b : c = L[i] /\ b = [c EXCEPT !.free = v]
  OBVIOUS
<1>3. c \in SoundBlock
  BY <1>1, <1>2
<1>4. c \in Block /\ c.addr % Align = 0 /\ c.size % Align = 0 /\ c.size > 0
  BY <1>3, BlockFacts
<1>5. b \in Block /\ b.addr = c.addr /\ b.size = c.size /\ b.free = v
  BY <1>2, <1>4 DEF Block
<1>6. b \in SoundBlock /\ block_end(b) = block_end(c)
  BY <1>4, <1>5 DEF SoundBlock, block_end
<1>7. r = [L EXCEPT ![i] = b]
  BY <1>2 DEF Marked
<1>8. /\ r \in Seq(SoundBlock) /\ Len(r) = n /\ DOMAIN r = 1..n /\ r[i] = b
      /\ \A k \in 1..n : k # i => r[k] = L[k]
  BY <1>1, <1>6, <1>7, ExceptSeq
<1>9. \A k \in 1..n : r[k].addr = L[k].addr /\ block_end(r[k]) = block_end(L[k])
  BY <1>2, <1>5, <1>6, <1>8
<1>10. Good(r)
  BY <1>1, <1>8, <1>9 DEF Good, Sorted
<1>11. ToSet(r) = {r[i]} \cup {L[k] : k \in 1..n \ {i}}
  BY <1>8 DEF ToSet
<1>12. ASSUME NEW a \in Nat PROVE Covered(r, a) <=> Covered(L, a)
  BY <1>1, <1>8, <1>9, Zenon DEF Covered
<1> QED BY <1>2, <1>5, <1>6, <1>8, <1>10, <1>11, <1>12

(* No block is listed twice. *)
LEMMA GoodInjective ==
  ASSUME NEW L, Good(L), NEW n, n = Len(L), NEW k \in 1..n, NEW l \in 1..n, k # l
  PROVE  L[k] # L[l]
<1>1. n \in Nat /\ \A x \in 1..n : L[x] \in SoundBlock
  BY GoodFacts
<1>2. \A x, y \in 1..n : x < y => block_end(L[x]) <= L[y].addr
  BY GoodFacts
<1>3. k < l \/ l < k
  BY <1>1
<1>4. PICK x, y : x = L[k] /\ y = L[l]
  OBVIOUS
<1>5. x \in SoundBlock /\ y \in SoundBlock /\ (block_end(x) <= y.addr \/ block_end(y) <= x.addr)
  BY <1>1, <1>2, <1>3, <1>4, Zenon
<1>6. x # y
  BY ONLY <1>5, BlockFacts
<1> QED BY <1>4, <1>6

(* kfree: the block's bytes are free, its neighbours are merged with it,   *)
(* and nothing else changes.                                               *)
LEMMA FreedFacts ==
  ASSUME NEW L, Good(L), Merged(L), NEW n, n = Len(L), NEW i \in 1..n, ~L[i].free,
         NEW r, r = Freed(L, i)
  PROVE  /\ Good(r) /\ Merged(r)
         /\ \A a \in Nat : Covered(r, a) <=> Covered(L, a)
         /\ InUse(r) = InUse(L) \ {L[i]}
<1>1. n \in Nat /\ i \in Int /\ 1 <= i /\ i <= n /\ ToSet(L) = {L[k] : k \in 1..n}
  BY GoodFacts
<1>2. \A k \in 1..(n - 1) : Loose(L[k], L[k + 1])
  BY DEF Merged
<1>3. PICK s : s = Marked(L, i, TRUE)
  OBVIOUS
<1>4. /\ Good(s) /\ Len(s) = n
      /\ s[i].addr = L[i].addr /\ s[i].free
      /\ \A k \in 1..n : k # i => s[k] = L[k]
      /\ ToSet(s) = {s[i]} \cup {L[k] : k \in 1..n \ {i}}
      /\ \A a \in Nat : Covered(s, a) <=> Covered(L, a)
  <2>1. PICK v \in BOOLEAN : v
    BY Zenon
  <2>2. Good(L) /\ n = Len(L) /\ i \in 1..n /\ v \in BOOLEAN /\ s = Marked(L, i, v)
    BY <1>3, <2>1
  <2>3. Good(s) /\ Len(s) = n /\ s[i].addr = L[i].addr
    BY ONLY <2>2, MarkFacts
  <2>4. s[i].free = v
    BY ONLY <2>2, MarkFacts
  <2>5. \A k \in 1..n : k # i => s[k] = L[k]
    BY ONLY <2>2, MarkFacts
  <2>6. ToSet(s) = {s[i]} \cup {L[k] : k \in 1..n \ {i}}
    BY ONLY <2>2, MarkFacts
  <2>7. \A a \in Nat : Covered(s, a) <=> Covered(L, a)
    BY ONLY <2>2, MarkFacts
  <2> QED BY ONLY <2>1, <2>3, <2>4, <2>5, <2>6, <2>7
<1>5. InUse(s) = InUse(L) \ {L[i]}
  <2>1. \A k \in 1..n \ {i} : L[k] # L[i]
    BY GoodInjective
  <2> QED BY ONLY <1>1, <1>4, <2>1, i \in 1..n DEF InUse
<1>6. PICK t : t = coalesce_forward(s, i)
  OBVIOUS
<1>7. /\ Good(t) /\ i \in 1..Len(t)
      /\ t[i].addr = s[i].addr /\ t[i].free
      /\ \A k \in 1..(i - 1) : t[k] = s[k]
      /\ InUse(t) = InUse(s)
      /\ \A a \in Nat : Covered(t, a) <=> Covered(s, a)
  <2>0. Good(s) /\ n = Len(s) /\ i \in 1..n /\ s[i].free
    BY <1>4
  <2>1. Good(t) /\ i \in 1..Len(t) /\ t[i].addr = s[i].addr /\ t[i].free
    BY ONLY <1>6, <2>0, CoalesceFacts
  <2>2. \A k \in 1..(i - 1) : t[k] = s[k]
    BY ONLY <1>6, <2>0, CoalesceFacts
  <2>3. InUse(t) = InUse(s) /\ \A a \in Nat : Covered(t, a) <=> Covered(s, a)
    BY ONLY <1>6, <2>0, CoalesceFacts
  <2> QED BY ONLY <2>1, <2>2, <2>3
<1>8. \A k \in 1..(i - 2) : Loose(s[k], s[k + 1])
  <2>1. \A k \in 1..(i - 2) : k \in 1..n /\ k + 1 \in 1..n /\ k # i /\ k + 1 # i /\ k \in 1..(n - 1)
    BY <1>1
  <2> QED BY ONLY <1>2, <1>4, <2>1, Zenon
<1>9. MergedFrom(s, i + 1)
  <2>1. \A k \in (i + 1)..(n - 1) : k \in 1..n /\ k + 1 \in 1..n /\ k # i /\ k + 1 # i /\ k \in 1..(n - 1)
    BY <1>1
  <2> QED BY ONLY <1>2, <1>4, <2>1, Zenon DEF MergedFrom
<1>10. i \in i..n /\ Mergeable(s, i, i)
  BY <1>1 DEF Mergeable
<1>11. MergedFrom(t, i)
  <2>0. Good(s) /\ n = Len(s) /\ i \in 1..n /\ s[i].free
    BY <1>4
  <2> QED BY ONLY <1>6, <1>9, <1>10, <2>0, CoalesceFacts
<1>12. CASE ~MergesBack(t, i)
  <2>1. r = t
    BY <1>3, <1>6, <1>12, Zenon DEF Freed, Marked
  <2>2. i > 1 => Loose(s[i - 1], s[i])
    <3>1. i > 1 => i - 1 \in 1..(i - 1)
      BY <1>1
    <3> QED BY ONLY <1>7, <1>12, <3>1 DEF MergesBack, Loose, blocks_touch
  <2>3. Merged(t)
    <3>1. Good(s) /\ n = Len(s) /\ i \in 1..n /\ s[i].free
      BY <1>4
    <3> QED BY ONLY <1>6, <1>8, <1>9, <1>10, <2>2, <3>1, CoalesceMerged
  <2> QED BY <1>4, <1>5, <1>7, <2>1, <2>3
<1>13. CASE MergesBack(t, i)
  <2>1. r = coalesce_forward(t, i - 1)
    BY <1>3, <1>6, <1>13, Zenon DEF Freed, Marked
  <2>2. PICK o, q : o = Len(t) /\ q = i - 1
    OBVIOUS
  <2>3. /\ i > 1 /\ t[q].free /\ blocks_touch(t[q], t[i])
    BY <1>13, <2>2 DEF MergesBack
  <2>4. o \in Nat /\ i \in 1..o /\ q \in 1..o /\ q \in Int /\ q + 1 = i /\ i \in q..o /\ i - 1 = q
    <3>1. o \in Nat
      BY <1>7, <2>2, GoodFacts
    <3> QED BY <1>1, <1>7, <2>2, <2>3, <3>1
  <2>5. /\ Good(r) /\ InUse(r) = InUse(t)
        /\ \A a \in Nat : Covered(r, a) <=> Covered(t, a)
    <3>1. r = coalesce_forward(t, q)
      BY <2>1, <2>2
    <3> QED BY ONLY <1>7, <2>2, <2>3, <2>4, <3>1, CoalesceFacts
  <2>6. Mergeable(t, q, i)
    <3>1. \A k \in (q + 1)..i : k = i
      BY ONLY <2>4
    <3> QED BY ONLY <1>7, <2>3, <2>4, <3>1, Zenon DEF Mergeable
  <2>7. MergedFrom(t, i + 1)
    <3>1. \A k \in (i + 1)..(Len(t) - 1) : k \in i..(Len(t) - 1)
      BY ONLY <2>2, <2>4
    <3> QED BY ONLY <1>11, <3>1 DEF MergedFrom
  <2>8. \A k \in 1..(q - 2) : Loose(t[k], t[k + 1])
    <3>1. \A k \in 1..(q - 2) : k \in 1..(i - 1) /\ k + 1 \in 1..(i - 1) /\ k \in 1..(i - 2)
      BY ONLY <2>4
    <3> QED BY ONLY <1>7, <1>8, <3>1, Zenon
  <2>9. q > 1 => Loose(t[q - 1], t[q])
    <3>1. q > 1 => q - 1 \in 1..(i - 1) /\ q \in 1..(i - 1) /\ q - 1 \in 1..(i - 2) /\ (q - 1) + 1 = q
      BY ONLY <2>4
    <3> QED BY ONLY <1>7, <1>8, <3>1, Zenon
  <2>10. Merged(r)
    <3>1. r = coalesce_forward(t, q)
      BY <2>1, <2>2
    <3> QED BY ONLY <1>7, <2>2, <2>3, <2>4, <2>6, <2>7, <2>8, <2>9, <3>1, CoalesceMerged
  <2> QED BY <1>4, <1>5, <1>7, <2>5, <2>10
<1> QED BY <1>12, <1>13

-----------------------------------------------------------------------------
(* kmalloc, once it has a block *)

(* The list r serves a request from the free block at i of the list L.     *)
Serves(L, i, size, r) ==
  /\ Good(r) /\ Merged(r)
  /\ \A a \in Nat : Covered(r, a) <=> Covered(L, a)
  /\ \E b \in SoundBlock :
        ~b.free /\ b.addr = L[i].addr /\ b.size >= size /\ InUse(r) = InUse(L) \cup {b}

(* split_block leaves the block as it is. *)
LEMMA AllottedWhole ==
  ASSUME NEW L, Good(L), Merged(L), NEW n, n = Len(L), NEW i \in 1..n, L[i].free,
         NEW size \in Nat, size <= L[i].size, NEW r, r = Marked(L, i, FALSE)
  PROVE  Serves(L, i, size, r)
<1>1. n \in Nat /\ i \in Int /\ 1 <= i /\ i <= n /\ ToSet(L) = {L[k] : k \in 1..n}
  BY GoodFacts
<1>2. \A k \in 1..(n - 1) : Loose(L[k], L[k + 1])
  BY DEF Merged
<1>3. /\ Good(r) /\ Len(r) = n
      /\ r[i].addr = L[i].addr /\ r[i].size = L[i].size /\ ~r[i].free
      /\ \A k \in 1..n : k # i => r[k] = L[k]
      /\ ToSet(r) = {r[i]} \cup {L[k] : k \in 1..n \ {i}}
      /\ \A a \in Nat : Covered(r, a) <=> Covered(L, a)
  <2>1. PICK v \in BOOLEAN : ~v
    BY Zenon
  <2>2. Good(L) /\ n = Len(L) /\ i \in 1..n /\ v \in BOOLEAN /\ r = Marked(L, i, v)
    BY <2>1
  <2>3. Good(r) /\ Len(r) = n /\ r[i].addr = L[i].addr /\ r[i].size = L[i].size
    BY ONLY <2>2, MarkFacts
  <2>4. r[i].free = v
    BY ONLY <2>2, MarkFacts
  <2>5. \A k \in 1..n : k # i => r[k] = L[k]
    BY ONLY <2>2, MarkFacts
  <2>6. ToSet(r) = {r[i]} \cup {L[k] : k \in 1..n \ {i}}
    BY ONLY <2>2, MarkFacts
  <2>7. \A a \in Nat : Covered(r, a) <=> Covered(L, a)
    BY ONLY <2>2, MarkFacts
  <2> QED BY ONLY <2>1, <2>3, <2>4, <2>5, <2>6, <2>7
<1>4. Merged(r)
  <2>1. ASSUME NEW k \in 1..(n - 1) PROVE Loose(r[k], r[k + 1])
    <3>1. k \in 1..n /\ k + 1 \in 1..n
      BY <1>1
    <3>2. CASE k = i \/ k + 1 = i
      BY ONLY <1>3, <3>2 DEF Loose
    <3>3. CASE k # i /\ k + 1 # i
      BY ONLY <1>2, <1>3, <3>1, <3>3, k \in 1..(n - 1)
    <3> QED BY <3>2, <3>3
  <2> QED BY ONLY <1>3, <2>1 DEF Merged
<1>5. InUse(r) = InUse(L) \cup {r[i]}
  BY ONLY <1>1, <1>3, i \in 1..n, L[i].free DEF InUse
<1>6. r[i] \in SoundBlock
  BY <1>3, GoodFacts
<1> QED BY ONLY <1>3, <1>4, <1>5, <1>6, size <= L[i].size DEF Serves

(* split_block cuts the block in two. *)
LEMMA TwoBlocks ==
  ASSUME NEW b \in SoundBlock, NEW c \in SoundBlock, block_end(b) <= c.addr, NEW M, M = <<b, c>>
  PROVE  Good(M) /\ M \in Seq(SoundBlock) /\ Len(M) = 2 /\ M[1] = b /\ M[2] = c /\ ToSet(M) = {b, c}
<1>1. M \in Seq(SoundBlock) /\ Len(M) = 2 /\ M[1] = b /\ M[2] = c /\ DOMAIN M = 1..2
  OBVIOUS
<1>2. \A k \in 1..2 : k = 1 \/ k = 2
  OBVIOUS
<1>3. Good(M)
  BY <1>1, <1>2 DEF Good, Sorted
<1>4. ToSet(M) = {b, c}
  BY <1>1, <1>2 DEF ToSet
<1> QED BY <1>1, <1>3, <1>4

(* What is cut off is a block of its own, behind the one handed out. *)
LEMMA SplitBlocks ==
  ASSUME NEW e \in SoundBlock, NEW size \in Nat, size > 0, size % Align = 0,
         e.size > size + Header + Align,
         NEW b, b = [addr |-> e.addr, size |-> size, free |-> FALSE],
         NEW c, c = [addr |-> e.addr + Header + size, size |-> e.size - size - Header, free |-> TRUE]
  PROVE  /\ b \in SoundBlock /\ c \in SoundBlock
         /\ block_end(b) = c.addr /\ block_end(c) = block_end(e)
<1>1. PICK ea, es : ea = e.addr /\ es = e.size
  OBVIOUS
<1>2. ea \in Nat /\ es \in Nat /\ ea % Align = 0 /\ es % Align = 0
  BY <1>1, BlockFacts
<1>3. Align \in Nat /\ Align > 0 /\ Header \in Nat /\ Header % Align = 0
  BY HeapConstants
<1>4. Header + size \in Nat /\ (Header + size) % Align = 0
  <2>1. (Header + size) % Align = 0
    BY ONLY <1>3, MultiplesAdd, size \in Nat, size % Align = 0, Zenon
  <2> QED BY <1>3, <2>1
<1>5. (ea + (Header + size)) % Align = 0
  BY ONLY <1>2, <1>3, <1>4, MultiplesAdd, Zenon
<1>6. Header + size < es /\ Header + size <= es
  <2>1. es > size + Header + Align
    BY <1>1
  <2> QED BY ONLY <1>2, <1>3, <2>1, size \in Nat
<1>7. (es - (Header + size)) % Align = 0
  BY ONLY <1>2, <1>3, <1>4, <1>6, MultiplesAdd, Zenon
<1>8. PICK ca, cs : ca = ea + Header + size /\ cs = es - size - Header
  OBVIOUS
<1>9. ca = ea + (Header + size) /\ cs = es - (Header + size) /\ ca \in Nat /\ cs \in Nat /\ cs > 0
  <2>1. ea \in Nat /\ es \in Nat /\ Header \in Nat /\ size \in Nat /\ Header + size < es
    BY <1>2, <1>3, <1>6
  <2> QED BY ONLY <1>8, <2>1
<1>10. ca % Align = 0 /\ cs % Align = 0
  BY ONLY <1>5, <1>7, <1>9
<1>11. b \in Block /\ b.addr = ea /\ b.size = size
  BY <1>1, <1>2 DEF Block
<1>12. c \in Block /\ c.addr = ca /\ c.size = cs
  BY <1>1, <1>8, <1>9 DEF Block
<1>13. b \in SoundBlock /\ c \in SoundBlock
  BY <1>2, <1>9, <1>10, <1>11, <1>12 DEF SoundBlock
<1>14. block_end(b) = ca /\ block_end(c) = ca + Header + cs /\ block_end(e) = ea + Header + es
  BY <1>1, <1>8, <1>11, <1>12 DEF block_end
<1>15. ca + Header + cs = ea + Header + es
  BY ONLY <1>2, <1>3, <1>8, size \in Nat
<1> QED BY <1>12, <1>13, <1>14, <1>15

LEMMA SplitFacts ==
  ASSUME NEW L, Good(L), Merged(L), NEW n, n = Len(L), NEW i \in 1..n, L[i].free,
         NEW b \in SoundBlock, NEW c \in SoundBlock, ~b.free, c.free,
         b.addr = L[i].addr, block_end(b) = c.addr, block_end(c) = block_end(L[i]),
         NEW size, b.size >= size,
         NEW M, M = <<b, c>>, NEW r, r = Splice(L, i, i, M)
  PROVE  Serves(L, i, size, r)
<1>1. /\ n \in Nat /\ i \in Int /\ 1 <= i /\ i <= i + 1 /\ i <= n /\ i <= Len(L)
      /\ L \in Seq(SoundBlock) /\ ToSet(L) = {L[k] : k \in 1..n}
  BY GoodFacts
<1>2. \A k \in 1..(n - 1) : Loose(L[k], L[k + 1])
  BY DEF Merged
<1>3. \A k, l \in 1..n : k < l => block_end(L[k]) <= L[l].addr
  BY GoodFacts
<1>4. Good(M) /\ M \in Seq(SoundBlock) /\ Len(M) = 2 /\ M[1] = b /\ M[2] = c /\ ToSet(M) = {b, c}
  <2>1. block_end(b) <= c.addr
    BY BlockFacts
  <2> QED BY ONLY <2>1, TwoBlocks, b \in SoundBlock, c \in SoundBlock, M = <<b, c>>
<1>5. \A l \in 1..Len(M) : l = 1 \/ l = 2
  BY ONLY <1>4
<1>6. Good(r)
  <2>1. ASSUME NEW k \in 1..(i - 1), NEW l \in 1..Len(M) PROVE block_end(L[k]) <= M[l].addr
    <3>1. k \in 1..n /\ k < i
      BY <1>1
    <3>2. block_end(L[k]) <= b.addr
      BY <1>3, <3>1, Zenon
    <3>3. block_end(L[k]) \in Nat
      BY <3>1, GoodFacts, BlockFacts
    <3>4. block_end(L[k]) <= c.addr
      BY ONLY <3>2, <3>3, b \in SoundBlock, c \in SoundBlock, block_end(b) = c.addr, BlockFacts
    <3> QED BY ONLY <1>4, <1>5, <3>2, <3>4, l \in 1..Len(M), Zenon
  <2>2. ASSUME NEW k \in (i + 1)..Len(L), NEW l \in 1..Len(M) PROVE block_end(M[l]) <= L[k].addr
    <3>1. k \in 1..n /\ i < k
      BY <1>1
    <3>2. block_end(c) <= L[k].addr
      BY <1>3, <3>1, Zenon
    <3>3. L[k].addr \in Nat
      BY <3>1, GoodFacts, BlockFacts
    <3>4. block_end(b) <= L[k].addr
      BY ONLY <3>2, <3>3, b \in SoundBlock, c \in SoundBlock, block_end(b) = c.addr, BlockFacts
    <3> QED BY ONLY <1>4, <1>5, <3>2, <3>4, l \in 1..Len(M), Zenon
  <2>3. Good(Splice(L, i, i, M))
    BY ONLY SpliceGood, <1>1, <1>4, <2>1, <2>2, Good(L)
  <2> QED BY ONLY <2>3, r = Splice(L, i, i, M)
<1>7. Merged(r)
  <2>1. \A k \in 1..(i - 2) : Loose(L[k], L[k + 1])
    BY <1>1, <1>2
  <2>2. i > 1 => Loose(L[i - 1], M[1])
    BY ONLY <1>4, ~b.free DEF Loose
  <2>3. \A k \in 1..(Len(M) - 1) : Loose(M[k], M[k + 1])
    <3>1. \A k \in 1..(Len(M) - 1) : k = 1
      BY ONLY <1>4
    <3> QED BY ONLY <1>4, <3>1, ~b.free DEF Loose
  <2>4. i < Len(L) => Loose(M[Len(M)], L[i + 1])
    <3>1. i < Len(L) => Loose(L[i], L[i + 1])
      BY <1>1, <1>2
    <3> QED BY ONLY <1>4, <3>1, L[i].free, block_end(c) = block_end(L[i]) DEF Loose, blocks_touch
  <2>5. \A k \in (i + 1)..(Len(L) - 1) : Loose(L[k], L[k + 1])
    BY <1>1, <1>2
  <2>6. Len(M) > 0
    BY ONLY <1>4
  <2>7. Merged(Splice(L, i, i, M))
    BY ONLY SpliceMerged, <1>1, <1>4, <2>1, <2>2, <2>3, <2>4, <2>5, <2>6
  <2> QED BY ONLY <2>7, r = Splice(L, i, i, M)
<1>8. ASSUME NEW a \in Nat PROVE Covered(r, a) <=> Covered(L, a)
  <2>1. L[i] \in SoundBlock
    BY GoodFacts
  <2>2. Spans(L[i], a) <=> Spans(b, a) \/ Spans(c, a)
    <3>1. PICK e : e = L[i]
      OBVIOUS
    <3>2. e \in SoundBlock /\ b.addr = e.addr /\ block_end(c) = block_end(e)
      BY <2>1, <3>1
    <3>3. Spans(e, a) <=> Spans(b, a) \/ Spans(c, a)
      BY ONLY <3>2, b \in SoundBlock, c \in SoundBlock, block_end(b) = c.addr, a \in Nat, BlockFacts
         DEF Spans
    <3> QED BY <3>1, <3>3
  <2>3. (\E k \in 1..Len(M) : Spans(M[k], a)) <=> Spans(b, a) \/ Spans(c, a)
    <3>1. 1 \in 1..Len(M) /\ 2 \in 1..Len(M)
      BY ONLY <1>4
    <3> QED BY ONLY <1>4, <1>5, <3>1, Zenon
  <2>4. (\E k \in i..i : Spans(L[k], a)) <=> Spans(L[i], a)
    BY <1>1
  <2> DEFINE X == a # a
  <2>5. (\E k \in 1..Len(M) : Spans(M[k], a)) <=> ((\E k \in i..i : Spans(L[k], a)) \/ X)
    BY ONLY <2>2, <2>3, <2>4
  <2> HIDE DEF X
  <2>6. Covered(Splice(L, i, i, M), a) <=> Covered(L, a) \/ X
    <3>1. /\ L \in Seq(SoundBlock) /\ M \in Seq(SoundBlock) /\ i \in Int
          /\ 1 <= i /\ i <= i + 1 /\ i <= Len(L)
      BY ONLY <1>1, <1>4
    <3> QED BY ONLY SpliceCovers, <2>5, <3>1
  <2>7. ~X
    BY DEF X
  <2> QED BY ONLY <2>6, <2>7, r = Splice(L, i, i, M)
<1>9. InUse(r) = InUse(L) \cup {b}
  <2>1. ToSet(Splice(L, i, i, M))
          = {L[k] : k \in 1..(i - 1)} \cup ToSet(M) \cup {L[k] : k \in (i + 1)..Len(L)}
    BY ONLY SpliceRange, <1>1, <1>4
  <2>2. ToSet(r) = {L[k] : k \in 1..(i - 1)} \cup {b, c} \cup {L[k] : k \in (i + 1)..n}
    BY ONLY <1>4, <2>1, r = Splice(L, i, i, M), n = Len(L)
  <2>3. /\ \A k \in 1..n : k \in 1..(i - 1) \/ k = i \/ k \in (i + 1)..n
        /\ \A k \in 1..(i - 1) : k \in 1..n
        /\ \A k \in (i + 1)..n : k \in 1..n
    BY ONLY <1>1
  <2> QED BY ONLY <1>1, <2>2, <2>3, L[i].free, ~b.free, c.free DEF InUse
<1> QED BY <1>6, <1>7, <1>8, <1>9 DEF Serves

Splits(S, L, n, i, M, r) ==
  /\ L \in Seq(S) /\ n = Len(L) /\ M \in Seq(S) /\ Len(M) = 2 /\ i \in 1..n
  /\ r = Splice(L, i, i, M)

LEMMA SpliceTwo ==
  ASSUME NEW S, NEW L, NEW n, NEW i, NEW M, NEW r, Splits(S, L, n, i, M, r)
  PROVE  /\ r \in Seq(S) /\ Len(r) = n + 1 /\ r[i] = M[1] /\ r[i + 1] = M[2]
         /\ \A k \in 1..(n + 1) : k # i /\ k # i + 1 => r[k] = IF k < i THEN L[k] ELSE L[k - 1]
<1>0. /\ L \in Seq(S) /\ n = Len(L) /\ M \in Seq(S) /\ Len(M) = 2 /\ i \in 1..n
      /\ r = Splice(L, i, i, M)
  BY DEF Splits
<1>1. n \in Nat
  BY <1>0, LenProperties
<1>2. i \in Int /\ 1 <= i /\ i <= n /\ i <= i + 1 /\ i <= Len(L)
  BY <1>0, <1>1
<1> L \in Seq(S) /\ M \in Seq(S)
  BY <1>0
<1>3. Splice(L, i, i, M) \in Seq(S)
  BY ONLY SpliceFacts, <1>2, L \in Seq(S), M \in Seq(S)
<1>4. Len(Splice(L, i, i, M)) = (i - 1) + Len(M) + (Len(L) - i)
  BY ONLY SpliceFacts, <1>2, L \in Seq(S), M \in Seq(S)
<1>5. \A k \in 1..((i - 1) + Len(M) + (Len(L) - i)) :
        Splice(L, i, i, M)[k]
          = IF k < i THEN L[k] ELSE IF k < i + Len(M) THEN M[k - i + 1]
            ELSE L[k - (i - 1) - Len(M) + i]
  BY ONLY SpliceFacts, <1>2, L \in Seq(S), M \in Seq(S)
<1>6. Len(r) = (i - 1) + 2 + (n - i)
  BY ONLY <1>4, <1>0
<1>7. (i - 1) + 2 + (n - i) = n + 1
  BY ONLY <1>1, <1>2
<1>8. \A k \in 1..(n + 1) :
        r[k] = IF k < i THEN L[k] ELSE IF k < i + 2 THEN M[k - i + 1] ELSE L[k - (i - 1) - 2 + i]
  BY ONLY <1>5, <1>7, <1>0
<1>9. r[i] = M[1]
  <2>1. i \in 1..(n + 1) /\ ~(i < i) /\ i < i + 2 /\ i - i + 1 = 1
    BY ONLY <1>1, <1>2
  <2> QED BY ONLY <1>8, <2>1
<1>10. r[i + 1] = M[2]
  <2>1. i + 1 \in 1..(n + 1) /\ ~(i + 1 < i) /\ i + 1 < i + 2 /\ (i + 1) - i + 1 = 2
    BY ONLY <1>1, <1>2
  <2> QED BY ONLY <1>8, <2>1
<1>11. ASSUME NEW k \in 1..(n + 1), k # i, k # i + 1
       PROVE  r[k] = IF k < i THEN L[k] ELSE L[k - 1]
  <2>1. k - (i - 1) - 2 + i = k - 1 /\ (k < i + 2 => k < i)
    BY ONLY <1>1, <1>2, <1>11
  <2> QED BY ONLY <1>8, <1>11, <2>1
<1> QED BY ONLY <1>3, <1>6, <1>7, <1>9, <1>10, <1>11, <1>0

(* kmalloc: one more block is in use, at the address of the block that was *)
(* found and large enough; the others stay as they are.                    *)
LEMMA AllottedFacts ==
  ASSUME NEW L, Good(L), Merged(L), NEW i \in DOMAIN L, L[i].free,
         NEW size \in Nat, size > 0, size % Align = 0, size <= L[i].size
  PROVE  Serves(L, i, size, Allotted(L, i, size))
<1>1. PICK n, e : n = Len(L) /\ e = L[i]
  OBVIOUS
<1>2. n \in Nat /\ i \in 1..n /\ e \in SoundBlock /\ L \in Seq(SoundBlock)
  BY <1>1, GoodFacts
<1>3. CASE e.size <= size + Header + Align
  <2>1. Allotted(L, i, size) = Marked(L, i, FALSE)
    BY <1>1, <1>3 DEF Allotted, split_block, Marked
  <2> QED BY <1>1, <1>2, <2>1, AllottedWhole
<1>4. CASE ~(e.size <= size + Header + Align)
  <2>1. e.size > size + Header + Align
    <3>1. e.size \in Nat /\ Header \in Nat /\ Align \in Nat
      BY <1>2, BlockFacts, HeapConstants
    <3>2. PICK x : x = e.size
      OBVIOUS
    <3> QED BY ONLY <1>4, <3>1, <3>2, size \in Nat
  <2>2. PICK b, c, M : /\ b = [addr |-> e.addr, size |-> size, free |-> FALSE]
                       /\ c = [addr |-> e.addr + Header + size, size |-> e.size - size - Header, free |-> TRUE]
                       /\ M = <<b, c>>
    OBVIOUS
  <2>3. /\ b \in SoundBlock /\ c \in SoundBlock
        /\ block_end(b) = c.addr /\ block_end(c) = block_end(e)
    BY ONLY <1>2, <2>1, <2>2, SplitBlocks, size \in Nat, size > 0, size % Align = 0
  <2>4. PICK b0, N : b0 = [e EXCEPT !.size = size] /\ N = <<b0, c>>
    OBVIOUS
  <2>5. e \in Block /\ e.free
    BY <1>1, <1>2, BlockFacts
  <2>6. b0 \in Block /\ b = [b0 EXCEPT !.free = FALSE]
    <3>1. b0 \in Block /\ b0.addr = e.addr /\ b0.size = size
      BY ONLY <2>4, <2>5, size \in Nat DEF Block
    <3>2. PICK b1 : b1 = [b0 EXCEPT !.free = FALSE]
      OBVIOUS
    <3>3. b1 \in Block /\ b1.addr = e.addr /\ b1.size = size /\ ~b1.free
      BY ONLY <3>1, <3>2 DEF Block
    <3>4. b \in Block /\ b.addr = e.addr /\ b.size = size /\ ~b.free
      BY <2>2, <2>3, BlockFacts
    <3>5. b = b1
      BY ONLY <3>3, <3>4 DEF Block
    <3> QED BY ONLY <3>1, <3>2, <3>5
  <2>7. PICK u, t : u = Splice(L, i, i, N) /\ t = Splice(L, i, i, M)
    OBVIOUS
  <2>8. Allotted(L, i, size) = Marked(u, i, FALSE)
    BY <1>1, <1>4, <2>2, <2>4, <2>7, Zenon DEF Allotted, split_block, Marked, Splice
  <2>9. Marked(u, i, FALSE) = t
    <3>1. /\ i \in Int /\ 1 <= i /\ i <= i + 1 /\ i <= Len(L) /\ n = Len(L)
          /\ L \in Seq(Block) /\ N \in Seq(Block) /\ M \in Seq(Block)
          /\ Len(N) = 2 /\ Len(M) = 2 /\ N[1] = b0 /\ M[1] = b /\ N[2] = c /\ M[2] = c
      <4>1. L \in Seq(Block)
        BY <1>1, <1>2, SeqDef, BlockFacts, ElementOfSeq
      <4>2. b \in Block /\ c \in Block
        BY <2>3, BlockFacts
      <4> QED BY <1>1, <1>2, <2>2, <2>4, <2>6, <4>1, <4>2
    <3>2. /\ u \in Seq(Block) /\ Len(u) = n + 1 /\ u[i] = b0 /\ u[i + 1] = c
          /\ \A k \in 1..(n + 1) : k # i /\ k # i + 1 => u[k] = IF k < i THEN L[k] ELSE L[k - 1]
      <4>1. Splits(Block, L, n, i, N, u)
        BY ONLY <1>2, <2>7, <3>1 DEF Splits
      <4>2. u \in Seq(Block) /\ Len(u) = n + 1 /\ u[i] = N[1] /\ u[i + 1] = N[2]
        BY ONLY <4>1, SpliceTwo
      <4>3. \A k \in 1..(n + 1) : k # i /\ k # i + 1 => u[k] = IF k < i THEN L[k] ELSE L[k - 1]
        BY ONLY <4>1, SpliceTwo
      <4> QED BY ONLY <3>1, <4>2, <4>3, Zenon
    <3>3. /\ t \in Seq(Block) /\ Len(t) = n + 1 /\ t[i] = b /\ t[i + 1] = c
          /\ \A k \in 1..(n + 1) : k # i /\ k # i + 1 => t[k] = IF k < i THEN L[k] ELSE L[k - 1]
      <4>1. Splits(Block, L, n, i, M, t)
        BY ONLY <1>2, <2>7, <3>1 DEF Splits
      <4>2. t \in Seq(Block) /\ Len(t) = n + 1 /\ t[i] = M[1] /\ t[i + 1] = M[2]
        BY ONLY <4>1, SpliceTwo
      <4>3. \A k \in 1..(n + 1) : k # i /\ k # i + 1 => t[k] = IF k < i THEN L[k] ELSE L[k - 1]
        BY ONLY <4>1, SpliceTwo
      <4> QED BY ONLY <3>1, <4>2, <4>3, Zenon
    <3>4. i \in 1..(n + 1) /\ b \in Block /\ n + 1 \in Nat
      BY <1>2, <2>3, BlockFacts
    <3>5. Marked(u, i, FALSE) = [u EXCEPT ![i] = b]
      BY <2>6, <3>2 DEF Marked
    <3>6. PICK w : w = [u EXCEPT ![i] = b]
      OBVIOUS
    <3>7. w \in Seq(Block) /\ Len(w) = n + 1 /\ w[i] = b /\ \A k \in 1..(n + 1) : k # i => w[k] = u[k]
      BY ONLY <3>2, <3>4, <3>6, ExceptSeq
    <3>8. \A k \in 1..Len(w) : w[k] = t[k]
      <4>1. ASSUME NEW k \in 1..(n + 1) PROVE w[k] = t[k]
        <5>1. CASE k = i
          BY ONLY <3>3, <3>7, <5>1
        <5>2. CASE k # i
          <6>1. w[k] = u[k]
            BY <3>7, <5>2
          <6>2. CASE k = i + 1
            BY ONLY <3>2, <3>3, <6>1, <6>2
          <6>3. CASE k # i + 1
            BY ONLY <3>2, <3>3, <4>1, <5>2, <6>1, <6>3, Zenon
          <6> QED BY <6>2, <6>3
        <5> QED BY <5>1, <5>2
      <4> QED BY <3>7, <4>1
    <3>9. w = t
      BY ONLY <3>3, <3>7, <3>8, SeqEqual
    <3> QED BY ONLY <3>5, <3>6, <3>9
  <2>10. Serves(L, i, size, t)
    <3>1. /\ ~b.free /\ c.free /\ b.addr = L[i].addr /\ block_end(c) = block_end(L[i])
          /\ b.size >= size
      BY <1>1, <2>2, <2>3
    <3> QED BY ONLY <1>1, <1>2, <2>2, <2>3, <2>7, <3>1, SplitFacts, Good(L), Merged(L), L[i].free
  <2> QED BY <2>8, <2>9, <2>10
<1> QED BY <1>3, <1>4

-----------------------------------------------------------------------------
(* insert_block_sorted *)

(* The block shares no byte with a block of the list. *)
Apart(L, b) == \A k \in DOMAIN L : block_end(L[k]) <= b.addr \/ block_end(b) <= L[k].addr

(* Counting the blocks at lower addresses finds the place between those    *)
(* before the new block and those after it.                                *)
LEMMA PositionFacts ==
  ASSUME NEW L, Good(L), NEW n, n = Len(L), NEW b \in SoundBlock, Apart(L, b),
         NEW i, i = Position(L, b.addr)
  PROVE  /\ i \in 1..(n + 1)
         /\ \A k \in 1..(i - 1) : block_end(L[k]) <= b.addr
         /\ \A k \in i..n : block_end(b) <= L[k].addr
<1>1. n \in Nat /\ DOMAIN L = 1..n /\ \A k \in 1..n : L[k] \in SoundBlock
  BY GoodFacts
<1>2. \A k, l \in 1..n : k <= l => L[k].addr <= L[l].addr
  BY GoodOrder
<1>3. PICK D : D = {k \in 1..n : L[k].addr < b.addr}
  OBVIOUS
<1>4. D \subseteq 1..n /\ D \subseteq Nat
  BY <1>1, <1>3
<1>5. \E p \in 0..n : D = 1..p
  <2>1. CASE D = {}
    BY <1>1, <2>1
  <2>2. CASE D # {}
    <3>1. \A x \in D : x <= n
      BY <1>1, <1>4
    <3>2. PICK p : p = Max(D)
      OBVIOUS
    <3>3. p \in D /\ \A x \in D : x <= p
      BY <1>1, <1>4, <2>2, <3>1, <3>2, MaxFacts
    <3>4. p \in 1..n /\ L[p].addr < b.addr
      BY <1>3, <3>3
    <3>5. ASSUME NEW k \in 1..p PROVE k \in D
      <4>1. k \in 1..n /\ k <= p
        BY <1>1, <3>4
      <4>2. L[k].addr <= L[p].addr
        BY <1>2, <3>4, <4>1, Zenon
      <4>3. PICK x, y, z : x = L[k].addr /\ y = L[p].addr /\ z = b.addr
        OBVIOUS
      <4>4. x \in Nat /\ y \in Nat /\ z \in Nat /\ x <= y /\ y < z
        BY <1>1, <3>4, <4>1, <4>2, <4>3, BlockFacts
      <4>5. x < z
        BY ONLY <4>4
      <4> QED BY <1>3, <4>1, <4>3, <4>5
    <3>6. \A x \in D : x \in 1..p
      BY <1>4, <3>3, <3>4
    <3>7. p \in 0..n
      BY ONLY <1>1, <3>4
    <3>8. D = 1..p
      BY ONLY <3>5, <3>6, Zenon
    <3> QED BY <3>7, <3>8
  <2> QED BY <2>1, <2>2
<1>6. PICK p \in 0..n : D = 1..p
  BY <1>5
<1>7. Cardinality(1..p) = p
  <2>1. 1 \in Int /\ p \in Int
    BY <1>1
  <2>2. Cardinality(1..p) = IF 1 > p THEN 0 ELSE p - 1 + 1
    BY <2>1, FS_Interval
  <2> QED BY <1>1, <2>2
<1>8. i = p + 1
  BY <1>1, <1>3, <1>6, <1>7, Zenon DEF Position
<1>9. i \in 1..(n + 1) /\ 1..(i - 1) = 1..p /\ p \in Int
  BY <1>1, <1>6, <1>8
<1>10. ASSUME NEW k \in 1..(i - 1) PROVE block_end(L[k]) <= b.addr
  <2>1. k \in D
    BY <1>6, <1>9
  <2>2. k \in 1..n /\ L[k].addr < b.addr
    BY <1>3, <2>1
  <2>3. PICK c : c = L[k]
    OBVIOUS
  <2>4. c \in SoundBlock /\ c.addr < b.addr /\ (block_end(c) <= b.addr \/ block_end(b) <= c.addr)
    BY <1>1, <2>2, <2>3, Zenon DEF Apart
  <2>5. block_end(c) <= b.addr
    BY ONLY <2>4, b \in SoundBlock, BlockFacts
  <2> QED BY <2>3, <2>5
<1>11. ASSUME NEW k \in i..n PROVE block_end(b) <= L[k].addr
  <2>1. k \in 1..n /\ ~(k \in 1..p)
    BY ONLY <1>1, <1>6, <1>8, <1>11
  <2>2. ~(L[k].addr < b.addr)
    BY <1>3, <1>6, <2>1
  <2>3. PICK c : c = L[k]
    OBVIOUS
  <2>4. c \in SoundBlock /\ ~(c.addr < b.addr) /\ (block_end(c) <= b.addr \/ block_end(b) <= c.addr)
    BY <1>1, <2>1, <2>2, <2>3, Zenon DEF Apart
  <2>5. block_end(b) <= c.addr
    BY ONLY <2>4, b \in SoundBlock, BlockFacts
  <2> QED BY <2>3, <2>5
<1> QED BY <1>9, <1>10, <1>11

(* The list with the new block linked. *)
LEMMA LinkedFacts ==
  ASSUME NEW L, Good(L), Merged(L), NEW n, n = Len(L), NEW b \in SoundBlock, b.free, Apart(L, b),
         NEW i, i = Position(L, b.addr), NEW r, r = InsertAt(L, i, b)
  PROVE  /\ Good(r) /\ Len(r) = n + 1 /\ i \in 1..(n + 1) /\ r[i] = b
         /\ \A k \in 1..(i - 2) : Loose(r[k], r[k + 1])
         /\ MergedFrom(r, i + 1)
         /\ InUse(r) = InUse(L)
         /\ \A a \in Nat : Covered(r, a) <=> Covered(L, a) \/ Spans(b, a)
<1>1. n \in Nat /\ L \in Seq(SoundBlock) /\ ToSet(L) = {L[k] : k \in 1..n}
  BY GoodFacts
<1>2. /\ i \in 1..(n + 1)
      /\ \A k \in 1..(i - 1) : block_end(L[k]) <= b.addr
      /\ \A k \in i..n : block_end(b) <= L[k].addr
  BY PositionFacts
<1>3. PICK j : j = i - 1
  OBVIOUS
<1>4. i \in Int /\ j \in Int /\ 1 <= i /\ i <= j + 1 /\ j <= n /\ j + 1 = i
  BY <1>1, <1>2, <1>3
<1>5. \A k \in 1..(n - 1) : Loose(L[k], L[k + 1])
  BY DEF Merged
<1>6. r = Splice(L, i, j, <<b>>)
  BY <1>4 DEF InsertAt, Splice
<1>7. Replacing(L, n, i, j, b, r)
  BY <1>4, <1>6 DEF Replacing
<1>8. Len(r) = n - j + i /\ r[i] = b
  BY ONLY <1>7, ReplaceFacts
<1>9. \A k \in 1..(i - 1) : r[k] = L[k]
  BY ONLY <1>7, ReplaceFacts
<1>10. \A k \in (j + 1)..n : r[k - j + i] = L[k]
  BY ONLY <1>7, ReplaceFacts
<1>11. ToSet(r) = {b} \cup Kept(L, n, i, j)
  BY ONLY <1>7, ReplaceFacts
<1>12. Len(r) = n + 1
  BY ONLY <1>1, <1>3, <1>4, <1>8
<1>13. Good(r)
  <2>1. \A k \in (j + 1)..n : block_end(b) <= L[k].addr
    BY <1>2, <1>4
  <2> QED BY ONLY <1>2, <1>7, <2>1, ReplaceGood
<1>14. \A k \in 1..(i - 2) : Loose(r[k], r[k + 1])
  <2>1. \A k \in 1..(i - 2) : k \in 1..(n - 1) /\ k \in 1..(i - 1) /\ k + 1 \in 1..(i - 1)
    BY ONLY <1>1, <1>2, <1>4
  <2> QED BY ONLY <1>5, <1>9, <2>1, Zenon
<1>15. MergedFrom(r, i + 1)
  <2>1. ASSUME NEW k \in (i + 1)..(Len(r) - 1) PROVE Loose(r[k], r[k + 1])
    <3>1. PICK l : l = k - 1
      OBVIOUS
    <3>2. /\ l \in 1..(n - 1) /\ l \in (j + 1)..n /\ l + 1 \in (j + 1)..n
          /\ l - j + i = k /\ (l + 1) - j + i = k + 1
      BY ONLY <1>1, <1>3, <1>4, <1>12, <2>1, <3>1
    <3>3. r[k] = L[l] /\ r[k + 1] = L[l + 1]
      BY ONLY <1>10, <3>2
    <3> QED BY <1>5, <3>2, <3>3
  <2> QED BY <2>1 DEF MergedFrom
<1>16. InUse(r) = InUse(L)
  <2>1. /\ \A k \in 1..n : k \in 1..(i - 1) \/ k \in (j + 1)..n
        /\ \A k \in 1..(i - 1) : k \in 1..n
        /\ \A k \in (j + 1)..n : k \in 1..n
    BY ONLY <1>1, <1>4
  <2> QED BY ONLY <1>1, <1>11, <2>1, b.free DEF InUse, Kept
<1>17. ASSUME NEW a \in Nat PROVE Covered(r, a) <=> Covered(L, a) \/ Spans(b, a)
  <2>1. ~\E k \in i..j : Spans(L[k], a)
    BY <1>4
  <2> DEFINE X == Spans(b, a)
  <2>2. Spans(b, a) <=> (\E k \in i..j : Spans(L[k], a)) \/ X
    BY <2>1
  <2> HIDE DEF X
  <2>3. Covered(r, a) <=> Covered(L, a) \/ X
    BY ONLY <1>7, <2>2, ReplaceCovers
  <2> QED BY <2>3 DEF X
<1> QED BY <1>2, <1>8, <1>12, <1>13, <1>14, <1>15, <1>16, <1>17

(* The page that grow_heap adds: its bytes are covered, nothing that was   *)
(* in use changes, and the block returned is free and no smaller than it.  *)
LEMMA InsertFacts ==
  ASSUME NEW L, Good(L), Merged(L), NEW b \in SoundBlock, b.free, Apart(L, b),
         NEW g, g = insert_block_sorted(L, b)
  PROVE  /\ Good(g.list) /\ Merged(g.list)
         /\ g.index \in DOMAIN g.list /\ g.list[g.index].free /\ b.size <= g.list[g.index].size
         /\ InUse(g.list) = InUse(L)
         /\ \A a \in Nat : Covered(g.list, a) <=> Covered(L, a) \/ Spans(b, a)
<1>1. PICK n, i, l : n = Len(L) /\ i = Position(L, b.addr) /\ l = InsertAt(L, i, b)
  OBVIOUS
<1>2. /\ Good(l) /\ Len(l) = n + 1 /\ i \in 1..(n + 1) /\ l[i] = b
      /\ \A k \in 1..(i - 2) : Loose(l[k], l[k + 1])
      /\ MergedFrom(l, i + 1)
      /\ InUse(l) = InUse(L)
      /\ \A a \in Nat : Covered(l, a) <=> Covered(L, a) \/ Spans(b, a)
  <2>1. /\ Good(L) /\ Merged(L) /\ n = Len(L) /\ b \in SoundBlock /\ b.free /\ Apart(L, b)
        /\ i = Position(L, b.addr) /\ l = InsertAt(L, i, b)
    BY <1>1
  <2>2. Good(l) /\ Len(l) = n + 1 /\ i \in 1..(n + 1) /\ l[i] = b
    BY ONLY <2>1, LinkedFacts
  <2>3. \A k \in 1..(i - 2) : Loose(l[k], l[k + 1])
    BY ONLY <2>1, LinkedFacts
  <2>4. MergedFrom(l, i + 1) /\ InUse(l) = InUse(L)
    BY ONLY <2>1, LinkedFacts
  <2>5. \A a \in Nat : Covered(l, a) <=> Covered(L, a) \/ Spans(b, a)
    BY ONLY <2>1, LinkedFacts
  <2> QED BY <2>2, <2>3, <2>4, <2>5
<1>3. PICK q, m : q = (IF MergesBack(l, i) THEN i - 1 ELSE i) /\ m = n + 1
  OBVIOUS
<1>4. n \in Nat /\ m \in Nat /\ i \in Int /\ 1 <= i /\ i <= m /\ m = Len(l)
  <2>1. n \in Nat
    BY <1>1, GoodFacts
  <2> QED BY <1>2, <1>3, <2>1
<1>5. /\ q \in 1..m /\ q \in Int /\ i \in q..m /\ (q = i \/ (q + 1 = i /\ MergesBack(l, i)))
      /\ (q = i => ~MergesBack(l, i))
  <2>1. CASE MergesBack(l, i)
    <3>1. q = i - 1
      BY ONLY <1>3, <2>1
    <3>2. i > 1
      BY <2>1 DEF MergesBack
    <3>3. q \in 1..m /\ q \in Int /\ i \in q..m /\ q + 1 = i /\ q # i
      BY ONLY <1>4, <3>1, <3>2
    <3> QED BY ONLY <2>1, <3>3
  <2>2. CASE ~MergesBack(l, i)
    <3>1. q = i
      BY ONLY <1>3, <2>2
    <3>2. q \in 1..m /\ q \in Int /\ i \in q..m
      BY ONLY <1>4, <3>1
    <3> QED BY ONLY <2>2, <3>1, <3>2
  <2> QED BY <2>1, <2>2
<1>6. l[q].free
  <2>1. CASE q = i
    BY <1>2, <2>1
  <2>2. CASE q + 1 = i /\ MergesBack(l, i)
    <3>1. i - 1 = q
      BY <1>5, <2>2
    <3> QED BY <2>2, <3>1 DEF MergesBack
  <2> QED BY <1>5, <2>1, <2>2
<1>7. Mergeable(l, q, i)
  <2>1. CASE q = i
    BY <1>4, <2>1 DEF Mergeable
  <2>2. CASE q + 1 = i /\ MergesBack(l, i)
    <3>1. \A k \in (q + 1)..i : k = i
      BY <1>4, <1>5, <2>2
    <3>2. l[i].free /\ blocks_touch(l[i - 1], l[i])
      BY <1>2, <2>2 DEF MergesBack
    <3> QED BY <3>1, <3>2, Zenon DEF Mergeable
  <2> QED BY <1>5, <2>1, <2>2
<1>8. PICK r : r = coalesce_forward(l, q)
  OBVIOUS
<1>9. g.list = r /\ g.index = q
  BY <1>1, <1>3, <1>8 DEF insert_block_sorted
<1>10. /\ Good(r) /\ q \in 1..Len(r) /\ r[q].free
       /\ InUse(r) = InUse(l)
       /\ \A a \in Nat : Covered(r, a) <=> Covered(l, a)
       /\ l[i].size <= r[q].size
  <2>1. Good(l) /\ m = Len(l) /\ q \in 1..m /\ l[q].free /\ r = coalesce_forward(l, q)
    BY <1>2, <1>4, <1>5, <1>6, <1>8
  <2>2. Good(r) /\ q \in 1..Len(r) /\ r[q].free
    BY ONLY <2>1, CoalesceFacts
  <2>3. InUse(r) = InUse(l) /\ \A a \in Nat : Covered(r, a) <=> Covered(l, a)
    BY ONLY <2>1, CoalesceFacts
  <2>4. l[i].size <= r[q].size
    BY ONLY <1>5, <1>7, <2>1, CoalesceFacts
  <2> QED BY <2>2, <2>3, <2>4
<1>11. Merged(r)
  <2>1. Good(l) /\ m = Len(l) /\ q \in 1..m /\ l[q].free /\ r = coalesce_forward(l, q)
    BY <1>2, <1>4, <1>5, <1>6, <1>8
  <2>2. \A k \in 1..(q - 2) : Loose(l[k], l[k + 1])
    <3>1. \A k \in 1..(q - 2) : k \in 1..(i - 2)
      BY ONLY <1>4, <1>5
    <3> QED BY <1>2, <3>1
  <2>3. q > 1 => Loose(l[q - 1], l[q])
    <3>1. CASE q = i
      <4>1. ~MergesBack(l, i)
        BY <1>5, <3>1
      <4> QED BY ONLY <3>1, <4>1, <1>2 DEF MergesBack, Loose
    <3>2. CASE q + 1 = i
      <4>1. q > 1 => q - 1 \in 1..(i - 2) /\ (q - 1) + 1 = q
        BY ONLY <1>4, <1>5, <3>2
      <4> QED BY <1>2, <4>1
    <3> QED BY <1>5, <3>1, <3>2
  <2> QED BY ONLY <1>2, <1>5, <1>7, <2>1, <2>2, <2>3, CoalesceMerged
<1>12. DOMAIN r = 1..Len(r)
  BY <1>10, GoodFacts
<1> QED BY <1>2, <1>9, <1>10, <1>11, <1>12

-----------------------------------------------------------------------------
(* Blocks, pages and pointers *)

(* The blocks cover the bytes of the pages P and no others. *)
Tiles(L, P) == \A a \in Nat : Covered(L, a) <=> a \div PageSize \in P

(* The pointers R and the blocks in use belong together. *)
RangesOK(L, R) ==
  /\ DOMAIN R \subseteq Nat
  /\ \A p \in DOMAIN R : R[p] \in Nat \ {0}
  /\ \A p \in DOMAIN R : \E b \in InUse(L) : Payload(b) = p /\ R[p] <= b.size
  /\ \A b \in InUse(L) : Payload(b) \in DOMAIN R

(* If every byte from lo to hi lies in a page of P, the pages from that of *)
(* lo to that of hi are pages of P.                                        *)
LEMMA PagesBetween ==
  ASSUME NEW lo \in Nat, NEW hi \in Nat, NEW P,
         \A a \in Nat : lo <= a /\ a <= hi => a \div PageSize \in P
  PROVE  lo <= hi => (lo \div PageSize)..(hi \div PageSize) \subseteq P
<1> SUFFICES ASSUME lo <= hi, NEW x \in (lo \div PageSize)..(hi \div PageSize) PROVE x \in P
  OBVIOUS
<1>1. PICK n, u, v : n = PageSize /\ u = lo \div PageSize /\ v = hi \div PageSize
  OBVIOUS
<1>2. n \in Nat /\ n > 0
  BY <1>1, HeapConstants
<1>3. u \in Nat /\ u * n \in Nat /\ u * n <= lo /\ lo < u * n + n
  <2>1. u \in Nat
    BY <1>1, PageOfByte
  <2> QED BY <1>1, <2>1, PageOfByte
<1>4. v \in Nat /\ v * n \in Nat /\ v * n <= hi
  <2>1. v \in Nat
    BY <1>1, PageOfByte
  <2> QED BY <1>1, <2>1, PageOfByte
<1>5. x \in Nat /\ u <= x /\ x <= v
  BY <1>1, <1>3, <1>4
<1>6. CASE x = u
  <2>1. lo \div PageSize \in P
    BY HeapConstants
  <2> QED BY <1>1, <1>6, <2>1
<1>7. CASE u < x
  <2>1. x * n \in Nat /\ u * n + n <= x * n /\ x * n <= v * n
    <3>1. (u + 1) * n <= x * n /\ x * n <= v * n /\ x * n \in Nat
      BY ONLY <1>2, <1>3, <1>4, <1>5, <1>7
    <3>2. (u + 1) * n = u * n + n
      BY ONLY <1>2, <1>3
    <3> QED BY <3>1, <3>2
  <2>2. PICK a : a = x * n
    OBVIOUS
  <2>3. a \in Nat /\ lo <= a /\ a <= hi
    BY ONLY <1>2, <1>3, <1>4, <2>1, <2>2, lo \in Nat, hi \in Nat
  <2>4. a \div PageSize = x
    <3>1. x * PageSize <= a /\ a < x * PageSize + PageSize
      BY <1>1, <1>2, <2>2, <2>3
    <3> QED BY <1>5, <2>3, <3>1, PageOfByte
  <2>5. a \div PageSize \in P
    BY <2>3
  <2> QED BY <2>4, <2>5
<1> QED BY <1>3, <1>5, <1>6, <1>7

(* A block covers its bytes. *)
LEMMA BlockTiles ==
  ASSUME NEW L, Good(L), NEW P, Tiles(L, P), NEW b \in ToSet(L), NEW a \in Nat,
         b.addr <= a, a < block_end(b)
  PROVE  a \div PageSize \in P
BY DEF Tiles, Covered, ToSet

(* The pointers once size bytes were handed out at p. *)
Granted(R, p, size) == [q \in DOMAIN R \cup {p} |-> IF q = p THEN size ELSE R[q]]

(* kmalloc: the pointer returned is new to the heap's clients, its bytes   *)
(* are nobody else's and lie in the heap's pages.                          *)
LEMMA ServedRange ==
  ASSUME NEW L, Good(L), NEW i \in DOMAIN L, L[i].free, NEW r, NEW s \in Nat, Serves(L, i, s, r),
         NEW R, RangesOK(L, R), NEW size \in Nat, size > 0, size <= s,
         NEW p, p = Payload(L[i]),
         NEW Q, Q = Granted(R, p, size),
         NEW P, Tiles(r, P)
  PROVE  /\ RangesOK(r, Q)
         /\ \A q \in DOMAIN R : Ranges!Disjoint(p, size, q, R[q])
         /\ Ranges!PagesOf(p, size) \subseteq P
<1>1. /\ Good(r)
      /\ \E b \in SoundBlock :
            ~b.free /\ b.addr = L[i].addr /\ b.size >= s /\ InUse(r) = InUse(L) \cup {b}
  BY DEF Serves
<1>2. PICK b \in SoundBlock :
            ~b.free /\ b.addr = L[i].addr /\ b.size >= s /\ InUse(r) = InUse(L) \cup {b}
  BY <1>1
<1>3. /\ b.addr \in Nat /\ b.size \in Nat /\ Payload(b) = b.addr + Header
      /\ block_end(b) = Payload(b) + b.size /\ Payload(b) \in Nat /\ b.addr < Payload(b)
  BY BlockFacts
<1>4. p = Payload(b) /\ size <= b.size
  <2>1. p = Payload(b)
    BY <1>2 DEF Payload
  <2> QED BY ONLY <1>2, <1>3, <2>1, size \in Nat, s \in Nat, size <= s
<1>5. b \in ToSet(r) /\ InUse(r) \subseteq ToSet(r) /\ InUse(L) \subseteq ToSet(L)
  BY <1>2 DEF InUse
<1>6. DOMAIN Q = DOMAIN R \cup {p} /\ Q[p] = size /\ \A q \in DOMAIN R : q # p => Q[q] = R[q]
  BY DEF Granted
<1>7. /\ DOMAIN R \subseteq Nat
      /\ \A q \in DOMAIN R : R[q] \in Nat \ {0}
      /\ \A q \in DOMAIN R : \E c \in InUse(L) : Payload(c) = q /\ R[q] <= c.size
      /\ \A c \in InUse(L) : Payload(c) \in DOMAIN R
  BY DEF RangesOK
<1>8. RangesOK(r, Q)
  <2>1. DOMAIN Q \subseteq Nat
    BY <1>3, <1>4, <1>6, <1>7
  <2>2. \A q \in DOMAIN Q : Q[q] \in Nat \ {0}
    BY <1>6, <1>7
  <2>3. ASSUME NEW q \in DOMAIN Q PROVE \E c \in InUse(r) : Payload(c) = q /\ Q[q] <= c.size
    <3>1. CASE q = p
      BY <1>2, <1>4, <1>6, <3>1
    <3>2. CASE q # p
      BY <1>2, <1>6, <1>7, <3>2
    <3> QED BY <3>1, <3>2
  <2>4. \A c \in InUse(r) : Payload(c) \in DOMAIN Q
    BY <1>2, <1>4, <1>6, <1>7
  <2> QED BY <2>1, <2>2, <2>3, <2>4 DEF RangesOK
<1>9. ASSUME NEW q \in DOMAIN R PROVE Ranges!Disjoint(p, size, q, R[q])
  <2>1. PICK c \in InUse(L) : Payload(c) = q /\ R[q] <= c.size
    BY <1>7
  <2>2. c \in ToSet(L) /\ c \in ToSet(r) /\ ~c.free
    BY <1>2, <1>5 DEF InUse
  <2>3. c \in SoundBlock /\ L[i] \in ToSet(L) /\ L[i] \in SoundBlock
    BY <2>2, GoodFacts DEF ToSet
  <2>4. c # L[i]
    BY <2>2
  <2>5. c.addr # L[i].addr
    <3>1. Payload(c) # Payload(L[i])
      BY <2>2, <2>3, <2>4, BlocksApart
    <3> QED BY <3>1 DEF Payload
  <2>6. c # b
    BY <1>2, <2>5
  <2>7. block_end(b) <= c.addr \/ block_end(c) <= b.addr
    BY <1>1, <1>5, <2>2, <2>6, BlocksApart
  <2>8. /\ c.addr \in Nat /\ c.size \in Nat /\ block_end(c) = Payload(c) + c.size
        /\ Payload(c) \in Nat /\ c.addr < Payload(c)
    BY <2>3, BlockFacts
  <2>9. PICK z : z = R[q]
    OBVIOUS
  <2>10. z \in Nat /\ z <= c.size /\ Payload(c) = q
    BY <1>7, <2>1, <2>9
  <2>11. p + size <= q \/ q + z <= p
    BY ONLY <1>3, <1>4, <2>7, <2>8, <2>10, size \in Nat
  <2> QED BY <2>9, <2>11 DEF Ranges!Disjoint
<1>10. Ranges!PagesOf(p, size) \subseteq P
  <2>1. PICK hi : hi = p + size - 1
    OBVIOUS
  <2>2. p \in Nat /\ hi \in Nat /\ p <= hi
    BY ONLY <1>3, <1>4, <2>1, size \in Nat, size > 0
  <2>3. ASSUME NEW a \in Nat, p <= a, a <= hi PROVE a \div PageSize \in P
    <3>1. b.addr <= a /\ a < block_end(b)
      BY ONLY <1>3, <1>4, <2>1, <2>3, size \in Nat
    <3> QED BY <1>1, <1>5, <3>1, BlockTiles
  <2>4. (p \div PageSize)..(hi \div PageSize) \subseteq P
    BY <2>2, <2>3, PagesBetween
  <2> QED BY <2>1, <2>4 DEF Ranges!PagesOf
<1> QED BY <1>8, <1>9, <1>10

(* kfree: the pointers that stay keep their blocks. *)
LEMMA FreedRange ==
  ASSUME NEW L, Good(L), NEW i \in DOMAIN L, ~L[i].free, NEW r, InUse(r) = InUse(L) \ {L[i]},
         NEW R, RangesOK(L, R), NEW p \in DOMAIN R, p = Payload(L[i]),
         NEW Q, Q = [q \in DOMAIN R \ {p} |-> R[q]]
  PROVE  RangesOK(r, Q)
<1>1. DOMAIN Q = DOMAIN R \ {p} /\ \A q \in DOMAIN Q : Q[q] = R[q]
  OBVIOUS
<1>2. /\ DOMAIN R \subseteq Nat
      /\ \A q \in DOMAIN R : R[q] \in Nat \ {0}
      /\ \A q \in DOMAIN R : \E c \in InUse(L) : Payload(c) = q /\ R[q] <= c.size
      /\ \A c \in InUse(L) : Payload(c) \in DOMAIN R
  BY DEF RangesOK
<1>3. ASSUME NEW q \in DOMAIN Q PROVE \E c \in InUse(r) : Payload(c) = q /\ Q[q] <= c.size
  <2>1. PICK c \in InUse(L) : Payload(c) = q /\ R[q] <= c.size
    BY <1>1, <1>2
  <2>2. c # L[i]
    BY <1>1, <2>1
  <2> QED BY <1>1, <2>1, <2>2
<1>4. ASSUME NEW c \in InUse(r) PROVE Payload(c) \in DOMAIN Q
  <2>1. c \in InUse(L) /\ c # L[i] /\ c \in ToSet(L) /\ L[i] \in ToSet(L)
    BY DEF InUse, ToSet
  <2>2. Payload(c) # p
    BY <2>1, BlocksApart
  <2> QED BY <1>1, <1>2, <2>1, <2>2
<1> QED BY <1>1, <1>2, <1>3, <1>4 DEF RangesOK

(* grow_heap: the block that a new page becomes is that page, and it is    *)
(* apart from the blocks of the other pages.                               *)
LEMMA PageBlock ==
  ASSUME NEW page \in Nat,
         NEW b, b = [addr |-> page * PageSize, size |-> Capacity, free |-> TRUE]
  PROVE  /\ b \in SoundBlock /\ b.free /\ b.size = Capacity
         /\ \A a \in Nat : Spans(b, a) <=> a \div PageSize = page
<1>1. PICK n, h, c : n = PageSize /\ h = Header /\ c = Capacity
  OBVIOUS
<1>2. n \in Nat /\ h \in Nat /\ Align \in Nat /\ Align > 0 /\ n > 0 /\ h + Align <= n
  BY <1>1, HeapConstants
<1>3. c = n - h
  BY <1>1 DEF Capacity
<1>4. c \in Nat /\ c > 0 /\ h + c = n /\ h <= n
  BY ONLY <1>2, <1>3
<1>5. c % Align = 0
  <2>1. n % Align = 0 /\ h % Align = 0
    BY <1>1, HeapConstants
  <2>2. (n - h) % Align = 0
    BY ONLY <1>2, <1>4, <2>1, MultiplesAdd, Zenon
  <2> QED BY <1>3, <2>2
<1>6. page * n \in Nat /\ (page * n) % Align = 0
  <2>1. n % Align = 0
    BY <1>1, HeapConstants
  <2>2. PICK k \in Nat : n = k * Align
    BY ONLY <1>2, <2>1, Multiple
  <2>3. page * n = (page * k) * Align /\ page * k \in Nat
    BY ONLY <1>2, <2>2, page \in Nat
  <2>4. \A x \in Int : (x * Align) % Align = 0
    BY ONLY <1>2
  <2>5. ((page * k) * Align) % Align = 0
    BY ONLY <2>3, <2>4
  <2>6. page * n \in Nat
    BY ONLY <1>2, page \in Nat
  <2> QED BY ONLY <2>3, <2>5, <2>6
<1>7. b \in Block /\ b.addr = page * n /\ b.size = c /\ b.free
  BY <1>1, <1>4, <1>6 DEF Block
<1>8. b \in SoundBlock
  BY <1>4, <1>5, <1>6, <1>7 DEF SoundBlock
<1>9. block_end(b) = page * n + n
  <2>1. block_end(b) = page * n + h + c
    BY <1>1, <1>7 DEF block_end
  <2>2. PICK x : x = page * n
    OBVIOUS
  <2> QED BY ONLY <1>2, <1>4, <1>6, <2>1, <2>2
<1>10. ASSUME NEW a \in Nat PROVE Spans(b, a) <=> a \div PageSize = page
  <2>1. a \div PageSize = page <=> page * PageSize <= a /\ a < page * PageSize + PageSize
    BY PageOfByte
  <2> QED BY <1>1, <1>7, <1>9, <2>1 DEF Spans
<1> QED BY <1>1, <1>7, <1>8, <1>10

LEMMA PageApart ==
  ASSUME NEW L, Good(L), NEW P, Tiles(L, P), NEW page \in Nat, page \notin P,
         NEW b \in SoundBlock, \A a \in Nat : Spans(b, a) <=> a \div PageSize = page
  PROVE  Apart(L, b)
<1> SUFFICES ASSUME NEW k \in DOMAIN L, ~(block_end(L[k]) <= b.addr), ~(block_end(b) <= L[k].addr)
             PROVE  FALSE
  BY DEF Apart
<1>1. PICK c : c = L[k]
  OBVIOUS
<1>2. c \in SoundBlock /\ c \in ToSet(L)
  BY <1>1, GoodFacts DEF ToSet
<1>3. /\ c.addr \in Nat /\ block_end(c) \in Nat /\ b.addr \in Nat /\ block_end(b) \in Nat
      /\ c.addr < block_end(c) /\ b.addr < block_end(b)
      /\ b.addr < block_end(c) /\ c.addr < block_end(b)
  BY <1>1, <1>2, BlockFacts
<1>4. PICK a \in Nat : c.addr <= a /\ a < block_end(c) /\ b.addr <= a /\ a < block_end(b)
  <2>1. CASE c.addr <= b.addr
    BY ONLY <1>3, <2>1
  <2>2. CASE b.addr <= c.addr
    BY ONLY <1>3, <2>2
  <2> QED BY <1>3, <2>1, <2>2
<1>5. a \div PageSize \in P
  BY <1>2, <1>4, BlockTiles
<1>6. a \div PageSize = page
  BY <1>4 DEF Spans
<1> QED BY <1>5, <1>6

-----------------------------------------------------------------------------
(* The invariant of the heap: the free list is sound, the list of blocks   *)
(* is in order and merged, the blocks cover exactly the pages that the     *)
(* heap took, and every pointer in use has its block.                      *)

HeapInv ==
  /\ IInv
  /\ Good(blocks) /\ Merged(blocks)
  /\ Tiles(blocks, HeapPages)
  /\ RangesOK(blocks, ranges)

LEMMA HeapInitInv == HeapInit => HeapInv /\ Ranges!AbsInit
<1> SUFFICES ASSUME HeapInit PROVE HeapInv /\ Ranges!AbsInit
  OBVIOUS
<1>1. Init /\ blocks = <<>> /\ ranges = <<>>
  BY DEF HeapInit
<1>2. IInv /\ Abstract!AbsInit
  BY <1>1, InitInv
<1>3. HeapPages = {}
  <2>1. ToSet(freeList) = Pages /\ held = {}
    BY <1>2 DEF Abstract!AbsInit
  <2> QED BY <2>1 DEF HeapPages
<1>4. blocks \in Seq(SoundBlock) /\ DOMAIN blocks = {} /\ Len(blocks) = 0 /\ DOMAIN ranges = {}
  BY <1>1
<1>5. Good(blocks) /\ Merged(blocks)
  BY <1>4 DEF Good, Sorted, Merged
<1>6. InUse(blocks) = {} /\ \A a : ~Covered(blocks, a)
  BY <1>4 DEF InUse, ToSet, Covered
<1>7. Tiles(blocks, HeapPages)
  BY <1>3, <1>6 DEF Tiles
<1>8. RangesOK(blocks, ranges)
  BY <1>4, <1>6 DEF RangesOK
<1>9. Ranges!AbsInit
  BY <1>1, <1>3 DEF Ranges!AbsInit
<1> QED BY <1>2, <1>5, <1>7, <1>8, <1>9 DEF HeapInv

(* kmalloc where find_block has a block. *)
LEMMA FoundStep ==
  ASSUME HeapInv, NEW size \in Nat, AllocFound(size)
  PROVE  HeapInv' /\ Ranges!AbsNext
<1>1. size > 0 /\ Found(blocks, align_up(size)) /\ UNCHANGED vars
  BY DEF AllocFound
<1>2. PICK s : s = align_up(size)
  OBVIOUS
<1>3. s \in Nat /\ s % Align = 0 /\ size <= s /\ s > 0
  <2>1. s \in Nat /\ s % Align = 0 /\ size <= s
    BY <1>1, <1>2, AlignUpFacts
  <2> QED BY <1>1, <2>1
<1>4. PICK i : i = find_block(blocks, s)
  OBVIOUS
<1>5. /\ IInv /\ Good(blocks) /\ Merged(blocks) /\ Tiles(blocks, HeapPages)
      /\ RangesOK(blocks, ranges)
  BY DEF HeapInv
<1>6. i \in DOMAIN blocks /\ blocks[i].free /\ s <= blocks[i].size
  <2>1. PICK T : T = {k \in DOMAIN blocks : Fits(blocks, k, s)}
    OBVIOUS
  <2>2. T # {} /\ T \subseteq Nat
    BY <1>1, <1>2, <1>5, <2>1, GoodFacts DEF Found
  <2>3. i \in T
    BY <1>4, <2>1, <2>2, MinFacts DEF find_block
  <2>4. i \in DOMAIN blocks /\ blocks[i].free /\ blocks[i].size >= s
    BY <2>1, <2>3 DEF Fits
  <2> QED BY <2>4
<1>7. PICK p : p = Payload(blocks[i])
  OBVIOUS
<1>8. /\ blocks' = Allotted(blocks, i, s)
      /\ ranges' = Granted(ranges, p, size)
  BY <1>2, <1>4, <1>7 DEF AllocFound, Handed, Granted
<1>9. Serves(blocks, i, s, blocks')
  BY <1>3, <1>5, <1>6, <1>8, AllottedFacts
<1>10. HeapPages' = HeapPages
  BY <1>1 DEF HeapPages, vars
<1>11. Good(blocks') /\ Merged(blocks') /\ Tiles(blocks', HeapPages)
  BY <1>5, <1>9 DEF Serves, Tiles
<1>12. /\ RangesOK(blocks', ranges')
       /\ \A q \in DOMAIN ranges : Ranges!Disjoint(p, size, q, ranges[q])
       /\ Ranges!PagesOf(p, size) \subseteq HeapPages
  <2>1. PICK r, Q, P : r = blocks' /\ Q = ranges' /\ P = HeapPages
    OBVIOUS
  <2>2. /\ Good(blocks) /\ i \in DOMAIN blocks /\ blocks[i].free /\ s \in Nat
        /\ Serves(blocks, i, s, r) /\ RangesOK(blocks, ranges) /\ size \in Nat /\ size > 0
        /\ size <= s /\ p = Payload(blocks[i]) /\ Q = Granted(ranges, p, size) /\ Tiles(r, P)
    BY <1>1, <1>3, <1>5, <1>6, <1>7, <1>8, <1>9, <1>11, <2>1
  <2>3. RangesOK(r, Q)
    BY ONLY <2>2, ServedRange
  <2>4. \A q \in DOMAIN ranges : Ranges!Disjoint(p, size, q, ranges[q])
    BY ONLY <2>2, ServedRange
  <2>5. Ranges!PagesOf(p, size) \subseteq P
    BY ONLY <2>2, ServedRange
  <2> QED BY <2>1, <2>3, <2>4, <2>5
<1>13. IInv'
  BY <1>1, <1>5 DEF vars, IInv, TypeOK, NoPageListedTwice, CountIsLength, Split
<1>14. HeapInv'
  BY <1>10, <1>11, <1>12, <1>13 DEF HeapInv
<1>15. p \in DOMAIN ranges' /\ ranges'[p] = size
  BY <1>8 DEF Granted
<1>16. Ranges!Acquire(p, ranges'[p])
  BY <1>8, <1>10, <1>12, <1>15 DEF Ranges!Acquire, Granted
<1> QED BY <1>14, <1>15, <1>16 DEF Ranges!AbsNext

(* kmalloc where it has none: grow_heap adds a page. *)
LEMMA GrowStep ==
  ASSUME HeapInv, NEW size \in Nat, AllocGrow(size)
  PROVE  HeapInv' /\ Ranges!AbsNext
<1>1. PICK s, page : s = align_up(size) /\ page = palloc_alloc(freeList)
  OBVIOUS
<1>2. size > 0 /\ s <= Capacity /\ freeList # <<>>
  BY <1>1 DEF AllocGrow
<1>3. s \in Nat /\ s % Align = 0 /\ size <= s /\ s > 0
  <2>1. s \in Nat /\ s % Align = 0 /\ size <= s
    BY <1>1, <1>2, AlignUpFacts
  <2> QED BY <1>2, <2>1
<1>4. /\ IInv /\ Good(blocks) /\ Merged(blocks) /\ Tiles(blocks, HeapPages)
      /\ RangesOK(blocks, ranges)
  BY DEF HeapInv
<1>5. /\ freeList \in Seq(Pages) /\ IsInjective(freeList)
      /\ free_page_count = Len(freeList) /\ free_page_count \in Int
      /\ held \subseteq Pages /\ held \cap ToSet(freeList) = {}
  BY <1>4 DEF IInv, TypeOK, NoPageListedTwice, CountIsLength, Split
<1>6. /\ freeList' = AfterAlloc(freeList) /\ free_page_count' = free_page_count - 1
      /\ held' = held
  BY DEF AllocGrow
<1>7. /\ page \in ToSet(freeList) /\ freeList' \in Seq(Pages) /\ IsInjective(freeList')
      /\ Len(freeList') = Len(freeList) - 1 /\ ToSet(freeList') = ToSet(freeList) \ {page}
  BY <1>1, <1>2, <1>5, <1>6, AllocFacts
<1>8. Len(freeList) \in Nat /\ ToSet(freeList) \subseteq Pages
  BY <1>5, ListFacts
<1>9. IInv'
  BY <1>5, <1>6, <1>7, <1>8 DEF IInv, TypeOK, NoPageListedTwice, CountIsLength, Split
<1>10. HeapPages' = HeapPages \cup {page} /\ page \notin HeapPages
  BY <1>5, <1>6, <1>7, <1>8 DEF HeapPages
<1>11. page \in Nat
  BY <1>7, <1>8, NumPagesAssumption DEF Pages
<1>12. PICK b : b = [addr |-> page * PageSize, size |-> Capacity, free |-> TRUE]
  OBVIOUS
<1>13. /\ b \in SoundBlock /\ b.free /\ b.size = Capacity
       /\ \A a \in Nat : Spans(b, a) <=> a \div PageSize = page
  BY ONLY <1>11, <1>12, PageBlock
<1>14. Apart(blocks, b)
  BY ONLY <1>4, <1>10, <1>11, <1>13, PageApart
<1>15. PICK g, L, i : g = insert_block_sorted(blocks, b) /\ L = g.list /\ i = g.index
  OBVIOUS
<1>16. /\ Good(L) /\ Merged(L) /\ i \in DOMAIN L /\ L[i].free /\ b.size <= L[i].size
       /\ InUse(L) = InUse(blocks)
       /\ \A a \in Nat : Covered(L, a) <=> Covered(blocks, a) \/ Spans(b, a)
  <2>1. /\ Good(g.list) /\ Merged(g.list)
        /\ g.index \in DOMAIN g.list /\ g.list[g.index].free /\ b.size <= g.list[g.index].size
    BY ONLY <1>4, <1>13, <1>14, <1>15, InsertFacts
  <2>2. /\ InUse(g.list) = InUse(blocks)
        /\ \A a \in Nat : Covered(g.list, a) <=> Covered(blocks, a) \/ Spans(b, a)
    BY ONLY <1>4, <1>13, <1>14, <1>15, InsertFacts
  <2> QED BY ONLY <1>15, <2>1, <2>2
<1>17. s <= L[i].size
  <2>1. L[i] \in SoundBlock
    BY <1>16, GoodFacts
  <2>2. L[i].size \in Nat /\ b.size \in Nat
    BY <1>13, <2>1, BlockFacts
  <2>3. s <= b.size
    BY <1>2, <1>13
  <2> QED BY ONLY <1>3, <1>16, <2>2, <2>3
<1>18. PICK p : p = Payload(L[i])
  OBVIOUS
<1>19. blocks' = Allotted(L, i, s) /\ ranges' = Granted(ranges, p, size)
  BY <1>1, <1>12, <1>15, <1>18 DEF AllocGrow, Handed, Granted
<1>20. Serves(L, i, s, blocks')
  BY <1>3, <1>16, <1>17, <1>19, AllottedFacts
<1>21. Good(blocks') /\ Merged(blocks') /\ \A a \in Nat : Covered(blocks', a) <=> Covered(L, a)
  BY <1>20 DEF Serves
<1>22. Tiles(blocks', HeapPages')
  <2>1. ASSUME NEW a \in Nat PROVE Covered(blocks', a) <=> a \div PageSize \in HeapPages'
    <3>1. Covered(blocks', a) <=> Covered(blocks, a) \/ Spans(b, a)
      BY <1>16, <1>21
    <3>2. Covered(blocks, a) <=> a \div PageSize \in HeapPages
      BY <1>4 DEF Tiles
    <3> QED BY <1>10, <1>13, <3>1, <3>2
  <2> QED BY <2>1 DEF Tiles
<1>23. RangesOK(L, ranges)
  BY <1>4, <1>16 DEF RangesOK
<1>24. /\ RangesOK(blocks', ranges')
       /\ \A q \in DOMAIN ranges : Ranges!Disjoint(p, size, q, ranges[q])
       /\ Ranges!PagesOf(p, size) \subseteq HeapPages'
  <2>1. PICK r, Q, P : r = blocks' /\ Q = ranges' /\ P = HeapPages'
    OBVIOUS
  <2>2. /\ Good(L) /\ i \in DOMAIN L /\ L[i].free /\ s \in Nat
        /\ Serves(L, i, s, r) /\ RangesOK(L, ranges) /\ size \in Nat /\ size > 0
        /\ size <= s /\ p = Payload(L[i]) /\ Q = Granted(ranges, p, size) /\ Tiles(r, P)
    BY <1>2, <1>3, <1>16, <1>18, <1>19, <1>20, <1>22, <1>23, <2>1
  <2>3. RangesOK(r, Q)
    BY ONLY <2>2, ServedRange
  <2>4. \A q \in DOMAIN ranges : Ranges!Disjoint(p, size, q, ranges[q])
    BY ONLY <2>2, ServedRange
  <2>5. Ranges!PagesOf(p, size) \subseteq P
    BY ONLY <2>2, ServedRange
  <2> QED BY <2>1, <2>3, <2>4, <2>5
<1>25. HeapInv'
  BY <1>9, <1>21, <1>22, <1>24 DEF HeapInv
<1>26. p \in DOMAIN ranges' /\ ranges'[p] = size
  BY <1>19 DEF Granted
<1>27. Ranges!Acquire(p, ranges'[p])
  BY <1>10, <1>19, <1>24, <1>26 DEF Ranges!Acquire, Granted
<1> QED BY <1>25, <1>26, <1>27 DEF Ranges!AbsNext

(* kfree *)
LEMMA FreeStep ==
  ASSUME HeapInv, NEW p \in DOMAIN ranges, kfree(p)
  PROVE  HeapInv' /\ Ranges!AbsNext
<1>1. PICK i : i = CHOOSE k \in HeaderOf(blocks, p) : TRUE
  OBVIOUS
<1>2. /\ HeaderOf(blocks, p) # {} /\ blocks' = Freed(blocks, i)
      /\ ranges' = [q \in DOMAIN ranges \ {p} |-> ranges[q]] /\ UNCHANGED vars
  BY <1>1 DEF kfree
<1>3. i \in HeaderOf(blocks, p)
  BY <1>1, <1>2
<1>4. i \in DOMAIN blocks /\ Payload(blocks[i]) = p /\ ~blocks[i].free
  BY <1>3 DEF HeaderOf
<1>5. /\ IInv /\ Good(blocks) /\ Merged(blocks) /\ Tiles(blocks, HeapPages)
      /\ RangesOK(blocks, ranges)
  BY DEF HeapInv
<1>6. PICK n, r : n = Len(blocks) /\ r = blocks'
  OBVIOUS
<1>7. i \in 1..n
  BY <1>4, <1>5, <1>6, GoodFacts
<1>8. /\ Good(r) /\ Merged(r) /\ InUse(r) = InUse(blocks) \ {blocks[i]}
      /\ \A a \in Nat : Covered(r, a) <=> Covered(blocks, a)
  <2>1. /\ Good(blocks) /\ Merged(blocks) /\ n = Len(blocks) /\ i \in 1..n /\ ~blocks[i].free
        /\ r = Freed(blocks, i)
    BY <1>2, <1>4, <1>5, <1>6, <1>7
  <2>2. Good(r) /\ Merged(r) /\ InUse(r) = InUse(blocks) \ {blocks[i]}
    BY ONLY <2>1, FreedFacts
  <2>3. \A a \in Nat : Covered(r, a) <=> Covered(blocks, a)
    BY ONLY <2>1, FreedFacts
  <2> QED BY <2>2, <2>3
<1>9. RangesOK(r, ranges')
  <2>1. PICK R, Q : R = ranges /\ Q = ranges'
    OBVIOUS
  <2>2. /\ Good(blocks) /\ i \in DOMAIN blocks /\ ~blocks[i].free
        /\ InUse(r) = InUse(blocks) \ {blocks[i]} /\ RangesOK(blocks, R)
        /\ p \in DOMAIN R /\ p = Payload(blocks[i]) /\ Q = [q \in DOMAIN R \ {p} |-> R[q]]
    BY <1>2, <1>4, <1>5, <1>8, <2>1
  <2>3. RangesOK(r, Q)
    BY ONLY <2>2, FreedRange
  <2> QED
    BY <2>1, <2>3
<1>10. HeapPages' = HeapPages
  BY <1>2 DEF HeapPages, vars
<1>11. Tiles(r, HeapPages)
  BY <1>5, <1>8 DEF Tiles
<1>12. IInv'
  BY <1>2, <1>5 DEF vars, IInv, TypeOK, NoPageListedTwice, CountIsLength, Split
<1>13. HeapInv'
  BY <1>6, <1>8, <1>9, <1>10, <1>11, <1>12 DEF HeapInv
<1>14. Ranges!Return(p)
  BY <1>2, <1>10 DEF Ranges!Return
<1> QED BY <1>13, <1>14 DEF Ranges!AbsNext

(* The other users of the page allocator leave the heap's pages alone. *)
LEMMA OtherStep ==
  ASSUME HeapInv, OtherAlloc \/ \E page \in held : OtherFree(page)
  PROVE  HeapInv' /\ UNCHANGED <<HeapPages, ranges>>
<1>1. /\ freeList \in Seq(Pages) /\ IsInjective(freeList)
      /\ held \subseteq Pages /\ held \cap ToSet(freeList) = {} /\ IInv
  BY DEF HeapInv, IInv, TypeOK, NoPageListedTwice, CountIsLength, Split
<1>2. UNCHANGED <<blocks, ranges>> /\ Next
  BY <1>1 DEF OtherAlloc, OtherFree, Next
<1>3. IInv' /\ [Abstract!AbsNext]_(Abstract!absVars)
  BY <1>1, <1>2, StepInv
<1>4. HeapPages' = HeapPages
  <2>1. CASE OtherAlloc
    <3>1. freeList # <<>> /\ freeList' = AfterAlloc(freeList)
          /\ held' = held \cup {palloc_alloc(freeList)}
      BY <2>1 DEF OtherAlloc, Alloc, palloc_alloc
    <3>2. /\ palloc_alloc(freeList) \in ToSet(freeList)
          /\ ToSet(freeList') = ToSet(freeList) \ {palloc_alloc(freeList)}
      BY <1>1, <3>1, AllocFacts
    <3> QED BY <3>1, <3>2 DEF HeapPages
  <2>2. ASSUME NEW page \in held, OtherFree(page) PROVE HeapPages' = HeapPages
    <3>1. freeList' = palloc_free(freeList, page) /\ held' = held \ {page}
      BY <2>2 DEF OtherFree, Free
    <3>2. page \in Pages /\ page \notin ToSet(freeList) /\ page # Null
      BY <1>1, NumPagesAssumption DEF Pages, Null
    <3>3. ToSet(freeList') = ToSet(freeList) \cup {page}
      BY <1>1, <3>1, <3>2, FreeFacts
    <3> QED BY <3>1, <3>3 DEF HeapPages
  <2> QED BY <2>1, <2>2
<1> QED BY <1>2, <1>3, <1>4 DEF HeapInv

LEMMA HeapStepInv == HeapInv /\ [HeapNext]_heapVars => HeapInv' /\ [Ranges!AbsNext]_(Ranges!absVars)
<1> SUFFICES ASSUME HeapInv, [HeapNext]_heapVars
             PROVE  HeapInv' /\ [Ranges!AbsNext]_(Ranges!absVars)
  OBVIOUS
<1>1. ASSUME NEW size \in RequestSize, kmalloc(size) PROVE HeapInv' /\ Ranges!AbsNext
  <2>1. size \in Nat
    BY HeapAssumption
  <2> QED BY <1>1, <2>1, FoundStep, GrowStep DEF kmalloc
<1>2. ASSUME NEW p \in DOMAIN ranges, kfree(p) PROVE HeapInv' /\ Ranges!AbsNext
  BY <1>2, FreeStep
<1>3. CASE OtherAlloc \/ \E page \in held : OtherFree(page)
  BY <1>3, OtherStep DEF Ranges!absVars
<1>4. CASE UNCHANGED heapVars
  BY <1>4 DEF heapVars, vars, HeapInv, IInv, TypeOK, NoPageListedTwice, CountIsLength, Split,
              HeapPages, Ranges!absVars
<1> QED BY <1>1, <1>2, <1>3, <1>4 DEF HeapNext

(* The invariant is what HeapSound says, and more. *)
LEMMA HeapInvSound == HeapInv => HeapSound
<1> SUFFICES ASSUME HeapInv PROVE HeapSound
  OBVIOUS
<1>1. /\ IInv /\ Good(blocks) /\ Merged(blocks) /\ Tiles(blocks, HeapPages)
      /\ RangesOK(blocks, ranges)
  BY DEF HeapInv
<1>2. PICK n : n = Len(blocks)
  OBVIOUS
<1>3. /\ n \in Nat /\ DOMAIN blocks = 1..n /\ blocks \in Seq(SoundBlock)
      /\ \A k \in 1..n : blocks[k] \in SoundBlock /\ blocks[k] \in ToSet(blocks)
      /\ \A k, l \in 1..n : k < l => block_end(blocks[k]) <= blocks[l].addr
  BY <1>1, <1>2, GoodFacts
<1>4. HeapTypeOK
  <2>1. blocks \in Seq(Block)
    BY <1>3, SeqMonotonic DEF SoundBlock
  <2>2. \A i \in DOMAIN blocks : blocks[i].addr % Align = 0 /\ blocks[i].size % Align = 0
    BY <1>3, BlockFacts
  <2> QED BY <1>1, <2>1, <2>2 DEF HeapTypeOK, IInv, RangesOK
<1>5. BlocksTile
  <2>1. ASSUME NEW i \in 1..(n - 1) PROVE block_end(blocks[i]) <= blocks[i + 1].addr
    <3>1. i \in 1..n /\ i + 1 \in 1..n /\ i < i + 1
      BY <1>3
    <3> QED BY <1>3, <3>1
  <2>2. ASSUME NEW i \in DOMAIN blocks PROVE Extent(blocks[i]) \subseteq HeapPages
    <3>1. PICK b, lo, hi : b = blocks[i] /\ lo = b.addr /\ hi = block_end(b) - 1
      OBVIOUS
    <3>2. b \in SoundBlock /\ b \in ToSet(blocks)
      BY <1>3, <3>1
    <3>3. b.addr \in Nat /\ block_end(b) \in Nat /\ b.addr < block_end(b)
      BY <3>2, BlockFacts
    <3>4. lo \in Nat /\ hi \in Nat /\ lo <= hi
      BY ONLY <3>1, <3>3
    <3>5. ASSUME NEW a \in Nat, lo <= a, a <= hi PROVE a \div PageSize \in HeapPages
      <4>1. b.addr <= a /\ a < block_end(b)
        BY ONLY <3>1, <3>3, <3>5
      <4> QED BY <1>1, <3>2, <4>1, BlockTiles
    <3>6. (lo \div PageSize)..(hi \div PageSize) \subseteq HeapPages
      BY <3>4, <3>5, PagesBetween
    <3> QED BY <3>1, <3>6 DEF Extent
  <2>3. ASSUME NEW page \in HeapPages PROVE Covered(blocks, page * PageSize)
    <3>1. page \in Nat
      BY NumPagesAssumption DEF HeapPages, Pages
    <3>2. PICK a : a = page * PageSize
      OBVIOUS
    <3>3. a \in Nat /\ page * PageSize <= a /\ a < page * PageSize + PageSize
      BY <3>1, <3>2, HeapConstants
    <3>4. a \div PageSize = page
      BY <3>1, <3>3, PageOfByte
    <3> QED BY <1>1, <3>2, <3>3, <3>4 DEF Tiles
  <2>4. ASSUME NEW i \in DOMAIN blocks, block_end(blocks[i]) \div PageSize \in HeapPages
        PROVE  Covered(blocks, block_end(blocks[i]))
    <3>1. block_end(blocks[i]) \in Nat
      BY <1>3, BlockFacts
    <3> QED BY <1>1, <2>4, <3>1 DEF Tiles
  <2> QED BY <1>2, <2>1, <2>2, <2>3, <2>4 DEF BlocksTile
<1>6. FullyCoalesced
  BY <1>1 DEF Merged, Loose, FullyCoalesced
<1>7. EveryPointerFreeable
  <2>1. ASSUME NEW p \in DOMAIN ranges
        PROVE  \E i \in HeaderOf(blocks, p) : blocks[i].size >= ranges[p]
    <3>1. PICK b \in InUse(blocks) : Payload(b) = p /\ ranges[p] <= b.size
      BY <1>1 DEF RangesOK
    <3>2. PICK i \in DOMAIN blocks : b = blocks[i] /\ ~b.free
      BY <3>1 DEF InUse, ToSet
    <3>3. i \in HeaderOf(blocks, p)
      BY <3>1, <3>2 DEF HeaderOf
    <3>4. ranges[p] \in Nat /\ b.size \in Nat
      BY <1>1, <1>3, <3>2, BlockFacts DEF RangesOK
    <3>5. blocks[i].size >= ranges[p]
      BY <3>1, <3>2, <3>4
    <3> QED BY <3>3, <3>5
  <2>2. {Payload(blocks[i]) : i \in {j \in DOMAIN blocks : ~blocks[j].free}} \subseteq DOMAIN ranges
    BY <1>1 DEF RangesOK, InUse, ToSet
  <2>3. DOMAIN ranges \subseteq {Payload(blocks[i]) : i \in {j \in DOMAIN blocks : ~blocks[j].free}}
    BY <1>1 DEF RangesOK, InUse, ToSet
  <2> QED BY <2>1, <2>2, <2>3 DEF EveryPointerFreeable
<1> QED BY <1>4, <1>5, <1>6, <1>7 DEF HeapSound

(* The heap's list is sound after every call, for every alignment, header  *)
(* and page size, every region and every sequence of requests, frees and   *)
(* allocations by others: the blocks tile the heap's pages without gap or  *)
(* overlap, no two free neighbours touch, and every pointer in use has in  *)
(* front of it the header that kfree will look for.                        *)
THEOREM HeapSafe == HeapSpec => []HeapSound
<1>1. HeapInit => HeapInv
  BY HeapInitInv
<1>2. HeapInv /\ [HeapNext]_heapVars => HeapInv'
  BY HeapStepInv
<1>3. HeapInv => HeapSound
  BY HeapInvSound
<1> QED BY <1>1, <1>2, <1>3, PTL DEF HeapSpec

(* heap.c implements the abstract allocator: what kmalloc returns lies in  *)
(* the heap's own pages and shares no byte with what is in use, and only a *)
(* kfree of that pointer ends its use.                                     *)
THEOREM HeapRefines == HeapSpec => RangesSpec
<1>1. HeapInit => HeapInv /\ Ranges!AbsInit
  BY HeapInitInv
<1>2. HeapInv /\ [HeapNext]_heapVars => HeapInv' /\ [Ranges!AbsNext]_(Ranges!absVars)
  BY HeapStepInv
<1> QED BY <1>1, <1>2, PTL DEF HeapSpec, RangesSpec, Ranges!AbsSpec
=============================================================================
