-------------------------- MODULE UserInputProofs --------------------------
(***************************************************************************)
(* What the kernel does with input that a user or a file chooses: the      *)
(* checks of user pointers (UserRange), the walk of a path (Namespace) and *)
(* the ELF loader (ElfImage), for every value of their constants.          *)
(*                                                                         *)
(* User pointers: the verdict on a buffer needs what the walk of the page  *)
(* tables knows in the middle: the range did not wrap, and every page      *)
(* before the current one is mapped (WalkInv).  That the walk cannot miss  *)
(* the page it stops at follows from page and last page being multiples of *)
(* the page size.                                                          *)
(*                                                                         *)
(* Paths: the walk keeps the letters of the component it is copying, and   *)
(* they are the letters of the path behind the last separator (NInv); a    *)
(* walk that ends has therefore read the whole path, and one that refuses  *)
(* has met a text that no entry of its directory has.                      *)
(*                                                                         *)
(* The loader: headers that pass the checks made on words that wrap pass   *)
(* them on numbers that do not (SegmentCheck, SpanVerdict); the window     *)
(* then holds, before the segment with number n is copied, what the        *)
(* segments before n have for it (WindowHolds, in LInv).                   *)
(***************************************************************************)
EXTENDS UserRange, Namespace, ElfImage, PageListProofs, SequenceTheorems, TLAPS

-----------------------------------------------------------------------------
(* User pointers: the invariant *)

Aligned(p) == p \in Nat /\ p % PageSize = 0
Final == start + count - 1

WalkInv ==
    pc = "walk" =>
        /\ count > 0 /\ Base <= start /\ Final < Top
        /\ Aligned(page) /\ PageOf(start) <= page /\ page <= PageOf(Final)
        /\ \A p \in UserPages : PageOf(start) <= p /\ p < page => p \in mapped

KindInv ==
    /\ copied # <<>> => count = 0
    /\ pc \in {"buffer", "walk", "valid"} => copied = <<>>
    /\ pc \in {"path", "copied"} => count = 0

PathInv ==
    pc = "path" =>
        /\ \A i \in DOMAIN copied : copied[i] # Nul
        /\ copied # <<>> => copied[1] = Slash

UInv ==
    /\ TypeOK /\ BufferVerdict /\ PathReadsUserBytes /\ PathVerdict
    /\ WalkInv /\ KindInv /\ PathInv
-----------------------------------------------------------------------------
(* Addresses and pages *)

LEMMA Constants ==
  /\ 2^Width \in Nat /\ PageSize \in Nat /\ PageSize > 0 /\ PathSize \in Nat /\ PathSize > 0
  /\ Base \in Nat /\ Top \in Nat /\ 0 < Base /\ Base < Top /\ Top < 2^Width
  /\ Aligned(Base) /\ Aligned(Top)
BY UserRangeAssumption DEF Aligned

(* A sum wraps at most once. *)
LEMMA SumFacts ==
  ASSUME NEW a \in Addresses, NEW b \in Addresses
  PROVE  /\ a \in Nat /\ b \in Nat /\ a < 2^Width /\ b < 2^Width
         /\ a + b < 2^Width => AddressSum(a, b) = a + b
         /\ a + b >= 2^Width => AddressSum(a, b) = a + b - 2^Width
<1>1. PICK n : n = 2^Width
  OBVIOUS
<1>2. n \in Nat /\ a \in 0..(n - 1) /\ b \in 0..(n - 1) /\ AddressSum(a, b) = (a + b) % n
  BY <1>1, Constants DEF Addresses, AddressSum
<1>3. a \in Nat /\ b \in Nat /\ a < n /\ b < n
  BY <1>2
<1>4. a + b < n => (a + b) % n = a + b
  BY <1>2, <1>3
<1>5. a + b >= n => (a + b) % n = a + b - n
  BY <1>2, <1>3
<1> QED BY <1>1, <1>2, <1>3, <1>4, <1>5

LEMMA Multiple ==
  ASSUME NEW p, Aligned(p)
  PROVE  \E k \in Nat : p = k * PageSize
<1>1. PICK n : n = PageSize
  OBVIOUS
<1>2. n \in Nat /\ n > 0 /\ p \in Nat /\ p % n = 0
  BY <1>1, Constants DEF Aligned
<1>3. p = n * (p \div n) + (p % n) /\ p \div n \in Nat
  BY <1>2
<1>4. p = (p \div n) * n
  BY <1>2, <1>3
<1> QED BY <1>1, <1>3, <1>4

(* Aligned numbers are a page apart. *)
LEMMA AlignedFacts ==
  ASSUME NEW p, Aligned(p), NEW q, Aligned(q)
  PROVE  /\ p \in Nat /\ q \in Nat /\ Aligned(p + PageSize)
         /\ p < q => p + PageSize <= q
<1>1. PICK n : n = PageSize
  OBVIOUS
<1>2. n \in Nat /\ n > 0 /\ p \in Nat /\ q \in Nat
  BY <1>1, Constants DEF Aligned
<1>3. PICK k \in Nat : p = k * n
  BY <1>1, Multiple
<1>4. PICK l \in Nat : q = l * n
  BY <1>1, Multiple
<1>5. p + n = (k + 1) * n
  BY <1>2, <1>3
<1>6. ((k + 1) * n) % n = 0 /\ (k + 1) * n \in Nat
  BY <1>2
<1>7. p < q => p + n <= q
  <2>1. l <= k => l * n <= k * n
    BY <1>2
  <2>2. k + 1 <= l => (k + 1) * n <= l * n
    BY <1>2
  <2>3. l <= k \/ k + 1 <= l
    OBVIOUS
  <2> QED BY <1>2, <1>3, <1>4, <1>5, <2>1, <2>2, <2>3
<1> QED BY <1>1, <1>2, <1>5, <1>6, <1>7 DEF Aligned

(* PageOf is the only aligned number that close below an address. *)
LEMMA PageFacts ==
  ASSUME NEW a \in Nat
  PROVE  /\ Aligned(PageOf(a)) /\ PageOf(a) \in Nat
         /\ PageOf(a) <= a /\ a < PageOf(a) + PageSize
         /\ \A p : Aligned(p) /\ p <= a /\ a < p + PageSize => PageOf(a) = p
<1>1. PICK n : n = PageSize
  OBVIOUS
<1>2. n \in Nat /\ n > 0
  BY <1>1, Constants
<1>3. PICK k : k = a \div n
  OBVIOUS
<1>4. k \in Nat /\ a = n * k + (a % n) /\ a % n \in 0..(n - 1) /\ PageOf(a) = k * n
  BY <1>1, <1>2, <1>3 DEF PageOf
<1>5. k * n \in Nat /\ (k * n) % n = 0 /\ n * k = k * n
  BY <1>2, <1>4
<1>6. Aligned(PageOf(a)) /\ PageOf(a) \in Nat
  BY <1>1, <1>4, <1>5 DEF Aligned
<1>7. PageOf(a) <= a /\ a < PageOf(a) + n
  BY <1>2, <1>4, <1>5
<1>8. ASSUME NEW p, Aligned(p), p <= a, a < p + PageSize PROVE PageOf(a) = p
  <2>1. PICK q : q = PageOf(a)
    OBVIOUS
  <2>2. Aligned(q) /\ q \in Nat /\ p \in Nat /\ q <= a /\ a < q + n
    BY <1>6, <1>7, <1>8, <2>1 DEF Aligned
  <2>3. (p < q => p + n <= q) /\ (q < p => q + n <= p)
    BY <1>1, <1>8, <2>2, AlignedFacts
  <2>4. p = q
    BY <1>1, <1>2, <1>8, <2>2, <2>3
  <2> QED BY <2>1, <2>4
<1> QED BY <1>1, <1>6, <1>7, <1>8

(* The pages of the layout are those of its addresses. *)
LEMMA LayoutPages ==
  ASSUME NEW a \in Nat
  PROVE  /\ PageOf(a) \in UserPages <=> Base <= a /\ a < Top
         /\ a < Top => a \in Addresses
<1>1. PICK p : p = PageOf(a)
  OBVIOUS
<1>2. Aligned(p) /\ p \in Nat /\ p <= a /\ a < p + PageSize
  BY <1>1, PageFacts
<1>3. PageSize \in Nat /\ Base \in Nat /\ Top \in Nat /\ Aligned(Base) /\ Aligned(Top)
  BY Constants
<1>4. p \in UserPages <=> Base <= p /\ p < Top
  BY <1>2, <1>3 DEF UserPages, Aligned
<1>5. Base <= p <=> Base <= a
  <2>1. p < Base => p + PageSize <= Base
    BY <1>2, <1>3, AlignedFacts
  <2> QED BY <1>2, <1>3, <2>1
<1>6. p < Top <=> a < Top
  <2>1. p < Top => p + PageSize <= Top
    BY <1>2, <1>3, AlignedFacts
  <2> QED BY <1>2, <1>3, <2>1
<1>7. a < Top => a \in Addresses
  <2>1. PICK n : n = 2^Width
    OBVIOUS
  <2>2. n \in Nat /\ Top < n /\ Addresses = 0..(n - 1)
    BY <2>1, Constants DEF Addresses
  <2> QED BY <1>3, <2>2
<1> QED BY <1>1, <1>4, <1>5, <1>6, <1>7

LEMMA PageMonotone ==
  ASSUME NEW a \in Nat, NEW b \in Nat, a <= b
  PROVE  PageOf(a) <= PageOf(b)
<1>1. PICK p, q : p = PageOf(a) /\ q = PageOf(b)
  OBVIOUS
<1>2. Aligned(p) /\ p \in Nat /\ p <= a /\ Aligned(q) /\ q \in Nat /\ b < q + PageSize
  BY <1>1, PageFacts
<1>3. q < p => q + PageSize <= p
  BY <1>2, AlignedFacts
<1>4. p <= q
  BY <1>2, <1>3, Constants
<1> QED BY <1>1, <1>4

(* The comparisons of the kernel detect a range that wraps, and those that *)
(* remain are those of unbounded arithmetic.                               *)
LEMMA LayoutCheck ==
  ASSUME NEW a \in Addresses, NEW n \in Addresses, n > 0
  PROVE  /\ InLayout(a, n) <=> Base <= a /\ a + n - 1 < Top
         /\ InLayout(a, n) => LastByte(a, n) = a + n - 1
<1>1. PICK w : w = 2^Width
  OBVIOUS
<1>2. /\ w \in Nat /\ Base \in Nat /\ Top \in Nat /\ Top < w
      /\ a \in Nat /\ n \in Nat /\ a < w /\ n < w
  BY <1>1, Constants DEF Addresses
<1>3. n - 1 \in Addresses
  BY <1>1, <1>2 DEF Addresses
<1>4. PICK l : l = LastByte(a, n)
  OBVIOUS
<1>5. /\ a + (n - 1) < w => l = a + (n - 1)
      /\ a + (n - 1) >= w => l = a + (n - 1) - w
  BY <1>1, <1>3, <1>4, SumFacts DEF LastByte
<1>6. InLayout(a, n) <=> Base <= a /\ a < Top /\ a <= l /\ l < Top
  BY <1>4 DEF InLayout
<1>7. /\ InLayout(a, n) <=> Base <= a /\ a + n - 1 < Top
      /\ InLayout(a, n) => l = a + n - 1
  <2>1. CASE a + (n - 1) < w
    BY <1>2, <1>5, <1>6, <2>1
  <2>2. CASE a + (n - 1) >= w
    BY <1>2, <1>5, <1>6, <2>2
  <2> QED BY <1>2, <2>1, <2>2
<1> QED BY <1>4, <1>7

(* A byte the task may use lies in the layout. *)
LEMMA UserByteInLayout ==
  ASSUME TypeOK, NEW a, UserByte(a)
  PROVE  a \in Nat /\ Base <= a /\ a < Top
<1>1. a \in Nat
  BY Constants DEF UserByte, Addresses
<1>2. PageOf(a) \in UserPages
  BY DEF TypeOK, UserByte
<1> QED BY <1>1, <1>2, LayoutPages
-----------------------------------------------------------------------------
(* The initial state, and the check of a buffer *)

LEMMA InitUInv == Init => UInv
<1> SUFFICES ASSUME Init PROVE UInv
  OBVIOUS
<1>1. copied = <<>> /\ Len(copied) = 0 /\ DOMAIN copied = {} /\ copied \in Seq(Bytes)
  BY DEF Init
<1>2. 0 \in Addresses
  BY Constants DEF Addresses
<1>3. TypeOK
  BY <1>1, <1>2 DEF Init, TypeOK, Done
<1>4. pc \in {"buffer", "path"} /\ pc \notin Done /\ (pc = "path" => count = 0)
  BY DEF Init, Done
<1>5. BufferVerdict /\ WalkInv /\ KindInv
  BY <1>1, <1>4 DEF BufferVerdict, WalkInv, KindInv
<1>6. PathReadsUserBytes /\ PathInv
  BY <1>1 DEF PathReadsUserBytes, PathInv
<1>7. PathVerdict
  <2>1. Len(copied) <= PathSize - 1
    BY <1>1, Constants
  <2> QED BY <1>4, <2>1, Zenon DEF PathVerdict
<1> QED BY <1>3, <1>5, <1>6, <1>7 DEF UInv

(* What a step of the check of a buffer leaves alone. *)
LEMMA PathUntouched ==
  ASSUME UInv, UNCHANGED <<mapped, start, count, copied>>, pc \in {"buffer", "walk"},
         pc' \in {"walk", "valid", "invalid"}, pc' = "invalid" => count # 0
  PROVE  PathReadsUserBytes' /\ PathVerdict' /\ KindInv' /\ PathInv'
<1>1. copied = <<>> /\ copied' = <<>> /\ Len(copied') = 0 /\ DOMAIN copied' = {}
  BY DEF UInv, KindInv
<1>2. PathReadsUserBytes' /\ PathInv'
  BY <1>1 DEF PathReadsUserBytes, PathInv
<1>3. PathVerdict'
  BY <1>1, Constants DEF PathVerdict
<1>4. KindInv'
  BY <1>1 DEF KindInv
<1> QED BY <1>2, <1>3, <1>4

LEMMA CheckBufferStep ==
  ASSUME UInv, CheckBuffer
  PROVE  UInv'
<1>1. /\ pc = "buffer" /\ UNCHANGED <<mapped, start, count, copied>>
      /\ mapped \subseteq UserPages /\ start \in Addresses /\ count \in Addresses
      /\ page \in {0} \cup UserPages /\ copied \in Seq(Bytes)
  BY DEF CheckBuffer, UInv, TypeOK
<1>2. start \in Nat /\ count \in Nat /\ Base \in Nat /\ Top \in Nat /\ 0 < Base
  BY <1>1, Constants DEF Addresses
<1>3. CASE count = 0
  <2>1. pc' = "valid" /\ page' = page
    BY <1>3 DEF CheckBuffer
  <2>2. TypeOK'
    BY <1>1, <2>1 DEF TypeOK, Done
  <2>3. BufferVerdict' /\ WalkInv'
    BY <1>1, <1>3, <2>1 DEF BufferVerdict, IsBuffer, WalkInv
  <2> QED BY <1>1, <2>1, <2>2, <2>3, PathUntouched DEF UInv
<1>4. CASE count > 0 /\ ~(Base <= start /\ Final < Top)
  <2>1. ~InLayout(start, count)
    BY <1>1, <1>4, LayoutCheck DEF Final
  <2>2. pc' = "invalid" /\ page' = page
    BY <1>2, <1>4, <2>1 DEF CheckBuffer
  <2>3. TypeOK'
    BY <1>1, <2>2 DEF TypeOK, Done
  <2>4. \E a \in start..(start + count - 1) : a \in Nat /\ ~(Base <= a /\ a < Top)
    <3>1. CASE ~(Base <= start)
      <4>1. start \in start..(start + count - 1)
        BY <1>2, <1>4
      <4> QED BY <1>2, <3>1, <4>1
    <3>2. CASE ~(Final < Top)
      <4>1. start + count - 1 \in start..(start + count - 1) /\ start + count - 1 \in Nat
        BY <1>2, <1>4
      <4> QED BY <3>2, <4>1 DEF Final
    <3> QED BY <1>4, <3>1, <3>2
  <2>5. PICK a \in start..(start + count - 1) : a \in Nat /\ ~(Base <= a /\ a < Top)
    BY <2>4
  <2>6. PageOf(a) \notin mapped
    BY <1>1, <2>5, LayoutPages
  <2>7. BufferVerdict'
    BY <1>1, <2>2, <2>5, <2>6 DEF BufferVerdict, UserByte
  <2>8. WalkInv'
    BY <2>2 DEF WalkInv
  <2>9. count # 0
    BY <1>2, <1>4
  <2> QED BY <1>1, <2>2, <2>3, <2>7, <2>8, <2>9, PathUntouched DEF UInv
<1>5. CASE count > 0 /\ Base <= start /\ Final < Top
  <2>1. InLayout(start, count) /\ LastByte(start, count) = start + count - 1
    BY <1>1, <1>5, LayoutCheck DEF Final
  <2>2. pc' = "walk" /\ page' = PageOf(start)
    <3>1. ~(LastByte(start, count) < start)
      BY <1>2, <1>5, <2>1
    <3>2. count # 0 /\ start # 0
      BY <1>2, <1>5
    <3> QED BY <2>1, <3>1, <3>2 DEF CheckBuffer
  <2>3. start < Top /\ Final \in Nat /\ start <= Final
    BY <1>2, <1>5 DEF Final
  <2>4. PageOf(start) \in UserPages /\ PageOf(start) \in Nat /\ Aligned(PageOf(start))
    BY <1>2, <1>5, <2>3, LayoutPages, PageFacts
  <2>5. PageOf(start) <= PageOf(Final)
    BY <1>2, <2>3, PageMonotone
  <2>6. TypeOK'
    BY <1>1, <2>2, <2>4 DEF TypeOK, Done
  <2>7. BufferVerdict'
    BY <2>2 DEF BufferVerdict, Done
  <2>8. Final' = Final /\ start' = start /\ count' = count
    BY <1>1 DEF Final
  <2>9. WalkInv'
    <3>1. PICK q : q = PageOf(start)
      OBVIOUS
    <3>2. page' = q /\ q \in Nat /\ PageOf(start') = q /\ PageOf(Final') = PageOf(Final)
      BY <2>2, <2>4, <2>8, <3>1
    <3>3. \A p \in UserPages : ~(q <= p /\ p < q)
      BY <3>2, Constants DEF UserPages
    <3>4. Aligned(q) /\ q <= PageOf(Final) /\ q <= q
      BY <2>4, <2>5, <3>1, <3>2
    <3> QED BY <1>5, <2>8, <3>2, <3>3, <3>4 DEF WalkInv
  <2> QED BY <1>1, <2>2, <2>6, <2>7, <2>9, PathUntouched DEF UInv
<1> QED BY <1>2, <1>3, <1>4, <1>5

-----------------------------------------------------------------------------
(* The walk of the page tables *)

(* What the walk knows in every turn. *)
LEMMA WalkFacts ==
  ASSUME UInv, pc = "walk"
  PROVE  /\ mapped \subseteq UserPages /\ start \in Addresses /\ count \in Addresses
         /\ start \in Nat /\ count \in Nat /\ count > 0
         /\ Final \in Nat /\ Base <= start /\ start <= Final /\ Final < Top
         /\ LastByte(start, count) = Final
         /\ page \in UserPages /\ Aligned(page) /\ page \in Nat
         /\ PageOf(start) <= page /\ page <= PageOf(Final)
         /\ PageOf(start) \in Nat /\ PageOf(Final) \in Nat
         /\ copied \in Seq(Bytes)
<1>1. /\ mapped \subseteq UserPages /\ start \in Addresses /\ count \in Addresses
      /\ page \in {0} \cup UserPages /\ copied \in Seq(Bytes)
  BY DEF UInv, TypeOK
<1>2. /\ count > 0 /\ Base <= start /\ Final < Top
      /\ Aligned(page) /\ PageOf(start) <= page /\ page <= PageOf(Final)
  BY DEF UInv, WalkInv
<1>3. start \in Nat /\ count \in Nat /\ Base \in Nat /\ Top \in Nat /\ 0 < Base
  BY <1>1, Constants DEF Addresses
<1>4. Final \in Nat /\ start <= Final /\ start < Top
  BY <1>2, <1>3 DEF Final
<1>5. LastByte(start, count) = Final
  BY <1>1, <1>2, LayoutCheck DEF Final
<1>6. PageOf(start) \in UserPages
  BY <1>2, <1>3, <1>4, LayoutPages
<1>7. PageOf(start) \in Nat /\ PageOf(Final) \in Nat /\ page \in Nat
  BY <1>2, <1>3, <1>4, PageFacts DEF Aligned
<1>8. page \in UserPages
  <2>1. Base <= PageOf(start)
    BY <1>6 DEF UserPages
  <2>2. page # 0
    BY <1>2, <1>3, <1>7, <2>1
  <2> QED BY <1>1, <2>2
<1> QED BY <1>1, <1>2, <1>3, <1>4, <1>5, <1>7, <1>8

LEMMA WalkPageStep ==
  ASSUME UInv, WalkPage
  PROVE  UInv'
<1>1. pc = "walk" /\ UNCHANGED <<mapped, start, count, copied>>
  BY DEF WalkPage
<1>2. /\ mapped \subseteq UserPages /\ start \in Addresses /\ count \in Addresses
      /\ start \in Nat /\ count \in Nat /\ count > 0
      /\ Final \in Nat /\ Base <= start /\ start <= Final /\ Final < Top
      /\ LastByte(start, count) = Final
      /\ page \in UserPages /\ Aligned(page) /\ page \in Nat
      /\ PageOf(start) <= page /\ page <= PageOf(Final)
      /\ PageOf(start) \in Nat /\ PageOf(Final) \in Nat
      /\ copied \in Seq(Bytes)
  BY <1>1, WalkFacts
<1>3. PageSize \in Nat /\ PageSize > 0 /\ Base \in Nat /\ Top \in Nat
  BY Constants
<1>4. Final = start + count - 1
  BY DEF Final
<1>5. CASE page \notin mapped
  <2>1. pc' = "invalid" /\ page' = page
    BY <1>5 DEF WalkPage
  <2>2. TypeOK'
    BY <1>1, <1>2, <2>1 DEF TypeOK, Done
  <2>3. \E a \in start..Final : a \in Nat /\ PageOf(a) = page
    <3>1. CASE page <= start
      <4>1. start < PageOf(start) + PageSize
        BY <1>2, PageFacts
      <4>2. start < page + PageSize
        BY <1>2, <1>3, <4>1
      <4>3. PageOf(start) = page
        BY <1>2, <3>1, <4>2, PageFacts
      <4>4. start \in start..Final
        BY <1>2
      <4> QED BY <1>2, <4>3, <4>4
    <3>2. CASE start < page
      <4>1. PageOf(Final) <= Final
        BY <1>2, PageFacts
      <4>2. page \in start..Final
        BY <1>2, <3>2, <4>1
      <4>3. page <= page /\ page < page + PageSize
        BY <1>2, <1>3
      <4>4. PageOf(page) = page
        BY <1>2, <4>3, PageFacts
      <4> QED BY <1>2, <4>2, <4>4
    <3> QED BY <1>2, <3>1, <3>2
  <2>4. PICK a \in start..Final : a \in Nat /\ PageOf(a) = page
    BY <2>3
  <2>5. BufferVerdict'
    BY <1>1, <1>4, <1>5, <2>1, <2>4 DEF BufferVerdict, UserByte
  <2>6. WalkInv'
    BY <2>1 DEF WalkInv
  <2>7. count # 0
    BY <1>2
  <2> QED BY <1>1, <2>1, <2>2, <2>5, <2>6, <2>7, PathUntouched DEF UInv
<1>6. CASE page \in mapped /\ page = PageOf(Final)
  <2>1. pc' = "valid" /\ page' = page
    BY <1>2, <1>6 DEF WalkPage
  <2>2. TypeOK'
    BY <1>1, <1>2, <2>1 DEF TypeOK, Done
  <2>3. ASSUME NEW a \in start..Final PROVE a \in Addresses /\ PageOf(a) \in mapped
    <3>1. a \in Nat /\ start <= a /\ a <= Final /\ Base <= a /\ a < Top
      BY <1>2, <1>3, <2>3
    <3>2. PageOf(a) \in UserPages /\ a \in Addresses /\ PageOf(a) \in Nat
      BY <3>1, LayoutPages, PageFacts
    <3>3. PageOf(start) <= PageOf(a) /\ PageOf(a) <= PageOf(Final)
      BY <1>2, <3>1, PageMonotone
    <3>4. PageOf(a) < page \/ PageOf(a) = page
      BY <1>2, <1>6, <3>2, <3>3
    <3>5. PageOf(a) < page => PageOf(a) \in mapped
      BY <1>1, <3>2, <3>3 DEF UInv, WalkInv
    <3> QED BY <1>6, <3>2, <3>4, <3>5
  <2>4. BufferVerdict'
    <3>1. \A a \in start'..(start' + count' - 1) : UserByte(a)'
      BY <1>1, <1>4, <2>3 DEF UserByte
    <3> QED BY <2>1, <3>1 DEF BufferVerdict
  <2>5. WalkInv'
    BY <2>1 DEF WalkInv
  <2> QED BY <1>1, <2>1, <2>2, <2>4, <2>5, PathUntouched DEF UInv
<1>7. CASE page \in mapped /\ page # PageOf(Final)
  <2>1. pc' = "walk" /\ page' = NextPage(page)
    BY <1>1, <1>2, <1>7 DEF WalkPage
  <2>2. page < PageOf(Final) /\ Aligned(PageOf(Final)) /\ PageOf(Final) <= Final
    BY <1>2, <1>7, PageFacts
  <2>3. page + PageSize <= PageOf(Final) /\ Aligned(page + PageSize)
    BY <1>2, <2>2, AlignedFacts
  <2>4. page' = page + PageSize
    <3>1. PICK w : w = 2^Width
      OBVIOUS
    <3>2. w \in Nat /\ Top < w /\ Addresses = 0..(w - 1)
      BY <3>1, Constants DEF Addresses
    <3>3. page + PageSize < w
      BY <1>2, <1>3, <2>2, <2>3, <3>2
    <3>4. page \in Addresses /\ PageSize \in Addresses
      BY <1>2, <1>3, <3>2, <3>3
    <3> QED BY <2>1, <3>1, <3>3, <3>4, SumFacts DEF NextPage
  <2>5. page + PageSize \in UserPages
    <3>1. Base <= page
      BY <1>2 DEF UserPages
    <3>2. page + PageSize \in Nat /\ Base <= page + PageSize /\ page + PageSize < Top
      BY <1>2, <1>3, <2>2, <2>3, <3>1
    <3> QED BY <1>3, <2>3, <3>2 DEF UserPages, Aligned
  <2>6. TypeOK'
    BY <1>1, <1>2, <2>1, <2>4, <2>5 DEF TypeOK, Done
  <2>7. BufferVerdict'
    BY <2>1 DEF BufferVerdict, Done
  <2>8. ASSUME NEW p \in UserPages, PageOf(start) <= p, p < page + PageSize
        PROVE  p \in mapped
    <3>1. p \in Nat /\ Aligned(p)
      BY <1>3, <2>8 DEF UserPages, Aligned
    <3>2. page < p => page + PageSize <= p
      BY <1>2, <3>1, AlignedFacts
    <3>3. p < page \/ p = page
      BY <1>2, <1>3, <2>8, <3>1, <3>2
    <3>4. p < page => p \in mapped
      BY <1>1, <2>8 DEF UInv, WalkInv
    <3> QED BY <1>7, <3>3, <3>4
  <2>9. WalkInv'
    <3>1. /\ Final' = Final /\ PageOf(start') = PageOf(start) /\ PageOf(Final') = PageOf(Final)
          /\ start' = start /\ count' = count /\ mapped' = mapped
      BY <1>1 DEF Final
    <3>2. PageOf(start) <= page + PageSize
      BY <1>2, <1>3
    <3> QED BY <1>2, <2>3, <2>4, <2>8, <3>1, <3>2 DEF WalkInv
  <2> QED BY <1>1, <2>1, <2>6, <2>7, <2>9, PathUntouched DEF UInv
<1> QED BY <1>5, <1>6, <1>7

-----------------------------------------------------------------------------
(* The copy of a path *)

(* What was read so far lies in the layout, so the address of the next     *)
(* byte does not wrap, and its check is exact.                             *)
LEMMA NextByte ==
  ASSUME UInv, pc = "path"
  PROVE  /\ start \in Nat /\ Len(copied) \in Nat
         /\ copied # <<>> => Base <= start
         /\ Readable(Address) <=> UserByte(start + Len(copied))
<1>1. TypeOK /\ PathReadsUserBytes
  BY DEF UInv
<1>2. PICK n : n = Len(copied)
  OBVIOUS
<1>3. /\ start \in Addresses /\ mapped \subseteq UserPages /\ copied \in Seq(Bytes)
      /\ n \in Nat /\ DOMAIN copied = 1..n
  BY <1>1, <1>2 DEF TypeOK
<1>4. PICK w : w = 2^Width
  OBVIOUS
<1>5. /\ w \in Nat /\ Top \in Nat /\ Base \in Nat /\ Base > 0 /\ Base < Top /\ Top < w
      /\ Addresses = 0..(w - 1) /\ start \in Nat /\ start < w
  BY <1>3, <1>4, Constants DEF Addresses
<1>6. n > 0 => Base <= start /\ start + n <= Top
  <2> SUFFICES ASSUME n > 0 PROVE Base <= start /\ start + n <= Top
    OBVIOUS
  <2>1. 1 \in DOMAIN copied /\ n \in DOMAIN copied
    BY <1>3
  <2>2. UserByte(start + 1 - 1) /\ UserByte(start + n - 1)
    BY <1>1, <2>1 DEF PathReadsUserBytes
  <2>3. Base <= start + 1 - 1 /\ start + n - 1 < Top
    BY <1>1, <2>2, UserByteInLayout
  <2> QED BY <1>3, <1>5, <2>3
<1>7. start + n < w /\ n \in Addresses /\ 1 \in Addresses /\ start + n \in Addresses /\ start + n \in Nat
  <2>1. CASE n = 0
    BY <1>3, <1>5, <2>1
  <2>2. CASE n > 0
    BY <1>3, <1>5, <1>6, <2>2
  <2> QED BY <1>3, <2>1, <2>2
<1>8. Address = start + n
  BY <1>2, <1>3, <1>4, <1>7, SumFacts DEF Address
<1>9. PICK a : a = start + n
  OBVIOUS
<1>10. a \in Addresses /\ a \in Nat /\ a >= start
  BY <1>3, <1>5, <1>7, <1>9
<1>11. InLayout(a, 1) <=> Base <= a /\ a < Top
  <2>1. a + 1 - 1 = a /\ 1 > 0
    BY <1>10
  <2>2. InLayout(a, 1) <=> Base <= a /\ a + 1 - 1 < Top
    BY <1>7, <1>10, <2>1, LayoutCheck
  <2> QED BY <2>1, <2>2
<1>12. Readable(a) <=> UserByte(a)
  <2>1. PageOf(a) \in mapped => Base <= a /\ a < Top
    BY <1>3, <1>10, LayoutPages
  <2> QED BY <1>10, <1>11, <2>1 DEF Readable, UserByte
<1>13. copied # <<>> => n > 0
  BY <1>2, <1>3
<1> QED BY <1>2, <1>3, <1>5, <1>6, <1>8, <1>9, <1>12, <1>13

LEMMA CopyByteStep ==
  ASSUME UInv, CopyByte
  PROVE  UInv'
<1>1. /\ pc = "path" /\ UNCHANGED <<mapped, start, count, page>>
      /\ count = 0 /\ TypeOK /\ PathReadsUserBytes
      /\ Len(copied) <= PathSize - 1
  BY DEF CopyByte, UInv, KindInv, PathVerdict
<1>2. PICK n : n = Len(copied)
  OBVIOUS
<1>3. /\ copied \in Seq(Bytes) /\ n \in Nat /\ DOMAIN copied = 1..n /\ n <= PathSize - 1
      /\ start \in Nat /\ (copied # <<>> => Base <= start)
      /\ Readable(Address) <=> UserByte(start + n)
  BY <1>1, <1>2, NextByte DEF TypeOK
<1>4. PathSize \in Nat /\ PathSize > 0 /\ Base \in Nat /\ 0 < Base
  BY Constants
<1>5. BufferVerdict'
  BY <1>1 DEF BufferVerdict, IsBuffer
<1>6. \A a : UserByte(a)' <=> UserByte(a)
  BY <1>1 DEF UserByte
<1>7. CASE start = 0 \/ ~RoomLeft(Len(copied)) \/ ~Readable(Address)
  <2>1. pc' = "invalid" /\ copied' = copied
    BY <1>7 DEF CopyByte
  <2>2. TypeOK' /\ WalkInv' /\ PathInv'
    BY <1>1, <2>1 DEF TypeOK, Done, WalkInv, PathInv
  <2>3. KindInv'
    BY <1>1, <2>1 DEF KindInv
  <2>4. PathReadsUserBytes'
    BY <1>1, <1>6, <2>1 DEF PathReadsUserBytes
  <2>5. PathVerdict'
    <3>1. n = PathSize - 1 \/ ~UserByte(start + n)
      <4>1. ~RoomLeft(Len(copied)) => n = PathSize - 1
        BY <1>2, <1>3, <1>4 DEF RoomLeft
      <4>2. start = 0 => ~UserByte(start + n)
        <5>1. copied = <<>> => start + n = start
          BY <1>2, <1>3
        <5>2. start = 0 => copied = <<>>
          BY <1>3, <1>4
        <5>3. UserByte(start) => Base <= start
          BY <1>1, UserByteInLayout
        <5> QED BY <1>3, <1>4, <5>1, <5>2, <5>3
      <4> QED BY <1>3, <1>7, <4>1, <4>2
    <3>2. Len(copied') = n /\ start' = start
      BY <1>1, <1>2, <2>1
    <3> QED BY <1>3, <1>6, <2>1, <3>1, <3>2 DEF PathVerdict
  <2> QED BY <1>5, <2>2, <2>3, <2>4, <2>5 DEF UInv
<1>8. CASE start # 0 /\ RoomLeft(Len(copied)) /\ Readable(Address)
  <2>1. PICK ch \in Bytes :
          /\ copied' = Append(copied, ch)
          /\ pc' = IF copied = <<>> /\ ch # Slash THEN "invalid"
                   ELSE IF ch = Nul THEN "copied" ELSE "path"
    BY <1>8 DEF CopyByte
  <2>2. /\ copied' \in Seq(Bytes) /\ Len(copied') = n + 1 /\ DOMAIN copied' = 1..(n + 1)
        /\ copied'[n + 1] = ch /\ copied' # <<>>
        /\ \A i \in 1..n : copied'[i] = copied[i]
    BY <1>2, <1>3, <2>1, AppendProperties
  <2>3. n + 1 <= PathSize - 1
    BY <1>2, <1>3, <1>4, <1>8 DEF RoomLeft
  <2>4. pc' \in {"invalid", "copied", "path"}
    BY <2>1
  <2>5. TypeOK' /\ WalkInv'
    BY <1>1, <2>2, <2>4 DEF TypeOK, Done, WalkInv
  <2>6. KindInv'
    BY <1>1, <2>4 DEF KindInv
  <2>7. PathReadsUserBytes'
    <3> SUFFICES ASSUME NEW i \in 1..(n + 1) PROVE UserByte(start + i - 1)
      BY <1>1, <1>6, <2>2 DEF PathReadsUserBytes
    <3>1. CASE i \in 1..n
      BY <1>1, <1>3, <3>1 DEF PathReadsUserBytes
    <3>2. CASE i = n + 1
      <4>1. start + i - 1 = start + n
        BY <1>3, <3>2
      <4> QED BY <1>3, <1>8, <4>1
    <3> QED BY <1>3, <3>1, <3>2
  <2>8. copied = <<>> => n = 0
    BY <1>2
  <2>9. copied # <<>> => n > 0 /\ 1 \in 1..n
    BY <1>2, <1>3
  <2>10. \A i \in 1..n : copied[i] # Nul
    BY <1>1, <1>3 DEF UInv, PathInv
  <2>11. pc' # "invalid" => copied'[1] = Slash
    <3>1. CASE copied = <<>>
      <4>1. pc' # "invalid" => ch = Slash
        BY <2>1, <3>1
      <4>2. copied'[1] = ch
        BY <2>2, <2>8, <3>1
      <4> QED BY <4>1, <4>2
    <3>2. CASE copied # <<>>
      BY <1>1, <2>2, <2>9, <3>2 DEF UInv, PathInv
    <3> QED BY <3>1, <3>2
  <2>12. PathInv'
    <3>1. pc' = "path" => ch # Nul
      BY <2>1
    <3>2. pc' = "path" => \A i \in 1..(n + 1) : copied'[i] # Nul
      BY <1>3, <2>2, <2>10, <3>1
    <3> QED BY <2>2, <2>11, <3>2 DEF PathInv
  <2>13. PathVerdict'
    <3>1. pc' = "copied" => ch = Nul
      BY <2>1
    <3>2. pc' = "copied" => {i \in 1..(n + 1) : copied'[i] = Nul} = {n + 1}
      BY <1>3, <2>2, <2>10, <3>1
    <3>3. pc' = "invalid" => copied'[1] # Slash
      <4>1. pc' = "invalid" => copied = <<>> /\ ch # Slash
        BY <2>1
      <4> QED BY <2>2, <2>8, <4>1
    <3>4. Len(copied') <= PathSize - 1
      BY <2>2, <2>3
    <3>5. pc' = "copied" => {i \in DOMAIN copied' : copied'[i] = Nul} = {Len(copied')}
      BY <2>2, <3>2
    <3>6. copied' # <<>>
      BY <2>2
    <3>7. pc' = "copied" => copied'[1] = Slash
      BY <2>11
    <3> QED BY ONLY <3>3, <3>4, <3>5, <3>6, <3>7, Zenon DEF PathVerdict
  <2> QED BY <1>5, <2>5, <2>6, <2>7, <2>12, <2>13 DEF UInv
<1> QED BY <1>7, <1>8
-----------------------------------------------------------------------------
(* The result *)

LEMMA NextUInv == UInv /\ [Next]_vars => UInv'
<1> SUFFICES ASSUME UInv, [Next]_vars PROVE UInv'
  OBVIOUS
<1>1. CASE CheckBuffer
  BY <1>1, CheckBufferStep
<1>2. CASE WalkPage
  BY <1>2, WalkPageStep
<1>3. CASE CopyByte
  BY <1>3, CopyByteStep
<1>4. CASE UNCHANGED vars
  BY <1>4 DEF vars, UInv, TypeOK, BufferVerdict, PathReadsUserBytes, PathVerdict,
              WalkInv, KindInv, PathInv, IsBuffer, UserByte, Final
<1> QED BY <1>1, <1>2, <1>3, <1>4 DEF Next

(* syscall_user_buffer_valid with paging_user_range_mapped accepts a       *)
(* buffer exactly if every byte of it is mapped for the user, and          *)
(* syscall_copy_path reads only such bytes and gives up only for a byte,   *)
(* the first character or the length: for every width of an address, page  *)
(* size, layout, set of mapped pages, pointer, size and path.              *)
THEOREM UserPointersAreChecked == Spec => []ChecksExact
<1>1. UInv => ChecksExact
  BY DEF UInv, ChecksExact
<1> QED BY <1>1, InitUInv, NextUInv, PTL DEF Spec

-----------------------------------------------------------------------------
(* The path walk *)

(* The text s stands in the path from position i on. *)
At(s, i) == \A k \in 1..Len(s) : path[i + k - 1] = s[k]

Begins == Len(path) >= 2 /\ path[1] = Separator

(* The walk is in directory x of the root, behind its separator. *)
Inside(x) ==
    /\ x \in DOMAIN Tree[Root] /\ Tree[Root][x] = entries
    /\ pathIndex = Len(x) + 3 + Len(component)
    /\ At(x, 2) /\ Len(x) + 2 <= Len(path) /\ path[Len(x) + 2] = Separator
    /\ At(component, Len(x) + 3)

WalkStep ==
    /\ step = "start" => component = <<>> /\ entries = Root
    /\ step = "copy" =>
        /\ Begins
        /\ \/ entries = Root /\ pathIndex = Len(component) + 2 /\ At(component, 2)
           \/ entries \in Directories /\ \E x \in DOMAIN Tree[Root] : Inside(x)
    /\ step \in {"start", "copy"} => node = None
    /\ step \in {"walked", "opened"} => node \in Nodes

(* How Open decides about the node that the walk has returned.             *)
OpenInv ==
    /\ step = "opened" =>
         IF call = "exec" THEN node \in Executables /\ access = 0
                          ELSE Openable(node, LowWord(flags)) /\ access = LowWord(flags)
    /\ step = "refused" /\ node # None =>
         /\ path \in Spellings(node)
         /\ IF call = "exec" THEN node \notin Executables ELSE ~Openable(node, LowWord(flags))

NInv ==
    /\ path \in Seq(Letters \cup {Separator}) /\ call \in {"open", "exec"} /\ flags \in Nat
    /\ step \in {"start", "copy", "walked", "opened", "refused"}
    /\ WalkTypeOK /\ WalkIsExact /\ OpenInv /\ WalkStep

(* The spellings of a node, by position. *)
InRoot(n, m) ==
    /\ m \in DOMAIN Tree[Root] /\ Tree[Root][m] = n
    /\ Begins /\ Len(path) = Len(m) + 1 /\ At(m, 2)
InDirectory(n, x, m) ==
    /\ x \in DOMAIN Tree[Root] /\ Tree[Root][x] \in Directories
    /\ m \in DOMAIN Tree[Tree[Root][x]] /\ Tree[Tree[Root][x]][m] = n
    /\ Begins /\ Len(path) = Len(x) + Len(m) + 2
    /\ At(x, 2) /\ path[Len(x) + 2] = Separator /\ At(m, Len(x) + 3)

LEMMA NameFacts ==
  ASSUME NEW d \in DOMAIN Tree, NEW m \in DOMAIN Tree[d]
  PROVE  m \in Seq(Letters) /\ Len(m) \in 1..(BufferSize - 1) /\ Len(m) \in Nat /\ Tree[d][m] \in Nodes
<1>1. m \in Names
  BY DEF Names
<1>2. m \in Seq(Letters) /\ Len(m) \in 1..(BufferSize - 1)
  BY <1>1, NamespaceAssumption
<1>3. Tree[d][m] \in Nodes
  BY DEF Nodes
<1> QED
  BY <1>2, <1>3, LenProperties

LEMMA TreeFacts ==
  /\ Separator \notin Letters /\ Terminator \notin Letters /\ Terminator # Separator
  /\ Root \in DOMAIN Tree /\ BufferSize \in Nat /\ BufferSize > 0 /\ None \notin Nodes
  /\ Directories \subseteq DOMAIN Tree
BY NamespaceAssumption DEF Directories, Terminator, Separator

(* Two names that stand at one position and end there are the same name.   *)
LEMMA SameName ==
  ASSUME path \in Seq(Letters \cup {Separator}),
         NEW c \in Seq(Letters), NEW m \in Seq(Letters), NEW i \in Nat, i >= 1,
         At(c, i), At(m, i),
         EndOfComponent(Char(i + Len(c))), EndOfComponent(Char(i + Len(m))),
         i + Len(c) <= Len(path) + 1, i + Len(m) <= Len(path) + 1
  PROVE  c = m
<1> DEFINE C == Len(c)
           M == Len(m)
           P == Len(path)
<1>1. C \in Nat /\ M \in Nat /\ P \in Nat
  BY LenProperties
<1>2. /\ \A k \in 1..C : c[k] \in Letters
      /\ \A k \in 1..M : m[k] \in Letters
  BY ElementOfSeq
<1>3. ~(C < M)
  <2> SUFFICES ASSUME C < M PROVE FALSE
    OBVIOUS
  <2>1. C + 1 \in 1..M /\ i + C <= P /\ i + (C + 1) - 1 = i + C
    BY <1>1
  <2>2. path[i + C] = m[C + 1]
    BY <2>1 DEF At
  <2>3. Char(i + C) \in Letters
    BY <2>1, <2>2, <1>2 DEF Char
  <2> QED
    BY <2>3, TreeFacts DEF EndOfComponent
<1>4. ~(M < C)
  <2> SUFFICES ASSUME M < C PROVE FALSE
    OBVIOUS
  <2>1. M + 1 \in 1..C /\ i + M <= P /\ i + (M + 1) - 1 = i + M
    BY <1>1
  <2>2. path[i + M] = c[M + 1]
    BY <2>1 DEF At
  <2>3. Char(i + M) \in Letters
    BY <2>1, <2>2, <1>2 DEF Char
  <2> QED
    BY <2>3, TreeFacts DEF EndOfComponent
<1>5. C = M
  BY <1>1, <1>3, <1>4
<1>6. \A k \in 1..C : c[k] = m[k]
  BY <1>5 DEF At
<1> QED
  BY <1>5, <1>6, SeqEqual

(* A text between positions, as a concatenation. *)
LEMMA SpellingsAre ==
  ASSUME path \in Seq(Letters \cup {Separator}), NEW n
  PROVE  path \in Spellings(n) <=>
           \/ \E m \in DOMAIN Tree[Root] : InRoot(n, m)
           \/ \E x \in DOMAIN Tree[Root] : Tree[Root][x] \in Directories /\
                 \E m \in DOMAIN Tree[Tree[Root][x]] : InDirectory(n, x, m)
<1> DEFINE S == Seq(Letters \cup {Separator})
<1>0. \A m \in Seq(Letters) : m \in S
  <2> TAKE m \in Seq(Letters)
  <2>1. m \in [1..Len(m) -> Letters] /\ Len(m) \in Nat
    BY LenProperties
  <2>2. \A k \in 1..Len(m) : m[k] \in Letters \cup {Separator}
    BY <2>1
  <2> QED
    BY <2>1, <2>2, IsASeq
<1>s. <<Separator>> \in S /\ Len(<<Separator>>) = 1 /\ <<Separator>>[1] = Separator
  OBVIOUS
<1>1. ASSUME NEW m \in DOMAIN Tree[Root]
      PROVE  path = <<Separator>> \o m <=> Begins /\ Len(path) = Len(m) + 1 /\ At(m, 2)
  <2>1. m \in S /\ Len(m) \in Nat /\ Len(m) >= 1
    BY <1>0, NameFacts, TreeFacts
  <2> DEFINE t == <<Separator>> \o m
  <2>2. /\ t \in S /\ Len(t) = 1 + Len(m)
        /\ \A k \in 1..(1 + Len(m)) : t[k] = IF k <= 1 THEN <<Separator>>[k] ELSE m[k - 1]
    BY <2>1, <1>s, ConcatProperties
  <2>3. t[1] = Separator
    BY <2>2, <2>1
  <2>4. \A k \in 1..Len(m) : t[2 + k - 1] = m[k]
    BY <2>2, <2>1
  <2> HIDE DEF t
  <2>5. ASSUME path = t PROVE Begins /\ Len(path) = Len(m) + 1 /\ At(m, 2)
    BY <2>5, <2>1, <2>2, <2>3, <2>4 DEF Begins, At
  <2>6. ASSUME Begins, Len(path) = Len(m) + 1, At(m, 2) PROVE path = t
    <3>1. ASSUME NEW k \in 1..Len(path) PROVE path[k] = t[k]
      <4>1. CASE k = 1
        BY <4>1, <2>6, <2>3 DEF Begins
      <4>2. CASE k # 1
        <5>1. k - 1 \in 1..Len(m) /\ 2 + (k - 1) - 1 = k
          BY <4>2, <2>1, <2>6
        <5> QED
          BY <5>1, <2>4, <2>6 DEF At
      <4> QED
        BY <4>1, <4>2
    <3> QED
      BY <3>1, <2>2, <2>6, <2>1, SeqEqual
  <2> QED
    BY <2>5, <2>6 DEF t
<1>2. ASSUME NEW x \in DOMAIN Tree[Root], Tree[Root][x] \in Directories,
             NEW m \in DOMAIN Tree[Tree[Root][x]]
      PROVE  path = <<Separator>> \o x \o <<Separator>> \o m <=>
               /\ Begins /\ Len(path) = Len(x) + Len(m) + 2
               /\ At(x, 2) /\ path[Len(x) + 2] = Separator /\ At(m, Len(x) + 3)
  <2>1. /\ x \in S /\ Len(x) \in Nat /\ Len(x) >= 1
        /\ m \in S /\ Len(m) \in Nat /\ Len(m) >= 1
    BY <1>0, <1>2, NameFacts, TreeFacts
  <2> DEFINE a == <<Separator>> \o x
             b == a \o <<Separator>>
             t == b \o m
  <2>2. /\ a \in S /\ Len(a) = 1 + Len(x)
        /\ \A k \in 1..(1 + Len(x)) : a[k] = IF k <= 1 THEN <<Separator>>[k] ELSE x[k - 1]
    BY <2>1, <1>s, ConcatProperties
  <2>3. a[1] = Separator /\ \A k \in 1..Len(x) : a[k + 1] = x[k]
    BY <2>1, <2>2
  <2> HIDE DEF a
  <2>4. /\ b \in S /\ Len(b) = Len(x) + 2
        /\ \A k \in 1..(Len(x) + 2) : b[k] = IF k <= Len(a) THEN a[k] ELSE <<Separator>>[k - Len(a)]
    <3>1. /\ b \in S /\ Len(b) = Len(a) + 1
          /\ \A k \in 1..(Len(a) + 1) : b[k] = IF k <= Len(a) THEN a[k] ELSE <<Separator>>[k - Len(a)]
      BY <2>1, <2>2, <1>s, ConcatProperties
    <3>2. Len(a) + 1 = Len(x) + 2
      BY <2>1, <2>2
    <3> QED
      BY <3>1, <3>2
  <2>5. b[1] = Separator /\ (\A k \in 1..Len(x) : b[k + 1] = x[k]) /\ b[Len(x) + 2] = Separator
    BY <2>1, <2>2, <2>3, <2>4
  <2> HIDE DEF b
  <2>6. /\ t \in S /\ Len(t) = Len(x) + 2 + Len(m)
        /\ \A k \in 1..(Len(x) + 2 + Len(m)) : t[k] = IF k <= Len(x) + 2 THEN b[k] ELSE m[k - (Len(x) + 2)]
    <3>1. /\ t \in S /\ Len(t) = Len(b) + Len(m)
          /\ \A k \in 1..(Len(b) + Len(m)) : t[k] = IF k <= Len(b) THEN b[k] ELSE m[k - Len(b)]
      BY <2>1, <2>4, ConcatProperties
    <3> HIDE DEF t
    <3> QED
      BY <3>1, <2>4
  <2> HIDE DEF t
  <2>7. /\ t[1] = Separator /\ t[Len(x) + 2] = Separator
        /\ \A k \in 1..Len(x) : t[2 + k - 1] = x[k]
        /\ \A k \in 1..Len(m) : t[Len(x) + 3 + k - 1] = m[k]
    <3>1. t[1] = Separator /\ t[Len(x) + 2] = Separator
      BY <2>1, <2>5, <2>6
    <3>2. ASSUME NEW k \in 1..Len(x) PROVE t[2 + k - 1] = x[k]
      <4>1. k + 1 \in 1..(Len(x) + 2 + Len(m)) /\ k + 1 <= Len(x) + 2 /\ 2 + k - 1 = k + 1
        BY <2>1
      <4> QED
        BY <4>1, <2>5, <2>6
    <3>3. ASSUME NEW k \in 1..Len(m) PROVE t[Len(x) + 3 + k - 1] = m[k]
      <4> DEFINE j == Len(x) + 2 + k
      <4>1. /\ j \in 1..(Len(x) + 2 + Len(m)) /\ ~(j <= Len(x) + 2)
            /\ Len(x) + 3 + k - 1 = j /\ j - (Len(x) + 2) = k
        BY <2>1
      <4> HIDE DEF j
      <4> QED
        BY <4>1, <2>6
    <3> QED
      BY <3>1, <3>2, <3>3
  <2>8. ASSUME path = t
        PROVE  /\ Begins /\ Len(path) = Len(x) + Len(m) + 2
               /\ At(x, 2) /\ path[Len(x) + 2] = Separator /\ At(m, Len(x) + 3)
    BY <2>8, <2>1, <2>6, <2>7 DEF Begins, At
  <2>9. ASSUME Begins, Len(path) = Len(x) + Len(m) + 2,
               At(x, 2), path[Len(x) + 2] = Separator, At(m, Len(x) + 3)
        PROVE  path = t
    <3>1. ASSUME NEW k \in 1..Len(path) PROVE path[k] = t[k]
      <4>1. CASE k = 1
        BY <4>1, <2>9, <2>7 DEF Begins
      <4>2. CASE k = Len(x) + 2
        BY <4>2, <2>9, <2>7
      <4>3. CASE k > 1 /\ k < Len(x) + 2
        <5>1. k - 1 \in 1..Len(x) /\ 2 + (k - 1) - 1 = k
          BY <4>3, <2>1, <2>9
        <5> QED
          BY <5>1, <2>7, <2>9 DEF At
      <4>4. CASE k > Len(x) + 2
        <5> DEFINE j == k - (Len(x) + 2)
        <5>1. j \in 1..Len(m) /\ Len(x) + 3 + j - 1 = k
          BY <4>4, <2>1, <2>9
        <5> HIDE DEF j
        <5>2. t[Len(x) + 3 + j - 1] = m[j]
          BY <5>1, <2>7
        <5>3. path[Len(x) + 3 + j - 1] = m[j]
          BY <5>1, <2>9 DEF At
        <5> QED
          BY <5>1, <5>2, <5>3
      <4> QED
        BY <4>1, <4>2, <4>3, <4>4, <2>1, <2>9
    <3>2. Len(path) = Len(t)
      BY <2>1, <2>6, <2>9
    <3> QED
      BY <3>1, <3>2, <2>6, SeqEqual
  <2> QED
    BY <2>8, <2>9 DEF t, b, a
<1>3. path \in Spellings(n) <=>
        \/ \E m \in DOMAIN Tree[Root] : Tree[Root][m] = n /\ path = <<Separator>> \o m
        \/ \E x \in DOMAIN Tree[Root] : Tree[Root][x] \in Directories /\
              \E m \in DOMAIN Tree[Tree[Root][x]] :
                 Tree[Tree[Root][x]][m] = n /\ path = <<Separator>> \o x \o <<Separator>> \o m
  <2> DEFINE In(d) == {m \in DOMAIN Tree[d] : Tree[d][m] = n}
             Roots == {<<Separator>> \o m : m \in In(Root)}
             Dirs == {y \in DOMAIN Tree[Root] : Tree[Root][y] \in Directories}
             Below(x) == {<<Separator>> \o x \o <<Separator>> \o m : m \in In(Tree[Root][x])}
  <2>1. Spellings(n) = Roots \cup UNION {Below(x) : x \in Dirs}
    BY DEF Spellings
  <2>2. path \in Roots <=> \E m \in DOMAIN Tree[Root] : Tree[Root][m] = n /\ path = <<Separator>> \o m
    BY Zenon
  <2>3. ASSUME NEW x
        PROVE  path \in Below(x) <=>
                 \E m \in DOMAIN Tree[Tree[Root][x]] :
                    Tree[Tree[Root][x]][m] = n /\ path = <<Separator>> \o x \o <<Separator>> \o m
    BY Zenon
  <2>4. path \in Spellings(n) <=> path \in Roots \/ \E x \in Dirs : path \in Below(x)
    <3> HIDE DEF Roots, Below, Dirs
    <3> QED
      BY <2>1, Zenon
  <2> HIDE DEF Roots, Below
  <2>5. (\E x \in Dirs : path \in Below(x)) <=>
           \E x \in DOMAIN Tree[Root] : Tree[Root][x] \in Directories /\ path \in Below(x)
    BY Zenon
  <2> QED
    BY <2>2, <2>3, <2>4, <2>5, Zenon
<1>4. ASSUME NEW m \in DOMAIN Tree[Root]
      PROVE  (Tree[Root][m] = n /\ path = <<Separator>> \o m) <=> InRoot(n, m)
  BY <1>1 DEF InRoot
<1>5. ASSUME NEW x \in DOMAIN Tree[Root], Tree[Root][x] \in Directories,
             NEW m \in DOMAIN Tree[Tree[Root][x]]
      PROVE  (Tree[Tree[Root][x]][m] = n /\ path = <<Separator>> \o x \o <<Separator>> \o m)
               <=> InDirectory(n, x, m)
  BY <1>2, <1>5 DEF InDirectory
<1> QED
  BY <1>3, <1>4, <1>5, Zenon

(* No letter of a name is a separator, and no name is empty.               *)
LEMMA LetterAt ==
  ASSUME NEW s \in Seq(Letters), NEW i \in Nat, At(s, i), NEW k \in Nat, i <= k, k < i + Len(s)
  PROVE  path[k] \in Letters
<1>1. Len(s) \in Nat
  BY LenProperties
<1> DEFINE j == k - i + 1
<1>2. j \in 1..Len(s) /\ i + j - 1 = k
  BY <1>1
<1> HIDE DEF j
<1>3. s[j] \in Letters
  BY <1>2, ElementOfSeq
<1>4. path[i + j - 1] = s[j]
  BY <1>2 DEF At
<1> QED
  BY <1>2, <1>3, <1>4

LEMMA CharAt ==
  ASSUME path \in Seq(Letters \cup {Separator})
  PROVE  /\ Len(path) \in Nat
         /\ \A k \in Nat : k >= 1 /\ k <= Len(path) => Char(k) = path[k] /\ path[k] \in Letters \cup {Separator}
         /\ \A k \in Nat : k > Len(path) => Char(k) = Terminator
         /\ \A k \in Nat : k >= 1 => Char(k) \in Letters \cup {Separator, Terminator}
<1>1. Len(path) \in Nat
  BY LenProperties
<1>2. \A k \in Nat : k >= 1 /\ k <= Len(path) => Char(k) = path[k] /\ path[k] \in Letters \cup {Separator}
  BY <1>1, ElementOfSeq DEF Char
<1>3. \A k \in Nat : k > Len(path) => Char(k) = Terminator
  BY <1>1 DEF Char
<1> QED
  BY <1>1, <1>2, <1>3

(* The walk is at the end of the component c, which began at position i.   *)
Ended(c, i) ==
    /\ c \in Seq(Letters) /\ i \in Nat /\ i >= 1 /\ At(c, i)
    /\ i + Len(c) <= Len(path) + 1 /\ EndOfComponent(Char(i + Len(c)))

LEMMA EndedSame ==
  ASSUME path \in Seq(Letters \cup {Separator}), NEW c, NEW m, NEW i, Ended(c, i), Ended(m, i)
  PROVE  c = m
BY SameName DEF Ended

(* What a spelling of the path would put behind the first separator.       *)
LEMMA RootEnded ==
  ASSUME path \in Seq(Letters \cup {Separator}), NEW n, NEW m, InRoot(n, m)
  PROVE  Ended(m, 2) /\ m # <<>> /\ Char(2 + Len(m)) = Terminator
<1>1. m \in Seq(Letters) /\ Len(m) \in Nat /\ Len(m) >= 1
  BY NameFacts, TreeFacts DEF InRoot
<1>2. Char(2 + Len(m)) = Terminator
  BY <1>1, CharAt DEF InRoot
<1> QED
  BY <1>1, <1>2 DEF InRoot, Ended, EndOfComponent

LEMMA DirectoryEnded ==
  ASSUME path \in Seq(Letters \cup {Separator}), NEW n, NEW x, NEW m, InDirectory(n, x, m)
  PROVE  /\ Ended(x, 2) /\ x # <<>> /\ Char(2 + Len(x)) = Separator /\ Len(x) \in Nat /\ Len(x) >= 1
         /\ Ended(m, Len(x) + 3) /\ m # <<>> /\ Char(Len(x) + 3 + Len(m)) = Terminator
         /\ Len(m) \in Nat /\ Len(m) >= 1
         /\ Len(x) + 3 <= Len(path)
<1>1. x \in Seq(Letters) /\ Len(x) \in Nat /\ Len(x) >= 1
  BY NameFacts, TreeFacts DEF InDirectory
<1>2. m \in Seq(Letters) /\ Len(m) \in Nat /\ Len(m) >= 1
  BY NameFacts, TreeFacts DEF InDirectory
<1>3. Len(path) = Len(x) + Len(m) + 2
  BY DEF InDirectory
<1>4. Char(2 + Len(x)) = Separator
  <2>1. path[Len(x) + 2] = Separator
    BY DEF InDirectory
  <2>2. 2 + Len(x) \in Nat /\ 2 + Len(x) = Len(x) + 2 /\ 2 + Len(x) >= 1 /\ 2 + Len(x) <= Len(path)
    BY <1>1, <1>2, <1>3
  <2> QED
    BY <2>1, <2>2, CharAt
<1>5. Char(Len(x) + 3 + Len(m)) = Terminator
  BY <1>1, <1>2, <1>3, CharAt
<1>6. Ended(x, 2)
  BY <1>1, <1>2, <1>3, <1>4 DEF InDirectory, Ended, EndOfComponent
<1>7. Ended(m, Len(x) + 3)
  BY <1>1, <1>2, <1>3, <1>5 DEF InDirectory, Ended, EndOfComponent
<1> QED
  BY <1>1, <1>2, <1>3, <1>4, <1>5, <1>6, <1>7

(* Where the walk is, in words of the path: behind a prefix of length i-1   *)
(* it has read component.                                                   *)
LEMMA InsideEnded ==
  ASSUME path \in Seq(Letters \cup {Separator}), NEW x, Inside(x)
  PROVE  /\ Ended(x, 2) /\ Len(x) \in Nat /\ Len(x) >= 1 /\ x \in Seq(Letters)
         /\ Char(2 + Len(x)) = Separator
<1>1. x \in Seq(Letters) /\ Len(x) \in Nat /\ Len(x) >= 1
  BY NameFacts, TreeFacts DEF Inside
<1>2. Char(2 + Len(x)) = Separator
  <2>1. path[Len(x) + 2] = Separator /\ Len(x) + 2 <= Len(path)
    BY DEF Inside
  <2>2. 2 + Len(x) \in Nat /\ 2 + Len(x) = Len(x) + 2 /\ 2 + Len(x) >= 1
    BY <1>1
  <2> QED
    BY <2>1, <2>2, CharAt
<1> QED
  <2>1. Len(path) \in Nat /\ Len(x) + 2 <= Len(path)
    BY CharAt DEF Inside
  <2> QED
    BY <1>1, <1>2, <2>1 DEF Inside, Ended, EndOfComponent

Spelled(n) ==
    \/ \E m \in DOMAIN Tree[Root] : InRoot(n, m)
    \/ \E x \in DOMAIN Tree[Root] : Tree[Root][x] \in Directories /\
          \E m \in DOMAIN Tree[Tree[Root][x]] : InDirectory(n, x, m)

(* In a directory every spelling goes through that directory.              *)
LEMMA ThroughDirectory ==
  ASSUME path \in Seq(Letters \cup {Separator}), NEW y, Inside(y), NEW n, Spelled(n)
  PROVE  \E m \in DOMAIN Tree[entries] : InDirectory(n, y, m)
<1>1. Ended(y, 2) /\ Char(2 + Len(y)) = Separator
  BY InsideEnded
<1>2. ASSUME NEW m \in DOMAIN Tree[Root], InRoot(n, m) PROVE FALSE
  <2>1. Ended(m, 2) /\ Char(2 + Len(m)) = Terminator
    BY <1>2, RootEnded
  <2>2. m = y
    BY <1>1, <2>1, EndedSame
  <2> QED
    BY <1>1, <2>1, <2>2, TreeFacts
<1>3. ASSUME NEW x \in DOMAIN Tree[Root], Tree[Root][x] \in Directories,
             NEW m \in DOMAIN Tree[Tree[Root][x]], InDirectory(n, x, m)
      PROVE  x = y
  BY <1>1, <1>3, DirectoryEnded, EndedSame
<1> QED
  BY <1>2, <1>3 DEF Spelled, Inside

-----------------------------------------------------------------------------
(* The position where the component under way began.                       *)
From(i) ==
    /\ i \in Nat /\ i >= 2 /\ pathIndex = i + Len(component) /\ At(component, i) /\ Begins
    /\ entries \in DOMAIN Tree
    /\ \/ entries = Root /\ i = 2
       \/ entries \in Directories /\ \E x \in DOMAIN Tree[Root] : Inside(x) /\ i = Len(x) + 3

LEMMA ComponentBegan ==
  ASSUME NInv, step = "copy"
  PROVE  \E i \in Nat : From(i)
<1>1. component \in Seq(Letters) /\ Len(component) \in Nat /\ entries \in DOMAIN Tree /\ Begins
  BY LenProperties DEF NInv, WalkTypeOK, WalkStep
<1>2. CASE entries = Root /\ pathIndex = Len(component) + 2 /\ At(component, 2)
  BY <1>1, <1>2 DEF From
<1>3. CASE entries \in Directories /\ \E x \in DOMAIN Tree[Root] : Inside(x)
  <2>1. PICK x \in DOMAIN Tree[Root] : Inside(x)
    BY <1>3
  <2>2. Len(x) \in Nat /\ pathIndex = Len(x) + 3 + Len(component) /\ At(component, Len(x) + 3)
    BY <2>1, InsideEnded DEF NInv, Inside
  <2>3. From(Len(x) + 3)
    BY <1>1, <1>3, <2>1, <2>2 DEF From
  <2> QED
    BY <2>2, <2>3
<1> QED
  BY <1>2, <1>3 DEF NInv, WalkStep

(* The name that leads to n from where the walk is. *)
Leads(n, m, i) ==
    /\ m \in DOMAIN Tree[entries] /\ Ended(m, i) /\ m # <<>>
    /\ m \in Seq(Letters) /\ Len(m) \in Nat /\ Len(m) <= BufferSize - 1
    /\ \/ Tree[entries][m] = n /\ Char(i + Len(m)) = Terminator
       \/ Tree[entries][m] \in Directories /\ Char(i + Len(m)) = Separator /\ i + Len(m) < Len(path)

LEMMA NextName ==
  ASSUME NInv, NEW i, From(i), NEW n, Spelled(n)
  PROVE  \E m : Leads(n, m, i)
<1>0. path \in Seq(Letters \cup {Separator})
  BY DEF NInv
<1>1. CASE entries = Root /\ i = 2
  <2>1. ASSUME NEW m \in DOMAIN Tree[Root], InRoot(n, m) PROVE Leads(n, m, i)
    <3>1. /\ m \in Seq(Letters) /\ Len(m) \in Nat /\ Len(m) <= BufferSize - 1
      BY NameFacts, TreeFacts
    <3>2. Ended(m, 2) /\ m # <<>> /\ Char(2 + Len(m)) = Terminator
      BY <1>0, <2>1, RootEnded
    <3> QED
      BY <1>1, <2>1, <3>1, <3>2 DEF Leads, InRoot
  <2>2. ASSUME NEW x \in DOMAIN Tree[Root], Tree[Root][x] \in Directories,
               NEW m \in DOMAIN Tree[Tree[Root][x]], InDirectory(n, x, m)
        PROVE  Leads(n, x, i)
    <3>1. /\ x \in Seq(Letters) /\ Len(x) \in Nat /\ Len(x) <= BufferSize - 1
      BY NameFacts, TreeFacts
    <3>2. Ended(x, 2) /\ x # <<>> /\ Char(2 + Len(x)) = Separator /\ Len(x) + 3 <= Len(path) /\ Len(path) \in Nat
      BY <1>0, <2>2, DirectoryEnded, CharAt
    <3> QED
      BY <1>1, <2>2, <3>1, <3>2 DEF Leads
  <2> QED
    BY <2>1, <2>2 DEF Spelled
<1>2. CASE entries \in Directories /\ \E x \in DOMAIN Tree[Root] : Inside(x) /\ i = Len(x) + 3
  <2>1. PICK x \in DOMAIN Tree[Root] : Inside(x) /\ i = Len(x) + 3
    BY <1>2
  <2>2. PICK m \in DOMAIN Tree[entries] : InDirectory(n, x, m)
    BY <1>0, <2>1, ThroughDirectory
  <2>3. m \in Seq(Letters) /\ Len(m) \in Nat /\ Len(m) <= BufferSize - 1
    BY <1>2, NameFacts, TreeFacts
  <2>4. Ended(m, i) /\ m # <<>> /\ Char(i + Len(m)) = Terminator
    BY <1>0, <2>1, <2>2, DirectoryEnded
  <2>5. Tree[entries][m] = n
    BY <2>1, <2>2 DEF InDirectory, Inside
  <2> QED
    BY <2>2, <2>3, <2>4, <2>5 DEF Leads
<1> QED
  BY <1>1, <1>2 DEF From

(* A refusal of the walk is right if no node is spelled by the path.       *)
LEMMA RefuseKeeps ==
  ASSUME NInv, step \in {"start", "copy"}, Refuse, \A n \in Nodes : ~Spelled(n)
  PROVE  NInv'
<1>0. path \in Seq(Letters \cup {Separator})
  BY DEF NInv
<1>1. \A n \in Nodes : path \notin Spellings(n)
  <2> TAKE n \in Nodes
  <2> QED
    BY <1>0, SpellingsAre DEF Spelled
<1>2. node = None
  BY DEF NInv, WalkStep
<1>3. WalkTypeOK'
  BY DEF NInv, WalkTypeOK, Refuse
<1>4. \A n : Spellings(n)' = Spellings(n)
  BY DEF Spellings
<1>5. WalkIsExact'
  BY <1>1 DEF WalkIsExact, Refuse
<1>6. OpenInv'
  BY <1>2 DEF OpenInv, Refuse
<1>7. WalkStep'
  BY DEF WalkStep, Refuse
<1> QED
  BY <1>3, <1>5, <1>6, <1>7 DEF NInv, Refuse

LEMMA WalkBegins == WalkInit => NInv
<1> SUFFICES ASSUME WalkInit PROVE NInv
  OBVIOUS
<1>1. path \in Seq(Letters \cup {Separator})
  <2>1. PICK n \in 0..MaxPath : path \in [1..n -> Letters \cup {Separator}]
    BY DEF WalkInit, Paths
  <2>2. n \in Nat
    BY NamespaceAssumption
  <2> QED
    BY <2>1, <2>2, SeqDef
<1>2. Len(path) \in Nat /\ component = <<>> /\ component \in Seq(Letters) /\ Len(component) = 0
  BY <1>1, LenProperties DEF WalkInit
<1>3. WalkTypeOK
  BY <1>2, TreeFacts DEF WalkInit, WalkTypeOK
<1>4. call \in {"open", "exec"} /\ flags \in Nat
  <2>1. Flags \subseteq Nat
    BY NamespaceAssumption
  <2>2. (call = "open" /\ flags \in Flags) \/ (call = "exec" /\ flags = 0)
    BY DEF WalkInit
  <2>3. call \in {"open", "exec"}
    BY <2>2
  <2>4. flags \in Flags \/ flags = 0
    BY <2>2, Zenon
  <2>5. ASSUME flags \in Flags PROVE flags \in Nat
    BY <2>1, <2>5, Zenon
  <2>6. ASSUME flags = 0 PROVE flags \in Nat
    BY <2>6
  <2> QED
    BY <2>3, <2>4, <2>5, <2>6, Zenon
<1>5. WalkIsExact
  BY DEF WalkInit, WalkIsExact
<1>6. OpenInv
  BY DEF WalkInit, OpenInv
<1>7. WalkStep
  BY DEF WalkInit, WalkStep
<1> QED
  BY <1>1, <1>3, <1>4, <1>5, <1>6, <1>7 DEF NInv, WalkInit

LEMMA StartStep == NInv /\ Start => NInv'
<1> SUFFICES ASSUME NInv, Start PROVE NInv'
  OBVIOUS
<1>0. path \in Seq(Letters \cup {Separator}) /\ Len(path) \in Nat
  BY LenProperties DEF NInv
<1>1. CASE Char(1) # Separator \/ Char(2) = Terminator
  <2>1. ~Begins
    <3> SUFFICES ASSUME Begins PROVE FALSE
      OBVIOUS
    <3>1. 1 \in 1..Len(path) /\ 2 \in 1..Len(path)
      BY <1>0 DEF Begins
    <3>2. path[2] \in Letters \cup {Separator} /\ path[1] = Separator
      BY <1>0, <3>1, ElementOfSeq DEF Begins
    <3> QED
      BY <1>1, <3>1, <3>2, TreeFacts DEF Char
  <2>2. \A n : ~Spelled(n)
    BY <2>1 DEF Spelled, InRoot, InDirectory
  <2> QED
    BY <1>1, <2>2, RefuseKeeps DEF Start
<1>2. CASE ~(Char(1) # Separator \/ Char(2) = Terminator)
  <2>1. /\ step = "start" /\ pathIndex' = 2 /\ step' = "copy" /\ path' = path
        /\ UNCHANGED <<call, flags, component, entries, node, access>>
    BY <1>2 DEF Start
  <2>2. Begins /\ Len(path) >= 2
    BY <1>0, <1>2, TreeFacts DEF Begins, Char
  <2>3. component = <<>> /\ entries = Root /\ node = None
    BY <2>1 DEF NInv, WalkStep
  <2>4. WalkTypeOK'
    BY <1>0, <2>1, <2>2 DEF NInv, WalkTypeOK
  <2>5. At(component, 2)' /\ Begins'
    BY <2>1, <2>2, <2>3 DEF At, Begins
  <2>6. WalkStep'
    BY <2>1, <2>3, <2>5 DEF WalkStep
  <2>7. WalkIsExact'
    BY <2>1 DEF WalkIsExact
  <2>8. OpenInv'
    BY <2>1 DEF OpenInv
  <2> QED
    BY <2>1, <2>4, <2>6, <2>7, <2>8 DEF NInv
<1> QED
  BY <1>1, <1>2

(* A component that has filled the buffer and goes on begins no name.       *)
LEMMA TooLong ==
  ASSUME path \in Seq(Letters \cup {Separator}), NEW c \in Seq(Letters), NEW i \in Nat, i >= 1, At(c, i),
         Len(c) + 1 >= BufferSize, ~EndOfComponent(Char(i + Len(c))),
         NEW m, Ended(m, i), Len(m) <= BufferSize - 1, i + Len(c) <= Len(path)
  PROVE  FALSE
<1>1. Len(c) \in Nat /\ Len(m) \in Nat /\ BufferSize \in Nat /\ Len(path) \in Nat
  BY LenProperties, TreeFacts DEF Ended
<1>2. Len(m) <= Len(c)
  BY <1>1
<1>3. CASE Len(m) = Len(c)
  BY <1>3 DEF Ended
<1>4. CASE Len(m) < Len(c)
  <2> DEFINE k == i + Len(m)
  <2>1. k \in Nat /\ i <= k /\ k < i + Len(c) /\ k <= Len(path) /\ k >= 1
    BY <1>1, <1>4
  <2>2. path[k] \in Letters
    BY <2>1, LetterAt
  <2>3. Char(k) = path[k]
    BY <2>1, CharAt
  <2> QED
    BY <2>2, <2>3, TreeFacts DEF Ended, EndOfComponent
<1> QED
  BY <1>1, <1>2, <1>3, <1>4

LEMMA CopyCharStep == NInv /\ CopyChar => NInv'
<1> SUFFICES ASSUME NInv, CopyChar PROVE NInv'
  OBVIOUS
<1>0. /\ path \in Seq(Letters \cup {Separator}) /\ Len(path) \in Nat /\ step = "copy"
      /\ component \in Seq(Letters) /\ Len(component) \in Nat
      /\ pathIndex \in Nat /\ pathIndex >= 1 /\ pathIndex <= Len(path) + 1
      /\ entries \in DOMAIN Tree /\ node = None
  BY LenProperties DEF NInv, WalkTypeOK, CopyChar, WalkStep
<1>1. PICK i \in Nat : From(i)
  BY <1>0, ComponentBegan
<1>2. ~EndOfComponent(Char(pathIndex))
  BY DEF CopyChar
<1>3. pathIndex <= Len(path)
  <2> SUFFICES ASSUME pathIndex > Len(path) PROVE FALSE
    BY <1>0
  <2> QED
    BY <1>0, <1>2, CharAt DEF EndOfComponent
<1>4. Char(pathIndex) = path[pathIndex] /\ path[pathIndex] \in Letters
  BY <1>0, <1>2, <1>3, CharAt DEF EndOfComponent
<1>5. i >= 2 /\ pathIndex = i + Len(component) /\ At(component, i)
  BY <1>1 DEF From
<1>6. CASE BufferFull
  <2>1. ASSUME NEW n \in Nodes, Spelled(n) PROVE FALSE
    <3>1. PICK m : Leads(n, m, i)
      BY <1>1, <2>1, NextName
    <3>2. Ended(m, i) /\ Len(m) <= BufferSize - 1
      BY <3>1 DEF Leads
    <3>3. Len(component) + 1 >= BufferSize
      BY <1>6 DEF BufferFull
    <3> QED
      BY <1>0, <1>2, <1>3, <1>5, <3>2, <3>3, TooLong
  <2> QED
    BY <1>0, <1>6, <2>1, RefuseKeeps DEF CopyChar
<1>7. CASE ~BufferFull
  <2>1. /\ component' = Append(component, path[pathIndex]) /\ pathIndex' = pathIndex + 1
        /\ UNCHANGED <<path, call, flags, entries, node, access, step>>
    BY <1>4, <1>7 DEF CopyChar
  <2>2. /\ component' \in Seq(Letters) /\ Len(component') = Len(component) + 1
        /\ \A k \in 1..Len(component) : component'[k] = component[k]
        /\ component'[Len(component) + 1] = path[pathIndex]
    BY <1>0, <1>4, <2>1, AppendProperties
  <2>3. At(component, i)'
    <3> SUFFICES ASSUME NEW k \in 1..(Len(component) + 1) PROVE path[i + k - 1] = component'[k]
      BY <2>1, <2>2 DEF At
    <3>1. CASE k = Len(component) + 1
      BY <3>1, <2>2, <1>0, <1>5
    <3>2. CASE k \in 1..Len(component)
      BY <3>2, <2>2, <1>5 DEF At
    <3> QED
      BY <3>1, <3>2, <1>0
  <2>4. WalkTypeOK'
    <3>1. Len(component') + 1 <= BufferSize
      BY <1>0, <1>7, <2>2, TreeFacts DEF BufferFull
    <3>2. pathIndex' \in 1..(Len(path') + 1)
      BY <1>0, <1>3, <2>1
    <3> QED
      BY <2>1, <2>2, <3>1, <3>2 DEF NInv, WalkTypeOK
  <2>5. WalkStep'
    <3>1. Begins' /\ Begins
      BY <1>1, <2>1 DEF Begins, From
    <3>2. CASE entries = Root /\ i = 2
      <4>1. entries' = Root /\ pathIndex' = Len(component') + 2 /\ At(component, 2)'
        BY <1>0, <1>5, <2>1, <2>2, <2>3, <3>2
      <4> QED
        BY <1>0, <2>1, <3>1, <4>1 DEF WalkStep
    <3>3. CASE entries \in Directories /\ \E x \in DOMAIN Tree[Root] : Inside(x) /\ i = Len(x) + 3
      <4>1. PICK x \in DOMAIN Tree[Root] : Inside(x) /\ i = Len(x) + 3
        BY <3>3
      <4>2. Len(x) \in Nat
        BY <4>1, <1>0, InsideEnded
      <4>3. pathIndex' = Len(x) + 3 + Len(component')
        BY <4>1, <4>2, <1>0, <1>5, <2>1, <2>2
      <4>4. At(component, Len(x) + 3)'
        BY <4>1, <2>3
      <4>5. At(x, 2)'
        BY <4>1, <2>1 DEF At, Inside
      <4>6. Inside(x)'
        BY <4>1, <4>3, <4>4, <4>5, <2>1 DEF Inside
      <4> QED
        BY <1>0, <2>1, <3>1, <3>3, <4>6 DEF WalkStep
    <3> QED
      BY <1>1, <3>2, <3>3 DEF From
  <2>6. WalkIsExact'
    BY <1>0, <2>1 DEF WalkIsExact
  <2>7. OpenInv'
    BY <1>0, <2>1 DEF OpenInv
  <2> QED
    BY <2>1, <2>4, <2>5, <2>6, <2>7 DEF NInv
<1> QED
  BY <1>6, <1>7

LEMMA FindChildStep == NInv /\ FindChild => NInv'
<1> SUFFICES ASSUME NInv, FindChild PROVE NInv'
  OBVIOUS
<1>0. /\ path \in Seq(Letters \cup {Separator}) /\ Len(path) \in Nat /\ step = "copy"
      /\ component \in Seq(Letters) /\ Len(component) \in Nat
      /\ pathIndex \in Nat /\ pathIndex >= 1 /\ pathIndex <= Len(path) + 1
      /\ entries \in DOMAIN Tree /\ node = None
  BY LenProperties DEF NInv, WalkTypeOK, FindChild, WalkStep
<1>1. PICK i \in Nat : From(i)
  BY <1>0, ComponentBegan
<1>2. i >= 2 /\ pathIndex = i + Len(component) /\ At(component, i) /\ Begins
  BY <1>1 DEF From
<1>3. Ended(component, i)
  BY <1>0, <1>2 DEF Ended, FindChild
<1>4. ASSUME NEW n, Spelled(n) PROVE Leads(n, component, i)
  <2>1. PICK m : Leads(n, m, i)
    BY <1>1, <1>4, NextName
  <2>2. m = component
    BY <1>0, <1>3, <2>1, EndedSame DEF Leads
  <2> QED
    BY <2>1, <2>2
<1>5. CASE component = <<>> \/ Matching = {}
  <2>1. ASSUME NEW n \in Nodes, Spelled(n) PROVE FALSE
    <3>1. component # <<>> /\ component \in DOMAIN Tree[entries]
      BY <1>4, <2>1 DEF Leads
    <3>2. component \in Matching
      BY <3>1 DEF Matching, string_equal
    <3> QED
      BY <1>5, <3>1, <3>2
  <2>2. Refuse
    BY <1>5 DEF FindChild
  <2> QED
    BY <1>0, <2>1, <2>2, RefuseKeeps
<1>6. CASE ~(component = <<>> \/ Matching = {})
  <2> DEFINE found == Tree[entries][component]
  <2>1. component \in DOMAIN Tree[entries] /\ (CHOOSE m \in Matching : TRUE) = component
    BY <1>6 DEF Matching, string_equal
  <2>2. found \in Nodes /\ found # None
    BY <1>0, <2>1, NameFacts, TreeFacts
  <2>3. \/ Char(pathIndex) = Terminator
        \/ Char(pathIndex) = Separator
    BY DEF FindChild, EndOfComponent
  <2>4. CASE Char(pathIndex) = Terminator
    <3>1. /\ node' = found /\ step' = "walked"
          /\ UNCHANGED <<path, call, flags, pathIndex, component, entries, access>>
      BY <1>6, <2>1, <2>4 DEF FindChild
    <3>2. Len(path) + 1 = pathIndex
      <4> SUFFICES ASSUME pathIndex <= Len(path) PROVE FALSE
        BY <1>0
      <4> QED
        BY <1>0, <2>4, CharAt, TreeFacts
    <3>3. Spelled(found)
      <4>1. CASE entries = Root /\ i = 2
        <5>1. Len(path) = Len(component) + 1
          BY <1>0, <1>2, <3>2, <4>1
        <5> QED
          BY <1>2, <2>1, <4>1, <5>1 DEF Spelled, InRoot
      <4>2. CASE entries \in Directories /\ \E x \in DOMAIN Tree[Root] : Inside(x) /\ i = Len(x) + 3
        <5>1. PICK x \in DOMAIN Tree[Root] : Inside(x) /\ i = Len(x) + 3
          BY <4>2
        <5>2. Len(x) \in Nat
          BY <5>1, <1>0, InsideEnded
        <5>3. Len(path) = Len(x) + Len(component) + 2
          BY <1>0, <1>2, <3>2, <5>1, <5>2
        <5>4. entries = Tree[Root][x] /\ At(x, 2) /\ path[Len(x) + 2] = Separator
          BY <5>1 DEF Inside
        <5>5. InDirectory(found, x, component)
          BY <1>2, <2>1, <4>2, <5>1, <5>3, <5>4 DEF InDirectory
        <5> QED
          BY <2>1, <4>2, <5>4, <5>5 DEF Spelled
      <4> QED
        BY <1>1, <4>1, <4>2 DEF From
    <3>4. path \in Spellings(found)
      BY <1>0, <3>3, SpellingsAre DEF Spelled
    <3>5. Spellings(node)' = Spellings(found)
      BY <3>1 DEF Spellings
    <3> HIDE DEF found
    <3>6. WalkIsExact'
      BY <3>1, <3>4, <3>5 DEF WalkIsExact
    <3>7. WalkTypeOK'
      BY <2>2, <3>1 DEF NInv, WalkTypeOK
    <3>8. OpenInv'
      BY <3>1 DEF OpenInv
    <3>9. WalkStep'
      BY <2>2, <3>1 DEF WalkStep
    <3> QED
      BY <3>1, <3>6, <3>7, <3>8, <3>9 DEF NInv
  <2>5. CASE Char(pathIndex) = Separator /\ (found \notin Directories \/ Char(pathIndex + 1) = Terminator)
    <3>1. Char(pathIndex) # Terminator
      BY <2>5, TreeFacts
    <3>2. Refuse
      BY <1>6, <2>1, <2>5, <3>1 DEF FindChild
    <3>3. ASSUME NEW n \in Nodes, Spelled(n) PROVE FALSE
      <4>1. Leads(n, component, i)
        BY <1>4, <3>3
      <4>2. found \in Directories /\ pathIndex < Len(path)
        BY <1>2, <3>1, <4>1 DEF Leads
      <4>3. Char(pathIndex + 1) = path[pathIndex + 1] /\ path[pathIndex + 1] \in Letters \cup {Separator}
        BY <1>0, <4>2, CharAt
      <4> QED
        BY <2>5, <4>2, <4>3, TreeFacts
    <3> QED
      BY <1>0, <3>2, <3>3, RefuseKeeps
  <2>6. CASE Char(pathIndex) = Separator /\ found \in Directories /\ Char(pathIndex + 1) # Terminator
    <3>1. Char(pathIndex) # Terminator
      BY <2>6, TreeFacts
    <3>2. /\ entries' = found /\ pathIndex' = pathIndex + 1 /\ component' = <<>>
          /\ UNCHANGED <<path, call, flags, node, access, step>>
      BY <1>6, <2>1, <2>6, <3>1 DEF FindChild
    <3>3. pathIndex + 1 <= Len(path)
      BY <1>0, <2>6, CharAt
    <3>4. entries = Root /\ i = 2
      <4>1. ASSUME entries \in Directories PROVE FALSE
        <5>1. \A d \in Directories : \A m \in DOMAIN Tree[d] : Tree[d][m] \notin Directories
          BY NamespaceAssumption
        <5> QED
          BY <2>1, <2>6, <4>1, <5>1
      <4> QED
        BY <1>1, <4>1 DEF From
    <3>5. path[Len(component) + 2] = Separator /\ Len(component) + 2 <= Len(path) /\ pathIndex = Len(component) + 2
      BY <1>0, <1>2, <2>6, <3>3, <3>4, CharAt
    <3>6. \E x \in DOMAIN Tree[Root] : Inside(x)'
      <4>1. PICK c : c = component
        OBVIOUS
      <4>2. At(c, 2)
        BY <1>2, <3>4, <4>1
      <4>3. At(c, 2)' /\ At(component, Len(c) + 3)'
        BY <3>2, <4>2 DEF At
      <4>4. c \in DOMAIN Tree[Root] /\ Tree[Root][c] = entries'
        BY <2>1, <3>2, <3>4, <4>1
      <4>5. Len(c) \in Nat /\ pathIndex' = Len(c) + 3 + Len(component')
        BY <1>0, <3>2, <3>5, <4>1
      <4>6. path'[Len(c) + 2] = Separator /\ Len(c) + 2 <= Len(path')
        BY <3>2, <3>5, <4>1
      <4>7. Inside(c)'
        BY <4>3, <4>4, <4>5, <4>6 DEF Inside
      <4> QED
        BY <4>4, <4>7
    <3> HIDE DEF found
    <3>7. Begins'
      BY <1>2, <3>2 DEF Begins
    <3>8. WalkStep'
      BY <1>0, <2>6, <3>2, <3>6, <3>7 DEF WalkStep
    <3>9. WalkTypeOK'
      <4>1. component' \in Seq(Letters) /\ Len(component') = 0
        BY <3>2
      <4>2. pathIndex' \in 1..(Len(path') + 1)
        BY <1>0, <3>2, <3>3
      <4>3. entries' \in DOMAIN Tree
        BY <2>6, <3>2, TreeFacts
      <4> QED
        BY <3>2, <4>1, <4>2, <4>3, TreeFacts DEF NInv, WalkTypeOK
    <3>10. WalkIsExact'
      BY <1>0, <3>2 DEF WalkIsExact
    <3>11. OpenInv'
      BY <1>0, <3>2 DEF OpenInv
    <3> QED
      BY <3>2, <3>8, <3>9, <3>10, <3>11 DEF NInv
  <2> QED
    BY <2>3, <2>4, <2>5, <2>6
<1> QED
  BY <1>5, <1>6

LEMMA OpenStep == NInv /\ Open => NInv'
<1> SUFFICES ASSUME NInv, Open PROVE NInv'
  OBVIOUS
<1> DEFINE a == IF call = "open" THEN LowWord(flags) ELSE 0
           yes == (call = "open" /\ Openable(node, a)) \/ (call = "exec" /\ node \in Executables)
<1>0. /\ step = "walked" /\ node \in Nodes /\ node # None /\ call \in {"open", "exec"}
      /\ UNCHANGED <<path, call, flags, pathIndex, component, entries, node>>
      /\ path \in Spellings(node)
  BY TreeFacts DEF NInv, WalkStep, WalkIsExact, Open, Refuse
<1>1. Spellings(node)' = Spellings(node)
  BY <1>0 DEF Spellings
<1>2. CASE yes
  <2>1. access' = a /\ step' = "opened"
    BY <1>2 DEF Open
  <2>2. access' \in 0..3
    BY <1>2, <2>1 DEF Openable, vfs_open_flags_valid, VFS_ACCESS_READ, VFS_ACCESS_WRITE
  <2>3. OpenInv'
    BY <1>0, <1>2, <2>1 DEF OpenInv
  <2>4. WalkTypeOK'
    BY <1>0, <2>2 DEF NInv, WalkTypeOK
  <2>5. WalkIsExact'
    BY <1>0, <1>1, <2>1 DEF WalkIsExact
  <2>6. WalkStep'
    BY <1>0, <2>1 DEF WalkStep
  <2> QED
    BY <1>0, <2>1, <2>3, <2>4, <2>5, <2>6 DEF NInv
<1>3. CASE ~yes
  <2>1. access' = access /\ step' = "refused"
    BY <1>3 DEF Open, Refuse
  <2>2. OpenInv'
    BY <1>0, <1>1, <1>3, <2>1 DEF OpenInv
  <2>3. WalkTypeOK'
    BY <1>0, <2>1 DEF NInv, WalkTypeOK
  <2>4. WalkIsExact'
    BY <1>0, <2>1 DEF WalkIsExact
  <2>5. WalkStep'
    BY <1>0, <2>1 DEF WalkStep
  <2> QED
    BY <1>0, <2>1, <2>2, <2>3, <2>4, <2>5 DEF NInv
<1> QED
  BY <1>2, <1>3

LEMMA WalkStays == NInv /\ UNCHANGED walkVars => NInv'
<1> SUFFICES ASSUME NInv, UNCHANGED walkVars PROVE NInv'
  OBVIOUS
<1>1. UNCHANGED <<path, call, flags, pathIndex, component, entries, node, access, step>>
  BY DEF walkVars
<1>2. WalkTypeOK'
  BY <1>1 DEF NInv, WalkTypeOK
<1>3. Spellings(node)' = Spellings(node)
  BY <1>1 DEF Spellings
<1>4. WalkIsExact'
  <2>1. \A n : Spellings(n)' = Spellings(n)
    BY DEF Spellings
  <2> QED
    BY <1>1, <1>3, <2>1 DEF NInv, WalkIsExact
<1>5. OpenInv'
  BY <1>1, <1>3 DEF NInv, OpenInv
<1>6. WalkStep'
  BY <1>1 DEF NInv, WalkStep, Begins, At, Inside
<1> QED
  BY <1>1, <1>2, <1>4, <1>5, <1>6 DEF NInv

LEMMA WalkInvariant == WalkSpec => []NInv
<1>1. NInv /\ [WalkNext]_walkVars => NInv'
  BY StartStep, CopyCharStep, FindChildStep, OpenStep, WalkStays DEF WalkNext
<1> QED
  BY <1>1, WalkBegins, PTL DEF WalkSpec

(* For any tree of two levels, any names, path and buffer, vfs_walk_path   *)
(* stays in the path and in its buffer and finds a node exactly by its     *)
(* full name.                                                              *)
THEOREM WalkIsSound == WalkSpec => []WalkSound
<1>1. NInv => WalkSound
  BY DEF NInv, WalkSound
<1> QED
  BY <1>1, WalkInvariant, PTL

(* Flags that ask for an access leave it in their low word, and flags with *)
(* an access in their low word ask for it.                                 *)
LEMMA CodeFacts ==
  /\ Rights = {{1}, {2}, {1, 2}}
  /\ Code({1}) = 1 /\ Code({2}) = 2 /\ Code({1, 2}) = 3
  /\ Bits(1) = {1} /\ Bits(2) = {2} /\ Bits(3) = {1, 2}
<1>1. VFS_ACCESS_READ = 1 /\ VFS_ACCESS_WRITE = 2
  BY DEF VFS_ACCESS_READ, VFS_ACCESS_WRITE
<1>2. Rights = {{1}, {2}, {1, 2}}
  BY <1>1 DEF Rights
<1>3. {1} # {1, 2} /\ {2} # {1, 2}
  OBVIOUS
<1>4. (CHOOSE b \in {1} : TRUE) = 1 /\ (CHOOSE b \in {2} : TRUE) = 2
  OBVIOUS
<1>5. Code({1}) = 1 /\ Code({2}) = 2 /\ Code({1, 2}) = 3
  BY <1>1, <1>3, <1>4 DEF Code
<1>6. \A a \in 1..3 : Bits(a) = {b \in {1, 2} : (a \div b) % 2 = 1}
  BY <1>1 DEF Bits
<1>7. Bits(1) = {1}
  <2>1. (1 \div 1) % 2 = 1 /\ (1 \div 2) % 2 # 1
    OBVIOUS
  <2> QED
    BY <1>6, <2>1
<1>8. Bits(2) = {2}
  <2>1. (2 \div 1) % 2 # 1 /\ (2 \div 2) % 2 = 1
    OBVIOUS
  <2> QED
    BY <1>6, <2>1
<1>9. Bits(3) = {1, 2}
  <2>1. (3 \div 1) % 2 = 1 /\ (3 \div 2) % 2 = 1
    OBVIOUS
  <2> QED
    BY <1>6, <2>1
<1> QED
  BY <1>2, <1>5, <1>7, <1>8, <1>9

LEMMA LowWordIs ==
  ASSUME NEW f \in Nat, NEW a \in 0..3
  PROVE  LowWord(f) = a <=> \E high \in 0..f : f = a + high * FlagWord
<1>1. FlagWord \in Nat /\ FlagWord > 3
  BY NamespaceAssumption DEF VFS_ACCESS_READ, VFS_ACCESS_WRITE
<1>2. PICK q \in Int : q = f \div FlagWord
  BY <1>1
<1>3. PICK l \in Int : l = LowWord(f)
  BY <1>1 DEF LowWord
<1>4. f = q * FlagWord + l /\ l >= 0 /\ l < FlagWord
  BY <1>1, <1>2, <1>3 DEF LowWord
<1>5. q \in 0..f
  BY <1>1, <1>4
<1>6. ASSUME NEW high \in 0..f, f = a + high * FlagWord PROVE l = a
  <2>1. (q - high) * FlagWord = a - l
    BY <1>1, <1>4, <1>6
  <2>2. q - high < 1 /\ q - high > -1
    BY <1>1, <1>4, <2>1
  <2>3. q = high
    BY <2>2
  <2> QED
    BY <1>1, <1>4, <1>6, <2>3
<1>7. l = a => f = a + q * FlagWord
  BY <1>1, <1>4
<1> QED
  BY <1>3, <1>5, <1>6, <1>7

(* Whether some right is asked for and offered is whether the low word of  *)
(* the flags may be opened.                                                *)
LEMMA AsksIs ==
  ASSUME flags \in Nat, NEW n, NEW a \in 0..3
  PROVE  (\E right \in Rights : Asks(right) /\ right \subseteq Ops[n] /\ a = Code(right))
           <=> a = LowWord(flags) /\ vfs_open_flags_valid(a) /\ Offers(n, a)
<1>1. \A c \in 1..3 : LowWord(flags) = c <=> \E high \in 0..flags : flags = c + high * FlagWord
  BY LowWordIs
<1>2. vfs_open_flags_valid(a) <=> a \in 1..3
  BY DEF vfs_open_flags_valid, VFS_ACCESS_READ, VFS_ACCESS_WRITE
<1>3. \A right \in Rights : Code(right) \in 1..3 /\ Bits(Code(right)) = right
  <2> TAKE right \in Rights
  <2>1. right = {1} \/ right = {2} \/ right = {1, 2}
    BY CodeFacts
  <2>2. CASE right = {1}
    BY ONLY <2>2, CodeFacts
  <2>3. CASE right = {2}
    BY ONLY <2>3, CodeFacts
  <2>4. CASE right = {1, 2}
    BY ONLY <2>4, CodeFacts
  <2> QED
    BY <2>1, <2>2, <2>3, <2>4
<1>4. \A c \in 1..3 : Bits(c) \in Rights /\ Code(Bits(c)) = c
  <2> TAKE c \in 1..3
  <2>1. CASE c = 1
    BY ONLY <2>1, CodeFacts
  <2>2. CASE c = 2
    BY ONLY <2>2, CodeFacts
  <2>3. CASE c = 3
    BY ONLY <2>3, CodeFacts
  <2> QED
    BY <2>1, <2>2, <2>3
<1>5. \A right \in Rights : Asks(right) <=> LowWord(flags) = Code(right)
  BY <1>1, <1>3 DEF Asks
<1>6. ASSUME NEW right \in Rights, Asks(right), right \subseteq Ops[n], a = Code(right)
      PROVE  a = LowWord(flags) /\ vfs_open_flags_valid(a) /\ Offers(n, a)
  BY <1>2, <1>3, <1>5, <1>6 DEF Offers
<1>7. ASSUME a = LowWord(flags), vfs_open_flags_valid(a), Offers(n, a)
      PROVE  Bits(a) \in Rights /\ Asks(Bits(a)) /\ Bits(a) \subseteq Ops[n] /\ a = Code(Bits(a))
  BY <1>2, <1>4, <1>5, <1>7 DEF Offers
<1> QED
  BY <1>6, <1>7

(* A path spells one node at most. *)
LEMMA OneNode ==
  ASSUME path \in Seq(Letters \cup {Separator}), NEW n1, Spelled(n1), NEW n2, Spelled(n2)
  PROVE  n1 = n2
<1>1. ASSUME NEW n, NEW k, NEW m, InRoot(n, m), NEW x, NEW y, InDirectory(k, x, y)
      PROVE  FALSE
  <2>1. Ended(m, 2) /\ Char(2 + Len(m)) = Terminator
    BY <1>1, RootEnded
  <2>2. Ended(x, 2) /\ Char(2 + Len(x)) = Separator
    BY <1>1, DirectoryEnded
  <2>3. m = x
    BY <2>1, <2>2, EndedSame
  <2> QED
    BY <2>1, <2>2, <2>3, TreeFacts
<1>2. ASSUME NEW k, InRoot(n1, k), NEW m, InRoot(n2, m) PROVE n1 = n2
  <2>1. k = m
    BY <1>2, RootEnded, EndedSame
  <2> QED
    BY <1>2, <2>1 DEF InRoot
<1>3. ASSUME NEW x, NEW k, InDirectory(n1, x, k), NEW y, NEW m, InDirectory(n2, y, m) PROVE n1 = n2
  <2>1. Ended(x, 2) /\ Ended(y, 2) /\ Ended(k, Len(x) + 3) /\ Ended(m, Len(y) + 3)
    BY <1>3, DirectoryEnded
  <2>2. x = y
    BY <2>1, EndedSame
  <2>3. k = m
    BY <2>1, <2>2, EndedSame
  <2> QED
    BY <1>3, <2>2, <2>3 DEF InDirectory
<1>4. (\E k : InRoot(n1, k)) \/ (\E x, k : InDirectory(n1, x, k))
  BY DEF Spelled
<1>5. (\E m : InRoot(n2, m)) \/ (\E y, m : InDirectory(n2, y, m))
  BY DEF Spelled
<1> QED
  BY <1>1, <1>2, <1>3, <1>4, <1>5

(* For any tree of two levels, path, flags of any width, word and          *)
(* operations of the nodes, SYS_OPEN and SYS_EXEC end as they should: what *)
(* is opened is spelled by the path and has exactly the access that was    *)
(* asked for, and a refused call had no node to open.                      *)
THEOREM OpenIsExact == WalkSpec => []CallVerdict
<1>1. ASSUME NInv, NEW n \in Nodes, path \in Spellings(n), NEW a \in 0..3
      PROVE  Deserves(n, a) <=>
               \/ call = "exec" /\ n \in Executables /\ a = 0
               \/ call = "open" /\ a = LowWord(flags) /\ Openable(n, a)
  <2>1. flags \in Nat
    BY <1>1 DEF NInv
  <2> QED
    BY <1>1, <2>1, AsksIs DEF Deserves, Openable
<1>2. ASSUME NInv, step = "opened" PROVE Deserves(node, access)
  <2>1. node \in Nodes /\ path \in Spellings(node) /\ access \in 0..3
    BY <1>2 DEF NInv, WalkStep, WalkIsExact, WalkTypeOK
  <2>2. call \in {"open", "exec"} /\ IF call = "exec" THEN node \in Executables /\ access = 0
                                     ELSE Openable(node, LowWord(flags)) /\ access = LowWord(flags)
    BY <1>2 DEF NInv, OpenInv
  <2> QED
    BY <1>1, <1>2, <2>1, <2>2
<1>3. ASSUME NInv, step = "refused", NEW n \in Nodes, NEW a \in 0..3, Deserves(n, a) PROVE FALSE
  <2>1. path \in Spellings(n)
    BY <1>3 DEF Deserves
  <2>2. node # None
    BY <1>3, <2>1 DEF NInv, WalkIsExact
  <2>3. /\ path \in Seq(Letters \cup {Separator}) /\ path \in Spellings(node)
        /\ IF call = "exec" THEN node \notin Executables ELSE ~Openable(node, LowWord(flags))
    BY <1>3, <2>2 DEF NInv, OpenInv
  <2>4. n = node
    <3>1. Spelled(n) /\ Spelled(node)
      BY <2>1, <2>3, SpellingsAre DEF Spelled
    <3> QED
      BY <2>3, <3>1, OneNode
  <2> QED
    BY <1>1, <1>3, <2>1, <2>3, <2>4
<1>4. NInv => CallVerdict
  BY <1>2, <1>3 DEF CallVerdict
<1> QED
  BY <1>4, WalkInvariant, PTL

-----------------------------------------------------------------------------
(* The loader: words and pages *)

LEMMA ElfConstants ==
  /\ Word \in Nat /\ PageBytes \in Nat /\ LoadBase \in Nat /\ LoadSize \in Nat /\ ImageBase \in Nat
  /\ StackTop \in Nat /\ HeaderSize \in Nat /\ PhdrSize \in Nat
  /\ PageBytes > 0 /\ Word > 0 /\ LoadBase > 0 /\ ImageBase > 0
  /\ LoadBase + LoadSize < Word /\ ImageBase + LoadSize + PageBytes <= StackTop /\ StackTop < Word
BY ElfAssumption

LEMMA ElfAligned ==
  /\ Word % PageBytes = 0 /\ LoadSize % PageBytes = 0 /\ LoadBase % PageBytes = 0
  /\ ImageBase % PageBytes = 0 /\ StackTop % PageBytes = 0
BY ElfAssumption

LEMMA HeaderFacts ==
  ASSUME NEW h \in Headers
  PROVE  h.size \in Nat /\ h.ident \in BOOLEAN /\ h.phoff \in Nat /\ h.phnum \in Nat
<1>1. h \in [size : Words, ident : BOOLEAN, phoff : Words, phnum : Nat]
  BY ElfAssumption
<1> QED
  BY <1>1, ElfConstants DEF Words

LEMMA PhdrFacts ==
  ASSUME NEW p \in Phdrs
  PROVE  /\ p.load \in BOOLEAN /\ p.vaddr \in Nat /\ p.memsz \in Nat /\ p.offset \in Nat
         /\ p.filesz \in Nat /\ p.align \in Nat
         /\ p.vaddr < Word /\ p.memsz < Word /\ p.offset < Word /\ p.filesz < Word
<1>1. p \in [load : BOOLEAN, vaddr : Words, memsz : Words,
             offset : Words, filesz : Words, align : Words]
  BY ElfAssumption
<1> QED
  BY <1>1, ElfConstants DEF Words

LEMMA EntryFacts ==
  ASSUME NEW e \in Entries
  PROVE  e \in Nat
BY ElfAssumption, ElfConstants DEF Words

(* A sum of words wraps at most once. *)
LEMMA WordSumFacts ==
  ASSUME NEW a \in Nat, NEW b \in Nat, a < Word, b < Word
  PROVE  /\ a + b < Word => WordSum(a, b) = a + b
         /\ a + b >= Word => WordSum(a, b) = a + b - Word
         /\ WordSum(a, b) \in Nat /\ WordSum(a, b) < Word
<1>1. PICK w : w = Word
  OBVIOUS
<1>2. w \in Nat /\ w > 0 /\ a < w /\ b < w /\ WordSum(a, b) = (a + b) % w
  BY <1>1, ElfConstants DEF WordSum
<1>3. a + b < w => (a + b) % w = a + b
  BY <1>2
<1>4. a + b >= w => (a + b) % w = a + b - w
  BY <1>2
<1> QED
  BY <1>1, <1>2, <1>3, <1>4

(* a = k * PageBytes + r: page k, byte r of it. *)
LEMMA Divided ==
  ASSUME NEW a \in Nat
  PROVE  \E k, r, x \in Nat :
           /\ k = a \div PageBytes /\ r = a % PageBytes /\ x = k * PageBytes
           /\ r < PageBytes /\ a = x + r /\ align_down(a) = x
<1>1. PICK n : n = PageBytes
  OBVIOUS
<1>2. n \in Nat /\ n > 0
  BY <1>1, ElfConstants
<1>3. PICK k, r : k = a \div n /\ r = a % n
  OBVIOUS
<1>4. k \in Nat /\ r \in Nat /\ r < n /\ a = n * k + r
  BY <1>2, <1>3
<1>5. PICK x : x = k * n
  OBVIOUS
<1>6. x = n * k /\ x \in Nat
  BY <1>2, <1>4, <1>5
<1>7. a = x + r
  BY <1>4, <1>6
<1>8. align_down(a) = a - r
  BY <1>1, <1>3 DEF align_down
<1>9. align_down(a) = x
  BY ONLY <1>2, <1>4, <1>6, <1>7, <1>8, a \in Nat
<1>10. k = a \div PageBytes /\ r = a % PageBytes /\ x = k * PageBytes /\ r < PageBytes
  BY ONLY <1>1, <1>3, <1>4, <1>5, Zenon
<1> QED
  BY <1>4, <1>6, <1>7, <1>9, <1>10, Zenon

LEMMA TimesOrder ==
  ASSUME NEW k \in Nat, NEW l \in Nat
  PROVE  /\ k * PageBytes \in Nat
         /\ k <= l => k * PageBytes <= l * PageBytes
         /\ k < l => k * PageBytes + PageBytes <= l * PageBytes
<1>1. PICK n : n = PageBytes
  OBVIOUS
<1>2. n \in Nat /\ n > 0
  BY <1>1, ElfConstants
<1>3. k * n \in Nat
  BY <1>2
<1>4. k <= l => k * n <= l * n
  BY <1>2
<1>5. k + 1 <= l => (k + 1) * n <= l * n
  BY <1>2
<1>6. (k + 1) * n = k * n + n
  BY <1>2
<1> QED
  BY <1>1, <1>3, <1>4, <1>5, <1>6

(* The page of an address is the only one whose bounds the address is in.  *)
LEMMA DividedOnce ==
  ASSUME NEW k \in Nat, NEW a \in Nat, k * PageBytes <= a, a < k * PageBytes + PageBytes
  PROVE  /\ a \div PageBytes = k /\ align_down(a) = k * PageBytes
         /\ a % PageBytes = a - k * PageBytes
<1>0. PICK l, r, y \in Nat :
        /\ l = a \div PageBytes /\ r = a % PageBytes /\ y = l * PageBytes
        /\ r < PageBytes /\ a = y + r /\ align_down(a) = y
  BY Divided
<1>1. PICK n, x : n = PageBytes /\ x = k * PageBytes
  OBVIOUS
<1>2. n \in Nat /\ n > 0 /\ x \in Nat /\ x <= a /\ a < x + n
  BY <1>0, <1>1, ElfConstants, TimesOrder
<1>3. y <= a /\ a < y + n
  BY ONLY <1>0, <1>1, <1>2, a \in Nat, l \in Nat, r \in Nat, y \in Nat
<1>4. k < l => x + n <= y
  BY <1>0, <1>1, <1>3, TimesOrder
<1>5. l < k => y + n <= x
  BY <1>0, <1>1, <1>3, TimesOrder
<1>6. ~(k < l) /\ ~(l < k)
  BY <1>2, <1>3, <1>4, <1>5
<1>7. k = l
  BY <1>3, <1>6
<1>8. x = y /\ r = a - x
  <2>1. x = y
    BY <1>0, <1>1, <1>7, Zenon
  <2>2. a = y + r
    BY <1>0
  <2> QED
    BY ONLY <2>1, <2>2, a \in Nat, r \in Nat, y \in Nat
<1> QED
  BY ONLY <1>0, <1>1, <1>7, <1>8, Zenon

LEMMA MultipleIs ==
  ASSUME NEW a \in Nat, a % PageBytes = 0
  PROVE  a \div PageBytes \in Nat /\ a = (a \div PageBytes) * PageBytes /\ align_down(a) = a
<1>1. PICK k, r, x \in Nat :
        /\ k = a \div PageBytes /\ r = a % PageBytes /\ x = k * PageBytes
        /\ r < PageBytes /\ a = x + r /\ align_down(a) = x
  BY Divided
<1>2. r = 0
  BY <1>1, Zenon
<1>3. a = x
  BY <1>1, <1>2
<1> QED
  BY ONLY <1>1, <1>3, k \in Nat, Zenon

LEMMA MultipleOfPage ==
  ASSUME NEW k \in Nat
  PROVE  k * PageBytes \in Nat /\ (k * PageBytes) % PageBytes = 0
<1>1. PICK a : a = k * PageBytes
  OBVIOUS
<1>2. a \in Nat /\ a < a + PageBytes
  BY <1>1, TimesOrder, ElfConstants
<1>3. a % PageBytes = a - a
  BY <1>1, <1>2, DividedOnce
<1> QED
  BY <1>1, <1>2, <1>3

(* Multiples of a page add up to one, and so does their difference.        *)
LEMMA MultipleSum ==
  ASSUME NEW a \in Nat, NEW b \in Nat, a % PageBytes = 0, b % PageBytes = 0
  PROVE  /\ (a + b) % PageBytes = 0
         /\ (a + b) \div PageBytes = a \div PageBytes + b \div PageBytes
         /\ a <= b => (b - a) % PageBytes = 0
<1>1. PICK n, k, l : n = PageBytes /\ k = a \div n /\ l = b \div n
  OBVIOUS
<1>2. n \in Nat /\ n > 0 /\ k \in Nat /\ l \in Nat /\ a = k * n /\ b = l * n
  BY <1>1, ElfConstants, MultipleIs
<1>3. (k + l) * n = a + b
  BY <1>2
<1>4. (a + b) % n = 0
  BY <1>1, <1>2, <1>3, MultipleOfPage
<1>5. (a + b) \div n = k + l
  <2>1. k + l \in Nat /\ a + b \in Nat /\ a + b < a + b + n
    BY <1>2
  <2> QED
    BY <1>1, <1>3, <2>1, DividedOnce
<1>6. ASSUME a <= b PROVE (b - a) % n = 0
  <2>1. k <= l
    <3>1. l < k => b + n <= a
      BY <1>1, <1>2, TimesOrder
    <3> QED
      BY <1>2, <1>6, <3>1
  <2>2. l - k \in Nat /\ (l - k) * n = b - a
    BY <1>2, <2>1
  <2> QED
    BY <1>1, <2>2, MultipleOfPage
<1> QED
  BY <1>1, <1>4, <1>5, <1>6

(* Two addresses in step: the offset in the page survives a move by pages. *)
LEMMA MovedPage ==
  ASSUME NEW a \in Nat, NEW b \in Nat, b % PageBytes = 0
  PROVE  /\ align_down(b + a) = b + (a \div PageBytes) * PageBytes
         /\ (b + a) % PageBytes = a % PageBytes
<1>0. PICK n, l : n = PageBytes /\ l = b \div PageBytes
  OBVIOUS
<1>1. PICK k, r, x \in Nat :
        /\ k = a \div PageBytes /\ r = a % PageBytes /\ x = k * PageBytes
        /\ r < PageBytes /\ a = x + r /\ align_down(a) = x
  BY Divided
<1>2. n \in Nat /\ n > 0 /\ l \in Nat /\ b = l * n /\ x = k * n /\ r < n /\ a = x + r
  BY <1>0, <1>1, ElfConstants, MultipleIs
<1>3. (l + k) * n = b + x /\ l + k \in Nat
  BY ONLY <1>2, k \in Nat
<1>4. b + a \in Nat /\ b + x <= b + a /\ b + a < b + x + n
  BY <1>2
<1>5. align_down(b + a) = b + x /\ (b + a) % n = (b + a) - (b + x)
  BY <1>0, <1>3, <1>4, DividedOnce
<1>6. (b + a) - (b + x) = r
  BY ONLY <1>2, a \in Nat, b \in Nat, x \in Nat, r \in Nat
<1> QED
  BY ONLY <1>0, <1>1, <1>5, <1>6, Zenon

LEMMA RangeFits ==
  ASSUME NEW s \in Nat, NEW o \in Nat, NEW c \in Nat
  PROVE  range_fits(s, o, c) <=> o + c <= s
BY DEF range_fits

LEMMA SameRemainder ==
  ASSUME NEW a \in Nat, NEW b \in Nat, NEW n \in Nat, n > 0
  PROVE  a % n = b % n <=> (a - b) % n = 0
<1>1. PICK q, r : q = a \div n /\ r = a % n
  OBVIOUS
<1>2. PICK u, v : u = b \div n /\ v = b % n
  OBVIOUS
<1>3. PICK d, w : d = (a - b) \div n /\ w = (a - b) % n
  OBVIOUS
<1>4. q \in Int /\ r \in Int /\ 0 <= r /\ r < n /\ a = n * q + r
  BY <1>1
<1>5. u \in Int /\ v \in Int /\ 0 <= v /\ v < n /\ b = n * u + v
  BY <1>2
<1>6. d \in Int /\ w \in Int /\ 0 <= w /\ w < n /\ a - b = n * d + w
  BY <1>3
<1>7. PICK x, y, z, k : x = n * q /\ y = n * u /\ z = n * d /\ k = d + u - q
  OBVIOUS
<1>8. x \in Int /\ y \in Int /\ z \in Int /\ k \in Int
  BY ONLY <1>4, <1>5, <1>6, <1>7, n \in Nat
<1>9. z + y - x = n * k
  BY ONLY <1>4, <1>5, <1>6, <1>7, n \in Nat
<1>10. n * k = r - v - w
  BY ONLY <1>4, <1>5, <1>6, <1>7, <1>8, <1>9, a \in Nat, b \in Nat
<1>11. /\ k >= 1 => n * k >= n
       /\ k <= -1 => n * k <= -n
       /\ k = 0 => n * k = 0
  BY ONLY <1>8, n \in Nat, n > 0
<1>12. ASSUME w = 0 PROVE r = v
  <2>1. n * k = r - v /\ r - v < n /\ r - v > -n
    BY ONLY <1>4, <1>5, <1>6, <1>10, <1>12, n \in Nat
  <2>2. k = 0
    BY ONLY <2>1, <1>4, <1>5, <1>8, <1>11, n \in Nat
  <2> QED
    BY ONLY <2>1, <2>2, <1>4, <1>5, <1>11, n \in Nat
<1>13. ASSUME r = v PROVE w = 0
  <2>1. n * k = -w
    BY ONLY <1>4, <1>5, <1>6, <1>10, <1>13, n \in Nat
  <2>2. k = 0
    BY ONLY <2>1, <1>6, <1>8, <1>11, n \in Nat, n > 0
  <2> QED
    BY ONLY <2>1, <2>2, <1>6, <1>11, n \in Nat
<1> QED
  BY ONLY <1>1, <1>2, <1>3, <1>12, <1>13, Zenon

(* The loader's checks of a segment, which wrap, are those of unbounded    *)
(* arithmetic.                                                             *)
LEMMA SegmentCheck ==
  ASSUME file \in Headers, NEW p \in Phdrs
  PROVE  validate_load_segment(p) <=> GoodSegment(p)
<1>1. /\ p.vaddr \in Nat /\ p.memsz \in Nat /\ p.offset \in Nat /\ p.filesz \in Nat /\ p.align \in Nat
      /\ p.vaddr < Word /\ p.memsz < Word /\ file.size \in Nat
  BY PhdrFacts, HeaderFacts
<1>2. p.memsz # 0 <=> p.memsz > 0
  BY <1>1
<1>3. range_fits(file.size, p.offset, p.filesz) <=> p.offset + p.filesz <= file.size
  BY <1>1, RangeFits
<1>4. ~Wraps(p) <=> p.vaddr + p.memsz < Word
  <2>1. PICK a, b, s : a = p.vaddr /\ b = p.memsz /\ s = WordSum(p.vaddr, p.memsz)
    OBVIOUS
  <2>2. /\ a + b < Word => s = a + b
        /\ a + b >= Word => s = a + b - Word
    BY <1>1, <2>1, WordSumFacts
  <2>3. a \in Nat /\ b \in Nat /\ b < Word /\ Word \in Nat
    BY <1>1, <2>1, ElfConstants
  <2>4. ~(s < a) <=> a + b < Word
    BY ONLY <2>2, <2>3
  <2> QED
    BY ONLY <2>1, <2>4 DEF Wraps
<1>5. p.align > 1 => (p.vaddr % p.align = p.offset % p.align <=> (p.vaddr - p.offset) % p.align = 0)
  <2> SUFFICES ASSUME p.align > 1
               PROVE  p.vaddr % p.align = p.offset % p.align <=> (p.vaddr - p.offset) % p.align = 0
    OBVIOUS
  <2>1. p.align > 0
    BY <1>1
  <2> QED
    BY <1>1, <2>1, SameRemainder
<1> QED
  BY ONLY <1>2, <1>3, <1>4, <1>5, Zenon DEF validate_load_segment, GoodSegment

LEMMA HeaderCheck ==
  ASSUME file \in Headers
  PROVE  GoodHeader <=> /\ file.size >= HeaderSize
                        /\ file.ident
                        /\ range_fits(file.size, file.phoff, file.phnum * PhdrSize)
<1>1. file.size \in Nat /\ file.phoff \in Nat /\ file.phnum \in Nat /\ PhdrSize \in Nat
  BY HeaderFacts, ElfConstants
<1>2. PICK c : c = file.phnum * PhdrSize
  OBVIOUS
<1>3. c \in Nat
  BY ONLY <1>1, <1>2
<1>4. range_fits(file.size, file.phoff, c) <=> file.phoff + c <= file.size
  BY <1>1, <1>3, RangeFits
<1> QED
  BY <1>2, <1>4, Zenon DEF GoodHeader

-----------------------------------------------------------------------------
(* The span of the segments *)

(* What the loader knows once it has checked all program headers. *)
Checked ==
    /\ file \in Headers /\ phdrs \in Seq(Phdrs) /\ Loads # {}
    /\ \A i \in DOMAIN phdrs : GoodSegment(phdrs[i])

LEMMA SegmentFacts ==
  ASSUME Checked, NEW i \in Loads
  PROVE  /\ phdrs[i] \in Phdrs /\ i \in Nat /\ phdrs[i].load
         /\ phdrs[i].vaddr \in Nat /\ phdrs[i].memsz \in Nat /\ phdrs[i].memsz > 0
         /\ phdrs[i].offset \in Nat /\ phdrs[i].filesz \in Nat
         /\ phdrs[i].filesz <= phdrs[i].memsz /\ phdrs[i].offset + phdrs[i].filesz <= file.size
         /\ phdrs[i].vaddr + phdrs[i].memsz < Word
         /\ WordSum(phdrs[i].vaddr, phdrs[i].memsz) = phdrs[i].vaddr + phdrs[i].memsz
<1>1. i \in DOMAIN phdrs /\ phdrs[i].load /\ i \in Nat
  BY DEF Loads, Checked
<1>2. phdrs[i] \in Phdrs
  BY <1>1 DEF Checked
<1>3. GoodSegment(phdrs[i])
  BY <1>1 DEF Checked
<1>4. /\ phdrs[i].vaddr \in Nat /\ phdrs[i].memsz \in Nat /\ phdrs[i].offset \in Nat /\ phdrs[i].filesz \in Nat
      /\ phdrs[i].vaddr < Word /\ phdrs[i].memsz < Word
  BY <1>2, PhdrFacts
<1>5. /\ phdrs[i].memsz > 0 /\ phdrs[i].filesz <= phdrs[i].memsz
      /\ phdrs[i].offset + phdrs[i].filesz <= file.size
      /\ phdrs[i].vaddr + phdrs[i].memsz < Word
  BY <1>1, <1>3 DEF GoodSegment
<1>6. WordSum(phdrs[i].vaddr, phdrs[i].memsz) = phdrs[i].vaddr + phdrs[i].memsz
  BY <1>4, <1>5, WordSumFacts
<1> QED
  BY <1>1, <1>2, <1>4, <1>5, <1>6

LEMMA LowestFacts ==
  ASSUME Checked
  PROVE  /\ Lowest \in Nat
         /\ \E i \in Loads : Lowest = phdrs[i].vaddr
         /\ \A i \in Loads : Lowest <= phdrs[i].vaddr
<1> DEFINE T == {phdrs[i].vaddr : i \in Loads}
<1>1. T \subseteq Nat /\ T # {}
  <2>1. \A i \in Loads : phdrs[i].vaddr \in Nat
    BY SegmentFacts
  <2> QED
    BY <2>1 DEF Checked
<1>2. Lowest = Min(T)
  BY DEF Lowest
<1>3. Min(T) \in T /\ \A y \in T : Min(T) <= y
  <2> HIDE DEF T
  <2> QED
    BY <1>1, MinFacts
<1> QED
  BY <1>1, <1>2, <1>3

LEMMA HighestFacts ==
  ASSUME Checked
  PROVE  /\ Highest \in Nat /\ Highest < Word
         /\ \E i \in Loads : Highest = phdrs[i].vaddr + phdrs[i].memsz
         /\ \A i \in Loads : phdrs[i].vaddr + phdrs[i].memsz <= Highest
<1> DEFINE E(i) == WordSum(phdrs[i].vaddr, phdrs[i].memsz)
           T == {E(i) : i \in Loads}
<1>0. \A i \in Loads : E(i) = phdrs[i].vaddr + phdrs[i].memsz /\ E(i) \in Nat /\ E(i) < Word
  BY SegmentFacts
<1>1. Highest = Max(T)
  BY DEF Highest
<1> HIDE DEF E
<1>2. T \subseteq Nat /\ T # {} /\ \A x \in T : x <= Word
  BY <1>0, ElfConstants DEF Checked
<1>3. Max(T) \in T /\ \A y \in T : y <= Max(T)
  <2> HIDE DEF T
  <2> QED
    BY <1>2, MaxFacts, ElfConstants
<1>4. PICK i \in Loads : Highest = E(i)
  BY <1>1, <1>3
<1>5. \A j \in Loads : E(j) <= Highest
  BY <1>1, <1>3
<1> QED
  BY <1>0, <1>4, <1>5

LEMMA SpanOrder ==
  ASSUME Checked
  PROVE  Lowest < Highest /\ Highest - 1 \in Nat /\ Lowest <= Highest - 1
<1>1. PICK i \in Loads : Lowest = phdrs[i].vaddr
  BY LowestFacts
<1>2. phdrs[i].vaddr \in Nat /\ phdrs[i].memsz \in Nat /\ phdrs[i].memsz > 0
  BY SegmentFacts
<1>3. phdrs[i].vaddr + phdrs[i].memsz <= Highest /\ Highest \in Nat
  BY HighestFacts
<1> QED
  BY <1>1, <1>2, <1>3

LEMMA DivMonotone ==
  ASSUME NEW a \in Nat, NEW b \in Nat, a <= b
  PROVE  a \div PageBytes \in Nat /\ b \div PageBytes \in Nat /\ a \div PageBytes <= b \div PageBytes
<1>1. PICK k, r, x \in Nat :
        /\ k = a \div PageBytes /\ r = a % PageBytes /\ x = k * PageBytes
        /\ r < PageBytes /\ a = x + r /\ align_down(a) = x
  BY Divided
<1>2. PICK l, s, y \in Nat :
        /\ l = b \div PageBytes /\ s = b % PageBytes /\ y = l * PageBytes
        /\ s < PageBytes /\ b = y + s /\ align_down(b) = y
  BY Divided
<1>3. l < k => y + PageBytes <= x
  BY <1>1, <1>2, TimesOrder
<1>4. PICK n : n = PageBytes /\ n \in Nat
  BY ElfConstants
<1>5. a = x + r /\ b = y + s /\ s < n /\ (l < k => y + n <= x)
  BY <1>1, <1>2, <1>3, <1>4, Zenon
<1>6. k <= l
  BY ONLY <1>4, <1>5, a <= b, a \in Nat, b \in Nat, x \in Nat, y \in Nat, r \in Nat, s \in Nat, k \in Nat, l \in Nat
<1> QED
  BY ONLY <1>1, <1>2, <1>6, k \in Nat, l \in Nat, Zenon

LEMMA PagesUsedFacts ==
  ASSUME Checked
  PROVE  /\ Min(PagesUsed) = Lowest \div PageBytes
         /\ Max(PagesUsed) = (Highest - 1) \div PageBytes
<1>1. PICK L, H : L = Lowest \div PageBytes /\ H = (Highest - 1) \div PageBytes
  OBVIOUS
<1>2. Lowest \in Nat /\ Highest - 1 \in Nat /\ Highest \in Nat /\ Lowest <= Highest - 1
  BY LowestFacts, HighestFacts, SpanOrder
<1>3. L \in Nat /\ H \in Nat
  BY <1>1, <1>2, DivMonotone
<1>4. ASSUME NEW q \in PagesUsed PROVE q \in Nat /\ L <= q /\ q <= H
  <2>1. PICK i, a : i \in Loads /\ a \in ByteRange(phdrs[i].vaddr, phdrs[i].memsz) /\ q = a \div PageBytes
    BY DEF PagesUsed
  <2>2. /\ phdrs[i].vaddr \in Nat /\ phdrs[i].memsz \in Nat
        /\ Lowest <= phdrs[i].vaddr /\ phdrs[i].vaddr + phdrs[i].memsz <= Highest
    BY <2>1, SegmentFacts, LowestFacts, HighestFacts
  <2>3. a \in Nat /\ Lowest <= a /\ a <= Highest - 1
    BY <2>1, <2>2, <1>2 DEF ByteRange
  <2>4. L <= a \div PageBytes /\ a \div PageBytes <= H /\ a \div PageBytes \in Nat
    BY <1>1, <1>2, <2>3, DivMonotone
  <2> QED
    BY ONLY <2>1, <2>4, Zenon
<1>5. L \in PagesUsed
  <2>1. PICK i \in Loads : Lowest = phdrs[i].vaddr
    BY LowestFacts
  <2>2. Lowest \in ByteRange(phdrs[i].vaddr, phdrs[i].memsz)
    BY <2>1, <1>2, SegmentFacts DEF ByteRange
  <2> QED
    BY <1>1, <2>2, Zenon DEF PagesUsed
<1>6. H \in PagesUsed
  <2>1. PICK i \in Loads : Highest = phdrs[i].vaddr + phdrs[i].memsz
    BY HighestFacts
  <2>2. Highest - 1 \in ByteRange(phdrs[i].vaddr, phdrs[i].memsz)
    BY <2>1, <1>2, SegmentFacts DEF ByteRange
  <2> QED
    BY <1>1, <2>2, Zenon DEF PagesUsed
<1>7. PICK T : T = PagesUsed
  OBVIOUS
<1>8. T \subseteq Nat /\ T # {} /\ L \in T /\ H \in T /\ (\A q \in T : q \in Nat /\ L <= q /\ q <= H)
  BY <1>4, <1>5, <1>6, <1>7
<1>9. Min(T) = L
  <2>1. Min(T) \in T /\ \A y \in T : Min(T) <= y
    BY <1>8, MinFacts
  <2>2. PICK m : m = Min(T)
    OBVIOUS
  <2>3. m \in Nat /\ L <= m /\ m <= H /\ m <= L
    BY <1>8, <2>1, <2>2
  <2>4. m = L
    BY ONLY <1>3, <2>3
  <2> QED
    BY <2>2, <2>4
<1>10. Max(T) = H
  <2>1. Max(T) \in T /\ \A y \in T : y <= Max(T)
    BY <1>3, <1>8, MaxFacts
  <2>2. PICK m : m = Max(T)
    OBVIOUS
  <2>3. m \in Nat /\ L <= m /\ m <= H /\ H <= m
    BY <1>8, <2>1, <2>2
  <2>4. m = H
    BY ONLY <1>3, <2>3
  <2> QED
    BY <2>2, <2>4
<1> QED
  BY ONLY <1>1, <1>7, <1>9, <1>10, Zenon

(* The span, as pages: from the first that is used to the last, unless     *)
(* rounding up wraps.                                                      *)
LEMMA SpanFacts ==
  ASSUME Checked
  PROVE  \E L, H \in Nat :
           /\ L = Min(PagesUsed) /\ H = Max(PagesUsed) /\ L <= H
           /\ align_down(Lowest) = L * PageBytes
           /\ \/ align_up(Highest) = (H + 1) * PageBytes /\ H + 1 < Word \div PageBytes
              \/ align_up(Highest) = 0 /\ ~(H + 1 < Word \div PageBytes)
           /\ Highest <= (H + 1) * PageBytes
<1>1. Lowest \in Nat /\ Highest - 1 \in Nat /\ Highest \in Nat /\ Lowest <= Highest - 1 /\ Highest < Word
  BY LowestFacts, HighestFacts, SpanOrder
<1>2. PICK L, r, x \in Nat :
        /\ L = Lowest \div PageBytes /\ r = Lowest % PageBytes /\ x = L * PageBytes
        /\ r < PageBytes /\ Lowest = x + r /\ align_down(Lowest) = x
  BY <1>1, Divided
<1>3. PICK H, s, y \in Nat :
        /\ H = (Highest - 1) \div PageBytes /\ s = (Highest - 1) % PageBytes /\ y = H * PageBytes
        /\ s < PageBytes /\ Highest - 1 = y + s /\ align_down(Highest - 1) = y
  BY <1>1, Divided
<1>4. L <= H
  BY <1>1, <1>2, <1>3, DivMonotone
<1>5. L = Min(PagesUsed) /\ H = Max(PagesUsed)
  BY <1>2, <1>3, PagesUsedFacts, Zenon
<1>6. PICK n, w, top : n = PageBytes /\ w = Word \div PageBytes /\ top = Word
  OBVIOUS
<1>7. n \in Nat /\ n > 0 /\ top \in Nat /\ top > 0 /\ w \in Nat /\ top = w * n
  BY <1>6, ElfConstants, ElfAligned, MultipleIs
<1>15. n < top
  BY <1>6, ElfConstants
<1>8. PICK z, h : z = (H + 1) * n /\ h = Highest
  OBVIOUS
<1>9. z = y + n /\ h \in Nat /\ h - 1 = y + s /\ s < n /\ h < top /\ H + 1 \in Nat /\ z \in Nat
  <2>1. y = H * n
    BY <1>3, <1>6, Zenon
  <2>2. (H + 1) * n = H * n + n
    BY ONLY <1>7, H \in Nat
  <2>3. h \in Nat /\ h - 1 = y + s /\ s < n /\ h < top
    BY <1>1, <1>3, <1>6, <1>8
  <2> QED
    BY ONLY <1>7, <1>8, <2>1, <2>2, <2>3, H \in Nat, y \in Nat
<1>10. h <= z /\ h + (n - 1) = z + s
  BY ONLY <1>7, <1>9, y \in Nat, s \in Nat
<1>11. /\ h + (n - 1) < top => WordSum(h, n - 1) = h + (n - 1)
       /\ h + (n - 1) >= top => WordSum(h, n - 1) = h + (n - 1) - top
  <2>1. n - 1 \in Nat /\ n - 1 < top
    BY ONLY <1>7, <1>15
  <2> QED
    BY <1>6, <1>9, <2>1, WordSumFacts
<1>12. align_up(Highest) = align_down(WordSum(h, n - 1))
  BY <1>6, <1>8, Zenon DEF align_up
<1>13. CASE h + (n - 1) < top
  <2>1. WordSum(h, n - 1) = z + s /\ z + s \in Nat /\ z <= z + s /\ z + s < z + n
    BY ONLY <1>7, <1>9, <1>10, <1>11, <1>13, s \in Nat
  <2>2. align_down(z + s) = z
    BY <1>6, <1>8, <1>9, <2>1, DividedOnce
  <2>3. H + 1 < w
    <3>1. w <= H + 1 => w * n <= (H + 1) * n
      BY <1>6, <1>7, <1>9, TimesOrder
    <3>2. z < top
      BY ONLY <1>7, <1>9, <1>10, <1>13, s \in Nat
    <3> QED
      BY ONLY <1>7, <1>8, <1>9, <3>1, <3>2
  <2>4. align_up(Highest) = z
    BY ONLY <1>12, <2>1, <2>2, Zenon
  <2>5. align_up(Highest) = (H + 1) * PageBytes /\ H + 1 < Word \div PageBytes
    BY ONLY <1>6, <1>8, <2>3, <2>4, Zenon
  <2>6. Highest <= (H + 1) * PageBytes
    BY ONLY <1>6, <1>8, <1>10, Zenon
  <2>7. align_down(Lowest) = L * PageBytes
    BY <1>2, Zenon
  <2> QED
    BY ONLY <1>4, <1>5, <2>5, <2>6, <2>7, L \in Nat, H \in Nat, Zenon
<1>14. CASE ~(h + (n - 1) < top)
  <2>1. WordSum(h, n - 1) = h + (n - 1) - top /\ h + (n - 1) - top \in Nat /\ h + (n - 1) - top < n
    BY ONLY <1>7, <1>9, <1>11, <1>14
  <2>2. align_down(h + (n - 1) - top) = 0
    <3>1. 0 * PageBytes = 0 /\ 0 \in Nat
      BY ElfConstants
    <3>2. align_down(h + (n - 1) - top) = 0 * PageBytes
      BY <1>6, <2>1, <3>1, DividedOnce, ElfConstants
    <3> QED
      BY <3>1, <3>2
  <2>3. ~(H + 1 < w)
    <3>1. H + 1 < w => (H + 1) * n + n <= w * n
      BY <1>6, <1>7, <1>9, TimesOrder
    <3>2. z + s >= top
      BY ONLY <1>7, <1>9, <1>10, <1>14, s \in Nat
    <3> QED
      BY ONLY <1>7, <1>8, <1>9, <3>1, <3>2, s \in Nat
  <2>4. align_up(Highest) = 0
    BY ONLY <1>12, <2>1, <2>2, Zenon
  <2>5. align_up(Highest) = 0 /\ ~(H + 1 < Word \div PageBytes)
    BY ONLY <1>6, <2>3, <2>4, Zenon
  <2>6. Highest <= (H + 1) * PageBytes
    BY ONLY <1>6, <1>8, <1>10, Zenon
  <2>7. align_down(Lowest) = L * PageBytes
    BY <1>2, Zenon
  <2> QED
    BY ONLY <1>4, <1>5, <2>5, <2>6, <2>7, L \in Nat, H \in Nat, Zenon
<1> QED
  BY <1>13, <1>14

(* The checks of the span accept an image exactly if it is good, and then  *)
(* the span has room for every segment.                                    *)
SpanAccepted(begin, end, e) ==
    /\ end > begin
    /\ entry_in_load_segment(e)
    /\ end - begin <= LoadSize
    /\ WordSum(ImageBase, end - begin) >= ImageBase
    /\ WordSum(ImageBase, end - begin) <= StackTop - PageBytes

LEMMA EntryCheck ==
  ASSUME Checked, NEW e \in Nat
  PROVE  entry_in_load_segment(e) <=> Covering(e) # {}
<1>1. ASSUME NEW i \in Loads
      PROVE  (e >= phdrs[i].vaddr /\ e < WordSum(phdrs[i].vaddr, phdrs[i].memsz))
               <=> e \in ByteRange(phdrs[i].vaddr, phdrs[i].memsz)
  <2>1. PICK v, m : v = phdrs[i].vaddr /\ m = phdrs[i].memsz
    OBVIOUS
  <2>2. v \in Nat /\ m \in Nat /\ WordSum(v, m) = v + m
    BY <2>1, SegmentFacts
  <2>3. (e >= v /\ e < v + m) <=> e \in v..(v + m - 1)
    BY ONLY <2>2, e \in Nat
  <2> QED
    BY ONLY <2>1, <2>2, <2>3, Zenon DEF ByteRange
<1> QED
  BY <1>1, Zenon DEF entry_in_load_segment, Covering

LEMMA SpanVerdict ==
  ASSUME Checked, NEW e \in Nat, NEW begin, NEW end,
         begin = align_down(Lowest), end = align_up(Highest)
  PROVE  /\ begin \in Nat /\ begin < Word /\ begin % PageBytes = 0
         /\ end \in Nat /\ end < Word /\ end % PageBytes = 0
         /\ SpanAccepted(begin, end, e) <=>
              /\ Covering(e) # {}
              /\ Max(PagesUsed) + 1 < Word \div PageBytes
              /\ (Max(PagesUsed) - Min(PagesUsed) + 1) * PageBytes <= LoadSize
         /\ SpanAccepted(begin, end, e) =>
              \A i \in Loads : begin <= phdrs[i].vaddr /\ phdrs[i].vaddr + phdrs[i].memsz <= end
<1>1. PICK L, H \in Nat :
        /\ L = Min(PagesUsed) /\ H = Max(PagesUsed) /\ L <= H
        /\ align_down(Lowest) = L * PageBytes
        /\ \/ align_up(Highest) = (H + 1) * PageBytes /\ H + 1 < Word \div PageBytes
           \/ align_up(Highest) = 0 /\ ~(H + 1 < Word \div PageBytes)
        /\ Highest <= (H + 1) * PageBytes
  BY SpanFacts
<1>2. PICK n, w, x, z, s : /\ n = PageBytes /\ w = Word \div PageBytes
                           /\ x = L * PageBytes /\ z = (H + 1) * PageBytes
                           /\ s = (H - L + 1) * PageBytes
  OBVIOUS
<1>3. n \in Nat /\ n > 0 /\ w \in Nat /\ Word = w * n /\ Word \in Nat
  BY <1>2, ElfConstants, ElfAligned, MultipleIs
<1>4. x \in Nat /\ z \in Nat /\ x + s = z /\ x + n <= z /\ s \in Nat /\ s >= n
  <2>1. x = L * n /\ z = (H + 1) * n /\ s = (H - L + 1) * n
    BY ONLY <1>2, Zenon
  <2>2. x \in Nat /\ z \in Nat /\ x + s = z /\ s \in Nat
    BY ONLY <1>1, <1>3, <2>1, L \in Nat, H \in Nat
  <2>3. L < H + 1 /\ L \in Nat /\ H + 1 \in Nat
    BY <1>1
  <2>4. x + n <= z
    BY <1>2, <2>3, TimesOrder
  <2> QED
    BY ONLY <1>3, <2>2, <2>4
<1>5. begin = x /\ x % PageBytes = 0
  <2>1. begin = x
    BY ONLY <1>1, <1>2, begin = align_down(Lowest), Zenon
  <2>2. x % PageBytes = 0
    BY <1>2, MultipleOfPage
  <2> QED
    BY <2>1, <2>2
<1>6. begin < Word
  <2>1. PICK k, r, y \in Nat :
        /\ k = Lowest \div PageBytes /\ r = Lowest % PageBytes /\ y = k * PageBytes
        /\ r < PageBytes /\ Lowest = y + r /\ align_down(Lowest) = y
    BY LowestFacts, Divided
  <2>2. begin <= Lowest
    BY <2>1
  <2>3. Lowest < Highest /\ Highest < Word /\ Lowest \in Nat /\ Highest \in Nat
    BY SpanOrder, LowestFacts, HighestFacts
  <2> QED
    BY <1>3, <1>4, <1>5, <2>2, <2>3
<1>7. entry_in_load_segment(e) <=> Covering(e) # {}
  BY EntryCheck
<1>8. ASSUME NEW i \in Loads PROVE begin <= phdrs[i].vaddr /\ phdrs[i].vaddr + phdrs[i].memsz <= z
  <2>1. PICK k, r, y \in Nat :
        /\ k = Lowest \div PageBytes /\ r = Lowest % PageBytes /\ y = k * PageBytes
        /\ r < PageBytes /\ Lowest = y + r /\ align_down(Lowest) = y
    BY LowestFacts, Divided
  <2>2. begin <= Lowest
    BY <2>1
  <2>3. /\ Lowest <= phdrs[i].vaddr /\ phdrs[i].vaddr + phdrs[i].memsz <= Highest
        /\ Lowest \in Nat /\ Highest \in Nat /\ phdrs[i].vaddr \in Nat /\ phdrs[i].memsz \in Nat
    BY LowestFacts, HighestFacts, SegmentFacts
  <2>4. Highest <= z
    BY ONLY <1>1, <1>2, Zenon
  <2> QED
    BY ONLY <1>4, <1>5, <2>2, <2>3, <2>4
<1>9. CASE end = z /\ H + 1 < w
  <2>1. z < Word /\ z % PageBytes = 0
    <3>1. (H + 1) * PageBytes + PageBytes <= w * PageBytes
      BY <1>3, <1>9, TimesOrder
    <3>2. z + n <= Word
      BY ONLY <1>2, <1>3, <3>1, Zenon
    <3>3. z % PageBytes = 0
      BY <1>2, MultipleOfPage
    <3> QED
      BY ONLY <1>3, <1>4, <3>2, <3>3
  <2>2. end > begin /\ end - begin = s
    BY ONLY <1>3, <1>4, <1>5, <1>9
  <2>3. ASSUME s <= LoadSize
        PROVE  WordSum(ImageBase, s) >= ImageBase /\ WordSum(ImageBase, s) <= StackTop - PageBytes
    <3>1. PICK b, t, l : b = ImageBase /\ t = StackTop /\ l = LoadSize
      OBVIOUS
    <3>2. b \in Nat /\ t \in Nat /\ l \in Nat /\ b + l + n <= t /\ t < Word /\ s <= l /\ n \in Nat
      BY <1>2, <2>3, <3>1, ElfConstants
    <3>3. b + s < Word /\ b < Word /\ s < Word /\ b + s <= t - n /\ b + s >= b
      BY ONLY <1>3, <1>4, <3>2
    <3>4. WordSum(b, s) = b + s
      BY <1>4, <3>2, <3>3, WordSumFacts
    <3> QED
      BY ONLY <1>2, <3>1, <3>3, <3>4, Zenon
  <2>4. SpanAccepted(begin, end, e) <=> entry_in_load_segment(e) /\ s <= LoadSize
    BY ONLY <2>2, <2>3, Zenon DEF SpanAccepted
  <2>5. /\ Max(PagesUsed) + 1 < Word \div PageBytes
        /\ (Max(PagesUsed) - Min(PagesUsed) + 1) * PageBytes = s
    BY ONLY <1>1, <1>2, <1>9, Zenon
  <2>6. SpanAccepted(begin, end, e) <=>
              /\ Covering(e) # {}
              /\ Max(PagesUsed) + 1 < Word \div PageBytes
              /\ (Max(PagesUsed) - Min(PagesUsed) + 1) * PageBytes <= LoadSize
    BY ONLY <1>7, <2>4, <2>5, Zenon
  <2> QED
    BY ONLY <1>4, <1>5, <1>6, <1>8, <1>9, <2>1, <2>6, Zenon
<1>10. CASE end = 0 /\ ~(H + 1 < w)
  <2>1. ~(end > begin)
    BY ONLY <1>4, <1>5, <1>10
  <2>2. ~SpanAccepted(begin, end, e)
    BY ONLY <2>1, Zenon DEF SpanAccepted
  <2>3. ~(Max(PagesUsed) + 1 < Word \div PageBytes)
    BY ONLY <1>1, <1>2, <1>10, Zenon
  <2>4. 0 \in Nat /\ 0 < Word /\ 0 % PageBytes = 0
    BY ElfConstants
  <2> QED
    BY ONLY <1>4, <1>5, <1>6, <1>10, <2>2, <2>3, <2>4, Zenon
<1> QED
  <2>1. \/ end = z /\ H + 1 < w
        \/ end = 0 /\ ~(H + 1 < w)
    BY ONLY <1>1, <1>2, end = align_up(Highest), Zenon
  <2> QED
    BY <1>9, <1>10, <2>1

-----------------------------------------------------------------------------
(* The inductive invariant of the loader *)

(* The span holds every segment and fits the window. *)
Fits ==
    /\ span[1] < span[2] /\ span[2] - span[1] <= LoadSize
    /\ \A i \in Loads : span[1] <= phdrs[i].vaddr /\ phdrs[i].vaddr + phdrs[i].memsz <= span[2]

(* What the first n - 1 segments put at an address. *)
CoveringBefore(a, n) == {i \in Covering(a) : i < n}
ByteOf(p, a) == IF a - p.vaddr < p.filesz THEN p.offset + (a - p.vaddr) ELSE Zero
ByteBefore(a, n) ==
    IF CoveringBefore(a, n) = {} THEN Zero ELSE ByteOf(phdrs[Max(CoveringBefore(a, n))], a)

WindowHolds(n) ==
    \A a \in Physical :
        memory[a] = IF a \in LoadBase..(LoadEnd - 1) THEN ByteBefore(span[1] + (a - LoadBase), n) ELSE Other

ImageMap ==
    [v \in {ImageBase + i * PageBytes : i \in 0..((LoadEnd - LoadBase) \div PageBytes - 1)}
        |-> LoadBase + (v - ImageBase)]

Untouched == memory = [a \in Physical |-> Other] /\ index = 1 /\ bytesRead = {}

StageInv ==
    /\ stage \in {"header", "segments", "span", "claim", "load", "map", "stack", "done", "failed", "refused"}
    /\ stage \in {"header", "segments", "span", "claim", "refused"} => Untouched
    /\ stage = "header" => phdrs = <<>>
    /\ phdrs # <<>> => GoodHeader
    /\ stage = "segments" =>
        GoodHeader /\ Len(phdrs) < file.phnum /\ \A i \in DOMAIN phdrs : GoodSegment(phdrs[i])
    /\ stage \in {"span", "claim", "load", "map", "stack", "done", "failed"} =>
        Checked /\ GoodHeader /\ Len(phdrs) = file.phnum
    /\ stage \in {"claim", "load", "map", "stack", "done", "failed"} => Fits
    /\ stage \in {"claim", "load", "map", "stack"} => entry \in Nat /\ Covering(entry) # {}
    /\ stage = "load" => index <= Len(phdrs) /\ WindowHolds(index)
    /\ stage \in {"map", "stack", "done"} => WindowHolds(Len(phdrs) + 1)
    /\ stage = "stack" => space = ImageMap

LInv ==
    /\ LoaderTypeOK /\ WritesStayInWindow /\ ReadsStayInFile
    /\ ProgramIsTheFile /\ Verdict /\ StageInv

(* What the properties say of the headers depends on nothing else. *)
LEMMA HeadersStay ==
  ASSUME file' = file, phdrs' = phdrs
  PROVE  /\ Loads' = Loads /\ PagesUsed' = PagesUsed
         /\ Checked' <=> Checked
         /\ GoodHeader' <=> GoodHeader
         /\ (\A i \in DOMAIN phdrs' : GoodSegment(phdrs[i])') <=> (\A i \in DOMAIN phdrs : GoodSegment(phdrs[i]))
         /\ \A a : Covering(a)' = Covering(a)
<1>1. Loads' = Loads
  BY DEF Loads
<1>2. \A p : GoodSegment(p)' <=> GoodSegment(p)
  BY DEF GoodSegment
<1>3. GoodHeader' <=> GoodHeader
  BY DEF GoodHeader
<1>4. (\A i \in DOMAIN phdrs' : GoodSegment(phdrs[i])') <=> (\A i \in DOMAIN phdrs : GoodSegment(phdrs[i]))
  BY DEF GoodSegment
<1>5. Checked' <=> Checked
  BY <1>1, <1>4 DEF Checked
<1>6. PagesUsed' = PagesUsed
  BY <1>1 DEF PagesUsed
<1>7. \A a : Covering(a)' = Covering(a)
  BY <1>1 DEF Covering
<1> QED
  BY <1>1, <1>3, <1>4, <1>5, <1>6, <1>7

LEMMA UntouchedFacts ==
  ASSUME Untouched
  PROVE  WritesStayInWindow /\ bytesRead = {} /\ memory \in [Physical -> {Zero, Other} \cup Nat]
BY DEF Untouched, WritesStayInWindow

LEMMA HeaderInFile ==
  ASSUME file \in Headers, GoodHeader
  PROVE  ByteRange(file.phoff, file.phnum * PhdrSize) \subseteq 0..(file.size - 1)
<1>1. PICK o, c, s : o = file.phoff /\ c = file.phnum * PhdrSize /\ s = file.size
  OBVIOUS
<1>2. file.phnum \in Nat /\ PhdrSize \in Nat /\ o \in Nat /\ s \in Nat
  BY <1>1, HeaderFacts, ElfConstants
<1>3. c \in Nat
  BY ONLY <1>1, <1>2
<1>4. o + c <= s
  BY ONLY <1>1, GoodHeader, Zenon DEF GoodHeader
<1>5. o..(o + c - 1) \subseteq 0..(s - 1)
  BY ONLY <1>2, <1>3, <1>4
<1> QED
  BY ONLY <1>1, <1>5, Zenon DEF ByteRange

LEMMA LoaderBegins == LoaderInit => LInv
<1> SUFFICES ASSUME LoaderInit PROVE LInv
  OBVIOUS
<1>1. file \in Headers /\ phdrs = <<>> /\ stage = "header" /\ Untouched /\ span = <<0, 0>>
  BY DEF LoaderInit, Untouched
<1>2. file.phnum \in Nat
  BY <1>1, HeaderFacts
<1>3. 0 \in Words /\ 0 % PageBytes = 0
  BY ElfConstants DEF Words
<1>4. LoaderTypeOK
  <2>1. phdrs \in Seq(Phdrs) /\ Len(phdrs) = 0
    BY <1>1
  <2>2. Len(phdrs) <= file.phnum /\ index \in 1..(Len(phdrs) + 1)
    BY <1>1, <1>2, <2>1 DEF Untouched
  <2>3. span \in Words \X Words /\ span[1] % PageBytes = 0 /\ span[2] % PageBytes = 0
    BY <1>1, <1>3
  <2>4. memory \in [Physical -> {Zero, Other} \cup Nat]
    BY <1>1, UntouchedFacts
  <2> QED
    BY <1>1, <2>1, <2>2, <2>3, <2>4 DEF LoaderTypeOK
<1>5. WritesStayInWindow /\ bytesRead = {}
  BY <1>1, UntouchedFacts
<1>6. ReadsStayInFile
  BY <1>1, <1>5 DEF ReadsStayInFile
<1>7. ProgramIsTheFile
  BY <1>1 DEF ProgramIsTheFile, ImageIsTheFile, EntryAndStack
<1>8. Verdict
  BY <1>1 DEF Verdict
<1>9. StageInv
  BY <1>1 DEF StageInv
<1> QED
  BY <1>4, <1>5, <1>6, <1>7, <1>8, <1>9 DEF LInv

LEMMA HeaderStep == LInv /\ ValidateHeader => LInv'
<1> SUFFICES ASSUME LInv, ValidateHeader PROVE LInv'
  OBVIOUS
<1>1. stage = "header" /\ UNCHANGED <<file, phdrs, entry, span, memory, bytesRead, index, space>>
  BY DEF ValidateHeader
<1>2. file \in Headers /\ phdrs = <<>> /\ Untouched
  BY <1>1 DEF LInv, LoaderTypeOK, StageInv
<1>3. file.phnum \in Nat
  BY <1>2, HeaderFacts
<1>4. stage' = IF GoodHeader THEN IF file.phnum = 0 THEN "refused" ELSE "segments" ELSE "refused"
  BY <1>2, HeaderCheck DEF ValidateHeader, Goto
<1>5. stage' \in {"segments", "refused"}
  BY <1>4
<1>6. Untouched'
  BY <1>1, <1>2 DEF Untouched
<1>7. GoodHeader' <=> GoodHeader
  BY <1>1, HeadersStay
<1>8. LoaderTypeOK'
  BY <1>1 DEF LInv, LoaderTypeOK
<1>9. WritesStayInWindow'
  BY <1>1, <1>2, <1>6 DEF WritesStayInWindow, Untouched
<1>10. ReadsStayInFile'
  BY <1>1, <1>2 DEF LInv, ReadsStayInFile
<1>11. ProgramIsTheFile'
  BY <1>5 DEF ProgramIsTheFile, ImageIsTheFile, EntryAndStack
<1>12. Verdict'
  <2>1. stage' = "refused" => ~GoodHeader' \/ file'.phnum = 0
    BY <1>1, <1>4, <1>7
  <2> QED
    BY <1>5, <2>1 DEF Verdict
<1>13. StageInv'
  <2>1. stage' = "segments" => GoodHeader' /\ file.phnum # 0
    BY <1>4, <1>7
  <2>2. phdrs' = <<>> /\ Len(phdrs') = 0
    BY <1>1, <1>2
  <2>3. stage' = "segments" => Len(phdrs') < file'.phnum
    BY <1>1, <1>3, <2>1, <2>2
  <2>4. \A i \in DOMAIN phdrs' : GoodSegment(phdrs[i])'
    BY <2>2
  <2> QED
    BY <1>5, <1>6, <2>1, <2>2, <2>3, <2>4 DEF StageInv
<1> QED
  BY <1>8, <1>9, <1>10, <1>11, <1>12, <1>13 DEF LInv

LEMMA SegmentStep == LInv /\ (\E p \in Phdrs : ValidateSegment(p)) => LInv'
<1> SUFFICES ASSUME LInv, NEW p \in Phdrs, ValidateSegment(p) PROVE LInv'
  OBVIOUS
<1>1. /\ stage = "segments" /\ UNCHANGED <<file, entry, span, memory, bytesRead, index, space>>
      /\ phdrs' = Append(phdrs, p)
  BY DEF ValidateSegment
<1>2. /\ file \in Headers /\ phdrs \in Seq(Phdrs) /\ Untouched /\ GoodHeader /\ Len(phdrs) < file.phnum
      /\ \A i \in DOMAIN phdrs : GoodSegment(phdrs[i])
  BY <1>1 DEF LInv, LoaderTypeOK, StageInv
<1>3. file.phnum \in Nat /\ Len(phdrs) \in Nat
  BY <1>2, HeaderFacts, LenProperties
<1>4. PICK m : m = Len(phdrs)
  OBVIOUS
<1>5. /\ phdrs' \in Seq(Phdrs) /\ Len(phdrs') = m + 1 /\ DOMAIN phdrs' = 1..(m + 1)
      /\ \A i \in 1..m : phdrs'[i] = phdrs[i]
      /\ phdrs'[m + 1] = p /\ m \in Nat /\ DOMAIN phdrs = 1..m
  <2>1. /\ phdrs' \in Seq(Phdrs) /\ Len(phdrs') = Len(phdrs) + 1
        /\ \A i \in 1..Len(phdrs) : phdrs'[i] = phdrs[i]
        /\ phdrs'[Len(phdrs) + 1] = p
    BY <1>1, <1>2, AppendProperties
  <2>2. DOMAIN phdrs = 1..Len(phdrs) /\ DOMAIN phdrs' = 1..Len(phdrs')
    BY <1>2, <2>1, LenProperties
  <2> QED
    BY <1>3, <1>4, <2>1, <2>2
<1>6. \A q : GoodSegment(q)' <=> GoodSegment(q)
  BY <1>1 DEF GoodSegment
<1>7. PICK last, some \in BOOLEAN : /\ last = (Len(phdrs') = file.phnum)
                                    /\ some = (\E i \in DOMAIN phdrs' : phdrs'[i].load)
  OBVIOUS
<1>8. stage' = IF GoodSegment(p) /\ (last => some) THEN IF last THEN "span" ELSE "segments" ELSE "refused"
  <2>1. validate_load_segment(p) <=> GoodSegment(p)
    BY <1>2, SegmentCheck
  <2> QED
    BY <1>1, <1>7, <2>1, Zenon DEF ValidateSegment, Goto
<1>9. stage' \in {"span", "segments", "refused"}
  BY <1>8
<1>10. Untouched'
  BY <1>1, <1>2 DEF Untouched
<1>11. GoodHeader'
  BY <1>1, <1>2 DEF GoodHeader
<1>12. some => Loads' # {}
  BY <1>7 DEF Loads
<1>13. Loads' # {} => some
  BY <1>7 DEF Loads
<1>14. GoodSegment(p) => \A i \in DOMAIN phdrs' : GoodSegment(phdrs[i])'
  <2> SUFFICES ASSUME GoodSegment(p), NEW i \in 1..(m + 1) PROVE GoodSegment(phdrs[i])'
    BY <1>5
  <2>1. CASE i = m + 1
    <3>1. phdrs'[i] = p
      BY <1>5, <2>1
    <3> QED
      BY <1>1, <3>1 DEF GoodSegment
  <2>2. CASE i \in 1..m
    <3>1. phdrs'[i] = phdrs[i] /\ GoodSegment(phdrs[i])
      BY <1>2, <1>5, <2>2
    <3> QED
      BY <1>1, <3>1 DEF GoodSegment
  <2> QED
    BY <1>5, <2>1, <2>2
<1>15. LoaderTypeOK'
  <2>1. Len(phdrs') <= file'.phnum
    BY <1>1, <1>2, <1>3, <1>4, <1>5
  <2>2. index' \in 1..(Len(phdrs') + 1)
    BY <1>5, <1>10 DEF Untouched
  <2> QED
    BY <1>1, <1>5, <2>1, <2>2 DEF LInv, LoaderTypeOK
<1>16. WritesStayInWindow'
  BY <1>1, <1>10 DEF WritesStayInWindow, Untouched
<1>17. ReadsStayInFile'
  <2>1. ByteRange(file.phoff, file.phnum * PhdrSize) \subseteq 0..(file.size - 1)
    BY <1>2, HeaderInFile
  <2> QED
    BY <1>1, <2>1 DEF LInv, ReadsStayInFile
<1>18. ProgramIsTheFile'
  BY <1>9 DEF ProgramIsTheFile, ImageIsTheFile, EntryAndStack
<1>19. Verdict'
  <2> SUFFICES ASSUME stage' = "refused"
               PROVE  \/ \E i \in DOMAIN phdrs' : ~GoodSegment(phdrs[i])'
                      \/ Len(phdrs') = file'.phnum /\ ~GoodImage'
    BY <1>9 DEF Verdict
  <2>1. CASE ~GoodSegment(p)
    <3>1. phdrs'[m + 1] = p /\ m + 1 \in DOMAIN phdrs'
      BY <1>5
    <3>2. ~GoodSegment(phdrs[m + 1])'
      BY <1>1, <2>1, <3>1 DEF GoodSegment
    <3> QED
      BY <3>1, <3>2
  <2>2. CASE last /\ ~some
    <3>1. ~GoodImage'
      BY <1>13, <2>2 DEF GoodImage
    <3> QED
      BY <1>1, <1>7, <2>2, <3>1
  <2> QED
    BY <1>8, <2>1, <2>2
<1>20. StageInv'
  <2>1. stage' \in {"segments", "span"} => \A i \in DOMAIN phdrs' : GoodSegment(phdrs[i])'
    BY <1>8, <1>14
  <2>2. stage' = "span" => Len(phdrs') = file'.phnum /\ Loads' # {}
    BY <1>1, <1>7, <1>8, <1>12
  <2>3. stage' = "segments" => Len(phdrs') < file'.phnum
    <3>1. stage' = "segments" => Len(phdrs') # file.phnum
      BY <1>7, <1>8
    <3> QED
      BY <1>1, <1>2, <1>3, <1>4, <1>5, <3>1
  <2>4. stage' = "span" => Checked'
    BY <1>1, <1>2, <1>5, <2>1, <2>2 DEF Checked
  <2> QED
    BY <1>9, <1>10, <1>11, <2>1, <2>2, <2>3, <2>4 DEF StageInv
<1> QED
  BY <1>15, <1>16, <1>17, <1>18, <1>19, <1>20 DEF LInv

LEMMA ComputeStep == LInv /\ (\E e \in Entries : ComputeSpan(e)) => LInv'
<1> SUFFICES ASSUME LInv, NEW e \in Entries, ComputeSpan(e) PROVE LInv'
  OBVIOUS
<1> DEFINE begin == align_down(Lowest)
           end == align_up(Highest)
<1>1. /\ stage = "span" /\ UNCHANGED <<file, phdrs, memory, bytesRead, index, space>>
      /\ span' = <<begin, end>> /\ entry' = e
      /\ stage' = IF SpanAccepted(begin, end, e) THEN "claim" ELSE "refused"
  BY Zenon DEF ComputeSpan, Goto, SpanAccepted
<1>2. Checked /\ GoodHeader /\ Len(phdrs) = file.phnum /\ Untouched
  BY <1>1 DEF LInv, StageInv
<1>3. e \in Nat
  BY EntryFacts
<1> HIDE DEF begin, end
<1>4. /\ begin \in Nat /\ begin < Word /\ begin % PageBytes = 0
      /\ end \in Nat /\ end < Word /\ end % PageBytes = 0
      /\ SpanAccepted(begin, end, e) <=>
           /\ Covering(e) # {}
           /\ Max(PagesUsed) + 1 < Word \div PageBytes
           /\ (Max(PagesUsed) - Min(PagesUsed) + 1) * PageBytes <= LoadSize
      /\ SpanAccepted(begin, end, e) =>
           \A i \in Loads : begin <= phdrs[i].vaddr /\ phdrs[i].vaddr + phdrs[i].memsz <= end
  BY <1>2, <1>3, SpanVerdict DEF begin, end
<1>5. stage' \in {"claim", "refused"}
  BY <1>1
<1>6. Untouched'
  BY <1>1, <1>2 DEF Untouched
<1>7. /\ Loads' = Loads /\ PagesUsed' = PagesUsed /\ Checked' /\ GoodHeader'
      /\ \A a : Covering(a)' = Covering(a)
  BY <1>1, <1>2, HeadersStay
<1>8. span'[1] = begin /\ span'[2] = end
  BY <1>1
<1>9. Covering(entry)' = Covering(e)
  BY <1>1, <1>7 DEF Covering
<1>10. GoodImage' <=> SpanAccepted(begin, end, e)
  <2>1. GoodImage' <=> /\ Covering(e) # {}
                       /\ Max(PagesUsed) + 1 < Word \div PageBytes
                       /\ (Max(PagesUsed) - Min(PagesUsed) + 1) * PageBytes <= LoadSize
    <3>1. Loads' # {}
      BY <1>2, <1>7 DEF Checked
    <3> QED
      BY <1>7, <1>9, <3>1, Zenon DEF GoodImage
  <2> QED
    BY <1>4, <2>1, Zenon
<1>11. LoaderTypeOK'
  <2>1. span' \in Words \X Words
    BY <1>1, <1>4, ElfConstants DEF Words
  <2>2. span'[1] % PageBytes = 0 /\ span'[2] % PageBytes = 0
    BY <1>4, <1>8
  <2> QED
    BY <1>1, <2>1, <2>2 DEF LInv, LoaderTypeOK
<1>12. WritesStayInWindow'
  BY <1>1, <1>6 DEF WritesStayInWindow, Untouched
<1>13. ReadsStayInFile'
  BY <1>1 DEF LInv, ReadsStayInFile
<1>14. ProgramIsTheFile'
  BY <1>5 DEF ProgramIsTheFile, ImageIsTheFile, EntryAndStack
<1>15. Verdict'
  <2>1. \A i \in DOMAIN phdrs' : GoodSegment(phdrs[i])'
    BY <1>7 DEF Checked
  <2>2. stage' = "claim" => GoodImage'
    BY <1>1, <1>10
  <2>3. stage' = "refused" => ~GoodImage'
    BY <1>1, <1>10
  <2>4. Len(phdrs') = file'.phnum
    BY <1>1, <1>2
  <2> QED
    BY <1>5, <1>7, <2>1, <2>2, <2>3, <2>4 DEF Verdict
<1>16. StageInv'
  <2>1. Len(phdrs') = file'.phnum
    BY <1>1, <1>2
  <2>2. stage' = "claim" => SpanAccepted(begin, end, e)
    BY <1>1
  <2>3. stage' = "claim" => Fits'
    <3>1. SpanAccepted(begin, end, e) => begin < end /\ end - begin <= LoadSize
      BY <1>4 DEF SpanAccepted
    <3> QED
      BY <1>1, <1>4, <1>7, <1>8, <2>2, <3>1 DEF Fits
  <2>4. stage' = "claim" => entry' \in Nat /\ Covering(entry)' # {}
    BY <1>1, <1>3, <1>4, <1>9, <2>2
  <2> QED
    BY <1>5, <1>6, <1>7, <2>1, <2>3, <2>4 DEF StageInv
<1> QED
  BY <1>11, <1>12, <1>13, <1>14, <1>15, <1>16 DEF LInv

(* Types and bounds of a span that fits. *)
LEMMA FitsFacts ==
  ASSUME LoaderTypeOK, Fits
  PROVE  /\ span[1] \in Nat /\ span[2] \in Nat /\ span[1] < span[2]
         /\ span[2] - span[1] \in Nat /\ span[2] - span[1] <= LoadSize
         /\ LoadEnd \in Nat /\ LoadEnd = LoadBase + (span[2] - span[1])
         /\ LoadEnd - LoadBase = span[2] - span[1]
         /\ LoadBase..(LoadEnd - 1) \subseteq Physical
<1>1. PICK s, t, b, l, w : s = span[1] /\ t = span[2] /\ b = LoadBase /\ l = LoadSize /\ w = Word
  OBVIOUS
<1>2. s \in Nat /\ t \in Nat /\ s < t /\ t - s <= l /\ b \in Nat /\ l \in Nat /\ w \in Nat /\ b + l < w
  BY <1>1, ElfConstants DEF LoaderTypeOK, Fits, Words
<1>3. LoadEnd = b + t - s /\ Physical = 0..(b + w - 1)
  BY <1>1 DEF LoadEnd, Physical
<1>4. /\ t - s \in Nat /\ LoadEnd \in Nat /\ LoadEnd = b + (t - s) /\ LoadEnd - b = t - s
      /\ b..(LoadEnd - 1) \subseteq Physical
  BY ONLY <1>2, <1>3
<1> QED
  BY ONLY <1>1, <1>2, <1>4, Zenon

LEMMA StaysInWindow ==
  ASSUME NEW n, WindowHolds(n)
  PROVE  WritesStayInWindow
BY DEF WindowHolds, WritesStayInWindow

LEMMA ByteStays ==
  ASSUME phdrs' = phdrs
  PROVE  /\ \A a : Covering(a)' = Covering(a)
         /\ \A a, n : CoveringBefore(a, n)' = CoveringBefore(a, n)
         /\ \A a, n : ByteBefore(a, n)' = ByteBefore(a, n)
<1>1. \A a : Covering(a)' = Covering(a)
  BY DEF Covering, Loads
<1>2. \A a, n : CoveringBefore(a, n)' = CoveringBefore(a, n)
  BY <1>1 DEF CoveringBefore
<1>3. \A a, n : ByteBefore(a, n)' = ByteBefore(a, n)
  BY <1>2 DEF ByteBefore, ByteOf
<1> QED
  BY <1>1, <1>2, <1>3

LEMMA WindowStays ==
  ASSUME UNCHANGED <<phdrs, span, memory>>, NEW n, WindowHolds(n)
  PROVE  WindowHolds(n)'
<1>1. \A a, k : ByteBefore(a, k)' = ByteBefore(a, k)
  BY ByteStays
<1>2. LoadEnd' = LoadEnd
  BY DEF LoadEnd
<1> QED
  BY <1>1, <1>2 DEF WindowHolds

LEMMA FitsStays ==
  ASSUME UNCHANGED <<file, phdrs, span>>
  PROVE  (Fits' <=> Fits) /\ LoadEnd' = LoadEnd
<1>1. Loads' = Loads
  BY HeadersStay
<1> QED
  BY <1>1 DEF Fits, LoadEnd

LEMMA ClaimStep == LInv /\ ClaimWindow => LInv'
<1> SUFFICES ASSUME LInv, ClaimWindow PROVE LInv'
  OBVIOUS
<1>1. /\ stage = "claim" /\ stage' = "load"
      /\ UNCHANGED <<file, phdrs, entry, span, bytesRead, index, space>>
      /\ memory' = [a \in Physical |-> IF a \in LoadBase..(LoadEnd - 1) THEN Zero ELSE memory[a]]
  BY DEF ClaimWindow
<1>2. /\ Checked /\ GoodHeader /\ Len(phdrs) = file.phnum /\ Untouched /\ Fits
      /\ entry \in Nat /\ Covering(entry) # {} /\ LoaderTypeOK
  BY <1>1 DEF LInv, StageInv
<1>3. /\ Checked' /\ GoodHeader' /\ \A a : Covering(a)' = Covering(a)
  BY <1>1, <1>2, HeadersStay
<1>4. Fits' /\ LoadEnd' = LoadEnd
  BY <1>1, <1>2, FitsStays
<1>5. memory' = [a \in Physical |-> IF a \in LoadBase..(LoadEnd - 1) THEN Zero ELSE Other]
  BY <1>1, <1>2 DEF Untouched
<1>6. LoaderTypeOK'
  <2>1. memory' \in [Physical -> {Zero, Other} \cup Nat]
    BY <1>5
  <2> QED
    BY <1>1, <2>1 DEF LInv, LoaderTypeOK
<1>7. \A a : CoveringBefore(a, 1) = {}
  BY <1>2 DEF CoveringBefore, Covering, Loads, Checked
<1>8. \A a : ByteBefore(a, 1)' = Zero
  <2>1. \A a : ByteBefore(a, 1) = Zero
    BY <1>7 DEF ByteBefore
  <2> QED
    BY <1>1, <2>1, ByteStays
<1>9. WindowHolds(1)'
  BY <1>4, <1>5, <1>8 DEF WindowHolds
<1>10. index' = 1
  BY <1>1, <1>2 DEF Untouched
<1>11. WindowHolds(index)'
  BY <1>9, <1>10
<1>12. WritesStayInWindow'
  BY <1>9 DEF WindowHolds, WritesStayInWindow
<1>13. ReadsStayInFile'
  BY <1>1 DEF LInv, ReadsStayInFile
<1>14. ProgramIsTheFile'
  BY <1>1 DEF ProgramIsTheFile, ImageIsTheFile, EntryAndStack
<1>15. Verdict'
  <2>1. GoodImage /\ \A i \in DOMAIN phdrs : GoodSegment(phdrs[i])
    BY <1>1 DEF LInv, Verdict
  <2>2. \A i \in DOMAIN phdrs' : GoodSegment(phdrs[i])'
    BY <1>3 DEF Checked
  <2>3. GoodImage'
    <3>1. Loads' = Loads /\ PagesUsed' = PagesUsed /\ Covering(entry)' = Covering(entry)
      BY <1>1, HeadersStay DEF Covering
    <3> QED
      BY <2>1, <3>1, Zenon DEF GoodImage
  <2> QED
    BY <1>1, <1>3, <2>2, <2>3 DEF Verdict
<1>16. StageInv'
  <2>1. index' <= Len(phdrs')
    <3>1. PICK i \in Loads : TRUE
      BY <1>2 DEF Checked
    <3>2. i \in 1..Len(phdrs) /\ Len(phdrs) \in Nat
      BY <1>2 DEF Loads, Checked
    <3> QED
      BY <1>1, <1>10, <3>2
  <2>2. entry' \in Nat /\ Covering(entry)' # {}
    BY <1>1, <1>2, <1>3 DEF Covering
  <2>3. Len(phdrs') = file'.phnum /\ (phdrs' # <<>> => GoodHeader')
    BY <1>1, <1>2, <1>3
  <2> QED
    BY <1>1, <1>3, <1>4, <1>11, <2>1, <2>2, <2>3 DEF StageInv
<1> QED
  BY <1>6, <1>12, <1>13, <1>14, <1>15, <1>16 DEF LInv

(* One more segment is in place: the last of them wins. *)
LEMMA ByteAfter ==
  ASSUME Checked, NEW a, NEW n \in Nat
  PROVE  /\ n \notin Covering(a) => ByteBefore(a, n + 1) = ByteBefore(a, n)
         /\ n \in Covering(a) => ByteBefore(a, n + 1) = ByteOf(phdrs[n], a)
<1>0. Covering(a) \subseteq Nat
  BY DEF Covering, Loads, Checked
<1>1. ASSUME n \notin Covering(a) PROVE ByteBefore(a, n + 1) = ByteBefore(a, n)
  <2>1. CoveringBefore(a, n + 1) = CoveringBefore(a, n)
    BY <1>0, <1>1 DEF CoveringBefore
  <2> QED
    BY <2>1 DEF ByteBefore
<1>2. ASSUME n \in Covering(a) PROVE ByteBefore(a, n + 1) = ByteOf(phdrs[n], a)
  <2>1. PICK T : T = CoveringBefore(a, n + 1)
    OBVIOUS
  <2>2. T \subseteq Nat /\ n \in T /\ \A i \in T : i <= n
    BY <1>0, <1>2, <2>1 DEF CoveringBefore
  <2>3. Max(T) \in T /\ \A y \in T : y <= Max(T)
    BY <2>2, MaxFacts
  <2>4. PICK m : m = Max(T)
    OBVIOUS
  <2>5. m \in Nat /\ m <= n /\ n <= m
    BY <2>2, <2>3, <2>4
  <2>6. m = n
    BY ONLY <2>5, n \in Nat
  <2>7. Max(T) = n /\ T # {}
    BY <2>2, <2>4, <2>6
  <2> QED
    BY <2>1, <2>7 DEF ByteBefore
<1> QED
  BY <1>1, <1>2

(* Where a byte of the window comes from. *)
LEMMA PlacedByte ==
  ASSUME Checked, Fits, LoaderTypeOK, NEW i \in Loads, NEW a \in Nat
  PROVE  /\ Destination(phdrs[i]) \in Nat /\ ~BelowSpan(phdrs[i])
         /\ a \in ByteRange(Destination(phdrs[i]), phdrs[i].memsz) => a \in LoadBase..(LoadEnd - 1)
         /\ a \in ByteRange(Destination(phdrs[i]), phdrs[i].memsz)
               <=> i \in Covering(span[1] + (a - LoadBase))
         /\ Contents(phdrs[i], a) = ByteOf(phdrs[i], span[1] + (a - LoadBase))
         /\ a \in ByteRange(Destination(phdrs[i]), phdrs[i].memsz) =>
               Contents(phdrs[i], a) \in {Zero} \cup Nat
<1>1. PICK p, v, m, s, t, b, d : /\ p = phdrs[i] /\ v = p.vaddr /\ m = p.memsz /\ s = span[1] /\ t = span[2]
                                 /\ b = LoadBase /\ d = Destination(p)
  OBVIOUS
<1>2. v \in Nat /\ m \in Nat /\ m > 0 /\ p.offset \in Nat /\ p.filesz \in Nat
  BY <1>1, SegmentFacts
<1>3. s \in Nat /\ t \in Nat /\ s < t /\ LoadEnd = b + (t - s) /\ b \in Nat
  BY <1>1, FitsFacts, ElfConstants
<1>4. s <= v /\ v + m <= t
  BY <1>1 DEF Fits
<1>5. d = b + (v - s)
  BY <1>1 DEF Destination
<1>6. d \in Nat /\ a - d = (s + (a - b)) - v
  BY ONLY <1>2, <1>3, <1>4, <1>5, a \in Nat
<1>7. ~BelowSpan(p)
  BY ONLY <1>1, <1>2, <1>3, <1>4 DEF BelowSpan
<1>8. a \in d..(d + m - 1) => a \in b..(LoadEnd - 1)
  BY ONLY <1>2, <1>3, <1>4, <1>5, a \in Nat
<1>9. a \in d..(d + m - 1) <=> s + (a - b) \in v..(v + m - 1)
  BY ONLY <1>2, <1>3, <1>4, <1>5, a \in Nat
<1>10. i \in Covering(s + (a - b)) <=> s + (a - b) \in v..(v + m - 1)
  BY ONLY <1>1, i \in Loads, Zenon DEF Covering, ByteRange
<1>11. Contents(p, a) = ByteOf(p, s + (a - b))
  BY ONLY <1>1, <1>6, Zenon DEF Contents, ByteOf
<1>12. a \in d..(d + m - 1) => Contents(p, a) \in {Zero} \cup Nat
  <2> SUFFICES ASSUME a \in d..(d + m - 1) PROVE Contents(p, a) \in {Zero} \cup Nat
    OBVIOUS
  <2>1. a - d \in Nat
    BY ONLY <1>2, <1>6, a \in Nat, a \in d..(d + m - 1)
  <2> QED
    BY <1>1, <1>2, <2>1 DEF Contents
<1>13. d..(d + m - 1) = ByteRange(Destination(phdrs[i]), phdrs[i].memsz)
  BY ONLY <1>1, Zenon DEF ByteRange
<1> QED
  BY ONLY <1>1, <1>6, <1>7, <1>8, <1>9, <1>10, <1>11, <1>12, <1>13, Zenon

LEMMA LoadStep == LInv /\ LoadSegment => LInv'
<1> SUFFICES ASSUME LInv, LoadSegment PROVE LInv'
  OBVIOUS
<1> DEFINE p == phdrs[index]
           used == p.load /\ ~BelowSpan(p)
<1>1. /\ stage = "load" /\ index' = index + 1
      /\ UNCHANGED <<file, phdrs, entry, span, space>>
      /\ memory' = [a \in Physical |-> IF used /\ a \in ByteRange(Destination(p), p.memsz)
                                         THEN Contents(p, a) ELSE memory[a]]
      /\ bytesRead' = bytesRead \cup IF used THEN ByteRange(p.offset, p.filesz) ELSE {}
      /\ stage' = CASE BelowSpan(p) -> "failed"
                    [] index' > Len(phdrs) -> "map"
                    [] OTHER -> "load"
  BY DEF LoadSegment, load_segment
<1>2. /\ Checked /\ GoodHeader /\ Len(phdrs) = file.phnum /\ Fits
      /\ entry \in Nat /\ Covering(entry) # {} /\ LoaderTypeOK
      /\ index <= Len(phdrs) /\ WindowHolds(index)
  BY <1>1 DEF LInv, StageInv
<1>3. index \in Nat /\ index \in DOMAIN phdrs /\ Len(phdrs) \in Nat /\ index <= Len(phdrs) /\ p \in Phdrs
  <2>1. Len(phdrs) \in Nat /\ DOMAIN phdrs = 1..Len(phdrs)
    BY <1>2, LenProperties DEF Checked
  <2>2. index \in 1..(Len(phdrs) + 1)
    BY <1>2 DEF LoaderTypeOK
  <2>3. index \in DOMAIN phdrs /\ index \in Nat
    BY <1>2, <2>1, <2>2
  <2> QED
    BY <1>2, <2>1, <2>3, ElementOfSeq DEF Checked
<1>4. index \in Loads <=> p.load
  BY <1>3 DEF Loads
<1>5. ~BelowSpan(p)
  <2>1. CASE p.load
    <3>1. 0 \in Nat /\ index \in Loads
      BY <1>4, <2>1
    <3> QED
      BY <1>2, <3>1, PlacedByte
  <2>2. CASE ~p.load
    BY <2>2 DEF BelowSpan
  <2> QED
    BY <2>1, <2>2
<1>6. used <=> index \in Loads
  BY <1>4, <1>5
<1>7. stage' = IF index + 1 > Len(phdrs) THEN "map" ELSE "load"
  BY <1>1, <1>5
<1> HIDE DEF used
<1>8. Physical \subseteq Nat
  BY ElfConstants DEF Physical
<1>9. ASSUME NEW a \in Physical
      PROVE  memory'[a] = IF a \in LoadBase..(LoadEnd - 1) THEN ByteBefore(span[1] + (a - LoadBase), index + 1) ELSE Other
  <2>0. a \in Nat
    BY <1>8
  <2>1. memory'[a] = IF used /\ a \in ByteRange(Destination(p), p.memsz) THEN Contents(p, a) ELSE memory[a]
    BY <1>1
  <2>2. memory[a] = IF a \in LoadBase..(LoadEnd - 1) THEN ByteBefore(span[1] + (a - LoadBase), index) ELSE Other
    BY <1>2 DEF WindowHolds
  <2>3. PICK v : v = span[1] + (a - LoadBase)
    OBVIOUS
  <2>4. CASE used /\ a \in ByteRange(Destination(p), p.memsz)
    <3>1. index \in Loads
      BY <1>6, <2>4
    <3>2. /\ a \in LoadBase..(LoadEnd - 1) /\ index \in Covering(v) /\ Contents(p, a) = ByteOf(p, v)
      BY <1>2, <2>0, <2>3, <2>4, <3>1, PlacedByte
    <3>3. ByteBefore(v, index + 1) = ByteOf(p, v)
      BY <1>2, <1>3, <3>2, ByteAfter
    <3>4. memory'[a] = Contents(p, a)
      BY <2>1, <2>4
    <3> QED
      BY ONLY <2>3, <3>2, <3>3, <3>4, Zenon
  <2>5. CASE ~(used /\ a \in ByteRange(Destination(p), p.memsz))
    <3>1. index \notin Covering(v)
      <4>1. CASE index \in Loads
        BY <1>2, <1>6, <2>0, <2>3, <2>5, <4>1, PlacedByte
      <4>2. CASE index \notin Loads
        BY <4>2 DEF Covering
      <4> QED
        BY <4>1, <4>2
    <3>2. ByteBefore(v, index + 1) = ByteBefore(v, index)
      BY <1>2, <1>3, <3>1, ByteAfter
    <3>3. memory'[a] = memory[a]
      BY <2>1, <2>5
    <3> QED
      BY ONLY <2>2, <2>3, <3>2, <3>3, Zenon
  <2> QED
    BY <2>4, <2>5
<1>10. \A a, n : ByteBefore(a, n)' = ByteBefore(a, n)
  BY <1>1, ByteStays
<1>11. /\ Checked' /\ GoodHeader' /\ Loads' = Loads /\ PagesUsed' = PagesUsed
       /\ \A a : Covering(a)' = Covering(a)
  BY <1>1, <1>2, HeadersStay
<1>12. Fits' /\ LoadEnd' = LoadEnd
  BY <1>1, <1>2, FitsStays
<1>13. WindowHolds(index)'
  BY <1>1, <1>9, <1>10, <1>12 DEF WindowHolds
<1>14. LoaderTypeOK'
  <2>1. memory' \in [Physical -> {Zero, Other} \cup Nat]
    <3>1. ASSUME NEW a \in Physical
          PROVE  (IF used /\ a \in ByteRange(Destination(p), p.memsz) THEN Contents(p, a) ELSE memory[a])
                    \in {Zero, Other} \cup Nat
      <4>1. CASE used /\ a \in ByteRange(Destination(p), p.memsz)
        <5>1. Contents(p, a) \in {Zero} \cup Nat
          BY <1>2, <1>6, <1>8, <4>1, PlacedByte
        <5> QED
          BY <4>1, <5>1
      <4>2. CASE ~(used /\ a \in ByteRange(Destination(p), p.memsz))
        <5>1. memory[a] \in {Zero, Other} \cup Nat
          BY <1>2 DEF LoaderTypeOK
        <5> QED
          BY <4>2, <5>1
      <4> QED
        BY <4>1, <4>2
    <3> QED
      BY <1>1, <3>1
  <2>2. index' \in 1..(Len(phdrs') + 1)
    <3>1. index + 1 \in 1..(Len(phdrs) + 1)
      BY ONLY <1>3
    <3> QED
      BY <1>1, <3>1
  <2> QED
    BY <1>1, <1>2, <2>1, <2>2 DEF LoaderTypeOK
<1>15. WritesStayInWindow'
  BY <1>13 DEF WindowHolds, WritesStayInWindow
<1>16. ReadsStayInFile'
  <2>1. used => ByteRange(p.offset, p.filesz) \subseteq 0..(file.size - 1)
    <3> SUFFICES ASSUME used PROVE ByteRange(p.offset, p.filesz) \subseteq 0..(file.size - 1)
      OBVIOUS
    <3>1. index \in Loads
      BY <1>6
    <3>2. p.offset \in Nat /\ p.filesz \in Nat /\ p.offset + p.filesz <= file.size
      BY <1>2, <3>1, SegmentFacts
    <3>3. file.size \in Nat
      BY <1>2, HeaderFacts DEF LoaderTypeOK
    <3> QED
      BY ONLY <3>2, <3>3 DEF ByteRange
  <2>2. bytesRead \subseteq 0..(file.size - 1)
    BY DEF LInv, ReadsStayInFile
  <2>3. bytesRead' \subseteq 0..(file.size - 1)
    BY <1>1, <2>1, <2>2
  <2> QED
    BY <1>1, <2>3 DEF LInv, ReadsStayInFile
<1>17. stage' \in {"map", "load"}
  BY <1>7
<1>18. ProgramIsTheFile'
  BY <1>17 DEF ProgramIsTheFile, ImageIsTheFile, EntryAndStack
<1>19. Verdict'
  <2>1. GoodImage
    BY <1>1 DEF LInv, Verdict
  <2>2. \A i \in DOMAIN phdrs' : GoodSegment(phdrs[i])'
    BY <1>11 DEF Checked
  <2>3. GoodImage'
    <3>1. Covering(entry)' = Covering(entry)
      BY <1>1, <1>11 DEF Covering
    <3> QED
      BY <1>11, <2>1, <3>1, Zenon DEF GoodImage
  <2> QED
    BY <1>11, <1>17, <2>2, <2>3 DEF Verdict
<1>20. StageInv'
  <2>1. stage' = "load" => index' <= Len(phdrs')
    BY <1>1, <1>3, <1>7
  <2>2. stage' = "map" => index' = Len(phdrs') + 1
    BY <1>1, <1>3, <1>7
  <2>3. stage' = "map" => WindowHolds(Len(phdrs) + 1)'
    BY <1>13, <2>2
  <2>4. entry' \in Nat /\ Covering(entry)' # {}
    BY <1>1, <1>2, <1>11 DEF Covering
  <2>5. Len(phdrs') = file'.phnum
    BY <1>1, <1>2
  <2> QED
    BY <1>11, <1>12, <1>13, <1>17, <2>1, <2>3, <2>4, <2>5 DEF StageInv
<1> QED
  BY <1>14, <1>15, <1>16, <1>18, <1>19, <1>20 DEF LInv

LEMMA MapStep == LInv /\ MapImage => LInv'
<1> SUFFICES ASSUME LInv, MapImage PROVE LInv'
  OBVIOUS
<1>1. /\ stage = "map" /\ stage' = "stack" /\ space' = ImageMap
      /\ UNCHANGED <<file, phdrs, entry, span, memory, bytesRead, index>>
  BY DEF MapImage, ImageMap
<1>2. /\ Checked /\ GoodHeader /\ Len(phdrs) = file.phnum /\ Fits
      /\ entry \in Nat /\ Covering(entry) # {} /\ LoaderTypeOK /\ WindowHolds(Len(phdrs) + 1)
  BY <1>1 DEF LInv, StageInv
<1>3. Checked' /\ GoodHeader' /\ \A a : Covering(a)' = Covering(a)
  BY <1>1, <1>2, HeadersStay
<1>4. Fits' /\ LoadEnd' = LoadEnd
  BY <1>1, <1>2, FitsStays
<1>5. WindowHolds(Len(phdrs) + 1)'
  <2>1. PICK n : n = Len(phdrs) + 1
    OBVIOUS
  <2>2. WindowHolds(n)'
    BY <1>1, <1>2, <2>1, WindowStays
  <2> QED
    BY <1>1, <2>1, <2>2 DEF WindowHolds
<1>6. LoaderTypeOK'
  BY <1>1, <1>2 DEF LoaderTypeOK
<1>7. WritesStayInWindow'
  BY <1>5 DEF WindowHolds, WritesStayInWindow
<1>8. ReadsStayInFile'
  BY <1>1 DEF LInv, ReadsStayInFile
<1>9. ProgramIsTheFile'
  BY <1>1 DEF ProgramIsTheFile, ImageIsTheFile, EntryAndStack
<1>10. Verdict'
  BY <1>1 DEF Verdict
<1>11. StageInv'
  <2>1. ImageMap' = ImageMap
    BY <1>4 DEF ImageMap
  <2>2. entry' \in Nat /\ Covering(entry)' # {}
    BY <1>1, <1>2, <1>3 DEF Covering
  <2>3. Len(phdrs') = file'.phnum /\ space' = ImageMap'
    BY <1>1, <1>2, <2>1
  <2> QED
    BY <1>1, <1>3, <1>4, <1>5, <2>2, <2>3 DEF StageInv
<1> QED
  BY <1>6, <1>7, <1>8, <1>9, <1>10, <1>11 DEF LInv

(* The pages of the image, before and after the move. *)
LEMMA ImagePages ==
  ASSUME LoaderTypeOK, Fits
  PROVE  \E n \in Nat :
           /\ n = (LoadEnd - LoadBase) \div PageBytes /\ span[2] - span[1] = n * PageBytes
           /\ \A i \in 0..(n - 1) :
                /\ i * PageBytes \in Nat /\ ImageBase + i * PageBytes < StackTop - PageBytes
                /\ LoadBase + i * PageBytes < StackPage
<1>1. PICK size, n : size = span[2] - span[1] /\ n = (LoadEnd - LoadBase) \div PageBytes
  OBVIOUS
<1>2. size \in Nat /\ size <= LoadSize /\ LoadEnd - LoadBase = size
  BY <1>1, FitsFacts
<1>3. size % PageBytes = 0
  <2>1. span[1] \in Nat /\ span[2] \in Nat /\ span[1] <= span[2]
    BY FitsFacts
  <2> QED
    BY <1>1, <2>1, MultipleSum DEF LoaderTypeOK
<1>4. n = size \div PageBytes
  BY ONLY <1>1, <1>2, Zenon
<1>5. n \in Nat /\ size = n * PageBytes
  BY ONLY <1>2, <1>3, <1>4, MultipleIs
<1>6. ASSUME NEW i \in 0..(n - 1)
      PROVE  /\ i * PageBytes \in Nat /\ ImageBase + i * PageBytes < StackTop - PageBytes
             /\ LoadBase + i * PageBytes < StackPage
  <2>1. PICK x, b, t, l, q : x = i * PageBytes /\ b = ImageBase /\ t = StackTop /\ l = LoadSize /\ q = PageBytes
    OBVIOUS
  <2>2. i \in Nat /\ i < n
    BY ONLY <1>5, <1>6
  <2>3. x \in Nat /\ x + q <= size
    BY <1>5, <2>1, <2>2, TimesOrder
  <2>4. b \in Nat /\ t \in Nat /\ l \in Nat /\ q \in Nat /\ q > 0 /\ b + l + q <= t /\ size <= l
    BY <1>2, <2>1, ElfConstants
  <2>5. b + x < t - q
    BY ONLY <1>2, <2>3, <2>4
  <2>6. LoadBase + x < StackPage
    <3>1. LoadBase \in Nat /\ Word \in Nat /\ l < Word
      BY <2>1, ElfConstants
    <3> QED
      BY ONLY <1>2, <2>3, <2>4, <3>1 DEF StackPage
  <2> QED
    BY ONLY <2>1, <2>3, <2>5, <2>6, Zenon
<1> QED
  BY ONLY <1>1, <1>5, <1>6, Zenon

(* The user's address of byte a of the span lies in the page of the image  *)
(* that its place in the window lies in.                                   *)
LEMMA UserAddress ==
  ASSUME LoaderTypeOK, Fits, NEW a \in span[1]..(span[2] - 1), NEW n \in Nat,
         span[2] - span[1] = n * PageBytes,
         NEW d, d = a - span[1], NEW v, v = ImageBase + d
  PROVE  \E i \in 0..(n - 1), x, r \in Nat :
           /\ x = i * PageBytes /\ r = v % PageBytes
           /\ align_down(v) = ImageBase + x /\ x + r = d
<1>1. PICK size : size = span[2] - span[1]
  OBVIOUS
<1>2. d \in Nat /\ d < size /\ size \in Nat /\ size = n * PageBytes
  <2>1. span[1] \in Nat /\ span[2] \in Nat
    BY FitsFacts
  <2>2. d \in Nat /\ d < size /\ size \in Nat
    BY ONLY <1>1, <2>1, a \in span[1]..(span[2] - 1), d = a - span[1]
  <2> QED
    BY ONLY <1>1, <2>2, span[2] - span[1] = n * PageBytes, Zenon
<1>3. PICK i, r, x \in Nat :
        /\ i = d \div PageBytes /\ r = d % PageBytes /\ x = i * PageBytes
        /\ r < PageBytes /\ d = x + r /\ align_down(d) = x
  BY <1>2, Divided
<1>4. align_down(v) = ImageBase + x /\ v % PageBytes = r
  <2>1. /\ align_down(ImageBase + d) = ImageBase + (d \div PageBytes) * PageBytes
        /\ (ImageBase + d) % PageBytes = d % PageBytes
    BY <1>2, ElfConstants, ElfAligned, MovedPage
  <2>2. align_down(ImageBase + d) = ImageBase + x /\ (ImageBase + d) % PageBytes = r
    BY ONLY <1>3, <2>1, Zenon
  <2>3. ImageBase + d = v
    OBVIOUS
  <2> QED
    BY ONLY <2>2, <2>3, Zenon
<1>5. i < n
  <2>1. n <= i => n * PageBytes <= i * PageBytes
    BY TimesOrder
  <2>2. n <= i => size <= x
    BY ONLY <1>2, <1>3, <2>1, Zenon
  <2>3. x <= d
    BY ONLY <1>3, x \in Nat, r \in Nat
  <2> QED
    BY ONLY <1>2, <2>2, <2>3, x \in Nat, i \in Nat, n \in Nat
<1>6. i \in 0..(n - 1)
  BY ONLY <1>5, i \in Nat, n \in Nat
<1>7. x + r = d
  BY <1>3
<1> QED
  BY ONLY <1>3, <1>4, <1>6, <1>7, x \in Nat, r \in Nat, Zenon

LEMMA FileByteIs ==
  ASSUME Checked, NEW a
  PROVE  ByteBefore(a, Len(phdrs) + 1) = FileByte(a)
<1>1. Len(phdrs) \in Nat /\ DOMAIN phdrs = 1..Len(phdrs)
  BY LenProperties DEF Checked
<1>2. CoveringBefore(a, Len(phdrs) + 1) = Covering(a)
  BY <1>1 DEF CoveringBefore, Covering, Loads
<1> QED
  BY <1>2 DEF ByteBefore, FileByte, ByteOf

LEMMA StackStep == LInv /\ AllocStack => LInv'
<1> SUFFICES ASSUME LInv, AllocStack PROVE LInv'
  OBVIOUS
<1>0. PICK st : st = StackTop - PageBytes
  OBVIOUS
<1>1. /\ stage = "stack" /\ stage' = "done" /\ entry' = ImageBase + (entry - span[1])
      /\ UNCHANGED <<file, phdrs, span, memory, bytesRead, index>>
      /\ space' = [v \in DOMAIN space \cup {st} |-> IF v = st THEN StackPage ELSE space[v]]
  BY <1>0, Zenon DEF AllocStack
<1>2. /\ Checked /\ GoodHeader /\ Len(phdrs) = file.phnum /\ Fits
      /\ entry \in Nat /\ Covering(entry) # {} /\ LoaderTypeOK /\ WindowHolds(Len(phdrs) + 1)
      /\ space = ImageMap
  BY <1>1 DEF LInv, StageInv
<1>3. Checked' /\ GoodHeader' /\ \A a : Covering(a)' = Covering(a)
  BY <1>1, <1>2, HeadersStay
<1>4. Fits' /\ LoadEnd' = LoadEnd
  BY <1>1, <1>2, FitsStays
<1>5. WindowHolds(Len(phdrs) + 1)'
  <2>1. PICK n : n = Len(phdrs) + 1
    OBVIOUS
  <2>2. WindowHolds(n)'
    BY <1>1, <1>2, <2>1, WindowStays
  <2> QED
    BY <1>1, <2>1, <2>2 DEF WindowHolds
<1>6. LoaderTypeOK'
  BY <1>1, <1>2 DEF LoaderTypeOK
<1>7. WritesStayInWindow'
  BY <1>5 DEF WindowHolds, WritesStayInWindow
<1>8. ReadsStayInFile'
  BY <1>1 DEF LInv, ReadsStayInFile
<1>9. PICK n \in Nat :
        /\ n = (LoadEnd - LoadBase) \div PageBytes /\ span[2] - span[1] = n * PageBytes
        /\ \A i \in 0..(n - 1) :
             /\ i * PageBytes \in Nat /\ ImageBase + i * PageBytes < StackTop - PageBytes
             /\ LoadBase + i * PageBytes < StackPage
  BY <1>2, ImagePages
<1>10. ImageMap = [v \in {ImageBase + i * PageBytes : i \in 0..(n - 1)} |-> LoadBase + (v - ImageBase)]
  BY <1>9, Zenon DEF ImageMap
<1>11. ASSUME NEW i \in 0..(n - 1)
       PROVE  /\ ImageBase + i * PageBytes \in DOMAIN space'
              /\ space'[ImageBase + i * PageBytes] = LoadBase + i * PageBytes
              /\ LoadBase + i * PageBytes # StackPage
  <2>1. PICK x, v : x = i * PageBytes /\ v = ImageBase + i * PageBytes
    OBVIOUS
  <2>2. x \in Nat /\ v < st /\ LoadBase + x < StackPage
    BY <1>0, <1>9, <2>1
  <2>3. v = ImageBase + x
    BY ONLY <2>1, Zenon
  <2>4. st \in Int /\ v \in Nat /\ LoadBase + x \in Nat /\ StackPage \in Nat /\ v - ImageBase = x
    BY <1>0, <2>2, <2>3, ElfConstants DEF StackPage
  <2>5. v # st /\ LoadBase + x # StackPage
    BY ONLY <2>2, <2>4
  <2>6. v \in DOMAIN space /\ space[v] = LoadBase + (v - ImageBase)
    BY <1>2, <1>10, <2>1
  <2>7. v \in DOMAIN space' /\ space'[v] = space[v]
    BY <1>1, <2>5, <2>6
  <2>8. space'[v] = LoadBase + x
    BY ONLY <2>4, <2>6, <2>7, Zenon
  <2> QED
    BY ONLY <2>1, <2>5, <2>7, <2>8, Zenon
<1>12. ImageIsTheFile'
  <2> SUFFICES ASSUME NEW a \in span[1]..(span[2] - 1)
               PROVE  /\ align_down(ImageBase + (a - span[1])) \in DOMAIN space'
                      /\ UserSees(ImageBase + (a - span[1]))' = FileByte(a)'
    BY <1>1 DEF ImageIsTheFile
  <2>1. PICK v, d : d = a - span[1] /\ v = ImageBase + d
    OBVIOUS
  <2>2. PICK i \in 0..(n - 1), x, r \in Nat :
           /\ x = i * PageBytes /\ r = v % PageBytes
           /\ align_down(v) = ImageBase + x /\ x + r = d
    <3>1. LoaderTypeOK /\ Fits /\ span[2] - span[1] = n * PageBytes
      BY <1>2, <1>9
    <3>2. d = a - span[1] /\ v = ImageBase + d
      BY ONLY <2>1
    <3> QED
      BY ONLY <3>1, <3>2, UserAddress, n \in Nat, a \in span[1]..(span[2] - 1), SMTT(30)
  <2>3. v = ImageBase + (a - span[1])
    BY ONLY <2>1, Zenon
  <2>4. align_down(v) \in DOMAIN space' /\ space'[align_down(v)] = LoadBase + x
    BY <1>11, <2>2
  <2>5. /\ span[1] \in Nat /\ span[2] \in Nat /\ LoadEnd = LoadBase + (span[2] - span[1])
        /\ LoadBase..(LoadEnd - 1) \subseteq Physical /\ LoadBase \in Nat
    BY <1>2, FitsFacts, ElfConstants
  <2>6. d \in Nat /\ a \in Nat
    BY ONLY <2>1, <2>5, a \in span[1]..(span[2] - 1)
  <2>7. (LoadBase + x) + r = LoadBase + d
    BY ONLY <2>2, <2>5, <2>6, x \in Nat, r \in Nat
  <2>8. LoadBase + d \in LoadBase..(LoadEnd - 1) /\ span[1] + ((LoadBase + d) - LoadBase) = a
    BY ONLY <2>1, <2>5, <2>6, a \in span[1]..(span[2] - 1)
  <2>9. memory[LoadBase + d] = ByteBefore(a, Len(phdrs) + 1)
    <3>1. LoadBase + d \in Physical
      BY <2>5, <2>8
    <3> QED
      BY <1>2, <2>8, <3>1 DEF WindowHolds
  <2>10. ByteBefore(a, Len(phdrs) + 1) = FileByte(a)
    BY <1>2, FileByteIs
  <2>11. FileByte(a)' = FileByte(a)
    <3>1. Covering(a)' = Covering(a)
      BY <1>3
    <3> QED
      BY <1>1, <3>1 DEF FileByte
  <2>12. UserSees(v)' = memory[(LoadBase + x) + r]
    BY <1>1, <2>2, <2>4 DEF UserSees
  <2>13. UserSees(v)' = FileByte(a)'
    BY ONLY <2>7, <2>9, <2>10, <2>11, <2>12, Zenon
  <2>14. UserSees(ImageBase + (a - span[1]))' = UserSees(v)'
    BY <1>1, <2>3 DEF UserSees
  <2> QED
    BY ONLY <2>3, <2>4, <2>13, <2>14, Zenon
<1>13. EntryAndStack'
  <2>1. span'[1] + (entry' - ImageBase) = entry
    <3>1. span[1] \in Nat /\ ImageBase \in Nat /\ entry \in Nat
      BY <1>2, FitsFacts, ElfConstants
    <3>2. span' = span /\ entry' = ImageBase + (entry - span[1])
      BY ONLY <1>1
    <3> QED
      BY ONLY <3>1, <3>2
  <2>2. Covering(span[1] + (entry - ImageBase))' # {}
    <3>1. Covering(span[1] + (entry - ImageBase))' = Covering(entry)
      BY <1>1, <1>3, <2>1 DEF Covering
    <3> QED
      BY <1>2, <3>1
  <2>3. space'[st] = StackPage
    BY <1>1
  <2>4. ASSUME NEW v \in DOMAIN space', space'[v] = StackPage PROVE v = st
    <3> SUFFICES ASSUME v # st PROVE FALSE
      OBVIOUS
    <3>1. v \in DOMAIN ImageMap
      BY <1>1, <1>2
    <3>2. PICK i \in 0..(n - 1) : v = ImageBase + i * PageBytes
      BY <1>10, <3>1
    <3> QED
      BY <1>11, <2>4, <3>2
  <2> QED
    BY <1>0, <2>2, <2>3, <2>4 DEF EntryAndStack
<1>14. ProgramIsTheFile'
  BY <1>12, <1>13 DEF ProgramIsTheFile
<1>15. Verdict'
  BY <1>1 DEF Verdict
<1>16. StageInv'
  <2>1. Len(phdrs') = file'.phnum
    BY <1>1, <1>2
  <2> QED
    BY <1>1, <1>3, <1>4, <1>5, <2>1 DEF StageInv
<1> QED
  BY <1>6, <1>7, <1>8, <1>14, <1>15, <1>16 DEF LInv

(* A claim that fails, and a step that changes nothing, keep what holds:   *)
(* the failed load leaves the window to the caller as it is.               *)
LEMMA RestStep ==
  ASSUME LInv, UNCHANGED <<file, phdrs, entry, span, memory, bytesRead, index, space>>,
         stage' = stage \/ (stage \in {"claim", "stack"} /\ stage' = "failed")
  PROVE  LInv'
<1>1. /\ UNCHANGED <<file, phdrs, entry, span, memory, bytesRead, index, space>>
      /\ stage' = stage \/ (stage \in {"claim", "stack"} /\ stage' = "failed")
      /\ LoaderTypeOK /\ WritesStayInWindow /\ ReadsStayInFile /\ ProgramIsTheFile /\ Verdict /\ StageInv
  BY DEF LInv
<1>2. /\ Loads' = Loads /\ PagesUsed' = PagesUsed
      /\ Checked' <=> Checked
      /\ GoodHeader' <=> GoodHeader
      /\ (\A i \in DOMAIN phdrs' : GoodSegment(phdrs[i])') <=> (\A i \in DOMAIN phdrs : GoodSegment(phdrs[i]))
      /\ \A a : Covering(a)' = Covering(a)
  BY <1>1, HeadersStay
<1>3. LoaderTypeOK'
  BY <1>1 DEF LoaderTypeOK
<1>4. LoadEnd' = LoadEnd
  BY <1>1 DEF LoadEnd
<1>5. WritesStayInWindow'
  BY <1>1, <1>4 DEF WritesStayInWindow
<1>6. ReadsStayInFile'
  BY <1>1 DEF ReadsStayInFile
<1>7. ProgramIsTheFile'
  <2>1. CASE stage' # "done"
    BY <2>1 DEF ProgramIsTheFile, ImageIsTheFile, EntryAndStack
  <2>2. CASE stage' = "done"
    <3>1. stage = "done"
      BY <1>1, <2>2
    <3>2. \A a : FileByte(a)' = FileByte(a)
      BY <1>1, <1>2 DEF FileByte
    <3>3. \A v : UserSees(v)' = UserSees(v)
      BY <1>1 DEF UserSees
    <3>4. ImageIsTheFile'
      <4>1. ImageIsTheFile
        BY <1>1 DEF ProgramIsTheFile
      <4> QED
        BY <1>1, <3>1, <3>2, <3>3, <4>1 DEF ImageIsTheFile, UserSees, FileByte
    <3>5. EntryAndStack'
      <4>1. EntryAndStack
        BY <1>1 DEF ProgramIsTheFile
      <4> QED
        BY <1>1, <1>2, <3>1, <4>1 DEF EntryAndStack, Covering
    <3> QED
      BY <3>4, <3>5 DEF ProgramIsTheFile
  <2> QED
    BY <2>1, <2>2
<1>8. Verdict'
  <2>1. GoodImage' <=> GoodImage
    BY <1>1, <1>2 DEF GoodImage, Covering
  <2>2. (\E i \in DOMAIN phdrs' : ~GoodSegment(phdrs[i])') <=> (\E i \in DOMAIN phdrs : ~GoodSegment(phdrs[i]))
    BY <1>2
  <2> QED
    BY <1>1, <1>2, <2>1, <2>2 DEF Verdict
<1>9. StageInv'
  <2>1. Untouched' <=> Untouched
    BY <1>1 DEF Untouched
  <2>2. Fits' <=> Fits
    BY <1>1, <1>2 DEF Fits
  <2>3. ImageMap' = ImageMap
    BY <1>4 DEF ImageMap
  <2>4. Covering(entry)' = Covering(entry)
    BY <1>1, <1>2 DEF Covering
  <2>5. stage \in {"map", "stack", "done"} => WindowHolds(Len(phdrs) + 1)'
    <3> SUFFICES ASSUME stage \in {"map", "stack", "done"} PROVE WindowHolds(Len(phdrs) + 1)'
      OBVIOUS
    <3>1. PICK n : n = Len(phdrs) + 1
      OBVIOUS
    <3>2. WindowHolds(n) /\ Fits /\ Checked
      BY <1>1, <3>1 DEF StageInv
    <3>3. WindowHolds(n)'
      BY <1>1, <3>2, WindowStays
    <3> QED
      BY <1>1, <3>1, <3>3 DEF WindowHolds
  <2>6. stage = "load" => WindowHolds(index)'
    <3> SUFFICES ASSUME stage = "load" PROVE WindowHolds(index)'
      OBVIOUS
    <3>1. PICK n : n = index
      OBVIOUS
    <3>2. WindowHolds(n) /\ Fits /\ Checked
      BY <1>1, <3>1 DEF StageInv
    <3>3. WindowHolds(n)'
      BY <1>1, <3>2, WindowStays
    <3> QED
      BY <1>1, <3>1, <3>3 DEF WindowHolds
  <2>7. \A i \in DOMAIN phdrs' : stage = "segments" => GoodSegment(phdrs[i])'
    BY <1>1, <1>2 DEF StageInv
  <2> QED
    BY <1>1, <1>2, <2>1, <2>2, <2>3, <2>4, <2>5, <2>6, <2>7 DEF StageInv
<1> QED
  BY <1>3, <1>5, <1>6, <1>7, <1>8, <1>9 DEF LInv

LEMMA LoaderKeeps == LoaderSpec => []LInv
<1>1. LoaderInit => LInv
  BY LoaderBegins
<1>2. LInv /\ [LoaderNext]_loaderVars => LInv'
  <2> SUFFICES ASSUME LInv, [LoaderNext]_loaderVars PROVE LInv'
    OBVIOUS
  <2>1. CASE ValidateHeader
    BY <2>1, HeaderStep
  <2>2. CASE \E p \in Phdrs : ValidateSegment(p)
    BY <2>2, SegmentStep
  <2>3. CASE \E e \in Entries : ComputeSpan(e)
    BY <2>3, ComputeStep
  <2>4. CASE ClaimWindow
    BY <2>4, ClaimStep
  <2>5. CASE LoadSegment
    BY <2>5, LoadStep
  <2>6. CASE MapImage
    BY <2>6, MapStep
  <2>7. CASE AllocStack
    BY <2>7, StackStep
  <2>8. CASE OutOfMemory
    <3>1. /\ UNCHANGED <<file, phdrs, entry, span, memory, bytesRead, index, space>>
          /\ stage \in {"claim", "stack"} /\ stage' = "failed"
      BY <2>8 DEF OutOfMemory
    <3> QED
      BY <3>1, RestStep
  <2>9. CASE UNCHANGED loaderVars
    <3>1. /\ UNCHANGED <<file, phdrs, entry, span, memory, bytesRead, index, space>>
          /\ stage' = stage \/ (stage \in {"claim", "stack"} /\ stage' = "failed")
      BY <2>9 DEF loaderVars
    <3> QED
      BY <3>1, RestStep
  <2> QED
    BY <2>1, <2>2, <2>3, <2>4, <2>5, <2>6, <2>7, <2>8, <2>9 DEF LoaderNext
<1> QED
  BY <1>1, <1>2, PTL DEF LoaderSpec

(* elf_load_user_image writes into the pages of the window that it has     *)
(* claimed and reads the bytes of the file, whatever the file's headers    *)
(* are: none of its unsigned sums wraps past a check.                      *)
THEOREM LoaderStaysInBounds == LoaderSpec => []LoaderInBounds
<1>1. LInv => LoaderInBounds
  BY DEF LInv, LoaderInBounds
<1> QED
  BY <1>1, LoaderKeeps, PTL

(* A program that elf_load_user_image has loaded sees at every address of  *)
(* its span what the last segment there has in the file, or zeros; it      *)
(* starts inside a segment, and its stack has a page of its own.           *)
THEOREM ProgramIsLoaded == LoaderSpec => []ProgramIsTheFile
<1>1. LInv => ProgramIsTheFile
  BY DEF LInv
<1> QED
  BY <1>1, LoaderKeeps, PTL

(* The checks of elf_load_user_image, made on words that wrap, refuse a    *)
(* file exactly if it is bad in terms of numbers that do not.              *)
THEOREM VerdictIsExact == LoaderSpec => []Verdict
<1>1. LInv => Verdict
  BY DEF LInv
<1> QED
  BY <1>1, LoaderKeeps, PTL
=============================================================================
