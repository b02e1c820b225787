--------------------------- MODULE PageListProofs ---------------------------
(***************************************************************************)
(* What the operations on the free list do to the set of free pages, for   *)
(* lists of any length.  Every lemma asks for a list without repetitions   *)
(* and returns one.                                                        *)
(***************************************************************************)
EXTENDS PageList, SequenceTheorems, WellFoundedInduction, TLAPS

(* A non-empty set of numbers has a least element. *)
LEMMA LeastNumber ==
  ASSUME NEW T, T \subseteq Nat, T # {}
  PROVE  \E n \in T : \A m \in T : n <= m
<1>1. \E n \in T : \A m \in T : ~(<<m, n>> \in OpToRel(<, Nat))
  BY NatLessThanWellFounded, WFMin
<1>2. PICK n \in T : \A m \in T : ~(<<m, n>> \in OpToRel(<, Nat))
  BY <1>1
<1>3. \A m \in T : ~(m < n)
  BY <1>2 DEF OpToRel
<1> QED BY <1>3

(* A non-empty list and its elements, as the provers like them. *)
LEMMA ListFacts ==
  ASSUME NEW S, NEW list \in Seq(S)
  PROVE  /\ Len(list) \in Nat
         /\ DOMAIN list = 1..Len(list)
         /\ ToSet(list) \subseteq S
         /\ ToSet(list) = {list[i] : i \in 1..Len(list)}
         /\ list = <<>> <=> Len(list) = 0
  BY LenProperties, ElementOfSeq, EmptySeq DEF ToSet

(* Descending lists the pages of [b, e), each once. *)
LEMMA DescendingFacts ==
  ASSUME NEW b \in Int, NEW e \in Int
  PROVE  /\ Descending(b, e) \in Seq(b..(e - 1))
         /\ ToSet(Descending(b, e)) = b..(e - 1)
         /\ IsInjective(Descending(b, e))
         /\ Len(Descending(b, e)) = IF b < e THEN e - b ELSE 0
<1> DEFINE n == IF b < e THEN e - b ELSE 0
           d == [i \in 1..n |-> e - i]
<1>1. n \in Nat /\ d = Descending(b, e)
  BY DEF Descending
<1>2. d \in [1..n -> b..(e - 1)]
  OBVIOUS
<1>3. d \in Seq(b..(e - 1))
  BY <1>1, <1>2, SeqDef
<1>4. Len(d) = n /\ DOMAIN d = 1..n
  BY <1>1, <1>2, <1>3, LenProperties
<1>5. ToSet(d) = b..(e - 1)
  <2>1. ToSet(d) \subseteq b..(e - 1)
    BY <1>2, <1>4 DEF ToSet
  <2>2. ASSUME NEW p \in b..(e - 1) PROVE p \in ToSet(d)
    <3>1. e - p \in 1..n /\ d[e - p] = p
      OBVIOUS
    <3> QED BY <3>1, <1>4 DEF ToSet
  <2> QED BY <2>1, <2>2
<1>6. IsInjective(d)
  BY <1>4 DEF IsInjective
<1> QED BY <1>1, <1>3, <1>4, <1>5, <1>6

(* Concatenation joins the sets, and keeps disjoint lists without repetitions. *)
LEMMA ConcatFacts ==
  ASSUME NEW S, NEW s \in Seq(S), NEW t \in Seq(S)
  PROVE  /\ s \o t \in Seq(S)
         /\ ToSet(s \o t) = ToSet(s) \cup ToSet(t)
         /\ IsInjective(s) /\ IsInjective(t) /\ ToSet(s) \cap ToSet(t) = {}
              => IsInjective(s \o t)
<1>1. /\ s \o t \in Seq(S)
      /\ Len(s \o t) = Len(s) + Len(t)
      /\ \A i \in 1 .. Len(s) + Len(t) : (s \o t)[i] =
                     IF i <= Len(s) THEN s[i] ELSE t[i - Len(s)]
  BY ConcatProperties
<1>2. /\ Len(s) \in Nat /\ DOMAIN s = 1..Len(s)
      /\ Len(t) \in Nat /\ DOMAIN t = 1..Len(t)
      /\ DOMAIN (s \o t) = 1..(Len(s) + Len(t))
  BY <1>1, LenProperties
<1>3. \A i \in 1..Len(s) : (s \o t)[i] = s[i]
  BY <1>1, <1>2
<1>4. \A j \in 1..Len(t) : Len(s) + j \in 1..(Len(s) + Len(t)) /\ (s \o t)[Len(s) + j] = t[j]
  BY <1>1, <1>2
<1>5. ToSet(s \o t) \subseteq ToSet(s) \cup ToSet(t)
  <2> SUFFICES ASSUME NEW i \in 1..(Len(s) + Len(t))
               PROVE  (s \o t)[i] \in ToSet(s) \cup ToSet(t)
    BY <1>2 DEF ToSet
  <2>1. CASE i <= Len(s)
    BY <2>1, <1>1, <1>2 DEF ToSet
  <2>2. CASE ~(i <= Len(s))
    <3>1. i - Len(s) \in 1..Len(t) /\ (s \o t)[i] = t[i - Len(s)]
      BY <2>2, <1>1, <1>2
    <3> QED BY <3>1, <1>2 DEF ToSet
  <2> QED BY <2>1, <2>2
<1>6. ToSet(s) \cup ToSet(t) \subseteq ToSet(s \o t)
  <2>1. ASSUME NEW i \in 1..Len(s) PROVE s[i] \in ToSet(s \o t)
    <3>1. i \in 1..(Len(s) + Len(t)) BY <1>2
    <3> QED BY <1>2, <1>3, <3>1 DEF ToSet
  <2>2. ASSUME NEW j \in 1..Len(t) PROVE t[j] \in ToSet(s \o t)
    BY <1>2, <1>4 DEF ToSet
  <2> QED BY <2>1, <2>2, <1>2 DEF ToSet
<1>7. ASSUME IsInjective(s), IsInjective(t), ToSet(s) \cap ToSet(t) = {}
      PROVE  IsInjective(s \o t)
  <2> SUFFICES ASSUME NEW i \in 1..(Len(s) + Len(t)), NEW j \in 1..(Len(s) + Len(t)),
                      (s \o t)[i] = (s \o t)[j], i < j
               PROVE  FALSE
    BY <1>2 DEF IsInjective
  <2>1. CASE j <= Len(s)
    <3>1. i \in 1..Len(s) /\ j \in 1..Len(s) /\ s[i] = s[j]
      BY <2>1, <1>2, <1>3
    <3> QED BY <3>1, <1>2, <1>7 DEF IsInjective
  <2>2. CASE i <= Len(s) /\ ~(j <= Len(s))
    <3>1. i \in 1..Len(s) /\ j - Len(s) \in 1..Len(t) /\ s[i] = t[j - Len(s)]
      BY <2>2, <1>1, <1>2
    <3> QED BY <3>1, <1>2, <1>7 DEF ToSet
  <2>3. CASE ~(i <= Len(s))
    <3>1. /\ i - Len(s) \in 1..Len(t) /\ j - Len(s) \in 1..Len(t)
          /\ t[i - Len(s)] = t[j - Len(s)]
      BY <2>3, <1>1, <1>2
    <3>2. i - Len(s) = j - Len(s)
      BY <3>1, <1>2, <1>7 DEF IsInjective
    <3> QED BY <3>2, <1>2
  <2> QED BY <2>1, <2>2, <2>3
<1> QED BY <1>1, <1>5, <1>6, <1>7

(* palloc_alloc on a list that is not empty hands out a free page and      *)
(* leaves the others.                                                      *)
LEMMA AllocFacts ==
  ASSUME NEW S, NEW list \in Seq(S), list # <<>>, IsInjective(list)
  PROVE  /\ palloc_alloc(list) \in ToSet(list)
         /\ AfterAlloc(list) \in Seq(S)
         /\ Len(AfterAlloc(list)) = Len(list) - 1
         /\ IsInjective(AfterAlloc(list))
         /\ ToSet(AfterAlloc(list)) = ToSet(list) \ {palloc_alloc(list)}
<1>1. /\ Tail(list) \in Seq(S)
      /\ Len(Tail(list)) = Len(list) - 1
      /\ \A i \in 1 .. Len(Tail(list)) : Tail(list)[i] = list[i + 1]
  BY HeadTailProperties
<1>2. /\ Len(list) \in Nat \ {0} /\ DOMAIN list = 1..Len(list)
      /\ DOMAIN Tail(list) = 1..(Len(list) - 1)
  BY <1>1, LenProperties, EmptySeq
<1>3. palloc_alloc(list) = list[1] /\ AfterAlloc(list) = Tail(list)
  BY DEF palloc_alloc, AfterAlloc
<1>4. \A i \in 1..(Len(list) - 1) : i + 1 \in 1..Len(list) /\ Tail(list)[i] = list[i + 1]
  BY <1>1, <1>2
<1>5. IsInjective(Tail(list))
  <2> SUFFICES ASSUME NEW i \in 1..(Len(list) - 1), NEW j \in 1..(Len(list) - 1),
                      Tail(list)[i] = Tail(list)[j]
               PROVE  i = j
    BY <1>2 DEF IsInjective
  <2>1. i + 1 = j + 1
    BY <1>2, <1>4 DEF IsInjective
  <2> QED BY <2>1
<1>6. ToSet(Tail(list)) = ToSet(list) \ {list[1]}
  <2>1. ASSUME NEW i \in 1..(Len(list) - 1)
        PROVE  Tail(list)[i] \in ToSet(list) \ {list[1]}
    <3>1. list[i + 1] \in ToSet(list)
      BY <1>2, <1>4 DEF ToSet
    <3>2. list[i + 1] # list[1]
      BY <1>2, <1>4 DEF IsInjective
    <3> QED BY <3>1, <3>2, <1>4
  <2>2. ASSUME NEW i \in 1..Len(list), list[i] # list[1]
        PROVE  list[i] \in ToSet(Tail(list))
    <3>1. i - 1 \in 1..(Len(list) - 1) /\ Tail(list)[i - 1] = list[i]
      BY <2>2, <1>1, <1>2
    <3> QED BY <3>1, <1>2 DEF ToSet
  <2> QED BY <2>1, <2>2, <1>2 DEF ToSet
<1>7. list[1] \in ToSet(list)
  BY <1>2 DEF ToSet
<1> QED BY <1>1, <1>3, <1>5, <1>6, <1>7

(* palloc_free of a page that is not free adds that page and no other. *)
LEMMA FreeFacts ==
  ASSUME NEW S, NEW list \in Seq(S), NEW p \in S, p \notin ToSet(list), p # Null,
         IsInjective(list)
  PROVE  /\ palloc_free(list, p) \in Seq(S)
         /\ Len(palloc_free(list, p)) = Len(list) + 1
         /\ IsInjective(palloc_free(list, p))
         /\ ToSet(palloc_free(list, p)) = ToSet(list) \cup {p}
<1>1. palloc_free(list, p) = <<p>> \o list
  BY DEF palloc_free
<1>2. /\ <<p>> \in Seq(S) /\ Len(<<p>>) = 1
      /\ IsInjective(<<p>>) /\ ToSet(<<p>>) = {p}
  BY DEF IsInjective, ToSet
<1>3. Len(<<p>> \o list) = Len(list) + 1
  BY <1>2, ConcatProperties, LenProperties
<1>4. /\ <<p>> \o list \in Seq(S)
      /\ ToSet(<<p>> \o list) = ToSet(<<p>>) \cup ToSet(list)
      /\ ToSet(<<p>>) \cap ToSet(list) = {} => IsInjective(<<p>> \o list)
  <2>1. PICK t \in Seq(S) : t = <<p>>
    BY <1>2
  <2>2. IsInjective(t)
    BY <1>2, <2>1
  <2>3. /\ t \o list \in Seq(S) /\ ToSet(t \o list) = ToSet(t) \cup ToSet(list)
        /\ ToSet(t) \cap ToSet(list) = {} => IsInjective(t \o list)
    BY <2>2, ConcatFacts
  <2> QED BY <2>1, <2>3, Zenon
<1>5. ToSet(<<p>>) \cap ToSet(list) = {}
  BY <1>2
<1> QED BY <1>1, <1>2, <1>3, <1>4, <1>5

(* palloc_take of a listed page removes that page and no other. *)
LEMMA TakeFacts ==
  ASSUME NEW S, NEW list \in Seq(S), NEW p \in ToSet(list), IsInjective(list)
  PROVE  /\ Listed(list, p)
         /\ palloc_take(list, p) \in Seq(S)
         /\ Len(palloc_take(list, p)) = Len(list) - 1
         /\ IsInjective(palloc_take(list, p))
         /\ ToSet(palloc_take(list, p)) = ToSet(list) \ {p}
<1>1. Len(list) \in Nat /\ DOMAIN list = 1..Len(list)
  BY LenProperties
<1>2. PICK k \in 1..Len(list) : list[k] = p
  BY <1>1 DEF ToSet
<1>3. \A j \in 1..Len(list) : list[j] = p => j = k
  BY <1>1, <1>2 DEF IsInjective
<1>4. k = CHOOSE i \in DOMAIN list :
                /\ list[i] = p
                /\ \A j \in 1..(i - 1) : list[j] # p
  <2>1. \A j \in 1..(k - 1) : list[j] # p
    BY <1>1, <1>2, <1>3
  <2>2. \E i \in DOMAIN list : list[i] = p /\ \A j \in 1..(i - 1) : list[j] # p
    BY <1>1, <1>2, <2>1
  <2> QED BY <1>1, <1>2, <1>3, <2>2
<1>5. Listed(list, p)
  BY <1>1, <1>2 DEF Listed
<1> DEFINE front == SubSeq(list, 1, k - 1)
           back == SubSeq(list, k + 1, Len(list))
<1>6. palloc_take(list, p) = front \o back
  BY <1>4, <1>5 DEF palloc_take, RemoveAt
<1>7. /\ front \in Seq(S) /\ Len(front) = k - 1
      /\ \A i \in 1..(k - 1) : front[i] = list[i]
  <2>1. \A i \in 1..(k - 1) : list[i] \in S
    BY <1>1, ElementOfSeq
  <2> QED BY <2>1, <1>1, SubSeqProperties
<1>8. /\ back \in Seq(S) /\ Len(back) = Len(list) - k
      /\ \A i \in 1..(Len(list) - k) : back[i] = list[k + i]
  <2>1. \A i \in (k + 1)..Len(list) : list[i] \in S
    BY <1>1, ElementOfSeq
  <2>2. k + 1 \in Int /\ Len(list) \in Int
    BY <1>1
  <2>3. /\ back \in Seq(S)
        /\ Len(back) = IF k + 1 <= Len(list) THEN Len(list) - (k + 1) + 1 ELSE 0
        /\ \A i \in 1..(Len(list) - (k + 1) + 1) : back[i] = list[(k + 1) + i - 1]
    BY <2>1, <2>2, SubSeqProperties
  <2>4. Len(back) = Len(list) - k
    <3> DEFINE n == Len(list)
               m == Len(back)
    <3>1. n \in Int /\ k \in Int /\ k <= n
      BY <1>1
    <3>2. m = IF k + 1 <= n THEN n - (k + 1) + 1 ELSE 0
      BY <2>3
    <3>3. m = n - k
      <4> HIDE DEF n, m
      <4> QED BY <3>1, <3>2
    <3> QED BY <3>3
  <2>5. ASSUME NEW i \in 1..(Len(list) - k) PROVE back[i] = list[k + i]
    <3>1. i \in 1..(Len(list) - (k + 1) + 1) /\ (k + 1) + i - 1 = k + i
      BY <1>1
    <3> QED BY <3>1, <2>3
  <2> QED BY <2>3, <2>4, <2>5
<1> HIDE DEF front, back
<1>9. /\ DOMAIN front = 1..(k - 1)
      /\ DOMAIN back = 1..(Len(list) - k)
  BY <1>7, <1>8, LenProperties
<1>10. IsInjective(front)
  BY <1>1, <1>7, <1>9 DEF IsInjective
<1>11. IsInjective(back)
  <2> SUFFICES ASSUME NEW i \in 1..(Len(list) - k), NEW j \in 1..(Len(list) - k),
                      back[i] = back[j]
               PROVE  i = j
    BY <1>9 DEF IsInjective
  <2>1. k + i \in 1..Len(list) /\ k + j \in 1..Len(list) /\ list[k + i] = list[k + j]
    BY <1>1, <1>8
  <2>2. k + i = k + j
    BY <2>1, <1>1 DEF IsInjective
  <2> QED BY <2>2
<1>12. ToSet(front) \cap ToSet(back) = {}
  <2> SUFFICES ASSUME NEW i \in 1..(k - 1), NEW j \in 1..(Len(list) - k),
                      front[i] = back[j]
               PROVE  FALSE
    BY <1>9 DEF ToSet
  <2>1. i \in 1..Len(list) /\ k + j \in 1..Len(list) /\ list[i] = list[k + j]
    BY <1>1, <1>7, <1>8
  <2>2. i = k + j
    BY <2>1, <1>1 DEF IsInjective
  <2> QED BY <2>2
<1>13. ToSet(front) \cup ToSet(back) = ToSet(list) \ {p}
  <2>1. ASSUME NEW i \in 1..(k - 1) PROVE front[i] \in ToSet(list) \ {p}
    <3>1. i \in 1..Len(list) /\ i # k /\ front[i] = list[i]
      BY <1>1, <1>7
    <3> QED BY <3>1, <1>1, <1>3 DEF ToSet
  <2>2. ASSUME NEW i \in 1..(Len(list) - k) PROVE back[i] \in ToSet(list) \ {p}
    <3>1. k + i \in 1..Len(list) /\ k + i # k /\ back[i] = list[k + i]
      BY <1>1, <1>8
    <3> QED BY <3>1, <1>1, <1>3 DEF ToSet
  <2>3. ASSUME NEW i \in 1..Len(list), list[i] # p
        PROVE  list[i] \in ToSet(front) \cup ToSet(back)
    <3>1. CASE i < k
      <4>1. i \in 1..(k - 1) /\ front[i] = list[i]
        BY <3>1, <1>1, <1>7
      <4> QED BY <4>1, <1>9 DEF ToSet
    <3>2. CASE i > k
      <4>1. i - k \in 1..(Len(list) - k) /\ back[i - k] = list[k + (i - k)]
        BY <3>2, <1>1, <1>8
      <4>2. k + (i - k) = i
        OBVIOUS
      <4> QED BY <4>1, <4>2, <1>9 DEF ToSet
    <3> QED BY <3>1, <3>2, <2>3, <1>2
  <2> QED BY <2>1, <2>2, <2>3, <1>1, <1>9 DEF ToSet
<1>14. Len(front \o back) = Len(list) - 1
  <2>1. Len(front \o back) = Len(front) + Len(back)
    BY <1>7, <1>8, ConcatProperties
  <2> QED BY <2>1, <1>1, <1>7, <1>8
<1> QED BY <1>5, <1>6, <1>7, <1>8, <1>10, <1>11, <1>12, <1>13, <1>14, ConcatFacts

(* FreeRangeExcept of pages that are not free adds [b, lo) and [hi, e). *)
LEMMA RangeFacts ==
  ASSUME NEW S, NEW list \in Seq(S), IsInjective(list),
         NEW b \in Int, NEW e \in Int, NEW lo \in Int, NEW hi \in Int,
         lo <= hi,
         b..(lo - 1) \subseteq S, hi..(e - 1) \subseteq S,
         (b..(lo - 1)) \cap ToSet(list) = {}, (hi..(e - 1)) \cap ToSet(list) = {}
  PROVE  /\ FreeRangeExcept(list, b, e, lo, hi) \in Seq(S)
         /\ IsInjective(FreeRangeExcept(list, b, e, lo, hi))
         /\ ToSet(FreeRangeExcept(list, b, e, lo, hi)) =
              ToSet(list) \cup (b..(lo - 1)) \cup (hi..(e - 1))
<1> DEFINE low == Descending(b, lo)
           high == Descending(hi, e)
<1>1. low \in Seq(S) /\ IsInjective(low) /\ ToSet(low) = b..(lo - 1)
  BY DescendingFacts, SeqMonotonic
<1>2. high \in Seq(S) /\ IsInjective(high) /\ ToSet(high) = hi..(e - 1)
  BY DescendingFacts, SeqMonotonic
<1> HIDE DEF low, high
<1>3. /\ low \o list \in Seq(S) /\ IsInjective(low \o list)
      /\ ToSet(low \o list) = ToSet(low) \cup ToSet(list)
  BY <1>1, ConcatFacts
<1>4. high \o low \o list = high \o (low \o list)
  <2>1. high \in Seq(S) /\ low \in Seq(S) /\ list \in Seq(S)
    BY <1>1, <1>2
  <2> QED
    BY ONLY <2>1, ConcatAssociative
<1>5. ToSet(high) \cap ToSet(low \o list) = {}
  BY <1>1, <1>2, <1>3
<1>6. /\ high \o (low \o list) \in Seq(S) /\ IsInjective(high \o (low \o list))
      /\ ToSet(high \o (low \o list)) = ToSet(high) \cup ToSet(low \o list)
  <2> DEFINE rest == low \o list
  <2>1. rest \in Seq(S) /\ IsInjective(rest) /\ ToSet(high) \cap ToSet(rest) = {}
    BY <1>3, <1>5
  <2> HIDE DEF rest
  <2>2. /\ high \o rest \in Seq(S) /\ IsInjective(high \o rest)
        /\ ToSet(high \o rest) = ToSet(high) \cup ToSet(rest)
    BY <1>2, <2>1, ConcatFacts
  <2> QED BY <2>2 DEF rest
<1>7. FreeRangeExcept(list, b, e, lo, hi) = high \o low \o list
  BY DEF FreeRangeExcept, low, high
<1> QED BY <1>1, <1>2, <1>3, <1>4, <1>6, <1>7

(* Whatever the list holds, repetitions included, the operations keep it a *)
(* list over the set of pages S.                                           *)
LEMMA TypedOperations ==
  ASSUME NEW S, NEW list \in Seq(S)
  PROVE  /\ list # <<>> => palloc_alloc(list) \in S /\ AfterAlloc(list) \in Seq(S)
         /\ \A p \in S \cup {Null} : palloc_free(list, p) \in Seq(S)
         /\ \A p : Listed(list, p) => p \in S /\ palloc_take(list, p) \in Seq(S)
<1>1. ASSUME list # <<>> PROVE palloc_alloc(list) \in S /\ AfterAlloc(list) \in Seq(S)
  BY <1>1, HeadTailProperties DEF palloc_alloc, AfterAlloc
<1>2. ASSUME NEW p \in S \cup {Null} PROVE palloc_free(list, p) \in Seq(S)
  <2>1. CASE p = Null
    BY <2>1 DEF palloc_free
  <2>2. CASE p # Null
    <3>1. <<p>> \in Seq(S)
      BY <2>2
    <3> QED BY <2>2, <3>1, ConcatProperties DEF palloc_free
  <2> QED BY <2>1, <2>2
<1>3. ASSUME NEW p, Listed(list, p) PROVE p \in S /\ palloc_take(list, p) \in Seq(S)
  <2>1. p \in S
    BY <1>3, ElementOfSeq, LenProperties DEF Listed
  <2> DEFINE First(i) == list[i] = p /\ \A j \in 1..(i - 1) : list[j] # p
             k == CHOOSE i \in DOMAIN list : First(i)
             front == SubSeq(list, 1, k - 1)
             back == SubSeq(list, k + 1, Len(list))
  <2>2. palloc_take(list, p) = front \o back
    BY <1>3 DEF palloc_take, RemoveAt
  <2>3. \A i \in 1..Len(list) : list[i] \in S
    BY ElementOfSeq
  <2>4. Len(list) \in Nat /\ DOMAIN list = 1..Len(list)
    BY LenProperties
  <2>5. k \in 1..Len(list)
    <3> DEFINE T == {i \in DOMAIN list : list[i] = p}
    <3>1. T \subseteq Nat /\ T # {}
      BY <1>3, <2>4 DEF Listed
    <3>2. PICK x \in T : \A y \in T : ~(<<y, x>> \in OpToRel(<, Nat))
      BY <3>1, NatLessThanWellFounded, WFMin, Zenon
    <3>3. \A y \in T : ~(y < x)
      BY <3>1, <3>2, Zenon DEF OpToRel
    <3>4. \A j \in 1..(x - 1) : list[j] # p
      BY <3>3, <2>4
    <3>5. x \in DOMAIN list /\ First(x)
      BY <3>4
    <3> HIDE DEF First
    <3> QED BY <3>5, <2>4
  <2> HIDE DEF k
  <2>6. front \in Seq(S)
    <3>1. \A i \in 1..(k - 1) : list[i] \in S
      BY <2>3, <2>4, <2>5
    <3>2. 1 \in Int /\ k - 1 \in Int
      BY <2>4, <2>5
    <3> QED BY <3>1, <3>2, SubSeqProperties
  <2>7. back \in Seq(S)
    <3>1. \A i \in (k + 1)..Len(list) : list[i] \in S
      BY <2>3, <2>4, <2>5
    <3>2. k + 1 \in Int /\ Len(list) \in Int
      BY <2>4, <2>5
    <3> QED BY <3>1, <3>2, SubSeqProperties
  <2> QED BY <2>1, <2>2, <2>6, <2>7, ConcatProperties
<1> QED BY <1>1, <1>2, <1>3

(* The same for the loops that free a range of pages. *)
LEMMA TypedRange ==
  ASSUME NEW S, NEW list \in Seq(S),
         NEW b \in Int, NEW e \in Int, NEW lo \in Int, NEW hi \in Int,
         b..(lo - 1) \subseteq S, hi..(e - 1) \subseteq S
  PROVE  FreeRangeExcept(list, b, e, lo, hi) \in Seq(S)
<1>1. Descending(b, lo) \in Seq(S)
  BY DescendingFacts, SeqMonotonic
<1>2. Descending(hi, e) \in Seq(S)
  BY DescendingFacts, SeqMonotonic
<1>3. Descending(hi, e) \o Descending(b, lo) \in Seq(S)
  BY <1>1, <1>2, ConcatProperties
<1> QED BY <1>3, ConcatProperties DEF FreeRangeExcept

(* Max and Min of a set of numbers are what their names say. *)
LEMMA MinFacts ==
  ASSUME NEW T, T \subseteq Nat, T # {}
  PROVE  Min(T) \in T /\ \A y \in T : Min(T) <= y
<1>1. \E x \in T : \A y \in T : x <= y
  BY LeastNumber
<1> QED BY <1>1 DEF Min

LEMMA MaxFacts ==
  ASSUME NEW T, T \subseteq Nat, T # {}, NEW n \in Nat, \A x \in T : x <= n
  PROVE  Max(T) \in T /\ \A y \in T : y <= Max(T)
<1>1. \E x \in T : \A y \in T : x >= y
  <2> DEFINE D == {n - x : x \in T}
  <2>1. D \subseteq Nat /\ D # {}
    <3>1. \A x \in T : n - x \in Nat
      OBVIOUS
    <3>2. PICK x : x \in T
      OBVIOUS
    <3>3. n - x \in D
      BY <3>2
    <3> QED BY <3>1, <3>3
  <2>2. PICK d \in D : \A e \in D : d <= e
    BY <2>1, LeastNumber
  <2>3. PICK x \in T : d = n - x
    OBVIOUS
  <2>4. ASSUME NEW y \in T PROVE x >= y
    <3>1. n - y \in D
      OBVIOUS
    <3>2. n - x <= n - y /\ x \in Nat /\ y \in Nat
      BY <2>2, <2>3, <3>1
    <3> QED BY <3>2
  <2> QED BY <2>4
<1>2. Max(T) \in T /\ \A y \in T : Max(T) >= y
  BY <1>1 DEF Max
<1>3. \A y \in T : y \in Nat /\ Max(T) \in Nat
  BY <1>2
<1> QED BY <1>2, <1>3
=============================================================================
