---------------------------- MODULE PagingProofs ----------------------------
(***************************************************************************)
(* The page tables of kernel/paging.c, for every fan-out of the four       *)
(* levels, every size of memory and every layout: the kernel's map never   *)
(* changes and is found in every address space, user code reaches exactly  *)
(* what was mapped for it, and no table is lost or freed while it is used. *)
(*                                                                         *)
(* The invariant gives every page an owner: the free list, a place in the  *)
(* kernel's tree, or a place on the private path of one user space.  As a  *)
(* page has one owner, tables at different places are different pages, and *)
(* a step that writes to a page changes one tree only.                     *)
(***************************************************************************)
EXTENDS Paging, PageListProofs, FiniteSetTheorems

(* What is left of a virtual page above level n: v and w use the same      *)
(* table of level n if Prefix(v, n) = Prefix(w, n).                        *)
Prefix(v, n) == IF n = 4 THEN 0 ELSE v \div Reach[n + 1]

(* The table of level n on the way from the PML4 r to v, in the memory m,  *)
(* and the entry that the way takes there.  An absent entry leads to the   *)
(* null page, which is empty.                                              *)
T3(m, r, v) == m[r][Index(v, 4)].addr
T2(m, r, v) == m[T3(m, r, v)][Index(v, 3)].addr
T1(m, r, v) == m[T2(m, r, v)][Index(v, 2)].addr
Table(m, r, v, n) == IF n = 4 THEN r ELSE IF n = 3 THEN T3(m, r, v)
                     ELSE IF n = 2 THEN T2(m, r, v) ELSE T1(m, r, v)
Slot(m, r, v, n) == m[Table(m, r, v, n)][Index(v, n)]

Place(r, n, v) == <<r, n, Prefix(v, n)>>
Nowhere == <<Null, 0, 0>>
Entries == [present : BOOLEAN, addr : Nat, user : BOOLEAN]

-----------------------------------------------------------------------------
(* A snapshot X of the machine: the memory, the free list, the owner of    *)
(* each page, the kernel's PML4, the prefixes that have a kernel table of  *)
(* level n (n = 0: the pages that are mapped), and for each user space the *)
(* lowest level that is private, and what is mapped there.                 *)

MemoryShape(X) ==
    /\ Null \in DOMAIN X.mem /\ DOMAIN X.mem \subseteq Nat
    /\ X.mem \in [DOMAIN X.mem -> [Indices -> Entries]]
    /\ X.mem[Null] = ZeroPage
    /\ \A p \in DOMAIN X.mem, i \in Indices : X.mem[p][i].present \/ X.mem[p][i] = Absent
    /\ X.own \in [DOMAIN X.mem -> Nat \X Nat \X Nat]
    /\ X.own[Null] = Nowhere

ListShape(X) ==
    /\ X.list \in Seq(DOMAIN X.mem \ {Null}) /\ IsInjective(X.list)
    /\ \A p \in DOMAIN X.mem \ {Null} : p \in ToSet(X.list) <=> X.own[p] = Nowhere

(* A present entry of the kernel's tree leads to the table of its place;   *)
(* the last level is the identity.                                         *)
KernelNode(X, v, n) ==
    IF Prefix(v, n) \in X.ready[n]
    THEN /\ Table(X.mem, X.root, v, n) \in DOMAIN X.mem \ {Null}
         /\ X.own[Table(X.mem, X.root, v, n)] = Place(X.root, n, v)
         /\ Slot(X.mem, X.root, v, n + 1) = Entry(Table(X.mem, X.root, v, n), FALSE)
    ELSE Slot(X.mem, X.root, v, n + 1) = Absent

KernelTree(X) ==
    /\ X.root \in DOMAIN X.mem \ {Null} /\ X.own[X.root] = Place(X.root, 4, 0)
    /\ \A v \in VirtualPages, n \in 1..3 : KernelNode(X, v, n)
    /\ \A v \in VirtualPages :
          Slot(X.mem, X.root, v, 1) = IF v \in X.ready[0] THEN Entry(v, FALSE) ELSE Absent
    /\ \A v \in VirtualPages, n \in 0..2 :
          Prefix(v, n) \in X.ready[n] => Prefix(v, n + 1) \in X.ready[n + 1]

(* A private table of a user space holds what the kernel's table at its    *)
(* place holds, but for the way to the next private table and the pages    *)
(* that are mapped.                                                        *)
Covered(X, s) == {Index(w, 1) : w \in DOMAIN X.mapped[s]}
UserNode(X, s, n) ==
    LET p == Table(X.mem, s, Trampoline, n)
    IN  /\ p \in DOMAIN X.mem \ {Null} /\ X.own[p] = Place(s, n, Trampoline)
        /\ n > X.depth[s] =>
              X.mem[p][Index(Trampoline, n)] = Entry(Table(X.mem, s, Trampoline, n - 1), TRUE)
        /\ \A i \in Indices :
              \/ n > X.depth[s] /\ i = Index(Trampoline, n)
              \/ n = 1 /\ i \in Covered(X, s)
              \/ X.mem[p][i] = X.mem[Table(X.mem, X.root, Trampoline, n)][i]
        /\ n = 1 => \A w \in DOMAIN X.mapped[s] : X.mem[p][Index(w, 1)] = Entry(X.mapped[s][w], TRUE)

UserTree(X, s) ==
    /\ s # X.root /\ s # Null /\ X.depth[s] \in Levels
    /\ DOMAIN X.mapped[s] \subseteq Layout
    /\ X.depth[s] > 1 => DOMAIN X.mapped[s] = {}
    /\ \A n \in X.depth[s]..4 : UserNode(X, s, n)

(* No page is forgotten: the owner of a page has it in its tree. *)
Held(X, p) ==
    LET r == X.own[p][1]
        n == X.own[p][2]
    IN  \/ r = X.root /\ n \in Levels
           /\ \E v \in VirtualPages : p = Table(X.mem, X.root, v, n) /\ X.own[p] = Place(r, n, v)
        \/ /\ r \in DOMAIN X.depth /\ n \in X.depth[r]..4
           /\ p = Table(X.mem, r, Trampoline, n)

(* The entries past the fan-out of a level are not used. *)
Bounded(X, p) == \A i \in Indices : i >= Fan[X.own[p][2]] => X.mem[p][i] = Absent

Shape(X) ==
    /\ MemoryShape(X) /\ ListShape(X) /\ KernelTree(X)
    /\ \A s \in DOMAIN X.depth : UserTree(X, s)
    /\ \A p \in DOMAIN X.mem \ {Null} : X.own[p] # Nowhere => Held(X, p) /\ Bounded(X, p)

-----------------------------------------------------------------------------
(* The invariant *)

Snapshot(own) ==
    [mem |-> mem, list |-> list, own |-> own, root |-> kernel,
     ready |-> [n \in 0..3 |-> {Prefix(w, n) : w \in 0..(address - 1)}],
     depth |-> [s \in Spaces |-> IF DOMAIN mapped[s] = {} THEN 4 ELSE 1],
     mapped |-> mapped]

Control ==
    /\ limit \in Nat \ {0} /\ limit - 1 \in VirtualPages
    /\ pc = "init" => address < limit /\ Spaces = {}
    /\ pc = "init" /\ kernel = Null =>
          /\ address = 0 /\ IsInjective(list) /\ ToSet(list) = Pages \ {Null} /\ Pages \subseteq Nat
          /\ mem = [p \in Pages |-> ZeroPage]
    /\ pc = "running" => address = limit /\ kernel # Null

Started == pc # "halted" /\ kernel # Null
PInv == TypeOK /\ Control /\ (Started => \E own : Shape(Snapshot(own)))

-----------------------------------------------------------------------------
(* Indices and prefixes *)

LEMMA Division ==
  ASSUME NEW a \in Nat, NEW b \in Nat, b > 0
  PROVE  a = b * (a \div b) + (a % b) /\ a \div b \in Nat /\ a % b \in 0..(b - 1)
<1>1. a = b * (a \div b) + (a % b)
  OBVIOUS
<1>2. a \div b \in Nat
  OBVIOUS
<1>3. a % b \in 0..(b - 1)
  OBVIOUS
<1> QED BY <1>1, <1>2, <1>3, Zenon

LEMMA DivisionUnique ==
  ASSUME NEW d \in Nat, d > 0, NEW q \in Nat, NEW r \in Nat, r < d
  PROVE  (d * q + r) \div d = q /\ (d * q + r) % d = r
<1>1. PICK a : a = d * q + r
  OBVIOUS
<1>2. a \in Nat
  BY <1>1
<1>3. PICK x, y : x = a \div d /\ y = a % d
  OBVIOUS
<1>4. x \in Nat /\ y \in Nat /\ y < d /\ a = d * x + y
  BY <1>2, <1>3
<1>5. q < x => d * (q + 1) <= d * x
  BY <1>4
<1>6. x < q => d * (x + 1) <= d * q
  BY <1>4
<1>7. d * (q + 1) = d * q + d /\ d * (x + 1) = d * x + d
  BY <1>4
<1>8. d * q \in Nat /\ d * x \in Nat
  BY <1>4
<1>9. ~(q < x) /\ ~(x < q)
  BY <1>1, <1>4, <1>5, <1>6, <1>7, <1>8
<1>10. q = x
  BY <1>4, <1>9
<1>11. y = r
  BY <1>1, <1>4, <1>8, <1>10
<1> QED BY <1>1, <1>3, <1>10, <1>11

LEMMA NestedDivision ==
  ASSUME NEW a \in Nat, NEW b \in Nat, b > 0, NEW c \in Nat, c > 0
  PROVE  b * c \in Nat /\ b * c > 0 /\ a \div (b * c) = (a \div b) \div c
<1>1. PICK x, r : x = a \div b /\ r = a % b
  OBVIOUS
<1>2. x \in Nat /\ r \in Nat /\ r < b /\ a = b * x + r
  BY <1>1
<1>3. PICK y, s : y = x \div c /\ s = x % c
  OBVIOUS
<1>4. y \in Nat /\ s \in Nat /\ s <= c - 1 /\ x = c * y + s
  BY <1>2, <1>3
<1>5. b * c \in Nat /\ b * c > 0
  OBVIOUS
<1>6. b * x = (b * c) * y + b * s
  BY <1>2, <1>4
<1>7. b * s <= b * (c - 1) /\ b * (c - 1) = b * c - b
  BY <1>4
<1>8. PICK u, z : u = b * s + r /\ z = b * c
  OBVIOUS
<1>9. b * s \in Nat
  BY <1>4
<1>10. u \in Nat /\ u < z /\ z \in Nat /\ z > 0
  BY <1>2, <1>5, <1>7, <1>8, <1>9
<1>11. a = z * y + u
  BY <1>2, <1>4, <1>6, <1>8, <1>9
<1>12. a \div z = y
  BY <1>4, <1>10, <1>11, DivisionUnique
<1> QED BY <1>1, <1>3, <1>5, <1>8, <1>12

LEMMA FanFacts ==
  /\ \A n \in Levels : Fan[n] \in Nat /\ Fan[n] > 0
  /\ \A n \in Levels : Reach[n] \in Nat /\ Reach[n] > 0
  /\ Reach[1] = 1
  /\ \A n \in 1..3 : Reach[n + 1] = Reach[n] * Fan[n]
<1>1. /\ Fan[1] \in Nat /\ Fan[1] > 0 /\ Fan[2] \in Nat /\ Fan[2] > 0
      /\ Fan[3] \in Nat /\ Fan[3] > 0 /\ Fan[4] \in Nat /\ Fan[4] > 0
  BY PagingAssumption DEF Levels
<1>2. PICK a, b, c : a = Fan[1] /\ b = Fan[2] /\ c = Fan[3]
  OBVIOUS
<1>3. Reach[1] = 1 /\ Reach[2] = a /\ Reach[3] = a * b /\ Reach[4] = a * b * c
  BY <1>2 DEF Reach, Levels
<1>4. a * b \in Nat /\ a * b > 0
  BY <1>1, <1>2
<1>5. a * b * c \in Nat /\ a * b * c > 0
  <2>1. PICK e : e = a * b
    OBVIOUS
  <2>2. e * c \in Nat /\ e * c > 0
    BY <1>1, <1>2, <1>4, <2>1
  <2> QED BY <2>1, <2>2
<1>6. Reach[2] = Reach[1] * Fan[1]
  BY <1>1, <1>2, <1>3
<1>7. \A n \in 1..3 : n = 1 \/ n = 2 \/ n = 3
  OBVIOUS
<1>8. \A n \in 1..4 : n = 1 \/ n = 2 \/ n = 3 \/ n = 4
  OBVIOUS
<1>9. \A n \in Levels : Fan[n] \in Nat /\ Fan[n] > 0
  BY PagingAssumption
<1>10. \A n \in Levels : Reach[n] \in Nat /\ Reach[n] > 0
  BY <1>1, <1>2, <1>3, <1>4, <1>5, <1>8 DEF Levels
<1>11. \A n \in 1..3 : Reach[n + 1] = Reach[n] * Fan[n]
  BY <1>2, <1>3, <1>6, <1>7
<1> QED BY <1>3, <1>9, <1>10, <1>11

(* The prefixes of a page are found by dividing by one fan-out after the   *)
(* other, and the indices are the remainders.                              *)
LEMMA PrefixFacts ==
  ASSUME NEW v \in Nat
  PROVE  /\ \A n \in 0..4 : Prefix(v, n) \in Nat
         /\ Prefix(v, 0) = v /\ Prefix(v, 4) = 0
         /\ \A n \in 1..3 : Prefix(v, n) = Prefix(v, n - 1) \div Fan[n]
         /\ \A n \in Levels : Index(v, n) = Prefix(v, n - 1) % Fan[n]
         /\ v \in VirtualPages <=> Prefix(v, 3) < Fan[4]
<1>1. \A n \in Levels : v \div Reach[n] \in Nat
  BY FanFacts
<1>2. \A n \in 0..3 : n + 1 \in Levels /\ Prefix(v, n) = v \div Reach[n + 1]
  BY DEF Prefix, Levels
<1>3. Prefix(v, 4) = 0
  BY DEF Prefix
<1>4. \A n \in 0..4 : Prefix(v, n) \in Nat
  <2>1. \A n \in 0..4 : n = 4 \/ n \in 0..3
    OBVIOUS
  <2> QED BY <1>1, <1>2, <1>3, <2>1
<1>5. Prefix(v, 0) = v
  <2>1. v \div 1 = v
    OBVIOUS
  <2> QED BY <1>2, <2>1, FanFacts
<1>6. ASSUME NEW n \in 1..3 PROVE Prefix(v, n) = Prefix(v, n - 1) \div Fan[n]
  <2>1. n - 1 \in 0..3 /\ (n - 1) + 1 = n /\ n \in 0..3 /\ n \in Levels
    BY DEF Levels
  <2>2. PICK r, f : r = Reach[n] /\ f = Fan[n]
    OBVIOUS
  <2>3. r \in Nat /\ r > 0 /\ f \in Nat /\ f > 0 /\ Reach[n + 1] = r * f
    BY <2>1, <2>2, FanFacts
  <2>4. v \div (r * f) = (v \div r) \div f
    BY <2>3, NestedDivision
  <2>5. Prefix(v, n - 1) = v \div r
    BY <1>2, <2>1, <2>2
  <2>6. Prefix(v, n) = v \div (r * f)
    BY <1>2, <2>1, <2>3
  <2> QED BY <2>2, <2>4, <2>5, <2>6
<1>7. ASSUME NEW n \in Levels PROVE Index(v, n) = Prefix(v, n - 1) % Fan[n]
  <2>1. n - 1 \in 0..3 /\ (n - 1) + 1 = n
    BY DEF Levels
  <2> QED BY <1>2, <2>1 DEF Index
<1>8. v \in VirtualPages <=> Prefix(v, 3) < Fan[4]
  <2>1. PICK r, f : r = Reach[4] /\ f = Fan[4]
    OBVIOUS
  <2>2. r \in Nat /\ r > 0 /\ f \in Nat /\ f > 0
    BY <2>1, FanFacts DEF Levels
  <2>3. PICK q, x : q = v \div r /\ x = v % r
    OBVIOUS
  <2>4. q \in Nat /\ x \in Nat /\ x < r /\ v = r * q + x
    BY <2>2, <2>3
  <2>5. r * f \in Nat /\ r * q \in Nat
    BY <2>2, <2>4
  <2>6. v \in VirtualPages <=> v < r * f
    BY <2>1, <2>5 DEF VirtualPages
  <2>7. q < f => r * (q + 1) <= r * f
    BY <2>2, <2>4
  <2>8. f <= q => r * f <= r * q
    BY <2>2, <2>4
  <2>9. r * (q + 1) = r * q + r
    BY <2>2, <2>4
  <2>10. v < r * f <=> q < f
    BY <2>2, <2>4, <2>5, <2>7, <2>8, <2>9
  <2>11. Prefix(v, 3) = q
    BY <1>2, <2>1, <2>3
  <2> QED BY <2>1, <2>6, <2>10, <2>11
<1> QED BY <1>3, <1>4, <1>5, <1>6, <1>7, <1>8

(* A prefix and the index below it make the next prefix, and only that. *)
LEMMA IndexFacts ==
  ASSUME NEW v \in VirtualPages, NEW n \in Levels
  PROVE  /\ v \in Nat /\ Index(v, n) \in 0..(Fan[n] - 1)
         /\ Prefix(v, n) \in Nat /\ Prefix(v, n - 1) \in Nat
         /\ Prefix(v, n - 1) = Fan[n] * Prefix(v, n) + Index(v, n)
<1>1. v \in Nat
  BY FanFacts DEF VirtualPages
<1>2. PICK q, f : q = Prefix(v, n - 1) /\ f = Fan[n]
  OBVIOUS
<1>3. n - 1 \in 0..4 /\ n \in 0..4
  BY DEF Levels
<1>4. q \in Nat /\ Prefix(v, n) \in Nat /\ f \in Nat /\ f > 0
  BY <1>1, <1>2, <1>3, PrefixFacts, FanFacts
<1>5. Index(v, n) = q % f
  BY <1>1, <1>2, PrefixFacts
<1>6. q = f * (q \div f) + (q % f) /\ q % f \in 0..(f - 1)
  BY <1>4, Division
<1>7. Prefix(v, n) = q \div f
  <2>1. CASE n \in 1..3
    BY <1>1, <1>2, <2>1, PrefixFacts
  <2>2. CASE n = 4
    <3>1. Prefix(v, 3) < Fan[4] /\ n - 1 = 3
      BY <1>1, <2>2, PrefixFacts
    <3>2. q < f
      BY <1>2, <2>2, <3>1
    <3>3. PICK z : z = f * 0 + q
      OBVIOUS
    <3>4. z = q /\ 0 \in Nat
      BY <1>4, <3>3
    <3>5. z \div f = 0
      BY <1>4, <3>2, <3>3, <3>4, DivisionUnique, Zenon
    <3>6. q \div f = 0
      BY <3>4, <3>5
    <3> QED BY <1>1, <2>2, <3>6, PrefixFacts
  <2> QED BY <2>1, <2>2 DEF Levels
<1>8. q = f * Prefix(v, n) + Index(v, n) /\ Index(v, n) \in 0..(f - 1)
  <2>1. PICK a, b : a = q \div f /\ b = q % f
    OBVIOUS
  <2>2. q = f * a + b /\ b \in 0..(f - 1)
    BY <1>6, <2>1, Zenon
  <2>3. Prefix(v, n) = a /\ Index(v, n) = b
    BY <1>5, <1>7, <2>1, Zenon
  <2> QED BY <2>2, <2>3, Zenon
<1>9. v \in Nat /\ Prefix(v, n) \in Nat /\ q \in Nat
  BY <1>1, <1>4
<1> QED BY <1>2, <1>8, <1>9, Zenon

LEMMA SamePrefix ==
  ASSUME NEW v \in VirtualPages, NEW w \in VirtualPages, NEW n \in Levels
  PROVE  Prefix(v, n - 1) = Prefix(w, n - 1)
           <=> Prefix(v, n) = Prefix(w, n) /\ Index(v, n) = Index(w, n)
<1>1. PICK f, a, b, i, j : /\ f = Fan[n] /\ a = Prefix(v, n) /\ b = Prefix(w, n)
                           /\ i = Index(v, n) /\ j = Index(w, n)
  OBVIOUS
<1>2. f \in Nat /\ f > 0
  BY <1>1, FanFacts
<1>3. a \in Nat /\ b \in Nat /\ i \in 0..(f - 1) /\ j \in 0..(f - 1)
  BY <1>1, IndexFacts
<1>4. Prefix(v, n - 1) = f * a + i /\ Prefix(w, n - 1) = f * b + j
  BY <1>1, IndexFacts
<1>5. i \in Nat /\ i < f /\ j \in Nat /\ j < f
  BY <1>2, <1>3
<1>6. (f * a + i) \div f = a /\ (f * a + i) % f = i
  BY <1>2, <1>3, <1>5, DivisionUnique
<1>7. (f * b + j) \div f = b /\ (f * b + j) % f = j
  BY <1>2, <1>3, <1>5, DivisionUnique
<1>8. f * a + i = f * b + j <=> a = b /\ i = j
  BY <1>6, <1>7, Zenon
<1> QED BY <1>1, <1>4, <1>8, Zenon

(* Pages with the same prefix have the same prefixes above. *)
LEMMA PrefixUp ==
  ASSUME NEW v \in VirtualPages, NEW w \in VirtualPages,
         NEW n \in 0..4, Prefix(v, n) = Prefix(w, n), NEW k \in n..4
  PROVE  Prefix(v, k) = Prefix(w, k) /\ (k > n => Index(v, k) = Index(w, k))
<1>1. \A l \in Levels : Prefix(v, l - 1) = Prefix(w, l - 1)
                          <=> Prefix(v, l) = Prefix(w, l) /\ Index(v, l) = Index(w, l)
  BY SamePrefix
<1>2. /\ 1 \in Levels /\ 2 \in Levels /\ 3 \in Levels /\ 4 \in Levels
      /\ 1 - 1 = 0 /\ 2 - 1 = 1 /\ 3 - 1 = 2 /\ 4 - 1 = 3
  BY DEF Levels
<1>3. /\ Prefix(v, 0) = Prefix(w, 0) => Prefix(v, 1) = Prefix(w, 1) /\ Index(v, 1) = Index(w, 1)
      /\ Prefix(v, 1) = Prefix(w, 1) => Prefix(v, 2) = Prefix(w, 2) /\ Index(v, 2) = Index(w, 2)
      /\ Prefix(v, 2) = Prefix(w, 2) => Prefix(v, 3) = Prefix(w, 3) /\ Index(v, 3) = Index(w, 3)
      /\ Prefix(v, 3) = Prefix(w, 3) => Prefix(v, 4) = Prefix(w, 4) /\ Index(v, 4) = Index(w, 4)
  BY <1>1, <1>2
<1>4. /\ n = 0 \/ n = 1 \/ n = 2 \/ n = 3 \/ n = 4
      /\ k = 0 \/ k = 1 \/ k = 2 \/ k = 3 \/ k = 4
      /\ n <= k
  OBVIOUS
<1> QED BY <1>3, <1>4

(* Every index of a table belongs to a virtual page. *)
LEMMA PageAtIndex ==
  ASSUME NEW v \in VirtualPages, NEW n \in Levels, NEW i \in 0..(Fan[n] - 1)
  PROVE  \E w \in VirtualPages : Prefix(w, n) = Prefix(v, n) /\ Index(w, n) = i
<1>1. PICK f, r, a : f = Fan[n] /\ r = Reach[n] /\ a = Prefix(v, n)
  OBVIOUS
<1>2. f \in Nat /\ f > 0 /\ r \in Nat /\ r > 0 /\ a \in Nat /\ v \in Nat /\ i \in Nat /\ i < f
  BY <1>1, FanFacts, IndexFacts
<1>3. PICK q : q = f * a + i
  OBVIOUS
<1>4. q \in Nat /\ q \div f = a /\ q % f = i
  BY <1>2, <1>3, DivisionUnique
<1>5. PICK w : w = r * q + 0
  OBVIOUS
<1>6. w \in Nat
  BY <1>2, <1>4, <1>5
<1>7. w \div r = q
  BY <1>2, <1>4, <1>5, DivisionUnique
<1>8. n - 1 \in 0..3 /\ (n - 1) + 1 = n
  BY DEF Levels
<1>9. Prefix(w, n - 1) = q
  BY <1>1, <1>7, <1>8 DEF Prefix
<1>10. Index(w, n) = i
  BY <1>1, <1>4, <1>6, <1>9, PrefixFacts
<1>11. CASE n = 4
  <2>1. Prefix(w, 4) = 0 /\ Prefix(v, 4) = 0
    BY <1>2, <1>6, PrefixFacts
  <2>2. a = 0 /\ q = i
    BY <1>1, <1>2, <1>3, <1>11, <2>1
  <2>3. Prefix(w, 3) < Fan[4]
    BY <1>1, <1>2, <1>9, <1>11, <2>2
  <2> QED BY <1>6, <1>10, <1>11, <2>1, <2>3, PrefixFacts
<1>12. CASE n \in 1..3
  <2>1. Prefix(w, n) = Prefix(v, n)
    BY <1>1, <1>4, <1>6, <1>9, <1>12, PrefixFacts
  <2>2. /\ Prefix(w, 2) = Prefix(w, 1) \div Fan[2] /\ Prefix(v, 2) = Prefix(v, 1) \div Fan[2]
        /\ Prefix(w, 3) = Prefix(w, 2) \div Fan[3] /\ Prefix(v, 3) = Prefix(v, 2) \div Fan[3]
    <3>1. 2 \in 1..3 /\ 3 \in 1..3 /\ 2 - 1 = 1 /\ 3 - 1 = 2
      OBVIOUS
    <3> QED BY <1>2, <1>6, <3>1, PrefixFacts
  <2>3. n = 1 \/ n = 2 \/ n = 3
    BY <1>12
  <2>4. Prefix(w, 3) = Prefix(v, 3)
    <3>1. CASE n = 1
      BY <2>1, <2>2, <3>1, Zenon
    <3>2. CASE n = 2
      BY <2>1, <2>2, <3>2, Zenon
    <3>3. CASE n = 3
      BY <2>1, <3>3
    <3> QED BY <2>3, <3>1, <3>2, <3>3
  <2>5. w \in VirtualPages
    BY <1>2, <1>6, <2>4, PrefixFacts
  <2> QED BY <1>10, <2>1, <2>5
<1> QED BY <1>11, <1>12 DEF Levels

LEMMA IndicesFacts ==
  /\ 0 \in Indices /\ Indices \subseteq Nat
  /\ \A n \in Levels : 0..(Fan[n] - 1) \subseteq Indices
<1>1. PICK a, b, c, d : a = Fan[1] /\ b = Fan[2] /\ c = Fan[3] /\ d = Fan[4]
  OBVIOUS
<1>2. /\ a \in Nat /\ a > 0 /\ b \in Nat /\ b > 0 /\ c \in Nat /\ c > 0 /\ d \in Nat /\ d > 0
  BY <1>1, FanFacts DEF Levels
<1>3. {Fan[n] : n \in Levels} = {a, b, c, d}
  BY <1>1 DEF Levels
<1>4. \A f : (\A n \in Levels : Fan[n] <= f) <=> a <= f /\ b <= f /\ c <= f /\ d <= f
  BY <1>1 DEF Levels
<1>5. \E f \in {a, b, c, d} : a <= f /\ b <= f /\ c <= f /\ d <= f
  BY <1>2
<1>6. PICK f : f = CHOOSE g \in {Fan[n] : n \in Levels} : \A n \in Levels : Fan[n] <= g
  OBVIOUS
<1>7. f \in {a, b, c, d} /\ \A n \in Levels : Fan[n] <= f
  BY <1>3, <1>4, <1>5, <1>6
<1>8. f \in Nat /\ f > 0 /\ Indices = 0..(f - 1)
  BY <1>2, <1>6, <1>7 DEF Indices
<1> QED BY <1>7, <1>8, FanFacts

(* The layout lies below one page table. *)
LEMMA LayoutFacts ==
  /\ Trampoline \in Layout /\ Trampoline \in VirtualPages /\ Layout \subseteq VirtualPages
  /\ \A v \in Layout, n \in Levels : Prefix(v, n) = Prefix(Trampoline, n)
  /\ \A v \in Layout, n \in 2..4 : Index(v, n) = Index(Trampoline, n)
  /\ \A v, w \in Layout : Index(v, 1) = Index(w, 1) => v = w
  /\ 0 \in VirtualPages /\ Prefix(Trampoline, 3) = Prefix(0, 3)
<1>1. /\ Layout \subseteq VirtualPages /\ Layout # {}
      /\ \A v \in Layout, n \in 2..4 : Index(v, n) = Index(Trampoline, n)
      /\ Index(Trampoline, 4) = 0
  BY PagingAssumption
<1>2. VirtualPages \subseteq Nat
  <2>1. 1 \in Levels
    BY DEF Levels
  <2> QED BY <2>1, IndexFacts
<1>3. \E v \in Layout : \A w \in Layout : v <= w
  BY <1>1, <1>2, LeastNumber
<1>4. Trampoline \in Layout
  BY <1>3 DEF Trampoline
<1>5. \A v \in VirtualPages : v \in Nat /\ Prefix(v, 4) = 0
  BY <1>2, PrefixFacts
<1>6. ASSUME NEW v \in Layout, NEW n \in Levels PROVE Prefix(v, n) = Prefix(Trampoline, n)
  <2>1. v \in VirtualPages /\ Trampoline \in VirtualPages
    BY <1>1, <1>4
  <2>2. \A l \in Levels : Prefix(v, l - 1) = Prefix(Trampoline, l - 1)
          <=> Prefix(v, l) = Prefix(Trampoline, l) /\ Index(v, l) = Index(Trampoline, l)
    BY <2>1, SamePrefix
  <2>3. /\ 2 \in Levels /\ 3 \in Levels /\ 4 \in Levels /\ 2 \in 2..4 /\ 3 \in 2..4 /\ 4 \in 2..4
        /\ 2 - 1 = 1 /\ 3 - 1 = 2 /\ 4 - 1 = 3
    BY DEF Levels
  <2>4. Prefix(v, 4) = Prefix(Trampoline, 4)
    BY <1>5, <2>1
  <2>5. Prefix(v, 3) = Prefix(Trampoline, 3)
    BY <1>1, <2>2, <2>3, <2>4
  <2>6. Prefix(v, 2) = Prefix(Trampoline, 2)
    BY <1>1, <2>2, <2>3, <2>5
  <2>7. Prefix(v, 1) = Prefix(Trampoline, 1)
    BY <1>1, <2>2, <2>3, <2>6
  <2> QED BY <2>4, <2>5, <2>6, <2>7 DEF Levels
<1>7. ASSUME NEW v \in Layout, NEW w \in Layout, Index(v, 1) = Index(w, 1) PROVE v = w
  <2>1. v \in VirtualPages /\ w \in VirtualPages /\ v \in Nat /\ w \in Nat /\ 1 \in Levels /\ 1 - 1 = 0
    BY <1>1, <1>2 DEF Levels
  <2>2. Prefix(v, 1) = Prefix(w, 1)
    BY <1>6, <2>1
  <2>3. Prefix(v, 1 - 1) = Prefix(w, 1 - 1)
    BY <1>7, <2>1, <2>2, SamePrefix
  <2> QED BY <2>1, <2>3, PrefixFacts
<1>8. 0 \in VirtualPages
  <2>1. PICK n : n = Reach[4] * Fan[4]
    OBVIOUS
  <2>2. n \in Nat /\ VirtualPages = 0..(n - 1)
    <3>1. Reach[4] \in Nat /\ Fan[4] \in Nat
      BY FanFacts DEF Levels
    <3> QED BY <2>1, <3>1 DEF VirtualPages
  <2>3. Trampoline \in 0..(n - 1)
    BY <1>1, <1>4, <2>2
  <2> QED BY <2>2, <2>3
<1>9. Prefix(Trampoline, 3) = Prefix(0, 3)
  <2>1. Trampoline \in VirtualPages /\ 4 \in Levels /\ 4 - 1 = 3
    BY <1>1, <1>4 DEF Levels
  <2>2. Prefix(0, 0) = 0 /\ Index(0, 4) = 0
    <3>1. Reach[4] \in Nat /\ Reach[4] > 0 /\ Fan[4] \in Nat /\ Fan[4] > 0
      BY <2>1, FanFacts
    <3>2. 0 \div Reach[4] = 0
      BY <3>1
    <3>3. 0 % Fan[4] = 0
      BY <3>1
    <3> QED BY <3>2, <3>3, PrefixFacts DEF Index
  <2>3. Prefix(0, 4) = Prefix(Trampoline, 4)
    BY <1>5, <1>8, <2>1
  <2> QED BY <1>1, <1>8, <2>1, <2>2, <2>3, SamePrefix
<1> QED BY <1>1, <1>4, <1>6, <1>7, <1>8, <1>9

-----------------------------------------------------------------------------
(* The ways through the tables *)

LEMMA LevelCases ==
  /\ \A n \in Levels : n = 1 \/ n = 2 \/ n = 3 \/ n = 4
  /\ \A n \in 1..3 : n = 1 \/ n = 2 \/ n = 3
  /\ \A n \in 2..4 : n = 2 \/ n = 3 \/ n = 4
  /\ 1 \in Levels /\ 2 \in Levels /\ 3 \in Levels /\ 4 \in Levels
  /\ 1..3 \subseteq Levels /\ 2..4 \subseteq Levels
  /\ \A n \in 1..3 : n + 1 \in 2..4 /\ n + 1 \in Levels /\ n + 1 - 1 = n
  /\ \A n \in 2..4 : n - 1 \in 1..3 /\ n - 1 \in Levels /\ n - 1 + 1 = n
BY DEF Levels

LEMMA TableDown ==
  ASSUME NEW m, NEW r, NEW v
  PROVE  /\ Table(m, r, v, 4) = r
         /\ \A n \in 2..4 : Table(m, r, v, n - 1) = Slot(m, r, v, n).addr
         /\ \A n \in 1..3 : Table(m, r, v, n) = Slot(m, r, v, n + 1).addr
<1>1. Table(m, r, v, 4) = r
  BY DEF Table
<1>2. Table(m, r, v, 3) = Slot(m, r, v, 4).addr
  BY DEF Table, Slot, T3
<1>3. Table(m, r, v, 2) = Slot(m, r, v, 3).addr
  BY DEF Table, Slot, T2
<1>4. Table(m, r, v, 1) = Slot(m, r, v, 2).addr
  BY DEF Table, Slot, T1
<1>5. 4 - 1 = 3 /\ 3 - 1 = 2 /\ 2 - 1 = 1 /\ 1 + 1 = 2 /\ 2 + 1 = 3 /\ 3 + 1 = 4
  OBVIOUS
<1>6. \A n \in 2..4 : Table(m, r, v, n - 1) = Slot(m, r, v, n).addr
  BY <1>2, <1>3, <1>4, <1>5, LevelCases
<1>7. \A n \in 1..3 : Table(m, r, v, n) = Slot(m, r, v, n + 1).addr
  BY <1>2, <1>3, <1>4, <1>5, LevelCases
<1> QED BY <1>1, <1>6, <1>7

(* The table depends on the prefix only. *)
LEMMA TableSame ==
  ASSUME NEW m, NEW r, NEW v \in VirtualPages, NEW w \in VirtualPages, NEW n \in Levels,
         Prefix(v, n) = Prefix(w, n)
  PROVE  Table(m, r, v, n) = Table(m, r, w, n)
<1>1. n \in 0..4
  BY DEF Levels
<1>2. \A k \in n..4 : k > n => Index(v, k) = Index(w, k)
  BY <1>1, PrefixUp
<1>3. CASE n = 4
  BY <1>3 DEF Table
<1>4. CASE n = 3
  <2>1. 4 \in n..4 /\ 4 > n
    BY <1>4
  <2> QED BY <1>2, <1>4, <2>1 DEF Table, T3
<1>5. CASE n = 2
  <2>1. 4 \in n..4 /\ 4 > n /\ 3 \in n..4 /\ 3 > n
    BY <1>5
  <2> QED BY <1>2, <1>5, <2>1 DEF Table, T3, T2
<1>6. CASE n = 1
  <2>1. 4 \in n..4 /\ 4 > n /\ 3 \in n..4 /\ 3 > n /\ 2 \in n..4 /\ 2 > n
    BY <1>6
  <2> QED BY <1>2, <1>6, <2>1 DEF Table, T3, T2, T1
<1> QED BY <1>3, <1>4, <1>5, <1>6, LevelCases

(* Memories that agree on the entries above a level lead to the same table. *)
LEMMA TableFrame ==
  ASSUME NEW m, NEW mm, NEW r, NEW v, NEW k \in Levels,
         \A n \in Levels : n > k => mm[Table(m, r, v, n)][Index(v, n)] = Slot(m, r, v, n)
  PROVE  \A n \in k..4 : Table(mm, r, v, n) = Table(m, r, v, n)
<1>1. Table(mm, r, v, 4) = r /\ Table(m, r, v, 4) = r
  BY TableDown
<1>2. /\ 3 \in 1..3 /\ 4 - 1 = 3 /\ 3 - 1 = 2 /\ 2 - 1 = 1
      /\ 4 \in 2..4 /\ 3 \in 2..4 /\ 2 \in 2..4
  OBVIOUS
<1>3. ASSUME NEW n \in 2..4, n > k, Table(mm, r, v, n) = Table(m, r, v, n)
      PROVE  Table(mm, r, v, n - 1) = Table(m, r, v, n - 1)
  <2>1. n \in Levels
    BY LevelCases
  <2>2. Slot(mm, r, v, n) = Slot(m, r, v, n)
    BY <1>3, <2>1 DEF Slot
  <2> QED BY <2>2, TableDown
<1>4. k <= 3 => Table(mm, r, v, 3) = Table(m, r, v, 3)
  BY <1>1, <1>2, <1>3, LevelCases
<1>5. k <= 2 => Table(mm, r, v, 2) = Table(m, r, v, 2)
  BY <1>2, <1>3, <1>4, LevelCases
<1>6. k <= 1 => Table(mm, r, v, 1) = Table(m, r, v, 1)
  BY <1>2, <1>3, <1>5, LevelCases
<1>7. ASSUME NEW n \in k..4 PROVE Table(mm, r, v, n) = Table(m, r, v, n)
  <2>1. n = 1 \/ n = 2 \/ n = 3 \/ n = 4
    BY LevelCases
  <2>2. k <= n
    BY LevelCases
  <2>3. CASE n = 4
    BY <1>1, <2>3
  <2>4. CASE n = 3
    BY <1>4, <2>2, <2>4
  <2>5. CASE n = 2
    BY <1>5, <2>2, <2>5
  <2>6. CASE n = 1
    BY <1>6, <2>2, <2>6
  <2> QED BY <2>1, <2>3, <2>4, <2>5, <2>6
<1> QED BY <1>7

LEMMA EntryFacts ==
  /\ Absent.present = FALSE /\ Absent.addr = Null /\ Absent.user = FALSE /\ Absent \in Entries
  /\ \A i \in Indices : ZeroPage[i] = Absent
  /\ ZeroPage \in [Indices -> Entries]
  /\ \A p \in Nat, u \in BOOLEAN : /\ Entry(p, u) \in Entries /\ Entry(p, u) # Absent
                                   /\ Entry(p, u).present = TRUE
                                   /\ Entry(p, u).addr = p /\ Entry(p, u).user = u
BY DEF Absent, Entry, Entries, ZeroPage, Null

LEMMA PlaceFacts ==
  ASSUME NEW r, NEW n, NEW v
  PROVE  /\ Place(r, n, v)[1] = r /\ Place(r, n, v)[2] = n /\ Place(r, n, v)[3] = Prefix(v, n)
         /\ Place(r, n, v) = Nowhere => r = Null
         /\ Nowhere[1] = Null /\ Nowhere[2] = 0
BY DEF Place, Nowhere

(* The tables of the kernel's tree. *)
LEMMA KernelTables ==
  ASSUME NEW X, MemoryShape(X), KernelTree(X), NEW v \in VirtualPages, NEW n \in Levels
  PROVE  /\ Table(X.mem, X.root, v, n) \in DOMAIN X.mem
         /\ Table(X.mem, X.root, v, n) # Null =>
              /\ X.own[Table(X.mem, X.root, v, n)] = Place(X.root, n, v)
              /\ X.own[Table(X.mem, X.root, v, n)][1] = X.root
         /\ n # 4 => (Table(X.mem, X.root, v, n) # Null <=> Prefix(v, n) \in X.ready[n])
         /\ n = 4 => Table(X.mem, X.root, v, n) = X.root /\ X.root # Null
<1>1. CASE n = 4
  <2>1. Table(X.mem, X.root, v, n) = X.root
    BY <1>1, TableDown
  <2>2. X.root \in DOMAIN X.mem \ {Null} /\ X.own[X.root] = Place(X.root, 4, 0)
    BY DEF KernelTree
  <2>3. Place(X.root, 4, 0) = Place(X.root, n, v)
    BY <1>1 DEF Place, Prefix
  <2> QED BY <1>1, <2>1, <2>2, <2>3, PlaceFacts
<1>2. CASE n \in 1..3
  <2>1. KernelNode(X, v, n)
    BY <1>2 DEF KernelTree
  <2>2. n # 4 /\ n + 1 \in 2..4 /\ n + 1 - 1 = n
    BY <1>2
  <2>3. Table(X.mem, X.root, v, n) = Slot(X.mem, X.root, v, n + 1).addr
    BY <1>2, TableDown
  <2>4. CASE Prefix(v, n) \in X.ready[n]
    <3>1. /\ Table(X.mem, X.root, v, n) \in DOMAIN X.mem \ {Null}
          /\ X.own[Table(X.mem, X.root, v, n)] = Place(X.root, n, v)
      BY <2>1, <2>4 DEF KernelNode
    <3>2. Place(X.root, n, v)[1] = X.root
      BY PlaceFacts
    <3> QED BY <2>2, <2>4, <3>1, <3>2
  <2>5. CASE Prefix(v, n) \notin X.ready[n]
    <3>1. Table(X.mem, X.root, v, n) = Null
      BY <2>1, <2>3, <2>5, EntryFacts DEF KernelNode
    <3> QED BY <2>2, <2>5, <3>1 DEF MemoryShape
  <2> QED BY <2>4, <2>5
<1> QED BY <1>1, <1>2, LevelCases

(* A step that leaves the kernel's tables alone leaves its tree alone. *)
LEMMA KernelFrame ==
  ASSUME NEW X, NEW Y, MemoryShape(X), KernelTree(X),
         Y.root = X.root, Y.ready = X.ready, DOMAIN Y.mem = DOMAIN X.mem,
         Y.mem[Null] = X.mem[Null],
         \A p \in DOMAIN X.mem : X.own[p][1] = X.root => Y.mem[p] = X.mem[p] /\ Y.own[p] = X.own[p]
  PROVE  /\ KernelTree(Y)
         /\ \A v \in VirtualPages, n \in Levels :
              /\ Table(Y.mem, X.root, v, n) = Table(X.mem, X.root, v, n)
              /\ Y.mem[Table(X.mem, X.root, v, n)] = X.mem[Table(X.mem, X.root, v, n)]
<1>1. ASSUME NEW v \in VirtualPages, NEW n \in Levels
      PROVE  /\ Y.mem[Table(X.mem, X.root, v, n)] = X.mem[Table(X.mem, X.root, v, n)]
             /\ Table(X.mem, X.root, v, n) # Null =>
                  Y.own[Table(X.mem, X.root, v, n)] = X.own[Table(X.mem, X.root, v, n)]
  <2>1. /\ Table(X.mem, X.root, v, n) \in DOMAIN X.mem
        /\ Table(X.mem, X.root, v, n) # Null => X.own[Table(X.mem, X.root, v, n)][1] = X.root
    BY KernelTables
  <2> QED BY <2>1
<1>2. ASSUME NEW v \in VirtualPages, NEW n \in Levels
      PROVE  Table(Y.mem, X.root, v, n) = Table(X.mem, X.root, v, n)
  <2>1. \A k \in Levels : k > 1 => Y.mem[Table(X.mem, X.root, v, k)][Index(v, k)] = Slot(X.mem, X.root, v, k)
    BY <1>1 DEF Slot
  <2>2. 1 \in Levels /\ n \in 1..4
    BY DEF Levels
  <2>3. \A k \in 1..4 : Table(Y.mem, X.root, v, k) = Table(X.mem, X.root, v, k)
    BY <2>1, <2>2, TableFrame
  <2> QED BY <2>2, <2>3
<1>3. ASSUME NEW v \in VirtualPages, NEW n \in Levels
      PROVE  Slot(Y.mem, Y.root, v, n) = Slot(X.mem, X.root, v, n)
  BY <1>1, <1>2 DEF Slot
<1>4. ASSUME NEW v \in VirtualPages, NEW n \in 1..3
      PROVE  KernelNode(Y, v, n)
  <2>1. KernelNode(X, v, n) /\ n \in Levels /\ n + 1 \in Levels
    BY LevelCases DEF KernelTree
  <2>2. /\ Table(Y.mem, Y.root, v, n) = Table(X.mem, X.root, v, n)
        /\ Slot(Y.mem, Y.root, v, n + 1) = Slot(X.mem, X.root, v, n + 1)
        /\ Table(X.mem, X.root, v, n) # Null =>
             Y.own[Table(X.mem, X.root, v, n)] = X.own[Table(X.mem, X.root, v, n)]
    BY <1>1, <1>2, <1>3, <2>1
  <2> QED BY <2>1, <2>2 DEF KernelNode
<1>5. Y.root \in DOMAIN Y.mem \ {Null} /\ Y.own[Y.root] = Place(Y.root, 4, 0)
  <2>1. X.root \in DOMAIN X.mem \ {Null} /\ X.own[X.root] = Place(X.root, 4, 0)
    BY DEF KernelTree
  <2>2. X.own[X.root][1] = X.root
    BY <2>1, PlaceFacts
  <2> QED BY <2>1, <2>2
<1>6. \A v \in VirtualPages :
         Slot(Y.mem, Y.root, v, 1) = IF v \in Y.ready[0] THEN Entry(v, FALSE) ELSE Absent
  <2> SUFFICES ASSUME NEW v \in VirtualPages
               PROVE  Slot(Y.mem, Y.root, v, 1) = IF v \in Y.ready[0] THEN Entry(v, FALSE) ELSE Absent
    OBVIOUS
  <2>1. Slot(X.mem, X.root, v, 1) = IF v \in X.ready[0] THEN Entry(v, FALSE) ELSE Absent
    BY DEF KernelTree
  <2>2. 1 \in Levels
    BY DEF Levels
  <2>3. Slot(Y.mem, Y.root, v, 1) = Slot(X.mem, X.root, v, 1)
    BY <1>3, <2>2
  <2> QED BY <2>1, <2>3
<1>7. \A v \in VirtualPages, n \in 0..2 :
          Prefix(v, n) \in Y.ready[n] => Prefix(v, n + 1) \in Y.ready[n + 1]
  BY DEF KernelTree
<1>8. KernelTree(Y)
  BY <1>4, <1>5, <1>6, <1>7 DEF KernelTree
<1> QED BY <1>1, <1>2, <1>8

(* Whether the way of the space s to v is private at level n. *)
OnPath(X, s, v, n) == n >= X.depth[s] /\ Prefix(v, n) = Prefix(Trampoline, n)

(* Off its private path a user space goes through the kernel's tables. *)
LEMMA UserTables ==
  ASSUME NEW X, NEW s, UserTree(X, s), NEW v \in VirtualPages, NEW n \in Levels
  PROVE  IF OnPath(X, s, v, n) THEN Table(X.mem, s, v, n) = Table(X.mem, s, Trampoline, n)
                               ELSE Table(X.mem, s, v, n) = Table(X.mem, X.root, v, n)
<1> DEFINE Good(k) == IF OnPath(X, s, v, k) THEN Table(X.mem, s, v, k) = Table(X.mem, s, Trampoline, k)
                                ELSE Table(X.mem, s, v, k) = Table(X.mem, X.root, v, k)
<1>1. Trampoline \in VirtualPages /\ X.depth[s] \in Levels
  BY LayoutFacts DEF UserTree
<1>2. Good(4)
  <2>1. OnPath(X, s, v, 4)
    BY <1>1 DEF OnPath, Prefix, Levels
  <2> QED BY <2>1, TableDown
<1>3. ASSUME NEW k \in 2..4, Good(k) PROVE Good(k - 1)
  <2>1. k \in Levels /\ k - 1 \in Levels
    BY LevelCases
  <2>2. CASE OnPath(X, s, v, k - 1)
    BY <1>1, <2>1, <2>2, TableSame DEF OnPath
  <2>3. CASE ~OnPath(X, s, v, k - 1)
    <3>1. SUFFICES Slot(X.mem, s, v, k) = Slot(X.mem, X.root, v, k)
      BY <2>3, TableDown
    <3>2. CASE ~OnPath(X, s, v, k)
      BY <1>3, <3>2 DEF Slot
    <3>3. CASE OnPath(X, s, v, k)
      <4>1. k \in X.depth[s]..4 /\ k # 1
        BY <1>1, <3>3 DEF OnPath, Levels
      <4>2. UserNode(X, s, k)
        BY <4>1 DEF UserTree
      <4>3. ~(k > X.depth[s] /\ Index(v, k) = Index(Trampoline, k))
        <5>1. Prefix(v, k) = Prefix(Trampoline, k)
          BY <3>3 DEF OnPath
        <5>2. Index(v, k) = Index(Trampoline, k) => Prefix(v, k - 1) = Prefix(Trampoline, k - 1)
          BY <1>1, <2>1, <5>1, SamePrefix
        <5>3. k > X.depth[s] => k - 1 >= X.depth[s]
          BY <1>1 DEF Levels
        <5> QED BY <2>3, <5>2, <5>3 DEF OnPath
      <4>4. Index(v, k) \in Indices
        BY <2>1, IndexFacts, IndicesFacts
      <4>5. X.mem[Table(X.mem, s, Trampoline, k)][Index(v, k)]
              = X.mem[Table(X.mem, X.root, Trampoline, k)][Index(v, k)]
        BY <4>1, <4>2, <4>3, <4>4 DEF UserNode
      <4>6. Table(X.mem, X.root, v, k) = Table(X.mem, X.root, Trampoline, k)
        BY <1>1, <2>1, <3>3, TableSame DEF OnPath
      <4>7. Table(X.mem, s, v, k) = Table(X.mem, s, Trampoline, k)
        BY <1>3, <3>3
      <4> QED BY <4>5, <4>6, <4>7 DEF Slot
    <3> QED BY <3>2, <3>3
  <2> QED BY <2>2, <2>3
<1>4. 4 \in 2..4 /\ 3 \in 2..4 /\ 2 \in 2..4 /\ 4 - 1 = 3 /\ 3 - 1 = 2 /\ 2 - 1 = 1
  OBVIOUS
<1> HIDE DEF Good
<1>5. Good(3)
  BY <1>2, <1>3, <1>4
<1>6. Good(2)
  BY <1>3, <1>4, <1>5
<1>7. Good(1)
  BY <1>3, <1>4, <1>6
<1>8. Good(n)
  BY <1>2, <1>5, <1>6, <1>7, LevelCases
<1> QED BY <1>8 DEF Good

(* A step that leaves the kernel's tables and those of s alone leaves the  *)
(* path of s alone.                                                        *)
LEMMA UserFrame ==
  ASSUME NEW X, NEW Y, NEW s, UserTree(X, s),
         Y.root = X.root, Y.depth[s] = X.depth[s], Y.mapped[s] = X.mapped[s],
         DOMAIN Y.mem = DOMAIN X.mem,
         \A p \in DOMAIN X.mem : X.own[p][1] = s => Y.mem[p] = X.mem[p] /\ Y.own[p] = X.own[p],
         \A n \in Levels :
            /\ Table(Y.mem, X.root, Trampoline, n) = Table(X.mem, X.root, Trampoline, n)
            /\ Y.mem[Table(X.mem, X.root, Trampoline, n)] = X.mem[Table(X.mem, X.root, Trampoline, n)]
  PROVE  /\ UserTree(Y, s)
         /\ \A n \in X.depth[s]..4 :
              Table(Y.mem, s, Trampoline, n) = Table(X.mem, s, Trampoline, n)
<1>1. X.depth[s] \in Levels /\ \A n \in X.depth[s]..4 : UserNode(X, s, n)
  BY DEF UserTree
<1>2. ASSUME NEW n \in X.depth[s]..4
      PROVE  /\ Table(X.mem, s, Trampoline, n) \in DOMAIN X.mem \ {Null}
             /\ X.own[Table(X.mem, s, Trampoline, n)] = Place(s, n, Trampoline)
             /\ Y.mem[Table(X.mem, s, Trampoline, n)] = X.mem[Table(X.mem, s, Trampoline, n)]
             /\ Y.own[Table(X.mem, s, Trampoline, n)] = X.own[Table(X.mem, s, Trampoline, n)]
  <2>1. /\ Table(X.mem, s, Trampoline, n) \in DOMAIN X.mem \ {Null}
        /\ X.own[Table(X.mem, s, Trampoline, n)] = Place(s, n, Trampoline)
    BY <1>1 DEF UserNode
  <2>2. X.own[Table(X.mem, s, Trampoline, n)][1] = s
    BY <2>1, PlaceFacts
  <2> QED BY <2>1, <2>2
<1>3. \A n \in Levels : n > X.depth[s] =>
         Y.mem[Table(X.mem, s, Trampoline, n)][Index(Trampoline, n)] = Slot(X.mem, s, Trampoline, n)
  <2>1. \A n \in Levels : n > X.depth[s] => n \in X.depth[s]..4
    BY <1>1 DEF Levels
  <2> QED BY <1>2, <2>1 DEF Slot
<1>4. \A n \in X.depth[s]..4 : Table(Y.mem, s, Trampoline, n) = Table(X.mem, s, Trampoline, n)
  BY <1>1, <1>2, <1>3, TableFrame
<1>5. ASSUME NEW n \in X.depth[s]..4 PROVE UserNode(Y, s, n)
  <2>1. UserNode(X, s, n) /\ n \in Levels
    BY <1>1 DEF Levels
  <2>2. n > X.depth[s] => n - 1 \in X.depth[s]..4
    BY <1>1 DEF Levels
  <2>3. Table(Y.mem, s, Trampoline, n) = Table(X.mem, s, Trampoline, n)
    BY <1>4
  <2>4. n > X.depth[s] => Table(Y.mem, s, Trampoline, n - 1) = Table(X.mem, s, Trampoline, n - 1)
    BY <1>4, <2>2
  <2>5. Covered(Y, s) = Covered(X, s)
    BY DEF Covered
  <2>6. PICK p, q : p = Table(X.mem, s, Trampoline, n) /\ q = Table(X.mem, X.root, Trampoline, n)
    OBVIOUS
  <2>7. Y.mem[p] = X.mem[p] /\ Y.own[p] = X.own[p] /\ Y.mem[q] = X.mem[q]
        /\ Table(Y.mem, Y.root, Trampoline, n) = q
    BY <1>2, <2>1, <2>6
  <2>8. p \in DOMAIN Y.mem \ {Null} /\ Y.own[p] = Place(s, n, Trampoline)
    BY <1>2, <2>6, <2>7
  <2>9. n > Y.depth[s] =>
            Y.mem[p][Index(Trampoline, n)] = Entry(Table(Y.mem, s, Trampoline, n - 1), TRUE)
    BY <2>1, <2>4, <2>6, <2>7 DEF UserNode
  <2>10. \A i \in Indices :
            \/ n > Y.depth[s] /\ i = Index(Trampoline, n)
            \/ n = 1 /\ i \in Covered(Y, s)
            \/ Y.mem[p][i] = Y.mem[q][i]
    BY <2>1, <2>5, <2>6, <2>7 DEF UserNode
  <2>11. n = 1 => \A w \in DOMAIN Y.mapped[s] : Y.mem[p][Index(w, 1)] = Entry(Y.mapped[s][w], TRUE)
    BY <2>1, <2>6, <2>7 DEF UserNode
  <2> QED BY <2>3, <2>6, <2>7, <2>8, <2>9, <2>10, <2>11 DEF UserNode
<1>6. UserTree(Y, s)
  BY <1>5 DEF UserTree
<1> QED BY <1>4, <1>6

-----------------------------------------------------------------------------
(* A new table in the kernel's tree *)

(* Y is X after the page c was taken from the list, given the entries T    *)
(* and the owner pl, and entry i of the table p was set to e.              *)
Grown(X, Y, c, T, p, i, e, pl) ==
    /\ MemoryShape(X) /\ ListShape(X)
    /\ i \in Indices /\ p \in DOMAIN X.mem \ {Null} /\ X.own[p] # Nowhere
    /\ \A j \in Indices : T[j].present \/ T[j] = Absent
    /\ e.present \/ e = Absent
    /\ c \in ToSet(X.list) /\ DOMAIN Y.mem = DOMAIN X.mem
    /\ Y.mem \in [DOMAIN X.mem -> [Indices -> Entries]]
    /\ Y.mem[c] = T /\ Y.mem[p][i] = e
    /\ \A j \in Indices \ {i} : Y.mem[p][j] = X.mem[p][j]
    /\ \A q \in DOMAIN X.mem \ {c, p} : Y.mem[q] = X.mem[q]
    /\ Y.list \in Seq(DOMAIN X.mem \ {Null}) /\ IsInjective(Y.list)
    /\ ToSet(Y.list) = ToSet(X.list) \ {c}
    /\ pl \in Nat \X Nat \X Nat /\ pl # Nowhere /\ Y.own = [X.own EXCEPT ![c] = pl]

(* What holds of the page that is taken, whoever gets it. *)
Taken(X, Y, c, p, pl) ==
    /\ c \in DOMAIN X.mem \ {Null} /\ X.own[c] = Nowhere /\ c # p
    /\ Y.own[c] = pl /\ \A q \in DOMAIN X.mem : q # c => Y.own[q] = X.own[q]
    /\ Y.mem[Null] = X.mem[Null] /\ DOMAIN Y.mem = DOMAIN X.mem
    /\ MemoryShape(Y) /\ ListShape(Y)

LEMMA GrownFacts ==
  ASSUME NEW X, NEW Y, NEW c, NEW T, NEW p, NEW i, NEW e, NEW pl, Grown(X, Y, c, T, p, i, e, pl)
  PROVE  Taken(X, Y, c, p, pl)
<1> SUFFICES ASSUME MemoryShape(X), ListShape(X),
                    p \in DOMAIN X.mem \ {Null}, X.own[p] # Nowhere, i \in Indices,
                    \A j \in Indices : T[j].present \/ T[j] = Absent,
                    e.present \/ e = Absent,
                    pl \in Nat \X Nat \X Nat, pl # Nowhere, Y.own = [X.own EXCEPT ![c] = pl]
             PROVE  Taken(X, Y, c, p, pl)
  BY DEF Grown
<1>1. ToSet(X.list) \subseteq DOMAIN X.mem \ {Null}
  BY ListFacts DEF ListShape
<1>2. c \in DOMAIN X.mem \ {Null} /\ X.own[c] = Nowhere
  BY <1>1 DEF Grown, ListShape
<1>3. c # p
  BY <1>2
<1>4. Y.own[c] = pl /\ \A q \in DOMAIN X.mem : q # c => Y.own[q] = X.own[q]
  BY <1>2 DEF MemoryShape
<1>5. Y.mem[Null] = X.mem[Null] /\ Null \in DOMAIN X.mem
  BY <1>2 DEF Grown, MemoryShape
<1>6. MemoryShape(Y)
  <2>1. /\ DOMAIN Y.mem = DOMAIN X.mem /\ Y.mem \in [DOMAIN Y.mem -> [Indices -> Entries]]
        /\ Y.mem[Null] = ZeroPage /\ DOMAIN Y.mem \subseteq Nat
    BY <1>5 DEF Grown, MemoryShape
  <2>2. Y.own \in [DOMAIN Y.mem -> Nat \X Nat \X Nat] /\ Y.own[Null] = Nowhere
    BY <1>2, <1>4, <1>5, <2>1 DEF MemoryShape
  <2>3. ASSUME NEW q \in DOMAIN Y.mem, NEW j \in Indices
        PROVE  Y.mem[q][j].present \/ Y.mem[q][j] = Absent
    <3>1. X.mem[q][j].present \/ X.mem[q][j] = Absent
      BY <2>1, <2>3 DEF MemoryShape
    <3>2. CASE q = c
      BY <3>2 DEF Grown
    <3>3. CASE q = p
      BY <3>1, <3>3 DEF Grown
    <3>4. CASE q # c /\ q # p
      BY <2>1, <3>1, <3>4 DEF Grown
    <3> QED BY <3>2, <3>3, <3>4
  <2> QED BY <1>5, <2>1, <2>2, <2>3 DEF MemoryShape
<1>7. ListShape(Y)
  <2>1. DOMAIN Y.mem = DOMAIN X.mem
    BY DEF Grown
  <2>2. ASSUME NEW q \in DOMAIN X.mem \ {Null} PROVE q \in ToSet(Y.list) <=> Y.own[q] = Nowhere
    BY <1>2, <1>4, <2>2 DEF Grown, ListShape
  <2> QED BY <2>1, <2>2 DEF Grown, ListShape
<1>8. DOMAIN Y.mem = DOMAIN X.mem
  BY DEF Grown
<1> QED BY <1>2, <1>3, <1>4, <1>5, <1>6, <1>7, <1>8 DEF Taken

(* The ways of the kernel's tree after the page for a at level n - 1 was   *)
(* added: those to other places stay, those below it end there.            *)
KernelGrown(X, Y, a, n, c) ==
    /\ a \in VirtualPages /\ n \in 2..4 /\ KernelTree(X) /\ Y.root = X.root
    /\ Table(X.mem, X.root, a, n) # Null /\ Prefix(a, n - 1) \notin X.ready[n - 1]
    /\ Grown(X, Y, c, ZeroPage, Table(X.mem, X.root, a, n), Index(a, n), Entry(c, FALSE),
             Place(X.root, n - 1, a))
    /\ Y.ready[n - 1] = X.ready[n - 1] \cup {Prefix(a, n - 1)}
    /\ \A k \in 0..3 : k # n - 1 => Y.ready[k] = X.ready[k]

PathsGrown(X, Y, a, n, c, v) ==
    /\ \A k \in Levels : k >= n => Table(Y.mem, Y.root, v, k) = Table(X.mem, X.root, v, k)
    /\ \A k \in Levels : k > n => Slot(Y.mem, Y.root, v, k) = Slot(X.mem, X.root, v, k)
    /\ Prefix(v, n - 1) # Prefix(a, n - 1) => \A k \in Levels :
         /\ Table(Y.mem, Y.root, v, k) = Table(X.mem, X.root, v, k)
         /\ Slot(Y.mem, Y.root, v, k) = Slot(X.mem, X.root, v, k)
    /\ Prefix(v, n - 1) = Prefix(a, n - 1) =>
         /\ Slot(Y.mem, Y.root, v, n) = Entry(c, FALSE)
         /\ Table(Y.mem, Y.root, v, n - 1) = c
         /\ \A k \in Levels : k < n => Slot(Y.mem, Y.root, v, k) = Absent

LEMMA GrownPaths ==
  ASSUME NEW X, NEW Y, NEW a, NEW n, NEW c, KernelGrown(X, Y, a, n, c)
  PROVE  \A v \in VirtualPages : PathsGrown(X, Y, a, n, c, v)
<1> SUFFICES ASSUME a \in VirtualPages, n \in 2..4, MemoryShape(X), KernelTree(X), Y.root = X.root,
                    X.own[c] = Nowhere, c \in DOMAIN X.mem \ {Null}, c # Null,
                    Table(X.mem, X.root, a, n) # Null, Prefix(a, n - 1) \notin X.ready[n - 1],
                    Grown(X, Y, c, ZeroPage, Table(X.mem, X.root, a, n), Index(a, n), Entry(c, FALSE),
                          Place(X.root, n - 1, a)),
                    Taken(X, Y, c, Table(X.mem, X.root, a, n), Place(X.root, n - 1, a)),
                    Y.mem[Null] = X.mem[Null],
                    Y.own[c] = Place(X.root, n - 1, a), \A q \in DOMAIN X.mem : q # c => Y.own[q] = X.own[q],
                    Y.ready[n - 1] = X.ready[n - 1] \cup {Prefix(a, n - 1)},
                    \A k \in 0..3 : k # n - 1 => Y.ready[k] = X.ready[k]
             PROVE  \A v \in VirtualPages : PathsGrown(X, Y, a, n, c, v)
  <2>1. Grown(X, Y, c, ZeroPage, Table(X.mem, X.root, a, n), Index(a, n), Entry(c, FALSE),
              Place(X.root, n - 1, a))
    BY DEF KernelGrown
  <2>2. Taken(X, Y, c, Table(X.mem, X.root, a, n), Place(X.root, n - 1, a))
    BY <2>1, GrownFacts
  <2>3. MemoryShape(X)
    BY <2>1 DEF Grown
  <2> QED BY <2>1, <2>2, <2>3 DEF KernelGrown, Taken
<1> SUFFICES ASSUME NEW v \in VirtualPages
             PROVE  /\ \A k \in Levels : k >= n => Table(Y.mem, X.root, v, k) = Table(X.mem, X.root, v, k)
                    /\ \A k \in Levels : k > n => Slot(Y.mem, X.root, v, k) = Slot(X.mem, X.root, v, k)
                    /\ Prefix(v, n - 1) # Prefix(a, n - 1) => \A k \in Levels :
                         /\ Table(Y.mem, X.root, v, k) = Table(X.mem, X.root, v, k)
                         /\ Slot(Y.mem, X.root, v, k) = Slot(X.mem, X.root, v, k)
                    /\ Prefix(v, n - 1) = Prefix(a, n - 1) =>
                         /\ Slot(Y.mem, X.root, v, n) = Entry(c, FALSE)
                         /\ Table(Y.mem, X.root, v, n - 1) = c
                         /\ \A k \in Levels : k < n => Slot(Y.mem, X.root, v, k) = Absent
  BY DEF PathsGrown
<1>1. n \in Levels /\ n - 1 \in Levels /\ n - 1 \in 1..3
  BY LevelCases
<1>2. PICK p : p = Table(X.mem, X.root, a, n)
  OBVIOUS
<1>3. p \in DOMAIN X.mem /\ p # Null /\ X.own[p] = Place(X.root, n, a)
  BY <1>1, <1>2, KernelTables
<1>4. X.root # Null
  BY DEF KernelTree
<1>5. ASSUME NEW k \in Levels
      PROVE  /\ Table(X.mem, X.root, v, k) \in DOMAIN X.mem /\ Table(X.mem, X.root, v, k) # c
             /\ Table(X.mem, X.root, v, k) = p => k = n /\ Prefix(v, n) = Prefix(a, n)
  <2>1. PICK q : q = Table(X.mem, X.root, v, k)
    OBVIOUS
  <2>2. q \in DOMAIN X.mem /\ (q # Null => X.own[q] = Place(X.root, k, v))
    BY <2>1, KernelTables
  <2>3. q # c
    <3>1. Place(X.root, k, v) # Nowhere
      BY <1>4, PlaceFacts
    <3> QED BY <2>2, <3>1
  <2>4. q = p => k = n /\ Prefix(v, n) = Prefix(a, n)
    <3>1. /\ Place(X.root, k, v)[2] = k /\ Place(X.root, k, v)[3] = Prefix(v, k)
          /\ Place(X.root, n, a)[2] = n /\ Place(X.root, n, a)[3] = Prefix(a, n)
      BY PlaceFacts
    <3> QED BY <1>3, <2>2, <3>1
  <2> QED BY <2>1, <2>2, <2>3, <2>4
<1>6. ASSUME NEW k \in Levels, k # n \/ Prefix(v, n - 1) # Prefix(a, n - 1)
      PROVE  Y.mem[Table(X.mem, X.root, v, k)][Index(v, k)] = Slot(X.mem, X.root, v, k)
  <2>1. PICK q : q = Table(X.mem, X.root, v, k)
    OBVIOUS
  <2>2. Index(v, k) \in Indices
    BY IndexFacts, IndicesFacts
  <2>3. CASE q # p
    <3>1. Y.mem[q] = X.mem[q]
      BY <1>2, <1>5, <2>1, <2>3 DEF Grown
    <3> QED BY <2>1, <3>1 DEF Slot
  <2>4. CASE q = p
    <3>1. k = n /\ Prefix(v, n) = Prefix(a, n)
      BY <1>5, <2>1, <2>4
    <3>2. Index(v, n) # Index(a, n)
      BY <1>1, <1>6, <3>1, SamePrefix
    <3> QED BY <1>2, <2>1, <2>2, <2>4, <3>1, <3>2 DEF Grown, Slot
  <2> QED BY <2>3, <2>4
<1>7. ASSUME NEW k \in Levels, k >= n PROVE Table(Y.mem, X.root, v, k) = Table(X.mem, X.root, v, k)
  <2>1. \A l \in Levels : l > n => Y.mem[Table(X.mem, X.root, v, l)][Index(v, l)] = Slot(X.mem, X.root, v, l)
    BY <1>1, <1>6 DEF Levels
  <2>2. \A l \in n..4 : Table(Y.mem, X.root, v, l) = Table(X.mem, X.root, v, l)
    BY <1>1, <2>1, TableFrame
  <2>3. k \in n..4
    BY <1>7 DEF Levels
  <2> QED BY <2>2, <2>3
<1>8. ASSUME NEW k \in Levels, k > n PROVE Slot(Y.mem, X.root, v, k) = Slot(X.mem, X.root, v, k)
  <2>1. k # n /\ k >= n
    BY <1>1, <1>8 DEF Levels
  <2>2. Table(Y.mem, X.root, v, k) = Table(X.mem, X.root, v, k)
    BY <1>7, <2>1
  <2> QED BY <1>6, <2>1, <2>2 DEF Slot
<1>9. ASSUME Prefix(v, n - 1) # Prefix(a, n - 1), NEW k \in Levels
      PROVE  /\ Table(Y.mem, X.root, v, k) = Table(X.mem, X.root, v, k)
             /\ Slot(Y.mem, X.root, v, k) = Slot(X.mem, X.root, v, k)
  <2>1. \A l \in Levels : l > 1 => Y.mem[Table(X.mem, X.root, v, l)][Index(v, l)] = Slot(X.mem, X.root, v, l)
    BY <1>6, <1>9
  <2>2. 1 \in Levels /\ k \in 1..4
    BY DEF Levels
  <2>3. \A l \in 1..4 : Table(Y.mem, X.root, v, l) = Table(X.mem, X.root, v, l)
    BY <2>1, <2>2, TableFrame
  <2>4. Table(Y.mem, X.root, v, k) = Table(X.mem, X.root, v, k)
    BY <2>2, <2>3
  <2> QED BY <1>6, <1>9, <2>4 DEF Slot
<1>10. ASSUME Prefix(v, n - 1) = Prefix(a, n - 1)
       PROVE  /\ Slot(Y.mem, X.root, v, n) = Entry(c, FALSE)
              /\ Table(Y.mem, X.root, v, n - 1) = c
              /\ \A k \in Levels : k < n => Slot(Y.mem, X.root, v, k) = Absent
  <2>1. Prefix(v, n) = Prefix(a, n) /\ Index(v, n) = Index(a, n)
    BY <1>1, <1>10, SamePrefix
  <2>2. Table(Y.mem, X.root, v, n) = p
    <3>1. Table(X.mem, X.root, v, n) = p
      BY <1>1, <1>2, <2>1, TableSame
    <3>2. n >= n
      BY <1>1 DEF Levels
    <3> QED BY <1>1, <1>7, <3>1, <3>2
  <2>3. Slot(Y.mem, X.root, v, n) = Entry(c, FALSE)
    BY <1>2, <2>1, <2>2 DEF Grown, Slot
  <2>4. Table(Y.mem, X.root, v, n - 1) = c
    <3>1. Entry(c, FALSE).addr = c
      BY DEF Entry
    <3>2. Table(Y.mem, X.root, v, n - 1) = Slot(Y.mem, X.root, v, n).addr
      BY TableDown
    <3> QED BY <2>3, <3>1, <3>2, Zenon
  <2>5. ASSUME NEW k \in Levels PROVE ZeroPage[Index(v, k)] = Absent
    BY IndexFacts, IndicesFacts, EntryFacts
  <2>6. Slot(Y.mem, X.root, v, n - 1) = Absent
    <3>1. Y.mem[c] = ZeroPage
      BY DEF Grown
    <3>2. PICK l : l = n - 1
      OBVIOUS
    <3>3. l \in Levels /\ Table(Y.mem, X.root, v, l) = c
      BY <1>1, <2>4, <3>2
    <3>4. Slot(Y.mem, X.root, v, l) = ZeroPage[Index(v, l)]
      BY <3>1, <3>3 DEF Slot
    <3> QED BY <2>5, <3>2, <3>3, <3>4
  <2>7. ASSUME NEW k \in 2..4, Slot(Y.mem, X.root, v, k) = Absent
        PROVE  Slot(Y.mem, X.root, v, k - 1) = Absent
    <3>1. Table(Y.mem, X.root, v, k - 1) = Null
      BY <2>7, TableDown, EntryFacts
    <3>2. Y.mem[Null] = ZeroPage /\ k - 1 \in Levels
      BY LevelCases DEF MemoryShape
    <3> QED BY <2>5, <3>1, <3>2 DEF Slot
  <2>8. /\ n = 2 => Slot(Y.mem, X.root, v, 1) = Absent
        /\ n = 3 => Slot(Y.mem, X.root, v, 2) = Absent
        /\ n = 4 => Slot(Y.mem, X.root, v, 3) = Absent
    <3>1. 2 - 1 = 1 /\ 3 - 1 = 2 /\ 4 - 1 = 3
      OBVIOUS
    <3> QED BY <2>6, <3>1
  <2>9. /\ Slot(Y.mem, X.root, v, 3) = Absent => Slot(Y.mem, X.root, v, 2) = Absent
        /\ Slot(Y.mem, X.root, v, 2) = Absent => Slot(Y.mem, X.root, v, 1) = Absent
    <3>1. 2 - 1 = 1 /\ 3 - 1 = 2 /\ 2 \in 2..4 /\ 3 \in 2..4
      OBVIOUS
    <3> QED BY <2>7, <3>1
  <2>10. ASSUME NEW k \in Levels, k < n PROVE Slot(Y.mem, X.root, v, k) = Absent
    <3>1. (n = 2 /\ k = 1) \/ (n = 3 /\ k \in {1, 2}) \/ (n = 4 /\ k \in {1, 2, 3})
      BY <2>10 DEF Levels
    <3> QED BY <2>8, <2>9, <3>1
  <2> QED BY <2>3, <2>4, <2>10
<1> QED BY <1>7, <1>8, <1>9, <1>10

(* A place of the kernel's tree lies below places of the tree. *)
LEMMA ReadyUp ==
  ASSUME NEW X, KernelTree(X), NEW v \in VirtualPages, NEW k \in 0..3, NEW l \in k..3,
         Prefix(v, k) \in X.ready[k]
  PROVE  Prefix(v, l) \in X.ready[l]
<1>1. \A n \in 0..2 : Prefix(v, n) \in X.ready[n] => Prefix(v, n + 1) \in X.ready[n + 1]
  BY DEF KernelTree
<1>2. 0 \in 0..2 /\ 1 \in 0..2 /\ 2 \in 0..2 /\ 0 + 1 = 1 /\ 1 + 1 = 2 /\ 2 + 1 = 3
  OBVIOUS
<1>3. /\ Prefix(v, 0) \in X.ready[0] => Prefix(v, 1) \in X.ready[1]
      /\ Prefix(v, 1) \in X.ready[1] => Prefix(v, 2) \in X.ready[2]
      /\ Prefix(v, 2) \in X.ready[2] => Prefix(v, 3) \in X.ready[3]
  BY <1>1, <1>2
<1>4. k \in {0, 1, 2, 3} /\ l \in {0, 1, 2, 3} /\ k <= l
  OBVIOUS
<1> QED BY <1>3, <1>4

(* The tree of the kernel after it has got the table of level n - 1 for a. *)
LEMMA GrowKernelTree ==
  ASSUME NEW X, NEW Y, NEW a, NEW n, NEW c, KernelGrown(X, Y, a, n, c)
  PROVE  KernelTree(Y)
<1> SUFFICES ASSUME a \in VirtualPages, n \in 2..4, MemoryShape(X), KernelTree(X), Y.root = X.root,
                    X.own[c] = Nowhere, c \in DOMAIN X.mem \ {Null}, c # Null,
                    Table(X.mem, X.root, a, n) # Null, Prefix(a, n - 1) \notin X.ready[n - 1],
                    Grown(X, Y, c, ZeroPage, Table(X.mem, X.root, a, n), Index(a, n), Entry(c, FALSE),
                          Place(X.root, n - 1, a)),
                    Taken(X, Y, c, Table(X.mem, X.root, a, n), Place(X.root, n - 1, a)),
                    Y.mem[Null] = X.mem[Null],
                    Y.own[c] = Place(X.root, n - 1, a), \A q \in DOMAIN X.mem : q # c => Y.own[q] = X.own[q],
                    Y.ready[n - 1] = X.ready[n - 1] \cup {Prefix(a, n - 1)},
                    \A k \in 0..3 : k # n - 1 => Y.ready[k] = X.ready[k]
             PROVE  KernelTree(Y)
  <2>1. Grown(X, Y, c, ZeroPage, Table(X.mem, X.root, a, n), Index(a, n), Entry(c, FALSE),
              Place(X.root, n - 1, a))
    BY DEF KernelGrown
  <2>2. Taken(X, Y, c, Table(X.mem, X.root, a, n), Place(X.root, n - 1, a))
    BY <2>1, GrownFacts
  <2>3. MemoryShape(X)
    BY <2>1 DEF Grown
  <2> QED BY <2>1, <2>2, <2>3 DEF KernelGrown, Taken
<1>1. n \in Levels /\ n - 1 \in Levels /\ n - 1 \in 1..3 /\ n - 1 \in 0..3 /\ n \in 0..4 /\ n - 1 \in 0..4
  BY LevelCases
<1>2. DOMAIN Y.mem = DOMAIN X.mem /\ X.root # Null
  BY DEF Grown, KernelTree
<1>3. ASSUME NEW v \in VirtualPages, NEW k \in Levels
      PROVE  /\ k >= n => Table(Y.mem, Y.root, v, k) = Table(X.mem, X.root, v, k)
             /\ k > n => Slot(Y.mem, Y.root, v, k) = Slot(X.mem, X.root, v, k)
             /\ Prefix(v, n - 1) # Prefix(a, n - 1) =>
                /\ Table(Y.mem, Y.root, v, k) = Table(X.mem, X.root, v, k)
                /\ Slot(Y.mem, Y.root, v, k) = Slot(X.mem, X.root, v, k)
             /\ Prefix(v, n - 1) = Prefix(a, n - 1) =>
                /\ Slot(Y.mem, Y.root, v, n) = Entry(c, FALSE)
                /\ Table(Y.mem, Y.root, v, n - 1) = c
                /\ k < n => Slot(Y.mem, Y.root, v, k) = Absent
  <2>1. PathsGrown(X, Y, a, n, c, v)
    BY GrownPaths, Zenon
  <2> QED BY <2>1 DEF PathsGrown
<1>4. ASSUME NEW v \in VirtualPages, Prefix(v, n - 1) = Prefix(a, n - 1), NEW k \in 0..(n - 1)
      PROVE  Prefix(v, k) \notin X.ready[k]
  <2>1. k \in 0..3 /\ n - 1 \in k..3
    BY <1>1, <1>4
  <2> QED BY <1>4, <2>1, ReadyUp
<1>5. ASSUME NEW v \in VirtualPages, NEW k \in 0..3
      PROVE  /\ Prefix(v, k) \in X.ready[k] => Prefix(v, k) \in Y.ready[k]
             /\ Prefix(v, k) \in Y.ready[k] => \/ Prefix(v, k) \in X.ready[k]
                                               \/ k = n - 1 /\ Prefix(v, k) = Prefix(a, k)
  BY <1>1
<1>6. ASSUME NEW v \in VirtualPages, NEW k \in 1..3 PROVE KernelNode(Y, v, k)
  <2>1. KernelNode(X, v, k) /\ k \in Levels /\ k + 1 \in Levels /\ k \in 0..3
    BY LevelCases DEF KernelTree
  <2>2. ASSUME k # n - 1 \/ Prefix(v, n - 1) # Prefix(a, n - 1)
        PROVE  Prefix(v, k) \in Y.ready[k] <=> Prefix(v, k) \in X.ready[k]
    BY <1>5, <2>1, <2>2
  <2>3. ASSUME Table(X.mem, X.root, v, k) \in DOMAIN X.mem \ {Null}
        PROVE  Y.own[Table(X.mem, X.root, v, k)] = X.own[Table(X.mem, X.root, v, k)]
    <3>1. PICK q : q = Table(X.mem, X.root, v, k)
      OBVIOUS
    <3>2. q \in DOMAIN X.mem /\ X.own[q] = Place(X.root, k, v)
      BY <2>1, <2>3, <3>1, KernelTables
    <3>3. X.own[q] # Nowhere
      BY <1>2, <3>2, PlaceFacts
    <3> QED BY <3>1, <3>2, <3>3
  <2>4. ASSUME Table(Y.mem, Y.root, v, k) = Table(X.mem, X.root, v, k),
               Slot(Y.mem, Y.root, v, k + 1) = Slot(X.mem, X.root, v, k + 1),
               Prefix(v, k) \in Y.ready[k] <=> Prefix(v, k) \in X.ready[k]
        PROVE  KernelNode(Y, v, k)
    <3>1. CASE Prefix(v, k) \in X.ready[k]
      <4>1. /\ Table(X.mem, X.root, v, k) \in DOMAIN X.mem \ {Null}
            /\ X.own[Table(X.mem, X.root, v, k)] = Place(X.root, k, v)
            /\ Slot(X.mem, X.root, v, k + 1) = Entry(Table(X.mem, X.root, v, k), FALSE)
        BY <2>1, <3>1 DEF KernelNode
      <4>2. Y.own[Table(X.mem, X.root, v, k)] = Place(X.root, k, v)
        BY <2>3, <4>1
      <4> QED BY <1>2, <2>4, <3>1, <4>1, <4>2 DEF KernelNode
    <3>2. CASE Prefix(v, k) \notin X.ready[k]
      <4>1. Slot(X.mem, X.root, v, k + 1) = Absent
        BY <2>1, <3>2 DEF KernelNode
      <4> QED BY <2>4, <3>2, <4>1 DEF KernelNode
    <3> QED BY <3>1, <3>2
  <2>5. CASE Prefix(v, n - 1) # Prefix(a, n - 1)
    BY <1>3, <2>1, <2>2, <2>4, <2>5
  <2>6. CASE k >= n
    <3>1. k + 1 > n /\ k # n - 1
      BY <1>1, <2>1, <2>6
    <3> QED BY <1>3, <2>1, <2>2, <2>4, <2>6, <3>1
  <2>7. CASE Prefix(v, n - 1) = Prefix(a, n - 1) /\ k = n - 1
    <3>1. k + 1 = n
      BY <1>1, <2>7
    <3>2. /\ Slot(Y.mem, Y.root, v, k + 1) = Entry(c, FALSE) /\ Table(Y.mem, Y.root, v, k) = c
      BY <1>1, <1>3, <2>7, <3>1
    <3>3. Place(X.root, n - 1, a) = Place(Y.root, k, v)
      BY <2>7 DEF Place
    <3>4. Prefix(v, k) \in Y.ready[k]
      BY <2>7
    <3> QED BY <1>2, <3>2, <3>3, <3>4 DEF KernelNode
  <2>8. CASE Prefix(v, n - 1) = Prefix(a, n - 1) /\ k < n - 1
    <3>1. k + 1 < n /\ k \in 0..(n - 1) /\ k # n - 1
      BY <1>1, <2>1, <2>8
    <3>2. Slot(Y.mem, Y.root, v, k + 1) = Absent
      BY <1>3, <2>1, <2>8, <3>1
    <3>3. Prefix(v, k) \notin Y.ready[k]
      BY <1>4, <2>2, <2>8, <3>1
    <3> QED BY <3>2, <3>3 DEF KernelNode
  <2>9. k >= n \/ k = n - 1 \/ k < n - 1
    BY <1>1, <2>1
  <2> QED BY <2>5, <2>6, <2>7, <2>8, <2>9
<1>7. Y.root \in DOMAIN Y.mem \ {Null} /\ Y.own[Y.root] = Place(Y.root, 4, 0)
  <2>1. X.root \in DOMAIN X.mem \ {Null} /\ X.own[X.root] = Place(X.root, 4, 0)
    BY DEF KernelTree
  <2>2. X.root # c
    BY <2>1, PlaceFacts
  <2> QED BY <1>2, <2>1, <2>2
<1>8. ASSUME NEW v \in VirtualPages
      PROVE  Slot(Y.mem, Y.root, v, 1) = IF v \in Y.ready[0] THEN Entry(v, FALSE) ELSE Absent
  <2>1. Slot(X.mem, X.root, v, 1) = IF v \in X.ready[0] THEN Entry(v, FALSE) ELSE Absent
    BY DEF KernelTree
  <2>2. 1 \in Levels /\ 0 \in 0..3 /\ 0 # n - 1 /\ 0 \in 0..(n - 1) /\ 1 < n
    BY <1>1 DEF Levels
  <2>3. Y.ready[0] = X.ready[0]
    BY <2>2
  <2>4. CASE Prefix(v, n - 1) # Prefix(a, n - 1)
    BY <1>3, <2>1, <2>2, <2>3, <2>4
  <2>5. CASE Prefix(v, n - 1) = Prefix(a, n - 1)
    <3>1. v \in Nat /\ Prefix(v, 0) = v
      BY <2>2, IndexFacts, PrefixFacts
    <3>2. v \notin Y.ready[0]
      BY <1>4, <2>2, <2>3, <2>5, <3>1
    <3>3. Slot(Y.mem, Y.root, v, 1) = Absent
      BY <1>3, <2>2, <2>5
    <3> QED BY <3>2, <3>3
  <2> QED BY <2>4, <2>5
<1>9. ASSUME NEW v \in VirtualPages, NEW k \in 0..2, Prefix(v, k) \in Y.ready[k]
      PROVE  Prefix(v, k + 1) \in Y.ready[k + 1]
  <2>1. k \in 0..3 /\ k + 1 \in 0..3
    OBVIOUS
  <2>2. CASE Prefix(v, k) \in X.ready[k]
    <3>1. Prefix(v, k + 1) \in X.ready[k + 1]
      BY <2>2 DEF KernelTree
    <3> QED BY <1>5, <2>1, <3>1
  <2>3. CASE k = n - 1 /\ Prefix(v, k) = Prefix(a, k)
    <3>1. k + 1 = n /\ n \in 0..3 /\ n # 4
      BY <1>1, <2>1, <2>3
    <3>2. Prefix(v, n) = Prefix(a, n)
      BY <1>1, <2>3, SamePrefix
    <3>3. Prefix(a, n) \in X.ready[n]
      BY <1>1, <3>1, KernelTables
    <3> QED BY <1>5, <2>1, <3>1, <3>2, <3>3
  <2> QED BY <1>5, <1>9, <2>1, <2>2, <2>3
<1> QED BY <1>6, <1>7, <1>8, <1>9 DEF KernelTree

(* A page that the kernel gets for a table of its tree. *)
LEMMA GrowKernel ==
  ASSUME NEW X, NEW Y, NEW a \in VirtualPages, NEW n \in 2..4, NEW c,
         Shape(X), DOMAIN X.depth = {}, Y.depth = X.depth, KernelGrown(X, Y, a, n, c)
  PROVE  Shape(Y) /\ Table(Y.mem, Y.root, a, n - 1) = c /\ c # Null
<1>1. n \in Levels /\ n - 1 \in Levels /\ n - 1 \in 1..3 /\ n - 1 \in 0..3 /\ n - 1 \in 0..4
  BY LevelCases
<1>2. MemoryShape(X) /\ ListShape(X) /\ KernelTree(X)
  BY DEF Shape
<1>3. X.root \in DOMAIN X.mem \ {Null} /\ DOMAIN X.mem \subseteq Nat
  BY <1>2 DEF KernelTree, MemoryShape
<1>4. PICK p, i, pl : /\ p = Table(X.mem, X.root, a, n) /\ i = Index(a, n)
                      /\ pl = Place(X.root, n - 1, a)
  OBVIOUS
<1>5. p \in DOMAIN X.mem \ {Null} /\ X.own[p] = Place(X.root, n, a)
  <2>1. p # Null
    BY <1>4 DEF KernelGrown
  <2> QED BY <1>1, <1>2, <1>4, <2>1, KernelTables
<1>6. i \in Indices /\ i \in 0..(Fan[n] - 1)
  BY <1>1, <1>4, IndexFacts, IndicesFacts
<1>7. \A j \in Indices : ZeroPage[j] = Absent
  BY EntryFacts
<1>8. Prefix(a, n - 1) \notin X.ready[n - 1] /\ Y.root = X.root
  BY DEF KernelGrown
<1>9. Grown(X, Y, c, ZeroPage, p, i, Entry(c, FALSE), pl)
  BY <1>4 DEF KernelGrown
<1>10. Taken(X, Y, c, p, pl)
  BY <1>9, GrownFacts
<1>11. KernelTree(Y)
  BY GrowKernelTree
<1>12. \A v \in VirtualPages : PathsGrown(X, Y, a, n, c, v)
  BY GrownPaths
<1>13. Table(Y.mem, Y.root, a, n - 1) = c
  BY <1>12 DEF PathsGrown
<1>14. DOMAIN Y.mem = DOMAIN X.mem /\ c # Null
  BY <1>10 DEF Taken
<1>15. ASSUME NEW q \in DOMAIN Y.mem \ {Null}, Y.own[q] # Nowhere PROVE Held(Y, q) /\ Bounded(Y, q)
  <2>1. CASE q = c
    <3>1. Y.own[q][1] = Y.root /\ Y.own[q][2] = n - 1 /\ Y.own[q] = Place(Y.root, n - 1, a)
      BY <1>4, <1>8, <1>10, <2>1, PlaceFacts DEF Taken
    <3>2. Held(Y, q)
      BY <1>1, <1>13, <2>1, <3>1 DEF Held
    <3>3. Bounded(Y, q)
      BY <1>7, <1>9, <2>1 DEF Bounded, Grown
    <3> QED BY <3>2, <3>3
  <2>2. CASE q # c
    <3>1. q \in DOMAIN X.mem \ {Null} /\ Y.own[q] = X.own[q] /\ X.own[q] # Nowhere
      BY <1>10, <1>14, <1>15, <2>2 DEF Taken
    <3>2. Held(X, q) /\ Bounded(X, q)
      BY <3>1 DEF Shape
    <3>3. Held(Y, q)
      <4>1. PICK k : k = X.own[q][2]
        OBVIOUS
      <4>2. X.own[q][1] = X.root /\ k \in Levels
        BY <3>2, <4>1 DEF Held
      <4>3. PICK v \in VirtualPages : q = Table(X.mem, X.root, v, k) /\ X.own[q] = Place(X.root, k, v)
        BY <3>2, <4>1, <4>2 DEF Held
      <4>4. PathsGrown(X, Y, a, n, c, v)
        BY <1>12
      <4>5. Table(Y.mem, Y.root, v, k) = q
        <5>1. CASE Prefix(v, n - 1) # Prefix(a, n - 1)
          BY <4>2, <4>3, <4>4, <5>1 DEF PathsGrown
        <5>2. CASE k >= n
          BY <4>2, <4>3, <4>4, <5>2 DEF PathsGrown
        <5>3. CASE Prefix(v, n - 1) = Prefix(a, n - 1) /\ k < n
          <6>1. k # 4 /\ k \in 0..3 /\ n - 1 \in k..3
            BY <1>1, <4>2, <5>3 DEF Levels
          <6>2. Prefix(v, k) \in X.ready[k]
            BY <1>2, <3>1, <4>2, <4>3, <6>1, KernelTables
          <6>3. Prefix(v, n - 1) \in X.ready[n - 1]
            BY <1>2, <6>1, <6>2, ReadyUp
          <6> QED BY <1>8, <5>3, <6>3
        <5> QED BY <1>1, <4>2, <5>1, <5>2, <5>3 DEF Levels
      <4>6. Y.own[q] = Place(Y.root, k, v) /\ Y.own[q][1] = Y.root /\ Y.own[q][2] = k
        BY <1>8, <3>1, <4>1, <4>2, <4>3
      <4> QED BY <4>2, <4>5, <4>6 DEF Held
    <3>4. Bounded(Y, q)
      <4>1. CASE q = p
        <5>1. Y.own[q][2] = n /\ X.own[q][2] = n
          BY <1>5, <3>1, <4>1, PlaceFacts
        <5>2. \A j \in Indices : j >= Fan[n] => j # i
          BY <1>1, <1>6, FanFacts
        <5> QED BY <1>9, <3>2, <4>1, <5>1, <5>2 DEF Bounded, Grown
      <4>2. CASE q # p
        <5>1. Y.mem[q] = X.mem[q]
          BY <1>9, <2>2, <3>1, <4>2 DEF Grown
        <5> QED BY <3>1, <3>2, <5>1 DEF Bounded
      <4> QED BY <4>1, <4>2
    <3> QED BY <3>3, <3>4
  <2> QED BY <2>1, <2>2
<1>16. \A s \in DOMAIN Y.depth : UserTree(Y, s)
  OBVIOUS
<1> QED BY <1>10, <1>11, <1>13, <1>14, <1>15, <1>16 DEF Shape, Taken

-----------------------------------------------------------------------------
(* A page is mapped: an entry of a page table is written *)

(* Y is X after entry i of the page table p was set to e. *)
Written(X, Y, p, i, e) ==
    /\ MemoryShape(X) /\ ListShape(X)
    /\ i \in Indices /\ p \in DOMAIN X.mem \ {Null} /\ e.present
    /\ Y.list = X.list /\ Y.own = X.own /\ Y.root = X.root /\ DOMAIN Y.mem = DOMAIN X.mem
    /\ Y.mem \in [DOMAIN X.mem -> [Indices -> Entries]]
    /\ Y.mem[p][i] = e
    /\ \A j \in Indices \ {i} : Y.mem[p][j] = X.mem[p][j]
    /\ \A q \in DOMAIN X.mem \ {p} : Y.mem[q] = X.mem[q]

LEMMA WrittenFacts ==
  ASSUME NEW X, NEW Y, NEW p, NEW i, NEW e, Written(X, Y, p, i, e)
  PROVE  MemoryShape(Y) /\ ListShape(Y) /\ Y.mem[Null] = X.mem[Null]
<1>1. MemoryShape(X) /\ ListShape(X) /\ Null \in DOMAIN X.mem \ {p}
  BY DEF Written, MemoryShape
<1>2. Y.mem[Null] = X.mem[Null]
  BY <1>1 DEF Written
<1>3. ASSUME NEW q \in DOMAIN Y.mem, NEW j \in Indices
      PROVE  Y.mem[q][j].present \/ Y.mem[q][j] = Absent
  <2>1. q \in DOMAIN X.mem
    BY DEF Written
  <2>2. X.mem[q][j].present \/ X.mem[q][j] = Absent
    BY <1>1, <2>1 DEF MemoryShape
  <2>3. CASE q = p
    BY <2>2, <2>3 DEF Written
  <2>4. CASE q # p
    BY <2>1, <2>2, <2>4 DEF Written
  <2> QED BY <2>3, <2>4
<1>4. MemoryShape(Y)
  BY <1>1, <1>2, <1>3 DEF MemoryShape, Written
<1>5. ListShape(Y)
  BY <1>1 DEF ListShape, Written
<1> QED BY <1>2, <1>4, <1>5

(* The kernel maps the page a to itself. *)
KernelLeaf(X, Y, a) ==
    /\ a \in VirtualPages /\ Table(X.mem, X.root, a, 1) # Null
    /\ Written(X, Y, Table(X.mem, X.root, a, 1), Index(a, 1), Entry(a, FALSE))
    /\ Y.ready[0] = X.ready[0] \cup {a} /\ \A k \in 1..3 : Y.ready[k] = X.ready[k]

LEMMA MapKernel ==
  ASSUME NEW X, NEW Y, NEW a, Shape(X), DOMAIN X.depth = {}, Y.depth = X.depth, KernelLeaf(X, Y, a)
  PROVE  Shape(Y)
<1>1. MemoryShape(X) /\ ListShape(X) /\ KernelTree(X)
  BY DEF Shape
<1>2. PICK p, i : p = Table(X.mem, X.root, a, 1) /\ i = Index(a, 1)
  OBVIOUS
<1>3. a \in VirtualPages /\ p # Null /\ Written(X, Y, p, i, Entry(a, FALSE))
  BY <1>2 DEF KernelLeaf
<1>4. 1 \in Levels /\ 1 # 4 /\ 1 - 1 = 0
  BY DEF Levels
<1>5. p \in DOMAIN X.mem \ {Null} /\ X.own[p] = Place(X.root, 1, a) /\ Prefix(a, 1) \in X.ready[1]
  BY <1>1, <1>2, <1>3, <1>4, KernelTables
<1>6. i \in Indices /\ i \in 0..(Fan[1] - 1)
  BY <1>2, <1>3, <1>4, IndexFacts, IndicesFacts
<1>7. MemoryShape(Y) /\ ListShape(Y) /\ Y.mem[Null] = X.mem[Null]
  BY <1>3, WrittenFacts
<1>8. Y.root = X.root /\ Y.own = X.own /\ DOMAIN Y.mem = DOMAIN X.mem
  BY <1>3 DEF Written
<1>9. ASSUME NEW v \in VirtualPages, NEW k \in Levels, Table(X.mem, X.root, v, k) = p
      PROVE  k = 1 /\ Prefix(v, 1) = Prefix(a, 1)
  <2>1. X.own[p] = Place(X.root, k, v)
    BY <1>1, <1>3, <1>9, KernelTables
  <2>2. /\ Place(X.root, k, v)[2] = k /\ Place(X.root, k, v)[3] = Prefix(v, k)
        /\ Place(X.root, 1, a)[2] = 1 /\ Place(X.root, 1, a)[3] = Prefix(a, 1)
    BY PlaceFacts
  <2> QED BY <1>5, <2>1, <2>2
<1>10. ASSUME NEW v \in VirtualPages, NEW k \in Levels, k # 1 \/ v # a
       PROVE  Y.mem[Table(X.mem, X.root, v, k)][Index(v, k)] = Slot(X.mem, X.root, v, k)
  <2>1. PICK q : q = Table(X.mem, X.root, v, k)
    OBVIOUS
  <2>2. Index(v, k) \in Indices /\ q \in DOMAIN X.mem
    BY <1>1, <2>1, IndexFacts, IndicesFacts, KernelTables
  <2>3. CASE q # p
    <3>1. Y.mem[q] = X.mem[q]
      BY <1>3, <2>2, <2>3 DEF Written
    <3> QED BY <2>1, <3>1 DEF Slot
  <2>4. CASE q = p
    <3>1. k = 1 /\ Prefix(v, 1) = Prefix(a, 1) /\ v # a
      BY <1>9, <1>10, <2>1, <2>4
    <3>2. v \in Nat /\ a \in Nat
      BY <1>3, <1>4, IndexFacts
    <3>3. Prefix(v, 0) = v /\ Prefix(a, 0) = a
      BY <3>2, PrefixFacts
    <3>4. Index(v, 1) # i
      BY <1>2, <1>3, <1>4, <3>1, <3>3, SamePrefix
    <3> QED BY <1>3, <2>1, <2>2, <2>4, <3>1, <3>4 DEF Written, Slot
  <2> QED BY <2>3, <2>4
<1>11. ASSUME NEW v \in VirtualPages, NEW k \in Levels
       PROVE  Table(Y.mem, X.root, v, k) = Table(X.mem, X.root, v, k)
  <2>1. \A l \in Levels : l > 1 => Y.mem[Table(X.mem, X.root, v, l)][Index(v, l)] = Slot(X.mem, X.root, v, l)
    BY <1>10
  <2>2. 1 \in Levels /\ k \in 1..4
    BY DEF Levels
  <2>3. \A l \in 1..4 : Table(Y.mem, X.root, v, l) = Table(X.mem, X.root, v, l)
    BY <2>1, <2>2, TableFrame
  <2> QED BY <2>2, <2>3
<1>12. ASSUME NEW v \in VirtualPages, NEW k \in Levels, k # 1 \/ v # a
       PROVE  Slot(Y.mem, Y.root, v, k) = Slot(X.mem, X.root, v, k)
  BY <1>8, <1>10, <1>11, <1>12 DEF Slot
<1>13. Slot(Y.mem, Y.root, a, 1) = Entry(a, FALSE)
  <2>1. Table(Y.mem, Y.root, a, 1) = p
    BY <1>2, <1>3, <1>4, <1>8, <1>11
  <2>2. Y.mem[p][i] = Entry(a, FALSE)
    BY <1>3 DEF Written
  <2> QED BY <1>2, <2>1, <2>2 DEF Slot
<1>14. Y.ready[0] = X.ready[0] \cup {a} /\ \A k \in 1..3 : Y.ready[k] = X.ready[k]
  BY DEF KernelLeaf
<1>15. KernelTree(Y)
  <2>1. ASSUME NEW v \in VirtualPages, NEW k \in 1..3 PROVE KernelNode(Y, v, k)
    <3>1. KernelNode(X, v, k) /\ k \in Levels /\ k + 1 \in Levels /\ k + 1 # 1
      BY <1>1, LevelCases DEF KernelTree
    <3>2. /\ Table(Y.mem, Y.root, v, k) = Table(X.mem, X.root, v, k)
          /\ Slot(Y.mem, Y.root, v, k + 1) = Slot(X.mem, X.root, v, k + 1)
          /\ Y.ready[k] = X.ready[k]
      BY <1>8, <1>11, <1>12, <1>14, <3>1
    <3> QED BY <1>8, <3>1, <3>2 DEF KernelNode
  <2>2. Y.root \in DOMAIN Y.mem \ {Null} /\ Y.own[Y.root] = Place(Y.root, 4, 0)
    BY <1>1, <1>8 DEF KernelTree
  <2>3. ASSUME NEW v \in VirtualPages
        PROVE  Slot(Y.mem, Y.root, v, 1) = IF v \in Y.ready[0] THEN Entry(v, FALSE) ELSE Absent
    <3>1. Slot(X.mem, X.root, v, 1) = IF v \in X.ready[0] THEN Entry(v, FALSE) ELSE Absent
      BY <1>1 DEF KernelTree
    <3>2. CASE v = a
      BY <1>13, <1>14, <3>2
    <3>3. CASE v # a
      BY <1>4, <1>12, <1>14, <3>1, <3>3
    <3> QED BY <3>2, <3>3
  <2>4. ASSUME NEW v \in VirtualPages, NEW k \in 0..2, Prefix(v, k) \in Y.ready[k]
        PROVE  Prefix(v, k + 1) \in Y.ready[k + 1]
    <3>1. Prefix(v, k) \in X.ready[k] => Prefix(v, k + 1) \in X.ready[k + 1]
      BY <1>1 DEF KernelTree
    <3>2. k + 1 \in 1..3
      OBVIOUS
    <3>3. CASE Prefix(v, k) \in X.ready[k]
      BY <1>14, <3>1, <3>2, <3>3
    <3>4. CASE Prefix(v, k) \notin X.ready[k]
      <4>1. k = 0 /\ Prefix(v, 0) = a
        <5>1. k \in 1..3 \/ k = 0
          OBVIOUS
        <5> QED BY <1>14, <2>4, <3>4, <5>1
      <4>2. v \in Nat /\ Prefix(v, 0) = v
        BY <1>4, IndexFacts, PrefixFacts
      <4> QED BY <1>5, <1>14, <3>2, <4>1, <4>2
    <3> QED BY <3>3, <3>4
  <2> QED BY <2>1, <2>2, <2>3, <2>4 DEF KernelTree
<1>16. ASSUME NEW q \in DOMAIN Y.mem \ {Null}, Y.own[q] # Nowhere PROVE Held(Y, q) /\ Bounded(Y, q)
  <2>1. q \in DOMAIN X.mem \ {Null} /\ Held(X, q) /\ Bounded(X, q)
    BY <1>8, <1>16 DEF Shape
  <2>2. Held(Y, q)
    <3>1. PICK k : k = X.own[q][2]
      OBVIOUS
    <3>2. X.own[q][1] = X.root /\ k \in Levels
      BY <2>1, <3>1 DEF Held
    <3>3. PICK v \in VirtualPages : q = Table(X.mem, X.root, v, k) /\ X.own[q] = Place(X.root, k, v)
      BY <2>1, <3>1, <3>2 DEF Held
    <3>4. Table(Y.mem, Y.root, v, k) = q
      BY <1>8, <1>11, <3>2, <3>3
    <3> QED BY <1>8, <3>1, <3>2, <3>3, <3>4 DEF Held
  <2>3. Bounded(Y, q)
    <3>1. CASE q = p
      <4>1. Y.own[q][2] = 1
        BY <1>5, <1>8, <3>1, PlaceFacts
      <4>2. \A j \in Indices : j >= Fan[1] => j # i
        BY <1>4, <1>6, FanFacts
      <4> QED BY <1>3, <1>8, <2>1, <3>1, <4>1, <4>2 DEF Bounded, Written
    <3>2. CASE q # p
      <4>1. Y.mem[q] = X.mem[q]
        BY <1>3, <2>1, <3>2 DEF Written
      <4> QED BY <1>8, <2>1, <4>1 DEF Bounded
    <3> QED BY <3>1, <3>2
  <2> QED BY <2>2, <2>3
<1>17. \A s \in DOMAIN Y.depth : UserTree(Y, s)
  OBVIOUS
<1> QED BY <1>7, <1>15, <1>16, <1>17 DEF Shape

-----------------------------------------------------------------------------
(* The functions of paging.c on a machine *)

MachineOf(m, l, p) == [mem |-> m, list |-> l, at |-> p]

LEMMA StoreFacts ==
  ASSUME NEW m, NEW l, NEW p, NEW t, NEW i, NEW e, NEW next
  PROVE  Store(MachineOf(m, l, p), t, i, e, next)
           = MachineOf([m EXCEPT ![t] = [@ EXCEPT ![i] = e]], l, next)
BY DEF Store, MachineOf

LEMMA MachineFacts ==
  ASSUME NEW m, NEW l, NEW p
  PROVE  /\ MachineOf(m, l, p).mem = m /\ MachineOf(m, l, p).list = l /\ MachineOf(m, l, p).at = p
         /\ \A q : [MachineOf(m, l, p) EXCEPT !.at = q] = MachineOf(m, l, q)
BY DEF MachineOf

LEMMA AllocTable ==
  ASSUME NEW m, NEW l, NEW p
  PROVE  /\ l = <<>> => alloc_table(MachineOf(m, l, p)) = MachineOf(m, l, Null)
         /\ l # <<>> /\ palloc_alloc(l) # Null =>
              alloc_table(MachineOf(m, l, p))
                = MachineOf([m EXCEPT ![palloc_alloc(l)] = ZeroPage], AfterAlloc(l), palloc_alloc(l))
<1>1. CASE l = <<>>
  BY <1>1, MachineFacts DEF alloc_table, palloc_alloc, AfterAlloc, MachineOf
<1>2. CASE l # <<>> /\ palloc_alloc(l) # Null
  BY <1>2, MachineFacts DEF alloc_table, MachineOf
<1> QED BY <1>1, <1>2

(* The three outcomes of get_or_create_next. *)
NextIs(R, m, l, p, i, user) ==
    /\ m[p][i].present =>
          R = MachineOf([m EXCEPT ![p] = [@ EXCEPT ![i] = Entry(m[p][i].addr, m[p][i].user \/ user)]],
                        l, m[p][i].addr)
    /\ ~m[p][i].present /\ l = <<>> => R = MachineOf(m, l, Null)
    /\ ~m[p][i].present /\ l # <<>> /\ palloc_alloc(l) # Null =>
          R = MachineOf([[m EXCEPT ![palloc_alloc(l)] = ZeroPage]
                           EXCEPT ![p] = [@ EXCEPT ![i] = Entry(palloc_alloc(l), user)]],
                        AfterAlloc(l), palloc_alloc(l))

LEMMA NextFacts ==
  ASSUME NEW m, NEW l, NEW p, NEW i, NEW user
  PROVE  NextIs(get_or_create_next(MachineOf(m, l, p), i, user), m, l, p, i, user)
<1> PICK e, c : e = m[p][i] /\ c = palloc_alloc(l)
  OBVIOUS
<1>1. PICK M, A : M = MachineOf(m, l, p) /\ A = alloc_table(M)
  OBVIOUS
<1>2. M.mem = m /\ M.list = l /\ M.at = p
  BY <1>1, MachineFacts
<1>3. get_or_create_next(M, i, user) =
        IF e.present THEN Store(M, p, i, Entry(e.addr, e.user \/ user), e.addr)
        ELSE IF A.at = Null THEN A ELSE Store(A, p, i, Entry(A.at, user), A.at)
  BY <1>1, <1>2 DEF get_or_create_next
<1>4. CASE e.present
  <2>1. Store(M, p, i, Entry(e.addr, e.user \/ user), e.addr)
          = MachineOf([m EXCEPT ![p] = [@ EXCEPT ![i] = Entry(e.addr, e.user \/ user)]], l, e.addr)
    BY <1>2 DEF Store, MachineOf
  <2> QED BY <1>1, <1>3, <1>4, <2>1 DEF NextIs
<1>5. CASE ~e.present /\ l = <<>>
  <2>1. A = MachineOf(m, l, Null)
    BY <1>1, <1>5, AllocTable
  <2>2. A.at = Null
    BY <2>1 DEF MachineOf
  <2> QED BY <1>1, <1>3, <1>5, <2>1, <2>2 DEF NextIs
<1>6. CASE ~e.present /\ l # <<>> /\ c # Null
  <2>1. A = MachineOf([m EXCEPT ![c] = ZeroPage], AfterAlloc(l), c)
    BY <1>1, <1>6, AllocTable
  <2>2. A.at = c
    BY <2>1, MachineFacts
  <2>3. PICK mm : mm = [m EXCEPT ![c] = ZeroPage]
    OBVIOUS
  <2>4. Store(MachineOf(mm, AfterAlloc(l), c), p, i, Entry(c, user), c)
          = MachineOf([mm EXCEPT ![p] = [@ EXCEPT ![i] = Entry(c, user)]], AfterAlloc(l), c)
    BY DEF Store, MachineOf
  <2>5. get_or_create_next(M, i, user) = Store(A, p, i, Entry(c, user), c)
    BY <1>3, <1>6, <2>2
  <2>6. get_or_create_next(M, i, user)
          = MachineOf([mm EXCEPT ![p] = [@ EXCEPT ![i] = Entry(c, user)]], AfterAlloc(l), c)
    BY <2>1, <2>3, <2>4, <2>5, Zenon
  <2> QED BY <1>1, <1>6, <2>3, <2>6 DEF NextIs
<1> QED BY <1>1, <1>4, <1>5, <1>6 DEF NextIs

(* The allocator's first page becomes the table T, and is entered in p. *)
Takes(X, Y, c, T, p, i, e, pl) ==
    /\ MemoryShape(X) /\ ListShape(X) /\ X.list # <<>> /\ c = palloc_alloc(X.list)
    /\ i \in Indices /\ p \in DOMAIN X.mem \ {Null} /\ X.own[p] # Nowhere
    /\ T \in [Indices -> Entries] /\ \A j \in Indices : T[j].present \/ T[j] = Absent
    /\ e \in Entries /\ (e.present \/ e = Absent)
    /\ Y.mem = [[X.mem EXCEPT ![c] = T] EXCEPT ![p] = [@ EXCEPT ![i] = e]]
    /\ Y.list = AfterAlloc(X.list)
    /\ pl \in Nat \X Nat \X Nat /\ pl # Nowhere /\ Y.own = [X.own EXCEPT ![c] = pl]

LEMMA TakesGrows ==
  ASSUME NEW X, NEW Y, NEW c, NEW T, NEW p, NEW i, NEW e, NEW pl, Takes(X, Y, c, T, p, i, e, pl)
  PROVE  Grown(X, Y, c, T, p, i, e, pl)
<1>1. X.list \in Seq(DOMAIN X.mem \ {Null}) /\ IsInjective(X.list) /\ X.list # <<>>
  BY DEF Takes, ListShape
<1>2. /\ c \in ToSet(X.list) /\ Y.list \in Seq(DOMAIN X.mem \ {Null}) /\ IsInjective(Y.list)
      /\ ToSet(Y.list) = ToSet(X.list) \ {c}
  <2>1. PICK S : S = DOMAIN X.mem \ {Null}
    OBVIOUS
  <2>2. PICK l \in Seq(S) : l = X.list
    BY <1>1, <2>1
  <2>3. /\ palloc_alloc(l) \in ToSet(l) /\ AfterAlloc(l) \in Seq(S) /\ IsInjective(AfterAlloc(l))
        /\ ToSet(AfterAlloc(l)) = ToSet(l) \ {palloc_alloc(l)}
    BY <1>1, <2>2, AllocFacts
  <2>4. c = palloc_alloc(l) /\ Y.list = AfterAlloc(l)
    BY <2>2 DEF Takes
  <2> QED BY <2>1, <2>2, <2>3, <2>4, Zenon
<1>3. ToSet(X.list) \subseteq DOMAIN X.mem \ {Null}
  BY <1>1, ListFacts
<1>4. c \in DOMAIN X.mem /\ X.own[c] = Nowhere /\ c # Null
  BY <1>2, <1>3 DEF Takes, ListShape
<1>5. p \in DOMAIN X.mem \ {Null} /\ X.own[p] # Nowhere /\ i \in Indices /\ c # p
  BY <1>4 DEF Takes
<1>6. /\ X.mem \in [DOMAIN X.mem -> [Indices -> Entries]]
      /\ T \in [Indices -> Entries] /\ e \in Entries
      /\ Y.mem = [[X.mem EXCEPT ![c] = T] EXCEPT ![p] = [@ EXCEPT ![i] = e]]
  BY DEF Takes, MemoryShape
<1>7. PICK g : g = [X.mem EXCEPT ![c] = T]
  OBVIOUS
<1>8. g \in [DOMAIN X.mem -> [Indices -> Entries]] /\ g[c] = T
      /\ \A q \in DOMAIN X.mem : q # c => g[q] = X.mem[q]
  BY <1>4, <1>6, <1>7
<1>9. Y.mem = [g EXCEPT ![p] = [g[p] EXCEPT ![i] = e]]
  BY <1>6, <1>7
<1>10. PICK t : t = [g[p] EXCEPT ![i] = e]
  OBVIOUS
<1>11. t \in [Indices -> Entries] /\ t[i] = e /\ \A j \in Indices \ {i} : t[j] = g[p][j]
  BY <1>5, <1>6, <1>8, <1>10
<1>12. /\ Y.mem \in [DOMAIN X.mem -> [Indices -> Entries]] /\ Y.mem[p] = t
       /\ \A q \in DOMAIN X.mem : q # p => Y.mem[q] = g[q]
  BY <1>5, <1>8, <1>9, <1>10, <1>11
<1>13. /\ DOMAIN Y.mem = DOMAIN X.mem
       /\ Y.mem[c] = T /\ Y.mem[p][i] = e
       /\ \A j \in Indices \ {i} : Y.mem[p][j] = X.mem[p][j]
       /\ \A q \in DOMAIN X.mem \ {c, p} : Y.mem[q] = X.mem[q]
  BY <1>4, <1>5, <1>8, <1>11, <1>12
<1> QED BY <1>2, <1>12, <1>13 DEF Grown, Takes

(* A machine whose function could not allocate a table: it halts. *)
Failed(m, X0) ==
    /\ m.at = Null /\ m.mem \in [DOMAIN X0.mem -> [Indices -> Entries]]
    /\ m.list \in Seq(DOMAIN X0.mem \ {Null})

(* A machine on its way down the kernel's tree to a, at level n. *)
Reached(X0, X, a, n) ==
    /\ X.root = X0.root /\ X.depth = X0.depth /\ X.mapped = X0.mapped
    /\ DOMAIN X.mem = DOMAIN X0.mem
    /\ \A k \in 0..3 : X.ready[k] = IF k >= n THEN X0.ready[k] \cup {Prefix(a, k)} ELSE X0.ready[k]
KernelWay(m, a, n, X0, X) ==
    /\ Shape(X) /\ Reached(X0, X, a, n) /\ DOMAIN X.depth = {}
    /\ Table(X.mem, X.root, a, n) # Null
    /\ m = MachineOf(X.mem, X.list, Table(X.mem, X.root, a, n))

LEMMA KernelDown ==
  ASSUME NEW X0, NEW X, NEW m, NEW a \in VirtualPages, NEW n \in 2..4, KernelWay(m, a, n, X0, X)
  PROVE  \/ Failed(Down(m, a, n, FALSE), X0)
         \/ \E Y : KernelWay(Down(m, a, n, FALSE), a, n - 1, X0, Y)
<1>1. n \in Levels /\ n - 1 \in Levels /\ n - 1 \in 1..3 /\ n - 1 \in 0..3 /\ n - 1 + 1 = n
  BY LevelCases
<1>2. PICK p, i, e, R : /\ p = Table(X.mem, X.root, a, n) /\ i = Index(a, n)
                        /\ e = X.mem[p][i] /\ R = Down(m, a, n, FALSE)
  OBVIOUS
<1>3. /\ Shape(X) /\ MemoryShape(X) /\ ListShape(X) /\ KernelTree(X) /\ Reached(X0, X, a, n)
      /\ DOMAIN X.depth = {} /\ p # Null /\ m = MachineOf(X.mem, X.list, p)
  BY <1>2 DEF KernelWay, Shape
<1>4. m.at = p /\ m.mem = X.mem /\ m.list = X.list
  BY <1>3, MachineFacts
<1>5. e = Slot(X.mem, X.root, a, n)
  BY <1>2 DEF Slot
<1>6. KernelNode(X, a, n - 1)
  BY <1>1, <1>3 DEF KernelTree
<1>7. R = get_or_create_next(m, i, FALSE)
  BY <1>2, <1>3, <1>4 DEF Down
<1>8. PICK k : k = n - 1
  OBVIOUS
<1> NextIs(R, X.mem, X.list, p, i, FALSE)
  BY <1>3, <1>7, NextFacts
<1>9. CASE Prefix(a, k) \in X.ready[k]
  <2>1. PICK q : q = Table(X.mem, X.root, a, k)
    OBVIOUS
  <2>2. e = Entry(q, FALSE) /\ q \in DOMAIN X.mem \ {Null}
    BY <1>1, <1>5, <1>6, <1>8, <1>9, <2>1 DEF KernelNode
  <2>3. e.present = TRUE /\ e.addr = q /\ (e.user \/ FALSE) = FALSE
    BY <2>2 DEF Entry
  <2>4. R = MachineOf([X.mem EXCEPT ![p] = [@ EXCEPT ![i] = Entry(q, FALSE)]], X.list, q)
    BY <1>2, <2>3 DEF NextIs
  <2>5. p \in DOMAIN X.mem /\ i \in Indices /\ X.mem[p] \in [Indices -> Entries]
    BY <1>1, <1>2, <1>3, KernelTables, IndexFacts, IndicesFacts DEF MemoryShape
  <2>6. [X.mem EXCEPT ![p] = [@ EXCEPT ![i] = Entry(q, FALSE)]] = X.mem
    <3>1. [X.mem[p] EXCEPT ![i] = e] = X.mem[p]
      BY <1>2, <2>5
    <3>2. X.mem \in [DOMAIN X.mem -> [Indices -> Entries]]
      BY <1>3 DEF MemoryShape
    <3> QED BY <2>2, <2>5, <3>1, <3>2
  <2>7. R = MachineOf(X.mem, X.list, q)
    BY <2>4, <2>6, Zenon
  <2>8. Reached(X0, X, a, k)
    <3>1. ASSUME NEW l \in 0..3
          PROVE  X.ready[l] = IF l >= k THEN X0.ready[l] \cup {Prefix(a, l)} ELSE X0.ready[l]
      <4>1. X.ready[l] = IF l >= n THEN X0.ready[l] \cup {Prefix(a, l)} ELSE X0.ready[l]
        BY <1>3 DEF Reached
      <4>2. CASE l = k
        BY <1>1, <1>8, <1>9, <4>1, <4>2
      <4>3. CASE l # k
        <5>1. l >= n <=> l >= k
          BY <1>1, <1>8, <4>3
        <5> QED BY <4>1, <5>1
      <4> QED BY <4>2, <4>3
    <3> QED BY <1>3, <3>1 DEF Reached
  <2>9. KernelWay(R, a, k, X0, X)
    BY <1>3, <2>1, <2>2, <2>7, <2>8 DEF KernelWay
  <2> QED BY <1>2, <1>8, <2>9
<1>10. CASE Prefix(a, k) \notin X.ready[k]
  <2>1. e = Absent
    BY <1>1, <1>5, <1>6, <1>8, <1>10 DEF KernelNode
  <2>2. ~e.present
    BY <2>1, EntryFacts
  <2>3. X.list \in Seq(DOMAIN X.mem \ {Null}) /\ IsInjective(X.list)
    BY <1>3 DEF ListShape
  <2>4. CASE X.list = <<>>
    <3>2. R = MachineOf(X.mem, X.list, Null)
      BY <1>2, <2>2, <2>4 DEF NextIs
    <3>3. X.mem \in [DOMAIN X0.mem -> [Indices -> Entries]] /\ DOMAIN X.mem = DOMAIN X0.mem
      BY <1>3 DEF MemoryShape, Reached
    <3>4. Failed(R, X0)
      BY <2>3, <3>2, <3>3, MachineFacts DEF Failed
    <3> QED BY <1>2, <3>4
  <2>5. CASE X.list # <<>>
    <3>1. PICK c, pl : c = palloc_alloc(X.list) /\ pl = Place(X.root, k, a)
      OBVIOUS
    <3>2. c \in DOMAIN X.mem \ {Null}
      BY <2>3, <2>5, <3>1, TypedOperations
    <3>5. PICK mm : mm = [[X.mem EXCEPT ![c] = ZeroPage] EXCEPT ![p] = [@ EXCEPT ![i] = Entry(c, FALSE)]]
      OBVIOUS
    <3>6. R = MachineOf(mm, AfterAlloc(X.list), c)
      <4>1. c # Null
        BY <3>2
      <4> QED BY <1>2, <2>2, <2>5, <3>1, <3>5, <4>1 DEF NextIs
    <3>7. PICK Y : Y = [mem |-> mm, list |-> AfterAlloc(X.list), own |-> [X.own EXCEPT ![c] = pl],
                        root |-> X.root, depth |-> X.depth, mapped |-> X.mapped,
                        ready |-> [l \in 0..3 |-> IF l = k THEN X.ready[l] \cup {Prefix(a, l)}
                                                          ELSE X.ready[l]]]
      OBVIOUS
    <3>8. /\ Y.mem = mm /\ Y.list = AfterAlloc(X.list) /\ Y.own = [X.own EXCEPT ![c] = pl]
          /\ Y.root = X.root /\ Y.depth = X.depth /\ Y.mapped = X.mapped
          /\ Y.ready = [l \in 0..3 |-> IF l = k THEN X.ready[l] \cup {Prefix(a, l)} ELSE X.ready[l]]
      BY <3>7
    <3>9. Takes(X, Y, c, ZeroPage, p, i, Entry(c, FALSE), pl)
      <4>1. i \in Indices /\ p \in DOMAIN X.mem \ {Null} /\ X.own[p] # Nowhere
        <5>1. X.own[p] = Place(X.root, n, a) /\ p \in DOMAIN X.mem
          BY <1>1, <1>2, <1>3, KernelTables
        <5>2. X.root # Null
          BY <1>3 DEF KernelTree
        <5> QED BY <1>1, <1>2, <1>3, <5>1, <5>2, PlaceFacts, IndexFacts, IndicesFacts
      <4>2. DOMAIN X.mem \subseteq Nat /\ X.root \in DOMAIN X.mem \ {Null}
        BY <1>3 DEF MemoryShape, KernelTree
      <4>3. Prefix(a, k) \in Nat /\ k \in Nat
        BY <1>1, <1>8, IndexFacts
      <4>4. pl \in Nat \X Nat \X Nat
        BY <3>1, <4>2, <4>3 DEF Place
      <4>5. pl # Nowhere
        BY <3>1, <4>2, PlaceFacts
      <4>6. /\ ZeroPage \in [Indices -> Entries]
            /\ \A j \in Indices : ZeroPage[j].present \/ ZeroPage[j] = Absent
        BY EntryFacts
      <4>7. Entry(c, FALSE) \in Entries /\ Entry(c, FALSE).present
        BY <3>2, <4>2, EntryFacts
      <4> QED BY <1>3, <2>5, <3>1, <3>5, <3>8, <4>1, <4>4, <4>5, <4>6, <4>7 DEF Takes
    <3>10. Grown(X, Y, c, ZeroPage, p, i, Entry(c, FALSE), pl)
      BY <3>9, TakesGrows
    <3>11. Y.ready[k] = X.ready[k] \cup {Prefix(a, k)} /\ \A l \in 0..3 : l # k => Y.ready[l] = X.ready[l]
      BY <1>1, <1>8, <3>8
    <3>12. KernelGrown(X, Y, a, n, c)
      BY <1>2, <1>3, <1>8, <1>10, <3>1, <3>8, <3>10, <3>11 DEF KernelGrown
    <3>13. Shape(Y) /\ Table(Y.mem, Y.root, a, k) = c /\ c # Null
      BY <1>3, <1>8, <3>8, <3>12, GrowKernel
    <3>14. Reached(X0, Y, a, k)
      <4>1. ASSUME NEW l \in 0..3
            PROVE  Y.ready[l] = IF l >= k THEN X0.ready[l] \cup {Prefix(a, l)} ELSE X0.ready[l]
        <5>1. X.ready[l] = IF l >= n THEN X0.ready[l] \cup {Prefix(a, l)} ELSE X0.ready[l]
          BY <1>3 DEF Reached
        <5>2. CASE l = k
          <6>1. ~(l >= n) /\ l >= k
            BY <1>1, <1>8, <5>2
          <6> QED BY <3>11, <5>1, <5>2, <6>1
        <5>3. CASE l # k
          <6>1. l >= n <=> l >= k
            BY <1>1, <1>8, <5>3
          <6> QED BY <3>11, <5>1, <5>3, <6>1
        <5> QED BY <5>2, <5>3
      <4>2. DOMAIN Y.mem = DOMAIN X.mem
        BY <3>10 DEF Grown
      <4> QED BY <1>3, <3>8, <4>1, <4>2 DEF Reached
    <3>15. KernelWay(R, a, k, X0, Y)
      BY <1>3, <3>6, <3>8, <3>13, <3>14 DEF KernelWay
    <3> QED BY <1>2, <1>8, <3>15
  <2> QED BY <2>4, <2>5
<1> QED BY <1>9, <1>10

(* map_page_4k for the kernel: the page a is mapped to itself, or there is *)
(* no page left for a table.                                               *)
KernelMapsTo(R, X, a) ==
    \/ Failed(R, X)
    \/ \E Y : Shape(Y) /\ Reached(X, Y, a, 0) /\ R.mem = Y.mem /\ R.list = Y.list /\ R.at # Null

LEMMA KernelMap ==
  ASSUME NEW X, NEW p, NEW a \in VirtualPages, Shape(X), DOMAIN X.depth = {}
  PROVE  KernelMapsTo(map_page_4k(MachineOf(X.mem, X.list, p), X.root, a, a, FALSE), X, a)
<1> DEFINE At(R, n) == Failed(R, X) \/ \E Y : KernelWay(R, a, n, X, Y)
<1>1. PICK m4, m3, m2, m1 :
        /\ m4 = [MachineOf(X.mem, X.list, p) EXCEPT !.at = X.root]
        /\ m3 = Down(m4, a, 4, FALSE) /\ m2 = Down(m3, a, 3, FALSE) /\ m1 = Down(m2, a, 2, FALSE)
  OBVIOUS
<1>2. At(m4, 4)
  <2>1. m4 = MachineOf(X.mem, X.list, X.root)
    BY <1>1, MachineFacts
  <2>2. X.root # Null /\ Table(X.mem, X.root, a, 4) = X.root
    BY TableDown DEF Shape, KernelTree
  <2>3. Reached(X, X, a, 4)
    BY DEF Reached
  <2>4. KernelWay(m4, a, 4, X, X)
    BY <2>1, <2>2, <2>3 DEF KernelWay
  <2> QED BY <2>4
<1>3. ASSUME NEW m, NEW n \in 2..4, At(m, n) PROVE At(Down(m, a, n, FALSE), n - 1)
  <2>1. CASE Failed(m, X)
    BY <2>1 DEF Failed, Down
  <2>2. CASE \E Y : KernelWay(m, a, n, X, Y)
    BY <2>2, KernelDown
  <2> QED BY <1>3, <2>1, <2>2
<1>4. At(m3, 3) /\ At(m2, 2) /\ At(m1, 1)
  <2> HIDE DEF At
  <2>1. 4 \in 2..4 /\ 3 \in 2..4 /\ 2 \in 2..4 /\ 4 - 1 = 3 /\ 3 - 1 = 2 /\ 2 - 1 = 1
    OBVIOUS
  <2>2. At(m3, 3)
    BY <1>1, <1>2, <1>3, <2>1
  <2>3. At(m2, 2)
    BY <1>1, <1>3, <2>1, <2>2
  <2> QED BY <1>1, <1>3, <2>1, <2>2, <2>3
<1>5. PICK R : R = map_page_4k(MachineOf(X.mem, X.list, p), X.root, a, a, FALSE)
  OBVIOUS
<1>6. R = IF m1.at = Null THEN m1 ELSE Store(m1, m1.at, Index(a, 1), Entry(a, FALSE), m1.at)
  BY <1>1, <1>5 DEF map_page_4k
<1>7. CASE Failed(m1, X)
  <2>1. R = m1
    BY <1>6, <1>7 DEF Failed
  <2> QED BY <1>5, <1>7, <2>1 DEF KernelMapsTo
<1>8. CASE \E Y : KernelWay(m1, a, 1, X, Y)
  <2>1. PICK W : KernelWay(m1, a, 1, X, W)
    BY <1>8
  <2>2. PICK q, i, e : q = Table(W.mem, W.root, a, 1) /\ i = Index(a, 1) /\ e = Entry(a, FALSE)
    OBVIOUS
  <2>3. /\ Shape(W) /\ MemoryShape(W) /\ ListShape(W) /\ KernelTree(W) /\ Reached(X, W, a, 1)
        /\ DOMAIN W.depth = {} /\ q # Null /\ m1 = MachineOf(W.mem, W.list, q)
    BY <2>1, <2>2 DEF KernelWay, Shape
  <2>4. m1.at = q
    BY <2>3, MachineFacts
  <2>5. PICK mm : mm = [W.mem EXCEPT ![q] = [@ EXCEPT ![i] = e]]
    OBVIOUS
  <2>6. R.mem = mm /\ R.list = W.list /\ R.at = q
    <3>1. R = Store(m1, q, i, e, q)
      BY <1>6, <2>2, <2>3, <2>4
    <3>2. m1.mem = W.mem /\ m1.list = W.list
      BY <2>3, MachineFacts
    <3> QED BY <2>5, <3>1, <3>2 DEF Store
  <2>7. PICK Y : Y = [mem |-> mm, list |-> W.list, own |-> W.own,
                      root |-> W.root, depth |-> W.depth, mapped |-> W.mapped,
                      ready |-> [l \in 0..3 |-> IF l = 0 THEN W.ready[l] \cup {a} ELSE W.ready[l]]]
    OBVIOUS
  <2>8. /\ Y.mem = mm /\ Y.list = W.list /\ Y.own = W.own
        /\ Y.root = W.root /\ Y.depth = W.depth /\ Y.mapped = W.mapped
        /\ Y.ready = [l \in 0..3 |-> IF l = 0 THEN W.ready[l] \cup {a} ELSE W.ready[l]]
    BY <2>7
  <2>9. Y.ready[0] = W.ready[0] \cup {a} /\ \A k \in 1..3 : Y.ready[k] = W.ready[k]
    BY <2>8
  <2>10. 1 \in Levels
    BY DEF Levels
  <2>11. q \in DOMAIN W.mem /\ i \in Indices /\ a \in Nat
    BY <2>2, <2>3, <2>10, KernelTables, IndexFacts, IndicesFacts
  <2>12. e \in Entries /\ e.present
    BY <2>2, <2>11, EntryFacts
  <2>13. W.mem \in [DOMAIN W.mem -> [Indices -> Entries]]
    BY <2>3 DEF MemoryShape
  <2>14. /\ Y.mem \in [DOMAIN W.mem -> [Indices -> Entries]] /\ DOMAIN Y.mem = DOMAIN W.mem
         /\ Y.mem[q][i] = e
         /\ \A j \in Indices \ {i} : Y.mem[q][j] = W.mem[q][j]
         /\ \A r \in DOMAIN W.mem \ {q} : Y.mem[r] = W.mem[r]
    BY <2>5, <2>8, <2>11, <2>12, <2>13
  <2>15. Written(W, Y, q, i, e)
    BY <2>3, <2>8, <2>11, <2>12, <2>14 DEF Written
  <2>16. KernelLeaf(W, Y, a)
    BY <2>2, <2>3, <2>9, <2>15 DEF KernelLeaf
  <2>17. Shape(Y)
    BY <2>3, <2>8, <2>16, MapKernel
  <2>18. Reached(X, Y, a, 0)
    <3>1. ASSUME NEW k \in 0..3
          PROVE  Y.ready[k] = IF k >= 0 THEN X.ready[k] \cup {Prefix(a, k)} ELSE X.ready[k]
      <4>1. W.ready[k] = IF k >= 1 THEN X.ready[k] \cup {Prefix(a, k)} ELSE X.ready[k]
        BY <2>3 DEF Reached
      <4>2. CASE k = 0
        <5>1. Prefix(a, 0) = a
          BY <2>11, PrefixFacts
        <5> QED BY <2>9, <4>1, <4>2, <5>1
      <4>3. CASE k # 0
        <5>1. k \in 1..3 /\ k >= 1 /\ k >= 0
          BY <4>3
        <5> QED BY <2>9, <4>1, <5>1
      <4> QED BY <4>2, <4>3
    <3> QED BY <2>3, <2>8, <2>14, <3>1 DEF Reached
  <2> QED BY <1>5, <2>3, <2>6, <2>8, <2>17, <2>18 DEF KernelMapsTo
<1> QED BY <1>4, <1>7, <1>8

-----------------------------------------------------------------------------
(* Steps of one user space *)

(* From X to Y the pages of the kernel and of all spaces but s are the     *)
(* same.                                                                   *)
Foreign(X, Y, s) ==
    /\ Y.root = X.root /\ Y.ready = X.ready /\ DOMAIN Y.mem = DOMAIN X.mem
    /\ Y.mem[Null] = X.mem[Null] /\ s # X.root
    /\ \A p \in DOMAIN X.mem : X.own[p] # Nowhere /\ X.own[p][1] # s =>
          Y.mem[p] = X.mem[p] /\ Y.own[p] = X.own[p]
    /\ \A t \in DOMAIN X.depth : t # s =>
          t \in DOMAIN Y.depth /\ Y.depth[t] = X.depth[t] /\ Y.mapped[t] = X.mapped[t]

LEMMA ForeignFrame ==
  ASSUME NEW X, NEW Y, NEW s, Shape(X), Foreign(X, Y, s)
  PROVE  /\ KernelTree(Y)
         /\ \A v \in VirtualPages, n \in Levels :
              /\ Table(Y.mem, X.root, v, n) = Table(X.mem, X.root, v, n)
              /\ Y.mem[Table(X.mem, X.root, v, n)] = X.mem[Table(X.mem, X.root, v, n)]
         /\ \A t \in DOMAIN X.depth : t # s => UserTree(Y, t)
         /\ \A p \in DOMAIN X.mem \ {Null} : X.own[p] # Nowhere /\ X.own[p][1] # s =>
              Held(Y, p) /\ Bounded(Y, p)
<1>1. MemoryShape(X) /\ ListShape(X) /\ KernelTree(X) /\ X.root \in DOMAIN X.mem \ {Null}
  BY DEF Shape, KernelTree
<1>2. /\ Y.root = X.root /\ Y.ready = X.ready /\ DOMAIN Y.mem = DOMAIN X.mem
      /\ Y.mem[Null] = X.mem[Null] /\ s # X.root
  BY DEF Foreign
<1>3. ASSUME NEW p \in DOMAIN X.mem, X.own[p] # Nowhere, X.own[p][1] # s
      PROVE  Y.mem[p] = X.mem[p] /\ Y.own[p] = X.own[p]
  BY <1>3 DEF Foreign
<1>4. \A p \in DOMAIN X.mem : X.own[p][1] = X.root => Y.mem[p] = X.mem[p] /\ Y.own[p] = X.own[p]
  BY <1>1, <1>2, <1>3, PlaceFacts
<1>5. /\ KernelTree(Y)
      /\ \A v \in VirtualPages, n \in Levels :
           /\ Table(Y.mem, X.root, v, n) = Table(X.mem, X.root, v, n)
           /\ Y.mem[Table(X.mem, X.root, v, n)] = X.mem[Table(X.mem, X.root, v, n)]
  BY <1>1, <1>2, <1>4, KernelFrame
<1>6. ASSUME NEW t \in DOMAIN X.depth, t # s
      PROVE  /\ UserTree(Y, t)
             /\ \A n \in X.depth[t]..4 : Table(Y.mem, t, Trampoline, n) = Table(X.mem, t, Trampoline, n)
  <2>1. UserTree(X, t) /\ t # Null
    BY DEF Shape, UserTree
  <2>2. Y.depth[t] = X.depth[t] /\ Y.mapped[t] = X.mapped[t]
    BY <1>6 DEF Foreign
  <2>3. \A p \in DOMAIN X.mem : X.own[p][1] = t => Y.mem[p] = X.mem[p] /\ Y.own[p] = X.own[p]
    BY <1>3, <1>6, <2>1, PlaceFacts
  <2>4. Trampoline \in VirtualPages
    BY LayoutFacts
  <2>5. \A n \in Levels :
           /\ Table(Y.mem, X.root, Trampoline, n) = Table(X.mem, X.root, Trampoline, n)
           /\ Y.mem[Table(X.mem, X.root, Trampoline, n)] = X.mem[Table(X.mem, X.root, Trampoline, n)]
    BY <1>5, <2>4
  <2> QED BY <1>2, <2>1, <2>2, <2>3, <2>5, UserFrame
<1>7. ASSUME NEW p \in DOMAIN X.mem \ {Null}, X.own[p] # Nowhere, X.own[p][1] # s
      PROVE  Held(Y, p) /\ Bounded(Y, p)
  <2>1. Held(X, p) /\ Bounded(X, p)
    BY <1>7 DEF Shape
  <2>2. Y.mem[p] = X.mem[p] /\ Y.own[p] = X.own[p]
    BY <1>3, <1>7
  <2>3. Bounded(Y, p)
    BY <2>1, <2>2 DEF Bounded
  <2>4. PICK r, n : r = X.own[p][1] /\ n = X.own[p][2]
    OBVIOUS
  <2>5. CASE /\ r = X.root /\ n \in Levels
             /\ \E v \in VirtualPages : p = Table(X.mem, X.root, v, n) /\ X.own[p] = Place(r, n, v)
    <3>1. \E v \in VirtualPages : p = Table(Y.mem, Y.root, v, n) /\ Y.own[p] = Place(r, n, v)
      BY <1>2, <1>5, <2>2, <2>5
    <3>2. Held(Y, p)
      BY <1>2, <2>2, <2>4, <2>5, <3>1 DEF Held
    <3> QED BY <2>3, <3>2
  <2>6. CASE /\ r \in DOMAIN X.depth /\ n \in X.depth[r]..4
             /\ p = Table(X.mem, r, Trampoline, n)
    <3>1. r # s
      BY <1>7, <2>4
    <3>2. r \in DOMAIN Y.depth /\ Y.depth[r] = X.depth[r]
      BY <2>6, <3>1 DEF Foreign
    <3>3. p = Table(Y.mem, r, Trampoline, n)
      BY <1>6, <2>6, <3>1
    <3>4. Held(Y, p)
      BY <2>2, <2>4, <2>6, <3>2, <3>3 DEF Held
    <3> QED BY <2>3, <3>4
  <2> QED BY <2>1, <2>4, <2>5, <2>6 DEF Held
<1> QED BY <1>5, <1>6, <1>7

(* The private tables of a space are different pages. *)
LEMMA UserPath ==
  ASSUME NEW X, NEW s \in DOMAIN X.depth, Shape(X), NEW n \in X.depth[s]..4, NEW p,
         p = Table(X.mem, s, Trampoline, n)
  PROVE  /\ p \in DOMAIN X.mem \ {Null} /\ X.own[p] = Place(s, n, Trampoline)
         /\ X.own[p][1] = s /\ X.own[p][2] = n /\ X.own[p] # Nowhere
         /\ n \in Levels /\ UserNode(X, s, n)
<1>1. X.depth[s] \in Levels /\ s # Null /\ UserNode(X, s, n)
  BY DEF Shape, UserTree
<1>2. n \in Levels
  BY <1>1 DEF Levels
<1>3. p \in DOMAIN X.mem \ {Null} /\ X.own[p] = Place(s, n, Trampoline)
  BY <1>1 DEF UserNode
<1> QED BY <1>1, <1>2, <1>3, PlaceFacts

(* The space s gets a table of level d - 1 of its own, which holds what    *)
(* the kernel's table at its place holds.                                  *)
UserGrown(X, Y, s, d, c) ==
    /\ s \in DOMAIN X.depth /\ X.depth[s] = d /\ d \in 2..4
    /\ Grown(X, Y, c, X.mem[Table(X.mem, X.root, Trampoline, d - 1)],
             Table(X.mem, s, Trampoline, d), Index(Trampoline, d), Entry(c, TRUE),
             Place(s, d - 1, Trampoline))
    /\ Y.root = X.root /\ Y.ready = X.ready /\ Y.mapped = X.mapped
    /\ DOMAIN Y.depth = DOMAIN X.depth /\ Y.depth[s] = d - 1
    /\ \A t \in DOMAIN X.depth : t # s => Y.depth[t] = X.depth[t]

LEMMA GrowUser ==
  ASSUME NEW X, NEW Y, NEW s, NEW d, NEW c, Shape(X), UserGrown(X, Y, s, d, c)
  PROVE  Shape(Y) /\ Table(Y.mem, s, Trampoline, d - 1) = c /\ c # Null
<1>1. /\ s \in DOMAIN X.depth /\ X.depth[s] = d /\ d \in 2..4
      /\ Y.root = X.root /\ Y.ready = X.ready /\ Y.mapped = X.mapped
      /\ DOMAIN Y.depth = DOMAIN X.depth /\ Y.depth[s] = d - 1
  BY DEF UserGrown
<1>2. d \in Levels /\ d - 1 \in Levels /\ d - 1 \in 1..3 /\ d \in d..4 /\ Trampoline \in VirtualPages
  BY <1>1, LevelCases, LayoutFacts
<1>3. PICK p, i, T, pl : /\ p = Table(X.mem, s, Trampoline, d) /\ i = Index(Trampoline, d)
                         /\ T = X.mem[Table(X.mem, X.root, Trampoline, d - 1)]
                         /\ pl = Place(s, d - 1, Trampoline)
  OBVIOUS
<1>4. Grown(X, Y, c, T, p, i, Entry(c, TRUE), pl)
  BY <1>3 DEF UserGrown
<1>5. Taken(X, Y, c, p, pl)
  BY <1>4, GrownFacts
<1>6. /\ c \in DOMAIN X.mem \ {Null} /\ X.own[c] = Nowhere /\ c # p /\ Y.own[c] = pl
      /\ DOMAIN Y.mem = DOMAIN X.mem /\ MemoryShape(Y) /\ ListShape(Y)
      /\ \A q \in DOMAIN X.mem : q # c => Y.own[q] = X.own[q]
  BY <1>5 DEF Taken
<1>7. s # X.root /\ s # Null /\ UserTree(X, s) /\ MemoryShape(X) /\ KernelTree(X)
  BY <1>1 DEF Shape, UserTree
<1>8. /\ p \in DOMAIN X.mem \ {Null} /\ X.own[p] = Place(s, d, Trampoline)
      /\ X.own[p][1] = s /\ X.own[p][2] = d /\ X.own[p] # Nowhere /\ UserNode(X, s, d)
  BY <1>1, <1>2, <1>3, UserPath
<1>9. Foreign(X, Y, s)
  <2>1. ASSUME NEW q \in DOMAIN X.mem, X.own[q] # Nowhere, X.own[q][1] # s
        PROVE  Y.mem[q] = X.mem[q] /\ Y.own[q] = X.own[q]
    <3>1. q # c /\ q # p
      BY <1>6, <1>8, <2>1
    <3> QED BY <1>4, <1>6, <3>1 DEF Grown
  <2>2. Y.mem[Null] = X.mem[Null]
    BY <1>5 DEF Taken
  <2>3. \A t \in DOMAIN X.depth : t # s =>
           t \in DOMAIN Y.depth /\ Y.depth[t] = X.depth[t] /\ Y.mapped[t] = X.mapped[t]
    BY DEF UserGrown
  <2> QED BY <1>1, <1>6, <1>7, <2>1, <2>2, <2>3 DEF Foreign
<1>10. /\ KernelTree(Y)
       /\ \A v \in VirtualPages, n \in Levels :
            /\ Table(Y.mem, X.root, v, n) = Table(X.mem, X.root, v, n)
            /\ Y.mem[Table(X.mem, X.root, v, n)] = X.mem[Table(X.mem, X.root, v, n)]
       /\ \A t \in DOMAIN X.depth : t # s => UserTree(Y, t)
       /\ \A q \in DOMAIN X.mem \ {Null} : X.own[q] # Nowhere /\ X.own[q][1] # s =>
            Held(Y, q) /\ Bounded(Y, q)
  BY <1>9, ForeignFrame
<1>11. ASSUME NEW n \in d..4, n # d, NEW q, q = Table(X.mem, s, Trampoline, n)
       PROVE  Y.mem[q] = X.mem[q] /\ Y.own[q] = X.own[q] /\ q \in DOMAIN X.mem \ {Null}
  <2>1. q \in DOMAIN X.mem \ {Null} /\ X.own[q] # Nowhere /\ X.own[q][2] = n
    <3>1. n \in X.depth[s]..4
      BY <1>1
    <3> QED BY <1>1, <1>11, <3>1, UserPath
  <2>2. q # c /\ q # p
    BY <1>6, <1>8, <1>11, <2>1
  <2> QED BY <1>4, <1>6, <2>1, <2>2 DEF Grown
<1>12. ASSUME NEW n \in d..4 PROVE Table(Y.mem, s, Trampoline, n) = Table(X.mem, s, Trampoline, n)
  <2>1. \A l \in Levels : l > d =>
           Y.mem[Table(X.mem, s, Trampoline, l)][Index(Trampoline, l)] = Slot(X.mem, s, Trampoline, l)
    <3>1. \A l \in Levels : l > d => l \in d..4 /\ l # d
      BY <1>1 DEF Levels
    <3> QED BY <1>11, <3>1 DEF Slot
  <2>2. \A l \in d..4 : Table(Y.mem, s, Trampoline, l) = Table(X.mem, s, Trampoline, l)
    BY <1>2, <2>1, TableFrame
  <2> QED BY <2>2
<1>13. Y.mem[p][i] = Entry(c, TRUE) /\ Y.mem[c] = T /\ Table(Y.mem, s, Trampoline, d) = p
  BY <1>2, <1>3, <1>4, <1>12 DEF Grown
<1>14. Table(Y.mem, s, Trampoline, d - 1) = c
  <2>1. Slot(Y.mem, s, Trampoline, d) = Entry(c, TRUE)
    BY <1>3, <1>13 DEF Slot
  <2>2. Table(Y.mem, s, Trampoline, d - 1) = Slot(Y.mem, s, Trampoline, d).addr
    BY <1>1, TableDown
  <2> QED BY <2>1, <2>2 DEF Entry
<1>15. DOMAIN X.mapped[s] = {}
  BY <1>1, <1>7 DEF UserTree
<1>16. ASSUME NEW n \in (d - 1)..4 PROVE UserNode(Y, s, n)
  <2>1. n \in Levels /\ (n # d - 1 => n \in d..4)
    BY <1>1 DEF Levels
  <2>2. PICK K, q : /\ K = X.mem[Table(X.mem, X.root, Trampoline, n)]
                    /\ q = Table(Y.mem, s, Trampoline, n)
    OBVIOUS
  <2>3. K = Y.mem[Table(Y.mem, Y.root, Trampoline, n)]
    BY <1>1, <1>2, <1>10, <2>1, <2>2
  <2>4. CASE n = d - 1
    <3>1. q = c /\ Y.mem[q] = K /\ Y.own[q] = Place(s, n, Trampoline) /\ ~(n > Y.depth[s])
      BY <1>1, <1>3, <1>6, <1>13, <1>14, <2>2, <2>4
    <3>2. q \in DOMAIN Y.mem \ {Null}
      BY <1>6, <3>1
    <3>3. \A w \in DOMAIN Y.mapped[s] : FALSE
      BY <1>1, <1>15
    <3> QED BY <2>2, <2>3, <3>1, <3>2, <3>3 DEF UserNode
  <2>5. CASE n = d
    <3>1. q = p /\ p \in DOMAIN Y.mem \ {Null} /\ Y.own[p] = Place(s, n, Trampoline) /\ n # 1
      BY <1>1, <1>6, <1>8, <1>13, <2>2, <2>5
    <3>2. Y.mem[p][Index(Trampoline, n)] = Entry(Table(Y.mem, s, Trampoline, n - 1), TRUE)
      BY <1>3, <1>13, <1>14, <2>5
    <3>3. n > Y.depth[s]
      BY <1>1, <2>5
    <3>4. ASSUME NEW j \in Indices, j # i PROVE Y.mem[p][j] = K[j]
      <4>1. Y.mem[p][j] = X.mem[p][j]
        BY <1>4, <3>4 DEF Grown
      <4>2. X.mem[p][j] = K[j]
        <5>1. ~(d > X.depth[s]) /\ d # 1
          BY <1>1
        <5> QED BY <1>3, <1>8, <2>2, <2>5, <5>1 DEF UserNode
      <4> QED BY <4>1, <4>2
    <3> QED BY <1>3, <2>2, <2>3, <2>5, <3>1, <3>2, <3>3, <3>4 DEF UserNode
  <2>6. CASE n # d - 1 /\ n # d
    <3>1. n \in d..4 /\ n > d /\ n - 1 \in d..4 /\ n # 1 /\ n > Y.depth[s] /\ n > X.depth[s]
      BY <1>1, <2>1, <2>6 DEF Levels
    <3>2. q = Table(X.mem, s, Trampoline, n)
      BY <1>12, <2>2, <3>1
    <3>3. Y.mem[q] = X.mem[q] /\ Y.own[q] = X.own[q] /\ q \in DOMAIN X.mem \ {Null}
      BY <1>11, <2>6, <3>1, <3>2
    <3>4. UserNode(X, s, n)
      BY <1>1, <1>7, <3>1 DEF UserTree
    <3>5. Table(Y.mem, s, Trampoline, n - 1) = Table(X.mem, s, Trampoline, n - 1)
      BY <1>12, <3>1
    <3>6. /\ X.own[q] = Place(s, n, Trampoline)
          /\ X.mem[q][Index(Trampoline, n)] = Entry(Table(X.mem, s, Trampoline, n - 1), TRUE)
          /\ \A j \in Indices : j # Index(Trampoline, n) => X.mem[q][j] = K[j]
      BY <2>2, <3>1, <3>2, <3>4 DEF UserNode
    <3> QED BY <1>6, <2>2, <2>3, <3>1, <3>3, <3>5, <3>6 DEF UserNode
  <2> QED BY <2>4, <2>5, <2>6
<1>17. UserTree(Y, s)
  BY <1>1, <1>2, <1>7, <1>15, <1>16 DEF UserTree
<1>18. ASSUME NEW q \in DOMAIN Y.mem \ {Null}, Y.own[q] # Nowhere PROVE Held(Y, q) /\ Bounded(Y, q)
  <2>1. CASE q = c
    <3>1. Y.own[q][1] = s /\ Y.own[q][2] = d - 1
      BY <1>3, <1>6, <2>1, PlaceFacts
    <3>2. d - 1 \in Y.depth[s]..4
      BY <1>1
    <3>3. Held(Y, q)
      BY <1>1, <1>14, <2>1, <3>1, <3>2 DEF Held
    <3>4. PICK k : k = Table(X.mem, X.root, Trampoline, d - 1)
      OBVIOUS
    <3>5. Y.mem[q] = X.mem[k]
      BY <1>3, <1>13, <2>1, <3>4
    <3>6. CASE k = Null
      <4>1. \A j \in Indices : X.mem[k][j] = Absent
        BY <1>7, <3>6, EntryFacts DEF MemoryShape
      <4>2. Bounded(Y, q)
        BY <3>5, <4>1 DEF Bounded
      <4> QED BY <3>3, <4>2
    <3>7. CASE k # Null
      <4>1. k \in DOMAIN X.mem /\ X.own[k] = Place(X.root, d - 1, Trampoline) /\ X.own[k][1] = X.root
        BY <1>2, <1>7, <3>4, <3>7, KernelTables
      <4>2. X.own[k] # Nowhere /\ X.own[k][2] = d - 1
        BY <1>7, <4>1, PlaceFacts DEF KernelTree
      <4>3. Bounded(X, k)
        BY <3>7, <4>1, <4>2 DEF Shape
      <4>4. Bounded(Y, q)
        BY <3>1, <3>5, <4>2, <4>3 DEF Bounded
      <4> QED BY <3>3, <4>4
    <3> QED BY <3>6, <3>7
  <2>2. CASE q # c
    <3>1. q \in DOMAIN X.mem \ {Null} /\ Y.own[q] = X.own[q] /\ X.own[q] # Nowhere
      BY <1>6, <1>18, <2>2
    <3>2. CASE X.own[q][1] # s
      BY <1>10, <3>1, <3>2
    <3>3. CASE X.own[q][1] = s
      <4>1. Held(X, q) /\ Bounded(X, q)
        BY <3>1 DEF Shape
      <4>2. PICK n : n = X.own[q][2]
        OBVIOUS
      <4>3. n \in d..4 /\ q = Table(X.mem, s, Trampoline, n)
        BY <1>1, <1>7, <3>3, <4>1, <4>2 DEF Held
      <4>4. q = Table(Y.mem, s, Trampoline, n) /\ n \in Y.depth[s]..4
        BY <1>1, <1>12, <4>3
      <4>5. Held(Y, q)
        BY <1>1, <3>1, <3>3, <4>2, <4>4 DEF Held
      <4>6. Bounded(Y, q)
        <5>1. CASE n = d
          <6>1. q = p
            BY <1>3, <4>3, <5>1
          <6>2. i \in 0..(Fan[d] - 1)
            BY <1>2, <1>3, IndexFacts
          <6>3. \A j \in Indices : j >= Fan[d] => j # i
            BY <1>2, <6>2, FanFacts
          <6>4. \A j \in Indices : j >= Fan[d] => Y.mem[q][j] = X.mem[q][j]
            BY <1>4, <6>1, <6>3 DEF Grown
          <6>5. X.own[q][2] = d /\ Y.own[q][2] = d
            BY <3>1, <4>2, <5>1
          <6> QED BY <4>1, <6>4, <6>5 DEF Bounded
        <5>2. CASE n # d
          <6>1. Y.mem[q] = X.mem[q]
            BY <1>11, <4>3, <5>2
          <6> QED BY <3>1, <4>1, <6>1 DEF Bounded
        <5> QED BY <5>1, <5>2
      <4> QED BY <4>5, <4>6
    <3> QED BY <3>2, <3>3
  <2> QED BY <2>1, <2>2
<1>19. \A t \in DOMAIN Y.depth : UserTree(Y, t)
  BY <1>1, <1>10, <1>17
<1> QED BY <1>6, <1>10, <1>14, <1>18, <1>19 DEF Shape

(* The page q is mapped at v in the space s, whose path is private. *)
UserLeaf(X, Y, s, v, q) ==
    /\ s \in DOMAIN X.depth /\ X.depth[s] = 1 /\ v \in Layout
    /\ Written(X, Y, Table(X.mem, s, Trampoline, 1), Index(v, 1), Entry(q, TRUE))
    /\ Y.ready = X.ready /\ Y.depth = X.depth
    /\ Y.mapped[s] = [w \in DOMAIN X.mapped[s] \cup {v} |-> IF w = v THEN q ELSE X.mapped[s][w]]
    /\ \A t \in DOMAIN X.depth : t # s => Y.mapped[t] = X.mapped[t]

LEMMA MapUser ==
  ASSUME NEW X, NEW Y, NEW s, NEW v, NEW q, Shape(X), UserLeaf(X, Y, s, v, q)
  PROVE  Shape(Y)
<1>1. /\ s \in DOMAIN X.depth /\ X.depth[s] = 1 /\ v \in Layout
      /\ Y.ready = X.ready /\ Y.depth = X.depth
      /\ Y.mapped[s] = [w \in DOMAIN X.mapped[s] \cup {v} |-> IF w = v THEN q ELSE X.mapped[s][w]]
  BY DEF UserLeaf
<1>2. 1 \in Levels /\ Trampoline \in VirtualPages /\ v \in VirtualPages
  BY <1>1, LayoutFacts DEF Levels
<1>3. PICK p, i : p = Table(X.mem, s, Trampoline, 1) /\ i = Index(v, 1)
  OBVIOUS
<1>4. Written(X, Y, p, i, Entry(q, TRUE))
  BY <1>3 DEF UserLeaf
<1>5. MemoryShape(Y) /\ ListShape(Y) /\ Y.mem[Null] = X.mem[Null]
  BY <1>4, WrittenFacts
<1>6. Y.own = X.own /\ Y.root = X.root /\ DOMAIN Y.mem = DOMAIN X.mem
  BY <1>4 DEF Written
<1>7. s # X.root /\ s # Null /\ UserTree(X, s) /\ DOMAIN X.mapped[s] \subseteq Layout
  BY <1>1 DEF Shape, UserTree
<1>8. /\ p \in DOMAIN X.mem \ {Null} /\ X.own[p] = Place(s, 1, Trampoline)
      /\ X.own[p][1] = s /\ X.own[p][2] = 1 /\ X.own[p] # Nowhere /\ UserNode(X, s, 1)
  <2>1. 1 \in X.depth[s]..4
    BY <1>1
  <2> QED BY <1>1, <1>3, <2>1, UserPath
<1>9. Foreign(X, Y, s)
  <2>1. ASSUME NEW r \in DOMAIN X.mem, X.own[r] # Nowhere, X.own[r][1] # s
        PROVE  Y.mem[r] = X.mem[r] /\ Y.own[r] = X.own[r]
    <3>1. r # p
      BY <1>8, <2>1
    <3> QED BY <1>4, <1>6, <3>1 DEF Written
  <2>2. \A t \in DOMAIN X.depth : t # s =>
           t \in DOMAIN Y.depth /\ Y.depth[t] = X.depth[t] /\ Y.mapped[t] = X.mapped[t]
    BY DEF UserLeaf
  <2> QED BY <1>1, <1>5, <1>6, <1>7, <2>1, <2>2 DEF Foreign
<1>10. /\ KernelTree(Y)
       /\ \A w \in VirtualPages, n \in Levels :
            /\ Table(Y.mem, X.root, w, n) = Table(X.mem, X.root, w, n)
            /\ Y.mem[Table(X.mem, X.root, w, n)] = X.mem[Table(X.mem, X.root, w, n)]
       /\ \A t \in DOMAIN X.depth : t # s => UserTree(Y, t)
       /\ \A r \in DOMAIN X.mem \ {Null} : X.own[r] # Nowhere /\ X.own[r][1] # s =>
            Held(Y, r) /\ Bounded(Y, r)
  BY <1>9, ForeignFrame
<1>11. ASSUME NEW n \in Levels, n # 1, NEW r, r = Table(X.mem, s, Trampoline, n)
       PROVE  Y.mem[r] = X.mem[r] /\ r \in DOMAIN X.mem \ {Null}
  <2>1. n \in X.depth[s]..4
    BY <1>1 DEF Levels
  <2>2. r \in DOMAIN X.mem \ {Null} /\ X.own[r][2] = n
    BY <1>1, <1>11, <2>1, UserPath
  <2>3. r # p
    BY <1>8, <1>11, <2>2
  <2> QED BY <1>4, <2>2, <2>3 DEF Written
<1>12. ASSUME NEW n \in Levels PROVE Table(Y.mem, s, Trampoline, n) = Table(X.mem, s, Trampoline, n)
  <2>1. \A l \in Levels : l > 1 =>
           Y.mem[Table(X.mem, s, Trampoline, l)][Index(Trampoline, l)] = Slot(X.mem, s, Trampoline, l)
    <3>1. \A l \in Levels : l > 1 => l # 1
      OBVIOUS
    <3> QED BY <1>11, <3>1 DEF Slot
  <2>2. 1 \in Levels /\ n \in 1..4
    BY DEF Levels
  <2>3. \A l \in 1..4 : Table(Y.mem, s, Trampoline, l) = Table(X.mem, s, Trampoline, l)
    BY <2>1, <2>2, TableFrame
  <2> QED BY <2>2, <2>3
<1>13. DOMAIN Y.mapped[s] = DOMAIN X.mapped[s] \cup {v} /\ DOMAIN Y.mapped[s] \subseteq Layout
  BY <1>1, <1>7
<1>14. ASSUME NEW n \in 1..4 PROVE UserNode(Y, s, n)
  <2>1. n \in Levels
    BY DEF Levels
  <2>2. PICK K, r : /\ K = X.mem[Table(X.mem, X.root, Trampoline, n)]
                    /\ r = Table(X.mem, s, Trampoline, n)
    OBVIOUS
  <2>3. K = Y.mem[Table(Y.mem, Y.root, Trampoline, n)] /\ r = Table(Y.mem, s, Trampoline, n)
    BY <1>2, <1>6, <1>10, <1>12, <2>1, <2>2
  <2>4. UserNode(X, s, n)
    BY <1>1, <1>7 DEF UserTree
  <2>5. CASE n = 1
    <3>1. r = p /\ ~(n > Y.depth[s]) /\ ~(n > X.depth[s]) /\ Y.own[p] = Place(s, n, Trampoline)
      BY <1>1, <1>3, <1>6, <1>8, <2>2, <2>5
    <3>2. Y.mem[p][i] = Entry(q, TRUE) /\ \A j \in Indices \ {i} : Y.mem[p][j] = X.mem[p][j]
      BY <1>4 DEF Written
    <3>3. i \in Covered(Y, s) /\ Covered(X, s) \subseteq Covered(Y, s)
      BY <1>3, <1>13 DEF Covered
    <3>4. ASSUME NEW j \in Indices PROVE j \in Covered(Y, s) \/ Y.mem[p][j] = K[j]
      <4>1. j \in Covered(X, s) \/ X.mem[p][j] = K[j]
        BY <1>1, <2>2, <2>4, <2>5, <3>1 DEF UserNode
      <4> QED BY <3>2, <3>3, <4>1
    <3>5. ASSUME NEW w \in DOMAIN Y.mapped[s] PROVE Y.mem[p][Index(w, 1)] = Entry(Y.mapped[s][w], TRUE)
      <4>1. CASE w = v
        BY <1>1, <1>3, <3>2, <4>1
      <4>2. CASE w # v
        <5>1. w \in DOMAIN X.mapped[s] /\ Y.mapped[s][w] = X.mapped[s][w]
          BY <1>1, <1>13, <4>2
        <5>2. w \in Layout /\ w \in VirtualPages
          BY <1>7, <5>1, LayoutFacts
        <5>3. Index(w, 1) # i
          BY <1>1, <1>3, <4>2, <5>2, LayoutFacts
        <5>4. Index(w, 1) \in Indices
          BY <1>2, <5>2, IndexFacts, IndicesFacts
        <5>5. X.mem[p][Index(w, 1)] = Entry(X.mapped[s][w], TRUE)
          BY <2>2, <2>4, <2>5, <3>1, <5>1 DEF UserNode
        <5> QED BY <3>2, <5>1, <5>3, <5>4, <5>5
      <4> QED BY <4>1, <4>2
    <3>6. p = Table(Y.mem, s, Trampoline, n) /\ p \in DOMAIN Y.mem \ {Null}
      BY <1>6, <1>8, <2>2, <2>3, <3>1
    <3>7. \A j \in Indices : \/ n = 1 /\ j \in Covered(Y, s)
                             \/ Y.mem[p][j] = Y.mem[Table(Y.mem, Y.root, Trampoline, n)][j]
      BY <2>3, <2>5, <3>4
    <3>8. \A w \in DOMAIN Y.mapped[s] : Y.mem[p][Index(w, 1)] = Entry(Y.mapped[s][w], TRUE)
      BY <3>5
    <3> QED BY <3>1, <3>6, <3>7, <3>8 DEF UserNode
  <2>6. CASE n # 1
    <3>1. n > Y.depth[s] /\ n > X.depth[s] /\ n - 1 \in Levels
      BY <1>1, <2>1, <2>6 DEF Levels
    <3>2. Y.mem[r] = X.mem[r] /\ r \in DOMAIN Y.mem \ {Null}
      BY <1>6, <1>11, <2>1, <2>2, <2>6
    <3>3. Table(Y.mem, s, Trampoline, n - 1) = Table(X.mem, s, Trampoline, n - 1)
      BY <1>12, <3>1
    <3>4. /\ X.own[r] = Place(s, n, Trampoline)
          /\ X.mem[r][Index(Trampoline, n)] = Entry(Table(X.mem, s, Trampoline, n - 1), TRUE)
          /\ \A j \in Indices : j # Index(Trampoline, n) => X.mem[r][j] = K[j]
      BY <2>2, <2>4, <2>6, <3>1 DEF UserNode
    <3> QED BY <1>6, <2>2, <2>3, <2>6, <3>1, <3>2, <3>3, <3>4 DEF UserNode
  <2> QED BY <2>5, <2>6
<1>15. UserTree(Y, s)
  BY <1>1, <1>2, <1>6, <1>7, <1>13, <1>14 DEF UserTree
<1>16. ASSUME NEW r \in DOMAIN Y.mem \ {Null}, Y.own[r] # Nowhere PROVE Held(Y, r) /\ Bounded(Y, r)
  <2>1. r \in DOMAIN X.mem \ {Null} /\ X.own[r] # Nowhere /\ Held(X, r) /\ Bounded(X, r)
    BY <1>6, <1>16 DEF Shape
  <2>2. CASE X.own[r][1] # s
    BY <1>10, <2>1, <2>2
  <2>3. CASE X.own[r][1] = s
    <3>1. PICK n : n = X.own[r][2]
      OBVIOUS
    <3>2. n \in X.depth[s]..4 /\ r = Table(X.mem, s, Trampoline, n)
      BY <1>7, <2>1, <2>3, <3>1 DEF Held
    <3>3. n \in Levels
      BY <1>1, <3>2 DEF Levels
    <3>4. Held(Y, r)
      BY <1>1, <1>6, <1>12, <2>3, <3>1, <3>2, <3>3 DEF Held
    <3>5. Bounded(Y, r)
      <4>1. CASE n = 1
        <5>1. r = p
          BY <1>3, <3>2, <4>1
        <5>2. i \in 0..(Fan[1] - 1)
          BY <1>2, <1>3, IndexFacts
        <5>3. \A j \in Indices : j >= Fan[1] => j # i
          BY <1>2, <5>2, FanFacts
        <5>4. \A j \in Indices : j >= Fan[1] => Y.mem[r][j] = X.mem[r][j]
          BY <1>4, <5>1, <5>3 DEF Written
        <5>5. X.own[r][2] = 1 /\ Y.own[r][2] = 1
          BY <1>6, <3>1, <4>1
        <5> QED BY <2>1, <5>4, <5>5 DEF Bounded
      <4>2. CASE n # 1
        <5>1. Y.mem[r] = X.mem[r]
          BY <1>11, <3>2, <3>3, <4>2
        <5> QED BY <1>6, <2>1, <5>1 DEF Bounded
      <4> QED BY <4>1, <4>2
    <3> QED BY <3>4, <3>5
  <2> QED BY <2>2, <2>3
<1>17. \A t \in DOMAIN Y.depth : UserTree(Y, t)
  BY <1>1, <1>10, <1>15
<1> QED BY <1>5, <1>10, <1>16, <1>17 DEF Shape

-----------------------------------------------------------------------------
(* The machine on the way of a user space *)

(* X is a stage of a call that works for the space s and started in X0. *)
UserStage(X0, X, s) ==
    /\ Shape(X) /\ s \in DOMAIN X0.depth
    /\ X.root = X0.root /\ X.ready = X0.ready /\ X.mapped = X0.mapped
    /\ DOMAIN X.mem = DOMAIN X0.mem /\ DOMAIN X.depth = DOMAIN X0.depth
    /\ \A t \in DOMAIN X0.depth : t # s => X.depth[t] = X0.depth[t]
(* The machine is at the table of level n, which is private. *)
OnWay(m, X, s, n) ==
    m = MachineOf(X.mem, X.list, Table(X.mem, s, Trampoline, n)) /\ X.depth[s] <= n
(* The kernel has no table below the private path of s. *)
Open(X, s) ==
    X.depth[s] >= 2 => Prefix(Trampoline, X.depth[s] - 1) \notin X.ready[X.depth[s] - 1]

(* The first free page becomes the next table of the path. *)
LEMMA Privatise ==
  ASSUME NEW X0, NEW X, NEW s, UserStage(X0, X, s), NEW d \in 2..4, X.depth[s] = d,
         X.list # <<>>, NEW c, c = palloc_alloc(X.list), NEW T, NEW mm,
         T = X.mem[Table(X.mem, X.root, Trampoline, d - 1)],
         mm = [[X.mem EXCEPT ![c] = T] EXCEPT
                 ![Table(X.mem, s, Trampoline, d)] = [@ EXCEPT ![Index(Trampoline, d)] = Entry(c, TRUE)]]
  PROVE  \E Y : /\ UserStage(X0, Y, s) /\ OnWay(MachineOf(mm, AfterAlloc(X.list), c), Y, s, d - 1)
                /\ Y.depth[s] = d - 1 /\ UserGrown(X, Y, s, d, c)
<1>1. /\ Shape(X) /\ MemoryShape(X) /\ ListShape(X) /\ KernelTree(X) /\ s \in DOMAIN X.depth
      /\ s # Null
  BY DEF UserStage, Shape, UserTree
<1>2. d \in Levels /\ d - 1 \in Levels /\ d \in d..4 /\ Trampoline \in VirtualPages
  BY LevelCases, LayoutFacts
<1>3. PICK p, i, pl, k : /\ p = Table(X.mem, s, Trampoline, d) /\ i = Index(Trampoline, d)
                         /\ pl = Place(s, d - 1, Trampoline)
                         /\ k = Table(X.mem, X.root, Trampoline, d - 1)
  OBVIOUS
<1>4. PICK Y : Y = [mem |-> mm, list |-> AfterAlloc(X.list), own |-> [X.own EXCEPT ![c] = pl],
                    root |-> X.root, ready |-> X.ready, mapped |-> X.mapped,
                    depth |-> [t \in DOMAIN X.depth |-> IF t = s THEN d - 1 ELSE X.depth[t]]]
  OBVIOUS
<1>5. /\ Y.mem = mm /\ Y.list = AfterAlloc(X.list) /\ Y.own = [X.own EXCEPT ![c] = pl]
      /\ Y.root = X.root /\ Y.ready = X.ready /\ Y.mapped = X.mapped
      /\ Y.depth = [t \in DOMAIN X.depth |-> IF t = s THEN d - 1 ELSE X.depth[t]]
  BY <1>4
<1>6. /\ p \in DOMAIN X.mem \ {Null} /\ X.own[p] # Nowhere /\ s \in Nat
  <2>1. d \in X.depth[s]..4 /\ 4 \in X.depth[s]..4
    OBVIOUS
  <2>2. p \in DOMAIN X.mem \ {Null} /\ X.own[p] # Nowhere
    BY <1>1, <1>3, <2>1, UserPath
  <2>3. s = Table(X.mem, s, Trampoline, 4)
    BY TableDown
  <2>4. s \in DOMAIN X.mem
    BY <1>1, <2>1, <2>3, UserPath
  <2> QED BY <1>1, <2>2, <2>4 DEF MemoryShape
<1>7. k \in DOMAIN X.mem /\ T = X.mem[k]
  BY <1>1, <1>2, <1>3, KernelTables
<1>8. T \in [Indices -> Entries] /\ \A j \in Indices : T[j].present \/ T[j] = Absent
  BY <1>1, <1>7 DEF MemoryShape
<1>9. c \in DOMAIN X.mem \ {Null} /\ c \in Nat
  <2>1. X.list \in Seq(DOMAIN X.mem \ {Null}) /\ DOMAIN X.mem \subseteq Nat
    BY <1>1 DEF ListShape, MemoryShape
  <2>2. c \in DOMAIN X.mem \ {Null}
    BY <2>1, TypedOperations
  <2> QED BY <2>1, <2>2
<1>10. Entry(c, TRUE) \in Entries /\ Entry(c, TRUE).present
  BY <1>9, EntryFacts
<1>11. pl \in Nat \X Nat \X Nat /\ pl # Nowhere
  <2>1. Prefix(Trampoline, d - 1) \in Nat /\ d - 1 \in Nat
    BY <1>2, IndexFacts
  <2> QED BY <1>1, <1>3, <1>6, <2>1, PlaceFacts DEF Place
<1>12. i \in Indices
  BY <1>2, <1>3, IndexFacts, IndicesFacts
<1>13. Takes(X, Y, c, T, p, i, Entry(c, TRUE), pl)
  <2>1. Y.mem = [[X.mem EXCEPT ![c] = T] EXCEPT ![p] = [@ EXCEPT ![i] = Entry(c, TRUE)]]
    BY <1>3, <1>5
  <2> QED BY <1>1, <1>5, <1>6, <1>8, <1>10, <1>11, <1>12, <2>1 DEF Takes
<1>14. Grown(X, Y, c, T, p, i, Entry(c, TRUE), pl)
  BY <1>13, TakesGrows
<1>15. UserGrown(X, Y, s, d, c)
  <2>1. Grown(X, Y, c, X.mem[Table(X.mem, X.root, Trampoline, d - 1)],
              Table(X.mem, s, Trampoline, d), Index(Trampoline, d), Entry(c, TRUE),
              Place(s, d - 1, Trampoline))
    BY <1>3, <1>14
  <2> QED BY <1>1, <1>5, <2>1 DEF UserGrown
<1>16. Shape(Y) /\ Table(Y.mem, s, Trampoline, d - 1) = c
  BY <1>1, <1>15, GrowUser
<1>17. UserStage(X0, Y, s)
  <2>1. DOMAIN Y.mem = DOMAIN X.mem
    BY <1>14 DEF Grown
  <2> QED BY <1>5, <1>16, <2>1 DEF UserStage
<1>18. Y.depth[s] = d - 1
  BY <1>1, <1>5
<1>19. OnWay(MachineOf(mm, AfterAlloc(X.list), c), Y, s, d - 1)
  BY <1>5, <1>16, <1>18 DEF OnWay
<1> QED BY <1>15, <1>17, <1>18, <1>19

(* At a level that is private the way goes on as it is. *)
GoesOn(X, s, n, p, q, i) ==
    /\ X.mem[p][i] = Entry(q, TRUE) /\ q \in DOMAIN X.mem \ {Null} /\ X.own[q][1] = s
    /\ X.depth[s] <= n - 1
    /\ [X.mem EXCEPT ![p] = [@ EXCEPT ![i] = Entry(q, TRUE)]] = X.mem

LEMMA PrivateEntry ==
  ASSUME NEW X, NEW s \in DOMAIN X.depth, Shape(X), NEW n \in 2..4, X.depth[s] < n
  PROVE  GoesOn(X, s, n, Table(X.mem, s, Trampoline, n), Table(X.mem, s, Trampoline, n - 1),
                Index(Trampoline, n))
<1> PICK p, q, i : /\ p = Table(X.mem, s, Trampoline, n) /\ q = Table(X.mem, s, Trampoline, n - 1)
                   /\ i = Index(Trampoline, n)
  OBVIOUS
<1>1. /\ Shape(X) /\ MemoryShape(X) /\ s \in DOMAIN X.depth /\ X.depth[s] \in Levels
  BY DEF Shape, UserTree
<1>2. n \in X.depth[s]..4 /\ n - 1 \in X.depth[s]..4 /\ n \in Levels /\ X.depth[s] <= n - 1
  BY <1>1 DEF Levels
<1>3. p \in DOMAIN X.mem \ {Null} /\ UserNode(X, s, n)
  BY <1>1, <1>2, UserPath
<1>4. q \in DOMAIN X.mem \ {Null} /\ X.own[q][1] = s
  BY <1>1, <1>2, UserPath
<1>5. X.mem[p][i] = Entry(q, TRUE)
  BY <1>3 DEF UserNode
<1>6. i \in Indices
  BY <1>2, LayoutFacts, IndexFacts, IndicesFacts
<1>7. X.mem \in [DOMAIN X.mem -> [Indices -> Entries]] /\ X.mem[p] \in [Indices -> Entries]
  BY <1>1, <1>3 DEF MemoryShape
<1>8. [X.mem[p] EXCEPT ![i] = Entry(q, TRUE)] = X.mem[p]
  BY <1>5, <1>6, <1>7
<1>9. [X.mem EXCEPT ![p] = [@ EXCEPT ![i] = Entry(q, TRUE)]] = X.mem
  BY <1>3, <1>7, <1>8
<1>10. GoesOn(X, s, n, p, q, i)
  BY <1>2, <1>4, <1>5, <1>9 DEF GoesOn
<1> QED BY <1>10

(* Where the private path ends, the entry is the kernel's. *)
LEMMA SharedEntry ==
  ASSUME NEW X0, NEW X, NEW s, UserStage(X0, X, s), NEW n \in 2..4, X.depth[s] = n,
         NEW p, p = Table(X.mem, s, Trampoline, n), NEW i, i = Index(Trampoline, n)
  PROVE  /\ X.mem[p][i] = Slot(X.mem, X.root, Trampoline, n)
         /\ X.mem[p][i].addr = Table(X.mem, X.root, Trampoline, n - 1)
<1>1. Shape(X) /\ s \in DOMAIN X.depth
  BY DEF UserStage
<1>2. n \in X.depth[s]..4 /\ n \in Levels
  BY DEF Levels
<1>3. p \in DOMAIN X.mem \ {Null} /\ UserNode(X, s, n)
  BY <1>1, <1>2, UserPath
<1>4. i \in Indices
  BY <1>2, LayoutFacts, IndexFacts, IndicesFacts
<1>5. ~(n > X.depth[s]) /\ n # 1
  OBVIOUS
<1>6. X.mem[p][i] = X.mem[Table(X.mem, X.root, Trampoline, n)][i]
  BY <1>3, <1>4, <1>5 DEF UserNode
<1>7. Table(X.mem, X.root, Trampoline, n - 1) = Slot(X.mem, X.root, Trampoline, n).addr
  BY TableDown
<1> QED BY <1>6, <1>7 DEF Slot

(* map_page_4k on the way to a table that the space has, or that nobody    *)
(* has yet.                                                                *)
LEMMA UserDown ==
  ASSUME NEW X0, NEW X, NEW s, NEW m, NEW v \in Layout, NEW n \in 2..4,
         UserStage(X0, X, s), OnWay(m, X, s, n), Open(X, s)
  PROVE  \/ Failed(Down(m, v, n, TRUE), X0)
         \/ \E Y : UserStage(X0, Y, s) /\ OnWay(Down(m, v, n, TRUE), Y, s, n - 1) /\ Open(Y, s)
<1>1. /\ Shape(X) /\ MemoryShape(X) /\ ListShape(X) /\ KernelTree(X) /\ s \in DOMAIN X.depth
      /\ X.depth[s] \in Levels /\ X.depth[s] <= n
  BY DEF UserStage, Shape, UserTree, OnWay
<1>2. n \in Levels /\ n - 1 \in Levels /\ n - 1 \in 1..3 /\ n - 1 + 1 = n /\ n \in X.depth[s]..4
  BY <1>1, LevelCases
<1>3. PICK p, i, R : /\ p = Table(X.mem, s, Trampoline, n) /\ i = Index(Trampoline, n)
                     /\ R = Down(m, v, n, TRUE)
  OBVIOUS
<1>4. p \in DOMAIN X.mem \ {Null}
  BY <1>1, <1>2, <1>3, UserPath
<1>5. Index(v, n) = i /\ Trampoline \in VirtualPages
  BY <1>3, LayoutFacts
<1>6. m = MachineOf(X.mem, X.list, p) /\ m.at = p
  BY <1>3, MachineFacts DEF OnWay
<1>7. R = get_or_create_next(m, i, TRUE)
  BY <1>3, <1>4, <1>5, <1>6 DEF Down
<1>8. NextIs(R, X.mem, X.list, p, i, TRUE)
  BY <1>6, <1>7, NextFacts
<1>9. CASE X.depth[s] < n
  <2>1. PICK q : q = Table(X.mem, s, Trampoline, n - 1)
    OBVIOUS
  <2>2. /\ X.mem[p][i] = Entry(q, TRUE) /\ X.depth[s] <= n - 1
        /\ [X.mem EXCEPT ![p] = [@ EXCEPT ![i] = Entry(q, TRUE)]] = X.mem
    <3>1. GoesOn(X, s, n, p, q, i)
      BY <1>1, <1>3, <1>9, <2>1, PrivateEntry
    <3> QED BY <3>1 DEF GoesOn
  <2>3. /\ X.mem[p][i].present = TRUE /\ X.mem[p][i].addr = q
        /\ (X.mem[p][i].user \/ TRUE) = TRUE
    BY <2>2 DEF Entry
  <2>4. R = MachineOf([X.mem EXCEPT ![p] = [@ EXCEPT ![i] = Entry(q, TRUE)]], X.list, q)
    BY <1>8, <2>3 DEF NextIs
  <2>5. OnWay(R, X, s, n - 1)
    BY <2>1, <2>2, <2>4 DEF OnWay
  <2> QED BY <1>3, <2>5
<1>10. CASE X.depth[s] = n
  <2>1. /\ X.mem[p][i] = Slot(X.mem, X.root, Trampoline, n)
        /\ X.mem[p][i].addr = Table(X.mem, X.root, Trampoline, n - 1)
    BY <1>3, <1>10, SharedEntry
  <2>2. Prefix(Trampoline, n - 1) \notin X.ready[n - 1]
    BY <1>10 DEF Open
  <2>3. KernelNode(X, Trampoline, n - 1)
    BY <1>1, <1>2, <1>5 DEF KernelTree
  <2>4. X.mem[p][i] = Absent
    BY <1>2, <2>1, <2>2, <2>3 DEF KernelNode
  <2>5. ~X.mem[p][i].present /\ X.mem[p][i].addr = Null
    BY <2>4, EntryFacts
  <2>6. X.list \in Seq(DOMAIN X.mem \ {Null})
    BY <1>1 DEF ListShape
  <2>7. CASE X.list = <<>>
    <3>1. R = MachineOf(X.mem, X.list, Null)
      BY <1>8, <2>5, <2>7 DEF NextIs
    <3>2. X.mem \in [DOMAIN X0.mem -> [Indices -> Entries]] /\ DOMAIN X.mem = DOMAIN X0.mem
      BY <1>1 DEF MemoryShape, UserStage
    <3>3. Failed(R, X0)
      BY <2>6, <3>1, <3>2, MachineFacts DEF Failed
    <3> QED BY <1>3, <3>3
  <2>8. CASE X.list # <<>>
    <3>1. PICK c : c = palloc_alloc(X.list)
      OBVIOUS
    <3>2. c # Null
      BY <2>6, <2>8, <3>1, TypedOperations
    <3>3. PICK mm : mm = [[X.mem EXCEPT ![c] = ZeroPage] EXCEPT ![p] = [@ EXCEPT ![i] = Entry(c, TRUE)]]
      OBVIOUS
    <3>4. R = MachineOf(mm, AfterAlloc(X.list), c)
      BY <1>8, <2>5, <2>8, <3>1, <3>2, <3>3 DEF NextIs
    <3>5. ZeroPage = X.mem[Table(X.mem, X.root, Trampoline, n - 1)]
      BY <1>1, <2>1, <2>5 DEF MemoryShape
    <3>6. PICK Y : /\ UserStage(X0, Y, s) /\ OnWay(MachineOf(mm, AfterAlloc(X.list), c), Y, s, n - 1)
                   /\ Y.depth[s] = n - 1 /\ UserGrown(X, Y, s, n, c)
      BY <1>3, <1>10, <2>8, <3>1, <3>3, <3>5, Privatise
    <3>7. Open(Y, s)
      <4>1. Y.ready = X.ready
        BY <3>6 DEF UserGrown
      <4>2. ASSUME n - 1 >= 2 PROVE Prefix(Trampoline, n - 1 - 1) \notin X.ready[n - 1 - 1]
        <5>1. PICK k : k = n - 1 - 1
          OBVIOUS
        <5>2. k \in 0..3 /\ n - 1 \in k..3
          BY <4>2, <5>1
        <5> QED BY <1>1, <1>5, <2>2, <5>1, <5>2, ReadyUp
      <4> QED BY <3>6, <4>1, <4>2 DEF Open
    <3> QED BY <1>3, <3>4, <3>6, <3>7
  <2> QED BY <2>7, <2>8
<1>11. X.depth[s] < n \/ X.depth[s] = n
  BY <1>1, <1>2 DEF Levels
<1> QED BY <1>9, <1>10, <1>11

-----------------------------------------------------------------------------
(* ensure_private_user_path *)

(* The kernel's entry, found level by level. *)
LEMMA KernelEntryIs ==
  ASSUME NEW X, NEW m, Shape(X), X.root = kernel, m.mem = X.mem,
         NEW v \in VirtualPages, NEW n \in 2..4
  PROVE  KernelEntry(m, v, n) = Slot(X.mem, X.root, v, n)
<1>1. MemoryShape(X) /\ KernelTree(X)
  BY DEF Shape
<1>2. ASSUME NEW k \in 1..3
      PROVE  Slot(X.mem, X.root, v, k) =
               IF Slot(X.mem, X.root, v, k + 1).present
               THEN X.mem[Slot(X.mem, X.root, v, k + 1).addr][Index(v, k)] ELSE Absent
  <2>1. PICK e : e = Slot(X.mem, X.root, v, k + 1)
    OBVIOUS
  <2>2. Table(X.mem, X.root, v, k) = e.addr
    BY <2>1, TableDown
  <2>3. CASE Prefix(v, k) \in X.ready[k]
    <3>1. KernelNode(X, v, k)
      BY <1>1 DEF KernelTree
    <3>2. e.present = TRUE
      BY <2>1, <2>3, <3>1 DEF KernelNode, Entry
    <3> QED BY <2>1, <2>2, <3>2 DEF Slot
  <2>4. CASE Prefix(v, k) \notin X.ready[k]
    <3>1. KernelNode(X, v, k)
      BY <1>1 DEF KernelTree
    <3>2. e = Absent
      BY <2>1, <2>4, <3>1 DEF KernelNode
    <3>3. ~e.present /\ e.addr = Null
      BY <3>2, EntryFacts
    <3>4. Index(v, k) \in Indices
      BY LevelCases, IndexFacts, IndicesFacts
    <3>5. Slot(X.mem, X.root, v, k) = Absent
      BY <1>1, <2>2, <3>3, <3>4, EntryFacts DEF Slot, MemoryShape
    <3> QED BY <2>1, <3>3, <3>5
  <2> QED BY <2>3, <2>4
<1>3. PICK k4, k3, k2 : /\ k4 = Slot(X.mem, X.root, v, 4) /\ k3 = Slot(X.mem, X.root, v, 3)
                        /\ k2 = Slot(X.mem, X.root, v, 2)
  OBVIOUS
<1>4. 3 \in 1..3 /\ 2 \in 1..3 /\ 3 + 1 = 4 /\ 2 + 1 = 3
  OBVIOUS
<1>5. k4 = m.mem[kernel][Index(v, 4)]
  BY <1>3, TableDown DEF Slot
<1>6. k3 = IF k4.present THEN m.mem[k4.addr][Index(v, 3)] ELSE Absent
  BY <1>2, <1>3, <1>4
<1>7. k2 = IF k3.present THEN m.mem[k3.addr][Index(v, 2)] ELSE Absent
  BY <1>2, <1>3, <1>4
<1>8. n = 2 \/ n = 3 \/ n = 4
  OBVIOUS
<1>9. KernelEntry(m, v, n) = CASE n = 4 -> k4 [] n = 3 -> k3 [] n = 2 -> k2
  BY <1>5, <1>6, <1>7 DEF KernelEntry
<1> QED BY <1>3, <1>8, <1>9

(* The outcomes of Private at a table p that is not null. *)
PrivateIs(R, m, l, p, i, k) ==
    /\ ~m[p][i].present => R = MachineOf(m, l, Stop)
    /\ m[p][i].present /\ m[p][i].addr # k.addr =>
          R = MachineOf([m EXCEPT ![p] = [@ EXCEPT ![i] = Entry(m[p][i].addr, TRUE)]], l, m[p][i].addr)
    /\ m[p][i].present /\ m[p][i].addr = k.addr /\ l = <<>> => R = MachineOf(m, l, Null)
    /\ m[p][i].present /\ m[p][i].addr = k.addr /\ l # <<>> /\ palloc_alloc(l) # Null =>
          R = MachineOf([[m EXCEPT ![palloc_alloc(l)] = m[m[p][i].addr]]
                           EXCEPT ![p] = [@ EXCEPT ![i] = Entry(palloc_alloc(l), TRUE)]],
                        AfterAlloc(l), palloc_alloc(l))

CopyIs(R, m, l, src) ==
    /\ l = <<>> => R = MachineOf(m, l, Null)
    /\ l # <<>> /\ palloc_alloc(l) # Null =>
          R = MachineOf([m EXCEPT ![palloc_alloc(l)] = m[src]], AfterAlloc(l), palloc_alloc(l))

LEMMA CopyTable ==
  ASSUME NEW D, NEW S, NEW m \in [D -> S], NEW l, NEW p, NEW src
  PROVE  CopyIs(copy_table(MachineOf(m, l, p), src), m, l, src)
<1>1. PICK M, A, c : M = MachineOf(m, l, p) /\ A = alloc_table(M) /\ c = palloc_alloc(l)
  OBVIOUS
<1>2. M.mem = m
  BY <1>1, MachineFacts
<1>3. copy_table(M, src) = IF A.at = Null THEN A ELSE [A EXCEPT !.mem = [@ EXCEPT ![A.at] = m[src]]]
  BY <1>1, <1>2 DEF copy_table
<1>4. CASE l = <<>>
  <2>1. A = MachineOf(m, l, Null)
    BY <1>1, <1>4, AllocTable
  <2>2. A.at = Null
    BY <2>1 DEF MachineOf
  <2> QED BY <1>1, <1>3, <1>4, <2>1, <2>2 DEF CopyIs
<1>5. CASE l # <<>> /\ c # Null
  <2>1. PICK mm : mm = [m EXCEPT ![c] = ZeroPage]
    OBVIOUS
  <2>2. A = MachineOf(mm, AfterAlloc(l), c)
    BY <1>1, <1>5, <2>1, AllocTable
  <2>3. A.at = c /\ A.mem = mm
    BY <2>2 DEF MachineOf
  <2>4. PICK g : g = [mm EXCEPT ![c] = m[src]]
    OBVIOUS
  <2>5. g = [m EXCEPT ![c] = m[src]]
    BY <2>1, <2>4
  <2>6. copy_table(M, src) = [A EXCEPT !.mem = g]
    BY <1>3, <1>5, <2>3, <2>4
  <2>7. [A EXCEPT !.mem = g] = MachineOf(g, AfterAlloc(l), c)
    BY <2>2 DEF MachineOf
  <2> QED BY <1>1, <1>5, <2>5, <2>6, <2>7 DEF CopyIs
<1> QED BY <1>1, <1>4, <1>5 DEF CopyIs

LEMMA PrivateFacts ==
  ASSUME NEW D, NEW S, NEW m \in [D -> S], NEW l, NEW p, p \notin {Null, Stop}, NEW v, NEW n
  PROVE  PrivateIs(Private(MachineOf(m, l, p), v, n), m, l, p, Index(v, n),
                   KernelEntry(MachineOf(m, l, p), v, n))
<1>1. PICK M, i, e, k, A, c : /\ M = MachineOf(m, l, p) /\ i = Index(v, n) /\ e = m[p][i]
                              /\ k = KernelEntry(M, v, n) /\ A = copy_table(M, e.addr)
                              /\ c = palloc_alloc(l)
  OBVIOUS
<1>2. M.mem = m /\ M.list = l /\ M.at = p
  BY <1>1, MachineFacts
<1>3. Private(M, v, n) =
        IF ~e.present THEN [M EXCEPT !.at = Stop]
        ELSE IF ~(e.present /\ e.addr = k.addr) THEN Store(M, p, i, Entry(e.addr, TRUE), e.addr)
        ELSE IF A.at = Null THEN A
        ELSE Store(A, p, i, Entry(A.at, TRUE), A.at)
  BY <1>1, <1>2 DEF Private, Shared
<1>4. ~e.present => Private(M, v, n) = MachineOf(m, l, Stop)
  BY <1>1, <1>3 DEF MachineOf
<1>5. e.present /\ e.addr # k.addr =>
        Private(M, v, n) = MachineOf([m EXCEPT ![p] = [@ EXCEPT ![i] = Entry(e.addr, TRUE)]], l, e.addr)
  <2>1. Store(M, p, i, Entry(e.addr, TRUE), e.addr)
          = MachineOf([m EXCEPT ![p] = [@ EXCEPT ![i] = Entry(e.addr, TRUE)]], l, e.addr)
    BY <1>2 DEF Store, MachineOf
  <2> QED BY <1>3, <2>1
<1>6. e.present /\ e.addr = k.addr /\ l = <<>> => Private(M, v, n) = MachineOf(m, l, Null)
  <2>1. l = <<>> => A = MachineOf(m, l, Null)
    <3>1. CopyIs(A, m, l, e.addr)
      BY <1>1, CopyTable
    <3> QED BY <3>1 DEF CopyIs
  <2>2. l = <<>> => A.at = Null
    BY <2>1 DEF MachineOf
  <2> QED BY <1>3, <2>1, <2>2
<1>7. ASSUME e.present, e.addr = k.addr, l # <<>>, c # Null
      PROVE  Private(M, v, n)
               = MachineOf([[m EXCEPT ![c] = m[e.addr]] EXCEPT ![p] = [@ EXCEPT ![i] = Entry(c, TRUE)]],
                           AfterAlloc(l), c)
  <2>1. PICK mm : mm = [m EXCEPT ![c] = m[e.addr]]
    OBVIOUS
  <2>2. A = MachineOf(mm, AfterAlloc(l), c)
    <3>1. CopyIs(A, m, l, e.addr)
      BY <1>1, CopyTable
    <3> QED BY <1>1, <1>7, <2>1, <3>1 DEF CopyIs
  <2>3. A.at = c
    BY <2>2 DEF MachineOf
  <2>4. Store(MachineOf(mm, AfterAlloc(l), c), p, i, Entry(c, TRUE), c)
          = MachineOf([mm EXCEPT ![p] = [@ EXCEPT ![i] = Entry(c, TRUE)]], AfterAlloc(l), c)
    BY DEF Store, MachineOf
  <2>5. Private(M, v, n) = Store(A, p, i, Entry(c, TRUE), c)
    BY <1>3, <1>7, <2>3
  <2> QED BY <2>1, <2>2, <2>4, <2>5
<1>8. PrivateIs(Private(M, v, n), m, l, p, i, k)
  <2>1. /\ e.present /\ e.addr = k.addr /\ l # <<>> /\ c # Null =>
             Private(M, v, n)
               = MachineOf([[m EXCEPT ![c] = m[e.addr]] EXCEPT ![p] = [@ EXCEPT ![i] = Entry(c, TRUE)]],
                           AfterAlloc(l), c)
    BY <1>7
  <2>2. /\ ~m[p][i].present => Private(M, v, n) = MachineOf(m, l, Stop)
        /\ m[p][i].present /\ m[p][i].addr # k.addr =>
             Private(M, v, n)
               = MachineOf([m EXCEPT ![p] = [@ EXCEPT ![i] = Entry(m[p][i].addr, TRUE)]], l, m[p][i].addr)
        /\ m[p][i].present /\ m[p][i].addr = k.addr /\ l = <<>> => Private(M, v, n) = MachineOf(m, l, Null)
    BY <1>1, <1>4, <1>5, <1>6
  <2>3. m[p][i].present /\ m[p][i].addr = k.addr /\ l # <<>> /\ palloc_alloc(l) # Null =>
          Private(M, v, n) = MachineOf([[m EXCEPT ![palloc_alloc(l)] = m[m[p][i].addr]]
                           EXCEPT ![p] = [@ EXCEPT ![i] = Entry(palloc_alloc(l), TRUE)]],
                        AfterAlloc(l), palloc_alloc(l))
    BY <1>1, <2>1
  <2> QED BY <2>2, <2>3 DEF PrivateIs
<1> QED BY <1>1, <1>8

(* ensure_private_user_path has met an absent entry. *)
Stopped(m, X, s) == m = MachineOf(X.mem, X.list, Stop) /\ Open(X, s)

LEMMA UserPrivate ==
  ASSUME NEW X0, NEW X, NEW s, NEW m, NEW v \in Layout, NEW n \in 2..4,
         UserStage(X0, X, s), X.root = kernel, OnWay(m, X, s, n)
  PROVE  \/ Failed(Private(m, v, n), X0)
         \/ \E Y : /\ UserStage(X0, Y, s)
                   /\ OnWay(Private(m, v, n), Y, s, n - 1) \/ Stopped(Private(m, v, n), Y, s)
<1>1. /\ Shape(X) /\ MemoryShape(X) /\ ListShape(X) /\ KernelTree(X) /\ s \in DOMAIN X.depth
      /\ X.depth[s] \in Levels /\ X.depth[s] <= n
  BY DEF UserStage, Shape, UserTree, OnWay
<1>2. n \in Levels /\ n - 1 \in Levels /\ n - 1 \in 1..3 /\ n - 1 + 1 = n /\ n \in X.depth[s]..4
  BY <1>1, LevelCases
<1>3. PICK p, i, R, k : /\ p = Table(X.mem, s, Trampoline, n) /\ i = Index(Trampoline, n)
                        /\ R = Private(m, v, n) /\ k = Slot(X.mem, X.root, Trampoline, n)
  OBVIOUS
<1>4. p \in DOMAIN X.mem \ {Null} /\ p \notin {Null, Stop}
  <2>1. p \in DOMAIN X.mem \ {Null}
    BY <1>1, <1>2, <1>3, UserPath
  <2>2. p \in Nat
    BY <1>1, <2>1 DEF MemoryShape
  <2> QED BY <2>1, <2>2 DEF Stop
<1>5. /\ Index(v, n) = i /\ Trampoline \in VirtualPages /\ v \in VirtualPages
      /\ Prefix(v, n) = Prefix(Trampoline, n)
  BY <1>2, <1>3, LayoutFacts
<1>6. m = MachineOf(X.mem, X.list, p) /\ m.mem = X.mem
  BY <1>3, MachineFacts DEF OnWay
<1>7. KernelEntry(m, v, n) = k
  <2>1. KernelEntry(m, v, n) = Slot(X.mem, X.root, v, n)
    BY <1>1, <1>5, <1>6, KernelEntryIs
  <2>2. Table(X.mem, X.root, v, n) = Table(X.mem, X.root, Trampoline, n)
    BY <1>2, <1>5, TableSame
  <2> QED BY <1>3, <1>5, <2>1, <2>2 DEF Slot
<1>8. PrivateIs(R, X.mem, X.list, p, i, k)
  <2>1. X.mem \in [DOMAIN X.mem -> [Indices -> Entries]]
    BY <1>1 DEF MemoryShape
  <2>2. PrivateIs(Private(MachineOf(X.mem, X.list, p), v, n), X.mem, X.list, p, Index(v, n),
                  KernelEntry(MachineOf(X.mem, X.list, p), v, n))
    BY <1>4, <2>1, PrivateFacts
  <2> QED BY <1>3, <1>5, <1>6, <1>7, <2>2
<1>9. k.addr = Table(X.mem, X.root, Trampoline, n - 1)
  BY <1>3, TableDown
<1>10. CASE X.depth[s] < n
  <2>1. PICK q : q = Table(X.mem, s, Trampoline, n - 1)
    OBVIOUS
  <2>2. /\ X.mem[p][i] = Entry(q, TRUE) /\ X.depth[s] <= n - 1 /\ q \in DOMAIN X.mem \ {Null}
        /\ [X.mem EXCEPT ![p] = [@ EXCEPT ![i] = Entry(q, TRUE)]] = X.mem /\ X.own[q][1] = s
    <3>1. GoesOn(X, s, n, p, q, i)
      BY <1>1, <1>3, <1>10, <2>1, PrivateEntry
    <3> QED BY <3>1 DEF GoesOn
  <2>3. X.mem[p][i].present = TRUE /\ X.mem[p][i].addr = q
    BY <2>2 DEF Entry
  <2>4. q # k.addr
    <3>1. k.addr # Null => X.own[k.addr][1] = X.root
      BY <1>1, <1>2, <1>5, <1>9, KernelTables
    <3>2. s # X.root
      BY <1>1 DEF Shape, UserTree
    <3> QED BY <2>2, <3>1, <3>2
  <2>5. R = MachineOf([X.mem EXCEPT ![p] = [@ EXCEPT ![i] = Entry(q, TRUE)]], X.list, q)
    BY <1>8, <2>3, <2>4 DEF PrivateIs
  <2>6. OnWay(R, X, s, n - 1)
    BY <2>1, <2>2, <2>5 DEF OnWay
  <2> QED BY <1>3, <2>6
<1>11. CASE X.depth[s] = n
  <2>1. X.mem[p][i] = k
    BY <1>3, <1>11, SharedEntry
  <2>2. KernelNode(X, Trampoline, n - 1)
    BY <1>1, <1>2, <1>5 DEF KernelTree
  <2>3. X.list \in Seq(DOMAIN X.mem \ {Null})
    BY <1>1 DEF ListShape
  <2>4. CASE Prefix(Trampoline, n - 1) \notin X.ready[n - 1]
    <3>1. k = Absent
      BY <1>2, <1>3, <2>2, <2>4 DEF KernelNode
    <3>2. ~X.mem[p][i].present
      BY <2>1, <3>1, EntryFacts
    <3>3. R = MachineOf(X.mem, X.list, Stop)
      BY <1>8, <3>2 DEF PrivateIs
    <3>4. Stopped(R, X, s)
      BY <1>11, <2>4, <3>3 DEF Stopped, Open
    <3> QED BY <1>3, <3>4
  <2>5. CASE Prefix(Trampoline, n - 1) \in X.ready[n - 1]
    <3>1. X.mem[p][i].present /\ X.mem[p][i].addr = k.addr
      <4>1. k = Entry(Table(X.mem, X.root, Trampoline, n - 1), FALSE)
        BY <1>2, <1>3, <2>2, <2>5 DEF KernelNode
      <4> QED BY <2>1, <4>1 DEF Entry
    <3>2. CASE X.list = <<>>
      <4>1. R = MachineOf(X.mem, X.list, Null)
        BY <1>8, <3>1, <3>2 DEF PrivateIs
      <4>2. X.mem \in [DOMAIN X0.mem -> [Indices -> Entries]] /\ DOMAIN X.mem = DOMAIN X0.mem
        BY <1>1 DEF MemoryShape, UserStage
      <4>3. Failed(R, X0)
        BY <2>3, <4>1, <4>2, MachineFacts DEF Failed
      <4> QED BY <1>3, <4>3
    <3>3. CASE X.list # <<>>
      <4>1. PICK c, T : c = palloc_alloc(X.list) /\ T = X.mem[Table(X.mem, X.root, Trampoline, n - 1)]
        OBVIOUS
      <4>2. c # Null
        BY <2>3, <3>3, <4>1, TypedOperations
      <4>3. PICK mm : mm = [[X.mem EXCEPT ![c] = T] EXCEPT ![p] = [@ EXCEPT ![i] = Entry(c, TRUE)]]
        OBVIOUS
      <4>4. X.mem[X.mem[p][i].addr] = T
        BY <1>9, <3>1, <4>1
      <4>5. R = MachineOf(mm, AfterAlloc(X.list), c)
        BY <1>8, <3>1, <3>3, <4>1, <4>2, <4>3, <4>4 DEF PrivateIs
      <4>6. PICK Y : /\ UserStage(X0, Y, s) /\ OnWay(MachineOf(mm, AfterAlloc(X.list), c), Y, s, n - 1)
                     /\ Y.depth[s] = n - 1 /\ UserGrown(X, Y, s, n, c)
        BY <1>3, <1>11, <3>3, <4>1, <4>3, Privatise
      <4> QED BY <1>3, <4>5, <4>6
    <3> QED BY <3>2, <3>3
  <2> QED BY <2>4, <2>5
<1>12. X.depth[s] < n \/ X.depth[s] = n
  BY <1>1, <1>2 DEF Levels
<1> QED BY <1>10, <1>11, <1>12

-----------------------------------------------------------------------------
(* paging_map_user_page *)

(* The space s has got the page q at v, or there was no page for a table.  *)
UserMapsTo(R, X, s, v, q) ==
    \/ Failed(R, X)
    \/ \E Y, W : /\ UserStage(X, W, s) /\ W.depth[s] = 1 /\ UserLeaf(W, Y, s, v, q) /\ Shape(Y)
                 /\ R.mem = Y.mem /\ R.list = Y.list /\ R.at # Null

LEMMA UserMap ==
  ASSUME NEW X, NEW p, NEW s \in DOMAIN X.depth, NEW v \in Layout, NEW q \in Nat,
         Shape(X), X.root = kernel
  PROVE  UserMapsTo(paging_map_user_page(MachineOf(X.mem, X.list, p), s, v, q), X, s, v, q)
<1> DEFINE Way(R, n) == \/ Failed(R, X)
                        \/ \E Y : UserStage(X, Y, s) /\ (OnWay(R, Y, s, n) \/ Stopped(R, Y, s))
           At(R, n) == \/ Failed(R, X)
                       \/ \E Y : UserStage(X, Y, s) /\ OnWay(R, Y, s, n) /\ Open(Y, s)
<1>1. PICK M, a4, a3, a2, a1 :
        /\ M = MachineOf(X.mem, X.list, p) /\ a4 = [M EXCEPT !.at = s]
        /\ a3 = Private(a4, v, 4) /\ a2 = Private(a3, v, 3) /\ a1 = Private(a2, v, 2)
  OBVIOUS
<1>2. PICK R : R = paging_map_user_page(M, s, v, q)
  OBVIOUS
<1>3. R = IF a1.at = Null THEN a1 ELSE map_page_4k(a1, s, v, q, TRUE)
  BY <1>1, <1>2 DEF paging_map_user_page, ensure_private_user_path
<1>4. /\ UserTree(X, s) /\ s # Null /\ X.depth[s] \in Levels /\ DOMAIN X.mem \subseteq Nat
  BY DEF Shape, UserTree, MemoryShape
<1>5. Way(a4, 4)
  <2>1. a4 = MachineOf(X.mem, X.list, s)
    BY <1>1, MachineFacts
  <2>2. Table(X.mem, s, Trampoline, 4) = s /\ X.depth[s] <= 4
    BY <1>4, TableDown DEF Levels
  <2>3. UserStage(X, X, s)
    BY DEF UserStage
  <2>4. OnWay(a4, X, s, 4)
    BY <2>1, <2>2 DEF OnWay
  <2> QED BY <2>3, <2>4
<1>6. ASSUME NEW m, NEW n \in 2..4, Way(m, n) PROVE Way(Private(m, v, n), n - 1)
  <2>1. CASE m.at \in {Null, Stop}
    <3>1. Private(m, v, n) = m
      BY <2>1 DEF Private
    <3>2. CASE Failed(m, X)
      BY <3>1, <3>2
    <3>3. ASSUME NEW Y, UserStage(X, Y, s), OnWay(m, Y, s, n) PROVE FALSE
      <4>1. Shape(Y) /\ s \in DOMAIN Y.depth /\ DOMAIN Y.mem \subseteq Nat
        BY <3>3 DEF UserStage, Shape, MemoryShape
      <4>2. Y.depth[s] \in Levels
        BY <4>1 DEF Shape, UserTree
      <4>3. n \in Y.depth[s]..4
        BY <3>3, <4>2 DEF OnWay, Levels
      <4>4. Table(Y.mem, s, Trampoline, n) \in DOMAIN Y.mem \ {Null}
        BY <4>1, <4>3, UserPath
      <4>5. m.at = Table(Y.mem, s, Trampoline, n)
        BY <3>3, MachineFacts DEF OnWay
      <4> QED BY <2>1, <4>1, <4>4, <4>5 DEF Stop
    <3> QED BY <1>6, <3>1, <3>2, <3>3
  <2>2. CASE m.at \notin {Null, Stop}
    <3>1. ~Failed(m, X)
      BY <2>2 DEF Failed
    <3>2. ASSUME NEW Y, Stopped(m, Y, s) PROVE FALSE
      BY <2>2, <3>2, MachineFacts DEF Stopped
    <3>3. PICK Y : UserStage(X, Y, s) /\ OnWay(m, Y, s, n)
      BY <1>6, <3>1, <3>2
    <3>4. Y.root = kernel
      BY <3>3 DEF UserStage
    <3> QED BY <3>3, <3>4, UserPrivate
  <2> QED BY <2>1, <2>2
<1>7. Way(a1, 1)
  <2> HIDE DEF Way
  <2>1. 4 \in 2..4 /\ 3 \in 2..4 /\ 2 \in 2..4 /\ 4 - 1 = 3 /\ 3 - 1 = 2 /\ 2 - 1 = 1
    OBVIOUS
  <2>2. Way(a3, 3)
    BY <1>1, <1>5, <1>6, <2>1
  <2>3. Way(a2, 2)
    BY <1>1, <1>6, <2>1, <2>2
  <2> QED BY <1>1, <1>6, <2>1, <2>3
<1>8. CASE Failed(a1, X)
  <2>1. R = a1
    BY <1>3, <1>8 DEF Failed
  <2> QED BY <1>1, <1>2, <1>8, <2>1 DEF UserMapsTo
<1>9. ASSUME NEW W, UserStage(X, W, s), OnWay(a1, W, s, 1) \/ Stopped(a1, W, s)
      PROVE  UserMapsTo(R, X, s, v, q)
  <2>1. /\ Shape(W) /\ s \in DOMAIN W.depth /\ DOMAIN W.mem \subseteq Nat /\ W.depth[s] \in Levels
    BY <1>9 DEF UserStage, Shape, MemoryShape, UserTree
  <2>2. PICK b : a1 = MachineOf(W.mem, W.list, b) /\ b # Null
    <3>1. CASE OnWay(a1, W, s, 1)
      <4>1. 1 \in W.depth[s]..4
        BY <2>1, <3>1 DEF OnWay, Levels
      <4>2. Table(W.mem, s, Trampoline, 1) # Null
        BY <2>1, <4>1, UserPath
      <4> QED BY <3>1, <4>2 DEF OnWay
    <3>2. CASE Stopped(a1, W, s)
      BY <3>2 DEF Stopped, Stop, Null
    <3> QED BY <1>9, <3>1, <3>2
  <2>3. Open(W, s)
    <3>1. CASE OnWay(a1, W, s, 1)
      BY <2>1, <3>1 DEF OnWay, Open, Levels
    <3>2. CASE Stopped(a1, W, s)
      BY <3>2 DEF Stopped
    <3> QED BY <1>9, <3>1, <3>2
  <2>4. a1.at = b
    BY <2>2, MachineFacts
  <2>5. R = map_page_4k(a1, s, v, q, TRUE)
    BY <1>3, <2>2, <2>4
  <2>6. PICK m4, m3, m2, m1 :
          /\ m4 = [a1 EXCEPT !.at = s]
          /\ m3 = Down(m4, v, 4, TRUE) /\ m2 = Down(m3, v, 3, TRUE) /\ m1 = Down(m2, v, 2, TRUE)
    OBVIOUS
  <2>7. R = IF m1.at = Null THEN m1 ELSE Store(m1, m1.at, Index(v, 1), Entry(q, TRUE), m1.at)
    BY <2>5, <2>6 DEF map_page_4k
  <2>8. At(m4, 4)
    <3>1. m4 = MachineOf(W.mem, W.list, s)
      BY <2>2, <2>6, MachineFacts
    <3>2. Table(W.mem, s, Trampoline, 4) = s /\ W.depth[s] <= 4
      BY <2>1, TableDown DEF Levels
    <3>3. OnWay(m4, W, s, 4)
      BY <3>1, <3>2 DEF OnWay
    <3> QED BY <1>9, <2>3, <3>3
  <2>9. ASSUME NEW m, NEW n \in 2..4, At(m, n) PROVE At(Down(m, v, n, TRUE), n - 1)
    <3>1. CASE Failed(m, X)
      BY <3>1 DEF Failed, Down
    <3>2. CASE \E Y : UserStage(X, Y, s) /\ OnWay(m, Y, s, n) /\ Open(Y, s)
      BY <3>2, UserDown
    <3> QED BY <2>9, <3>1, <3>2
  <2>10. At(m1, 1)
    <3> HIDE DEF At
    <3>1. 4 \in 2..4 /\ 3 \in 2..4 /\ 2 \in 2..4 /\ 4 - 1 = 3 /\ 3 - 1 = 2 /\ 2 - 1 = 1
      OBVIOUS
    <3>2. At(m3, 3)
      BY <2>6, <2>8, <2>9, <3>1
    <3>3. At(m2, 2)
      BY <2>6, <2>9, <3>1, <3>2
    <3> QED BY <2>6, <2>9, <3>1, <3>3
  <2>11. CASE Failed(m1, X)
    <3>1. R = m1
      BY <2>7, <2>11 DEF Failed
    <3> QED BY <2>11, <3>1 DEF UserMapsTo
  <2>12. ASSUME NEW V, UserStage(X, V, s), OnWay(m1, V, s, 1) PROVE UserMapsTo(R, X, s, v, q)
    <3>1. /\ Shape(V) /\ MemoryShape(V) /\ ListShape(V) /\ s \in DOMAIN V.depth
          /\ V.depth[s] \in Levels /\ V.depth[s] <= 1
      BY <2>12 DEF UserStage, Shape, UserTree, OnWay
    <3>2. V.depth[s] = 1 /\ 1 \in V.depth[s]..4 /\ 1 \in Levels /\ v \in VirtualPages
      BY <3>1, LayoutFacts DEF Levels
    <3>3. PICK t, i, e : t = Table(V.mem, s, Trampoline, 1) /\ i = Index(v, 1) /\ e = Entry(q, TRUE)
      OBVIOUS
    <3>4. t \in DOMAIN V.mem \ {Null}
      BY <3>1, <3>2, <3>3, UserPath
    <3>5. m1 = MachineOf(V.mem, V.list, t) /\ m1.at = t /\ m1.mem = V.mem /\ m1.list = V.list
      BY <2>12, <3>3, MachineFacts DEF OnWay
    <3>6. PICK mm : mm = [V.mem EXCEPT ![t] = [@ EXCEPT ![i] = e]]
      OBVIOUS
    <3>7. R.mem = mm /\ R.list = V.list /\ R.at = t
      <4>1. R = Store(m1, t, i, e, t)
        BY <2>7, <3>3, <3>4, <3>5
      <4> QED BY <3>5, <3>6, <4>1 DEF Store
    <3>8. PICK g : g = [w \in DOMAIN V.mapped[s] \cup {v} |-> IF w = v THEN q ELSE V.mapped[s][w]]
      OBVIOUS
    <3>9. PICK Y : Y = [mem |-> mm, list |-> V.list, own |-> V.own,
                        root |-> V.root, depth |-> V.depth, ready |-> V.ready,
                        mapped |-> [u \in DOMAIN V.depth |-> IF u = s THEN g ELSE V.mapped[u]]]
      OBVIOUS
    <3>10. /\ Y.mem = mm /\ Y.list = V.list /\ Y.own = V.own
           /\ Y.root = V.root /\ Y.depth = V.depth /\ Y.ready = V.ready
           /\ Y.mapped = [u \in DOMAIN V.depth |-> IF u = s THEN g ELSE V.mapped[u]]
      BY <3>9
    <3>11. Y.mapped[s] = g /\ \A u \in DOMAIN V.depth : u # s => Y.mapped[u] = V.mapped[u]
      BY <3>1, <3>10
    <3>12. i \in Indices
      BY <3>2, <3>3, IndexFacts, IndicesFacts
    <3>13. e \in Entries /\ e.present
      BY <3>3, EntryFacts
    <3>14. V.mem \in [DOMAIN V.mem -> [Indices -> Entries]]
      BY <3>1 DEF MemoryShape
    <3>15. /\ Y.mem \in [DOMAIN V.mem -> [Indices -> Entries]] /\ DOMAIN Y.mem = DOMAIN V.mem
           /\ Y.mem[t][i] = e
           /\ \A j \in Indices \ {i} : Y.mem[t][j] = V.mem[t][j]
           /\ \A r \in DOMAIN V.mem \ {t} : Y.mem[r] = V.mem[r]
      BY <3>4, <3>6, <3>10, <3>12, <3>13, <3>14
    <3>16. Written(V, Y, t, i, e)
      BY <3>1, <3>4, <3>10, <3>12, <3>13, <3>15 DEF Written
    <3>17. UserLeaf(V, Y, s, v, q)
      BY <3>1, <3>2, <3>3, <3>8, <3>10, <3>11, <3>16 DEF UserLeaf
    <3>18. Shape(Y)
      BY <3>1, <3>17, MapUser
    <3> QED BY <2>12, <3>2, <3>4, <3>7, <3>10, <3>17, <3>18 DEF UserMapsTo
  <2> QED BY <2>10, <2>11, <2>12
<1> QED BY <1>1, <1>2, <1>7, <1>8, <1>9

-----------------------------------------------------------------------------
(* A new user space *)

(* The page c becomes the PML4 of a user space, with the entries of the    *)
(* kernel's; the kernel's PML4 is written to as it is.                     *)
Created(X, Y, c) ==
    /\ Grown(X, Y, c, X.mem[X.root], X.root, 0, X.mem[X.root][0], Place(c, 4, Trampoline))
    /\ Y.root = X.root /\ Y.ready = X.ready
    /\ DOMAIN Y.depth = DOMAIN X.depth \cup {c} /\ Y.depth[c] = 4 /\ DOMAIN Y.mapped[c] = {}
    /\ \A t \in DOMAIN X.depth : t # c => Y.depth[t] = X.depth[t] /\ Y.mapped[t] = X.mapped[t]

LEMMA CreateUser ==
  ASSUME NEW X, NEW Y, NEW c, Shape(X), Created(X, Y, c)
  PROVE  Shape(Y) /\ c \notin DOMAIN X.depth
<1>1. PICK r, T, pl, e : r = X.root /\ T = X.mem[X.root] /\ pl = Place(c, 4, Trampoline) /\ e = T[0]
  OBVIOUS
<1>2. Grown(X, Y, c, T, r, 0, e, pl)
  BY <1>1 DEF Created
<1>3. Taken(X, Y, c, r, pl)
  BY <1>2, GrownFacts
<1>4. /\ c \in DOMAIN X.mem \ {Null} /\ X.own[c] = Nowhere /\ c # r /\ Y.own[c] = pl
      /\ DOMAIN Y.mem = DOMAIN X.mem /\ MemoryShape(Y) /\ ListShape(Y)
      /\ \A q \in DOMAIN X.mem : q # c => Y.own[q] = X.own[q]
      /\ Y.mem[Null] = X.mem[Null]
  BY <1>3 DEF Taken
<1>5. MemoryShape(X) /\ KernelTree(X) /\ r \in DOMAIN X.mem \ {Null} /\ X.own[r] = Place(r, 4, 0)
  BY <1>1 DEF Shape, KernelTree
<1>6. /\ Y.root = X.root /\ Y.ready = X.ready
      /\ DOMAIN Y.depth = DOMAIN X.depth \cup {c} /\ Y.depth[c] = 4 /\ DOMAIN Y.mapped[c] = {}
      /\ \A t \in DOMAIN X.depth : t # c => Y.depth[t] = X.depth[t] /\ Y.mapped[t] = X.mapped[t]
  BY DEF Created
<1>7. c \notin DOMAIN X.depth
  <2>1. SUFFICES ASSUME c \in DOMAIN X.depth PROVE FALSE
    OBVIOUS
  <2>2. X.depth[c] \in Levels
    BY <2>1 DEF Shape, UserTree
  <2>3. 4 \in X.depth[c]..4
    BY <2>2 DEF Levels
  <2>4. c = Table(X.mem, c, Trampoline, 4)
    BY TableDown
  <2>5. X.own[c] # Nowhere
    BY <2>1, <2>3, <2>4, UserPath
  <2> QED BY <1>4, <2>5
<1>8. Y.mem[r] = X.mem[r]
  <2>1. Y.mem[r] \in [Indices -> Entries] /\ X.mem[r] \in [Indices -> Entries]
    BY <1>4, <1>5 DEF MemoryShape
  <2>2. \A j \in Indices : Y.mem[r][j] = X.mem[r][j]
    BY <1>1, <1>2 DEF Grown
  <2> QED BY <2>1, <2>2
<1>9. Foreign(X, Y, c)
  <2>1. \A q \in DOMAIN X.mem : X.own[q] # Nowhere /\ X.own[q][1] # c =>
           Y.mem[q] = X.mem[q] /\ Y.own[q] = X.own[q]
    BY <1>2, <1>4, <1>8 DEF Grown
  <2> QED BY <1>1, <1>4, <1>6, <2>1 DEF Foreign
<1>10. /\ KernelTree(Y)
       /\ \A v \in VirtualPages, n \in Levels :
            /\ Table(Y.mem, X.root, v, n) = Table(X.mem, X.root, v, n)
            /\ Y.mem[Table(X.mem, X.root, v, n)] = X.mem[Table(X.mem, X.root, v, n)]
       /\ \A t \in DOMAIN X.depth : t # c => UserTree(Y, t)
       /\ \A q \in DOMAIN X.mem \ {Null} : X.own[q] # Nowhere /\ X.own[q][1] # c =>
            Held(Y, q) /\ Bounded(Y, q)
  BY <1>9, ForeignFrame
<1>11. Table(Y.mem, c, Trampoline, 4) = c /\ Table(Y.mem, Y.root, Trampoline, 4) = r
  BY <1>1, <1>6, TableDown
<1>12. Y.mem[c] = Y.mem[r]
  BY <1>1, <1>2, <1>8 DEF Grown
<1>13. UserNode(Y, c, 4)
  BY <1>1, <1>4, <1>6, <1>11, <1>12 DEF UserNode
<1>14. UserTree(Y, c)
  <2>1. \A n \in Y.depth[c]..4 : n = 4
    BY <1>6
  <2>2. Y.depth[c] \in Levels
    BY <1>6 DEF Levels
  <2>3. \A n \in Y.depth[c]..4 : UserNode(Y, c, n)
    BY <1>13, <2>1
  <2> QED BY <1>1, <1>4, <1>6, <2>2, <2>3 DEF UserTree
<1>15. Held(Y, c) /\ Bounded(Y, c)
  <2>1. Y.own[c][1] = c /\ Y.own[c][2] = 4
    BY <1>1, <1>4, PlaceFacts
  <2>2. 4 \in Y.depth[c]..4
    BY <1>6
  <2>3. Held(Y, c)
    BY <1>6, <1>11, <2>1, <2>2 DEF Held
  <2>4. X.own[r] # Nowhere /\ X.own[r][2] = 4
    BY <1>5, PlaceFacts
  <2>5. Bounded(X, r)
    BY <1>5, <2>4 DEF Shape
  <2>6. Bounded(Y, c)
    BY <1>8, <1>12, <2>1, <2>4, <2>5 DEF Bounded
  <2> QED BY <2>3, <2>6
<1>16. ASSUME NEW q \in DOMAIN Y.mem \ {Null}, Y.own[q] # Nowhere PROVE Held(Y, q) /\ Bounded(Y, q)
  <2>1. CASE q = c
    BY <1>15, <2>1
  <2>2. CASE q # c
    <3>1. q \in DOMAIN X.mem \ {Null} /\ X.own[q] # Nowhere
      BY <1>4, <1>16, <2>2
    <3>2. X.own[q][1] # c
      <4>1. Held(X, q)
        BY <3>1 DEF Shape
      <4> QED BY <1>1, <1>4, <1>7, <4>1 DEF Held
    <3> QED BY <1>10, <3>1, <3>2
  <2> QED BY <2>1, <2>2
<1>17. \A t \in DOMAIN Y.depth : UserTree(Y, t)
  BY <1>6, <1>10, <1>14
<1> QED BY <1>4, <1>7, <1>10, <1>16, <1>17 DEF Shape

(* paging_create_user_address_space, unless there is no page for the PML4. *)
CreatesTo(R, X) ==
    \/ R.at = Null
    \/ \E Y : /\ Created(X, Y, R.at) /\ Shape(Y) /\ R.mem = Y.mem /\ R.list = Y.list
              /\ Y.depth = [t \in DOMAIN X.depth \cup {R.at} |-> IF t = R.at THEN 4 ELSE X.depth[t]]
              /\ Y.mapped = [t \in DOMAIN X.depth \cup {R.at} |-> IF t = R.at THEN <<>> ELSE X.mapped[t]]

LEMMA UserCreate ==
  ASSUME NEW X, NEW p, Shape(X)
  PROVE  CreatesTo(copy_table(MachineOf(X.mem, X.list, p), X.root), X)
<1>1. PICK R, r, T, c, l, pl :
        /\ R = copy_table(MachineOf(X.mem, X.list, p), X.root) /\ r = X.root /\ T = X.mem[X.root]
        /\ c = palloc_alloc(X.list) /\ l = AfterAlloc(X.list) /\ pl = Place(c, 4, Trampoline)
  OBVIOUS
<1>2. MemoryShape(X) /\ ListShape(X) /\ KernelTree(X)
  BY DEF Shape
<1>3. /\ X.mem \in [DOMAIN X.mem -> [Indices -> Entries]] /\ DOMAIN X.mem \subseteq Nat
      /\ X.list \in Seq(DOMAIN X.mem \ {Null})
      /\ r \in DOMAIN X.mem \ {Null} /\ X.own[r] = Place(r, 4, 0)
  BY <1>1, <1>2 DEF MemoryShape, ListShape, KernelTree
<1>4. CopyIs(R, X.mem, X.list, r)
  BY <1>1, <1>3, CopyTable
<1>5. CASE X.list = <<>>
  <2>1. R.at = Null
    BY <1>4, <1>5, MachineFacts DEF CopyIs
  <2> QED BY <1>1, <2>1 DEF CreatesTo
<1>6. CASE X.list # <<>>
  <2>1. c \in DOMAIN X.mem \ {Null} /\ c \in Nat
    <3>1. c \in DOMAIN X.mem \ {Null}
      BY <1>1, <1>3, <1>6, TypedOperations
    <3> QED BY <1>3, <3>1
  <2>2. R = MachineOf([X.mem EXCEPT ![c] = T], l, c)
    BY <1>1, <1>4, <1>6, <2>1 DEF CopyIs
  <2>3. R.mem = [X.mem EXCEPT ![c] = T] /\ R.list = l /\ R.at = c
    BY <2>2, MachineFacts
  <2>4. X.own[r] # Nowhere
    BY <1>3, PlaceFacts
  <2>5. c # r
    <3>1. c \in ToSet(X.list)
      BY <1>1, <1>2, <1>6, AllocFacts DEF ListShape
    <3>2. X.own[c] = Nowhere
      BY <1>2, <2>1, <3>1 DEF ListShape
    <3> QED BY <2>4, <3>2
  <2>6. T \in [Indices -> Entries] /\ \A j \in Indices : T[j].present \/ T[j] = Absent
    BY <1>1, <1>2, <1>3 DEF MemoryShape
  <2>7. PICK e : e = T[0]
    OBVIOUS
  <2>8. 0 \in Indices /\ e \in Entries /\ (e.present \/ e = Absent)
    BY <2>6, <2>7, IndicesFacts
  <2>9. R.mem = [[X.mem EXCEPT ![c] = T] EXCEPT ![r] = [@ EXCEPT ![0] = e]]
    <3>1. PICK mm : mm = R.mem
      OBVIOUS
    <3>2. mm[r] = T /\ mm \in [DOMAIN X.mem -> [Indices -> Entries]]
      BY <1>1, <1>3, <2>1, <2>3, <2>5, <2>6, <3>1
    <3>3. [T EXCEPT ![0] = e] = T
      BY <2>6, <2>7, <2>8
    <3>4. [mm EXCEPT ![r] = [@ EXCEPT ![0] = e]] = mm
      BY <1>3, <3>2, <3>3
    <3> QED BY <2>3, <3>1, <3>4
  <2>10. pl \in Nat \X Nat \X Nat /\ pl # Nowhere
    <3>1. Prefix(Trampoline, 4) \in Nat
      BY DEF Prefix
    <3> QED BY <1>1, <2>1, <3>1, PlaceFacts DEF Place
  <2>11. PICK Y : Y = [mem |-> R.mem, list |-> l, own |-> [X.own EXCEPT ![c] = pl],
                       root |-> r, ready |-> X.ready,
                       depth |-> [t \in DOMAIN X.depth \cup {c} |-> IF t = c THEN 4 ELSE X.depth[t]],
                       mapped |-> [t \in DOMAIN X.depth \cup {c} |-> IF t = c THEN <<>> ELSE X.mapped[t]]]
    OBVIOUS
  <2>12. /\ Y.mem = R.mem /\ Y.list = l /\ Y.own = [X.own EXCEPT ![c] = pl]
         /\ Y.root = r /\ Y.ready = X.ready
         /\ Y.depth = [t \in DOMAIN X.depth \cup {c} |-> IF t = c THEN 4 ELSE X.depth[t]]
         /\ Y.mapped = [t \in DOMAIN X.depth \cup {c} |-> IF t = c THEN <<>> ELSE X.mapped[t]]
    BY <2>11
  <2>13. Takes(X, Y, c, T, r, 0, e, pl)
    <3>1. Y.mem = [[X.mem EXCEPT ![c] = T] EXCEPT ![r] = [@ EXCEPT ![0] = e]]
      BY <2>9, <2>12
    <3> QED BY <1>1, <1>2, <1>3, <1>6, <2>4, <2>6, <2>8, <2>10, <2>12, <3>1 DEF Takes
  <2>14. Grown(X, Y, c, T, r, 0, e, pl)
    BY <2>13, TakesGrows
  <2>15. Created(X, Y, c)
    <3>1. Grown(X, Y, c, X.mem[X.root], X.root, 0, X.mem[X.root][0], Place(c, 4, Trampoline))
      BY <1>1, <2>7, <2>14
    <3>2. DOMAIN <<>> = {}
      OBVIOUS
    <3>3. DOMAIN Y.mapped[c] = {} /\ Y.depth[c] = 4 /\ DOMAIN Y.depth = DOMAIN X.depth \cup {c}
      BY <2>12, <3>2
    <3>4. \A t \in DOMAIN X.depth : t # c => Y.depth[t] = X.depth[t] /\ Y.mapped[t] = X.mapped[t]
      BY <2>12
    <3> QED BY <1>1, <2>12, <3>1, <3>3, <3>4 DEF Created
  <2>16. Shape(Y)
    BY <2>15, CreateUser
  <2>17. R.list = Y.list /\ R.mem = Y.mem
    BY <2>3, <2>12
  <2>18. /\ Y.depth = [t \in DOMAIN X.depth \cup {R.at} |-> IF t = R.at THEN 4 ELSE X.depth[t]]
         /\ Y.mapped = [t \in DOMAIN X.depth \cup {R.at} |-> IF t = R.at THEN <<>> ELSE X.mapped[t]]
         /\ Created(X, Y, R.at)
    BY <2>3, <2>12, <2>15, Zenon
  <2>19. CreatesTo(R, X)
    BY <2>16, <2>17, <2>18, Zenon DEF CreatesTo
  <2> QED BY <1>1, <2>19
<1> QED BY <1>5, <1>6

-----------------------------------------------------------------------------
(* The walks of the CPU and of the functions of paging.c *)

(* Every way, of the kernel and of a user space, leads to pages. *)
LEMMA SpaceTables ==
  ASSUME NEW X, Shape(X), NEW r \in DOMAIN X.depth \cup {X.root},
         NEW v \in VirtualPages, NEW n \in Levels
  PROVE  /\ Table(X.mem, r, v, n) \in DOMAIN X.mem
         /\ Slot(X.mem, r, v, n) \in Entries
         /\ Slot(X.mem, r, v, n).present \/ Slot(X.mem, r, v, n) = Absent
<1>1. MemoryShape(X) /\ KernelTree(X)
  BY DEF Shape
<1>2. Table(X.mem, X.root, v, n) \in DOMAIN X.mem
  BY <1>1, KernelTables
<1>3. Table(X.mem, r, v, n) \in DOMAIN X.mem
  <2>1. CASE r = X.root
    BY <1>2, <2>1
  <2>2. CASE r \in DOMAIN X.depth
    <3>1. UserTree(X, r) /\ X.depth[r] \in Levels
      BY <2>2 DEF Shape, UserTree
    <3>2. CASE OnPath(X, r, v, n)
      <4>1. Table(X.mem, r, v, n) = Table(X.mem, r, Trampoline, n)
        BY <3>1, <3>2, UserTables
      <4>2. n \in X.depth[r]..4
        BY <3>1, <3>2 DEF OnPath, Levels
      <4>3. Table(X.mem, r, Trampoline, n) \in DOMAIN X.mem
        BY <2>2, <4>2, UserPath
      <4> QED BY <4>1, <4>3
    <3>3. CASE ~OnPath(X, r, v, n)
      <4>1. Table(X.mem, r, v, n) = Table(X.mem, X.root, v, n)
        BY <3>1, <3>3, UserTables
      <4> QED BY <1>2, <4>1
    <3> QED BY <3>2, <3>3
  <2> QED BY <2>1, <2>2
<1>4. Index(v, n) \in Indices
  BY IndexFacts, IndicesFacts
<1>5. PICK p, i : p = Table(X.mem, r, v, n) /\ i = Index(v, n) /\ Slot(X.mem, r, v, n) = X.mem[p][i]
  BY DEF Slot
<1> QED BY <1>1, <1>3, <1>4, <1>5 DEF MemoryShape

(* An absent entry ends the walk as an entry of the null page would. *)
WalkOf(m, r, v) ==
    \A n \in 1..3 : Slot(m, r, v, n) = IF Slot(m, r, v, n + 1).present
                                       THEN m[Slot(m, r, v, n + 1).addr][Index(v, n)] ELSE Absent

LEMMA WalkSlots ==
  ASSUME NEW X, Shape(X), NEW r \in DOMAIN X.depth \cup {X.root}, NEW v \in VirtualPages
  PROVE  WalkOf(X.mem, r, v)
<1>1. SUFFICES ASSUME NEW n \in 1..3
               PROVE  Slot(X.mem, r, v, n) = IF Slot(X.mem, r, v, n + 1).present
                         THEN X.mem[Slot(X.mem, r, v, n + 1).addr][Index(v, n)] ELSE Absent
  BY DEF WalkOf
<1>2. n + 1 \in Levels /\ n \in Levels
  BY LevelCases
<1>3. PICK e, i : e = Slot(X.mem, r, v, n + 1) /\ i = Index(v, n)
  OBVIOUS
<1>4. Slot(X.mem, r, v, n) = X.mem[e.addr][i]
  BY <1>3, TableDown DEF Slot
<1>5. e.present \/ e = Absent
  BY <1>2, <1>3, SpaceTables
<1>6. CASE e.present
  BY <1>3, <1>4, <1>6
<1>7. CASE ~e.present
  <2>1. e.addr = Null
    BY <1>5, <1>7, EntryFacts
  <2>2. X.mem[Null] = ZeroPage
    BY DEF Shape, MemoryShape
  <2>3. i \in Indices
    BY <1>2, <1>3, IndexFacts, IndicesFacts
  <2>4. Slot(X.mem, r, v, n) = Absent
    BY <1>4, <2>1, <2>2, <2>3, EntryFacts
  <2> QED BY <1>3, <1>7, <2>4
<1> QED BY <1>6, <1>7

-----------------------------------------------------------------------------
(* The release of a user space *)

(* The pages of the space s, all of them and each once. *)
PagesOf(X, s) == {p \in DOMAIN X.mem : X.own[p][1] = s}
Freed(X, s, F) ==
    F \in Seq(DOMAIN X.mem \ {Null}) /\ IsInjective(F) /\ ToSet(F) = PagesOf(X, s)

(* Y is X after the pages of s were put in front of the free list. *)
Released(X, Y, s, F) ==
    /\ s \in DOMAIN X.depth /\ Freed(X, s, F)
    /\ Y.root = X.root /\ Y.ready = X.ready /\ Y.list = F \o X.list
    /\ Y.mem = [p \in DOMAIN X.mem |-> IF p \in ToSet(F) THEN [X.mem[p] EXCEPT ![0] = Absent]
                                                        ELSE X.mem[p]]
    /\ Y.own = [p \in DOMAIN X.mem |-> IF p \in ToSet(F) THEN Nowhere ELSE X.own[p]]
    /\ DOMAIN Y.depth = DOMAIN X.depth \ {s}
    /\ \A t \in DOMAIN X.depth : t # s => Y.depth[t] = X.depth[t] /\ Y.mapped[t] = X.mapped[t]

LEMMA ReleaseUser ==
  ASSUME NEW X, NEW Y, NEW s, NEW F, Shape(X), Released(X, Y, s, F)
  PROVE  Shape(Y)
<1>1. /\ s \in DOMAIN X.depth /\ F \in Seq(DOMAIN X.mem \ {Null}) /\ IsInjective(F)
      /\ Y.root = X.root /\ Y.ready = X.ready /\ Y.list = F \o X.list
      /\ Y.mem = [p \in DOMAIN X.mem |-> IF p \in ToSet(F) THEN [X.mem[p] EXCEPT ![0] = Absent]
                                                          ELSE X.mem[p]]
      /\ Y.own = [p \in DOMAIN X.mem |-> IF p \in ToSet(F) THEN Nowhere ELSE X.own[p]]
      /\ DOMAIN Y.depth = DOMAIN X.depth \ {s}
      /\ \A t \in DOMAIN X.depth : t # s => Y.depth[t] = X.depth[t] /\ Y.mapped[t] = X.mapped[t]
  BY DEF Released, Freed
<1>2. PICK G : G = ToSet(F)
  OBVIOUS
<1>3. \A p \in DOMAIN X.mem : p \in G <=> X.own[p][1] = s
  BY <1>2 DEF Released, Freed, PagesOf
<1>4. /\ MemoryShape(X) /\ ListShape(X) /\ s # X.root /\ s # Null
  BY <1>1 DEF Shape, UserTree
<1>5. DOMAIN Y.mem = DOMAIN X.mem /\ DOMAIN Y.own = DOMAIN X.mem
  BY <1>1
<1>6. ASSUME NEW p \in DOMAIN X.mem, p \in G
      PROVE  Y.mem[p] = [X.mem[p] EXCEPT ![0] = Absent] /\ Y.own[p] = Nowhere
  BY <1>1, <1>2, <1>6
<1>7. ASSUME NEW p \in DOMAIN X.mem, p \notin G
      PROVE  Y.mem[p] = X.mem[p] /\ Y.own[p] = X.own[p]
  BY <1>1, <1>2, <1>7
<1>8. Null \notin G /\ Null \in DOMAIN X.mem
  <2>1. Null \in DOMAIN X.mem /\ X.own[Null] = Nowhere
    BY <1>4 DEF MemoryShape
  <2> QED BY <1>3, <1>4, <2>1, PlaceFacts
<1>9. MemoryShape(Y)
  <2>1. ASSUME NEW p \in DOMAIN X.mem PROVE Y.mem[p] \in [Indices -> Entries] /\ Y.own[p] \in Nat \X Nat \X Nat
    <3>1. X.mem[p] \in [Indices -> Entries] /\ X.own[p] \in Nat \X Nat \X Nat
      BY <1>4 DEF MemoryShape
    <3>2. Absent \in Entries /\ Nowhere \in Nat \X Nat \X Nat
      BY EntryFacts DEF Nowhere, Null
    <3>3. CASE p \in G
      BY <1>6, <3>1, <3>2, <3>3
    <3>4. CASE p \notin G
      BY <1>7, <3>1, <3>4
    <3> QED BY <3>3, <3>4
  <2>2. Y.mem \in [DOMAIN X.mem -> [Indices -> Entries]] /\ Y.own \in [DOMAIN X.mem -> Nat \X Nat \X Nat]
    <3>1. Y.mem = [p \in DOMAIN X.mem |-> Y.mem[p]] /\ Y.own = [p \in DOMAIN X.mem |-> Y.own[p]]
      BY <1>1
    <3> QED BY <2>1, <3>1
  <2>3. ASSUME NEW p \in DOMAIN X.mem, NEW i \in Indices PROVE Y.mem[p][i].present \/ Y.mem[p][i] = Absent
    <3>1. X.mem[p] \in [Indices -> Entries] /\ (X.mem[p][i].present \/ X.mem[p][i] = Absent)
      BY <1>4 DEF MemoryShape
    <3>2. CASE p \in G
      BY <1>6, <3>1, <3>2
    <3>3. CASE p \notin G
      BY <1>7, <3>1, <3>3
    <3> QED BY <3>2, <3>3
  <2>4. Y.mem[Null] = ZeroPage /\ Y.own[Null] = Nowhere
    BY <1>4, <1>7, <1>8 DEF MemoryShape
  <2>5. DOMAIN X.mem \subseteq Nat
    BY <1>4 DEF MemoryShape
  <2> QED BY <1>5, <1>8, <2>2, <2>3, <2>4, <2>5 DEF MemoryShape
<1>10. ListShape(Y)
  <2>1. PICK D : D = DOMAIN X.mem \ {Null}
    OBVIOUS
  <2>2. X.list \in Seq(D) /\ IsInjective(X.list) /\ F \in Seq(D) /\ IsInjective(F)
    BY <1>1, <1>4, <2>1 DEF ListShape
  <2>3. \A p \in D : p \in ToSet(X.list) <=> X.own[p] = Nowhere
    BY <1>4, <2>1 DEF ListShape
  <2>4. ToSet(X.list) \subseteq D /\ G \subseteq D
    BY <1>2, <2>2, ListFacts
  <2>5. G \cap ToSet(X.list) = {}
    <3>1. ASSUME NEW p \in G, p \in ToSet(X.list) PROVE FALSE
      <4>1. p \in D /\ X.own[p] = Nowhere /\ X.own[p][1] = s
        BY <1>3, <2>1, <2>3, <2>4, <3>1
      <4> QED BY <1>4, <4>1, PlaceFacts
    <3> QED BY <3>1
  <2>6. Y.list \in Seq(D) /\ ToSet(Y.list) = G \cup ToSet(X.list) /\ IsInjective(Y.list)
    BY <1>1, <1>2, <2>2, <2>5, ConcatFacts
  <2>7. ASSUME NEW p \in D PROVE p \in ToSet(Y.list) <=> Y.own[p] = Nowhere
    <3>1. CASE p \in G
      BY <1>6, <2>1, <2>6, <3>1
    <3>2. CASE p \notin G
      BY <1>7, <2>1, <2>3, <2>6, <3>2
    <3> QED BY <3>1, <3>2
  <2> QED BY <1>5, <2>1, <2>6, <2>7 DEF ListShape
<1>11. Foreign(X, Y, s)
  <2>1. Y.mem[Null] = X.mem[Null]
    BY <1>7, <1>8
  <2>2. \A p \in DOMAIN X.mem : X.own[p][1] # s => Y.mem[p] = X.mem[p] /\ Y.own[p] = X.own[p]
    BY <1>3, <1>7
  <2> QED BY <1>1, <1>4, <1>5, <2>1, <2>2 DEF Foreign
<1>12. /\ KernelTree(Y)
       /\ \A t \in DOMAIN X.depth : t # s => UserTree(Y, t)
       /\ \A q \in DOMAIN X.mem \ {Null} : X.own[q] # Nowhere /\ X.own[q][1] # s =>
            Held(Y, q) /\ Bounded(Y, q)
  BY <1>11, ForeignFrame
<1>13. ASSUME NEW q \in DOMAIN Y.mem \ {Null}, Y.own[q] # Nowhere PROVE Held(Y, q) /\ Bounded(Y, q)
  <2>1. q \in DOMAIN X.mem /\ q \notin G
    BY <1>5, <1>6, <1>13
  <2>2. X.own[q] # Nowhere /\ X.own[q][1] # s
    BY <1>3, <1>7, <1>13, <2>1
  <2> QED BY <1>12, <1>13, <2>1, <2>2
<1>14. \A t \in DOMAIN Y.depth : UserTree(Y, t)
  BY <1>1, <1>12
<1> QED BY <1>9, <1>10, <1>12, <1>13, <1>14 DEF Shape

(* A list of one page, and a list with one page more. *)
LEMMA OnlyOne ==
  ASSUME NEW S, NEW p \in S
  PROVE  <<p>> \in Seq(S) /\ IsInjective(<<p>>) /\ ToSet(<<p>>) = {p}
<1>1. PICK t : t = <<p>>
  OBVIOUS
<1>2. t \in Seq(S) /\ Len(t) = 1 /\ t[1] = p
  BY <1>1
<1>3. ToSet(t) = {p}
  <2>1. ToSet(t) = {t[i] : i \in 1..1}
    BY <1>2, ListFacts
  <2>2. \A i \in 1..1 : i = 1
    OBVIOUS
  <2>3. 1 \in 1..1
    OBVIOUS
  <2> QED BY <1>2, <2>1, <2>2, <2>3
<1>4. IsInjective(t)
  <2>1. DOMAIN t = 1..1 /\ \A i \in 1..1 : i = 1
    BY <1>2, ListFacts
  <2> QED BY <2>1 DEF IsInjective
<1> QED BY <1>1, <1>2, <1>3, <1>4

LEMMA OneMore ==
  ASSUME NEW S, NEW F \in Seq(S), IsInjective(F), NEW p \in S, p \notin ToSet(F)
  PROVE  /\ F \o <<p>> \in Seq(S) /\ IsInjective(F \o <<p>>)
         /\ ToSet(F \o <<p>>) = ToSet(F) \cup {p}
<1>1. PICK t : t = <<p>>
  OBVIOUS
<1>2. t \in Seq(S) /\ IsInjective(t) /\ ToSet(t) = {p}
  BY <1>1, OnlyOne
<1>3. ToSet(F) \cap ToSet(t) = {}
  BY <1>2
<1>4. F \o t \in Seq(S) /\ IsInjective(F \o t) /\ ToSet(F \o t) = ToSet(F) \cup ToSet(t)
  BY <1>2, <1>3, ConcatFacts
<1> QED BY <1>1, <1>2, <1>4

(* The pages of a space are the tables of its path. *)
LEMMA SpacePages ==
  ASSUME NEW X, Shape(X), NEW s \in DOMAIN X.depth
  PROVE  /\ PagesOf(X, s) = {Table(X.mem, s, Trampoline, n) : n \in X.depth[s]..4}
         /\ PagesOf(X, s) \subseteq DOMAIN X.mem \ {Null}
<1>1. MemoryShape(X) /\ s # Null /\ s # X.root
  BY DEF Shape, UserTree
<1>2. ASSUME NEW p \in PagesOf(X, s)
      PROVE  p # Null /\ \E n \in X.depth[s]..4 : p = Table(X.mem, s, Trampoline, n)
  <2>1. p \in DOMAIN X.mem /\ X.own[p][1] = s
    BY <1>2 DEF PagesOf
  <2>2. X.own[p] # Nowhere
    BY <1>1, <2>1, PlaceFacts
  <2>3. p # Null
    BY <1>1, <2>2 DEF MemoryShape
  <2>4. Held(X, p)
    BY <2>1, <2>2, <2>3 DEF Shape
  <2> QED BY <1>1, <2>1, <2>3, <2>4 DEF Held
<1>3. ASSUME NEW n \in X.depth[s]..4 PROVE Table(X.mem, s, Trampoline, n) \in PagesOf(X, s)
  <2>1. PICK p : p = Table(X.mem, s, Trampoline, n)
    OBVIOUS
  <2>2. p \in DOMAIN X.mem /\ X.own[p][1] = s
    BY <2>1, UserPath
  <2> QED BY <2>1, <2>2 DEF PagesOf
<1>4. PagesOf(X, s) \subseteq DOMAIN X.mem
  BY DEF PagesOf
<1> QED BY <1>2, <1>3, <1>4

(* The entries that lead from level to level in a space: the kernel's, as  *)
(* long as the space has only its PML4, and its own once it has mapped a   *)
(* page.                                                                   *)
LEMMA SpaceEntries ==
  ASSUME NEW X, Shape(X), NEW s \in DOMAIN X.depth, NEW n \in 2..4
  PROVE  /\ X.depth[s] = 4 => Slot(X.mem, s, Trampoline, n) = Slot(X.mem, X.root, Trampoline, n)
         /\ X.depth[s] = 1 =>
              /\ Slot(X.mem, s, Trampoline, n) = Entry(Table(X.mem, s, Trampoline, n - 1), TRUE)
              /\ Table(X.mem, s, Trampoline, n - 1) # Slot(X.mem, X.root, Trampoline, n).addr
<1>1. MemoryShape(X) /\ KernelTree(X) /\ UserTree(X, s) /\ s # X.root
  BY DEF Shape, UserTree
<1>2. n \in Levels /\ n - 1 \in Levels /\ Trampoline \in VirtualPages
  BY LevelCases, LayoutFacts
<1>3. ASSUME X.depth[s] = 4 PROVE Slot(X.mem, s, Trampoline, n) = Slot(X.mem, X.root, Trampoline, n)
  <2>1. CASE n = 4
    <3>1. UserNode(X, s, 4)
      <4>1. 4 \in X.depth[s]..4
        BY <1>3
      <4> QED BY <1>1, <4>1 DEF UserTree
    <3>2. X.mem[Table(X.mem, s, Trampoline, 4)][Index(Trampoline, 4)]
            = X.mem[Table(X.mem, X.root, Trampoline, 4)][Index(Trampoline, 4)]
      <4>1. Index(Trampoline, 4) \in Indices
        BY <1>2, <2>1, IndexFacts, IndicesFacts
      <4>2. ~(4 > X.depth[s]) /\ 4 # 1
        BY <1>3
      <4> QED BY <3>1, <4>1, <4>2 DEF UserNode
    <3> QED BY <2>1, <3>2 DEF Slot
  <2>2. CASE n # 4
    <3>1. ~OnPath(X, s, Trampoline, n)
      BY <1>3, <2>2 DEF OnPath
    <3>2. Table(X.mem, s, Trampoline, n) = Table(X.mem, X.root, Trampoline, n)
      BY <1>1, <1>2, <3>1, UserTables
    <3> QED BY <3>2 DEF Slot
  <2> QED BY <2>1, <2>2
<1>4. ASSUME X.depth[s] = 1
      PROVE  /\ Slot(X.mem, s, Trampoline, n) = Entry(Table(X.mem, s, Trampoline, n - 1), TRUE)
             /\ Table(X.mem, s, Trampoline, n - 1) # Slot(X.mem, X.root, Trampoline, n).addr
  <2>1. n \in X.depth[s]..4 /\ n - 1 \in X.depth[s]..4 /\ n > X.depth[s]
    BY <1>4
  <2>2. UserNode(X, s, n)
    BY <1>1, <2>1 DEF UserTree
  <2>3. Slot(X.mem, s, Trampoline, n) = Entry(Table(X.mem, s, Trampoline, n - 1), TRUE)
    BY <2>1, <2>2 DEF UserNode, Slot
  <2>4. PICK p, k : p = Table(X.mem, s, Trampoline, n - 1) /\ k = Table(X.mem, X.root, Trampoline, n - 1)
    OBVIOUS
  <2>5. p # Null /\ X.own[p][1] = s
    BY <2>1, <2>4, UserPath
  <2>6. k # Null => X.own[k][1] = X.root
    BY <1>1, <1>2, <2>4, KernelTables
  <2>7. p # k
    BY <1>1, <2>5, <2>6
  <2>8. k = Slot(X.mem, X.root, Trampoline, n).addr
    BY <2>4, TableDown
  <2> QED BY <2>3, <2>4, <2>7, <2>8
<1> QED BY <1>3, <1>4

(* paging_release_user_address_space frees the pages of the space. *)
LEMMA FreedTables ==
  ASSUME NEW X, Shape(X), X.mem = mem, X.root = kernel, NEW s \in DOMAIN X.depth,
         X.depth[s] \in {1, 4}
  PROVE  Freed(X, s, ReleasedTables(s, Trampoline))
<1> DEFINE Own(e, k) == IF e.present /\ e.addr # k.addr THEN <<e.addr>> ELSE <<>>
           U(n) == Slot(X.mem, s, Trampoline, n)
           K(n) == Slot(X.mem, X.root, Trampoline, n)
           P(n) == Table(X.mem, s, Trampoline, n)
<1>1. Trampoline \in VirtualPages /\ 1..3 \subseteq Levels /\ 4 \in 2..4 /\ 3 \in 2..4 /\ 2 \in 2..4
  BY LayoutFacts, LevelCases
<1>2. PICK F : F = ReleasedTables(s, Trampoline)
  OBVIOUS
<1>3. PICK u4, u3, u2, k4, k3, k2 : /\ u4 = U(4) /\ u3 = U(3) /\ u2 = U(2)
                                    /\ k4 = K(4) /\ k3 = K(3) /\ k2 = K(2)
  OBVIOUS
<1>4. F = <<s>> \o Own(u4, k4) \o Own(u3, k3) \o Own(u2, k2)
  <2>1. Machine.mem = X.mem
    BY DEF Machine
  <2>2. /\ KernelEntry(Machine, Trampoline, 4) = k4 /\ KernelEntry(Machine, Trampoline, 3) = k3
        /\ KernelEntry(Machine, Trampoline, 2) = k2
    BY <1>1, <1>3, <2>1, KernelEntryIs
  <2>3. u4 = mem[s][Index(Trampoline, 4)]
    BY <1>3, TableDown DEF Slot
  <2>4. WalkOf(X.mem, s, Trampoline)
    BY <1>1, WalkSlots
  <2>5. /\ u3 = IF u4.present THEN mem[u4.addr][Index(Trampoline, 3)] ELSE Absent
        /\ u2 = IF u3.present THEN mem[u3.addr][Index(Trampoline, 2)] ELSE Absent
    <3>1. 3 \in 1..3 /\ 2 \in 1..3 /\ 3 + 1 = 4 /\ 2 + 1 = 3
      OBVIOUS
    <3> QED BY <1>3, <2>4, <3>1 DEF WalkOf
  <2>6. F = <<s>> \o Own(mem[s][Index(Trampoline, 4)], KernelEntry(Machine, Trampoline, 4))
                  \o Own(u3, KernelEntry(Machine, Trampoline, 3))
                  \o Own(u2, KernelEntry(Machine, Trampoline, 2))
    BY <1>2, <2>3, <2>5, Zenon DEF ReleasedTables
  <2> QED BY <2>2, <2>3, <2>6, Zenon
<1>5. PICK D : D = DOMAIN X.mem \ {Null}
  OBVIOUS
<1>6. PagesOf(X, s) = {P(n) : n \in X.depth[s]..4} /\ PagesOf(X, s) \subseteq D
  BY <1>5, SpacePages
<1>7. P(4) = s
  BY TableDown
<1>8. CASE X.depth[s] = 4
  <2>1. u4 = k4 /\ u3 = k3 /\ u2 = k2
    BY <1>1, <1>3, <1>8, SpaceEntries
  <2>2. Own(u4, k4) = <<>> /\ Own(u3, k3) = <<>> /\ Own(u2, k2) = <<>>
    BY <2>1
  <2>3. F = <<s>> \o <<>> \o <<>> \o <<>>
    BY <1>4, <2>2, Zenon
  <2>4. F = <<s>>
    <3>1. PICK t : t = <<s>>
      OBVIOUS
    <3>2. t \in Seq({s})
      BY <3>1
    <3>3. t \o <<>> = t
      BY <3>2, ConcatEmptySeq
    <3> QED BY <2>3, <3>1, <3>3
  <2>5. PagesOf(X, s) = {s}
    <3>1. \A n \in X.depth[s]..4 : n = 4
      BY <1>8
    <3>2. 4 \in X.depth[s]..4
      BY <1>8
    <3> QED BY <1>6, <1>7, <3>1, <3>2
  <2>6. F \in Seq(D) /\ IsInjective(F) /\ ToSet(F) = {s}
    BY <1>6, <2>4, <2>5, OnlyOne
  <2> QED BY <1>2, <1>5, <2>5, <2>6 DEF Freed
<1>9. CASE X.depth[s] = 1
  <2>1. PICK t3, t2, t1 : t3 = P(3) /\ t2 = P(2) /\ t1 = P(1)
    OBVIOUS
  <2>2. 1 \in 1..4 /\ 2 \in 1..4 /\ 3 \in 1..4 /\ 4 \in 1..4 /\ X.depth[s]..4 = 1..4
    BY <1>9
  <2>3. /\ s \in D /\ t3 \in D /\ t2 \in D /\ t1 \in D
        /\ s # t3 /\ s # t2 /\ s # t1 /\ t3 # t2 /\ t3 # t1 /\ t2 # t1
    <3>1. s \in D /\ X.own[s][2] = 4
      BY <1>5, <1>7, <2>2, UserPath
    <3>2. t3 \in D /\ X.own[t3][2] = 3
      BY <1>5, <2>1, <2>2, UserPath
    <3>3. t2 \in D /\ X.own[t2][2] = 2
      BY <1>5, <2>1, <2>2, UserPath
    <3>4. t1 \in D /\ X.own[t1][2] = 1
      BY <1>5, <2>1, <2>2, UserPath
    <3> QED BY <3>1, <3>2, <3>3, <3>4
  <2>4. /\ u4 = Entry(t3, TRUE) /\ t3 # k4.addr /\ u3 = Entry(t2, TRUE) /\ t2 # k3.addr
        /\ u2 = Entry(t1, TRUE) /\ t1 # k2.addr
    <3>1. 4 - 1 = 3 /\ 3 - 1 = 2 /\ 2 - 1 = 1
      OBVIOUS
    <3>2. u4 = Entry(t3, TRUE) /\ t3 # k4.addr
      BY <1>1, <1>3, <1>9, <2>1, <3>1, SpaceEntries
    <3>3. u3 = Entry(t2, TRUE) /\ t2 # k3.addr
      BY <1>1, <1>3, <1>9, <2>1, <3>1, SpaceEntries
    <3>4. u2 = Entry(t1, TRUE) /\ t1 # k2.addr
      BY <1>1, <1>3, <1>9, <2>1, <3>1, SpaceEntries
    <3> QED BY <3>2, <3>3, <3>4
  <2>5. Own(u4, k4) = <<t3>> /\ Own(u3, k3) = <<t2>> /\ Own(u2, k2) = <<t1>>
    BY <2>4 DEF Entry
  <2>6. PICK F4 : F4 = <<s>>
    OBVIOUS
  <2>7. PICK F3 : F3 = F4 \o <<t3>>
    OBVIOUS
  <2>8. PICK F2 : F2 = F3 \o <<t2>>
    OBVIOUS
  <2>9. F = F2 \o <<t1>>
    BY <1>4, <2>5, <2>6, <2>7, <2>8, Zenon
  <2>10. F4 \in Seq(D) /\ IsInjective(F4) /\ ToSet(F4) = {s}
    BY <2>3, <2>6, OnlyOne
  <2>11. F3 \in Seq(D) /\ IsInjective(F3) /\ ToSet(F3) = {s, t3}
    <3>1. t3 \notin ToSet(F4)
      BY <2>3, <2>10
    <3>2. F3 \in Seq(D) /\ IsInjective(F3) /\ ToSet(F3) = ToSet(F4) \cup {t3}
      BY <2>3, <2>7, <2>10, <3>1, OneMore
    <3> QED BY <2>10, <3>2
  <2>12. F2 \in Seq(D) /\ IsInjective(F2) /\ ToSet(F2) = {s, t3, t2}
    <3>1. t2 \notin ToSet(F3)
      BY <2>3, <2>11
    <3>2. F2 \in Seq(D) /\ IsInjective(F2) /\ ToSet(F2) = ToSet(F3) \cup {t2}
      BY <2>3, <2>8, <2>11, <3>1, OneMore
    <3> QED BY <2>11, <3>2
  <2>13. F \in Seq(D) /\ IsInjective(F) /\ ToSet(F) = {s, t3, t2, t1}
    <3>1. t1 \notin ToSet(F2)
      BY <2>3, <2>12
    <3>2. F \in Seq(D) /\ IsInjective(F) /\ ToSet(F) = ToSet(F2) \cup {t1}
      BY <2>3, <2>9, <2>12, <3>1, OneMore
    <3> QED BY <2>12, <3>2
  <2>14. PagesOf(X, s) = {s, t3, t2, t1}
    <3>1. \A n \in 1..4 : n = 1 \/ n = 2 \/ n = 3 \/ n = 4
      OBVIOUS
    <3> QED BY <1>6, <1>7, <2>1, <2>2, <3>1
  <2> QED BY <1>2, <1>5, <2>13, <2>14 DEF Freed
<1> QED BY <1>8, <1>9

-----------------------------------------------------------------------------
(* The first table *)

(* Every page is empty, and the kernel's PML4 c is the only table. *)
First(X, c) ==
    /\ Null \in DOMAIN X.mem /\ DOMAIN X.mem \subseteq Nat
    /\ X.mem = [p \in DOMAIN X.mem |-> ZeroPage]
    /\ X.root = c /\ c \in DOMAIN X.mem \ {Null}
    /\ X.list \in Seq(DOMAIN X.mem \ {Null}) /\ IsInjective(X.list)
    /\ ToSet(X.list) = DOMAIN X.mem \ {Null, c}
    /\ X.own = [p \in DOMAIN X.mem |-> IF p = c THEN Place(c, 4, 0) ELSE Nowhere]
    /\ \A n \in 0..3 : X.ready[n] = {}
    /\ DOMAIN X.depth = {}

LEMMA FirstTable ==
  ASSUME NEW X, NEW c, First(X, c)
  PROVE  Shape(X)
<1>1. /\ Null \in DOMAIN X.mem /\ DOMAIN X.mem \subseteq Nat
      /\ X.mem = [p \in DOMAIN X.mem |-> ZeroPage]
      /\ X.root = c /\ c \in DOMAIN X.mem \ {Null}
      /\ X.list \in Seq(DOMAIN X.mem \ {Null}) /\ IsInjective(X.list)
      /\ ToSet(X.list) = DOMAIN X.mem \ {Null, c}
      /\ X.own = [p \in DOMAIN X.mem |-> IF p = c THEN Place(c, 4, 0) ELSE Nowhere]
      /\ \A n \in 0..3 : X.ready[n] = {}
      /\ DOMAIN X.depth = {}
  BY DEF First
<1>2. /\ \A p \in DOMAIN X.mem : X.mem[p] = ZeroPage
      /\ X.own[c] = Place(c, 4, 0) /\ \A p \in DOMAIN X.mem : p # c => X.own[p] = Nowhere
  BY <1>1
<1>3. Place(c, 4, 0) # Nowhere /\ Place(c, 4, 0) \in Nat \X Nat \X Nat /\ Nowhere \in Nat \X Nat \X Nat
  <2>1. Prefix(0, 4) = 0 /\ c \in Nat
    BY <1>1 DEF Prefix
  <2> QED BY <1>1, <2>1, PlaceFacts DEF Place, Nowhere, Null
<1>4. MemoryShape(X)
  <2>1. X.mem \in [DOMAIN X.mem -> [Indices -> Entries]]
    BY <1>1, EntryFacts
  <2>2. X.own \in [DOMAIN X.mem -> Nat \X Nat \X Nat]
    BY <1>1, <1>3
  <2>3. \A p \in DOMAIN X.mem, i \in Indices : X.mem[p][i] = Absent
    BY <1>2, EntryFacts
  <2>4. X.mem[Null] = ZeroPage /\ X.own[Null] = Nowhere
    BY <1>1, <1>2
  <2> QED BY <1>1, <2>1, <2>2, <2>3, <2>4 DEF MemoryShape
<1>5. ListShape(X)
  BY <1>1, <1>2, <1>3 DEF ListShape
<1>6. ASSUME NEW v \in VirtualPages
      PROVE  \A n \in Levels : Slot(X.mem, c, v, n) = Absent
  <2>1. \A p \in DOMAIN X.mem, n \in Levels : X.mem[p][Index(v, n)] = Absent
    BY <1>2, IndexFacts, IndicesFacts, EntryFacts
  <2>2. Table(X.mem, c, v, 4) = c
    BY TableDown
  <2>3. Slot(X.mem, c, v, 4) = Absent
    BY <1>1, <2>1, <2>2, LevelCases DEF Slot
  <2>4. ASSUME NEW n \in 1..3, Slot(X.mem, c, v, n + 1) = Absent PROVE Slot(X.mem, c, v, n) = Absent
    <3>1. Table(X.mem, c, v, n) = Null
      BY <2>4, TableDown, EntryFacts
    <3> QED BY <1>1, <2>1, <3>1, LevelCases DEF Slot
  <2>5. 3 \in 1..3 /\ 2 \in 1..3 /\ 1 \in 1..3 /\ 3 + 1 = 4 /\ 2 + 1 = 3 /\ 1 + 1 = 2
    OBVIOUS
  <2>6. Slot(X.mem, c, v, 3) = Absent
    BY <2>3, <2>4, <2>5
  <2>7. Slot(X.mem, c, v, 2) = Absent
    BY <2>4, <2>5, <2>6
  <2>8. Slot(X.mem, c, v, 1) = Absent
    BY <2>4, <2>5, <2>7
  <2> QED BY <2>3, <2>6, <2>7, <2>8, LevelCases
<1>7. KernelTree(X)
  <2>1. \A v \in VirtualPages, n \in 1..3 : KernelNode(X, v, n)
    <3>1. \A n \in 1..3 : n + 1 \in Levels /\ n \in 0..3
      BY LevelCases
    <3> QED BY <1>1, <1>6, <3>1 DEF KernelNode
  <2>2. 0 \in 0..3 /\ 1 \in Levels
    BY LevelCases
  <2>3. \A v \in VirtualPages : Slot(X.mem, c, v, 1) = Absent /\ X.ready[0] = {}
    BY <1>1, <1>6, <2>2
  <2>4. \A n \in 0..2 : X.ready[n] = {}
    <3>1. \A n \in 0..2 : n \in 0..3
      OBVIOUS
    <3> QED BY <1>1, <3>1
  <2> QED BY <1>1, <1>2, <2>1, <2>3, <2>4 DEF KernelTree
<1>8. Held(X, c) /\ Bounded(X, c)
  <2>1. X.own[c][1] = c /\ X.own[c][2] = 4
    BY <1>2, PlaceFacts
  <2>2. Held(X, c)
    <3>1. c = Table(X.mem, X.root, 0, 4) /\ 0 \in VirtualPages /\ 4 \in Levels
      BY <1>1, TableDown, LayoutFacts, LevelCases
    <3> QED BY <1>1, <1>2, <2>1, <3>1 DEF Held
  <2>3. Bounded(X, c)
    BY <1>1, <1>2, EntryFacts DEF Bounded
  <2> QED BY <2>2, <2>3
<1>9. \A p \in DOMAIN X.mem \ {Null} : X.own[p] # Nowhere => p = c
  BY <1>2
<1> QED BY <1>1, <1>4, <1>5, <1>7, <1>8, <1>9 DEF Shape

-----------------------------------------------------------------------------
(* The steps of the specification *)

(* Two snapshots that agree in everything that the shape is about. *)
Alike(X, Y) ==
    /\ Y.mem = X.mem /\ Y.list = X.list /\ Y.own = X.own /\ Y.root = X.root
    /\ \A k \in 0..3 : Y.ready[k] = X.ready[k]
    /\ DOMAIN Y.depth = DOMAIN X.depth
    /\ \A t \in DOMAIN X.depth : Y.depth[t] = X.depth[t] /\ Y.mapped[t] = X.mapped[t]

LEMMA AlikeShape ==
  ASSUME NEW X, NEW Y, Shape(X), Alike(X, Y)
  PROVE  Shape(Y)
<1>1. /\ Y.mem = X.mem /\ Y.list = X.list /\ Y.own = X.own /\ Y.root = X.root
      /\ \A k \in 0..3 : Y.ready[k] = X.ready[k]
      /\ DOMAIN Y.depth = DOMAIN X.depth
      /\ \A t \in DOMAIN X.depth : Y.depth[t] = X.depth[t] /\ Y.mapped[t] = X.mapped[t]
  BY DEF Alike
<1>2. MemoryShape(Y) /\ ListShape(Y)
  BY <1>1 DEF Shape, MemoryShape, ListShape
<1>3. KernelTree(Y)
  <2>1. KernelTree(X)
    BY DEF Shape
  <2>2. \A n \in 0..2 : n \in 0..3 /\ n + 1 \in 0..3
    OBVIOUS
  <2>3. \A n \in 1..3 : n \in 0..3
    OBVIOUS
  <2>4. ASSUME NEW v \in VirtualPages, NEW n \in 1..3 PROVE KernelNode(Y, v, n)
    <3>1. KernelNode(X, v, n)
      BY <2>1 DEF KernelTree
    <3>2. Y.ready[n] = X.ready[n] /\ Y.mem = X.mem /\ Y.own = X.own /\ Y.root = X.root
      BY <1>1, <2>3
    <3> QED BY <3>1, <3>2, Zenon DEF KernelNode
  <2>5. \A v \in VirtualPages, n \in 0..2 :
          Prefix(v, n) \in Y.ready[n] => Prefix(v, n + 1) \in Y.ready[n + 1]
    BY <1>1, <2>1, <2>2 DEF KernelTree
  <2>6. Y.ready[0] = X.ready[0]
    <3>1. 0 \in 0..3
      OBVIOUS
    <3> QED BY <1>1, <3>1
  <2> QED BY <1>1, <2>1, <2>4, <2>5, <2>6 DEF KernelTree
<1>4. ASSUME NEW s \in DOMAIN Y.depth PROVE UserTree(Y, s)
  <2>1. UserTree(X, s) /\ Y.depth[s] = X.depth[s] /\ Y.mapped[s] = X.mapped[s]
    BY <1>1, <1>4 DEF Shape
  <2>2. ASSUME NEW n \in Y.depth[s]..4 PROVE UserNode(Y, s, n)
    <3>1. UserNode(X, s, n)
      BY <2>1, <2>2 DEF UserTree
    <3>2. Covered(Y, s) = Covered(X, s)
      BY <2>1 DEF Covered
    <3> QED BY <1>1, <2>1, <3>1, <3>2 DEF UserNode
  <2> QED BY <1>1, <2>1, <2>2 DEF UserTree
<1>5. ASSUME NEW p \in DOMAIN Y.mem \ {Null}, Y.own[p] # Nowhere PROVE Held(Y, p) /\ Bounded(Y, p)
  <2>1. Held(X, p) /\ Bounded(X, p)
    BY <1>1, <1>5 DEF Shape
  <2>2. Bounded(Y, p)
    BY <1>1, <2>1 DEF Bounded
  <2>3. Held(Y, p)
    BY <1>1, <2>1 DEF Held
  <2> QED BY <2>2, <2>3
<1> QED BY <1>2, <1>3, <1>4, <1>5 DEF Shape

LEMMA ShapeTypes ==
  ASSUME NEW X, Shape(X)
  PROVE  /\ X.list \in Seq(DOMAIN X.mem \ {Null}) /\ X.mem \in [DOMAIN X.mem -> [Indices -> Entries]]
         /\ X.root \in DOMAIN X.mem \ {Null} /\ DOMAIN X.depth \subseteq DOMAIN X.mem
         /\ \A s \in DOMAIN X.depth : DOMAIN X.mapped[s] \subseteq Layout
<1>1. ASSUME NEW s \in DOMAIN X.depth PROVE s \in DOMAIN X.mem /\ DOMAIN X.mapped[s] \subseteq Layout
  <2>1. UserTree(X, s) /\ 4 \in X.depth[s]..4
    BY DEF Shape, UserTree, Levels
  <2>2. Table(X.mem, s, Trampoline, 4) = s
    BY TableDown
  <2>3. s \in DOMAIN X.mem
    BY <2>1, <2>2, UserPath
  <2> QED BY <2>1, <2>3 DEF UserTree
<1> QED BY <1>1 DEF Shape, MemoryShape, ListShape, KernelTree

(* A step that leaves the machine in a snapshot of the right shape. *)
Landed(Y) ==
    /\ Shape(Y) /\ Alike(Y, Snapshot(Y.own)')
    /\ limit' = limit /\ pc' \in {"init", "running", "halted"} /\ address' \in 0..limit
    /\ created' \in 0..MaxCreated

LEMMA Landing ==
  ASSUME TypeOK, NEW Y, Landed(Y)
  PROVE  TypeOK' /\ (\E own : Shape(Snapshot(own)))'
<1>1. PICK Z : Z = Snapshot(Y.own)'
  OBVIOUS
<1>2. Shape(Z)
  BY <1>1, AlikeShape DEF Landed
<1>3. /\ Z.mem = mem' /\ Z.list = list' /\ Z.root = kernel' /\ Z.mapped = mapped'
      /\ DOMAIN Z.depth = DOMAIN mapped'
  BY <1>1 DEF Snapshot, Spaces
<1>4. /\ list' \in Seq(DOMAIN mem' \ {Null}) /\ mem' \in [DOMAIN mem' -> [Indices -> Entries]]
      /\ kernel' \in DOMAIN mem' /\ DOMAIN mapped' \subseteq DOMAIN mem'
      /\ \A s \in DOMAIN mapped' : DOMAIN mapped'[s] \subseteq Layout
  BY <1>2, <1>3, ShapeTypes
<1>5. TypeOK'
  BY <1>4 DEF TypeOK, Landed, Pages, Spaces, Entries
<1>6. (\E own : Shape(Snapshot(own)))'
  BY <1>1, <1>2
<1> QED BY <1>5, <1>6

(* A step that stops the machine. *)
LEMMA Halting ==
  ASSUME TypeOK, Control, NEW R, NEW X, Failed(R, X), X.mem = mem, mem' = R.mem, list' = R.list,
         pc' = "halted", limit' = limit, kernel' = kernel, address' \in 0..limit,
         created' = created, DOMAIN mapped' = DOMAIN mapped,
         \A s \in DOMAIN mapped : DOMAIN mapped'[s] \subseteq Layout
  PROVE  PInv'
<1>1. mem' \in [DOMAIN mem -> [Indices -> Entries]] /\ list' \in Seq(DOMAIN mem \ {Null})
  BY DEF Failed
<1>2. DOMAIN mem' = DOMAIN mem
  BY <1>1
<1>3. TypeOK'
  BY <1>1, <1>2 DEF TypeOK, Pages, Spaces, Entries
<1>4. Control'
  BY DEF Control
<1>5. ~Started'
  BY DEF Started
<1> QED BY <1>3, <1>4, <1>5 DEF PInv

(* What the invariant says of the present state. *)
Present(X, own) ==
    /\ Shape(X) /\ X.mem = mem /\ X.list = list /\ X.own = own /\ X.root = kernel
    /\ X.ready = [n \in 0..3 |-> {Prefix(w, n) : w \in 0..(address - 1)}]
    /\ X.depth = [s \in DOMAIN mapped |-> IF DOMAIN mapped[s] = {} THEN 4 ELSE 1]
    /\ X.mapped = mapped

LEMMA PresentFacts ==
  ASSUME PInv, Started
  PROVE  \E X, own : Present(X, own)
<1>1. PICK own : Shape(Snapshot(own))
  BY DEF PInv
<1>2. PICK X : X = Snapshot(own)
  OBVIOUS
<1>3. Present(X, own)
  BY <1>1, <1>2 DEF Present, Snapshot, Spaces
<1> QED BY <1>3

LEMMA MachineIs == Machine = MachineOf(mem, list, Null)
BY DEF Machine, MachineOf

LEMMA StepInitialize ==
  ASSUME PInv, InitializePml4
  PROVE  PInv'
<1>1. TypeOK /\ Control /\ pc = "init" /\ kernel = Null
  BY DEF PInv, InitializePml4
<1>2. /\ address = 0 /\ IsInjective(list) /\ ToSet(list) = DOMAIN mem \ {Null} /\ DOMAIN mem \subseteq Nat
      /\ mem = [p \in DOMAIN mem |-> ZeroPage] /\ address < limit /\ DOMAIN mapped = {}
      /\ limit \in Nat
  BY <1>1 DEF Control, Pages, Spaces
<1>3. PICK R : R = alloc_table(MachineOf(mem, list, Null))
  OBVIOUS
<1>4. /\ mem' = R.mem /\ list' = R.list /\ kernel' = R.at
      /\ pc' = IF R.at = Null THEN "halted" ELSE "init"
      /\ limit' = limit /\ address' = address /\ mapped' = mapped /\ created' = created
  BY <1>3, MachineIs DEF InitializePml4, Becomes
<1>5. list \in Seq(DOMAIN mem \ {Null}) /\ Null \in DOMAIN mem
  BY <1>1 DEF TypeOK, Pages
<1>6. CASE list = <<>>
  <2>1. R = MachineOf(mem, list, Null)
    BY <1>3, <1>6, AllocTable
  <2>2. mem' = mem /\ list' = list /\ kernel' = Null /\ pc' = "halted"
    BY <1>4, <2>1, MachineFacts
  <2>3. TypeOK'
    BY <1>1, <1>4, <2>2 DEF TypeOK, Pages, Spaces
  <2>4. Control' /\ ~Started'
    BY <1>1, <1>4, <2>2 DEF Control, Started
  <2> QED BY <2>3, <2>4 DEF PInv
<1>7. CASE list # <<>>
  <2>1. PICK c, l : c = palloc_alloc(list) /\ l = AfterAlloc(list)
    OBVIOUS
  <2>2. c \in DOMAIN mem \ {Null}
    BY <1>5, <1>7, <2>1, TypedOperations
  <2>3. R = MachineOf([mem EXCEPT ![c] = ZeroPage], l, c)
    BY <1>3, <1>7, <2>1, <2>2, AllocTable
  <2>4. mem' = [mem EXCEPT ![c] = ZeroPage] /\ list' = l /\ kernel' = c /\ pc' = "init"
    BY <1>4, <2>2, <2>3, MachineFacts
  <2>5. mem' = mem
    BY <1>2, <2>2, <2>4
  <2>6. l \in Seq(DOMAIN mem \ {Null}) /\ IsInjective(l) /\ ToSet(l) = DOMAIN mem \ {Null, c}
    <3>1. l \in Seq(DOMAIN mem \ {Null}) /\ IsInjective(l) /\ ToSet(l) = ToSet(list) \ {c}
      BY <1>2, <1>5, <1>7, <2>1, AllocFacts
    <3> QED BY <1>2, <3>1
  <2>7. PICK Y : Y = [mem |-> mem, list |-> l, root |-> c,
                      own |-> [p \in DOMAIN mem |-> IF p = c THEN Place(c, 4, 0) ELSE Nowhere],
                      ready |-> [n \in 0..3 |-> {}], depth |-> mapped, mapped |-> mapped]
    OBVIOUS
  <2>8. /\ Y.mem = mem /\ Y.list = l /\ Y.root = c /\ Y.depth = mapped /\ Y.mapped = mapped
        /\ Y.own = [p \in DOMAIN mem |-> IF p = c THEN Place(c, 4, 0) ELSE Nowhere]
        /\ Y.ready = [n \in 0..3 |-> {}]
    BY <2>7
  <2>9. Shape(Y)
    <3>1. First(Y, c)
      BY <1>2, <1>5, <2>2, <2>6, <2>8 DEF First
    <3> QED BY <3>1, FirstTable
  <2>10. Alike(Y, Snapshot(Y.own)')
    <3>1. PICK Z : Z = Snapshot(Y.own)'
      OBVIOUS
    <3>2. /\ Z.mem = mem' /\ Z.list = list' /\ Z.own = Y.own /\ Z.root = kernel' /\ Z.mapped = mapped'
          /\ Z.ready = [n \in 0..3 |-> {Prefix(w, n) : w \in 0..(address' - 1)}]
          /\ DOMAIN Z.depth = DOMAIN mapped'
      BY <3>1 DEF Snapshot, Spaces
    <3>3. \A k \in 0..3 : Z.ready[k] = Y.ready[k]
      <4>1. \A w \in 0..(address' - 1) : FALSE
        BY <1>2, <1>4
      <4> QED BY <2>8, <3>2, <4>1
    <3>4. Alike(Y, Z)
      BY <1>2, <1>4, <2>4, <2>5, <2>8, <3>2, <3>3 DEF Alike
    <3> QED BY <3>1, <3>4
  <2>11. Landed(Y)
    <3>1. created \in 0..MaxCreated /\ address' \in 0..limit
      BY <1>1, <1>4 DEF TypeOK
    <3> QED BY <1>4, <2>4, <2>9, <2>10, <3>1 DEF Landed
  <2>12. TypeOK' /\ (\E own : Shape(Snapshot(own)))'
    BY <1>1, <2>11, Landing
  <2>13. Control'
    <3>1. kernel' # Null /\ pc' = "init"
      BY <2>2, <2>4
    <3> QED BY <1>1, <1>2, <1>4, <3>1 DEF Control, Spaces
  <2> QED BY <2>12, <2>13 DEF PInv
<1> QED BY <1>6, <1>7

LEMMA StepIdentity ==
  ASSUME PInv, MapIdentity
  PROVE  PInv'
<1>1. TypeOK /\ Control /\ pc = "init" /\ kernel # Null /\ Started
  BY DEF PInv, MapIdentity, Started
<1>2. /\ address < limit /\ limit \in Nat \ {0} /\ limit - 1 \in VirtualPages /\ DOMAIN mapped = {}
      /\ address \in 0..limit /\ created \in 0..MaxCreated
  BY <1>1 DEF Control, Spaces, TypeOK
<1>3. address \in VirtualPages /\ address \in Nat
  <2>1. PICK a, b : a = Reach[4] /\ b = Fan[4]
    OBVIOUS
  <2>2. a \in Nat /\ b \in Nat
    BY <2>1, FanFacts, LevelCases
  <2>3. PICK N : N = a * b - 1
    OBVIOUS
  <2>4. VirtualPages = 0..N
    BY <2>1, <2>3 DEF VirtualPages
  <2>5. N \in Int
    BY <2>2, <2>3
  <2> QED BY <1>2, <2>4, <2>5
<1>4. PICK X, own : Present(X, own)
  BY <1>1, PresentFacts
<1>5. /\ Shape(X) /\ X.mem = mem /\ X.list = list /\ X.root = kernel /\ X.mapped = mapped
      /\ X.ready = [n \in 0..3 |-> {Prefix(w, n) : w \in 0..(address - 1)}] /\ DOMAIN X.depth = {}
  BY <1>2, <1>4 DEF Present
<1>6. PICK R : R = map_page_4k(MachineOf(mem, list, Null), kernel, address, address, FALSE)
  OBVIOUS
<1>7. /\ mem' = R.mem /\ list' = R.list
      /\ pc' = IF R.at = Null THEN "halted" ELSE IF address + 1 < limit THEN "init" ELSE "running"
      /\ address' = address + 1
      /\ limit' = limit /\ kernel' = kernel /\ mapped' = mapped /\ created' = created
  BY <1>6, MachineIs DEF MapIdentity, Becomes, MoreMemory
<1>8. KernelMapsTo(R, X, address)
  <2>1. KernelMapsTo(map_page_4k(MachineOf(X.mem, X.list, Null), X.root, address, address, FALSE), X, address)
    BY <1>3, <1>5, KernelMap
  <2> QED BY <1>5, <1>6, <2>1
<1>9. CASE Failed(R, X)
  <2>1. pc' = "halted"
    BY <1>7, <1>9 DEF Failed
  <2>2. address' \in 0..limit
    BY <1>2, <1>3, <1>7
  <2> QED BY <1>1, <1>2, <1>5, <1>7, <1>9, <2>1, <2>2, Halting
<1>10. ASSUME NEW Y, Shape(Y), Reached(X, Y, address, 0), R.mem = Y.mem, R.list = Y.list, R.at # Null
       PROVE  PInv'
  <2>1. Alike(Y, Snapshot(Y.own)')
    <3>1. PICK Z : Z = Snapshot(Y.own)'
      OBVIOUS
    <3>2. /\ Z.mem = mem' /\ Z.list = list' /\ Z.own = Y.own /\ Z.root = kernel'
          /\ Z.ready = [n \in 0..3 |-> {Prefix(w, n) : w \in 0..(address' - 1)}]
          /\ DOMAIN Z.depth = DOMAIN mapped'
      BY <3>1 DEF Snapshot, Spaces
    <3>3. ASSUME NEW k \in 0..3 PROVE Z.ready[k] = Y.ready[k]
      <4>1. Y.ready[k] = X.ready[k] \cup {Prefix(address, k)}
        BY <1>10 DEF Reached
      <4>2. \A w : w \in 0..(address' - 1) <=> w \in 0..(address - 1) \/ w = address
        BY <1>3, <1>7
      <4>3. X.ready[k] = {Prefix(w, k) : w \in 0..(address - 1)}
        BY <1>5
      <4>4. Z.ready[k] = {Prefix(w, k) : w \in 0..(address' - 1)}
        BY <3>2
      <4> QED BY <4>1, <4>2, <4>3, <4>4
    <3>4. DOMAIN Y.depth = {} /\ Y.root = X.root
      BY <1>5, <1>10 DEF Reached
    <3>5. Alike(Y, Z)
      BY <1>2, <1>5, <1>7, <1>10, <3>2, <3>3, <3>4 DEF Alike
    <3> QED BY <3>1, <3>5
  <2>2. Landed(Y)
    <3>1. address' \in 0..limit /\ pc' \in {"init", "running", "halted"}
      BY <1>2, <1>3, <1>7
    <3> QED BY <1>2, <1>7, <1>10, <2>1, <3>1 DEF Landed
  <2>3. TypeOK' /\ (\E o : Shape(Snapshot(o)))'
    BY <1>1, <2>2, Landing
  <2>4. Control'
    <3>1. pc' = IF address + 1 < limit THEN "init" ELSE "running"
      BY <1>7, <1>10
    <3>2. CASE address + 1 < limit
      <4>1. pc' = "init" /\ address' < limit'
        BY <1>7, <3>1, <3>2
      <4> QED BY <1>1, <1>2, <1>7, <4>1 DEF Control, Spaces
    <3>3. CASE ~(address + 1 < limit)
      <4>1. pc' = "running" /\ address' = limit'
        BY <1>2, <1>3, <1>7, <3>1, <3>3
      <4> QED BY <1>1, <1>2, <1>7, <4>1 DEF Control
    <3> QED BY <3>2, <3>3
  <2> QED BY <2>3, <2>4 DEF PInv
<1> QED BY <1>8, <1>9, <1>10 DEF KernelMapsTo

LEMMA StepCreate ==
  ASSUME PInv, CreateUserAddressSpace
  PROVE  PInv'
<1>1. TypeOK /\ Control /\ pc = "running" /\ kernel # Null /\ Started
  BY DEF PInv, CreateUserAddressSpace, Started, Control
<1>2. PICK X, own : Present(X, own)
  BY <1>1, PresentFacts
<1>3. /\ Shape(X) /\ X.mem = mem /\ X.list = list /\ X.root = kernel /\ X.mapped = mapped
      /\ X.ready = [n \in 0..3 |-> {Prefix(w, n) : w \in 0..(address - 1)}]
      /\ X.depth = [s \in DOMAIN mapped |-> IF DOMAIN mapped[s] = {} THEN 4 ELSE 1]
  BY <1>2 DEF Present
<1>4. PICK R : R = copy_table(MachineOf(mem, list, Null), kernel)
  OBVIOUS
<1>5. /\ R.at # Null /\ mem' = R.mem /\ list' = R.list /\ pc' = "running"
      /\ mapped' = [s \in DOMAIN mapped \cup {R.at} |-> IF s = R.at THEN <<>> ELSE mapped[s]]
      /\ created' = created + 1 /\ created < MaxCreated
      /\ limit' = limit /\ kernel' = kernel /\ address' = address
  BY <1>1, <1>4, MachineIs DEF CreateUserAddressSpace, Becomes, Spaces
<1>6. CreatesTo(R, X)
  <2>1. CreatesTo(copy_table(MachineOf(X.mem, X.list, Null), X.root), X)
    BY <1>3, UserCreate
  <2> QED BY <1>3, <1>4, <2>1
<1>7. PICK Y : /\ Created(X, Y, R.at) /\ Shape(Y) /\ R.mem = Y.mem /\ R.list = Y.list
               /\ Y.depth = [t \in DOMAIN X.depth \cup {R.at} |-> IF t = R.at THEN 4 ELSE X.depth[t]]
               /\ Y.mapped = [t \in DOMAIN X.depth \cup {R.at} |-> IF t = R.at THEN <<>> ELSE X.mapped[t]]
  BY <1>5, <1>6 DEF CreatesTo
<1>8. Alike(Y, Snapshot(Y.own)')
  <2>1. PICK Z : Z = Snapshot(Y.own)'
    OBVIOUS
  <2>2. /\ Z.mem = mem' /\ Z.list = list' /\ Z.own = Y.own /\ Z.root = kernel'
        /\ Z.ready = [n \in 0..3 |-> {Prefix(w, n) : w \in 0..(address' - 1)}]
        /\ Z.depth = [s \in DOMAIN mapped' |-> IF DOMAIN mapped'[s] = {} THEN 4 ELSE 1]
        /\ Z.mapped = mapped'
    BY <2>1 DEF Snapshot, Spaces
  <2>3. Y.root = X.root /\ Y.ready = X.ready
    BY <1>7 DEF Created
  <2>4. Z.ready = Y.ready
    BY <1>3, <1>5, <2>2, <2>3
  <2>5. DOMAIN mapped' = DOMAIN mapped \cup {R.at} /\ DOMAIN X.depth = DOMAIN mapped
    BY <1>3, <1>5
  <2>6. DOMAIN Y.depth = DOMAIN mapped' /\ DOMAIN Z.depth = DOMAIN mapped'
    BY <1>7, <2>2, <2>5
  <2>7. ASSUME NEW t \in DOMAIN Y.depth PROVE Z.depth[t] = Y.depth[t] /\ Z.mapped[t] = Y.mapped[t]
    <3>1. CASE t = R.at
      <4>1. mapped'[t] = <<>> /\ Y.mapped[t] = <<>> /\ Y.depth[t] = 4
        BY <1>5, <1>7, <3>1
      <4>2. DOMAIN <<>> = {}
        OBVIOUS
      <4>3. DOMAIN mapped'[t] = {}
        BY <4>1, <4>2
      <4>4. Z.depth[t] = 4
        BY <2>2, <2>6, <4>3
      <4> QED BY <2>2, <4>1, <4>4
    <3>2. CASE t # R.at
      <4>1. t \in DOMAIN mapped /\ mapped'[t] = mapped[t] /\ Y.mapped[t] = mapped[t]
        BY <1>3, <1>5, <1>7, <2>5, <2>6, <3>2
      <4>2. Y.depth[t] = X.depth[t]
        BY <1>7, <2>5, <3>2, <4>1
      <4>3. Z.depth[t] = IF DOMAIN mapped[t] = {} THEN 4 ELSE 1
        BY <2>2, <2>6, <4>1
      <4> QED BY <1>3, <2>2, <4>1, <4>2, <4>3
    <3> QED BY <3>1, <3>2
  <2>8. Alike(Y, Z)
    BY <1>3, <1>5, <1>7, <2>2, <2>3, <2>4, <2>6, <2>7 DEF Alike
  <2> QED BY <2>1, <2>8
<1>9. Landed(Y)
  <2>1. created' \in 0..MaxCreated /\ address' \in 0..limit
    BY <1>1, <1>5, PagingAssumption DEF TypeOK
  <2> QED BY <1>5, <1>7, <1>8, <2>1 DEF Landed
<1>10. TypeOK' /\ (\E o : Shape(Snapshot(o)))'
  BY <1>1, <1>9, Landing
<1>11. Control'
  BY <1>1, <1>5 DEF Control
<1> QED BY <1>10, <1>11 DEF PInv

LEMMA StepMap ==
  ASSUME PInv, NEW s \in Spaces, NEW v \in Layout, NEW q \in Targets, MapUserPage(s, v, q)
  PROVE  PInv'
<1>1. TypeOK /\ Control /\ pc = "running" /\ kernel # Null /\ Started /\ s \in DOMAIN mapped
  BY DEF PInv, MapUserPage, Started, Control, Spaces
<1>2. PICK X, own : Present(X, own)
  BY <1>1, PresentFacts
<1>3. /\ Shape(X) /\ X.mem = mem /\ X.list = list /\ X.root = kernel /\ X.mapped = mapped
      /\ X.ready = [n \in 0..3 |-> {Prefix(w, n) : w \in 0..(address - 1)}]
      /\ X.depth = [t \in DOMAIN mapped |-> IF DOMAIN mapped[t] = {} THEN 4 ELSE 1]
  BY <1>2 DEF Present
<1>4. PICK R, N : /\ R = paging_map_user_page(MachineOf(mem, list, Null), s, v, q)
                  /\ N = [w \in DOMAIN mapped[s] \cup {v} |-> IF w = v THEN q ELSE mapped[s][w]]
  OBVIOUS
<1>5. /\ mem' = R.mem /\ list' = R.list /\ pc' = IF R.at = Null THEN "halted" ELSE "running"
      /\ mapped' = [mapped EXCEPT ![s] = N]
      /\ limit' = limit /\ kernel' = kernel /\ address' = address /\ created' = created
  BY <1>1, <1>4, MachineIs DEF MapUserPage, Becomes
<1>6. /\ DOMAIN mapped' = DOMAIN mapped /\ mapped'[s] = N
      /\ \A t \in DOMAIN mapped : t # s => mapped'[t] = mapped[t]
      /\ DOMAIN N = DOMAIN mapped[s] \cup {v}
  BY <1>1, <1>4, <1>5
<1>7. UserMapsTo(R, X, s, v, q)
  <2>1. s \in DOMAIN X.depth /\ q \in Nat
    BY <1>1, <1>3, PagingAssumption
  <2>2. UserMapsTo(paging_map_user_page(MachineOf(X.mem, X.list, Null), s, v, q), X, s, v, q)
    BY <1>3, <2>1, UserMap
  <2> QED BY <1>3, <1>4, <2>2
<1>8. address' \in 0..limit /\ created' \in 0..MaxCreated
  BY <1>1, <1>5 DEF TypeOK
<1>9. CASE Failed(R, X)
  <2>1. pc' = "halted"
    BY <1>5, <1>9 DEF Failed
  <2>2. \A t \in DOMAIN mapped : DOMAIN mapped'[t] \subseteq Layout
    BY <1>1, <1>6 DEF TypeOK, Spaces
  <2> QED BY <1>1, <1>3, <1>5, <1>6, <1>8, <1>9, <2>1, <2>2, Halting
<1>10. ASSUME NEW Y, NEW W, UserStage(X, W, s), W.depth[s] = 1, UserLeaf(W, Y, s, v, q), Shape(Y),
              R.mem = Y.mem, R.list = Y.list, R.at # Null
       PROVE  PInv'
  <2>1. /\ W.root = X.root /\ W.ready = X.ready /\ W.mapped = X.mapped
        /\ DOMAIN W.depth = DOMAIN X.depth
        /\ \A t \in DOMAIN X.depth : t # s => W.depth[t] = X.depth[t]
    BY <1>10 DEF UserStage
  <2>2. /\ Y.root = W.root /\ Y.ready = W.ready /\ Y.depth = W.depth
        /\ Y.mapped[s] = [w \in DOMAIN W.mapped[s] \cup {v} |-> IF w = v THEN q ELSE W.mapped[s][w]]
        /\ \A t \in DOMAIN W.depth : t # s => Y.mapped[t] = W.mapped[t]
    BY <1>10 DEF UserLeaf, Written
  <2>3. Y.mapped[s] = N
    BY <1>3, <1>4, <2>1, <2>2
  <2>4. Alike(Y, Snapshot(Y.own)')
    <3>1. PICK Z : Z = Snapshot(Y.own)'
      OBVIOUS
    <3>2. /\ Z.mem = mem' /\ Z.list = list' /\ Z.own = Y.own /\ Z.root = kernel'
          /\ Z.ready = [n \in 0..3 |-> {Prefix(w, n) : w \in 0..(address' - 1)}]
          /\ Z.depth = [t \in DOMAIN mapped' |-> IF DOMAIN mapped'[t] = {} THEN 4 ELSE 1]
          /\ Z.mapped = mapped'
      BY <3>1 DEF Snapshot, Spaces
    <3>3. DOMAIN Y.depth = DOMAIN mapped /\ DOMAIN Z.depth = DOMAIN mapped
      BY <1>3, <1>6, <2>1, <2>2, <3>2
    <3>4. ASSUME NEW t \in DOMAIN Y.depth PROVE Z.depth[t] = Y.depth[t] /\ Z.mapped[t] = Y.mapped[t]
      <4>1. CASE t = s
        <5>1. DOMAIN mapped'[t] # {}
          BY <1>6, <4>1
        <5>2. Z.depth[t] = 1
          BY <1>6, <3>2, <3>3, <5>1
        <5> QED BY <1>6, <1>10, <2>2, <2>3, <3>2, <4>1, <5>2
      <4>2. CASE t # s
        <5>1. t \in DOMAIN mapped /\ mapped'[t] = mapped[t] /\ Y.mapped[t] = mapped[t]
          BY <1>3, <1>6, <2>1, <2>2, <3>3, <4>2
        <5>2. Y.depth[t] = X.depth[t]
          BY <2>1, <2>2, <4>2
        <5>3. Z.depth[t] = IF DOMAIN mapped[t] = {} THEN 4 ELSE 1
          BY <1>6, <3>2, <5>1
        <5> QED BY <1>3, <3>2, <5>1, <5>2, <5>3
      <4> QED BY <4>1, <4>2
    <3>5. Z.ready = Y.ready
      BY <1>3, <1>5, <2>1, <2>2, <3>2
    <3>6. Alike(Y, Z)
      BY <1>3, <1>5, <1>10, <2>1, <2>2, <3>2, <3>3, <3>4, <3>5 DEF Alike
    <3> QED BY <3>1, <3>6
  <2>5. pc' = "running"
    BY <1>5, <1>10
  <2>6. Landed(Y)
    BY <1>5, <1>8, <1>10, <2>4, <2>5 DEF Landed
  <2>7. TypeOK' /\ (\E o : Shape(Snapshot(o)))'
    BY <1>1, <2>6, Landing
  <2>8. Control'
    BY <1>1, <1>5, <2>5 DEF Control
  <2> QED BY <2>7, <2>8 DEF PInv
<1> QED BY <1>7, <1>9, <1>10 DEF UserMapsTo

LEMMA StepRelease ==
  ASSUME PInv, NEW s \in Spaces, ReleaseUserAddressSpace(s)
  PROVE  PInv'
<1>1. TypeOK /\ Control /\ pc = "running" /\ kernel # Null /\ Started /\ s \in DOMAIN mapped
  BY DEF PInv, ReleaseUserAddressSpace, Started, Control, Spaces
<1>2. PICK X, own : Present(X, own)
  BY <1>1, PresentFacts
<1>3. /\ Shape(X) /\ X.mem = mem /\ X.list = list /\ X.root = kernel /\ X.mapped = mapped
      /\ X.ready = [n \in 0..3 |-> {Prefix(w, n) : w \in 0..(address - 1)}]
      /\ X.depth = [t \in DOMAIN mapped |-> IF DOMAIN mapped[t] = {} THEN 4 ELSE 1]
  BY <1>2 DEF Present
<1>4. PICK F : F = ReleasedTables(s, Trampoline)
  OBVIOUS
<1>5. /\ list' = F \o list
      /\ mem' = [p \in DOMAIN mem |-> IF p \in ToSet(F) THEN [mem[p] EXCEPT ![0] = Absent] ELSE mem[p]]
      /\ mapped' = [t \in DOMAIN mapped \ {s} |-> mapped[t]]
      /\ limit' = limit /\ kernel' = kernel /\ address' = address /\ created' = created /\ pc' = pc
  BY <1>4 DEF ReleaseUserAddressSpace, Pages, Spaces
<1>6. Freed(X, s, F)
  <2>1. s \in DOMAIN X.depth /\ X.depth[s] \in {1, 4}
    BY <1>1, <1>3
  <2> QED BY <1>3, <1>4, <2>1, FreedTables
<1>7. PICK Y : Y = [mem |-> mem', list |-> list', root |-> kernel, ready |-> X.ready, mapped |-> mapped',
                    own |-> [p \in DOMAIN mem |-> IF p \in ToSet(F) THEN Nowhere ELSE X.own[p]],
                    depth |-> [t \in DOMAIN mapped' |-> IF DOMAIN mapped'[t] = {} THEN 4 ELSE 1]]
  OBVIOUS
<1>8. /\ Y.mem = mem' /\ Y.list = list' /\ Y.root = kernel /\ Y.ready = X.ready /\ Y.mapped = mapped'
      /\ Y.own = [p \in DOMAIN mem |-> IF p \in ToSet(F) THEN Nowhere ELSE X.own[p]]
      /\ Y.depth = [t \in DOMAIN mapped' |-> IF DOMAIN mapped'[t] = {} THEN 4 ELSE 1]
  BY <1>7
<1>9. Released(X, Y, s, F)
  <2>1. DOMAIN mapped' = DOMAIN mapped \ {s}
    BY <1>5
  <2>2. DOMAIN X.depth = DOMAIN mapped /\ DOMAIN Y.depth = DOMAIN X.depth \ {s}
    BY <1>3, <1>8, <2>1
  <2>3. ASSUME NEW t \in DOMAIN X.depth, t # s PROVE Y.depth[t] = X.depth[t] /\ Y.mapped[t] = X.mapped[t]
    <3>1. t \in DOMAIN mapped' /\ t \in DOMAIN mapped /\ mapped'[t] = mapped[t]
      BY <1>5, <2>1, <2>2, <2>3
    <3> QED BY <1>3, <1>8, <3>1
  <2>4. /\ Y.mem = [p \in DOMAIN X.mem |-> IF p \in ToSet(F) THEN [X.mem[p] EXCEPT ![0] = Absent]
                                                            ELSE X.mem[p]]
        /\ Y.own = [p \in DOMAIN X.mem |-> IF p \in ToSet(F) THEN Nowhere ELSE X.own[p]]
        /\ Y.list = F \o X.list
    BY <1>3, <1>5, <1>8
  <2> QED BY <1>1, <1>3, <1>6, <1>8, <2>2, <2>3, <2>4 DEF Released
<1>10. Shape(Y)
  BY <1>3, <1>9, ReleaseUser
<1>11. Alike(Y, Snapshot(Y.own)')
  <2>1. PICK Z : Z = Snapshot(Y.own)'
    OBVIOUS
  <2>2. /\ Z.mem = mem' /\ Z.list = list' /\ Z.own = Y.own /\ Z.root = kernel'
        /\ Z.ready = [n \in 0..3 |-> {Prefix(w, n) : w \in 0..(address' - 1)}]
        /\ Z.depth = [t \in DOMAIN mapped' |-> IF DOMAIN mapped'[t] = {} THEN 4 ELSE 1]
        /\ Z.mapped = mapped'
    BY <2>1 DEF Snapshot, Spaces
  <2>3. Z.ready = Y.ready /\ Z.depth = Y.depth /\ Z.mapped = Y.mapped
    BY <1>3, <1>5, <1>8, <2>2
  <2>4. Alike(Y, Z)
    BY <1>5, <1>8, <2>2, <2>3 DEF Alike
  <2> QED BY <2>1, <2>4
<1>12. Landed(Y)
  <2>1. created' \in 0..MaxCreated /\ address' \in 0..limit /\ pc' = "running"
    BY <1>1, <1>5 DEF TypeOK
  <2> QED BY <1>5, <1>10, <1>11, <2>1 DEF Landed
<1>13. TypeOK' /\ (\E o : Shape(Snapshot(o)))'
  BY <1>1, <1>12, Landing
<1>14. Control'
  BY <1>1, <1>5 DEF Control
<1> QED BY <1>13, <1>14 DEF PInv

LEMMA InitPInv == Init => PInv
<1> SUFFICES ASSUME Init PROVE PInv
  OBVIOUS
<1>1. PICK m \in Memories : /\ limit = m[1] /\ list = palloc_initialize(m[2])
                            /\ mem = [p \in 0..m[2] |-> ZeroPage]
  BY DEF Init
<1>2. kernel = Null /\ address = 0 /\ pc = "init" /\ mapped = <<>> /\ created = 0
  BY DEF Init
<1>3. m[1] \in Nat \ {0} /\ m[1] - 1 \in VirtualPages /\ m[2] \in Nat /\ MaxCreated \in Nat
  BY PagingAssumption
<1>4. DOMAIN mem = 0..m[2] /\ DOMAIN <<>> = {}
  BY <1>1
<1>5. DOMAIN mapped = {}
  BY <1>2, <1>4
<1>6. /\ list \in Seq(DOMAIN mem \ {Null}) /\ IsInjective(list) /\ ToSet(list) = DOMAIN mem \ {Null}
  <2>1. PICK n, e : n = m[2] /\ e = n + 1
    OBVIOUS
  <2>2. n \in Nat /\ e \in Int /\ 1 \in Int /\ e - 1 = n
    BY <1>3, <2>1
  <2>3. list = Descending(1, e)
    BY <1>1, <2>1 DEF palloc_initialize
  <2>4. list \in Seq(1..(e - 1)) /\ IsInjective(list) /\ ToSet(list) = 1..(e - 1)
    BY <2>2, <2>3, DescendingFacts
  <2>5. 1..n = DOMAIN mem \ {Null}
    BY <1>4, <2>1, <2>2 DEF Null
  <2> QED BY <2>2, <2>4, <2>5
<1>7. mem = [p \in DOMAIN mem |-> ZeroPage] /\ mem \in [DOMAIN mem -> [Indices -> Entries]]
  BY <1>1, <1>4, EntryFacts
<1>8. TypeOK
  <2>1. 0 \in DOMAIN mem /\ kernel \in DOMAIN mem /\ address \in 0..limit
    BY <1>1, <1>2, <1>3, <1>4 DEF Null
  <2> QED BY <1>1, <1>2, <1>3, <1>5, <1>6, <1>7, <2>1 DEF TypeOK, Pages, Spaces, Entries
<1>9. Control
  <2>1. DOMAIN mem \subseteq Nat
    BY <1>3, <1>4
  <2> QED BY <1>1, <1>2, <1>3, <1>5, <1>6, <1>7, <2>1 DEF Control, Pages, Spaces
<1>10. ~Started
  BY <1>2 DEF Started
<1> QED BY <1>8, <1>9, <1>10 DEF PInv

(* The invariant is kept by every step. *)
LEMMA StepPInv == PInv /\ [Next]_vars => PInv'
<1> SUFFICES ASSUME PInv, [Next]_vars PROVE PInv'
  OBVIOUS
<1>1. CASE InitializePml4
  BY <1>1, StepInitialize
<1>2. CASE MapIdentity
  BY <1>2, StepIdentity
<1>3. CASE CreateUserAddressSpace
  BY <1>3, StepCreate
<1>4. ASSUME NEW s \in Spaces, ReleaseUserAddressSpace(s) PROVE PInv'
  BY <1>4, StepRelease
<1>5. ASSUME NEW s \in Spaces, NEW v \in Layout, NEW p \in Targets, MapUserPage(s, v, p) PROVE PInv'
  BY <1>5, StepMap
<1>6. CASE UNCHANGED vars
  BY <1>6 DEF vars, PInv, TypeOK, Control, Started, Snapshot, Pages, Spaces
<1> QED BY <1>1, <1>2, <1>3, <1>4, <1>5, <1>6 DEF Next

LEMMA Always == Spec => []PInv
BY InitPInv, StepPInv, PTL DEF Spec

-----------------------------------------------------------------------------
(* What the tables translate *)

(* The page table of a space holds the kernel's entries, but for the pages *)
(* that are mapped; the way to those is open to user code.                 *)
LEMMA SpaceLeaf ==
  ASSUME NEW X, Shape(X), NEW s \in DOMAIN X.depth, NEW v \in VirtualPages
  PROVE  /\ v \notin DOMAIN X.mapped[s] => Slot(X.mem, s, v, 1) = Slot(X.mem, X.root, v, 1)
         /\ v \in DOMAIN X.mapped[s] =>
              /\ Slot(X.mem, s, v, 1) = Entry(X.mapped[s][v], TRUE)
              /\ \A n \in 2..4 : Slot(X.mem, s, v, n).user = TRUE
<1>1. UserTree(X, s) /\ X.depth[s] \in Levels /\ DOMAIN X.mapped[s] \subseteq Layout
  BY DEF Shape, UserTree
<1>2. 1 \in Levels /\ Trampoline \in VirtualPages
  BY LevelCases, LayoutFacts
<1>3. ASSUME v \notin DOMAIN X.mapped[s] PROVE Slot(X.mem, s, v, 1) = Slot(X.mem, X.root, v, 1)
  <2>1. CASE ~OnPath(X, s, v, 1)
    <3>1. Table(X.mem, s, v, 1) = Table(X.mem, X.root, v, 1)
      BY <1>1, <1>2, <2>1, UserTables
    <3> QED BY <3>1 DEF Slot
  <2>2. CASE OnPath(X, s, v, 1)
    <3>1. X.depth[s] = 1 /\ Prefix(v, 1) = Prefix(Trampoline, 1)
      BY <1>1, <2>2 DEF OnPath, Levels
    <3>2. PICK p, k, i : /\ p = Table(X.mem, s, Trampoline, 1)
                         /\ k = Table(X.mem, X.root, Trampoline, 1) /\ i = Index(v, 1)
      OBVIOUS
    <3>3. Table(X.mem, s, v, 1) = p
      BY <1>1, <1>2, <2>2, <3>2, UserTables
    <3>4. Table(X.mem, X.root, v, 1) = k
      BY <1>2, <3>1, <3>2, TableSame
    <3>5. i \notin Covered(X, s)
      <4>1. SUFFICES ASSUME NEW w \in DOMAIN X.mapped[s], Index(w, 1) = i PROVE FALSE
        BY DEF Covered
      <4>2. w \in Layout /\ w \in VirtualPages /\ Prefix(w, 1) = Prefix(Trampoline, 1)
        BY <1>1, <1>2, LayoutFacts
      <4>3. Prefix(v, 1) = Prefix(w, 1) /\ Index(v, 1) = Index(w, 1)
        BY <3>1, <3>2, <4>1, <4>2
      <4>4. Prefix(v, 1 - 1) = Prefix(w, 1 - 1)
        BY <1>2, <4>2, <4>3, SamePrefix
      <4>5. 1 - 1 = 0 /\ v \in Nat /\ w \in Nat
        BY <1>2, <4>2, IndexFacts
      <4>6. Prefix(v, 0) = v /\ Prefix(w, 0) = w
        BY <4>5, PrefixFacts
      <4> QED BY <1>3, <4>4, <4>5, <4>6
    <3>6. i \in Indices
      BY <1>2, <3>2, IndexFacts, IndicesFacts
    <3>7. UserNode(X, s, 1)
      <4>1. 1 \in X.depth[s]..4
        BY <3>1
      <4> QED BY <1>1, <4>1 DEF UserTree
    <3>8. X.mem[p][i] = X.mem[k][i]
      <4>1. ~(1 > X.depth[s])
        BY <3>1
      <4> QED BY <3>2, <3>5, <3>6, <3>7, <4>1 DEF UserNode
    <3> QED BY <3>2, <3>3, <3>4, <3>8 DEF Slot
  <2> QED BY <2>1, <2>2
<1>4. ASSUME v \in DOMAIN X.mapped[s]
      PROVE  /\ Slot(X.mem, s, v, 1) = Entry(X.mapped[s][v], TRUE)
             /\ \A n \in 2..4 : Slot(X.mem, s, v, n).user = TRUE
  <2>1. X.depth[s] = 1 /\ v \in Layout
    <3>1. ~(X.depth[s] > 1)
      BY <1>1, <1>4 DEF UserTree
    <3> QED BY <1>1, <1>4, <3>1 DEF Levels
  <2>2. \A n \in Levels : Table(X.mem, s, v, n) = Table(X.mem, s, Trampoline, n)
    BY <1>2, <2>1, LayoutFacts, TableSame
  <2>3. ASSUME NEW n \in 2..4 PROVE Slot(X.mem, s, v, n).user = TRUE
    <3>1. Slot(X.mem, s, Trampoline, n) = Entry(Table(X.mem, s, Trampoline, n - 1), TRUE)
      BY <2>1, SpaceEntries
    <3>2. n \in Levels /\ Index(v, n) = Index(Trampoline, n)
      BY <2>1, LevelCases, LayoutFacts
    <3>3. Slot(X.mem, s, v, n) = Slot(X.mem, s, Trampoline, n)
      BY <2>2, <3>2 DEF Slot
    <3> QED BY <3>1, <3>3 DEF Entry
  <2>4. UserNode(X, s, 1)
    <3>1. 1 \in X.depth[s]..4
      BY <2>1
    <3> QED BY <1>1, <3>1 DEF UserTree
  <2>5. X.mem[Table(X.mem, s, Trampoline, 1)][Index(v, 1)] = Entry(X.mapped[s][v], TRUE)
    BY <1>4, <2>4 DEF UserNode
  <2> QED BY <1>2, <2>2, <2>3, <2>5 DEF Slot
<1> QED BY <1>3, <1>4

(* A user bit that is written as it is. *)
LEMMA UserBit ==
  ASSUME NEW q, NEW u \in BOOLEAN
  PROVE  /\ Entry(q, u).user = u /\ [Entry(q, u) EXCEPT !.user = u] = Entry(q, u)
         /\ Absent.user = FALSE /\ [Absent EXCEPT !.user = FALSE] = Absent
<1>1. \A a, w : \A e \in [present : BOOLEAN, addr : {a}, user : BOOLEAN] :
         e.user = w => [e EXCEPT !.user = w] = e
  OBVIOUS
<1>2. /\ Entry(q, u) \in [present : BOOLEAN, addr : {q}, user : BOOLEAN] /\ Entry(q, u).user = u
      /\ Absent \in [present : BOOLEAN, addr : {Null}, user : BOOLEAN] /\ Absent.user = FALSE
  BY DEF Entry, Absent
<1> QED BY <1>1, <1>2

(* The walk of the CPU ends at the entry of the page table, and the user   *)
(* bits above it take nothing away.                                        *)
LEMMA WalkIs ==
  ASSUME NEW X, NEW own, Present(X, own), NEW r \in DOMAIN X.depth \cup {X.root},
         NEW v \in VirtualPages
  PROVE  Walk(r, v) = Slot(X.mem, r, v, 1) /\ walk_to_pt(r, v) = Table(X.mem, r, v, 1)
<1>1. Shape(X) /\ X.mem = mem /\ KernelTree(X)
  BY DEF Present, Shape
<1>2. PICK e4, e3, e2, e1 : /\ e4 = Slot(X.mem, r, v, 4) /\ e3 = Slot(X.mem, r, v, 3)
                            /\ e2 = Slot(X.mem, r, v, 2) /\ e1 = Slot(X.mem, r, v, 1)
  OBVIOUS
<1>3. e4 = mem[r][Index(v, 4)]
  BY <1>1, <1>2, TableDown DEF Slot
<1>4. /\ e3 = IF e4.present THEN mem[e4.addr][Index(v, 3)] ELSE Absent
      /\ e2 = IF e3.present THEN mem[e3.addr][Index(v, 2)] ELSE Absent
      /\ e1 = IF e2.present THEN mem[e2.addr][Index(v, 1)] ELSE Absent
  <2>1. WalkOf(X.mem, r, v)
    BY <1>1, WalkSlots
  <2>2. 3 \in 1..3 /\ 2 \in 1..3 /\ 1 \in 1..3 /\ 3 + 1 = 4 /\ 2 + 1 = 3 /\ 1 + 1 = 2
    OBVIOUS
  <2> QED BY <1>1, <1>2, <2>1, <2>2 DEF WalkOf
<1>5. Walk(r, v) = [e1 EXCEPT !.user = e1.user /\ e2.user /\ e3.user /\ e4.user]
  BY <1>3, <1>4, Zenon DEF Walk
<1>6. walk_to_pt(r, v) = e2.addr
  BY <1>3, <1>4, Zenon DEF walk_to_pt
<1>7. e2.addr = Table(X.mem, r, v, 1)
  <2>1. 1 \in 1..3 /\ 1 + 1 = 2
    OBVIOUS
  <2> QED BY <1>2, <2>1, TableDown
<1>8. CASE r \in DOMAIN X.depth /\ v \in DOMAIN X.mapped[r]
  <2>1. e1 = Entry(X.mapped[r][v], TRUE) /\ e2.user = TRUE /\ e3.user = TRUE /\ e4.user = TRUE
    <3>1. 2 \in 2..4 /\ 3 \in 2..4 /\ 4 \in 2..4
      OBVIOUS
    <3> QED BY <1>1, <1>2, <1>8, <3>1, SpaceLeaf
  <2>2. e1.user = TRUE /\ [e1 EXCEPT !.user = TRUE] = e1
    BY <2>1, UserBit
  <2>3. (e1.user /\ e2.user /\ e3.user /\ e4.user) = TRUE
    BY <2>1, <2>2
  <2>4. Walk(r, v) = [e1 EXCEPT !.user = TRUE]
    BY <1>5, <2>3
  <2> QED BY <1>2, <1>6, <1>7, <2>2, <2>4
<1>9. CASE ~(r \in DOMAIN X.depth /\ v \in DOMAIN X.mapped[r])
  <2>1. e1 = Slot(X.mem, X.root, v, 1)
    BY <1>1, <1>2, <1>9, SpaceLeaf
  <2>2. e1 = IF v \in X.ready[0] THEN Entry(v, FALSE) ELSE Absent
    BY <1>1, <2>1 DEF KernelTree
  <2>3. e1.user = FALSE /\ [e1 EXCEPT !.user = FALSE] = e1
    BY <2>2, UserBit
  <2>4. (e1.user /\ e2.user /\ e3.user /\ e4.user) = FALSE
    BY <2>3
  <2>5. Walk(r, v) = [e1 EXCEPT !.user = FALSE]
    BY <1>5, <2>4
  <2> QED BY <1>2, <1>6, <1>7, <2>3, <2>5
<1> QED BY <1>8, <1>9

(* The kernel's entry is there for the pages of memory. *)
LEMMA KernelLeaves ==
  ASSUME NEW X, NEW own, Present(X, own), Control, pc = "running", NEW v \in VirtualPages
  PROVE  Slot(X.mem, X.root, v, 1) = IF v < limit THEN Entry(v, FALSE) ELSE Absent
<1>1. Shape(X) /\ KernelTree(X) /\ address = limit /\ limit \in Nat
  BY DEF Present, Shape, Control
<1>2. X.ready[0] = {Prefix(w, 0) : w \in 0..(limit - 1)}
  BY <1>1 DEF Present
<1>3. v \in Nat
  BY IndexFacts, LevelCases
<1>4. \A w \in Nat : Prefix(w, 0) = w
  BY PrefixFacts
<1>5. \A w \in 0..(limit - 1) : w \in Nat /\ w < limit
  BY <1>1
<1>6. v < limit <=> v \in 0..(limit - 1)
  BY <1>1, <1>3
<1>7. v \in X.ready[0] <=> v < limit
  BY <1>2, <1>3, <1>4, <1>5, <1>6
<1> QED BY <1>1, <1>7 DEF KernelTree

LEMMA BelowLimit ==
  ASSUME Control, NEW v \in 0..(limit - 1)
  PROVE  v \in VirtualPages /\ v < limit
<1>1. PICK a, b : a = Reach[4] /\ b = Fan[4]
  OBVIOUS
<1>2. a \in Nat /\ b \in Nat
  BY <1>1, FanFacts, LevelCases
<1>3. PICK N : N = a * b - 1
  OBVIOUS
<1>4. VirtualPages = 0..N
  BY <1>1, <1>3 DEF VirtualPages
<1>5. N \in Int
  BY <1>2, <1>3
<1>6. limit \in Nat /\ limit - 1 \in VirtualPages
  BY DEF Control
<1> QED BY <1>4, <1>5, <1>6

(* The space s passes paging_address_space_valid. *)
LEMMA SpaceValid ==
  ASSUME NEW X, NEW own, Present(X, own), Control, pc = "running", NEW s \in DOMAIN X.depth
  PROVE  paging_address_space_valid(s)
<1>1. /\ Shape(X) /\ X.mem = mem /\ X.root = kernel /\ KernelTree(X) /\ UserTree(X, s) /\ s # Null
      /\ MemoryShape(X) /\ X.depth[s] \in Levels
  BY DEF Present, Shape, UserTree
<1>2. Trampoline \in VirtualPages /\ 0 \in VirtualPages /\ Prefix(Trampoline, 3) = Prefix(0, 3)
  BY LayoutFacts
<1>3. PICK j : j = Index(Trampoline, 4)
  OBVIOUS
<1>4. Table(X.mem, s, Trampoline, 4) = s /\ Table(X.mem, X.root, Trampoline, 4) = kernel
  BY <1>1, TableDown
<1>5. mem[kernel][j].present = TRUE
  <2>1. Prefix(Trampoline, 3) \in X.ready[3]
    <3>1. 0 \in 0..(address - 1)
      BY DEF Control
    <3> QED BY <1>2, <3>1 DEF Present
  <2>2. KernelNode(X, Trampoline, 3)
    BY <1>1, <1>2 DEF KernelTree
  <2>3. Slot(X.mem, X.root, Trampoline, 3 + 1) = Entry(Table(X.mem, X.root, Trampoline, 3), FALSE)
    BY <2>1, <2>2 DEF KernelNode
  <2>4. mem[kernel][j] = Entry(Table(X.mem, X.root, Trampoline, 3), FALSE)
    <3>1. 3 + 1 = 4
      OBVIOUS
    <3> QED BY <1>1, <1>3, <1>4, <2>3, <3>1 DEF Slot
  <2> QED BY <2>4 DEF Entry
<1>6. UserNode(X, s, 4)
  <2>1. 4 \in X.depth[s]..4
    BY <1>1 DEF Levels
  <2> QED BY <1>1, <2>1 DEF UserTree
<1>7. ASSUME NEW i \in Indices PROVE mem[s][i].present = mem[kernel][i].present
  <2>1. CASE 4 > X.depth[s] /\ i = j
    <3>1. mem[s][j] = Entry(Table(X.mem, s, Trampoline, 4 - 1), TRUE)
      BY <1>1, <1>3, <1>4, <1>6, <2>1 DEF UserNode
    <3>2. mem[s][j].present = TRUE
      BY <3>1 DEF Entry
    <3> QED BY <1>5, <2>1, <3>2
  <2>2. CASE ~(4 > X.depth[s] /\ i = j)
    <3>1. mem[s][i] = mem[kernel][i]
      BY <1>1, <1>3, <1>4, <1>6, <2>2 DEF UserNode
    <3> QED BY <3>1
  <2> QED BY <2>1, <2>2
<1> QED BY <1>1, <1>7 DEF paging_address_space_valid

(* paging_mapping_matches says what the walk of the CPU finds. *)
LEMMA MatchIs ==
  ASSUME NEW X, NEW own, Present(X, own), NEW s \in DOMAIN X.depth, NEW v \in VirtualPages,
         NEW p \in Nat, NEW user \in BOOLEAN
  PROVE  paging_mapping_matches(s, v, p, user) <=> Walk(s, v) = Entry(p, user)
<1>1. Shape(X) /\ X.mem = mem /\ s # Null /\ MemoryShape(X)
  BY DEF Present, Shape, UserTree
<1>2. PICK t, e : t = Table(X.mem, s, v, 1) /\ e = Slot(X.mem, s, v, 1)
  OBVIOUS
<1>3. Walk(s, v) = e /\ walk_to_pt(s, v) = t
  BY <1>2, WalkIs
<1>4. mem[t][Index(v, 1)] = e
  BY <1>1, <1>2 DEF Slot
<1>5. t = Null => e = Absent
  <2>1. Index(v, 1) \in Indices
    BY LevelCases, IndexFacts, IndicesFacts
  <2> QED BY <1>1, <1>4, <2>1, EntryFacts DEF MemoryShape
<1>6. Entry(p, user) # Absent
  BY EntryFacts
<1>7. paging_mapping_matches(s, v, p, user) <=> t # Null /\ e = Entry(p, user)
  BY <1>1, <1>3, <1>4 DEF paging_mapping_matches
<1> QED BY <1>3, <1>5, <1>6, <1>7

LEMMA PInvKernelMapped == PInv => KernelMapped
<1> SUFFICES ASSUME PInv, pc = "running" PROVE KernelMapped
  BY DEF KernelMapped, KernelMapFixed, KernelVisibleInUserSpace
<1>1. Control /\ Started
  BY DEF PInv, Started, Control
<1>2. PICK X, own : Present(X, own)
  BY <1>1, PresentFacts
<1>3. Shape(X) /\ X.root = kernel /\ DOMAIN X.depth = DOMAIN mapped /\ X.mapped = mapped
  BY <1>2 DEF Present
<1>4. ASSUME NEW v \in VirtualPages PROVE Walk(kernel, v) = IF v < limit THEN Entry(v, FALSE) ELSE Absent
  <2>1. Walk(kernel, v) = Slot(X.mem, X.root, v, 1)
    BY <1>2, <1>3, WalkIs
  <2>2. Slot(X.mem, X.root, v, 1) = IF v < limit THEN Entry(v, FALSE) ELSE Absent
    BY <1>1, <1>2, KernelLeaves
  <2> QED BY <2>1, <2>2
<1>5. ASSUME NEW s \in Spaces, NEW v \in 0..(limit - 1) \ DOMAIN mapped[s] PROVE Walk(s, v) = Entry(v, FALSE)
  <2>1. v \in VirtualPages /\ v < limit
    BY <1>1, BelowLimit
  <2>2. s \in DOMAIN X.depth /\ v \notin DOMAIN X.mapped[s]
    BY <1>3 DEF Spaces
  <2>3. Walk(s, v) = Slot(X.mem, s, v, 1)
    BY <1>2, <2>1, <2>2, WalkIs
  <2>4. Slot(X.mem, s, v, 1) = Slot(X.mem, X.root, v, 1)
    BY <1>3, <2>1, <2>2, SpaceLeaf
  <2>5. Slot(X.mem, X.root, v, 1) = Entry(v, FALSE)
    BY <1>1, <1>2, <2>1, KernelLeaves
  <2> QED BY <2>3, <2>4, <2>5
<1> QED BY <1>4, <1>5 DEF KernelMapped, KernelMapFixed, KernelVisibleInUserSpace

LEMMA PInvUserMapExact == PInv => UserMapExact
<1> SUFFICES ASSUME PInv, pc = "running" PROVE UserMapExact
  BY DEF UserMapExact, UserReachesMappedOnly, ChecksTellWhatTheCpuDoes
<1>1. Control /\ Started
  BY DEF PInv, Started, Control
<1>2. PICK X, own : Present(X, own)
  BY <1>1, PresentFacts
<1>3. Shape(X) /\ X.root = kernel /\ DOMAIN X.depth = DOMAIN mapped /\ X.mapped = mapped
  BY <1>2 DEF Present
<1>4. ASSUME NEW s \in Spaces, NEW v \in VirtualPages
      PROVE  IF v \in DOMAIN mapped[s] THEN Walk(s, v) = Entry(mapped[s][v], TRUE) ELSE ~Walk(s, v).user
  <2>1. s \in DOMAIN X.depth
    BY <1>3 DEF Spaces
  <2>2. Walk(s, v) = Slot(X.mem, s, v, 1)
    BY <1>2, <2>1, WalkIs
  <2>3. CASE v \in DOMAIN mapped[s]
    BY <1>3, <2>1, <2>2, <2>3, SpaceLeaf
  <2>4. CASE v \notin DOMAIN mapped[s]
    <3>1. Walk(s, v) = Slot(X.mem, X.root, v, 1)
      BY <1>3, <2>1, <2>2, <2>4, SpaceLeaf
    <3>2. Walk(s, v) = IF v < limit THEN Entry(v, FALSE) ELSE Absent
      BY <1>1, <1>2, <3>1, KernelLeaves
    <3>3. Walk(s, v).user = FALSE
      BY <3>2 DEF Entry, Absent
    <3> QED BY <2>4, <3>3
  <2> QED BY <2>3, <2>4
<1>5. ASSUME NEW s \in Spaces
      PROVE  /\ paging_address_space_valid(s)
             /\ \A v \in VirtualPages : \A p \in Targets \cup {v}, user \in BOOLEAN :
                   paging_mapping_matches(s, v, p, user) <=> Walk(s, v) = Entry(p, user)
  <2>1. s \in DOMAIN X.depth
    BY <1>3 DEF Spaces
  <2>2. paging_address_space_valid(s)
    BY <1>1, <1>2, <2>1, SpaceValid
  <2>3. ASSUME NEW v \in VirtualPages, NEW p \in Targets \cup {v}, NEW user \in BOOLEAN
        PROVE  paging_mapping_matches(s, v, p, user) <=> Walk(s, v) = Entry(p, user)
    <3>1. p \in Nat
      BY PagingAssumption, IndexFacts, LevelCases
    <3> QED BY <1>2, <2>1, <3>1, MatchIs
  <2> QED BY <2>2, <2>3
<1> QED BY <1>4, <1>5 DEF UserMapExact, UserReachesMappedOnly, ChecksTellWhatTheCpuDoes

-----------------------------------------------------------------------------
(* The tables of a space *)

(* A table of level n is owned at that level, by its space or the kernel. *)
LEMMA TableOwner ==
  ASSUME NEW X, Shape(X), NEW r \in DOMAIN X.depth \cup {X.root}, NEW v \in VirtualPages,
         NEW n \in Levels, Table(X.mem, r, v, n) # Null
  PROVE  /\ Table(X.mem, r, v, n) \in DOMAIN X.mem \ {Null}
         /\ X.own[Table(X.mem, r, v, n)] # Nowhere /\ X.own[Table(X.mem, r, v, n)][2] = n
         /\ IF r # X.root /\ OnPath(X, r, v, n)
            THEN X.own[Table(X.mem, r, v, n)][1] = r
            ELSE /\ X.own[Table(X.mem, r, v, n)][1] = X.root
                 /\ Table(X.mem, r, v, n) = Table(X.mem, X.root, v, n)
<1>1. MemoryShape(X) /\ KernelTree(X) /\ X.root # Null
  BY DEF Shape, KernelTree
<1>2. PICK t, k : t = Table(X.mem, r, v, n) /\ k = Table(X.mem, X.root, v, n)
  OBVIOUS
<1>3. t \in DOMAIN X.mem \ {Null}
  BY <1>2, SpaceTables
<1>4. CASE r # X.root /\ OnPath(X, r, v, n)
  <2>1. r \in DOMAIN X.depth /\ UserTree(X, r) /\ X.depth[r] \in Levels
    BY <1>4 DEF Shape, UserTree
  <2>2. t = Table(X.mem, r, Trampoline, n)
    BY <1>2, <1>4, <2>1, UserTables
  <2>3. n \in X.depth[r]..4
    BY <1>4, <2>1 DEF OnPath, Levels
  <2>4. X.own[t] # Nowhere /\ X.own[t][1] = r /\ X.own[t][2] = n
    BY <2>1, <2>2, <2>3, UserPath
  <2> QED BY <1>2, <1>3, <1>4, <2>4
<1>5. CASE ~(r # X.root /\ OnPath(X, r, v, n))
  <2>1. t = k
    <3>1. CASE r = X.root
      BY <1>2, <3>1
    <3>2. CASE r # X.root
      <4>1. UserTree(X, r) /\ ~OnPath(X, r, v, n)
        BY <1>5, <3>2 DEF Shape
      <4> QED BY <1>2, <4>1, UserTables
    <3> QED BY <3>1, <3>2
  <2>2. X.own[k] = Place(X.root, n, v)
    BY <1>1, <1>2, <1>3, <2>1, KernelTables
  <2>3. X.own[k] # Nowhere /\ X.own[k][2] = n /\ X.own[k][1] = X.root
    BY <1>1, <2>2, PlaceFacts
  <2> QED BY <1>2, <1>3, <1>5, <2>1, <2>3
<1> QED BY <1>4, <1>5

(* An entry above the page tables is present if there is a table below it. *)
LEMMA PresentEntry ==
  ASSUME NEW X, Shape(X), NEW r \in DOMAIN X.depth \cup {X.root}, NEW v \in VirtualPages,
         NEW n \in 2..4
  PROVE  Slot(X.mem, r, v, n).present <=> Table(X.mem, r, v, n - 1) # Null
<1>1. MemoryShape(X) /\ KernelTree(X)
  BY DEF Shape
<1>2. n \in Levels /\ n - 1 \in Levels /\ n - 1 \in 1..3 /\ n - 1 + 1 = n /\ Trampoline \in VirtualPages
  BY LevelCases, LayoutFacts
<1>3. Table(X.mem, r, v, n - 1) = Slot(X.mem, r, v, n).addr
  BY TableDown
<1>4. Slot(X.mem, r, v, n).present \/ Slot(X.mem, r, v, n) = Absent
  BY <1>2, SpaceTables
<1>5. ASSUME NEW w \in VirtualPages, Slot(X.mem, X.root, w, n).present
      PROVE  Table(X.mem, X.root, w, n - 1) # Null
  <2>1. KernelNode(X, w, n - 1)
    BY <1>1, <1>2 DEF KernelTree
  <2>2. Slot(X.mem, X.root, w, n - 1 + 1) # Absent
    BY <1>2, <1>5, EntryFacts
  <2> QED BY <2>1, <2>2 DEF KernelNode
<1>6. ASSUME Slot(X.mem, r, v, n).present, Table(X.mem, r, v, n - 1) = Null PROVE FALSE
  <2>1. r # X.root
    BY <1>5, <1>6
  <2>2. r \in DOMAIN X.depth /\ UserTree(X, r) /\ X.depth[r] \in Levels
    BY <2>1 DEF Shape, UserTree
  <2>3. ~OnPath(X, r, v, n - 1)
    <3>1. SUFFICES ASSUME OnPath(X, r, v, n - 1) PROVE FALSE
      OBVIOUS
    <3>2. Table(X.mem, r, v, n - 1) = Table(X.mem, r, Trampoline, n - 1)
      BY <1>2, <2>2, <3>1, UserTables
    <3>3. n - 1 \in X.depth[r]..4
      BY <1>2, <2>2, <3>1 DEF OnPath, Levels
    <3>4. Table(X.mem, r, Trampoline, n - 1) # Null
      BY <2>2, <3>3, UserPath
    <3> QED BY <1>6, <3>2, <3>4
  <2>4. Table(X.mem, X.root, v, n - 1) = Null
    BY <1>2, <1>6, <2>2, <2>3, UserTables
  <2>5. Slot(X.mem, r, v, n) = Slot(X.mem, X.root, v, n)
    <3>1. CASE ~OnPath(X, r, v, n)
      <4>1. Table(X.mem, r, v, n) = Table(X.mem, X.root, v, n)
        BY <1>2, <2>2, <3>1, UserTables
      <4> QED BY <4>1 DEF Slot
    <3>2. CASE OnPath(X, r, v, n)
      <4>1. n >= X.depth[r] /\ Prefix(v, n) = Prefix(Trampoline, n)
        BY <3>2 DEF OnPath
      <4>2. ~(n > X.depth[r] /\ Index(v, n) = Index(Trampoline, n))
        <5>1. SUFFICES ASSUME n > X.depth[r], Index(v, n) = Index(Trampoline, n) PROVE FALSE
          OBVIOUS
        <5>2. Prefix(v, n - 1) = Prefix(Trampoline, n - 1)
          BY <1>2, <4>1, <5>1, SamePrefix
        <5>3. n - 1 >= X.depth[r]
          BY <1>2, <2>2, <5>1 DEF Levels
        <5> QED BY <2>3, <5>2, <5>3 DEF OnPath
      <4>3. UserNode(X, r, n)
        <5>1. n \in X.depth[r]..4
          BY <1>2, <2>2, <4>1 DEF Levels
        <5> QED BY <2>2, <5>1 DEF UserTree
      <4>4. Index(v, n) \in Indices /\ n # 1
        BY <1>2, IndexFacts, IndicesFacts
      <4>5. X.mem[Table(X.mem, r, Trampoline, n)][Index(v, n)]
              = X.mem[Table(X.mem, X.root, Trampoline, n)][Index(v, n)]
        BY <4>2, <4>3, <4>4 DEF UserNode
      <4>6. Table(X.mem, r, v, n) = Table(X.mem, r, Trampoline, n)
        BY <1>2, <2>2, <3>2, UserTables
      <4>7. Table(X.mem, X.root, v, n) = Table(X.mem, X.root, Trampoline, n)
        BY <1>2, <4>1, TableSame
      <4> QED BY <4>5, <4>6, <4>7 DEF Slot
    <3> QED BY <3>1, <3>2
  <2> QED BY <1>5, <1>6, <2>4, <2>5
<1>7. ASSUME ~Slot(X.mem, r, v, n).present PROVE Table(X.mem, r, v, n - 1) = Null
  BY <1>3, <1>4, <1>7, EntryFacts
<1> QED BY <1>6, <1>7

LEMMA BelowFacts ==
  ASSUME NEW S, NEW q
  PROVE  q \in Below(S) <=> \E p \in S, i \in Indices : mem[p][i].present /\ q = mem[p][i].addr
<1> DEFINE E == {x \in S \X Indices : mem[x[1]][x[2]].present}
<1>1. q \in Below(S) <=> \E e \in E : q = mem[e[1]][e[2]].addr
  BY DEF Below
<1>2. ASSUME NEW e \in E PROVE e[1] \in S /\ e[2] \in Indices /\ mem[e[1]][e[2]].present
  OBVIOUS
<1>3. ASSUME NEW p \in S, NEW i \in Indices, mem[p][i].present
      PROVE  \E e \in E : e[1] = p /\ e[2] = i
  <2>1. <<p, i>> \in S \X Indices /\ <<p, i>>[1] = p /\ <<p, i>>[2] = i
    OBVIOUS
  <2>2. <<p, i>> \in E
    BY <1>3, <2>1
  <2> QED BY <2>1, <2>2
<1>4. ASSUME q \in Below(S) PROVE \E p \in S, i \in Indices : mem[p][i].present /\ q = mem[p][i].addr
  <2>1. PICK e \in E : q = mem[e[1]][e[2]].addr
    BY <1>1, <1>4
  <2>2. PICK p, i : p = e[1] /\ i = e[2]
    OBVIOUS
  <2>3. p \in S /\ i \in Indices /\ mem[p][i].present /\ q = mem[p][i].addr
    BY <1>2, <2>1, <2>2
  <2> QED BY <2>3
<1>5. ASSUME NEW p \in S, NEW i \in Indices, mem[p][i].present, q = mem[p][i].addr PROVE q \in Below(S)
  <2>1. PICK e \in E : e[1] = p /\ e[2] = i
    BY <1>3, <1>5
  <2>2. q = mem[e[1]][e[2]].addr
    BY <1>5, <2>1
  <2> QED BY <1>1, <2>2
<1> QED BY <1>4, <1>5

(* The tables of level n of a space. *)
LevelOf(X, r, n) == {Table(X.mem, r, v, n) : v \in VirtualPages} \ {Null}

LEMMA BelowIs ==
  ASSUME NEW X, NEW own, Present(X, own), NEW r \in DOMAIN X.depth \cup {X.root}, NEW n \in 2..4
  PROVE  Below(LevelOf(X, r, n)) = LevelOf(X, r, n - 1)
<1>1. Shape(X) /\ X.mem = mem /\ MemoryShape(X)
  BY DEF Present, Shape
<1>2. n \in Levels /\ n - 1 \in Levels
  BY LevelCases
<1>3. ASSUME NEW q \in Below(LevelOf(X, r, n)) PROVE q \in LevelOf(X, r, n - 1)
  <2>1. PICK p \in LevelOf(X, r, n), i \in Indices : mem[p][i].present /\ q = mem[p][i].addr
    BY <1>3, BelowFacts
  <2>2. PICK v \in VirtualPages : p = Table(X.mem, r, v, n) /\ p # Null
    BY DEF LevelOf
  <2>3. p \in DOMAIN X.mem \ {Null} /\ X.own[p] # Nowhere /\ X.own[p][2] = n
    BY <1>1, <1>2, <2>2, TableOwner
  <2>4. Bounded(X, p)
    BY <1>1, <2>3 DEF Shape
  <2>5. i \in 0..(Fan[n] - 1)
    <3>1. ~(i >= Fan[n])
      <4>1. SUFFICES ASSUME i >= Fan[n] PROVE FALSE
        OBVIOUS
      <4>2. X.mem[p][i] = Absent
        BY <2>3, <2>4, <4>1 DEF Bounded
      <4> QED BY <1>1, <2>1, <4>2, EntryFacts
    <3>2. i \in Nat /\ Fan[n] \in Nat
      BY <1>2, IndicesFacts, FanFacts
    <3> QED BY <3>1, <3>2
  <2>6. PICK w \in VirtualPages : Prefix(w, n) = Prefix(v, n) /\ Index(w, n) = i
    BY <1>2, <2>5, PageAtIndex
  <2>7. Table(X.mem, r, w, n) = p
    BY <1>2, <2>2, <2>6, TableSame
  <2>8. Slot(X.mem, r, w, n) = mem[p][i]
    BY <1>1, <2>6, <2>7 DEF Slot
  <2>9. q = Table(X.mem, r, w, n - 1)
    BY <2>1, <2>8, TableDown
  <2>10. q # Null
    BY <1>1, <2>1, <2>8, <2>9, PresentEntry
  <2> QED BY <2>9, <2>10 DEF LevelOf
<1>4. ASSUME NEW q \in LevelOf(X, r, n - 1) PROVE q \in Below(LevelOf(X, r, n))
  <2>1. PICK v \in VirtualPages : q = Table(X.mem, r, v, n - 1) /\ q # Null
    BY DEF LevelOf
  <2>2. PICK p, i : p = Table(X.mem, r, v, n) /\ i = Index(v, n)
    OBVIOUS
  <2>3. mem[p][i] = Slot(X.mem, r, v, n)
    BY <1>1, <2>2 DEF Slot
  <2>4. mem[p][i].present /\ q = mem[p][i].addr
    BY <1>1, <2>1, <2>3, TableDown, PresentEntry
  <2>5. i \in Indices
    BY <1>2, <2>2, IndexFacts, IndicesFacts
  <2>6. p # Null
    <3>1. SUFFICES ASSUME p = Null PROVE FALSE
      OBVIOUS
    <3>2. mem[p][i] = Absent
      BY <1>1, <2>5, <3>1, EntryFacts DEF MemoryShape
    <3> QED BY <2>4, <3>2, EntryFacts
  <2>7. p \in LevelOf(X, r, n)
    BY <2>2, <2>6 DEF LevelOf
  <2> QED BY <2>4, <2>5, <2>7, BelowFacts
<1> QED BY <1>3, <1>4

LEMMA TablesAre ==
  ASSUME NEW X, NEW own, Present(X, own), NEW r \in DOMAIN X.depth \cup {X.root}
  PROVE  /\ \A v \in VirtualPages, n \in Levels : Table(X.mem, r, v, n) # Null =>
              Table(X.mem, r, v, n) \in TablesOf(r)
         /\ \A p \in TablesOf(r) :
              p # Null /\ \E v \in VirtualPages, n \in Levels : p = Table(X.mem, r, v, n)
<1>1. LevelOf(X, r, 4) = {r}
  <2>1. r # Null
    BY DEF Present, Shape, UserTree, KernelTree
  <2>2. \A v : Table(X.mem, r, v, 4) = r
    BY TableDown
  <2>3. 0 \in VirtualPages
    BY LayoutFacts
  <2> QED BY <2>1, <2>2, <2>3 DEF LevelOf
<1>2. 4 \in 2..4 /\ 3 \in 2..4 /\ 2 \in 2..4 /\ 4 - 1 = 3 /\ 3 - 1 = 2 /\ 2 - 1 = 1
  OBVIOUS
<1>3. Below(LevelOf(X, r, 4)) = LevelOf(X, r, 3)
  BY <1>2, BelowIs
<1>4. Below(LevelOf(X, r, 3)) = LevelOf(X, r, 2)
  BY <1>2, BelowIs
<1>5. Below(LevelOf(X, r, 2)) = LevelOf(X, r, 1)
  BY <1>2, BelowIs
<1>6. TablesOf(r) = LevelOf(X, r, 4) \cup LevelOf(X, r, 3) \cup LevelOf(X, r, 2) \cup LevelOf(X, r, 1)
  BY <1>1, <1>3, <1>4, <1>5, Zenon DEF TablesOf
<1>7. ASSUME NEW v \in VirtualPages, NEW n \in Levels, Table(X.mem, r, v, n) # Null
      PROVE  Table(X.mem, r, v, n) \in TablesOf(r)
  <2>1. Table(X.mem, r, v, n) \in LevelOf(X, r, n)
    BY <1>7 DEF LevelOf
  <2>2. n = 1 \/ n = 2 \/ n = 3 \/ n = 4
    BY LevelCases
  <2> QED BY <1>6, <2>1, <2>2
<1>8. ASSUME NEW p \in TablesOf(r)
      PROVE  p # Null /\ \E v \in VirtualPages, n \in Levels : p = Table(X.mem, r, v, n)
  <2>1. ASSUME NEW n \in Levels, p \in LevelOf(X, r, n)
        PROVE  p # Null /\ \E v \in VirtualPages, k \in Levels : p = Table(X.mem, r, v, k)
    BY <2>1 DEF LevelOf
  <2>2. p \in LevelOf(X, r, 4) \/ p \in LevelOf(X, r, 3) \/ p \in LevelOf(X, r, 2) \/ p \in LevelOf(X, r, 1)
    BY <1>6
  <2> QED BY <2>1, <2>2, LevelCases
<1> QED BY <1>7, <1>8

(* The tables of the kernel and the private tables of a space are the      *)
(* pages that they own.                                                    *)
LEMMA KernelPages ==
  ASSUME NEW X, NEW own, Present(X, own)
  PROVE  TablesOf(kernel) = PagesOf(X, X.root)
<1>1. Shape(X) /\ X.root = kernel /\ X.root # Null /\ MemoryShape(X)
  BY DEF Present, Shape, KernelTree
<1>2. ASSUME NEW p \in TablesOf(kernel) PROVE p \in PagesOf(X, X.root)
  <2>1. PICK v \in VirtualPages, n \in Levels : p = Table(X.mem, X.root, v, n) /\ p # Null
    BY <1>1, TablesAre
  <2>2. p \in DOMAIN X.mem /\ X.own[p][1] = X.root
    BY <1>1, <2>1, TableOwner
  <2> QED BY <2>2 DEF PagesOf
<1>3. ASSUME NEW p \in PagesOf(X, X.root) PROVE p \in TablesOf(kernel)
  <2>1. p \in DOMAIN X.mem /\ X.own[p][1] = X.root
    BY DEF PagesOf
  <2>2. X.own[p] # Nowhere
    BY <1>1, <2>1, PlaceFacts
  <2>3. p # Null
    BY <1>1, <2>2 DEF MemoryShape
  <2>4. Held(X, p)
    BY <1>1, <2>1, <2>2, <2>3 DEF Shape
  <2>5. X.root \notin DOMAIN X.depth
    BY <1>1 DEF Shape, UserTree
  <2>6. PICK n \in Levels, v \in VirtualPages : p = Table(X.mem, X.root, v, n)
    BY <2>1, <2>4, <2>5 DEF Held
  <2> QED BY <1>1, <2>3, <2>6, TablesAre
<1> QED BY <1>2, <1>3

LEMMA PrivatePages ==
  ASSUME NEW X, NEW own, Present(X, own), NEW s \in DOMAIN X.depth
  PROVE  PrivateTables(s) = PagesOf(X, s)
<1>1. /\ Shape(X) /\ X.root = kernel /\ s # X.root /\ s # Null /\ X.depth[s] \in Levels
      /\ TablesOf(kernel) = PagesOf(X, X.root)
  BY KernelPages DEF Present, Shape, UserTree
<1>2. ASSUME NEW p \in PrivateTables(s) PROVE p \in PagesOf(X, s)
  <2>1. p \in TablesOf(s) /\ p \notin PagesOf(X, X.root)
    BY <1>1 DEF PrivateTables
  <2>2. PICK v \in VirtualPages, n \in Levels : p = Table(X.mem, s, v, n) /\ p # Null
    BY <2>1, TablesAre
  <2>3. p \in DOMAIN X.mem /\ (X.own[p][1] = s \/ X.own[p][1] = X.root)
    BY <1>1, <2>2, TableOwner
  <2> QED BY <2>1, <2>3 DEF PagesOf
<1>3. ASSUME NEW p \in PagesOf(X, s) PROVE p \in PrivateTables(s)
  <2>1. PICK n \in X.depth[s]..4 : p = Table(X.mem, s, Trampoline, n) /\ p # Null
    BY <1>1, <1>3, SpacePages
  <2>2. n \in Levels /\ Trampoline \in VirtualPages
    BY <1>1, LayoutFacts DEF Levels
  <2>3. p \in TablesOf(s)
    BY <2>1, <2>2, TablesAre
  <2>4. p \notin PagesOf(X, X.root)
    BY <1>1, <1>3 DEF PagesOf
  <2> QED BY <1>1, <2>3, <2>4 DEF PrivateTables
<1> QED BY <1>2, <1>3

LEMMA PInvTablesOwned == PInv => TablesOwned
<1> SUFFICES ASSUME PInv, pc = "running" PROVE TablesOwned
  BY DEF TablesOwned
<1>1. Control /\ Started
  BY DEF PInv, Started, Control
<1>2. PICK X, own : Present(X, own)
  BY <1>1, PresentFacts
<1>3. /\ Shape(X) /\ X.root = kernel /\ X.mem = mem /\ X.list = list /\ DOMAIN X.depth = Spaces
      /\ MemoryShape(X) /\ ListShape(X) /\ X.root # Null
  BY <1>2 DEF Present, Spaces, Shape, KernelTree
<1>4. PICK tables : tables = UNION {TablesOf(s) : s \in Spaces \cup {kernel}}
  OBVIOUS
<1>5. ASSUME NEW p \in tables PROVE p \in Pages \ {Null} /\ X.own[p] # Nowhere
  <2>1. PICK s \in Spaces \cup {kernel} : p \in TablesOf(s)
    BY <1>4
  <2>2. PICK v \in VirtualPages, n \in Levels : p = Table(X.mem, s, v, n) /\ p # Null
    BY <1>2, <1>3, <2>1, TablesAre
  <2>3. p \in DOMAIN X.mem \ {Null} /\ X.own[p] # Nowhere
    BY <1>3, <2>2, TableOwner
  <2> QED BY <1>3, <2>3 DEF Pages
<1>6. ASSUME NEW p \in Pages \ {Null}, X.own[p] # Nowhere PROVE p \in tables
  <2>1. p \in DOMAIN X.mem \ {Null}
    BY <1>3 DEF Pages
  <2>2. Held(X, p)
    BY <1>3, <1>6, <2>1 DEF Shape
  <2>3. X.own[p][1] \in Spaces \cup {kernel}
    BY <1>3, <2>2 DEF Held
  <2>4. PICK r : r = X.own[p][1]
    OBVIOUS
  <2>5. p \in PagesOf(X, r)
    BY <2>1, <2>4 DEF PagesOf
  <2>6. CASE r = kernel
    BY <1>2, <1>3, <1>4, <2>5, <2>6, KernelPages
  <2>7. CASE r \in Spaces
    <3>1. p \in TablesOf(r)
      BY <1>2, <1>3, <2>5, <2>7, PrivatePages DEF PrivateTables
    <3> QED BY <1>4, <2>7, <3>1
  <2> QED BY <2>3, <2>4, <2>6, <2>7
<1>7. ToSet(list) \subseteq Pages \ {Null} /\ \A p \in Pages \ {Null} : p \in ToSet(list) <=> X.own[p] = Nowhere
  <2>1. list \in Seq(Pages \ {Null})
    BY <1>3 DEF ListShape, Pages
  <2>2. ToSet(list) \subseteq Pages \ {Null}
    BY <2>1, ListFacts
  <2> QED BY <1>3, <2>2 DEF ListShape, Pages
<1>8. ToSet(list) \cap tables = {} /\ ToSet(list) \cup tables = Pages \ {Null}
  BY <1>5, <1>6, <1>7
<1>9. ASSUME NEW s \in Spaces, NEW t \in Spaces, s # t PROVE PrivateTables(s) \cap PrivateTables(t) = {}
  <2>1. PrivateTables(s) = PagesOf(X, s) /\ PrivateTables(t) = PagesOf(X, t)
    BY <1>2, <1>3, PrivatePages
  <2> QED BY <1>9, <2>1 DEF PagesOf
<1>10. IsInjective(list)
  BY <1>3 DEF ListShape
<1> QED BY <1>4, <1>8, <1>9, <1>10 DEF TablesOwned

LEMMA PInvSpaceCost == PInv => SpaceCost
<1> SUFFICES ASSUME PInv, pc = "running", NEW s \in Spaces
             PROVE  Cardinality(PrivateTables(s)) = IF DOMAIN mapped[s] = {} THEN 1 ELSE 4
  BY DEF SpaceCost
<1>1. Control /\ Started
  BY DEF PInv, Started, Control
<1>2. PICK X, own : Present(X, own)
  BY <1>1, PresentFacts
<1>3. Shape(X) /\ s \in DOMAIN X.depth /\ X.depth[s] = IF DOMAIN mapped[s] = {} THEN 4 ELSE 1
  BY <1>2 DEF Present, Spaces
<1>4. PrivateTables(s) = {Table(X.mem, s, Trampoline, n) : n \in X.depth[s]..4}
  BY <1>2, <1>3, PrivatePages, SpacePages
<1>5. Table(X.mem, s, Trampoline, 4) = s
  BY TableDown
<1>6. IsFiniteSet({s}) /\ Cardinality({s}) = 1
  BY FS_Singleton
<1>7. CASE DOMAIN mapped[s] = {}
  <2>1. X.depth[s]..4 = {4}
    BY <1>3, <1>7
  <2>2. PrivateTables(s) = {s}
    BY <1>4, <1>5, <2>1
  <2> QED BY <1>6, <1>7, <2>2
<1>8. CASE DOMAIN mapped[s] # {}
  <2>1. PICK t3, t2, t1 : /\ t3 = Table(X.mem, s, Trampoline, 3) /\ t2 = Table(X.mem, s, Trampoline, 2)
                          /\ t1 = Table(X.mem, s, Trampoline, 1)
    OBVIOUS
  <2>2. /\ 1 \in X.depth[s]..4 /\ 2 \in X.depth[s]..4 /\ 3 \in X.depth[s]..4 /\ 4 \in X.depth[s]..4
        /\ \A n \in X.depth[s]..4 : n = 1 \/ n = 2 \/ n = 3 \/ n = 4
    BY <1>3, <1>8
  <2>3. X.own[s][2] = 4 /\ X.own[t3][2] = 3 /\ X.own[t2][2] = 2 /\ X.own[t1][2] = 1
    <3>1. X.own[s][2] = 4
      BY <1>3, <1>5, <2>2, UserPath
    <3>2. X.own[t3][2] = 3
      BY <1>3, <2>1, <2>2, UserPath
    <3>3. X.own[t2][2] = 2
      BY <1>3, <2>1, <2>2, UserPath
    <3>4. X.own[t1][2] = 1
      BY <1>3, <2>1, <2>2, UserPath
    <3> QED BY <3>1, <3>2, <3>3, <3>4
  <2>4. s # t3 /\ s # t2 /\ s # t1 /\ t3 # t2 /\ t3 # t1 /\ t2 # t1
    BY <2>3
  <2>5. PICK A, B, C : A = {s} \cup {t3} /\ B = A \cup {t2} /\ C = B \cup {t1}
    OBVIOUS
  <2>6. PrivateTables(s) = C
    BY <1>4, <1>5, <2>1, <2>2, <2>5
  <2>7. IsFiniteSet(A) /\ Cardinality(A) = 2
    <3>1. t3 \notin {s}
      BY <2>4
    <3>2. IsFiniteSet(A) /\ Cardinality(A) = Cardinality({s}) + 1
      BY <1>6, <2>5, <3>1, FS_AddElement
    <3> QED BY <1>6, <3>2
  <2>8. IsFiniteSet(B) /\ Cardinality(B) = 3
    <3>1. t2 \notin A
      BY <2>4, <2>5
    <3>2. IsFiniteSet(B) /\ Cardinality(B) = Cardinality(A) + 1
      BY <2>5, <2>7, <3>1, FS_AddElement
    <3> QED BY <2>7, <3>2
  <2>9. Cardinality(C) = 4
    <3>1. t1 \notin B
      BY <2>4, <2>5
    <3>2. IsFiniteSet(C) /\ Cardinality(C) = Cardinality(B) + 1
      BY <2>5, <2>8, <3>1, FS_AddElement
    <3> QED BY <2>8, <3>2
  <2> QED BY <1>8, <2>6, <2>9
<1> QED BY <1>7, <1>8

-----------------------------------------------------------------------------
(* The theorems *)

(* paging_map_user_page and paging_release_user_address_space never touch  *)
(* a table of the kernel: its identity map stays what paging_initialize    *)
(* made it, and every user space finds it wherever no user page hides it.  *)
THEOREM KernelIsMapped == Spec => []KernelMapped
BY Always, PInvKernelMapped, PTL

(* User code reaches the pages that were mapped for its space and nothing  *)
(* else, and paging_address_space_valid and paging_mapping_matches tell    *)
(* what the CPU will do.                                                   *)
THEOREM UserMapIsExact == Spec => []UserMapExact
BY Always, PInvUserMapExact, PTL

(* Every page of the allocator is free or a table of one owner, and a      *)
(* space costs its PML4, and three more tables once a page is mapped:      *)
(* paging_release_user_address_space frees all copies and no shared table. *)
THEOREM TablesAreAccounted == Spec => []TablesAccounted
<1>1. PInv => TablesAccounted
  BY PInvTablesOwned, PInvSpaceCost DEF TablesAccounted, PInv
<1> QED BY <1>1, Always, PTL
=============================================================================
