--------------------------- MODULE FileTableProofs ---------------------------
(***************************************************************************)
(* The reference counts of descriptors, files and nodes, for every size of *)
(* the descriptor table, every heap and every length of the text.          *)
(*                                                                         *)
(* Exact counts alone are not inductive.  A close may free a node only if  *)
(* the node is one a file can have (NodeInv); the descriptors that seeding *)
(* installs must have been unused (SeedInv); and that no console node      *)
(* leaks needs the re-seeding of exec to succeed.  It does because the     *)
(* heap held both consoles at boot and, once close_all is done, holds only *)
(* the idle task's (RoomInv): seeding again takes what was there before.   *)
(***************************************************************************)
EXTENDS UserPrograms, FiniteSetTheorems, TLAPS

Seeding == {"seed_nodes", "seed_open", "seed_install"}
Serving == {"running", "install", "exec_close", "close_all", "exited"}

(* The files the handler's variables hold, each once. *)
Pending == Range(pending)
FilesOn(n) == {f \in LiveFiles : fileNode[f] = n}
Holders(f) == Cardinality(Entries(f)) + (IF f \in Pending THEN 1 ELSE 0)

PendingInv ==
    /\ Len(pending) <= 3
    /\ \A i, j \in DOMAIN pending : pending[i] = pending[j] => i = j
    /\ pc \in {"seed_nodes", "running", "close_all", "exited", "halted"} => pending = <<>>
    /\ pc = "seed_open" => Len(pending) < 3
    /\ pc = "seed_install" => Len(pending) = 3
    /\ pc \in {"install", "exec_close"} => Len(pending) = 1

FileInv == \A f \in Files : fileRefs[f] = Holders(f)

(* What a node offers bounds what its files may do. *)
NodeInv ==
    /\ nodeOps[Banner] = {Read} /\ nodeOps[Console] = {Write} /\ nodeOps[Executable] = {}
    /\ \A f \in LiveFiles : fileAccess[f] \subseteq nodeOps[fileNode[f]]

(* Which tables are empty, and what the handler at work is. *)
TableInv ==
    /\ task = 0 => /\ pc \in Seeding \cup {"seed_unwind", "halted"}
                   /\ \A d \in Fds : table[1][d] = NoFile
    /\ pc \in Seeding \cup {"seed_unwind"} => \A d \in Fds : table[task][d] = NoFile
    /\ pc = "close_all" => \A d \in Fds : d < index => table[task][d] = NoFile
    /\ pc # "close_all" => index = 0
    /\ pc = "exited" => \A d \in Fds : table[task][d] = NoFile
    /\ execing => task = 1 /\ pc \in Seeding \cup {"close_all"}

(* The console under construction, and the files opened on it so far. *)
SeedInv ==
    pc \in {"seed_open", "seed_install"} =>
        /\ {seedIn, seedOut} \subseteq heapNodes /\ seedIn # seedOut /\ seedIn \notin consumed
        /\ \A i \in DOMAIN pending : fileNode[pending[i]] = IF i = 1 THEN seedIn ELSE seedOut

LeakInv ==
    /\ pc \notin {"seed_open", "seed_unwind", "halted"} => \A n \in heapNodes : nodeRefs[n] > 0
    /\ pc = "seed_open" => \A n \in heapNodes \ {seedIn, seedOut} : nodeRefs[n] > 0

(* The idle task's console: three descriptors on two nodes. *)
IdleInv ==
    task = 1 => /\ \A d \in Fds : d > 2 => table[0][d] = NoFile
                /\ \A d \in 0..2 : table[0][d] # NoFile
                /\ fileNode[table[0][1]] = fileNode[table[0][2]]

(* What a seed in progress uses: 7 objects make a console.  A heap that    *)
(* served the boot has room for two.                                       *)
SeedUse == 7 * task + (IF pc = "seed_nodes" THEN 0 ELSE 4) + Len(pending)
RoomInv ==
    /\ pc \in Seeding => HeapUsed <= SeedUse
    /\ pc \in Seeding /\ ~execing => SeedUse <= heapSize /\ HeapUsed = SeedUse
    /\ execing \/ pc \in Serving => heapSize >= 14 /\ task = 1

(* Types, apart for the objects and for the handler. *)
ObjectTypes ==
    /\ fileRefs \in [Files -> Nat]
    /\ fileNode \in [Files -> Nodes \cup {NoNode}]
    /\ fileAccess \in [Files -> Accesses]
    /\ offset \in [Files -> 0..TextLength]
    /\ nodeRefs \in [Nodes -> Nat]
    /\ nodeOps \in [Nodes -> Accesses]
    /\ heapNodes \subseteq HeapNodes
    /\ consumed \subseteq heapNodes

HandlerTypes ==
    /\ heapSize \in HeapSizes
    /\ table \in [Tasks -> [Fds -> Files \cup {NoFile}]]
    /\ pc \in {"seed_nodes", "seed_open", "seed_unwind", "seed_install", "running",
               "install", "exec_close", "close_all", "exited", "halted"}
    /\ task \in Tasks
    /\ index \in 0..FdCapacity
    /\ pending \in Seq(Files)
    /\ {seedIn, seedOut} \subseteq HeapNodes \cup {NoNode}
    /\ execing \in BOOLEAN

Objects == ObjectTypes /\ NodeRefsExact /\ NoDanglingNode /\ NodeInv
Stages == PendingInv /\ TableInv /\ SeedInv /\ LeakInv /\ IdleInv /\ RoomInv
Core == Objects /\ HandlerTypes /\ FileInv
FInv == Core /\ Stages

-----------------------------------------------------------------------------
(* Sets and counts *)

(* A set of numbers has a least one. *)
LEMMA LeastElement ==
  ASSUME NEW T, T \subseteq Nat, T # {}
  PROVE  \E x \in T : \A y \in T : x <= y
<1>1. \E x \in T : \A y \in T : ~(<<y, x>> \in OpToRel(<, Nat))
  BY NatLessThanWellFounded, WFMin
<1>2. PICK x \in T : \A y \in T : ~(<<y, x>> \in OpToRel(<, Nat))
  BY <1>1
<1>3. \A y \in T : ~(y < x)
  BY <1>2 DEF OpToRel
<1> QED BY <1>3

LEMMA FileSets ==
  /\ IsFiniteSet(Files) /\ Cardinality(Files) = MaxHeap
  /\ Files \subseteq Nat /\ NoFile \notin Files
  /\ HeapNodes \subseteq Nat /\ IsFiniteSet(HeapNodes) /\ Cardinality(HeapNodes) = MaxHeap
  /\ HeapNodes \cap StaticNodes = {} /\ NoNode \notin Nodes
  /\ MaxHeap \in Nat
<1>1. IsFiniteSet(1..MaxHeap) /\ Cardinality(1..MaxHeap) = MaxHeap
  BY FS_Interval, FileTableAssumption
<1> QED BY <1>1, FileTableAssumption
    DEF Files, NoFile, HeapNodes, StaticNodes, Nodes, NoNode, Banner, Console, Executable

(* Adding and removing an element. *)
LEMMA CountOneMore ==
  ASSUME NEW S, IsFiniteSet(S), NEW x
  PROVE  /\ Cardinality(S) \in Nat
         /\ x \notin S => Cardinality(S \cup {x}) = Cardinality(S) + 1
         /\ x \in S => Cardinality(S \ {x}) = Cardinality(S) - 1 /\ Cardinality(S) > 0
         /\ IsFiniteSet(S \cup {x}) /\ IsFiniteSet(S \ {x})
<1>1. Cardinality(S) \in Nat
  BY FS_CardinalityType
<1>2. Cardinality(S) = 0 <=> S = {}
  BY FS_EmptySet
<1> QED BY <1>1, <1>2, FS_AddElement, FS_RemoveElement

(* Sets of at most three elements. *)
LEMMA SmallSets ==
  ASSUME NEW a, NEW b, NEW c
  PROVE  /\ IsFiniteSet({a, b}) /\ Cardinality({a, b}) \in Nat /\ Cardinality({a, b}) <= 2
         /\ IsFiniteSet({a, b, c}) /\ Cardinality({a, b, c}) \in Nat
         /\ Cardinality({a, b, c}) <= 3
<1>1. IsFiniteSet({a}) /\ Cardinality({a}) = 1
  BY FS_Singleton
<1>2. {a, b} = {a} \cup {b} /\ {a, b, c} = {a, b} \cup {c}
  OBVIOUS
<1>3. IsFiniteSet({a, b}) /\ Cardinality({a, b}) \in Nat /\ Cardinality({a, b}) <= 2
  <2>1. CASE b \in {a}
    <3>1. {a, b} = {a}
      BY <2>1
    <3> QED BY <1>1, <3>1
  <2>2. CASE b \notin {a}
    BY <1>1, <1>2, <2>2, CountOneMore
  <2> QED BY <2>1, <2>2
<1>4. IsFiniteSet({a, b, c}) /\ Cardinality({a, b, c}) \in Nat /\ Cardinality({a, b, c}) <= 3
  <2>0. PICK S : S = {a, b}
    OBVIOUS
  <2>1. IsFiniteSet(S) /\ Cardinality(S) \in Nat /\ Cardinality(S) <= 2 /\ {a, b, c} = S \cup {c}
    BY <1>2, <1>3, <2>0
  <2>2. CASE c \in S
    <3>1. {a, b, c} = S
      BY <2>1, <2>2
    <3> QED BY <2>1, <3>1
  <2>3. CASE c \notin S
    BY <2>1, <2>3, CountOneMore
  <2> QED BY <2>2, <2>3
<1> QED BY <1>3, <1>4

(* Room in the heap is a number that is not in use. *)
LEMMA NewFileFacts ==
  ASSUME ObjectTypes, heapSize \in HeapSizes, HeapFree >= 1
  PROVE  NewFile \in Files \ LiveFiles
<1>1. IsFiniteSet(LiveFiles) /\ IsFiniteSet(heapNodes) /\ LiveFiles \subseteq Files
  BY FileSets, FS_Subset DEF ObjectTypes, LiveFiles
<1>2. Cardinality(LiveFiles) \in Nat /\ Cardinality(heapNodes) \in Nat
  BY <1>1, FS_CardinalityType
<1>3. heapSize \in Nat /\ heapSize <= MaxHeap
  BY FileTableAssumption
<1>4. Cardinality(LiveFiles) < MaxHeap
  BY <1>2, <1>3, FileSets DEF HeapFree, HeapUsed
<1>5. LiveFiles # Files
  BY <1>2, <1>4, FileSets
<1>6. Files \ LiveFiles # {} /\ Files \ LiveFiles \subseteq Nat
  BY <1>1, <1>5, FileSets
<1>7. \E f \in Files \ LiveFiles : \A g \in Files \ LiveFiles : f <= g
  BY <1>6, LeastElement
<1> QED BY <1>7 DEF NewFile

LEMMA NewNodeFacts ==
  ASSUME ObjectTypes, heapSize \in HeapSizes, HeapFree >= 4, NEW X, X = {} \/ \E x : X = {x}
  PROVE  NewNodeBut(X) \in HeapNodes \ (heapNodes \cup X)
<1>1. IsFiniteSet(LiveFiles) /\ IsFiniteSet(heapNodes) /\ heapNodes \subseteq HeapNodes
  BY FileSets, FS_Subset DEF ObjectTypes, LiveFiles
<1>2. Cardinality(LiveFiles) \in Nat /\ Cardinality(heapNodes) \in Nat
  BY <1>1, FS_CardinalityType
<1>3. heapSize \in Nat /\ heapSize <= MaxHeap
  BY FileTableAssumption
<1>4. Cardinality(heapNodes) + 1 < MaxHeap
  BY <1>2, <1>3, FileSets DEF HeapFree, HeapUsed
<1>5. Cardinality(heapNodes \cup X) < MaxHeap
  <2>1. CASE X = {}
    <3>1. Cardinality(heapNodes \cup X) = Cardinality(heapNodes)
      <4>1. heapNodes \cup X = heapNodes
        BY <2>1
      <4> QED BY <4>1
    <3>2. MaxHeap \in Nat
      BY FileSets
    <3> QED BY <1>2, <1>4, <3>1, <3>2
  <2>2. CASE \E x : X = {x}
    <3>1. PICK x : X = {x}
      BY <2>2
    <3>2. Cardinality(heapNodes \cup {x}) = Cardinality(heapNodes) \/
          Cardinality(heapNodes \cup {x}) = Cardinality(heapNodes) + 1
      BY <1>1, FS_AddElement
    <3>3. MaxHeap \in Nat
      BY FileSets
    <3>4. heapNodes \cup X = heapNodes \cup {x}
      BY <3>1
    <3> QED BY <1>2, <1>4, <3>2, <3>3, <3>4
  <2> QED BY <2>1, <2>2
<1>6. ~(HeapNodes \subseteq heapNodes \cup X)
  <2> SUFFICES ASSUME HeapNodes \subseteq heapNodes \cup X PROVE FALSE
    OBVIOUS
  <2>1. IsFiniteSet(heapNodes \cup X)
    <3>1. CASE X = {}
      BY <1>1, <3>1, FS_Union, FS_EmptySet
    <3>2. CASE \E x : X = {x}
      BY <1>1, <3>2, FS_AddElement
    <3> QED BY <3>1, <3>2
  <2>2. Cardinality(HeapNodes) <= Cardinality(heapNodes \cup X)
    BY <2>1, FS_Subset
  <2>3. Cardinality(heapNodes \cup X) \in Nat
    BY <2>1, FS_CardinalityType
  <2> QED BY <1>5, <2>2, <2>3, FileSets
<1> DEFINE unused == HeapNodes \ (heapNodes \cup X)
<1>7. unused # {} /\ unused \subseteq Nat
  BY <1>6, FileSets
<1> HIDE DEF unused
<1>8. \E n \in unused : \A m \in unused : n <= m
  BY <1>7, LeastElement
<1> QED BY <1>8 DEF NewNodeBut, unused

(* The live files and the files on a node are finitely many. *)
LEMMA FiniteObjects ==
  ASSUME ObjectTypes
  PROVE  /\ IsFiniteSet(LiveFiles) /\ IsFiniteSet(heapNodes)
         /\ \A n : IsFiniteSet(FilesOn(n))
         /\ Cardinality(LiveFiles) \in Nat /\ Cardinality(heapNodes) \in Nat
<1>1. IsFiniteSet(LiveFiles) /\ IsFiniteSet(heapNodes)
  BY FileSets, FS_Subset DEF ObjectTypes, LiveFiles
<1>2. \A n : FilesOn(n) \subseteq LiveFiles
  BY DEF FilesOn
<1> QED BY <1>1, <1>2, FS_Subset, FS_CardinalityType

-----------------------------------------------------------------------------
(* vfs_make_file and vfs_file_close *)

(* What a new file changes. *)
Made(f, node) ==
    /\ LiveFiles' = LiveFiles \cup {f}
    /\ Cardinality(LiveFiles') = Cardinality(LiveFiles) + 1
    /\ UNCHANGED <<heapNodes, consumed>>
    /\ fileNode'[f] = node /\ \A g \in Files \ {f} : fileNode'[g] = fileNode[g]
    /\ fileRefs'[f] = 1 /\ \A g \in Files \ {f} : fileRefs'[g] = fileRefs[g]
    /\ nodeRefs'[node] > 0 /\ \A n \in Nodes \ {node} : nodeRefs'[n] = nodeRefs[n]

LEMMA MakeFileObjects ==
  ASSUME Objects, NEW f \in Files \ LiveFiles, NEW node \in StaticNodes \cup heapNodes,
         NEW access, access \subseteq nodeOps[node], MakeFile(f, node, access)
  PROVE  Objects' /\ Made(f, node)
<1>1. /\ ObjectTypes /\ node \in Nodes /\ nodeOps[node] \subseteq {Read, Write}
      /\ access \in Accesses /\ 0 \in 0..TextLength
  BY FileTableAssumption DEF Objects, ObjectTypes, Nodes, Accesses
<1>2. /\ fileRefs' = [fileRefs EXCEPT ![f] = 1]
      /\ fileNode' = [fileNode EXCEPT ![f] = node]
      /\ fileAccess' = [fileAccess EXCEPT ![f] = access]
      /\ offset' = [offset EXCEPT ![f] = 0]
      /\ nodeRefs' = [nodeRefs EXCEPT ![node] = @ + 1]
      /\ UNCHANGED <<nodeOps, heapNodes, consumed>>
  BY DEF MakeFile
<1>3. ObjectTypes'
  BY <1>1, <1>2 DEF ObjectTypes
<1>4. /\ fileNode'[f] = node /\ \A g \in Files \ {f} : fileNode'[g] = fileNode[g]
      /\ fileRefs'[f] = 1 /\ \A g \in Files \ {f} : fileRefs'[g] = fileRefs[g]
      /\ fileAccess'[f] = access /\ \A g \in Files \ {f} : fileAccess'[g] = fileAccess[g]
  BY <1>1, <1>2 DEF ObjectTypes
<1>5. LiveFiles' = LiveFiles \cup {f}
  BY <1>4 DEF LiveFiles
<1>6. /\ FilesOn(node)' = FilesOn(node) \cup {f} /\ f \notin FilesOn(node)
      /\ \A n \in Nodes \ {node} : FilesOn(n)' = FilesOn(n)
  BY <1>4, <1>5 DEF FilesOn, LiveFiles
<1>7. /\ nodeRefs'[node] = nodeRefs[node] + 1 /\ nodeRefs[node] \in Nat
      /\ \A n \in Nodes \ {node} : nodeRefs'[n] = nodeRefs[n]
  BY <1>1, <1>2 DEF ObjectTypes
<1>8. NodeRefsExact'
  <2>1. Cardinality(FilesOn(node)') = Cardinality(FilesOn(node)) + 1
    BY <1>1, <1>6, FiniteObjects, CountOneMore
  <2>2. \A n \in Nodes : nodeRefs[n] = Cardinality(FilesOn(n))
    BY DEF Objects, NodeRefsExact, FilesOn
  <2>3. \A n \in Nodes : nodeRefs'[n] = Cardinality(FilesOn(n)')
    BY <1>1, <1>6, <1>7, <2>1, <2>2
  <2> QED BY <2>3 DEF NodeRefsExact, FilesOn
<1>9. NoDanglingNode'
  BY <1>2, <1>4, <1>5 DEF Objects, NoDanglingNode, LiveFiles
<1>10. NodeInv'
  BY <1>2, <1>4, <1>5 DEF Objects, NodeInv, LiveFiles
<1>11. Cardinality(LiveFiles') = Cardinality(LiveFiles) + 1
  BY <1>1, <1>5, FiniteObjects, CountOneMore
<1> QED BY <1>1, <1>2, <1>3, <1>4, <1>5, <1>7, <1>8, <1>9, <1>10, <1>11 DEF Objects, Made

(* What a close changes: a file that others hold stays, and a node that    *)
(* other files have stays.                                                 *)
Closed(f) ==
    /\ LiveFiles' \subseteq LiveFiles
    /\ fileRefs'[f] = fileRefs[f] - 1 /\ \A g \in Files \ {f} : fileRefs'[g] = fileRefs[g]
    /\ \A g \in LiveFiles' : fileNode'[g] = fileNode[g]
    /\ heapNodes' \subseteq heapNodes
    /\ \A n \in heapNodes' : nodeRefs[n] > 0 => nodeRefs'[n] > 0

LEMMA CloseFileObjects ==
  ASSUME Objects, NEW f \in LiveFiles, CloseFile(f)
  PROVE  Objects' /\ Closed(f)
<1>1. ObjectTypes /\ f \in Files /\ fileRefs[f] \in Nat /\ fileRefs[f] > 0
  BY DEF Objects, ObjectTypes, LiveFiles
<1>2. fileRefs' = [fileRefs EXCEPT ![f] = @ - 1]
  BY DEF CloseFile
<1>3. /\ fileRefs'[f] = fileRefs[f] - 1 /\ \A g \in Files \ {f} : fileRefs'[g] = fileRefs[g]
      /\ fileRefs' \in [Files -> Nat]
  BY <1>1, <1>2 DEF ObjectTypes
<1>4. CASE ~LastHolder(f)
  <2>1. UNCHANGED <<fileNode, fileAccess, offset, nodeRefs, nodeOps, heapNodes, consumed>>
    BY <1>4 DEF CloseFile, nodes
  <2>2. LiveFiles' = LiveFiles
    BY <1>1, <1>3, <1>4 DEF LiveFiles, LastHolder
  <2>3. ObjectTypes'
    BY <1>1, <1>3, <2>1 DEF ObjectTypes
  <2>4. NodeRefsExact' /\ NoDanglingNode' /\ NodeInv'
    BY <2>1, <2>2 DEF Objects, NodeRefsExact, NoDanglingNode, NodeInv
  <2> QED BY <1>3, <2>1, <2>2, <2>3, <2>4 DEF Objects, Closed
<1>5. CASE LastHolder(f)
  <2>0. PICK node : node = fileNode[f]
    OBVIOUS
  <2>1. /\ node \in StaticNodes \cup heapNodes /\ node \in Nodes
        /\ {} \in Accesses /\ 0 \in 0..TextLength
    BY <1>1, <2>0, FileTableAssumption
       DEF Objects, NoDanglingNode, ObjectTypes, Nodes, Accesses
  <2>2. /\ fileNode' = [fileNode EXCEPT ![f] = NoNode]
        /\ fileAccess' = [fileAccess EXCEPT ![f] = {}]
        /\ offset' = [offset EXCEPT ![f] = 0]
        /\ nodeRefs' = [nodeRefs EXCEPT ![node] = @ - 1]
        /\ heapNodes' = IF LastFile(node) THEN heapNodes \ {node} ELSE heapNodes
        /\ consumed' = IF LastFile(node) THEN consumed \ {node} ELSE consumed
        /\ UNCHANGED nodeOps
    BY <1>5, <2>0 DEF CloseFile
  <2>3. LiveFiles' = LiveFiles \ {f}
    BY <1>1, <1>3, <1>5 DEF LiveFiles, LastHolder
  <2>4. /\ \A g \in Files \ {f} : fileNode'[g] = fileNode[g] /\ fileAccess'[g] = fileAccess[g]
        /\ nodeRefs'[node] = nodeRefs[node] - 1 /\ nodeRefs[node] \in Nat
        /\ \A n \in Nodes \ {node} : nodeRefs'[n] = nodeRefs[n]
    BY <1>1, <2>1, <2>2 DEF ObjectTypes
  <2>5. f \in FilesOn(node)
    BY <2>0 DEF FilesOn
  <2>6. /\ FilesOn(node)' = FilesOn(node) \ {f}
        /\ \A n \in Nodes \ {node} : FilesOn(n)' = FilesOn(n)
    <3>1. \A g \in LiveFiles \ {f} : fileNode'[g] = fileNode[g]
      BY <2>4 DEF LiveFiles
    <3>2. \A n : FilesOn(n) \ {f} = {g \in LiveFiles \ {f} : fileNode[g] = n}
      BY DEF FilesOn
    <3>3. \A n : FilesOn(n)' = {g \in LiveFiles \ {f} : fileNode'[g] = n}
      BY <2>3 DEF FilesOn
    <3>4. \A n : FilesOn(n)' = FilesOn(n) \ {f}
      BY <3>1, <3>2, <3>3
    <3>5. \A n \in Nodes \ {node} : f \notin FilesOn(n)
      BY <2>0 DEF FilesOn
    <3> QED BY <3>4, <3>5
  <2>7. /\ \A n \in Nodes : nodeRefs[n] = Cardinality(FilesOn(n))
        /\ Cardinality(FilesOn(node)') = Cardinality(FilesOn(node)) - 1
        /\ Cardinality(FilesOn(node)) > 0
    <3>1. \A n \in Nodes : nodeRefs[n] = Cardinality(FilesOn(n))
      BY DEF Objects, NodeRefsExact, FilesOn
    <3>2. IsFiniteSet(FilesOn(node))
      BY <1>1, FiniteObjects
    <3>3. /\ Cardinality(FilesOn(node) \ {f}) = Cardinality(FilesOn(node)) - 1
          /\ Cardinality(FilesOn(node)) > 0
      BY <2>5, <3>2, CountOneMore
    <3> QED BY <2>6, <3>1, <3>3
  <2>8. NodeRefsExact'
    <3>1. ASSUME NEW n \in Nodes PROVE nodeRefs'[n] = Cardinality(FilesOn(n)')
      <4>1. CASE n = node
        BY <2>1, <2>4, <2>7, <4>1
      <4>2. CASE n # node
        BY <2>4, <2>6, <2>7, <4>2
      <4> QED BY <4>1, <4>2
    <3> QED BY <3>1 DEF NodeRefsExact, FilesOn
  <2>9. nodeRefs[node] > 0
    BY <2>1, <2>7
  <2>10. ObjectTypes'
    <3>1. nodeRefs' \in [Nodes -> Nat]
      BY <1>1, <2>1, <2>2, <2>4, <2>9 DEF ObjectTypes
    <3>2. heapNodes' \subseteq HeapNodes /\ consumed' \subseteq heapNodes'
      BY <1>1, <2>2 DEF ObjectTypes
    <3> QED BY <1>1, <1>3, <2>1, <2>2, <3>1, <3>2 DEF ObjectTypes
  <2>11. NoDanglingNode'
    <3>1. ASSUME NEW g \in LiveFiles, g # f PROVE fileNode'[g] \in StaticNodes \cup heapNodes'
      <4>1. fileNode'[g] = fileNode[g] /\ fileNode[g] \in StaticNodes \cup heapNodes
        BY <2>4, <3>1 DEF Objects, NoDanglingNode, LiveFiles
      <4>2. CASE fileNode[g] # node
        BY <2>2, <4>1, <4>2
      <4>3. CASE fileNode[g] = node
        <5>1. g \in FilesOn(node) \ {f}
          BY <3>1, <4>3 DEF FilesOn
        <5>2. nodeRefs'[node] # 0
          <6>1. IsFiniteSet(FilesOn(node) \ {f})
            BY <1>1, FiniteObjects, FS_RemoveElement
          <6>2. Cardinality(FilesOn(node) \ {f}) # 0
            BY <5>1, <6>1, FS_EmptySet
          <6> QED BY <2>1, <2>4, <2>6, <2>7, <6>2
        <5>3. ~LastFile(node)
          BY <2>4, <5>2 DEF LastFile
        <5> QED BY <2>2, <4>1, <5>3
      <4> QED BY <4>2, <4>3
    <3> QED BY <2>3, <3>1 DEF NoDanglingNode
  <2>12. NodeInv'
    BY <2>2, <2>3, <2>4 DEF Objects, NodeInv, LiveFiles
  <2>13. \A n \in heapNodes' : nodeRefs[n] > 0 => nodeRefs'[n] > 0
    <3> SUFFICES ASSUME NEW n \in heapNodes', nodeRefs[n] > 0 PROVE nodeRefs'[n] > 0
      OBVIOUS
    <3>1. n \in heapNodes /\ n \in Nodes
      BY <1>1, <2>2 DEF ObjectTypes, Nodes
    <3>2. CASE n # node
      BY <2>4, <3>1, <3>2
    <3>3. CASE n = node
      <4>1. nodeRefs[node] # 1
        BY <2>2, <3>3 DEF LastFile
      <4> QED BY <2>4, <2>9, <3>3, <4>1
    <3> QED BY <3>2, <3>3
  <2>14. \A g \in LiveFiles' : fileNode'[g] = fileNode[g]
    BY <2>3, <2>4 DEF LiveFiles
  <2>15. heapNodes' \subseteq heapNodes /\ LiveFiles' \subseteq LiveFiles
    BY <2>2, <2>3
  <2> QED BY <1>3, <2>8, <2>10, <2>11, <2>12, <2>13, <2>14, <2>15 DEF Objects, Closed
<1> QED BY <1>4, <1>5

-----------------------------------------------------------------------------
(* Descriptor tables *)

Table == [Tasks -> [Fds -> Files \cup {NoFile}]]
EntriesIn(T, f) == {e \in Tasks \X Fds : T[e[1]][e[2]] = f}
SameBut(T, U, t, d) == \A u \in Tasks, e \in Fds : <<u, e>> # <<t, d>> => U[u][e] = T[u][e]

LEMMA FiniteEntries ==
  ASSUME NEW T, NEW f
  PROVE  IsFiniteSet(EntriesIn(T, f)) /\ Cardinality(EntriesIn(T, f)) \in Nat
<1>1. IsFiniteSet(Tasks) /\ IsFiniteSet(Fds)
  <2>1. IsFiniteSet({0, 1})
    <3>1. IsFiniteSet({0})
      BY FS_Singleton
    <3>2. IsFiniteSet({0} \cup {1})
      BY <3>1, FS_AddElement
    <3>3. {0} \cup {1} = {0, 1}
      OBVIOUS
    <3> QED BY <3>2, <3>3
  <2>2. FdCapacity - 1 \in Int
    BY FileTableAssumption
  <2> QED BY <2>1, <2>2, FS_Interval DEF Tasks, Fds
<1>2. IsFiniteSet(Tasks \X Fds)
  BY <1>1, FS_Product
<1>3. EntriesIn(T, f) \subseteq Tasks \X Fds
  BY DEF EntriesIn
<1> QED BY <1>2, <1>3, FS_Subset, FS_CardinalityType

(* A descriptor is cleared. *)
LEMMA EntryCleared ==
  ASSUME NEW T \in Table, NEW U \in Table, NEW t \in Tasks, NEW d \in Fds,
         T[t][d] \in Files, U[t][d] = NoFile, SameBut(T, U, t, d)
  PROVE  /\ Cardinality(EntriesIn(U, T[t][d])) = Cardinality(EntriesIn(T, T[t][d])) - 1
         /\ Cardinality(EntriesIn(T, T[t][d])) > 0
         /\ \A f \in Files \ {T[t][d]} : EntriesIn(U, f) = EntriesIn(T, f)
<1> DEFINE f == T[t][d]
<1>1. f # NoFile
  BY FileSets
<1>2. <<t, d>> \in EntriesIn(T, f)
  BY DEF EntriesIn
<1>3. ASSUME NEW e \in Tasks \X Fds, e # <<t, d>> PROVE U[e[1]][e[2]] = T[e[1]][e[2]]
  BY <1>3 DEF SameBut
<1>4. <<t, d>>[1] = t /\ <<t, d>>[2] = d /\ <<t, d>> \in Tasks \X Fds
  OBVIOUS
<1>5. EntriesIn(U, f) = EntriesIn(T, f) \ {<<t, d>>}
  <2>1. ASSUME NEW e \in Tasks \X Fds
        PROVE  e \in EntriesIn(U, f) <=> e \in EntriesIn(T, f) /\ e # <<t, d>>
    <3>1. CASE e = <<t, d>>
      BY <1>1, <1>4, <3>1 DEF EntriesIn
    <3>2. CASE e # <<t, d>>
      BY <1>3, <3>2 DEF EntriesIn
    <3> QED BY <3>1, <3>2
  <2>2. EntriesIn(U, f) \subseteq Tasks \X Fds /\ EntriesIn(T, f) \subseteq Tasks \X Fds
    BY DEF EntriesIn
  <2> QED BY <2>1, <2>2
<1>6. ASSUME NEW g \in Files \ {f} PROVE EntriesIn(U, g) = EntriesIn(T, g)
  <2>1. ASSUME NEW e \in Tasks \X Fds
        PROVE  e \in EntriesIn(U, g) <=> e \in EntriesIn(T, g)
    <3>1. CASE e = <<t, d>>
      BY <1>4, <1>6, <3>1, FileSets DEF EntriesIn
    <3>2. CASE e # <<t, d>>
      BY <1>3, <3>2 DEF EntriesIn
    <3> QED BY <3>1, <3>2
  <2>2. EntriesIn(U, g) \subseteq Tasks \X Fds /\ EntriesIn(T, g) \subseteq Tasks \X Fds
    BY DEF EntriesIn
  <2> QED BY <2>1, <2>2
<1> HIDE DEF f
<1>7. /\ Cardinality(EntriesIn(U, f)) = Cardinality(EntriesIn(T, f)) - 1
      /\ Cardinality(EntriesIn(T, f)) > 0
  BY <1>2, <1>5, FiniteEntries, CountOneMore
<1> QED BY <1>6, <1>7 DEF f

(* An unused descriptor is filled: the same seen from the other side. *)
LEMMA EntryFilled ==
  ASSUME NEW T \in Table, NEW U \in Table, NEW t \in Tasks, NEW d \in Fds,
         U[t][d] \in Files, T[t][d] = NoFile, SameBut(T, U, t, d)
  PROVE  /\ Cardinality(EntriesIn(U, U[t][d])) = Cardinality(EntriesIn(T, U[t][d])) + 1
         /\ \A f \in Files \ {U[t][d]} : EntriesIn(U, f) = EntriesIn(T, f)
<1>1. /\ Cardinality(EntriesIn(T, U[t][d])) = Cardinality(EntriesIn(U, U[t][d])) - 1
      /\ \A f \in Files \ {U[t][d]} : EntriesIn(T, f) = EntriesIn(U, f)
  <2>1. SameBut(U, T, t, d)
    BY DEF SameBut
  <2> QED BY <2>1, EntryCleared
<1>2. Cardinality(EntriesIn(T, U[t][d])) \in Nat /\ Cardinality(EntriesIn(U, U[t][d])) \in Nat
  BY FiniteEntries
<1> QED BY <1>1, <1>2

(* The holders of a file, in the terms of these lemmas. *)
LEMMA HoldersAre ==
  /\ \A f : Holders(f) = Cardinality(EntriesIn(table, f)) + (IF f \in Pending THEN 1 ELSE 0)
  /\ FileInv' <=> \A f \in Files : fileRefs'[f] =
        Cardinality(EntriesIn(table', f)) + (IF f \in Pending' THEN 1 ELSE 0)
BY DEF Holders, Entries, EntriesIn, FileInv

(* A file is live if and only if something holds it. *)
LEMMA HeldIsLive ==
  ASSUME Core
  PROVE  /\ \A t \in Tasks, d \in Fds : table[t][d] # NoFile => table[t][d] \in LiveFiles
         /\ Pending \subseteq LiveFiles
         /\ \A f \in LiveFiles : f \in Pending \/ \E t \in Tasks, d \in Fds : table[t][d] = f
<1>1. /\ \A f \in Files : fileRefs[f] =
            Cardinality(EntriesIn(table, f)) + (IF f \in Pending THEN 1 ELSE 0)
      /\ \A f \in Files : fileRefs[f] \in Nat
  BY HoldersAre DEF Core, FileInv, Objects, ObjectTypes
<1>2. ASSUME NEW t \in Tasks, NEW d \in Fds, table[t][d] # NoFile
      PROVE  table[t][d] \in LiveFiles
  <2>1. table[t][d] \in Files
    BY <1>2 DEF Core, HandlerTypes
  <2>2. <<t, d>> \in EntriesIn(table, table[t][d])
    BY DEF EntriesIn
  <2>3. Cardinality(EntriesIn(table, table[t][d])) > 0
    BY <2>2, FiniteEntries, CountOneMore
  <2>4. Cardinality(EntriesIn(table, table[t][d])) \in Nat
    BY FiniteEntries
  <2> QED BY <1>1, <2>1, <2>3, <2>4 DEF LiveFiles
<1>3. ASSUME NEW f \in Pending PROVE f \in LiveFiles
  <2>1. f \in Files
    BY DEF Core, HandlerTypes, Pending, Range
  <2>2. Cardinality(EntriesIn(table, f)) \in Nat
    BY FiniteEntries
  <2> QED BY <1>1, <1>3, <2>1, <2>2 DEF LiveFiles
<1>4. ASSUME NEW f \in LiveFiles, f \notin Pending
      PROVE  \E t \in Tasks, d \in Fds : table[t][d] = f
  <2>1. f \in Files /\ fileRefs[f] > 0
    BY DEF LiveFiles
  <2>2. Cardinality(EntriesIn(table, f)) # 0
    BY <1>1, <1>4, <2>1, FiniteEntries
  <2>3. EntriesIn(table, f) # {}
    BY <2>2, FS_EmptySet
  <2>4. PICK e \in Tasks \X Fds : table[e[1]][e[2]] = f
    BY <2>3 DEF EntriesIn
  <2> QED BY <2>4
<1> QED BY <1>2, <1>3, <1>4

(* An open file keeps its node referenced. *)
LEMMA LiveHasRefs ==
  ASSUME Objects
  PROVE  \A f \in LiveFiles : fileNode[f] \in Nodes /\ nodeRefs[fileNode[f]] > 0
<1> SUFFICES ASSUME NEW f \in LiveFiles PROVE fileNode[f] \in Nodes /\ nodeRefs[fileNode[f]] > 0
  OBVIOUS
<1>1. fileNode[f] \in Nodes /\ f \in FilesOn(fileNode[f])
  BY DEF Objects, NoDanglingNode, ObjectTypes, Nodes, FilesOn
<1>2. nodeRefs[fileNode[f]] = Cardinality(FilesOn(fileNode[f]))
  BY <1>1 DEF Objects, NodeRefsExact, FilesOn
<1>3. IsFiniteSet(FilesOn(fileNode[f]))
  BY FiniteObjects DEF Objects
<1> QED BY <1>1, <1>2, <1>3, CountOneMore

(* The same in the next state. *)
LEMMA HeldNext ==
  /\ Core' => /\ \A t \in Tasks, d \in Fds : table'[t][d] # NoFile => table'[t][d] \in LiveFiles'
              /\ Pending' \subseteq LiveFiles'
  /\ Objects' => \A f \in LiveFiles' : fileNode'[f] \in Nodes /\ nodeRefs'[fileNode'[f]] > 0
<1> DEFINE A == /\ \A t \in Tasks, d \in Fds : table[t][d] # NoFile => table[t][d] \in LiveFiles
                /\ Pending \subseteq LiveFiles
           B == \A f \in LiveFiles : fileNode[f] \in Nodes /\ nodeRefs[fileNode[f]] > 0
<1>1. Core => A
  BY HeldIsLive
<1>2. Objects => B
  BY LiveHasRefs
<1>3. (Core => A)' /\ (Objects => B)'
  BY <1>1, <1>2, PTL
<1> QED BY <1>3

(* The sequences of pending files that occur. *)
LEMMA AppendFacts ==
  ASSUME NEW s \in Seq(Files), \A i, j \in DOMAIN s : s[i] = s[j] => i = j,
         NEW x \in Files, x \notin Range(s)
  PROVE  LET a == Append(s, x)
         IN  /\ a \in Seq(Files) /\ Len(a) = Len(s) + 1 /\ Len(s) \in Nat
             /\ DOMAIN a = 1..(Len(s) + 1) /\ DOMAIN s = 1..Len(s)
             /\ \A i \in 1..Len(s) : a[i] = s[i]
             /\ a[Len(s) + 1] = x
             /\ Range(a) = Range(s) \cup {x}
             /\ \A i, j \in DOMAIN a : a[i] = a[j] => i = j
<1> DEFINE a == Append(s, x)
<1>0. Len(s) \in Nat /\ DOMAIN s = 1..Len(s) /\ \A i \in 1..Len(s) : s[i] \in Files
  OBVIOUS
<1>1. /\ a \in Seq(Files) /\ Len(a) = Len(s) + 1 /\ DOMAIN a = 1..(Len(s) + 1)
      /\ \A i \in 1..Len(s) : a[i] = s[i]
      /\ a[Len(s) + 1] = x
  BY <1>0
<1> HIDE DEF a
<1>2. Range(a) = Range(s) \cup {x}
  BY <1>0, <1>1 DEF Range
<1>3. \A i \in 1..Len(s) : s[i] # x
  BY <1>0 DEF Range
<1>4. \A i, j \in DOMAIN a : a[i] = a[j] => i = j
  BY <1>0, <1>1, <1>3
<1> QED BY <1>0, <1>1, <1>2, <1>4 DEF a

LEMMA TailFacts ==
  ASSUME NEW s \in Seq(Files), \A i, j \in DOMAIN s : s[i] = s[j] => i = j, s # <<>>
  PROVE  LET r == Tail(s)
         IN  /\ r \in Seq(Files) /\ Head(s) \in Files /\ Head(s) \in Range(s)
             /\ Len(r) = Len(s) - 1 /\ Len(s) \in Nat
             /\ Range(r) = Range(s) \ {Head(s)}
             /\ \A i, j \in DOMAIN r : r[i] = r[j] => i = j
<1> DEFINE r == Tail(s)
<1>0. Len(s) \in Nat /\ DOMAIN s = 1..Len(s) /\ \A i \in 1..Len(s) : s[i] \in Files
  OBVIOUS
<1>1. /\ r \in Seq(Files) /\ Len(r) = Len(s) - 1 /\ DOMAIN r = 1..(Len(s) - 1)
      /\ \A i \in 1..(Len(s) - 1) : r[i] = s[i + 1]
      /\ Head(s) = s[1] /\ Len(s) > 0
  BY <1>0
<1> HIDE DEF r
<1>2. \A i, j \in DOMAIN r : r[i] = r[j] => i = j
  <2> SUFFICES ASSUME NEW i \in DOMAIN r, NEW j \in DOMAIN r, r[i] = r[j] PROVE i = j
    OBVIOUS
  <2>1. PICK n : n = Len(s)
    OBVIOUS
  <2>2. i \in 1..(n - 1) /\ j \in 1..(n - 1) /\ n \in Nat /\ DOMAIN s = 1..n
    BY <1>0, <1>1, <2>1
  <2>3. i + 1 \in DOMAIN s /\ j + 1 \in DOMAIN s
    BY ONLY <2>2
  <2>4. s[i + 1] = s[j + 1]
    BY <1>1, <2>1, <2>2
  <2>5. i + 1 = j + 1
    BY <2>3, <2>4
  <2> QED
    BY ONLY <2>2, <2>5
<1>3. Head(s) \in Files /\ Head(s) \in Range(s)
  BY <1>0, <1>1 DEF Range
<1>4. ASSUME NEW i \in DOMAIN r PROVE r[i] \in Range(s) \ {Head(s)}
  <2>1. i + 1 \in DOMAIN s /\ 1 \in DOMAIN s /\ i + 1 # 1 /\ r[i] = s[i + 1]
    BY <1>0, <1>1
  <2> QED BY <1>1, <2>1 DEF Range
<1>5. ASSUME NEW k \in DOMAIN s, s[k] # Head(s) PROVE s[k] \in Range(r)
  <2>1. k - 1 \in DOMAIN r /\ r[k - 1] = s[k]
    BY <1>0, <1>1, <1>5
  <2> QED BY <2>1 DEF Range
<1>6. Range(r) = Range(s) \ {Head(s)}
  BY <1>4, <1>5 DEF Range
<1> QED BY <1>0, <1>1, <1>2, <1>3, <1>6 DEF r

(* One file. *)
LEMMA OnePending ==
  ASSUME NEW x \in Files
  PROVE  /\ <<x>> \in Seq(Files) /\ Len(<<x>>) = 1 /\ <<x>>[1] = x /\ Range(<<x>>) = {x}
         /\ \A i, j \in DOMAIN <<x>> : <<x>>[i] = <<x>>[j] => i = j
         /\ \A s \in Seq(Files) : Len(s) = 1 => Range(s) = {s[1]} /\ s[1] \in Files
         /\ <<>> \in Seq(Files) /\ Len(<<>>) = 0 /\ Range(<<>>) = {} /\ DOMAIN <<>> = {}
BY DEF Range

-----------------------------------------------------------------------------
(* Counts of files, as references move *)

Count(T, f) == Cardinality(EntriesIn(T, f))

(* FileInv in the terms of these lemmas. *)
LEMMA CoreCounts ==
  ASSUME Core
  PROVE  /\ \A f \in Files : fileRefs[f] = Count(table, f) + (IF f \in Pending THEN 1 ELSE 0)
         /\ \A f \in Files : fileRefs[f] \in Nat /\ Count(table, f) \in Nat
         /\ Pending \subseteq Files /\ table \in Table
<1>1. \A f \in Files : fileRefs[f] = Count(table, f) + (IF f \in Pending THEN 1 ELSE 0)
  BY HoldersAre DEF Core, FileInv, Count
<1>2. \A f \in Files : fileRefs[f] \in Nat /\ Count(table, f) \in Nat
  BY FiniteEntries DEF Core, Objects, ObjectTypes, Count
<1>3. Pending \subseteq Files
  BY DEF Core, HandlerTypes, Pending, Range
<1>4. table \in Table
  BY DEF Core, HandlerTypes, Table
<1> QED BY <1>1, <1>2, <1>3, <1>4

LEMMA NextCounts ==
  FileInv' <=> \A f \in Files : fileRefs'[f] = Count(table', f) + (IF f \in Pending' THEN 1 ELSE 0)
BY HoldersAre DEF Count

(* A new file is held by the handler only. *)
LEMMA MadeFiles ==
  ASSUME Core, NEW f \in Files \ LiveFiles, NEW node, Made(f, node), UNCHANGED table,
         Pending' = Pending \cup {f}
  PROVE  FileInv'
<1>1. fileRefs[f] = 0
  BY CoreCounts DEF LiveFiles
<1>2. Count(table, f) = 0
  BY <1>1, CoreCounts
<1>3. ASSUME NEW g \in Files
      PROVE  fileRefs'[g] = Count(table, g) + (IF g \in Pending' THEN 1 ELSE 0)
  <2>1. CASE g = f
    BY <1>2, <2>1 DEF Made
  <2>2. CASE g # f
    BY <2>2, CoreCounts DEF Made
  <2> QED BY <2>1, <2>2
<1> QED BY <1>3, NextCounts

(* The handler drops a file it holds. *)
LEMMA DroppedFiles ==
  ASSUME Core, NEW f \in Pending, Closed(f), UNCHANGED table, Pending' = Pending \ {f}
  PROVE  FileInv'
<1>1. ASSUME NEW g \in Files
      PROVE  fileRefs'[g] = Count(table, g) + (IF g \in Pending' THEN 1 ELSE 0)
  <2>1. CASE g = f
    BY <2>1, CoreCounts DEF Closed
  <2>2. CASE g # f
    BY <2>2, CoreCounts DEF Closed
  <2> QED BY <2>1, <2>2
<1> QED BY <1>1, NextCounts

(* The handler puts a file it holds into an unused descriptor. *)
LEMMA InstalledFiles ==
  ASSUME Core, NEW f \in Pending, NEW t \in Tasks, NEW d \in Fds, table[t][d] = NoFile,
         table' = [table EXCEPT ![t][d] = f], UNCHANGED fileRefs, Pending' = Pending \ {f}
  PROVE  FileInv'
<1>1. f \in Files /\ table \in Table
  BY CoreCounts
<1>2. table' \in Table /\ table'[t][d] = f /\ SameBut(table, table', t, d)
  BY <1>1 DEF Table, SameBut
<1>3. /\ Count(table', f) = Count(table, f) + 1
      /\ \A g \in Files \ {f} : Count(table', g) = Count(table, g)
  <2>1. table'[t][d] \in Files
    BY <1>1, <1>2
  <2>2. /\ Count(table', table'[t][d]) = Count(table, table'[t][d]) + 1
        /\ \A g \in Files \ {table'[t][d]} : EntriesIn(table', g) = EntriesIn(table, g)
    BY <1>1, <1>2, <2>1, EntryFilled DEF Count
  <2> QED BY <1>2, <2>2 DEF Count
<1>4. ASSUME NEW g \in Files
      PROVE  fileRefs'[g] = Count(table', g) + (IF g \in Pending' THEN 1 ELSE 0)
  <2>1. CASE g = f
    BY <1>3, <2>1, CoreCounts
  <2>2. CASE g # f
    BY <1>3, <2>2, CoreCounts
  <2> QED BY <2>1, <2>2
<1> QED BY <1>4, NextCounts

(* fd_table_close. *)
LEMMA ClearedFiles ==
  ASSUME Core, NEW t \in Tasks, NEW d \in Fds, NEW f \in Files, table[t][d] = f,
         table' = [table EXCEPT ![t][d] = NoFile], Closed(f), Pending' = Pending
  PROVE  FileInv'
<1>1. table \in Table
  BY CoreCounts
<1>2. table' \in Table /\ table'[t][d] = NoFile /\ SameBut(table, table', t, d)
  BY <1>1 DEF Table, SameBut
<1>3. /\ Count(table', f) = Count(table, f) - 1
      /\ \A g \in Files \ {f} : Count(table', g) = Count(table, g)
  <2>1. table[t][d] \in Files
    OBVIOUS
  <2>2. /\ Count(table', table[t][d]) = Count(table, table[t][d]) - 1
        /\ \A g \in Files \ {table[t][d]} : EntriesIn(table', g) = EntriesIn(table, g)
    BY <1>1, <1>2, <2>1, EntryCleared DEF Count
  <2> QED BY <2>2 DEF Count
<1>4. ASSUME NEW g \in Files
      PROVE  fileRefs'[g] = Count(table', g) + (IF g \in Pending' THEN 1 ELSE 0)
  <2>1. CASE g = f
    BY <1>3, <2>1, CoreCounts DEF Closed
  <2>2. CASE g # f
    BY <1>3, <2>2, CoreCounts DEF Closed
  <2> QED BY <2>1, <2>2
<1> QED BY <1>4, NextCounts

(* A console is installed: three files that the handler holds go to three  *)
(* unused descriptors.                                                     *)
LEMMA SeedInstallFiles == ASSUME FInv, SeedInstall PROVE FileInv'
<1> DEFINE p == pending[1]
           q == pending[2]
           r == pending[3]
           T1 == [table EXCEPT ![task][0] = p]
           T2 == [T1 EXCEPT ![task][1] = q]
<1>1. /\ Core /\ task \in Tasks /\ table \in Table
      /\ 0 \in Fds /\ 1 \in Fds /\ 2 \in Fds /\ \A d \in Fds : d \in Nat
      /\ \A d \in Fds : table[task][d] = NoFile
  BY FileTableAssumption, CoreCounts
     DEF FInv, Core, HandlerTypes, Stages, TableInv, SeedInstall, Seeding, Fds
<1>2. /\ pending \in Seq(Files) /\ Len(pending) = 3
      /\ \A i, j \in DOMAIN pending : pending[i] = pending[j] => i = j
  BY DEF FInv, Core, HandlerTypes, Stages, PendingInv, SeedInstall
<1>3. /\ p \in Files /\ q \in Files /\ r \in Files /\ p # q /\ p # r /\ q # r
      /\ Pending = {p, q, r}
  <2>1. DOMAIN pending = 1..3
    BY <1>2
  <2>2. 1 \in 1..3 /\ 2 \in 1..3 /\ 3 \in 1..3
    OBVIOUS
  <2>3. Pending = {p, q, r}
    BY <2>1 DEF Pending, Range
  <2>4. p # q /\ p # r /\ q # r
    BY <1>2, <2>1, <2>2
  <2> QED BY <1>2, <2>1, <2>2, <2>3, <2>4
<1>4. /\ fileRefs' = fileRefs /\ pending' = <<>>
      /\ table' = [table EXCEPT ![task] = [d \in Fds |-> IF d < 3 THEN pending[d + 1] ELSE @[d]]]
  BY DEF SeedInstall, files
<1>5. /\ table' \in Table /\ table'[task][0] = p /\ table'[task][1] = q /\ table'[task][2] = r
      /\ \A d \in Fds : d \notin {0, 1, 2} => table'[task][d] = NoFile
      /\ \A u \in Tasks : u # task => table'[u] = table[u]
  <2> DEFINE row == [d \in Fds |-> IF d < 3 THEN pending[d + 1] ELSE table[task][d]]
  <2>1. row[0] = p /\ row[1] = q /\ row[2] = r
    BY <1>1
  <2>2. \A d \in Fds : d \notin {0, 1, 2} => row[d] = NoFile
    BY <1>1
  <2>3. row \in [Fds -> Files \cup {NoFile}]
    <3>1. \A d \in Fds : d \in {0, 1, 2} => row[d] \in Files
      BY <1>3, <2>1
    <3>2. \A d \in Fds : row[d] \in Files \cup {NoFile}
      BY <2>2, <3>1
    <3> QED BY <3>2
  <2>4. table' = [table EXCEPT ![task] = row]
    BY <1>4
  <2> HIDE DEF row
  <2> QED BY <1>1, <2>1, <2>2, <2>3, <2>4 DEF Table
<1>6. T1 \in Table /\ T1[task][0] = p /\ SameBut(table, T1, task, 0)
  BY <1>1, <1>3 DEF Table, SameBut
<1>7. T2 \in Table /\ T2[task][1] = q /\ SameBut(T1, T2, task, 1)
  BY <1>1, <1>3, <1>6 DEF Table, SameBut
<1> HIDE DEF T1, T2, p, q, r
<1>8. T1[task][1] = NoFile /\ T2[task][2] = NoFile
  BY <1>1, <1>6, <1>7 DEF SameBut
<1>9. SameBut(T2, table', task, 2)
  <2>1. ASSUME NEW u \in Tasks, NEW e \in Fds, <<u, e>> # <<task, 2>>
        PROVE  table'[u][e] = T2[u][e]
    <3>1. CASE u # task
      BY <1>5, <1>6, <1>7, <3>1 DEF SameBut
    <3>2. CASE u = task /\ e = 0
      BY <1>1, <1>5, <1>6, <1>7, <3>2 DEF SameBut
    <3>3. CASE u = task /\ e = 1
      BY <1>1, <1>5, <1>6, <1>7, <3>3 DEF SameBut
    <3>4. CASE u = task /\ e \notin {0, 1}
      <4>1. table'[u][e] = NoFile /\ table[u][e] = NoFile
        BY <1>1, <1>5, <2>1, <3>4
      <4>2. T1[u][e] = NoFile
        BY <1>6, <3>4, <4>1 DEF SameBut
      <4>3. T2[u][e] = NoFile
        BY <1>7, <3>4, <4>2 DEF SameBut
      <4> QED BY <4>1, <4>3
    <3> QED BY <3>1, <3>2, <3>3, <3>4
  <2> QED BY <2>1 DEF SameBut
<1>10. Count(T1, p) = Count(table, p) + 1 /\ \A g \in Files \ {p} : Count(T1, g) = Count(table, g)
  BY <1>1, <1>3, <1>6, EntryFilled DEF Count
<1>11. Count(T2, q) = Count(T1, q) + 1 /\ \A g \in Files \ {q} : Count(T2, g) = Count(T1, g)
  BY <1>1, <1>3, <1>6, <1>7, <1>8, EntryFilled DEF Count
<1>12. Count(table', r) = Count(T2, r) + 1
       /\ \A g \in Files \ {r} : Count(table', g) = Count(T2, g)
  BY <1>1, <1>3, <1>5, <1>7, <1>8, <1>9, EntryFilled DEF Count
<1>13. ASSUME NEW g \in Files
       PROVE  Count(table', g) = Count(table, g) + (IF g \in Pending THEN 1 ELSE 0)
  <2>1. Count(table, g) \in Nat
    BY <1>1, CoreCounts
  <2>2. CASE g = p
    BY <1>3, <1>10, <1>11, <1>12, <2>2
  <2>3. CASE g = q
    BY <1>3, <1>10, <1>11, <1>12, <2>3
  <2>4. CASE g = r
    BY <1>3, <1>10, <1>11, <1>12, <2>4
  <2>5. CASE g \notin {p, q, r}
    BY <1>3, <1>10, <1>11, <1>12, <2>1, <2>5
  <2> QED BY <2>2, <2>3, <2>4, <2>5
<1>14. Pending' = {}
  BY <1>4 DEF Pending, Range
<1>15. ASSUME NEW g \in Files
       PROVE  fileRefs'[g] = Count(table', g) + (IF g \in Pending' THEN 1 ELSE 0)
  <2>1. fileRefs[g] = Count(table, g) + (IF g \in Pending THEN 1 ELSE 0) /\ fileRefs[g] \in Nat
    BY <1>1, CoreCounts
  <2>2. Count(table', g) \in Nat
    BY FiniteEntries DEF Count
  <2>3. Count(table', g) = Count(table, g) + (IF g \in Pending THEN 1 ELSE 0)
    BY <1>13
  <2>4. fileRefs'[g] = Count(table', g)
    BY <1>4, <2>1, <2>3
  <2> QED BY <1>14, <2>2, <2>4
<1> QED BY <1>15, NextCounts

-----------------------------------------------------------------------------
(* The initial state *)

LEMMA InitFInv == Init => FInv
<1> SUFFICES ASSUME Init PROVE FInv
  OBVIOUS
<1>1. LiveFiles = {} /\ HeapUsed = 0
  <2>1. LiveFiles = {}
    BY DEF Init, LiveFiles
  <2>2. heapNodes = {}
    BY DEF Init
  <2> QED BY <2>1, <2>2, FS_EmptySet DEF HeapUsed
<1>2. ObjectTypes
  BY FileTableAssumption DEF Init, ObjectTypes, Accesses, Nodes, StaticNodes, Banner, Console
<1>3. NodeRefsExact /\ NoDanglingNode
  <2>1. \A n \in Nodes : {f \in LiveFiles : fileNode[f] = n} = {}
    BY <1>1
  <2> QED BY <1>1, <2>1, FS_EmptySet DEF Init, NodeRefsExact, NoDanglingNode
<1>4. NodeInv
  <2>1. Banner \in Nodes /\ Console \in Nodes /\ Executable \in Nodes
    BY DEF Nodes, StaticNodes
  <2>2. Banner # Console /\ Banner # Executable /\ Console # Executable
    BY DEF Banner, Console, Executable
  <2> QED BY <1>1, <2>1, <2>2 DEF Init, NodeInv
<1>5. HandlerTypes
  <2>1. table \in [Tasks -> [Fds -> Files \cup {NoFile}]]
    BY DEF Init
  <2>2. 0 \in 0..FdCapacity /\ 0 \in Tasks /\ <<>> \in Seq(Files)
    BY FileTableAssumption DEF Tasks
  <2>3. heapSize \in HeapSizes /\ task \in Tasks /\ index \in 0..FdCapacity
        /\ pending \in Seq(Files) /\ execing \in BOOLEAN /\ seedIn = NoNode /\ seedOut = NoNode
    BY <2>2 DEF Init
  <2> QED BY <2>1, <2>3 DEF Init, HandlerTypes
<1>6. FileInv
  <2>1. \A t \in Tasks, d \in Fds : table[t][d] = NoFile
    BY DEF Init
  <2>2. \A f \in Files : Entries(f) = {}
    BY <2>1, FileSets DEF Entries
  <2>3. Pending = {}
    BY DEF Init, Pending, Range
  <2>4. \A f \in Files : Cardinality(Entries(f)) = 0
    BY <2>2, FS_EmptySet
  <2>5. \A f \in Files : fileRefs[f] = 0
    BY DEF Init
  <2> QED BY <2>3, <2>4, <2>5 DEF FileInv, Holders
<1>7. heapSize \in Nat /\ pending = <<>> /\ Len(pending) = 0
  BY FileTableAssumption DEF Init
<1>8. Stages
  BY <1>1, <1>7
     DEF Init, Stages, PendingInv, TableInv, SeedInv, LeakInv, IdleInv, RoomInv, SeedUse, Seeding,
         Serving, Tasks
<1> QED BY <1>2, <1>3, <1>4, <1>5, <1>6, <1>8 DEF FInv, Core, Objects

-----------------------------------------------------------------------------
(* Seeding a console *)

(* Steps that leave the objects, the tables or the handler's files alone.  *)
LEMMA ObjectsKept == Objects /\ UNCHANGED <<files, nodes>> => Objects'
BY DEF Objects, ObjectTypes, NodeRefsExact, NoDanglingNode, NodeInv, LiveFiles, files, nodes

LEMMA FileInvKept == ASSUME FileInv, UNCHANGED <<fileRefs, table, pending>> PROVE FileInv'
BY DEF FileInv, Holders, Entries, Pending

LEMMA HeapNumbers ==
  ASSUME Core
  PROVE  /\ Cardinality(LiveFiles) \in Nat /\ Cardinality(heapNodes) \in Nat
         /\ HeapUsed \in Nat /\ heapSize \in Nat
<1>1. Cardinality(LiveFiles) \in Nat /\ Cardinality(heapNodes) \in Nat
  BY FiniteObjects DEF Core, Objects
<1> QED BY <1>1, FileTableAssumption DEF Core, HandlerTypes, HeapUsed

(* The re-seeding of exec finds room. *)
LEMMA ExecHasRoom ==
  ASSUME FInv, execing
  PROVE  /\ pc = "seed_nodes" => HeapFree >= 4
         /\ pc = "seed_open" => HeapFree >= 1
<1>1. HeapUsed \in Nat /\ heapSize \in Nat /\ heapSize >= 14 /\ task = 1
  BY HeapNumbers DEF FInv, Stages, RoomInv
<1>2. pc = "seed_nodes" => HeapUsed <= 7
  BY <1>1 DEF FInv, Stages, RoomInv, PendingInv, SeedUse, Seeding
<1>3. pc = "seed_open" => HeapUsed <= 13
  BY <1>1 DEF FInv, Stages, RoomInv, PendingInv, SeedUse, Seeding, Core, HandlerTypes
<1> QED BY <1>1, <1>2, <1>3 DEF HeapFree

(* Two nodes that no file has yet. *)
LEMMA SeedNodesObjects ==
  ASSUME Objects, heapSize \in HeapSizes, HeapFree >= 4, SeedNodes
  PROVE  /\ Objects' /\ LiveFiles' = LiveFiles
         /\ seedIn' \in HeapNodes \ heapNodes /\ seedOut' \in HeapNodes \ heapNodes
         /\ seedIn' # seedOut' /\ heapNodes' = heapNodes \cup {seedIn', seedOut'}
         /\ seedIn' \notin consumed'
         /\ \A n \in heapNodes : nodeRefs'[n] = nodeRefs[n]
         /\ Cardinality(heapNodes') = Cardinality(heapNodes) + 2
<1>1. ~(HeapFree < 4) /\ ObjectTypes
  <2>1. HeapFree \in Int
    BY FiniteObjects, FileTableAssumption DEF Objects, HeapFree, HeapUsed
  <2> QED BY <2>1 DEF Objects
<1>2. /\ seedIn' = NewNodeBut({}) /\ seedOut' = NewNodeBut({seedIn'})
      /\ heapNodes' = heapNodes \cup {seedIn', seedOut'}
      /\ nodeRefs' = [nodeRefs EXCEPT ![seedIn'] = 0, ![seedOut'] = 0]
      /\ nodeOps' = [nodeOps EXCEPT ![seedIn'] = {Read}, ![seedOut'] = {Write}]
      /\ consumed' = consumed \ {seedIn', seedOut'}
      /\ UNCHANGED <<fileRefs, fileNode, fileAccess, offset>>
  BY <1>1 DEF SeedNodes, files
<1>3. PICK a, b : a = seedIn' /\ b = seedOut'
  OBVIOUS
<1>4. a \in HeapNodes \ heapNodes
  BY <1>1, <1>2, <1>3, NewNodeFacts
<1>5. b \in HeapNodes \ (heapNodes \cup {a})
  BY <1>1, <1>2, <1>3, NewNodeFacts
<1>6. /\ heapNodes' = heapNodes \cup {a, b}
      /\ nodeRefs' = [nodeRefs EXCEPT ![a] = 0, ![b] = 0]
      /\ nodeOps' = [nodeOps EXCEPT ![a] = {Read}, ![b] = {Write}]
      /\ consumed' = consumed \ {a, b}
  BY <1>2, <1>3
<1>7. a \in Nodes /\ b \in Nodes /\ {Read} \in Accesses /\ {Write} \in Accesses
  BY <1>4, <1>5 DEF Nodes, Accesses
<1>8. ObjectTypes'
  <2>1. nodeRefs' \in [Nodes -> Nat] /\ nodeOps' \in [Nodes -> Accesses]
    BY <1>1, <1>6, <1>7 DEF ObjectTypes
  <2>2. heapNodes' \subseteq HeapNodes /\ consumed' \subseteq heapNodes'
    BY <1>1, <1>4, <1>5, <1>6 DEF ObjectTypes
  <2> QED BY <1>1, <1>2, <2>1, <2>2 DEF ObjectTypes
<1>9. LiveFiles' = LiveFiles
  BY <1>2 DEF LiveFiles
<1>10. \A f \in LiveFiles : fileNode[f] \in StaticNodes \cup heapNodes /\ fileNode[f] \in Nodes
                            /\ fileNode[f] # a /\ fileNode[f] # b
  BY <1>1, <1>4, <1>5, FileSets DEF Objects, NoDanglingNode, ObjectTypes, Nodes
<1>11. NoDanglingNode'
  BY <1>2, <1>6, <1>9, <1>10 DEF NoDanglingNode
<1>12. /\ \A n \in Nodes \ {a, b} : nodeRefs'[n] = nodeRefs[n] /\ nodeOps'[n] = nodeOps[n]
       /\ nodeRefs'[a] = 0 /\ nodeRefs'[b] = 0
  BY <1>1, <1>6, <1>7 DEF ObjectTypes
<1>13. NodeRefsExact'
  <2>1. \A n : FilesOn(n)' = FilesOn(n)
    BY <1>2, <1>9 DEF FilesOn
  <2>2. FilesOn(a) = {} /\ FilesOn(b) = {}
    BY <1>10 DEF FilesOn
  <2>3. \A n \in Nodes : nodeRefs[n] = Cardinality(FilesOn(n))
    BY DEF Objects, NodeRefsExact, FilesOn
  <2>4. ASSUME NEW n \in Nodes PROVE nodeRefs'[n] = Cardinality(FilesOn(n)')
    <3>1. CASE n \in {a, b}
      BY <1>12, <2>1, <2>2, <3>1, FS_EmptySet
    <3>2. CASE n \notin {a, b}
      BY <1>12, <2>1, <2>3, <3>2
    <3> QED BY <3>1, <3>2
  <2> QED BY <2>4 DEF NodeRefsExact, FilesOn
<1>14. NodeInv'
  <2>1. StaticNodes \subseteq Nodes \ {a, b}
    BY <1>4, <1>5, FileSets DEF Nodes
  <2>2. Banner \in StaticNodes /\ Console \in StaticNodes /\ Executable \in StaticNodes
    BY DEF StaticNodes
  <2>3. /\ nodeOps'[Banner] = nodeOps[Banner] /\ nodeOps'[Console] = nodeOps[Console]
        /\ nodeOps'[Executable] = nodeOps[Executable]
    BY <1>12, <2>1, <2>2
  <2>4. \A f \in LiveFiles : nodeOps'[fileNode[f]] = nodeOps[fileNode[f]]
    BY <1>10, <1>12
  <2> QED BY <1>2, <1>9, <2>3, <2>4 DEF Objects, NodeInv
<1>15. Cardinality(heapNodes') = Cardinality(heapNodes) + 2
  <2>1. /\ Cardinality(heapNodes \cup {a}) = Cardinality(heapNodes) + 1
        /\ IsFiniteSet(heapNodes \cup {a})
    BY <1>1, <1>4, FiniteObjects, CountOneMore
  <2>2. Cardinality((heapNodes \cup {a}) \cup {b}) = Cardinality(heapNodes \cup {a}) + 1
    BY <1>5, <2>1, CountOneMore
  <2>3. heapNodes' = (heapNodes \cup {a}) \cup {b}
    BY <1>6
  <2>4. Cardinality(heapNodes) \in Nat
    BY <1>1, FiniteObjects
  <2> QED BY <2>1, <2>2, <2>3, <2>4
<1>16. \A n \in heapNodes : nodeRefs'[n] = nodeRefs[n]
  BY <1>1, <1>4, <1>5, <1>12 DEF ObjectTypes, Nodes
<1>17. a # b /\ a \notin consumed'
  BY <1>5, <1>6
<1> QED BY <1>3, <1>4, <1>5, <1>6, <1>8, <1>9, <1>11, <1>13, <1>14, <1>15, <1>16, <1>17 DEF Objects

(* What is open at the idle task keeps its nodes. *)
LEMMA IdleKept ==
  ASSUME FInv, Core', UNCHANGED task, task = 1 => table'[0] = table[0],
         \A f \in LiveFiles \cap LiveFiles' : fileNode'[f] = fileNode[f]
  PROVE  IdleInv'
<1> SUFFICES ASSUME task = 1 PROVE IdleInv'
  BY DEF IdleInv
<1>1. /\ \A d \in Fds : d > 2 => table[0][d] = NoFile
      /\ \A d \in 0..2 : table[0][d] # NoFile
      /\ fileNode[table[0][1]] = fileNode[table[0][2]]
  BY DEF FInv, Stages, IdleInv
<1>2. 1 \in Fds /\ 2 \in Fds /\ 0 \in Tasks /\ 1 \in 0..2 /\ 2 \in 0..2
  BY FileTableAssumption DEF Fds, Tasks
<1>3. table[0][1] \in LiveFiles /\ table[0][2] \in LiveFiles
  BY <1>1, <1>2, HeldIsLive DEF FInv
<1>4. table[0][1] \in LiveFiles' /\ table[0][2] \in LiveFiles'
  <2>1. \A t \in Tasks, d \in Fds : table'[t][d] # NoFile => table'[t][d] \in LiveFiles'
    BY HeldNext
  <2> QED BY <1>1, <1>2, <2>1
<1>5. /\ fileNode'[table[0][1]] = fileNode[table[0][1]]
      /\ fileNode'[table[0][2]] = fileNode[table[0][2]]
  BY <1>3, <1>4
<1> QED BY <1>1, <1>5 DEF IdleInv

(* A step that changes nothing but pc. *)
Paused ==
    UNCHANGED <<heapSize, table, files, nodes, task, index, pending, seedIn, seedOut, execing>>

LEMMA PausedCore == ASSUME FInv, Paused, HandlerTypes' PROVE Core'
BY ObjectsKept, FileInvKept DEF FInv, Core, Paused, files

LEMMA SeedNodesInv == ASSUME FInv, SeedNodes PROVE FInv'
<1>0. /\ Core /\ Objects /\ heapSize \in HeapSizes /\ pc = "seed_nodes" /\ task \in Tasks
      /\ UNCHANGED <<heapSize, table, fileRefs, fileNode, task, index, pending, execing>>
      /\ pending = <<>>
  BY DEF FInv, Core, HandlerTypes, SeedNodes, files, Stages, PendingInv
<1>1. CASE HeapFree < 4
  <2>1. HeapFree \in Int
    BY <1>0, HeapNumbers DEF HeapFree
  <2>2. ~execing
    BY <1>0, <1>1, <2>1, ExecHasRoom
  <2>3. pc' = "halted" /\ Paused
    BY <1>1, <2>2 DEF SeedNodes, SeedFailed, Booting, Paused
  <2>4. HandlerTypes'
    BY <1>0, <2>3 DEF Core, HandlerTypes, Paused
  <2>5. Core'
    BY <2>3, <2>4, PausedCore
  <2>6. Stages'
    BY <1>0, <2>2, <2>3 DEF FInv, Stages, PendingInv, TableInv, SeedInv, LeakInv, IdleInv, RoomInv,
         Seeding, Serving, Paused, files
  <2> QED BY <2>5, <2>6 DEF FInv
<1>2. CASE ~(HeapFree < 4)
  <2>1. HeapFree >= 4
    <3>1. HeapFree \in Int
      BY <1>0, HeapNumbers DEF HeapFree
    <3> QED BY <1>2, <3>1
  <2>2. /\ Objects' /\ LiveFiles' = LiveFiles
        /\ seedIn' \in HeapNodes \ heapNodes /\ seedOut' \in HeapNodes \ heapNodes
        /\ seedIn' # seedOut' /\ heapNodes' = heapNodes \cup {seedIn', seedOut'}
        /\ seedIn' \notin consumed'
        /\ \A n \in heapNodes : nodeRefs'[n] = nodeRefs[n]
        /\ Cardinality(heapNodes') = Cardinality(heapNodes) + 2
    BY <1>0, <2>1, SeedNodesObjects
  <2>3. pc' = "seed_open"
    BY <1>2 DEF SeedNodes
  <2>4. HandlerTypes'
    BY <1>0, <2>2, <2>3 DEF Core, HandlerTypes
  <2>5. FileInv'
    BY <1>0, FileInvKept DEF Core
  <2>6. HeapUsed' = HeapUsed + 4 /\ SeedUse' = SeedUse + 4 /\ HeapUsed + 4 <= heapSize
    <3>1. HeapUsed' = HeapUsed + 4
      BY <1>0, <2>2, HeapNumbers DEF HeapUsed
    <3>2. SeedUse' = SeedUse + 4
      BY <1>0, <2>3 DEF SeedUse, Tasks
    <3>3. HeapUsed + 4 <= heapSize
      BY <1>0, <2>1, HeapNumbers DEF HeapFree
    <3> QED BY <3>1, <3>2, <3>3
  <2>7. RoomInv'
    <3>1. SeedUse \in Nat /\ HeapUsed \in Nat /\ heapSize \in Nat
      BY <1>0, HeapNumbers DEF SeedUse, Tasks
    <3> QED BY <1>0, <2>3, <2>6, <3>1 DEF FInv, Stages, RoomInv, Seeding, Serving
  <2>8. PendingInv' /\ SeedInv'
    BY <1>0, <2>2, <2>3 DEF FInv, Stages, PendingInv, SeedInv
  <2>9. TableInv'
    BY <1>0, <2>3 DEF FInv, Stages, TableInv, Seeding
  <2>10. LeakInv'
    BY <1>0, <2>2, <2>3 DEF FInv, Stages, LeakInv
  <2>11. IdleInv'
    BY <1>0 DEF FInv, Stages, IdleInv
  <2> QED BY <2>2, <2>4, <2>5, <2>7, <2>8, <2>9, <2>10, <2>11 DEF FInv, Core, Stages
<1> QED BY <1>1, <1>2

(* What the handler's variables hold at each step. *)
LEMMA PendingFacts ==
  ASSUME FInv
  PROVE  /\ pending \in Seq(Files) /\ Len(pending) \in 0..3
         /\ \A i, j \in DOMAIN pending : pending[i] = pending[j] => i = j
         /\ pc \in {"seed_nodes", "running", "close_all", "exited", "halted"} => pending = <<>>
         /\ pc = "seed_open" => Len(pending) \in 0..2
         /\ pc = "seed_install" => Len(pending) = 3
         /\ pc \in {"install", "exec_close"} => Len(pending) = 1
<1>1. pending \in Seq(Files) /\ PendingInv
  BY DEF FInv, Core, HandlerTypes, Stages
<1>2. PICK n \in Nat : n = Len(pending)
  BY <1>1
<1>3. n <= 3
  BY <1>1, <1>2, Zenon DEF PendingInv
<1>4. pc = "seed_open" => n < 3
  BY <1>1, <1>2, Zenon DEF PendingInv
<1>5. \A i, j \in DOMAIN pending : pending[i] = pending[j] => i = j
  BY <1>1, Zenon DEF PendingInv
<1>6. /\ pc \in {"seed_nodes", "running", "close_all", "exited", "halted"} => pending = <<>>
      /\ pc = "seed_install" => Len(pending) = 3
      /\ pc \in {"install", "exec_close"} => Len(pending) = 1
  BY <1>1, Zenon DEF PendingInv
<1>7. n \in 0..3 /\ (pc = "seed_open" => n \in 0..2)
  BY <1>3, <1>4
<1> QED BY <1>1, <1>2, <1>5, <1>6, <1>7, Zenon

LEMMA SeedOpenInv == ASSUME FInv, SeedOpen PROVE FInv'
<1>0. /\ Core /\ Objects /\ ObjectTypes /\ heapSize \in HeapSizes /\ pc = "seed_open"
      /\ task \in Tasks /\ pending \in Seq(Files) /\ Len(pending) \in 0..2
      /\ UNCHANGED <<heapSize, table, task, index, seedIn, seedOut, execing>>
      /\ \A i, j \in DOMAIN pending : pending[i] = pending[j] => i = j
  <2>1. Core /\ Objects /\ ObjectTypes /\ HandlerTypes /\ PendingInv
    BY DEF FInv, Core, Objects, Stages
  <2>2. /\ pc = "seed_open"
        /\ UNCHANGED <<heapSize, table, task, index, seedIn, seedOut, execing>>
    BY DEF SeedOpen
  <2>3. heapSize \in HeapSizes /\ task \in Tasks /\ pending \in Seq(Files)
    BY <2>1 DEF HandlerTypes
  <2>4. /\ Len(pending) \in 0..2
        /\ \A i, j \in DOMAIN pending : pending[i] = pending[j] => i = j
    BY <2>2, PendingFacts
  <2> QED BY <2>1, <2>2, <2>3, <2>4
<1>1. HeapFree \in Int /\ HeapUsed \in Nat /\ heapSize \in Nat /\ HeapFree = heapSize - HeapUsed
  BY <1>0, HeapNumbers DEF HeapFree
<1>2. CASE HeapFree < 1
  <2>1. ~execing
    BY <1>0, <1>1, <1>2, ExecHasRoom
  <2>2. pc' = "seed_unwind" /\ Paused
    BY <1>0, <1>2 DEF SeedOpen, Paused
  <2>3. HandlerTypes'
    BY <1>0, <2>2 DEF Core, HandlerTypes, Paused
  <2>4. Core'
    BY <2>2, <2>3, PausedCore
  <2>5. Stages'
    BY <1>0, <2>1, <2>2 DEF FInv, Stages, PendingInv, TableInv, SeedInv, LeakInv, IdleInv, RoomInv,
         Seeding, Serving, Paused, files
  <2> QED BY <2>4, <2>5 DEF FInv
<1>3. CASE ~(HeapFree < 1)
  <2>0. PICK f, node : f = NewFile /\ node = SeedNode
    OBVIOUS
  <2>1. /\ MakeFile(f, node, nodeOps[node])
        /\ pending' = Append(pending, f)
        /\ pc' = IF Len(pending) = 2 THEN "seed_install" ELSE "seed_open"
    BY <1>3, <2>0 DEF SeedOpen
  <2>2. f \in Files \ LiveFiles
    BY <1>0, <1>1, <1>3, <2>0, NewFileFacts
  <2>3. /\ seedIn \in heapNodes /\ seedOut \in heapNodes /\ seedIn # seedOut
        /\ seedIn \notin consumed
        /\ node = IF pending = <<>> THEN seedIn ELSE seedOut
        /\ \A i \in DOMAIN pending : fileNode[pending[i]] = IF i = 1 THEN seedIn ELSE seedOut
    BY <1>0, <2>0 DEF FInv, Stages, SeedInv, SeedNode
  <2>4. Objects' /\ Made(f, node)
    BY <1>0, <2>1, <2>2, <2>3, MakeFileObjects
  <2>5. f \notin Pending
    BY <1>0, <2>2, HeldIsLive
  <2>6. /\ pending' \in Seq(Files) /\ Len(pending') = Len(pending) + 1
        /\ DOMAIN pending' = 1..(Len(pending) + 1) /\ DOMAIN pending = 1..Len(pending)
        /\ \A i \in 1..Len(pending) : pending'[i] = pending[i]
        /\ pending'[Len(pending) + 1] = f
        /\ Range(pending') = Range(pending) \cup {f}
        /\ \A i, j \in DOMAIN pending' : pending'[i] = pending'[j] => i = j
    BY <1>0, <2>1, <2>2, <2>5, AppendFacts DEF Pending
  <2>7. HandlerTypes'
    BY <1>0, <2>1, <2>6 DEF Core, HandlerTypes
  <2>8. FileInv'
    BY <1>0, <2>2, <2>4, <2>6, MadeFiles DEF Pending
  <2>9. Core'
    BY <2>4, <2>7, <2>8 DEF Core
  <2>10. PendingInv'
    BY <1>0, <2>1, <2>6 DEF PendingInv
  <2>11. TableInv'
    BY <1>0, <2>1 DEF FInv, Stages, TableInv, Seeding
  <2>12. IdleInv'
    <3>1. \A g \in LiveFiles : fileNode'[g] = fileNode[g]
      BY <2>2, <2>4 DEF Made, LiveFiles
    <3> QED BY <1>0, <2>9, <3>1, IdleKept
  <2>13. \A i \in DOMAIN pending' : fileNode'[pending'[i]] = IF i = 1 THEN seedIn ELSE seedOut
    <3>1. ASSUME NEW i \in 1..Len(pending)
          PROVE  fileNode'[pending'[i]] = IF i = 1 THEN seedIn ELSE seedOut
      <4>1. pending[i] \in LiveFiles /\ pending[i] \in Files \ {f}
        BY <1>0, <2>2, <2>6, HeldIsLive DEF Pending, Range, LiveFiles
      <4> QED BY <2>3, <2>4, <2>6, <4>1 DEF Made
    <3>2. fileNode'[pending'[Len(pending) + 1]] =
             IF Len(pending) + 1 = 1 THEN seedIn ELSE seedOut
      <4>1. pending = <<>> <=> Len(pending) = 0
        BY <1>0
      <4> QED BY <1>0, <2>3, <2>4, <2>6, <4>1 DEF Made
    <3> QED BY <1>0, <2>6, <3>1, <3>2
  <2>14. SeedInv'
    BY <1>0, <2>3, <2>4, <2>13 DEF SeedInv, Made
  <2>15. LeakInv'
    <3>1. \A n \in heapNodes : nodeRefs[n] > 0 => nodeRefs'[n] > 0
      BY <1>0, <2>4 DEF Made, ObjectTypes, Nodes
    <3>2. \A n \in heapNodes' \ {seedIn', seedOut'} : nodeRefs'[n] > 0
      BY <1>0, <2>4, <3>1 DEF FInv, Stages, LeakInv, Made
    <3>3. ASSUME pc' = "seed_install" PROVE nodeRefs'[seedIn] > 0 /\ nodeRefs'[seedOut] > 0
      <4>1. 1 \in DOMAIN pending' /\ 2 \in DOMAIN pending'
        BY <1>0, <2>1, <2>6, <3>3
      <4>2. fileNode'[pending'[1]] = seedIn /\ fileNode'[pending'[2]] = seedOut
        BY <2>13, <4>1
      <4>3. Pending' \subseteq LiveFiles'
        BY <2>9, HeldNext
      <4>4. pending'[1] \in LiveFiles' /\ pending'[2] \in LiveFiles'
        BY <4>1, <4>3 DEF Pending, Range
      <4> QED BY <2>4, <4>2, <4>4, HeldNext
    <3> QED BY <1>0, <2>1, <3>2, <3>3 DEF LeakInv
  <2>16. RoomInv'
    <3>1. HeapUsed' = HeapUsed + 1
      BY <1>0, <2>4, HeapNumbers DEF HeapUsed, Made
    <3>2. SeedUse' = SeedUse + 1 /\ SeedUse \in Nat
      BY <1>0, <2>1, <2>6 DEF SeedUse, Tasks
    <3>3. HeapUsed + 1 <= heapSize
      BY <1>1, <1>3
    <3> QED BY <1>0, <1>1, <2>1, <3>1, <3>2, <3>3 DEF FInv, Stages, RoomInv, Seeding, Serving
  <2> QED BY <2>9, <2>10, <2>11, <2>12, <2>14, <2>15, <2>16 DEF FInv, Stages
<1> QED BY <1>2, <1>3

LEMMA SeedUnwindInv == ASSUME FInv, SeedUnwind PROVE FInv'
<1>0. Core /\ Objects /\ HandlerTypes /\ FileInv /\ pc = "seed_unwind"
  BY DEF FInv, Core, SeedUnwind
<1>1. /\ UNCHANGED <<heapSize, table, task, index, seedIn, seedOut, execing>>
      /\ ~execing
  BY <1>0 DEF FInv, Stages, TableInv, Seeding, SeedUnwind
<1>2. CASE pending = <<>>
  <2>1. pc' = "halted" /\ Paused
    BY <1>1, <1>2 DEF SeedUnwind, SeedFailed, Booting, Paused
  <2>2. HandlerTypes'
    BY <1>0, <2>1 DEF HandlerTypes, Paused
  <2>3. Core'
    BY <2>1, <2>2, PausedCore
  <2>4. PendingInv'
    <3>1. Len(<<>>) = 0 /\ DOMAIN <<>> = {}
      OBVIOUS
    <3> QED BY <1>2, <2>1, <3>1 DEF PendingInv, Paused
  <2>5. Stages'
    BY <1>0, <1>1, <2>1, <2>4 DEF FInv, Stages, TableInv, SeedInv, LeakInv, IdleInv, RoomInv,
         Seeding, Serving, Paused, files
  <2> QED BY <2>3, <2>5 DEF FInv
<1>3. CASE pending # <<>>
  <2>0. PICK f : f = Head(pending)
    OBVIOUS
  <2>1. CloseFile(f) /\ pending' = Tail(pending) /\ pc' = "seed_unwind"
    BY <1>0, <1>3, <2>0 DEF SeedUnwind
  <2>2. /\ pending' \in Seq(Files) /\ f \in Files /\ f \in Range(pending)
        /\ Len(pending') = Len(pending) - 1
        /\ Range(pending') = Range(pending) \ {f}
        /\ \A i, j \in DOMAIN pending' : pending'[i] = pending'[j] => i = j
    BY <1>3, <2>0, <2>1, PendingFacts, TailFacts
  <2>3. f \in LiveFiles /\ f \in Pending /\ Pending' = Pending \ {f}
    BY <1>0, <2>2, HeldIsLive DEF Pending
  <2>4. Objects' /\ Closed(f)
    BY <1>0, <2>1, <2>3, CloseFileObjects
  <2>5. FileInv'
    BY <1>0, <1>1, <2>3, <2>4, DroppedFiles
  <2>6. HandlerTypes'
    BY <1>0, <1>1, <2>1, <2>2 DEF HandlerTypes
  <2>7. Core'
    BY <2>4, <2>5, <2>6 DEF Core
  <2>8. PendingInv'
    <3>1. Len(pending') <= 3
      BY <2>2, PendingFacts
    <3> QED BY <2>1, <2>2, <3>1, Zenon DEF PendingInv
  <2>9. IdleInv'
    BY <1>1, <2>4, <2>7, IdleKept DEF Closed
  <2>10. TableInv' /\ SeedInv' /\ LeakInv' /\ RoomInv'
    BY <1>0, <1>1, <2>1 DEF FInv, Stages, TableInv, SeedInv, LeakInv, RoomInv, Seeding, Serving
  <2> QED BY <2>7, <2>8, <2>9, <2>10 DEF FInv, Stages
<1> QED BY <1>2, <1>3

(* What fd_table_seed_console leaves in the table: descriptors 0, 1 and 2. *)
LEMMA InstalledTable ==
  ASSUME FInv, SeedInstall
  PROVE  /\ \A d \in Fds : d \in Nat /\ (d < 3 => d \in 0..2)
         /\ \A d \in 0..2 : d \in Fds /\ d < 3 /\ d + 1 \in 1..3
         /\ \A i \in 1..3 : pending[i] \in Files /\ i \in DOMAIN pending
         /\ table \in [Tasks -> [Fds -> Files \cup {NoFile}]]
         /\ \A d \in Fds : table[task][d] = NoFile
         /\ \A d \in 0..2 : table'[task][d] = pending[d + 1]
         /\ \A d \in Fds : ~(d < 3) => table'[task][d] = NoFile
         /\ \A t \in Tasks : t # task => table'[t] = table[t]
<1>0. Core /\ Objects /\ HandlerTypes /\ Stages /\ pc = "seed_install" /\ task \in Tasks
  BY DEF FInv, Core, HandlerTypes, SeedInstall
<1>1. /\ table' = [table EXCEPT ![task] =
                      [d \in Fds |-> IF d < 3 THEN pending[d + 1] ELSE @[d]]]
      /\ pending' = <<>> /\ execing' = FALSE
      /\ task = 0 => task' = 1 /\ pc' = "seed_nodes"
      /\ task = 1 => task' = 1 /\ pc' = "running"
      /\ UNCHANGED <<heapSize, files, nodes, index, seedIn, seedOut>>
  BY <1>0 DEF SeedInstall, Tasks
<1>2. task = 0 \/ task = 1
  BY <1>0 DEF Tasks
<1>3. /\ \A d \in Fds : d \in Nat /\ (d < 3 => d \in 0..2)
      /\ \A d \in 0..2 : d \in Fds /\ d < 3 /\ d + 1 \in 1..3
      /\ \A i \in 1..3 : pending[i] \in Files /\ i \in DOMAIN pending
  <2>1. Len(pending) = 3 /\ pending \in Seq(Files)
    BY <1>0, PendingFacts
  <2>2. \A i \in 1..3 : pending[i] \in Files /\ i \in DOMAIN pending
    <3>1. DOMAIN pending = 1..Len(pending) /\ \A i \in 1..Len(pending) : pending[i] \in Files
      <4>1. \A s \in Seq(Files) : DOMAIN s = 1..Len(s) /\ \A i \in 1..Len(s) : s[i] \in Files
        OBVIOUS
      <4> QED BY <2>1, <4>1, Zenon
    <3> QED BY <2>1, <3>1, Zenon
  <2>3. \A d \in Fds : d \in Nat /\ (d < 3 => d \in 0..2)
    BY FileTableAssumption DEF Fds
  <2>4. \A d \in 0..2 : d \in Fds /\ d < 3 /\ d + 1 \in 1..3
    BY FileTableAssumption DEF Fds
  <2> QED BY <2>2, <2>3, <2>4
<1>4. /\ table \in [Tasks -> [Fds -> Files \cup {NoFile}]]
      /\ \A d \in Fds : table[task][d] = NoFile
  BY <1>0 DEF HandlerTypes, Stages, TableInv, Seeding
<1>5. /\ \A d \in 0..2 : table'[task][d] = pending[d + 1]
      /\ \A d \in Fds : ~(d < 3) => table'[task][d] = NoFile
      /\ \A t \in Tasks : t # task => table'[t] = table[t]
  BY <1>0, <1>1, <1>3, <1>4
<1> QED BY <1>3, <1>4, <1>5

LEMMA SeedInstallInv == ASSUME FInv, SeedInstall PROVE FInv'
<1>0. Core /\ Objects /\ HandlerTypes /\ Stages /\ pc = "seed_install" /\ task \in Tasks
  BY DEF FInv, Core, HandlerTypes, SeedInstall
<1>1. /\ table' = [table EXCEPT ![task] =
                      [d \in Fds |-> IF d < 3 THEN pending[d + 1] ELSE @[d]]]
      /\ pending' = <<>> /\ execing' = FALSE
      /\ task = 0 => task' = 1 /\ pc' = "seed_nodes"
      /\ task = 1 => task' = 1 /\ pc' = "running"
      /\ UNCHANGED <<heapSize, files, nodes, index, seedIn, seedOut>>
  BY <1>0 DEF SeedInstall, Tasks
<1>2. task = 0 \/ task = 1
  BY <1>0 DEF Tasks
<1>3. /\ \A d \in Fds : d \in Nat /\ (d < 3 => d \in 0..2)
      /\ \A d \in 0..2 : d \in Fds /\ d < 3 /\ d + 1 \in 1..3
      /\ \A i \in 1..3 : pending[i] \in Files /\ i \in DOMAIN pending
  BY InstalledTable
<1>4. /\ table \in [Tasks -> [Fds -> Files \cup {NoFile}]]
      /\ \A d \in Fds : table[task][d] = NoFile
  BY InstalledTable
<1>5. /\ \A d \in 0..2 : table'[task][d] = pending[d + 1]
      /\ \A d \in Fds : ~(d < 3) => table'[task][d] = NoFile
      /\ \A t \in Tasks : t # task => table'[t] = table[t]
  BY InstalledTable
<1>6. table' \in [Tasks -> [Fds -> Files \cup {NoFile}]]
  <2>1. [d \in Fds |-> IF d < 3 THEN pending[d + 1] ELSE table[task][d]] \in
            [Fds -> Files \cup {NoFile}]
    BY <1>0, <1>3, <1>4
  <2> QED BY <1>0, <1>1, <1>4, <2>1
<1>7. HandlerTypes'
  <2>1. <<>> \in Seq(Files)
    OBVIOUS
  <2> QED BY <1>0, <1>1, <1>2, <1>6, <2>1 DEF HandlerTypes, Tasks
<1>8. Core'
  BY <1>0, <1>1, <1>7, SeedInstallFiles, ObjectsKept DEF Core
<1>9. PendingInv'
  <2>1. Len(<<>>) = 0 /\ DOMAIN <<>> = {}
    OBVIOUS
  <2> QED BY <1>1, <1>2, <2>1 DEF PendingInv
<1>10. TableInv'
  <2>1. index = 0 /\ (task = 0 => \A d \in Fds : table[1][d] = NoFile)
    BY <1>0 DEF Stages, TableInv
  <2>2. task = 0 => \A d \in Fds : table'[1][d] = NoFile
    BY <1>5, <2>1 DEF Tasks
  <2>3. index' = 0 /\ task' = 1 /\ execing' = FALSE
    BY <1>1, <1>2, <2>1
  <2>4. pc' \in {"seed_nodes", "running"} /\ (pc' = "seed_nodes" => task = 0)
    BY <1>1, <1>2
  <2> QED BY <2>2, <2>3, <2>4 DEF TableInv, Seeding
<1>11. SeedInv' /\ LeakInv'
  BY <1>0, <1>1, <1>2 DEF Stages, SeedInv, LeakInv, nodes
<1>12. IdleInv'
  <2>1. CASE task = 0
    <3>1. \A d \in 0..2 : table'[0][d] \in Files
      BY <1>3, <1>5, <2>1
    <3>2. table'[0][1] = pending[2] /\ table'[0][2] = pending[3]
      <4>1. table'[0][1] = pending[1 + 1] /\ table'[0][2] = pending[2 + 1]
        BY <1>5, <2>1
      <4> QED BY <4>1
    <3>3. fileNode[pending[2]] = seedOut /\ fileNode[pending[3]] = seedOut
      BY <1>0, <1>3 DEF Stages, SeedInv
    <3>4. \A d \in Fds : d > 2 => table'[0][d] = NoFile
      BY <1>3, <1>5, <2>1
    <3> QED BY <1>1, <3>1, <3>2, <3>3, <3>4, FileSets DEF IdleInv, files
  <2>2. CASE task = 1
    <3>1. table'[0] = table[0]
      BY <1>5, <2>2 DEF Tasks
    <3> QED BY <1>0, <1>1, <2>2, <3>1 DEF Stages, IdleInv, files
  <2> QED BY <1>2, <2>1, <2>2
<1>13. RoomInv'
  <2>1. HeapUsed' = HeapUsed /\ HeapUsed \in Nat /\ heapSize \in Nat
    BY <1>0, <1>1, HeapNumbers DEF HeapUsed, LiveFiles, files, nodes
  <2>2. Len(pending) = 3 /\ Len(pending') = 0
    BY <1>0, <1>1, PendingFacts
  <2>3. SeedUse = 7 * task + 7
    BY <1>0, <1>2, <2>2 DEF SeedUse
  <2>4. CASE task = 0
    <3>1. SeedUse' = 7 /\ SeedUse = 7
      BY <1>1, <2>2, <2>3, <2>4 DEF SeedUse
    <3>2. ~execing
      BY <1>0, <2>4 DEF Stages, TableInv
    <3>3. SeedUse <= heapSize /\ HeapUsed = SeedUse
      BY <1>0, <3>2 DEF Stages, RoomInv, Seeding
    <3> QED BY <1>1, <2>1, <2>4, <3>1, <3>3 DEF RoomInv, Seeding, Serving
  <2>5. CASE task = 1
    <3>1. heapSize >= 14
      <4>1. CASE execing
        BY <1>0, <4>1 DEF Stages, RoomInv
      <4>2. CASE ~execing
        <5>1. SeedUse <= heapSize
          BY <1>0, <4>2 DEF Stages, RoomInv, Seeding
        <5> QED BY <2>1, <2>3, <2>5, <5>1
      <4> QED BY <4>1, <4>2
    <3> QED BY <1>1, <2>5, <3>1 DEF RoomInv, Seeding
  <2> QED BY <1>2, <2>4, <2>5
<1> QED BY <1>8, <1>9, <1>10, <1>11, <1>12, <1>13 DEF FInv, Stages

-----------------------------------------------------------------------------
(* System calls *)

(* While the user task is served, it is the one at work and no node leaks. *)
LEMMA ServingFacts ==
  ASSUME FInv, pc \in Serving
  PROVE  /\ Core /\ Objects /\ ObjectTypes /\ HandlerTypes /\ FileInv
         /\ task = 1 /\ heapSize >= 14
         /\ \A n \in heapNodes : nodeRefs[n] > 0
         /\ pc # "close_all" => index = 0 /\ ~execing
<1>1. Core /\ Objects /\ ObjectTypes /\ HandlerTypes /\ FileInv
  BY DEF FInv, Core, Objects
<1>2. task = 1 /\ heapSize >= 14
  BY DEF FInv, Stages, RoomInv
<1>3. \A n \in heapNodes : nodeRefs[n] > 0
  BY DEF FInv, Stages, LeakInv, Serving
<1>4. pc # "close_all" => index = 0 /\ ~execing
  BY DEF FInv, Stages, TableInv, Serving, Seeding
<1> QED BY <1>1, <1>2, <1>3, <1>4

(* What a step of a system call must keep. *)
LEMMA ServingStep ==
  ASSUME FInv, Core', pc \in Serving, pc' \in Serving, UNCHANGED <<heapSize, task>>,
         table'[0] = table[0],
         \A f \in LiveFiles \cap LiveFiles' : fileNode'[f] = fileNode[f],
         \A n \in heapNodes' : nodeRefs'[n] > 0,
         PendingInv', TableInv'
  PROVE  FInv'
<1>1. task = 1 /\ heapSize >= 14
  BY ServingFacts
<1>2. IdleInv'
  BY IdleKept
<1>3. SeedInv' /\ LeakInv'
  BY DEF SeedInv, LeakInv, Serving
<1>4. RoomInv'
  BY <1>1 DEF RoomInv, Seeding, Serving
<1> QED BY <1>2, <1>3, <1>4 DEF FInv, Stages

(* TableInv of a step that is not in fd_table_close_all. *)
LEMMA QuietTable ==
  ASSUME FInv, pc \in Serving, pc # "close_all", UNCHANGED <<task, index, execing>>,
         pc' \in Serving \ {"close_all", "exited"}
  PROVE  TableInv'
<1>1. task = 1 /\ index = 0 /\ ~execing
  BY ServingFacts
<1>2. task' = 1 /\ index' = 0 /\ ~execing'
  BY <1>1
<1> QED BY <1>2 DEF TableInv, Serving, Seeding

LEMMA NoPending ==
  ASSUME pending' = <<>>,
         pc' \in {"seed_nodes", "running", "close_all", "exited", "halted"}
  PROVE  PendingInv'
<1>1. Len(<<>>) = 0 /\ DOMAIN <<>> = {}
  OBVIOUS
<1> QED BY <1>1 DEF PendingInv

LEMMA HoldsOne ==
  ASSUME NEW f \in Files, pending' = <<f>>, pc' \in {"install", "exec_close"}
  PROVE  PendingInv'
<1>1. Len(<<f>>) = 1 /\ \A i, j \in DOMAIN <<f>> : i = j
  OBVIOUS
<1> QED BY <1>1 DEF PendingInv

(* SYS_OPEN and the open of SYS_EXEC. *)
LEMMA OpenedInv ==
  ASSUME FInv, pc = "running", HeapFree >= 1, NEW node \in StaticNodes,
         NEW access, access \subseteq nodeOps[node], MakeFile(NewFile, node, access),
         pending' = <<NewFile>>, pc' \in {"install", "exec_close"},
         UNCHANGED <<heapSize, table, task, index, seedIn, seedOut, execing>>
  PROVE  FInv'
<1>0. PICK f : f = NewFile
  OBVIOUS
<1>1. /\ Core /\ Objects /\ ObjectTypes /\ HandlerTypes /\ FileInv
      /\ \A n \in heapNodes : nodeRefs[n] > 0
      /\ pc \in Serving /\ pc # "close_all"
  BY ServingFacts DEF Serving
<1>2. heapSize \in HeapSizes /\ pending = <<>>
  BY <1>1, PendingFacts DEF HandlerTypes
<1>3. f \in Files \ LiveFiles
  BY <1>0, <1>1, <1>2, NewFileFacts
<1>4. MakeFile(f, node, access) /\ pending' = <<f>>
  BY <1>0
<1>5. Objects' /\ Made(f, node)
  BY <1>1, <1>3, <1>4, MakeFileObjects
<1>6. Pending' = Pending \cup {f} /\ pending' \in Seq(Files)
  BY <1>2, <1>3, <1>4, OnePending DEF Pending
<1>7. FileInv'
  BY <1>1, <1>3, <1>5, <1>6, MadeFiles
<1>8. HandlerTypes'
  BY <1>1, <1>6 DEF HandlerTypes
<1>9. Core'
  BY <1>5, <1>7, <1>8 DEF Core
<1>10. PendingInv'
  BY <1>3, <1>4, HoldsOne
<1>11. TableInv'
  BY <1>1, QuietTable DEF Serving
<1>12. \A g \in LiveFiles : fileNode'[g] = fileNode[g]
  BY <1>3, <1>5 DEF Made, LiveFiles
<1>13. \A n \in heapNodes' : nodeRefs'[n] > 0
  BY <1>1, <1>5 DEF Made, ObjectTypes, Nodes
<1>14. pc' \in Serving
  BY DEF Serving
<1> QED BY <1>1, <1>9, <1>10, <1>11, <1>12, <1>13, <1>14, ServingStep

LEMMA SysOpenInv ==
  ASSUME FInv, NEW node \in StaticNodes, NEW access, SysOpen(node, access)
  PROVE  FInv'
<1>1. access \subseteq nodeOps[node]
  BY DEF SysOpen, Openable
<1> QED BY <1>1, OpenedInv DEF SysOpen

LEMMA SysExecInv == ASSUME FInv, SysExec PROVE FInv'
<1>1. Executable \in StaticNodes /\ {} \subseteq nodeOps[Executable]
  BY DEF StaticNodes
<1> QED BY <1>1, OpenedInv DEF SysExec

(* A descriptor and what it leads to. *)
LEMMA UsedIsLive ==
  ASSUME FInv, pc \in Serving, NEW d \in Fds, Used(d)
  PROVE  table[task][d] \in LiveFiles /\ table[task][d] \in Files
<1>1. Core /\ task \in Tasks
  BY ServingFacts DEF HandlerTypes
<1>2. table[task][d] \in LiveFiles
  BY <1>1, HeldIsLive DEF Used
<1> QED BY <1>2 DEF LiveFiles

LEMMA SysDupInv == ASSUME FInv, NEW d \in Fds, SysDup(d) PROVE FInv'
<1>0. PICK f : f = table[task][d]
  OBVIOUS
<1>1. /\ Core /\ Objects /\ ObjectTypes /\ HandlerTypes /\ FileInv
      /\ \A n \in heapNodes : nodeRefs[n] > 0
      /\ pc \in Serving /\ pc = "running"
  BY ServingFacts DEF Serving, SysDup
<1>2. /\ fileRefs' = [fileRefs EXCEPT ![f] = @ + 1] /\ pending' = <<f>> /\ pc' = "install"
      /\ UNCHANGED <<heapSize, table, fileNode, fileAccess, offset, nodes, task, index,
                     seedIn, seedOut, execing>>
  BY <1>0 DEF SysDup
<1>3. f \in LiveFiles /\ f \in Files
  BY <1>0, <1>1, UsedIsLive DEF SysDup
<1>4. /\ fileRefs'[f] = fileRefs[f] + 1 /\ \A g \in Files \ {f} : fileRefs'[g] = fileRefs[g]
      /\ fileRefs' \in [Files -> Nat] /\ fileRefs[f] \in Nat
  BY <1>1, <1>2, <1>3 DEF ObjectTypes
<1>5. LiveFiles' = LiveFiles
  BY <1>3, <1>4 DEF LiveFiles
<1>6. Objects'
  <2>1. ObjectTypes'
    BY <1>1, <1>2, <1>4 DEF ObjectTypes, nodes
  <2>2. NodeRefsExact' /\ NoDanglingNode' /\ NodeInv'
    BY <1>1, <1>2, <1>5 DEF Objects, NodeRefsExact, NoDanglingNode, NodeInv, nodes
  <2> QED BY <2>1, <2>2 DEF Objects
<1>7. Pending = {} /\ Pending' = {f} /\ pending' \in Seq(Files)
  BY <1>1, <1>2, <1>3, PendingFacts, OnePending DEF Pending
<1>8. FileInv'
  <2>1. ASSUME NEW g \in Files
        PROVE  fileRefs'[g] = Count(table, g) + (IF g \in Pending' THEN 1 ELSE 0)
    <3>1. fileRefs[g] = Count(table, g) /\ Count(table, g) \in Nat
      BY <1>1, <1>7, CoreCounts
    <3>2. CASE g = f
      BY <1>4, <1>7, <3>1, <3>2
    <3>3. CASE g # f
      BY <1>4, <1>7, <3>1, <3>3
    <3> QED BY <3>2, <3>3
  <2> QED BY <1>2, <2>1, NextCounts
<1>9. HandlerTypes'
  BY <1>1, <1>2, <1>7 DEF HandlerTypes
<1>10. Core'
  BY <1>6, <1>8, <1>9 DEF Core
<1>11. PendingInv' /\ TableInv' /\ pc' \in Serving
  BY <1>1, <1>2, <1>3, HoldsOne, QuietTable DEF Serving
<1>12. \A n \in heapNodes' : nodeRefs'[n] > 0
  BY <1>1, <1>2 DEF nodes
<1> QED BY <1>1, <1>2, <1>10, <1>11, <1>12, ServingStep

(* A step of a system call that closes a file. *)
LEMMA ClosedStep ==
  ASSUME FInv, pc \in Serving, pc' \in Serving, NEW f \in LiveFiles, CloseFile(f),
         FileInv', HandlerTypes', PendingInv', TableInv',
         UNCHANGED <<heapSize, task>>, table'[0] = table[0]
  PROVE  FInv'
<1>1. Core /\ Objects /\ \A n \in heapNodes : nodeRefs[n] > 0
  BY ServingFacts
<1>2. Objects' /\ Closed(f)
  BY <1>1, CloseFileObjects
<1>3. Core'
  BY <1>2 DEF Core
<1>4. /\ \A g \in LiveFiles \cap LiveFiles' : fileNode'[g] = fileNode[g]
      /\ \A n \in heapNodes' : nodeRefs'[n] > 0
  BY <1>1, <1>2 DEF Closed
<1> QED BY <1>3, <1>4, ServingStep

(* The handler drops the file it holds. *)
LEMMA DroppedInv ==
  ASSUME FInv, pc \in {"install", "exec_close"}, CloseFile(pending[1]), pending' = <<>>,
         pc' \in Serving, HandlerTypes', PendingInv', TableInv', UNCHANGED <<heapSize, task, table>>
  PROVE  FInv'
<1>0. PICK f : f = pending[1]
  OBVIOUS
<1>1. Core /\ Objects /\ pc \in Serving
  BY ServingFacts DEF Serving
<1>2. pending \in Seq(Files) /\ Len(pending) = 1
  BY PendingFacts
<1>3. Pending = {f} /\ Pending' = {}
  BY <1>0, <1>2, OnePending DEF Pending
<1>4. f \in LiveFiles
  BY <1>1, <1>3, HeldIsLive
<1>5. CloseFile(f)
  BY <1>0
<1>6. Closed(f)
  BY <1>1, <1>4, <1>5, CloseFileObjects
<1>7. FileInv'
  BY <1>1, <1>3, <1>6, DroppedFiles
<1> QED BY <1>1, <1>4, <1>5, <1>7, ClosedStep

LEMMA InstallInv == ASSUME FInv, Install PROVE FInv'
<1>1. /\ Core /\ Objects /\ HandlerTypes /\ FileInv /\ task = 1
      /\ \A n \in heapNodes : nodeRefs[n] > 0
      /\ pc \in Serving /\ pc = "install"
  BY ServingFacts DEF Serving, Install
<1>2. /\ pending' = <<>> /\ pc' = "running"
      /\ UNCHANGED <<heapSize, task, index, seedIn, seedOut, execing>>
  BY DEF Install
<1>3. PendingInv' /\ TableInv' /\ pc' \in Serving
  BY <1>1, <1>2, NoPending, QuietTable DEF Serving
<1>4. CASE Unused = {}
  <2>1. CloseFile(pending[1]) /\ UNCHANGED table
    BY <1>4 DEF Install
  <2>2. HandlerTypes'
    <3>1. <<>> \in Seq(Files)
      OBVIOUS
    <3> QED BY <1>1, <1>2, <2>1, <3>1 DEF HandlerTypes
  <2> QED BY <1>1, <1>2, <1>3, <2>1, <2>2, DroppedInv
<1>5. CASE Unused # {}
  <2>0. PICK d, f : d = LowestUnused /\ f = pending[1]
    OBVIOUS
  <2>1. table' = [table EXCEPT ![task][d] = f] /\ UNCHANGED <<files, nodes>>
    BY <1>5, <2>0 DEF Install
  <2>2. d \in Unused
    <3>1. Unused \subseteq Nat
      BY FileTableAssumption DEF Unused, Fds
    <3>2. \E x \in Unused : \A y \in Unused : x <= y
      BY <1>5, <3>1, LeastElement
    <3> QED BY <2>0, <3>2 DEF LowestUnused
  <2>3. d \in Fds /\ table[task][d] = NoFile /\ task \in Tasks
    BY <1>1, <2>2 DEF Unused, Used, HandlerTypes
  <2>4. Pending = {f} /\ Pending' = {} /\ f \in Files
    BY <1>1, <1>2, <2>0, PendingFacts, OnePending DEF Pending
  <2>5. FileInv'
    BY <1>1, <2>1, <2>3, <2>4, InstalledFiles DEF files
  <2>6. Objects'
    BY <1>1, <2>1, ObjectsKept
  <2>7. HandlerTypes'
    <3>1. <<>> \in Seq(Files)
      OBVIOUS
    <3>2. table' \in [Tasks -> [Fds -> Files \cup {NoFile}]]
      BY <1>1, <2>1, <2>3, <2>4 DEF HandlerTypes
    <3> QED BY <1>1, <1>2, <3>1, <3>2 DEF HandlerTypes
  <2>8. Core'
    BY <2>5, <2>6, <2>7 DEF Core
  <2>9. table'[0] = table[0]
    BY <1>1, <2>1 DEF HandlerTypes, Tasks
  <2> QED BY <1>1, <1>2, <1>3, <2>1, <2>8, <2>9, ServingStep DEF files, nodes
<1> QED BY <1>4, <1>5

LEMMA ExecCloseImageInv == ASSUME FInv, ExecCloseImage PROVE FInv'
<1>1. HandlerTypes /\ task = 1 /\ index = 0 /\ ~execing /\ pc = "exec_close" /\ pc \in Serving
  BY ServingFacts DEF Serving, ExecCloseImage
<1>2. /\ CloseFile(pending[1]) /\ pending' = <<>>
      /\ UNCHANGED <<heapSize, table, task, index, seedIn, seedOut>>
      /\ \/ pc' = "running" /\ execing' = execing
         \/ pc' = "close_all" /\ execing' = TRUE
  BY DEF ExecCloseImage
<1>3. HandlerTypes'
  <2>1. <<>> \in Seq(Files)
    OBVIOUS
  <2> QED BY <1>1, <1>2, <2>1 DEF HandlerTypes
<1>4. PendingInv' /\ pc' \in Serving
  BY <1>2, NoPending DEF Serving
<1>5. TableInv'
  <2>1. task' = 1 /\ index' = 0
    BY <1>1, <1>2
  <2>2. \A d \in Fds : ~(d < 0)
    BY FileTableAssumption DEF Fds
  <2> QED BY <1>1, <1>2, <2>1, <2>2 DEF TableInv, Seeding
<1> QED BY <1>1, <1>2, <1>3, <1>4, <1>5, DroppedInv

LEMMA SysExitInv == ASSUME FInv, SysExit PROVE FInv'
<1>1. /\ Core /\ Objects /\ HandlerTypes /\ FileInv /\ task = 1 /\ index = 0 /\ ~execing
      /\ \A n \in heapNodes : nodeRefs[n] > 0
      /\ pc \in Serving /\ pc = "running"
  BY ServingFacts DEF Serving, SysExit
<1>2. pc' = "close_all" /\ pc' \in Serving /\ Paused
  BY DEF SysExit, Paused, locals, Serving
<1>3. HandlerTypes'
  BY <1>1, <1>2 DEF HandlerTypes, Paused
<1>4. Core'
  BY <1>2, <1>3, PausedCore
<1>5. PendingInv'
  BY <1>1, <1>2, PendingFacts, NoPending DEF Paused
<1>6. TableInv'
  <2>1. task' = 1 /\ index' = 0 /\ ~execing'
    BY <1>1, <1>2 DEF Paused
  <2>2. \A d \in Fds : ~(d < 0)
    BY FileTableAssumption DEF Fds
  <2> QED BY <1>2, <2>1, <2>2 DEF TableInv, Seeding
<1> QED BY <1>1, <1>2, <1>4, <1>5, <1>6, ServingStep DEF Paused, files, nodes

(* fd_table_close of a descriptor that is in use. *)
LEMMA CloseEntryInv ==
  ASSUME FInv, pc \in {"running", "close_all"}, NEW d \in Fds, Used(d), CloseEntry(d),
         UNCHANGED <<pc, heapSize, task, pending, seedIn, seedOut, execing>>,
         index' \in 0..FdCapacity, TableInv'
  PROVE  FInv'
<1>0. PICK f : f = table[task][d]
  OBVIOUS
<1>1. Core /\ HandlerTypes /\ task = 1 /\ pc \in Serving
  BY ServingFacts DEF Serving
<1>2. f \in LiveFiles /\ f \in Files
  BY <1>0, <1>1, UsedIsLive
<1>3. CloseFile(f) /\ table' = [table EXCEPT ![task][d] = NoFile]
  BY <1>0 DEF CloseEntry
<1>4. Closed(f)
  BY <1>1, <1>2, <1>3, CloseFileObjects DEF Core
<1>5. Pending' = Pending /\ task \in Tasks
  BY <1>1 DEF Pending, HandlerTypes
<1>6. FileInv'
  BY <1>0, <1>1, <1>2, <1>3, <1>4, <1>5, ClearedFiles
<1>7. table' \in [Tasks -> [Fds -> Files \cup {NoFile}]] /\ table'[0] = table[0]
  BY <1>1, <1>3 DEF HandlerTypes, Tasks
<1>8. HandlerTypes'
  BY <1>1, <1>7 DEF HandlerTypes
<1>9. PendingInv'
  BY PendingFacts, NoPending
<1> QED BY <1>1, <1>2, <1>3, <1>6, <1>7, <1>8, <1>9, ClosedStep

LEMMA SysCloseInv == ASSUME FInv, NEW d \in Fds, SysClose(d) PROVE FInv'
<1>1. HandlerTypes /\ pc = "running" /\ pc \in Serving /\ Used(d) /\ CloseEntry(d)
  BY ServingFacts DEF Serving, SysClose
<1>2. UNCHANGED <<pc, heapSize, task, index, pending, seedIn, seedOut, execing>>
  BY DEF SysClose, locals
<1>3. TableInv'
  BY <1>1, <1>2, QuietTable DEF Serving
<1>4. index' \in 0..FdCapacity
  BY <1>1, <1>2 DEF HandlerTypes
<1> QED BY <1>1, <1>2, <1>3, <1>4, CloseEntryInv

LEMMA SysReadInv ==
  ASSUME FInv, NEW d \in Fds, NEW count \in Nat, SysRead(d, count)
  PROVE  FInv'
<1>0. PICK f : f = table[task][d]
  OBVIOUS
<1>1. /\ Core /\ Objects /\ ObjectTypes /\ HandlerTypes /\ FileInv
      /\ \A n \in heapNodes : nodeRefs[n] > 0
      /\ pc \in Serving /\ pc = "running"
  BY ServingFacts DEF Serving, SysRead
<1>2. /\ Read \in fileAccess[f] /\ count > 0
      /\ \/ offset' = [offset EXCEPT ![f] = Advanced(@, count)] /\ UNCHANGED consumed
         \/ fileNode[f] # Banner /\ consumed' = consumed \cup {fileNode[f]} /\ UNCHANGED offset
      /\ UNCHANGED <<table, fileRefs, fileNode, fileAccess, nodeRefs, nodeOps, heapNodes, pc>>
      /\ UNCHANGED <<heapSize, task, index, pending, seedIn, seedOut, execing>>
  BY <1>0 DEF SysRead, locals
<1>3. f \in LiveFiles /\ f \in Files
  BY <1>0, <1>1, UsedIsLive DEF SysRead
<1>4. fileNode[f] # Banner => fileNode[f] \in heapNodes
  <2>1. /\ Read \in nodeOps[fileNode[f]] /\ fileNode[f] \in StaticNodes \cup heapNodes
        /\ nodeOps[Console] = {Write} /\ nodeOps[Executable] = {}
    BY <1>1, <1>2, <1>3 DEF Objects, NodeInv, NoDanglingNode
  <2>2. Read # Write
    BY DEF Read, Write
  <2> QED BY <2>1, <2>2 DEF StaticNodes
<1>5. Advanced(offset[f], count) \in 0..TextLength
  <2>1. offset[f] \in 0..TextLength /\ TextLength \in Nat
    BY <1>1, <1>3, FileTableAssumption DEF ObjectTypes
  <2> QED BY <2>1 DEF Advanced
<1>6. ObjectTypes'
  BY <1>1, <1>2, <1>3, <1>4, <1>5 DEF ObjectTypes
<1>7. LiveFiles' = LiveFiles
  BY <1>2 DEF LiveFiles
<1>8. Objects'
  BY <1>1, <1>2, <1>6, <1>7 DEF Objects, NodeRefsExact, NoDanglingNode, NodeInv
<1>9. HandlerTypes' /\ FileInv'
  BY <1>1, <1>2, FileInvKept DEF HandlerTypes
<1>10. Core'
  BY <1>8, <1>9 DEF Core
<1>11. PendingInv' /\ TableInv'
  BY <1>1, <1>2, PendingFacts, NoPending, QuietTable DEF Serving
<1> QED BY <1>1, <1>2, <1>10, <1>11, ServingStep

(* With the user task's table closed, all that is left is the idle task's  *)
(* console: three files and two nodes.                                     *)
LEMMA OnlyIdleLeft ==
  ASSUME FInv, task = 1, pending = <<>>, \A d \in Fds : table[1][d] = NoFile,
         \A n \in heapNodes : nodeRefs[n] > 0
  PROVE  LiveFiles \subseteq {table[0][d] : d \in 0..2} /\ HeapUsed <= 7
<1> DEFINE a == table[0][0]
           b == table[0][1]
           c == table[0][2]
<1>1. Core /\ Objects /\ ObjectTypes
  BY DEF FInv, Core, Objects
<1>2. Pending = {}
  BY OnePending DEF Pending, Range
<1>3. LiveFiles \subseteq {table[0][d] : d \in 0..2}
  <2> SUFFICES ASSUME NEW f \in LiveFiles PROVE f \in {table[0][d] : d \in 0..2}
    OBVIOUS
  <2>1. PICK t \in Tasks, d \in Fds : table[t][d] = f
    BY <1>1, <1>2, HeldIsLive
  <2>2. f # NoFile
    BY FileSets DEF LiveFiles
  <2>3. t = 0
    BY <2>1, <2>2 DEF Tasks
  <2>4. ~(d > 2)
    BY <2>1, <2>2, <2>3 DEF FInv, Stages, IdleInv
  <2>5. d \in 0..2
    BY <2>4, FileTableAssumption DEF Fds
  <2> QED BY <2>1, <2>3, <2>5
<1>4. LiveFiles \subseteq {a, b, c}
  <2>1. \A d \in 0..2 : d = 0 \/ d = 1 \/ d = 2
    OBVIOUS
  <2> QED BY <1>3, <2>1
<1>5. heapNodes \subseteq {fileNode[a], fileNode[b]}
  <2> SUFFICES ASSUME NEW n \in heapNodes PROVE n \in {fileNode[a], fileNode[b]}
    OBVIOUS
  <2>1. n \in Nodes /\ nodeRefs[n] = Cardinality(FilesOn(n))
    BY <1>1 DEF ObjectTypes, Objects, NodeRefsExact, FilesOn, Nodes
  <2>2. FilesOn(n) # {}
    BY <2>1, FS_EmptySet
  <2>3. PICK f \in LiveFiles : fileNode[f] = n
    BY <2>2 DEF FilesOn
  <2>4. fileNode[b] = fileNode[c]
    BY DEF FInv, Stages, IdleInv
  <2> QED BY <1>4, <2>3, <2>4
<1> HIDE DEF a, b, c
<1>6. Cardinality(LiveFiles) <= 3
  <2>1. IsFiniteSet({a, b, c}) /\ Cardinality({a, b, c}) \in Nat /\ Cardinality({a, b, c}) <= 3
    BY SmallSets
  <2>2. Cardinality(LiveFiles) <= Cardinality({a, b, c})
    BY <1>4, <2>1, FS_Subset
  <2> QED BY <1>1, <2>1, <2>2, FiniteObjects
<1>7. Cardinality(heapNodes) <= 2
  <2>0. PICK x, y : x = fileNode[a] /\ y = fileNode[b]
    OBVIOUS
  <2>1. IsFiniteSet({x, y}) /\ Cardinality({x, y}) \in Nat /\ Cardinality({x, y}) <= 2
    BY SmallSets
  <2>2. Cardinality(heapNodes) <= Cardinality({x, y})
    BY <1>5, <2>0, <2>1, FS_Subset
  <2> QED BY <1>1, <2>1, <2>2, FiniteObjects
<1>8. HeapUsed <= 7
  BY <1>1, <1>6, <1>7, FiniteObjects DEF HeapUsed
<1> QED BY <1>3, <1>8

(* One turn of fd_table_close_all, or its end. *)
LEMMA CloseAllInv == ASSUME FInv, CloseAll PROVE FInv'
<1>1. /\ Core /\ Objects /\ HandlerTypes /\ FileInv /\ task = 1 /\ heapSize >= 14
      /\ \A n \in heapNodes : nodeRefs[n] > 0
      /\ pc \in Serving /\ pc = "close_all" /\ pending = <<>>
  BY ServingFacts, PendingFacts DEF Serving, CloseAll
<1>2. UNCHANGED <<heapSize, task, pending, seedIn, seedOut, execing>>
  BY DEF CloseAll
<1>3. /\ index \in 0..FdCapacity /\ FdCapacity \in Nat /\ execing \in BOOLEAN
      /\ \A d \in Fds : d < index => table[1][d] = NoFile
      /\ \A d \in Fds : d \in Nat /\ d < FdCapacity
  <2>1. \A d \in Fds : d \in Nat /\ d < FdCapacity
    BY FileTableAssumption DEF Fds
  <2> QED BY <1>1, <2>1, FileTableAssumption DEF HandlerTypes, FInv, Stages, TableInv
<1>4. CASE PastTable(index)
  <2>1. /\ pc' = IF execing THEN "seed_nodes" ELSE "exited"
        /\ index' = 0 /\ UNCHANGED <<table, files, nodes>>
    BY <1>4 DEF CloseAll
  <2>2. \A d \in Fds : table[1][d] = NoFile
    BY <1>3, <1>4 DEF PastTable
  <2>3. HandlerTypes'
    <3>1. index' \in 0..FdCapacity
      BY <1>3, <2>1
    <3> QED BY <1>1, <1>2, <2>1, <3>1 DEF HandlerTypes
  <2>4. Core'
    BY <1>1, <1>2, <2>1, <2>3, ObjectsKept, FileInvKept DEF Core, files
  <2>5. PendingInv'
    BY <1>1, <1>2, <2>1, NoPending
  <2>6. TableInv'
    BY <1>1, <1>2, <2>1, <2>2 DEF TableInv, Seeding
  <2>7. CASE ~execing
    <3>1. pc' \in Serving
      BY <2>1, <2>7 DEF Serving
    <3> QED BY <1>1, <1>2, <2>1, <2>4, <2>5, <2>6, <3>1, ServingStep DEF files, nodes
  <2>8. CASE execing
    <3>1. pc' = "seed_nodes" /\ execing'
      BY <1>2, <2>1, <2>8
    <3>2. SeedInv' /\ LeakInv'
      BY <1>1, <2>1, <3>1 DEF SeedInv, LeakInv, nodes
    <3>3. IdleInv'
      BY <1>2, <2>1, <2>4, IdleKept DEF files
    <3>4. HeapUsed' = HeapUsed /\ HeapUsed <= 7
      BY <1>1, <2>1, <2>2, OnlyIdleLeft DEF HeapUsed, LiveFiles, files, nodes
    <3>5. SeedUse' = 7
      <4>1. Len(pending') = 0 /\ task' = 1
        BY <1>1, <1>2
      <4> QED BY <3>1, <4>1 DEF SeedUse
    <3>6. RoomInv'
      BY <1>1, <1>2, <3>1, <3>4, <3>5 DEF RoomInv
    <3> QED BY <2>4, <2>5, <2>6, <3>2, <3>3, <3>6 DEF FInv, Stages
  <2> QED BY <2>7, <2>8
<1>5. CASE ~PastTable(index)
  <2>1. index' = index + 1 /\ pc' = pc
    BY <1>5 DEF CloseAll
  <2>2. index \in Fds /\ index' \in 0..FdCapacity
    BY <1>3, <1>5, <2>1 DEF PastTable, Fds
  <2>3. \A d \in Fds : d < index' => d < index \/ d = index
    BY <1>3, <2>1
  <2>4. CASE Used(index)
    <3>1. CloseEntry(index)
      BY <1>5, <2>4 DEF CloseAll
    <3>2. \A d \in Fds : d < index' => table'[1][d] = NoFile
      <4>1. table' = [table EXCEPT ![1][index] = NoFile]
        BY <1>1, <3>1 DEF CloseEntry
      <4>2. \A d \in Fds : table'[1][d] = IF d = index THEN NoFile ELSE table[1][d]
        BY <1>1, <2>2, <4>1 DEF HandlerTypes, Tasks
      <4> QED BY <1>3, <2>3, <4>2
    <3>3. TableInv'
      BY <1>1, <1>2, <2>1, <3>2 DEF TableInv, Seeding
    <3> QED BY <1>1, <1>2, <2>1, <2>2, <2>4, <3>1, <3>3, CloseEntryInv
  <2>5. CASE ~Used(index)
    <3>1. UNCHANGED <<table, files, nodes>>
      BY <1>5, <2>5 DEF CloseAll
    <3>2. \A d \in Fds : d < index' => table'[1][d] = NoFile
      BY <1>1, <1>3, <2>3, <2>5, <3>1 DEF Used
    <3>3. TableInv'
      BY <1>1, <1>2, <2>1, <3>2 DEF TableInv, Seeding
    <3>4. HandlerTypes'
      BY <1>1, <1>2, <2>1, <2>2, <3>1 DEF HandlerTypes
    <3>5. Core'
      BY <1>1, <1>2, <3>1, <3>4, ObjectsKept, FileInvKept DEF Core, files
    <3>6. PendingInv'
      BY <1>1, <1>2, <2>1, NoPending
    <3> QED BY <1>1, <1>2, <2>1, <3>1, <3>3, <3>5, <3>6, ServingStep DEF files, nodes
  <2> QED BY <2>4, <2>5
<1> QED BY <1>4, <1>5

-----------------------------------------------------------------------------
(* Every step *)

(* What the kernel does, at whosever's request. *)
KernelStep ==
    \/ SeedNodes \/ SeedOpen \/ SeedUnwind \/ SeedInstall
    \/ \E node \in StaticNodes : \E access : SysOpen(node, access)
    \/ \E d \in Fds : SysDup(d) \/ SysClose(d)
    \/ \E d \in Fds, count \in Nat : SysRead(d, count)
    \/ Install \/ SysExec \/ ExecCloseImage \/ SysExit \/ CloseAll

LEMMA KernelStepInv == FInv /\ (KernelStep \/ UNCHANGED vars) => FInv'
<1> SUFFICES ASSUME FInv, KernelStep \/ UNCHANGED vars PROVE FInv'
  OBVIOUS
<1>1. CASE SeedNodes
  BY <1>1, SeedNodesInv
<1>2. CASE SeedOpen
  BY <1>2, SeedOpenInv
<1>3. CASE SeedUnwind
  BY <1>3, SeedUnwindInv
<1>4. CASE SeedInstall
  BY <1>4, SeedInstallInv
<1>5. CASE \E node \in StaticNodes : \E access : SysOpen(node, access)
  BY <1>5, SysOpenInv
<1>6. CASE \E d \in Fds : SysDup(d) \/ SysClose(d)
  BY <1>6, SysDupInv, SysCloseInv
<1>7. CASE \E d \in Fds, count \in Nat : SysRead(d, count)
  BY <1>7, SysReadInv
<1>8. CASE Install
  BY <1>8, InstallInv
<1>9. CASE SysExec
  BY <1>9, SysExecInv
<1>10. CASE ExecCloseImage
  BY <1>10, ExecCloseImageInv
<1>11. CASE SysExit
  BY <1>11, SysExitInv
<1>12. CASE CloseAll
  BY <1>12, CloseAllInv
<1>13. CASE UNCHANGED vars
  <2>1. Paused /\ pc' = pc
    BY <1>13 DEF vars, locals, Paused
  <2>2. HandlerTypes'
    BY <2>1 DEF FInv, Core, HandlerTypes, Paused
  <2>3. Core'
    BY <2>1, <2>2, PausedCore
  <2>4. /\ PendingInv' = PendingInv /\ TableInv' = TableInv /\ SeedInv' = SeedInv
        /\ LeakInv' = LeakInv /\ IdleInv' = IdleInv /\ RoomInv' = RoomInv
    BY <2>1 DEF PendingInv, TableInv, SeedInv, LeakInv, IdleInv, RoomInv, SeedUse, HeapUsed,
         LiveFiles, Paused, files, nodes
  <2> QED BY <2>3, <2>4 DEF FInv, Stages
<1> QED BY <1>1, <1>2, <1>3, <1>4, <1>5, <1>6, <1>7, <1>8, <1>9, <1>10, <1>11, <1>12, <1>13
        DEF KernelStep

LEMMA NextIsKernel == Next => KernelStep
<1> SUFFICES ASSUME Next PROVE KernelStep
  OBVIOUS
<1>1. CASE \E d \in Fds, count \in 0..(TextLength + 1) : SysRead(d, count)
  <2>1. 0..(TextLength + 1) \subseteq Nat
    BY FileTableAssumption
  <2> QED BY <1>1, <2>1 DEF KernelStep
<1>2. CASE \E node \in StaticNodes, access \in Accesses : SysOpen(node, access)
  BY <1>2, Zenon DEF KernelStep
<1> QED BY <1>1, <1>2, Zenon DEF Next, KernelStep

(* A program makes system calls; between them it leaves the kernel alone. *)
LEMMA ProgramsUseKernel == UserNext => KernelStep \/ UNCHANGED vars
<1> SUFFICES ASSUME UserNext, ~(UNCHANGED vars) PROVE KernelStep
  OBVIOUS
<1>1. CASE UserDup \/ UserClose
  <2>1. FdUsed /\ (SysDup(Fd) \/ SysClose(Fd))
    BY <1>1, Zenon DEF UserDup, UserClose, Fails
  <2>2. Fd \in Fds
    BY <2>1, Zenon DEF FdUsed
  <2> QED BY <2>1, <2>2, Zenon DEF KernelStep
<1>2. CASE UserOpen
  <2>1. PICK node : node = Resolve(Current.text)
    OBVIOUS
  <2>2. node # NoNode /\ SysOpen(node, Current.access)
    BY <1>2, <2>1, Zenon DEF UserOpen, Fails
  <2>3. node \in StaticNodes
    BY <2>1, <2>2 DEF Resolve, StaticNodes
  <2> QED BY <2>2, <2>3, Zenon DEF KernelStep
<1>3. CASE UserRead
  <2>1. FdUsed /\ SysRead(Fd, 1)
    BY <1>3, Zenon DEF UserRead, Fails
  <2>2. Fd \in Fds
    BY <2>1, Zenon DEF FdUsed
  <2>3. 1 \in Nat
    OBVIOUS
  <2> QED BY <2>1, <2>2, <2>3, Zenon DEF KernelStep
<1>4. CASE UserExec
  BY <1>4, Zenon DEF UserExec, Fails, KernelStep
<1>5. CASE UserWrite \/ UserPutc \/ UnknownCall \/ UserStep \/ Tick
  <2>1. UNCHANGED vars
    <3>1. CASE UserWrite
      BY <3>1, Zenon DEF UserWrite, Fails
    <3>2. CASE UserPutc \/ UnknownCall \/ Tick
      BY <3>2, Zenon DEF UserPutc, UnknownCall, Tick, Fails
    <3>3. CASE UserStep
      BY <3>3, Zenon DEF UserStep, Goto
    <3> QED BY <1>5, <3>1, <3>2, <3>3
  <2> QED BY <2>1
<1>6. CASE UserExit \/ InstallReturns \/ ExecDecides \/ CloseOrSeed \/ SeedEnds
  BY <1>6, Zenon DEF UserExit, InstallReturns, ExecDecides, CloseOrSeed, SeedEnds, KernelStep
<1>7. CASE AnyProgram
  BY <1>7, NextIsKernel, Zenon DEF AnyProgram
<1> QED BY <1>1, <1>2, <1>3, <1>4, <1>5, <1>6, <1>7, Zenon DEF UserNext, Running

LEMMA SpecFInv == (Spec => []FInv) /\ (UserSpec => []FInv)
<1>1. Init => FInv
  BY InitFInv
<1>2. FInv /\ [Next]_vars => FInv'
  BY KernelStepInv, NextIsKernel
<1>3. FInv /\ [UserNext]_allVars => FInv'
  <2>1. UNCHANGED allVars => UNCHANGED vars
    BY DEF allVars
  <2> QED BY <2>1, KernelStepInv, ProgramsUseKernel
<1>4. UserInit => FInv
  BY <1>1 DEF UserInit
<1> QED BY <1>1, <1>2, <1>3, <1>4, PTL DEF Spec, UserSpec

LEMMA FInvCounts == FInv => RefsExact
<1> SUFFICES ASSUME FInv PROVE RefsExact
  OBVIOUS
<1>1. TypeOK
  BY DEF FInv, Core, Objects, ObjectTypes, HandlerTypes, TypeOK
<1>2. NodeRefsExact
  BY DEF FInv, Core, Objects
<1>3. ASSUME NEW f \in Files
      PROVE  fileRefs[f] = Cardinality(Entries(f))
                           + Cardinality({i \in DOMAIN pending : pending[i] = f})
  <2> DEFINE I == {i \in DOMAIN pending : pending[i] = f}
  <2>1. fileRefs[f] = Cardinality(Entries(f)) + (IF f \in Pending THEN 1 ELSE 0)
    BY DEF FInv, Core, FileInv, Holders
  <2>2. CASE f \in Pending
    <3>1. PICK i \in DOMAIN pending : pending[i] = f
      BY <2>2 DEF Pending, Range
    <3>2. I = {i}
      BY <3>1, PendingFacts
    <3>3. Cardinality({i}) = 1
      BY FS_Singleton
    <3> QED BY <2>1, <2>2, <3>2, <3>3
  <2>3. CASE f \notin Pending
    <3>1. I = {}
      BY <2>3 DEF Pending, Range
    <3>2. Cardinality({}) = 0
      BY FS_EmptySet
    <3> QED BY <2>1, <2>3, <3>1, <3>2
  <2> QED BY <2>2, <2>3
<1> QED BY <1>1, <1>2, <1>3 DEF RefsExact, FileRefsExact

LEMMA FInvLifetime == FInv => NodeLifetime
<1> SUFFICES ASSUME FInv PROVE NodeLifetime
  OBVIOUS
<1>1. NoDanglingNode
  BY DEF FInv, Core, Objects
<1>2. NoLeakedNode
  BY DEF FInv, Stages, LeakInv, NoLeakedNode
<1>3. ClosedTableHoldsNothing
  <2> SUFFICES ASSUME pc = "exited" \/ (pc = "seed_nodes" /\ task = 1)
               PROVE  LiveFiles \subseteq {table[0][d] : d \in Fds}
    BY DEF ClosedTableHoldsNothing
  <2>1. task = 1 /\ pending = <<>>
    BY PendingFacts DEF FInv, Stages, RoomInv, Serving
  <2>2. \A d \in Fds : table[1][d] = NoFile
    BY <2>1 DEF FInv, Stages, TableInv, Seeding
  <2>3. \A n \in heapNodes : nodeRefs[n] > 0
    BY DEF FInv, Stages, LeakInv
  <2>4. LiveFiles \subseteq {table[0][d] : d \in 0..2}
    BY <2>1, <2>2, <2>3, OnlyIdleLeft
  <2>5. 0..2 \subseteq Fds
    BY FileTableAssumption DEF Fds
  <2> QED BY <2>4, <2>5
<1> QED BY <1>1, <1>2, <1>3 DEF NodeLifetime

(* What ExecSeedsStdio says of a step. *)
LEMMA ExecStep ==
  ASSUME FInv, KernelStep, execing, pc' = "running"
  PROVE  /\ \A d \in Fds : d > 2 => table'[1][d] = NoFile
         /\ \A d \in 0..2 :
              /\ table'[1][d] # NoFile
              /\ fileNode'[table'[1][d]] = IF d = 0 THEN seedIn' ELSE seedOut'
         /\ seedIn' \notin consumed'
<1>1. task = 1 /\ pc \in Seeding \cup {"close_all"}
  BY DEF FInv, Stages, TableInv
<1>2. ~SeedNodes
  <2> SUFFICES ASSUME SeedNodes PROVE FALSE
    OBVIOUS
  <2>1. HeapFree \in Int
    BY HeapNumbers DEF HeapFree, FInv
  <2>2. ~(HeapFree < 4)
    BY <2>1, ExecHasRoom DEF SeedNodes
  <2> QED BY <2>2 DEF SeedNodes
<1>3. SeedInstall
  BY <1>1, <1>2 DEF KernelStep, SeedOpen, SeedUnwind, SysOpen, SysDup, SysClose, SysRead,
       Install, SysExec, ExecCloseImage, SysExit, CloseAll, Seeding
<1>4. pc = "seed_install" /\ UNCHANGED <<fileNode, consumed, seedIn, seedOut>>
  BY <1>3 DEF SeedInstall, files, nodes
<1>5. /\ \A d \in Fds : d \in Nat
      /\ \A d \in 0..2 : d \in Nat /\ d + 1 \in 1..3 /\ table'[1][d] = pending[d + 1]
      /\ \A i \in 1..3 : pending[i] \in Files /\ i \in DOMAIN pending
      /\ \A d \in Fds : ~(d < 3) => table'[1][d] = NoFile
  BY <1>1, <1>3, InstalledTable
<1>6. /\ seedIn \notin consumed
      /\ \A i \in 1..3 : fileNode[pending[i]] = IF i = 1 THEN seedIn ELSE seedOut
  BY <1>4, <1>5 DEF FInv, Stages, SeedInv
<1>7. ASSUME NEW d \in 0..2
      PROVE  /\ table'[1][d] # NoFile
             /\ fileNode'[table'[1][d]] = IF d = 0 THEN seedIn' ELSE seedOut'
  <2>1. PICK i \in 1..3 : i = d + 1 /\ table'[1][d] = pending[i]
    BY <1>5
  <2>2. pending[i] # NoFile
    BY <1>5, FileSets
  <2>3. i = 1 <=> d = 0
    BY <2>1
  <2> QED BY <1>4, <1>6, <2>1, <2>2, <2>3
<1>8. \A d \in Fds : d > 2 => table'[1][d] = NoFile
  BY <1>5
<1> QED BY <1>4, <1>6, <1>7, <1>8

-----------------------------------------------------------------------------
(* Theorems.  Spec is the descriptor layer under any sequence of calls;    *)
(* UserSpec is the same layer with the programs of user/ on top.           *)

(* The reference count of every file is the number of descriptors and of   *)
(* handler variables that hold it, and that of every node the number of    *)
(* open files on it, in every state of fd.c and vfs.c: in the middle of a  *)
(* seed, an open, a dup, a failed install, an exec or an exit too.         *)
THEOREM CountsAreExact == (Spec => []RefsExact) /\ (UserSpec => []RefsExact)
<1>1. FInv => RefsExact
  BY FInvCounts
<1>2. (Spec => []FInv) /\ (UserSpec => []FInv)
  BY SpecFInv
<1> QED BY <1>1, <1>2, PTL

(* No open file leads to a node that vfs_file_close has freed, no console  *)
(* node outlives its last file, and a program that exec or exit ends       *)
(* leaves nothing open.                                                    *)
THEOREM ConsolesLiveRightLong == (Spec => []NodeLifetime) /\ (UserSpec => []NodeLifetime)
<1>1. FInv => NodeLifetime
  BY FInvLifetime
<1>2. (Spec => []FInv) /\ (UserSpec => []FInv)
  BY SpecFInv
<1> QED BY <1>1, <1>2, PTL

(* An exec that has closed the caller's table ends with stdin, stdout and  *)
(* stderr open on a new console and nothing else: the re-seeding in        *)
(* sched_exec_current cannot run out of memory on a heap that booted.      *)
THEOREM ExecSeedsConsole == (Spec => ExecSeedsStdio) /\ (UserSpec => ExecSeedsStdio)
<1> DEFINE A == (execing /\ pc' = "running") =>
                  /\ \A d \in Fds : d > 2 => table'[1][d] = NoFile
                  /\ \A d \in 0..2 :
                       /\ table'[1][d] # NoFile
                       /\ fileNode'[table'[1][d]] = IF d = 0 THEN seedIn' ELSE seedOut'
                  /\ seedIn' \notin consumed'
<1>1. FInv /\ KernelStep => A
  BY ExecStep
<1> HIDE DEF A
<1>2. FInv /\ [Next]_vars => [A]_vars
  BY <1>1, NextIsKernel
<1>3. FInv /\ [UserNext]_allVars => [A]_vars
  <2>1. UNCHANGED allVars => UNCHANGED vars
    BY DEF allVars
  <2> QED BY <1>1, <2>1, ProgramsUseKernel
<1>4. (Spec => []FInv) /\ (UserSpec => []FInv)
  BY SpecFInv
<1>5. (Spec => [][A]_vars) /\ (UserSpec => [][A]_vars)
  BY <1>2, <1>3, <1>4, PTL DEF Spec, UserSpec
<1> QED BY <1>5 DEF A, ExecSeedsStdio
=============================================================================
