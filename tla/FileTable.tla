----------------------------- MODULE FileTable ------------------------------
(***************************************************************************)
(* Descriptors, open files and nodes: kernel/fd.c on top of the reference  *)
(* counts of kernel/vfs.c, as the system calls of the user task and the    *)
(* exec and exit paths of kernel/sched.c drive them.                       *)
(*                                                                         *)
(* Three layers are kept apart.  A descriptor table entry holds a file; a  *)
(* file (struct vfs_file) counts its holders and holds a node; a node      *)
(* (struct vfs_node) counts its files.  Namespace nodes are static; the    *)
(* two console nodes a table is seeded with live in the heap and are freed *)
(* by their release operation together with their data.                    *)
(*                                                                         *)
(* Handlers are not preemptible.  They are split where an object is held   *)
(* by local variables only (pending, seedIn, seedOut), so that the counts  *)
(* are checked there too.  Paths, buffers and the bytes of the console are *)
(* abstracted away; the offset of a console file is written and never      *)
(* read, and is left out.                                                  *)
(***************************************************************************)
EXTENDS Integers, Sequences, FiniteSets

CONSTANTS
    FdCapacity,    \* fd_table_capacity
    MaxHeap,       \* bound on the objects the kernel heap has room for
    HeapSizes,     \* the heap sizes considered
    TextLength     \* length of the static text of /etc/banner

ASSUME FileTableAssumption ==
    /\ FdCapacity \in Nat /\ FdCapacity >= 3
    /\ MaxHeap \in Nat
    /\ HeapSizes \subseteq 0..MaxHeap
    /\ TextLength \in Nat

Tasks == {0, 1}
Fds == 0..(FdCapacity - 1)

(* Heap objects are numbered; an object's number is free again after kfree. *)
Files == 1..MaxHeap
NoFile == 0

(* The static nodes of the namespace a path can lead to, and numbers for   *)
(* the heap nodes.                                                         *)
Banner == -1        \* /etc/banner
Console == -2       \* /dev/console
Executable == -3    \* an entry of /bin
StaticNodes == {Banner, Console, Executable}
HeapNodes == 1..MaxHeap
Nodes == StaticNodes \cup HeapNodes
NoNode == 0

Read == "r"
Write == "w"
Accesses == SUBSET {Read, Write}

VARIABLES
    heapSize,   \* objects this machine's heap has room for
    table,      \* task->fd_table: the file of each entry, NoFile if unused
    fileRefs,   \* file->refs; 0 for a number no file has
    fileNode,   \* file->node
    fileAccess, \* file->access; empty for the file exec opens
    offset,     \* file->offset of a text file
    nodeRefs,   \* node->refs
    nodeOps,    \* node->ops: whether it can be read, and written
    heapNodes,  \* the heap nodes that are allocated, each with its data
    consumed,   \* input nodes whose byte was read (data->used)
    pc,         \* "running", or the step of the handler under way
    task,       \* the task whose table the handler works on
    index,      \* loop variable of fd_table_close_all
    pending,    \* the files that local variables of the handler hold
    seedIn, seedOut, \* the console nodes under construction
    execing     \* whether close_all is that of exec or that of exit

files == <<fileRefs, fileNode, fileAccess, offset>>
nodes == <<nodeRefs, nodeOps, heapNodes, consumed>>
locals == <<heapSize, task, index, pending, seedIn, seedOut, execing>>
vars == <<table, files, nodes, pc, locals>>

LiveFiles == {f \in Files : fileRefs[f] > 0}
HeapUsed == Cardinality(LiveFiles) + 2 * Cardinality(heapNodes)
HeapFree == heapSize - HeapUsed

(* kmalloc returns some address that is not in use. *)
NewFile == CHOOSE f \in Files \ LiveFiles : \A g \in Files \ LiveFiles : f <= g
NewNodeBut(others) ==
    LET unused == HeapNodes \ (heapNodes \cup others)
    IN  CHOOSE n \in unused : \A m \in unused : n <= m

Init ==
    /\ heapSize \in HeapSizes
    /\ table = [t \in Tasks |-> [d \in Fds |-> NoFile]]
    /\ fileRefs = [f \in Files |-> 0]
    /\ fileNode = [f \in Files |-> NoNode]
    /\ fileAccess = [f \in Files |-> {}]
    /\ offset = [f \in Files |-> 0]
    /\ nodeRefs = [n \in Nodes |-> 0]
    /\ nodeOps = [n \in Nodes |-> CASE n = Banner -> {Read}
                                     [] n = Console -> {Write}
                                     [] OTHER -> {}]
    /\ heapNodes = {}
    /\ consumed = {}
    /\ pc = "seed_nodes"
    /\ task = 0
    /\ index = 0
    /\ pending = <<>>
    /\ seedIn = NoNode
    /\ seedOut = NoNode
    /\ execing = FALSE

-----------------------------------------------------------------------------
(* vfs.c *)

\* Mutant: the node's count is not raised.
MakeFile_Uncounted(f, node, access) ==
    /\ fileRefs' = [fileRefs EXCEPT ![f] = 1]
    /\ fileNode' = [fileNode EXCEPT ![f] = node]
    /\ fileAccess' = [fileAccess EXCEPT ![f] = access]
    /\ offset' = [offset EXCEPT ![f] = 0]
    /\ UNCHANGED nodes

(* vfs_make_file: refs 1, offset 0, and one more reference to the node. *)
MakeFile(f, node, access) ==
    /\ fileRefs' = [fileRefs EXCEPT ![f] = 1]
    /\ fileNode' = [fileNode EXCEPT ![f] = node]
    /\ fileAccess' = [fileAccess EXCEPT ![f] = access]
    /\ offset' = [offset EXCEPT ![f] = 0]
    /\ nodeRefs' = [nodeRefs EXCEPT ![node] = @ + 1]
    /\ UNCHANGED <<nodeOps, heapNodes, consumed>>

\* Mutant: what the node offers is not looked at.
Openable_Any(node, access) == access # {} /\ access \subseteq {Read, Write}

(* vfs_file_open: flags must be read, write or both, and the node must     *)
(* offer them.                                                             *)
Openable(node, access) == access # {} /\ access \subseteq nodeOps[node]

(* vfs_file_close: the last holder of a file frees it, and the last file   *)
(* of a heap node releases the node and its data.                          *)
LastHolder(f) == fileRefs[f] = 1

\* Mutants: every close releases the node, or none does.
LastFile_Always(node) == TRUE
LastFile_Never(node) == FALSE

LastFile(node) == nodeRefs[node] = 1
CloseFile(f) ==
    /\ fileRefs' = [fileRefs EXCEPT ![f] = @ - 1]
    /\ IF LastHolder(f)
       THEN LET node == fileNode[f]
            IN  /\ fileNode' = [fileNode EXCEPT ![f] = NoNode]
                /\ fileAccess' = [fileAccess EXCEPT ![f] = {}]
                /\ offset' = [offset EXCEPT ![f] = 0]
                /\ nodeRefs' = [nodeRefs EXCEPT ![node] = @ - 1]
                /\ heapNodes' = IF LastFile(node) THEN heapNodes \ {node} ELSE heapNodes
                /\ consumed' = IF LastFile(node) THEN consumed \ {node} ELSE consumed
                /\ UNCHANGED nodeOps
       ELSE UNCHANGED <<fileNode, fileAccess, offset, nodes>>

-----------------------------------------------------------------------------
(* fd_table_seed_console, for task0, then task1, and again in every exec.  *)
(* A failure halts at boot; in exec it returns to the caller, whose table  *)
(* is already empty.                                                       *)
Booting == task = 0 \/ ~execing
SeedFailed == pc' = (IF Booting THEN "halted" ELSE "running")

(* Two nodes and their data: all four, or none. *)
SeedNodes ==
    /\ pc = "seed_nodes"
    /\ IF HeapFree < 4
       THEN SeedFailed /\ UNCHANGED <<nodes, seedIn, seedOut>>
       ELSE /\ seedIn' = NewNodeBut({})
            /\ seedOut' = NewNodeBut({seedIn'})
            /\ heapNodes' = heapNodes \cup {seedIn', seedOut'}
            /\ nodeRefs' = [nodeRefs EXCEPT ![seedIn'] = 0, ![seedOut'] = 0]
            /\ nodeOps' = [nodeOps EXCEPT ![seedIn'] = {Read}, ![seedOut'] = {Write}]
            /\ consumed' = consumed \ {seedIn', seedOut'}
            /\ pc' = "seed_open"
    /\ UNCHANGED <<heapSize, table, files, task, index, pending, execing>>

(* vfs_file_open three times: input, stdout and stderr. *)
SeedNode == IF pending = <<>> THEN seedIn ELSE seedOut
SeedOpen ==
    /\ pc = "seed_open"
    /\ IF HeapFree < 1
       THEN pc' = "seed_unwind" /\ UNCHANGED <<files, nodes, pending>>
       ELSE /\ MakeFile(NewFile, SeedNode, nodeOps[SeedNode])
            /\ pending' = Append(pending, NewFile)
            /\ pc' = IF Len(pending) = 2 THEN "seed_install" ELSE "seed_open"
    /\ UNCHANGED <<heapSize, table, task, index, seedIn, seedOut, execing>>

(* The files that were opened are closed; a node that got no file is not   *)
(* released by anybody.                                                    *)
SeedUnwind ==
    /\ pc = "seed_unwind"
    /\ IF pending = <<>>
       THEN SeedFailed /\ UNCHANGED <<files, nodes, pending>>
       ELSE CloseFile(Head(pending)) /\ pending' = Tail(pending) /\ UNCHANGED pc
    /\ UNCHANGED <<heapSize, table, task, index, seedIn, seedOut, execing>>

(* The table is empty, so fd_table_install gives descriptors 0, 1 and 2.   *)
SeedInstall ==
    /\ pc = "seed_install"
    /\ table' = [table EXCEPT ![task] =
                    [d \in Fds |-> IF d < 3 THEN pending[d + 1] ELSE @[d]]]
    /\ pending' = <<>>
    /\ IF task = 0 THEN task' = 1 /\ pc' = "seed_nodes"
                   ELSE UNCHANGED task /\ pc' = "running"
    /\ execing' = FALSE
    /\ UNCHANGED <<heapSize, files, nodes, index, seedIn, seedOut>>

-----------------------------------------------------------------------------
(* System calls of the user task. *)

(* fd_table_get. *)
Used(d) == table[task][d] # NoFile

(* SYS_OPEN of a path that resolves to a static node. *)
SysOpen(node, access) ==
    /\ pc = "running"
    /\ Openable(node, access)
    /\ HeapFree >= 1
    /\ MakeFile(NewFile, node, access)
    /\ pending' = <<NewFile>>
    /\ pc' = "install"
    /\ UNCHANGED <<heapSize, table, task, index, seedIn, seedOut, execing>>

(* SYS_DUP: vfs_file_retain, then the same fd_table_install. *)
SysDup(d) ==
    /\ pc = "running"
    /\ Used(d)
    /\ fileRefs' = [fileRefs EXCEPT ![table[task][d]] = @ + 1]
    /\ pending' = <<table[task][d]>>
    /\ pc' = "install"
    /\ UNCHANGED <<heapSize, table, fileNode, fileAccess, offset, nodes, task, index,
                   seedIn, seedOut, execing>>

(* fd_table_install finds the lowest unused entry; when the table is full  *)
(* the caller closes the file it opened or retained.                       *)
Unused == {d \in Fds : ~Used(d)}
LowestUnused == CHOOSE d \in Unused : \A e \in Unused : d <= e
Install ==
    /\ pc = "install"
    /\ IF Unused = {}
       THEN CloseFile(pending[1]) /\ UNCHANGED table
       ELSE /\ table' = [table EXCEPT ![task][LowestUnused] = pending[1]]
            /\ UNCHANGED <<files, nodes>>
    /\ pending' = <<>>
    /\ pc' = "running"
    /\ UNCHANGED <<heapSize, task, index, seedIn, seedOut, execing>>

\* Mutant: the entry is not cleared.
CloseEntry_Keeps(d) ==
    /\ CloseFile(table[task][d])
    /\ UNCHANGED table

(* fd_table_close: the file is closed and the entry cleared. *)
CloseEntry(d) ==
    /\ CloseFile(table[task][d])
    /\ table' = [table EXCEPT ![task][d] = NoFile]

SysClose(d) ==
    /\ pc = "running"
    /\ Used(d)
    /\ CloseEntry(d)
    /\ UNCHANGED <<pc, locals>>

\* Mutant: the count is not cut to what is available.
Advanced_Unclamped(position, count) == position + count

(* vfs_static_text_read: the offset after a read. *)
Advanced(position, count) ==
    IF count > TextLength - position THEN TextLength ELSE position + count

(* SYS_READ: static text advances the offset of the file, by at most what  *)
(* is left; a console input gives its byte once.                           *)
SysRead(d, count) ==
    /\ pc = "running"
    /\ Used(d)
    /\ LET f == table[task][d]
       IN  /\ Read \in fileAccess[f]
           /\ count > 0
           /\ IF fileNode[f] = Banner
              THEN /\ offset[f] < TextLength
                   /\ offset' = [offset EXCEPT ![f] = Advanced(@, count)]
                   /\ UNCHANGED consumed
              ELSE /\ consumed' = consumed \cup {fileNode[f]}
                   /\ UNCHANGED offset
    /\ UNCHANGED <<table, fileRefs, fileNode, fileAccess, nodeRefs, nodeOps, heapNodes, pc, locals>>

(* SYS_EXEC: vfs_open_exec_path makes a file with no access at all, whose  *)
(* image is looked up before it is closed.                                 *)
SysExec ==
    /\ pc = "running"
    /\ HeapFree >= 1
    /\ MakeFile(NewFile, Executable, {})
    /\ pending' = <<NewFile>>
    /\ pc' = "exec_close"
    /\ UNCHANGED <<heapSize, table, task, index, seedIn, seedOut, execing>>

(* Then the new image is prepared, which may fail and return -1 with the   *)
(* table as it was; if not, sched_exec_current closes the whole table.     *)
ExecCloseImage ==
    /\ pc = "exec_close"
    /\ CloseFile(pending[1])
    /\ pending' = <<>>
    /\ \/ pc' = "running" /\ UNCHANGED execing
       \/ pc' = "close_all" /\ execing' = TRUE
    /\ UNCHANGED <<heapSize, table, task, index, seedIn, seedOut>>

(* SYS_EXIT: sched_exit_current starts with fd_table_close_all. *)
SysExit ==
    /\ pc = "running"
    /\ pc' = "close_all"
    /\ UNCHANGED <<table, files, nodes, locals>>

\* Mutant: the loop stops one entry early.
PastTable_Early(i) == i >= FdCapacity - 1

PastTable(i) == i >= FdCapacity

(* One turn of fd_table_close_all; exec seeds the emptied table again. *)
CloseAll ==
    /\ pc = "close_all"
    /\ IF PastTable(index)
       THEN /\ pc' = IF execing THEN "seed_nodes" ELSE "exited"
            /\ index' = 0
            /\ UNCHANGED <<table, files, nodes>>
       ELSE /\ index' = index + 1
            /\ IF Used(index) THEN CloseEntry(index) ELSE UNCHANGED <<table, files, nodes>>
            /\ UNCHANGED pc
    /\ UNCHANGED <<heapSize, task, pending, seedIn, seedOut, execing>>

Next ==
    \/ SeedNodes \/ SeedOpen \/ SeedUnwind \/ SeedInstall
    \/ \E node \in StaticNodes, access \in Accesses : SysOpen(node, access)
    \/ \E d \in Fds : SysDup(d) \/ SysClose(d)
    \/ \E d \in Fds, count \in 0..(TextLength + 1) : SysRead(d, count)
    \/ Install \/ SysExec \/ ExecCloseImage \/ SysExit \/ CloseAll

Spec == Init /\ [][Next]_vars

-----------------------------------------------------------------------------
(* Properties *)

(* Every variable has its type. *)
TypeOK ==
    /\ heapSize \in HeapSizes
    /\ table \in [Tasks -> [Fds -> Files \cup {NoFile}]]
    /\ fileRefs \in [Files -> Nat]
    /\ fileNode \in [Files -> Nodes \cup {NoNode}]
    /\ fileAccess \in [Files -> Accesses]
    /\ offset \in [Files -> 0..TextLength]
    /\ nodeRefs \in [Nodes -> Nat]
    /\ nodeOps \in [Nodes -> Accesses]
    /\ heapNodes \subseteq HeapNodes
    /\ consumed \subseteq heapNodes
    /\ pc \in {"seed_nodes", "seed_open", "seed_unwind", "seed_install", "running",
               "install", "exec_close", "close_all", "exited", "halted"}
    /\ task \in Tasks
    /\ index \in 0..FdCapacity
    /\ pending \in Seq(Files)
    /\ {seedIn, seedOut} \subseteq HeapNodes \cup {NoNode}
    /\ execing \in BOOLEAN

Entries(f) == {e \in Tasks \X Fds : table[e[1]][e[2]] = f}

(* refs of a file is exactly the number of descriptors, of all tasks, and  *)
(* of local variables of the handler that hold it: no dup, failed install, *)
(* close or close_all drops a reference too many or too few.               *)
FileRefsExact ==
    \A f \in Files :
        fileRefs[f] = Cardinality(Entries(f))
                      + Cardinality({i \in DOMAIN pending : pending[i] = f})

(* refs of a node is exactly the number of open files on it. *)
NodeRefsExact ==
    \A n \in Nodes : nodeRefs[n] = Cardinality({f \in LiveFiles : fileNode[f] = n})

(* No use after free: an open file's node is static or still allocated, so *)
(* a console outlives every descriptor that leads to it.                   *)
NoDanglingNode == \A f \in LiveFiles : fileNode[f] \in StaticNodes \cup heapNodes

(* No leak: outside seeding, an allocated console node is held by a file,  *)
(* and every live file is reachable from a table or a local variable.      *)
NoLeakedNode ==
    pc \notin {"seed_nodes", "seed_open", "seed_unwind", "halted"} =>
        \A n \in heapNodes : nodeRefs[n] > 0

(* Exec ends with stdin, stdout and stderr on a new console and every      *)
(* other descriptor closed: on a heap on which the boot succeeded the      *)
(* re-seeding of sched_exec_current cannot fail, whatever the old program  *)
(* had open.                                                               *)
ExecSeedsStdio ==
    [][ (execing /\ pc' = "running") =>
          /\ \A d \in Fds : d > 2 => table'[1][d] = NoFile
          /\ \A d \in 0..2 :
               /\ table'[1][d] # NoFile
               /\ fileNode'[table'[1][d]] = IF d = 0 THEN seedIn' ELSE seedOut'
          /\ seedIn' \notin consumed' ]_vars

(* The program that exec or exit ends leaves nothing open: when its table  *)
(* has been closed, the only live files are those of the idle task.        *)
ClosedTableHoldsNothing ==
    (pc = "exited" \/ (pc = "seed_nodes" /\ task = 1)) =>
        LiveFiles \subseteq {table[0][d] : d \in Fds}

(* Both levels of reference counts are exact, inside handlers too.         *)
RefsExact == TypeOK /\ FileRefsExact /\ NodeRefsExact

(* A console lives as long as something leads to it, and no longer.        *)
NodeLifetime == NoDanglingNode /\ NoLeakedNode /\ ClosedTableHoldsNothing
=============================================================================
