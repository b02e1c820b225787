------------------------------ MODULE Namespace ------------------------------
(***************************************************************************)
(* The path walk of kernel/vfs.c, character by character through a small   *)
(* buffer, and what SYS_OPEN and SYS_EXEC do with the node it ends at.     *)
(*                                                                         *)
(* A path is the sequence of its characters before the terminating zero,   *)
(* which is the last character the walk may look at.  The tree is static:  *)
(* vfs_namespace_initialize builds it once, with one entry of /bin per     *)
(* embedded program.                                                       *)
(***************************************************************************)
EXTENDS Integers, Sequences

CONSTANTS
    Letters,        \* the characters of names
    MaxPath,        \* bound on the length of a path
    BufferSize,     \* sizeof(component)
    FlagWord,       \* 2^32: what the cast of the flags keeps
    Flags,          \* the flags that are passed
    Tree,           \* Tree[d]: the entries of directory d, name -> node
    Ops,            \* Ops[n]: the accesses that node n has operations for
    Executables     \* the nodes of kind VFS_NODE_EXECUTABLE

Root == "root"
None == "none"
Terminator == "0"
Separator == "/"

VFS_ACCESS_READ == 1
VFS_ACCESS_WRITE == 2

Names == UNION {DOMAIN Tree[d] : d \in DOMAIN Tree}
Nodes == UNION {{Tree[d][m] : m \in DOMAIN Tree[d]} : d \in DOMAIN Tree}
Directories == DOMAIN Tree \ {Root}
Paths == UNION {[1..n -> Letters \cup {Separator}] : n \in 0..MaxPath}

ASSUME NamespaceAssumption ==
    /\ Separator \notin Letters /\ Terminator \notin Letters
    /\ MaxPath \in Nat /\ BufferSize \in Nat \ {0} /\ Flags \subseteq Nat
    /\ FlagWord \in Nat /\ FlagWord > VFS_ACCESS_READ + VFS_ACCESS_WRITE
    /\ Root \in DOMAIN Tree /\ Directories \subseteq Nodes /\ None \notin Nodes
    /\ \A d \in Directories : \A m \in DOMAIN Tree[d] : Tree[d][m] \notin Directories
    /\ \A m \in Names : m \in Seq(Letters) /\ Len(m) \in 1..(BufferSize - 1)
    /\ Executables \subseteq Nodes \ Directories
    /\ \A n \in Nodes : Ops[n] \subseteq {VFS_ACCESS_READ, VFS_ACCESS_WRITE}

VARIABLES
    path,       \* the path a system call has copied from the user
    call,       \* "open" or "exec"
    flags,      \* frame->rsi of an open
    pathIndex,  \* path_index, from 1
    component,  \* the component read so far, without its terminator
    entries,    \* the directory that is searched
    node,       \* the node that the walk returned
    access,     \* access of the file that was opened
    step        \* "start", "copy", "walked", "opened", "refused"

walkVars == <<path, call, flags, pathIndex, component, entries, node, access, step>>

(* path[path_index]. *)
Char(i) == IF i <= Len(path) THEN path[i] ELSE Terminator

WalkInit ==
    /\ path \in Paths
    /\ \/ call = "open" /\ flags \in Flags
       \/ call = "exec" /\ flags = 0
    /\ pathIndex = 1
    /\ component = <<>>
    /\ entries = Root
    /\ node = None
    /\ access = 0
    /\ step = "start"

Refuse == step' = "refused" /\ UNCHANGED <<path, call, flags, pathIndex, component, entries, node, access>>

(* The first checks of vfs_walk_path. *)
Start ==
    /\ step = "start"
    /\ IF Char(1) # Separator \/ Char(2) = Terminator
       THEN Refuse
       ELSE /\ pathIndex' = 2
            /\ step' = "copy"
            /\ UNCHANGED <<path, call, flags, component, entries, node, access>>

\* Mutant: the terminator has no room.
BufferFull_Exact == Len(component) >= BufferSize

BufferFull == Len(component) + 1 >= BufferSize

EndOfComponent(c) == c \in {Terminator, Separator}

(* An iteration of the inner loop. *)
CopyChar ==
    /\ step = "copy"
    /\ ~EndOfComponent(Char(pathIndex))
    /\ IF BufferFull
       THEN Refuse
       ELSE /\ component' = Append(component, Char(pathIndex))
            /\ pathIndex' = pathIndex + 1
            /\ UNCHANGED <<path, call, flags, entries, node, access, step>>

\* Mutant: a name that begins with the component will do.
string_equal_Prefix(name, text) == Len(text) <= Len(name) /\ text = SubSeq(name, 1, Len(text))

string_equal(name, text) == name = text

Matching == {m \in DOMAIN Tree[entries] : string_equal(m, component)}

(* vfs_find_child at the end of a component: the walk returns the node,    *)
(* gives up, or goes on in the directory that was found.                   *)
FindChild ==
    /\ step = "copy"
    /\ EndOfComponent(Char(pathIndex))
    /\ IF component = <<>> \/ Matching = {}
       THEN Refuse
       ELSE LET found == Tree[entries][CHOOSE m \in Matching : TRUE]
            IN  CASE Char(pathIndex) = Terminator ->
                        /\ node' = found
                        /\ step' = "walked"
                        /\ UNCHANGED <<path, call, flags, pathIndex, component, entries, access>>
                  [] Char(pathIndex) # Terminator /\ (found \notin Directories \/ Char(pathIndex + 1) = Terminator) ->
                        Refuse
                  [] OTHER ->
                        /\ entries' = found
                        /\ pathIndex' = pathIndex + 1
                        /\ component' = <<>>
                        /\ UNCHANGED <<path, call, flags, node, access, step>>

vfs_open_flags_valid(a) == a \in {VFS_ACCESS_READ, VFS_ACCESS_WRITE, VFS_ACCESS_READ + VFS_ACCESS_WRITE}

(* The bits of an access that vfs_file_open tests. *)
Bits(a) == {b \in {VFS_ACCESS_READ, VFS_ACCESS_WRITE} : (a \div b) % 2 = 1}

\* Mutant: the node's operations are not asked.
Offers_Any(n, a) == TRUE

(* Whether the node has the operations for an access. *)
Offers(n, a) == Bits(a) \subseteq Ops[n]

Openable(n, a) == n \notin Directories /\ vfs_open_flags_valid(a) /\ Offers(n, a)

\* Mutant: the flags are checked in their full width.
LowWord_All(f) == f

(* The cast of the flags to uint32_t. *)
LowWord(f) == f % FlagWord

(* vfs_open_path, with the flags cast to uint32_t, and vfs_open_exec_path, *)
(* which opens an executable without any access.  That the heap may have   *)
(* no room for the file is a part of FileTable.                            *)
Open ==
    /\ step = "walked"
    /\ LET a == IF call = "open" THEN LowWord(flags) ELSE 0
       IN  IF (call = "open" /\ Openable(node, a)) \/ (call = "exec" /\ node \in Executables)
           THEN /\ access' = a
                /\ step' = "opened"
                /\ UNCHANGED <<path, call, flags, pathIndex, component, entries, node>>
           ELSE Refuse

WalkNext == Start \/ CopyChar \/ FindChild \/ Open

WalkSpec == WalkInit /\ [][WalkNext]_walkVars

-----------------------------------------------------------------------------
(* Properties *)

(* Every variable has its type; the component with its terminator fits its *)
(* buffer, and the walk looks at no character past the terminator of the   *)
(* path.                                                                   *)
WalkTypeOK ==
    /\ pathIndex \in 1..(Len(path) + 1)
    /\ component \in Seq(Letters) /\ Len(component) + 1 <= BufferSize
    /\ entries \in DOMAIN Tree
    /\ node \in Nodes \cup {None}
    /\ access \in 0..3

(* The spellings of a node: the names on the way to it. *)
Spellings(n) ==
    LET In(d) == {m \in DOMAIN Tree[d] : Tree[d][m] = n}
    IN  {<<Separator>> \o m : m \in In(Root)} \cup
        UNION {{<<Separator>> \o x \o <<Separator>> \o m : m \in In(Tree[Root][x])} :
                  x \in {y \in DOMAIN Tree[Root] : Tree[Root][y] \in Directories}}

(* The walk finds a node exactly by its full name: no doubled or trailing  *)
(* slash, no prefix and no name that is too long leads to a node, and no   *)
(* node is missed.                                                         *)
WalkIsExact ==
    /\ step \in {"walked", "opened"} => path \in Spellings(node)
    /\ step = "refused" /\ node = None => \A n \in Nodes : path \notin Spellings(n)

(* The accesses a program can ask for, the number that stands for each,    *)
(* and whether the flags ask for it: they are that number, but for a       *)
(* multiple of 2^32 that the kernel does not look at.                      *)
Rights == {{VFS_ACCESS_READ}, {VFS_ACCESS_WRITE}, {VFS_ACCESS_READ, VFS_ACCESS_WRITE}}
Code(right) == IF right = {VFS_ACCESS_READ, VFS_ACCESS_WRITE} THEN VFS_ACCESS_READ + VFS_ACCESS_WRITE
               ELSE CHOOSE b \in right : TRUE
Asks(right) == \E high \in 0..flags : flags = Code(right) + high * FlagWord

(* What a call deserves, in words of the path that came in and the flags as *)
(* the program passed them: the node it may open and the access it gets.   *)
Deserves(n, a) ==
    /\ n \in Nodes /\ path \in Spellings(n)
    /\ \/ call = "exec" /\ n \in Executables /\ a = 0
       \/ /\ call = "open" /\ n \notin Directories
          /\ \E right \in Rights : Asks(right) /\ right \subseteq Ops[n] /\ a = Code(right)

(* A call ends as it deserves: it opens a node that its path spells with    *)
(* exactly the access that its flags ask for and the node serves, and it   *)
(* is refused, in the walk or behind it, only if no node spelled by the    *)
(* path would do.                                                          *)
CallVerdict ==
    /\ step = "opened" => Deserves(node, access)
    /\ step = "refused" => \A n \in Nodes, a \in 0..3 : ~Deserves(n, a)

(* The walk stays in its path and its buffer, and is exact.                *)
WalkSound == WalkTypeOK /\ WalkIsExact
=============================================================================
