----------------------------- MODULE KernelHeap ------------------------------
(***************************************************************************)
(* Who calls the heap, and with which sizes: the self tests of kernel_main *)
(* (palloc.c, heap.c, vfs.c and fd.c), the consoles of the two tasks, and  *)
(* then open, close, exec and exit of the user task.  Module Heap supplies *)
(* kmalloc and kfree, module FileTable the reference counts; here an       *)
(* object is freed when FileTable says it is.                              *)
(*                                                                         *)
(* Handlers are not preemptible, so a call is a script: a sequence of      *)
(* instructions that one action executes from its head.  A descriptor      *)
(* that shares its file with another one does not concern the heap; the    *)
(* table is therefore the set of the files it leads to.                    *)
(*                                                                         *)
(* Beside the kernel as it is, module Heap's own client, which calls       *)
(* kmalloc and kfree in any order (call = "any"), is a behaviour of this   *)
(* module: the list of blocks is checked under both.                       *)
(***************************************************************************)
EXTENDS Heap

CONSTANT FdCapacity     \* fd_table_capacity

ASSUME CapacityAssumption == FdCapacity \in Nat /\ FdCapacity >= 3

VARIABLES
    memory,     \* pages of this machine when palloc_initialize is done
    test,       \* index of the next part of BootOrder
    todo,       \* what is left of the script under way
    ptr,        \* the objects local variables and structures point to
    opened,     \* the files the user task has opened
    call,       \* "none", or the call that empties the table: "exec", "exit";
                \* "any" instead of all this for a client with no script
    failed,     \* the self tests that have written "fail"
    layout      \* the blocks when the user task started

client == <<memory, test, ptr, opened, call, failed, layout>>
allVars == <<heapVars, todo, client>>

-----------------------------------------------------------------------------
(* sizeof *)
FileSize == 32          \* struct vfs_file
NodeSize == 24          \* struct vfs_node
InputSize == 12         \* struct fd_console_input
OutputSize == 4         \* struct fd_console_output
PlaceholderSize == 8    \* struct fd_placeholder
TestDataSize == 12      \* struct vfs_self_test_data

-----------------------------------------------------------------------------
(* Instructions.  A name stands for a pointer; Null is its value after an  *)
(* allocation that failed.                                                 *)
Instruction(op, name, size, names, else) ==
    [op |-> op, name |-> name, size |-> size, names |-> names, else |-> else]

alloc(name, size) == Instruction("alloc", name, size, {}, <<>>)
free(name) == Instruction("free", name, 0, {}, <<>>)
close(name) == Instruction("close", name, 0, {}, <<>>)
page(name) == Instruction("page", name, 0, {}, <<>>)
unpage(name) == Instruction("unpage", name, 0, {}, <<>>)
null(name) == Instruction("null", name, 0, {}, <<>>)
install(name) == Instruction("install", name, 0, {}, <<>>)
fail(text) == Instruction("fail", text, 0, {}, <<>>)
halt == Instruction("halt", "", 0, {}, <<>>)
(* If one of the names is Null: do else, and leave the script, or leave    *)
(* out its next n instructions.                                            *)
check(names, else) == Instruction("check", "", 0, names, else)
unless(names, else, n) == Instruction("unless", "", n, names, else)

PallocTest ==
    LET first == <<"palloc", "first">>
        second == <<"palloc", "second">>
    IN  <<page(first), page(second), check({first, second}, <<fail("palloc")>>),
          unpage(second), unpage(first)>>

HeapTest ==
    LET first == <<"heap", "first">>
        second == <<"heap", "second">>
        third == <<"heap", "third">>
        merged == <<"heap", "merged">>
    IN  <<alloc(first, 32), alloc(second, 64), alloc(third, 24),
          check({first, second, third}, <<fail("heap")>>),
          free(second), free(first), alloc(merged, 80), check({merged}, <<fail("heap")>>),
          free(merged), free(third)>>

(* A file on a node of the namespace, opened and closed again; the opens   *)
(* that must fail do so before they allocate.                              *)
OpenedAndClosed == <<alloc(<<"vfs", "file">>, FileSize), check({<<"vfs", "file">>}, <<fail("vfs")>>), free(<<"vfs", "file">>)>>

VfsTest ==
    <<alloc(<<"vfs", "data">>, TestDataSize), alloc(<<"vfs", "node">>, NodeSize),
      check({"vfs"} \X {"data", "node"}, <<fail("vfs"), free(<<"vfs", "data">>), free(<<"vfs", "node">>)>>),
      alloc(<<"vfs", "file">>, FileSize), check({<<"vfs", "file">>}, <<fail("vfs")>>),
      free(<<"vfs", "file">>), free(<<"vfs", "node">>), free(<<"vfs", "data">>)>>
    \o OpenedAndClosed \o OpenedAndClosed \o OpenedAndClosed \o OpenedAndClosed

(* fd_make_placeholder_file, and the close that releases it. *)
Placeholder(i) ==
    <<alloc(<<"fd", "data", i>>, PlaceholderSize), alloc(<<"fd", "node", i>>, NodeSize),
      unless({<<"fd", "data", i>>, <<"fd", "node", i>>},
             <<free(<<"fd", "data", i>>), free(<<"fd", "node", i>>), null(<<"fd", "file", i>>)>>, 1),
      alloc(<<"fd", "file", i>>, FileSize)>>
Installed(is) == <<check({<<"fd", "file", i>> : i \in is}, <<fail("fd")>>)>>
Released(i) == <<free(<<"fd", "file", i>>), free(<<"fd", "data", i>>), free(<<"fd", "node", i>>)>>

\* Mutant: the data of the input console is not freed.
Release_Leaks(name) ==
    IF name[2] = "in"
    THEN <<free(<<name[1], "in_node">>)>>
    ELSE <<free(<<name[1], "out_data">>), free(<<name[1], "out_node">>)>>

(* fd_console_input_release and fd_console_output_release. *)
Release(name) ==
    IF name[2] = "in"
    THEN <<free(<<name[1], "in_data">>), free(<<name[1], "in_node">>)>>
    ELSE <<free(<<name[1], "out_data">>), free(<<name[1], "out_node">>)>>

Standard(o) == {<<o, "in">>, <<o, "out">>, <<o, "err">>}

(* fd_table_seed_console for the table of an owner, and what its caller    *)
(* does when there is no memory for it.                                    *)
Seed(o, otherwise) ==
    <<alloc(<<o, "in_data">>, InputSize), alloc(<<o, "out_data">>, OutputSize),
      alloc(<<o, "in_node">>, NodeSize), alloc(<<o, "out_node">>, NodeSize),
      check({o} \X {"in_data", "out_data", "in_node", "out_node"},
            <<free(<<o, "in_data">>), free(<<o, "out_data">>),
              free(<<o, "in_node">>), free(<<o, "out_node">>)>> \o otherwise),
      alloc(<<o, "in">>, FileSize), alloc(<<o, "out">>, FileSize), alloc(<<o, "err">>, FileSize),
      check(Standard(o), <<close(<<o, "in">>), close(<<o, "out">>), close(<<o, "err">>)>> \o otherwise)>>

\* Mutant: the input of the console is not closed.
FdTest_OpenInput ==
    Placeholder(1) \o Placeholder(2) \o Installed({1, 2}) \o Released(1) \o Released(2)
    \o Seed("test", <<fail("fd")>>)
    \o <<close(<<"test", "out">>), close(<<"test", "err">>)>>
    \o FlattenSeq([i \in 1..FdCapacity |-> Placeholder(i) \o Installed({i})])
    \o FlattenSeq([i \in 1..FdCapacity |-> Released(i)])

(* fd_self_test.  The copy it makes of descriptor 1 is another holder of   *)
(* the same file, and the copy for a full table is given up at once.       *)
FdTest ==
    Placeholder(1) \o Placeholder(2) \o Installed({1, 2}) \o Released(1) \o Released(2)
    \o Seed("test", <<fail("fd")>>)
    \o <<close(<<"test", "out">>), close(<<"test", "in">>), close(<<"test", "err">>)>>
    \o FlattenSeq([i \in 1..FdCapacity |-> Placeholder(i) \o Installed({i})])
    \o FlattenSeq([i \in 1..FdCapacity |-> Released(i)])

(* The callers of the heap in kernel_main: four self tests, and the        *)
(* descriptors of the two tasks in sched_initialize.                       *)
BootOrder ==
    <<PallocTest, HeapTest, VfsTest, FdTest, Seed("idle", <<halt>>), Seed("user", <<halt>>)>>
SelfTests == 4

-----------------------------------------------------------------------------
(* The pages this machine does not have: nobody ever gives them back. *)
Missing == (memory + 1)..NumPages

ClientInit ==
    /\ call \in {"boot", "any"}
    /\ memory \in IF call = "boot" THEN 0..NumPages ELSE {NumPages}
    /\ freeList = palloc_initialize(memory)
    /\ free_page_count = memory
    /\ held = Missing
    /\ blocks = <<>>
    /\ ranges = <<>>
    /\ test = 1
    /\ todo = <<>>
    /\ ptr = <<>>
    /\ opened = {}
    /\ failed = {}
    /\ layout = <<>>

Bound(name, p) == [n \in DOMAIN ptr \cup {name} |-> IF n = name THEN p ELSE ptr[n]]
Dropped(name) == [n \in DOMAIN ptr \ {name} |-> ptr[n]]
Live(name) == name \in DOMAIN ptr /\ ptr[name] # Null

At(op) == todo # <<>> /\ Head(todo).op = op
Name == Head(todo).name
Continue == todo' = Tail(todo)
settled == <<memory, test, opened, call, failed, layout>>

(* kmalloc: found, grown, or NULL. *)
NoMemory(size) ==
    /\ ~Found(blocks, align_up(size))
    /\ align_up(size) > Capacity \/ freeList = <<>>
Allocate ==
    /\ At("alloc")
    /\ LET size == Head(todo).size
       IN  \/ /\ kmalloc(size)
              /\ ptr' = Bound(Name, CHOOSE p \in DOMAIN ranges' : p \notin DOMAIN ranges)
           \/ /\ NoMemory(size)
              /\ ptr' = Bound(Name, Null)
              /\ UNCHANGED heapVars
    /\ Continue
    /\ UNCHANGED settled

(* kfree, which takes NULL. *)
FreeObject ==
    /\ At("free")
    /\ IF Live(Name) THEN kfree(ptr[Name]) ELSE UNCHANGED heapVars
    /\ ptr' = Dropped(Name)
    /\ Continue
    /\ UNCHANGED settled

(* palloc_alloc and palloc_free of palloc_self_test. *)
TakePage ==
    /\ At("page")
    /\ \/ OtherAlloc /\ ptr' = Bound(Name, palloc_alloc(freeList))
       \/ freeList = <<>> /\ ptr' = Bound(Name, Null) /\ UNCHANGED heapVars
    /\ Continue
    /\ UNCHANGED settled
GivePage ==
    /\ At("unpage")
    /\ OtherFree(ptr[Name])
    /\ ptr' = Dropped(Name)
    /\ Continue
    /\ UNCHANGED settled

SetNull ==
    /\ At("null")
    /\ ptr' = Bound(Name, Null)
    /\ Continue
    /\ UNCHANGED <<heapVars, settled>>

Branch ==
    /\ At("check") \/ At("unless")
    /\ LET i == Head(todo)
           rest == IF i.op = "check" THEN <<>> ELSE SubSeq(todo, i.size + 2, Len(todo))
       IN  todo' = IF \A n \in i.names : Live(n) THEN Tail(todo) ELSE i.else \o rest
    /\ UNCHANGED <<heapVars, client>>

Complain ==
    /\ At("fail")
    /\ failed' = failed \cup {Name}
    /\ Continue
    /\ UNCHANGED <<heapVars, memory, test, ptr, opened, call, layout>>

Halt ==
    /\ At("halt")
    /\ call' = "halted"
    /\ Continue
    /\ UNCHANGED <<heapVars, memory, test, ptr, opened, failed, layout>>

-----------------------------------------------------------------------------
(* vfs_file_close by the last holder of a standard file: stdout and stderr *)
(* share their node.                                                       *)
Partner(name) ==
    CASE name[2] = "in" -> name
      [] name[2] = "out" -> <<name[1], "err">>
      [] name[2] = "err" -> <<name[1], "out">>
LastOnNode(name) == Partner(name) = name \/ ~Live(Partner(name))
Closing(name) ==
    IF ~Live(name) THEN <<>>
    ELSE <<free(name)>> \o (IF LastOnNode(name) THEN Release(name) ELSE <<>>)

CloseStep ==
    /\ At("close")
    /\ todo' = Closing(Name) \o Tail(todo)
    /\ UNCHANGED <<heapVars, client>>

(* kernel_main goes on to the next self test, and to the tasks. *)
NextTest ==
    /\ todo = <<>>
    /\ call = "boot"
    /\ IF test > Len(BootOrder)
       THEN call' = "none" /\ layout' = blocks /\ UNCHANGED <<todo, test>>
       ELSE todo' = BootOrder[test] /\ test' = test + 1 /\ UNCHANGED <<call, layout>>
    /\ UNCHANGED <<heapVars, memory, ptr, opened, failed>>

-----------------------------------------------------------------------------
(* System calls of the user task *)

Idle == todo = <<>> /\ call = "none"
OpenFiles == Cardinality({n \in Standard("user") : Live(n)}) + Cardinality(opened)
New == <<"user", "new">>

SysOpen ==
    /\ Idle
    /\ todo' = <<alloc(New, FileSize), check({New}, <<>>), install(New)>>
    /\ UNCHANGED <<heapVars, client>>

\* Mutant: a file that finds no descriptor is forgotten.
Refused_Kept(name) == <<>>

(* fd_table_install on a full table: the caller closes the file. *)
Refused(name) == <<free(name)>>

(* A table is full with this many files, or with fewer that are shared.    *)
Install ==
    /\ At("install")
    /\ \/ /\ OpenFiles < FdCapacity
          /\ opened' = opened \cup {ptr[Name]}
          /\ ptr' = Dropped(Name)
          /\ Continue
       \/ /\ OpenFiles > 0
          /\ todo' = Refused(Name) \o Tail(todo)
          /\ UNCHANGED <<ptr, opened>>
    /\ UNCHANGED <<heapVars, memory, test, call, failed, layout>>

\* Mutant: the entry of a closed file is not cleared.
Remaining_All(p) == opened

(* fd_table_close clears the entry. *)
Remaining(p) == opened \ {p}

(* The last descriptor of a file is closed: by SYS_CLOSE, or by            *)
(* fd_table_close_all, whose order is that of the descriptors.             *)
CloseFile ==
    /\ todo = <<>> /\ call \in {"none", "exec", "exit"}
    /\ \/ \E p \in opened :
            /\ kfree(p)
            /\ opened' = Remaining(p)
            /\ UNCHANGED todo
       \/ \E n \in Standard("user") :
            /\ Live(n)
            /\ todo' = Closing(n)
            /\ UNCHANGED <<heapVars, opened>>
    /\ UNCHANGED <<memory, test, ptr, call, failed, layout>>

(* SYS_EXEC opens and closes the file of the image; then it fails (module  *)
(* Process) or goes on to the table.                                       *)
SysExec ==
    /\ Idle
    /\ todo' = <<alloc(New, FileSize), check({New}, <<>>), free(New)>>
    /\ call' \in {"none", "exec"}
    /\ UNCHANGED <<heapVars, memory, test, ptr, opened, failed, layout>>

SysExit ==
    /\ Idle
    /\ call' = "exit"
    /\ UNCHANGED <<heapVars, todo, memory, test, ptr, opened, failed, layout>>

(* The table is empty. *)
TableClosed ==
    /\ todo = <<>> /\ OpenFiles = 0
    /\ \/ call = "exec" /\ todo' = Seed("user", <<>>) /\ call' = "seeding"
       \/ call = "exit" /\ UNCHANGED todo /\ call' = "done"
    /\ UNCHANGED <<heapVars, memory, test, ptr, opened, failed, layout>>

ExecReturns ==
    /\ todo = <<>> /\ call = "seeding"
    /\ call' = "none"
    /\ UNCHANGED <<heapVars, todo, memory, test, ptr, opened, failed, layout>>

(* Module Heap's client. *)
AnyClient == call = "any" /\ HeapNext /\ UNCHANGED <<todo, client>>

BootNext ==
    \/ Allocate \/ FreeObject \/ TakePage \/ GivePage \/ SetNull \/ Branch \/ Complain \/ Halt
    \/ CloseStep \/ NextTest

ClientNext ==
    \/ AnyClient
    \/ BootNext
    \/ SysOpen \/ Install \/ CloseFile \/ SysExec \/ SysExit \/ TableClosed \/ ExecReturns

ClientSpec == ClientInit /\ [][ClientNext]_allVars

-----------------------------------------------------------------------------
(* Properties *)

(* Every variable of the callers has its type. *)
ClientTypeOK ==
    /\ memory \in 0..NumPages
    /\ test \in 1..(Len(BootOrder) + 1)
    /\ \A n \in DOMAIN ptr : ptr[n] \in Nat
    /\ opened \subseteq DOMAIN ranges
    /\ call \in {"any", "boot", "none", "exec", "seeding", "exit", "done", "halted"}
    /\ failed \subseteq {"palloc", "heap", "vfs", "fd"}

(* With the sizes of the kernel's structures one page serves everything    *)
(* the kernel ever asks of its heap at the same time: the largest self     *)
(* test, both consoles and a full table, in whatever order files were      *)
(* opened and closed.  The heap takes that page before the first user      *)
(* task and never another one, so that it does not compete with exec for   *)
(* pages, as module Process takes for granted.                             *)
OneHeapPage ==
    call # "any" => Cardinality({blocks[i].addr \div PageSize : i \in DOMAIN blocks}) <= 1

(* The self tests pass on every machine with two pages, and they give back *)
(* everything: what is left is one free block as large as the page.        *)
SelfTestsLeaveNothing ==
    (memory >= 2 /\ test = SelfTests + 1 /\ todo = <<>>) =>
        /\ failed = {}
        /\ ranges = <<>> /\ held = Missing /\ Len(freeList) = memory - 1
        /\ Len(blocks) = 1 /\ blocks[1].free /\ blocks[1].size = Capacity

(* Every range in use is some object's, and two objects never share one:   *)
(* none is leaked, and no kfree is given a pointer twice.                  *)
EveryObjectHeld ==
    (call # "any" /\ failed = {}) =>
        LET names == {n \in DOMAIN ptr : Live(n) /\ ptr[n] \notin held}
        IN  /\ DOMAIN ranges = {ptr[n] : n \in names} \cup opened
            /\ \A m, n \in names : ptr[m] = ptr[n] => m = n
            /\ \A n \in names : ptr[n] \notin opened

(* No object of the kernel is lost or freed twice, in the self tests or    *)
(* after them, and the callers' own variables are what they seem.          *)
ObjectsSound == ClientTypeOK /\ EveryObjectHeld /\ SelfTestsLeaveNothing

(* A program starts on the heap the first one started on: whatever the     *)
(* program before it has opened and closed, after an exec the blocks lie   *)
(* as they did after boot, so that no number of programs fragments it.     *)
ExecStartsClean == [][call = "seeding" /\ call' = "none" => blocks = layout]_allVars
=============================================================================
