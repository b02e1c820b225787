------------------------------ MODULE Process -------------------------------
(***************************************************************************)
(* The life of a user task in platinum: the boot path that builds the      *)
(* first one, the two-task scheduler, the timer, and the exec and exit     *)
(* system calls with everything they allocate and free (kernel/sched.c,    *)
(* kernel/core.c, the loader half of kernel/elf.c, the address spaces of   *)
(* kernel/paging.c, on top of kernel/palloc.c).                            *)
(*                                                                         *)
(* One CPU runs it all, and every gate clears the interrupt flag, so a     *)
(* handler is never interrupted: the timer and the system calls start only *)
(* where pc = "running".  A handler is nevertheless split into the steps   *)
(* between which memory changes hands (variable pc), because the CPU uses  *)
(* the page tables and the image of the current task during all of them:   *)
(* the invariants have to hold inside a handler too.                       *)
(*                                                                         *)
(* Pages are numbers, 0 is the null page, and two pages that the kernel    *)
(* allocated before this module starts have numbers above NumPages: the    *)
(* kernel's PML4 and the TSS stack.  An address space is the PML4 page and *)
(* the private PDPT, PD and PT that paging_map_user_page hangs below it    *)
(* (the whole user layout, 0x40000000..0x40200000, lies in one PT).        *)
(***************************************************************************)
EXTENDS PageList

CONSTANTS
    NumPages,      \* bound on the pages the allocator manages
    LoadBase,      \* elf_user_load_base: first page of the loader's window
    Programs,      \* the images of the embedded registry
    NoProgram,     \* content of a page that holds no loaded image
    Span,          \* Span[p]: pages between the lowest and highest segment
    BadImages,     \* images elf_load_user_image refuses before it claims
    Configs        \* the builds and machines considered

(* A build and a machine: the user-init option, whether sched_exec_current *)
(* refuses every bootstrap (USER_TEST_EXEC_TRANSFER_FAIL, or no heap left  *)
(* for the console descriptors), and the number of pages on the free list  *)
(* once kernel_main has set up the heap, the TSS stack and its own tables. *)
Config == [init : {"off", "c", "elf"}, refuse : BOOLEAN, pages : 0..NumPages]

ASSUME ConstantsAssumption ==
    /\ NumPages \in Nat
    /\ LoadBase \in Nat \ {0}
    /\ NoProgram \notin Programs
    /\ Span \in [Programs -> Nat \ {0}]
    /\ BadImages \subseteq Programs
    /\ Configs \subseteq Config

Pages == 1..NumPages
KernelSpace == NumPages + 1     \* paging_kernel_pml4
TssStack == NumPages + 2        \* the ring 0 stack of the TSS

Tasks == {0, 1}                 \* task0, task1
NoTask == 2                     \* current = 0

(* struct user_task_bootstrap, with the tables reachable from its          *)
(* address_space and, in prog, the image that was loaded.                  *)
NoBootstrap ==
    [pml4 |-> Null, pdpt |-> Null, pd |-> Null, pt |-> Null,
     stack |-> Null, begin |-> Null, end |-> Null, prog |-> NoProgram]

VARIABLES
    config,     \* the build and the machine, chosen once
    freeList,   \* the allocator's list
    holds,      \* holds[p]: the image whose bytes page p holds
    state,      \* task->state
    rsp,        \* task->rsp, as the page the saved frame lies in
    space,      \* task->cr3
    boot,       \* task1.user_bootstrap (task0's is never set)
    current,
    started,    \* sched_started
    cr3,        \* the CPU's CR3
    pc,         \* where the kernel is; "running" when a task runs
    target,     \* the image being loaded
    page,       \* loop variable of claim_window_pages
    fresh,      \* the bootstrap under construction
    old,        \* the bootstrap being released
    lost        \* pages nobody has and nobody can allocate

vars == <<config, freeList, holds, state, rsp, space, boot, current, started, cr3, pc,
          target, page, fresh, old, lost>>
memory == <<freeList, holds, lost>>
schedule == <<state, rsp, space, boot, current, started, cr3>>
request == <<config, target, page>>

(* The task records do not exist yet: kernel_main is before sched_initialize. *)
Booting == state[0] = "UNUSED"

user_task_enabled == config.init # "off"

Kind(t) == IF t = 1 /\ user_task_enabled THEN "USER" ELSE "KERNEL"

Init ==
    /\ config \in Configs
    /\ freeList = palloc_initialize(config.pages)
    /\ holds = [p \in Pages |-> NoProgram]
    /\ state = [t \in Tasks |-> "UNUSED"]
    /\ rsp = [t \in Tasks |-> Null]
    /\ space = [t \in Tasks |-> Null]
    /\ boot = NoBootstrap
    /\ current = NoTask
    /\ started = FALSE
    /\ cr3 = KernelSpace
    /\ pc = IF user_task_enabled THEN "create" ELSE "init0"
    /\ target \in Programs
    /\ page = LoadBase
    /\ fresh = NoBootstrap
    /\ old = NoBootstrap
    /\ lost = {}

-----------------------------------------------------------------------------
(* Building a bootstrap: configure_first_user_task when Booting, and       *)
(* syscall_prepare_exec_bootstrap otherwise.  At boot every failure halts; *)
(* in exec it unwinds and returns -1.                                      *)

CBoot == Booting /\ config.init = "c"

\* Mutant: configure_first_user_task goes on after a failure.
FailTo_AlwaysReturns(step) == step

FailTo(step) == IF Booting THEN "halted" ELSE step

(* paging_create_user_address_space: a PML4 that shares the kernel's tables. *)
CreateAddressSpace ==
    /\ pc = "create"
    /\ IF freeList = <<>>
       THEN /\ pc' = FailTo("running")
            /\ UNCHANGED <<memory, fresh>>
       ELSE /\ fresh' = [NoBootstrap EXCEPT !.pml4 = palloc_alloc(freeList)]
            /\ freeList' = AfterAlloc(freeList)
            /\ holds' = [holds EXCEPT ![palloc_alloc(freeList)] = NoProgram]
            /\ pc' = IF CBoot THEN "stack" ELSE "validate"
            /\ UNCHANGED lost
    /\ UNCHANGED <<schedule, request, old>>

(* elf_load_user_image up to the claim: header, segments, entry and size.  *)
ValidateImage ==
    /\ pc = "validate"
    /\ IF target \in BadImages
       THEN pc' = FailTo("drop_space") /\ UNCHANGED page
       ELSE pc' = "claim" /\ page' = LoadBase
    /\ UNCHANGED <<memory, schedule, config, target, fresh, old>>

LoadEnd == LoadBase + Span[target]

\* Mutant: the loader is not told about the caller's image.
Reusable_Never(p) == FALSE

(* page_in_range over the image of the task that calls exec. *)
Reusable(p) == boot.begin # Null /\ boot.begin <= p /\ p < boot.end

(* Frees the pages of [b, e) that are not Reusable. *)
FreeUnlessReusable(list, b, e) ==
    LET clamp(x) == IF x < b THEN b ELSE IF x > e THEN e ELSE x
    IN  IF boot.begin = Null
        THEN FreeRangeExcept(list, b, e, b, b)
        ELSE FreeRangeExcept(list, b, e, clamp(boot.begin), clamp(boot.end))

(* One turn of claim_window_pages.  A page that is neither free nor part   *)
(* of the caller's own image fails the claim, which gives back what it     *)
(* took.                                                                   *)
ClaimWindowPage ==
    /\ pc = "claim"
    /\ page < LoadEnd
    /\ IF Reusable(page)
       THEN page' = page + 1 /\ UNCHANGED <<freeList, holds, pc>>
       ELSE IF Listed(freeList, page)
       THEN /\ freeList' = palloc_take(freeList, page)
            /\ page' = page + 1
            /\ UNCHANGED <<holds, pc>>
       ELSE /\ freeList' = FreeUnlessReusable(freeList, LoadBase, page)
            /\ holds' = [p \in Pages |-> IF p \in LoadBase..(page - 1) /\ ~Reusable(p)
                                         THEN NoProgram ELSE holds[p]]
            /\ page' = LoadBase
            /\ pc' = FailTo("drop_space")
    /\ UNCHANGED <<schedule, config, target, fresh, old, lost>>

(* clear_window and the load_segment loop write every claimed page, the    *)
(* caller's own image pages included.                                      *)
LoadSegments ==
    /\ pc = "claim"
    /\ page = LoadEnd
    /\ holds' = [p \in Pages |-> IF p \in LoadBase..(LoadEnd - 1) THEN target ELSE holds[p]]
    /\ fresh' = [fresh EXCEPT !.begin = LoadBase, !.end = LoadEnd, !.prog = target]
    /\ page' = LoadBase
    /\ pc' = "map"
    /\ UNCHANGED <<freeList, lost, schedule, config, target, old>>

(* ensure_private_user_path and map_page_4k: the first mapping of an       *)
(* address space clones or creates its PDPT, then its PD, then its PT;     *)
(* later mappings find them private.                                       *)
WithTables(b) == [b EXCEPT !.pdpt = freeList[1], !.pd = freeList[2], !.pt = freeList[3]]

(* paging_map_user_page halts the machine when a table cannot be allocated. *)
MapUserPages ==
    /\ pc = "map"
    /\ IF Len(freeList) < 3
       THEN pc' = "halted" /\ UNCHANGED <<memory, fresh>>
       ELSE /\ fresh' = WithTables(fresh)
            /\ freeList' = SubSeq(freeList, 4, Len(freeList))
            /\ holds' = [holds EXCEPT ![freeList[1]] = NoProgram,
                                      ![freeList[2]] = NoProgram,
                                      ![freeList[3]] = NoProgram]
            /\ pc' = IF CBoot THEN "init0" ELSE "stack"
            /\ UNCHANGED lost
    /\ UNCHANGED <<schedule, request, old>>

(* The user stack.  In exec a failure goes to elf_load_user_image's fail   *)
(* label; a C first task has its stack before its tables.                  *)
AllocUserStack ==
    /\ pc = "stack"
    /\ IF freeList = <<>>
       THEN pc' = FailTo("drop_image") /\ UNCHANGED <<memory, fresh>>
       ELSE /\ fresh' = [fresh EXCEPT !.stack = palloc_alloc(freeList)]
            /\ freeList' = AfterAlloc(freeList)
            /\ holds' = [holds EXCEPT ![palloc_alloc(freeList)] = NoProgram]
            /\ pc' = IF CBoot THEN "map" ELSE IF Booting THEN "init0" ELSE "transfer"
            /\ UNCHANGED lost
    /\ UNCHANGED <<schedule, request, old>>

(* The content of the pages of a set once palloc_free has written its link *)
(* into them.                                                              *)
Unloaded(freed) == [p \in Pages |-> IF p \in freed THEN NoProgram ELSE holds[p]]

ImagePages(b) == b.begin..(b.end - 1)

(* elf_load_user_image's fail label: elf_release_user_image spares the     *)
(* pages of the caller's image.                                            *)
DropImage ==
    /\ pc = "drop_image"
    /\ freeList' = FreeUnlessReusable(palloc_free(freeList, fresh.stack),
                                      fresh.begin, fresh.end)
    /\ holds' = Unloaded({p \in ImagePages(fresh) : ~Reusable(p)} \cup {fresh.stack})
    /\ fresh' = [fresh EXCEPT !.stack = Null, !.begin = Null, !.end = Null,
                              !.prog = NoProgram]
    /\ pc' = "drop_space"
    /\ UNCHANGED <<lost, schedule, request, old>>

(* paging_release_user_address_space frees the private tables bottom up    *)
(* and then the PML4.                                                      *)
Tables(b) == {b.pt, b.pd, b.pdpt, b.pml4}

\* Mutant: the page table is forgotten.
FreeSpace_KeepsPt(list, b) ==
    palloc_free(palloc_free(palloc_free(list, b.pd), b.pdpt), b.pml4)

FreeSpace(list, b) ==
    palloc_free(palloc_free(palloc_free(palloc_free(list, b.pt), b.pd), b.pdpt), b.pml4)

(* The end of an exec that failed: the caller gets -1 and goes on. *)
DropSpace ==
    /\ pc = "drop_space"
    /\ freeList' = FreeSpace(freeList, fresh)
    /\ holds' = Unloaded(Tables(fresh))
    /\ fresh' = NoBootstrap
    /\ pc' = "running"
    /\ UNCHANGED <<lost, schedule, request, old>>

-----------------------------------------------------------------------------
\* Mutant: the frame is built on the stack of the bootstrap in place.
task_build_user_stack_InPlace(b) == boot.stack

(* task_build_user_stack: the first frame lies in the user stack page. *)
task_build_user_stack(b) == b.stack

(* task_create_kernel: a stack page with the first frame in it, and the    *)
(* kernel's address space.  Without a page the machine halts.              *)
task_create_kernel(t, step) ==
    /\ IF freeList = <<>>
       THEN pc' = "halted" /\ UNCHANGED <<memory, state, rsp, space>>
       ELSE /\ rsp' = [rsp EXCEPT ![t] = palloc_alloc(freeList)]
            /\ space' = [space EXCEPT ![t] = KernelSpace]
            /\ state' = [state EXCEPT ![t] = "RUNNABLE"]
            /\ freeList' = AfterAlloc(freeList)
            /\ holds' = [holds EXCEPT ![palloc_alloc(freeList)] = NoProgram]
            /\ pc' = step
            /\ UNCHANGED lost
    /\ UNCHANGED <<boot, current, started, cr3, request, fresh, old>>

(* sched_initialize: the idle task, ... *)
CreateIdleTask == pc = "init0" /\ task_create_kernel(0, "init1")

(* ... and the user task from the bootstrap of configure_first_user_task, ... *)
CreateUserTask ==
    /\ pc = "init1"
    /\ user_task_enabled
    /\ rsp' = [rsp EXCEPT ![1] = task_build_user_stack(fresh)]
    /\ space' = [space EXCEPT ![1] = fresh.pml4]
    /\ state' = [state EXCEPT ![1] = "RUNNABLE"]
    /\ boot' = fresh
    /\ fresh' = NoBootstrap
    /\ pc' = "running"
    /\ UNCHANGED <<memory, current, started, cr3, request, old>>

(* ... or the kernel worker.  Interrupts are enabled next. *)
CreateWorkerTask ==
    /\ pc = "init1"
    /\ ~user_task_enabled
    /\ task_create_kernel(1, "running")

-----------------------------------------------------------------------------
(* sched_validate_task of a task about to be dispatched, over the states   *)
(* and frames the caller has just written.                                 *)
Valid(t, st, frame) ==
    /\ st[t] = "RUNNABLE"
    /\ frame[t] # Null
    /\ IF Kind(t) = "KERNEL" THEN space[t] = KernelSpace
                             ELSE space[t] \notin {Null, KernelSpace}

\* Mutant: the other task, whatever its state.
SelectNext_Other(t, st) == 1 - t
\* Mutant: the current task goes on while it can.
SelectNext_Same(t, st) == IF st[t] = "RUNNABLE" THEN t ELSE 1 - t

(* sched_select_next: the other task first; with nothing runnable it halts. *)
SelectNext(t, st) ==
    IF st[1 - t] = "RUNNABLE" THEN 1 - t
    ELSE IF st[t] = "RUNNABLE" THEN t ELSE NoTask

\* Mutant: CR3 is left alone.
paging_activate_Nothing(s) == cr3' = cr3
\* Mutant: a user address space is never left.
paging_activate_Once(s) == cr3' = IF cr3 = KernelSpace THEN s ELSE cr3

paging_activate(s) == cr3' = s

(* Dispatch the selected task: CR3 first, then RUNNING. *)
Dispatch(next, st, frame, step) ==
    /\ rsp' = frame
    /\ IF next = NoTask
       THEN pc' = "halted" /\ state' = st /\ UNCHANGED <<current, cr3>>
       ELSE IF Valid(next, st, frame)
       THEN /\ current' = next
            /\ paging_activate(space[next])
            /\ state' = [st EXCEPT ![next] = "RUNNING"]
            /\ pc' = step
       ELSE pc' = "sched_fail" /\ state' = st /\ current' = next /\ UNCHANGED cr3

(* The page the interrupt frame of the running task is pushed on: the TSS  *)
(* stack from ring 3, the task's own stack from ring 0.                    *)
FramePage(t) == IF Kind(t) = "USER" THEN TssStack ELSE rsp[t]

(* sched_tick before the scheduler has started: kernel_main's context is   *)
(* dropped.                                                                *)
StartScheduler ==
    /\ pc = "running"
    /\ ~started
    /\ started' = TRUE
    /\ Dispatch(IF user_task_enabled THEN 1 ELSE 0, state, rsp, "running")
    /\ UNCHANGED <<memory, space, boot, request, fresh, old>>

(* sched_tick afterwards. *)
Reschedule ==
    /\ pc = "running"
    /\ started
    /\ IF state[current] # "RUNNING" \/ rsp[current] = Null
       THEN pc' = "sched_fail" /\ UNCHANGED <<state, rsp, current, cr3>>
       ELSE LET st == [state EXCEPT ![current] = "RUNNABLE"]
            IN  Dispatch(SelectNext(current, st), st,
                         [rsp EXCEPT ![current] = FramePage(current)], "running")
    /\ UNCHANGED <<memory, space, boot, started, request, fresh, old>>

(* IRQ 0: kernel_timer_tick. *)
Tick == StartScheduler \/ Reschedule

(* A system call of the running task; the idle task makes none. *)
InTask == pc = "running" /\ started /\ current = 1

(* SYS_YIELD. *)
Yield == InTask /\ Reschedule

(* A fault of ring 3 code: the trap handlers report it and halt. *)
UserFault ==
    /\ InTask
    /\ Kind(current) = "USER"
    /\ pc' = "halted"
    /\ UNCHANGED <<memory, schedule, request, fresh, old>>

(* SYS_EXEC of a registered path, up to the copy of the caller's bootstrap. *)
SysExec(prog) ==
    /\ InTask
    /\ Kind(current) = "USER"
    /\ boot.pml4 # Null
    /\ target' = prog
    /\ pc' = "create"
    /\ UNCHANGED <<memory, schedule, config, page, fresh, old>>

\* Mutant: the previous image is always released.
SameImage_Never == FALSE

(* sched_exec_current.  The frame is built in the new stack page, CR3 is   *)
(* switched, and only then is the previous bootstrap released, without its *)
(* image if the new one occupies exactly the same pages.                   *)
SameImage == boot.begin = fresh.begin /\ boot.end = fresh.end

Transfer ==
    /\ pc = "transfer"
    /\ IF config.refuse
       THEN pc' = "unload" /\ UNCHANGED <<schedule, fresh, old>>
       ELSE /\ old' = IF SameImage THEN [boot EXCEPT !.begin = Null, !.end = Null] ELSE boot
            /\ rsp' = [rsp EXCEPT ![current] = task_build_user_stack(fresh)]
            /\ space' = [space EXCEPT ![current] = fresh.pml4]
            /\ boot' = fresh
            /\ paging_activate(fresh.pml4)
            /\ fresh' = NoBootstrap
            /\ pc' = "release_image"
            /\ UNCHANGED <<state, current, started>>
    /\ UNCHANGED <<memory, request>>

(* syscall_release_bootstrap after a refused transfer.  Unlike the         *)
(* loader's fail label it spares no page.                                  *)
UnloadImage ==
    /\ pc = "unload"
    /\ freeList' = FreeRangeExcept(palloc_free(freeList, fresh.stack),
                                   fresh.begin, fresh.end, fresh.begin, fresh.begin)
    /\ holds' = Unloaded(ImagePages(fresh) \cup {fresh.stack})
    /\ fresh' = [fresh EXCEPT !.stack = Null, !.begin = Null, !.end = Null,
                              !.prog = NoProgram]
    /\ pc' = "drop_space"
    /\ UNCHANGED <<lost, schedule, request, old>>

(* sched_release_user_bootstrap leaves reusable_physical_begin and _end of *)
(* its loaded_user_image uninitialized, so that elf_release_user_image     *)
(* spares an arbitrary run [lo, hi) of the image.                          *)
ReleaseImage ==
    /\ pc = "release_image"
    /\ \E lo, hi \in old.begin..old.end :
          /\ lo <= hi
          /\ freeList' = FreeRangeExcept(palloc_free(freeList, old.stack),
                                         old.begin, old.end, lo, hi)
          /\ holds' = Unloaded((ImagePages(old) \ (lo..(hi - 1))) \cup {old.stack})
          /\ lost' = lost \cup ((lo..(hi - 1)) \ ImagePages(boot))
    /\ old' = [old EXCEPT !.stack = Null, !.begin = Null, !.end = Null, !.prog = NoProgram]
    /\ pc' = "release_space"
    /\ UNCHANGED <<schedule, request, fresh>>

ReleaseSpace ==
    /\ pc = "release_space"
    /\ freeList' = FreeSpace(freeList, old)
    /\ holds' = Unloaded(Tables(old))
    /\ old' = NoBootstrap
    /\ pc' = "running"
    /\ UNCHANGED <<lost, schedule, request, fresh>>

(* SYS_EXIT: sched_exit_current up to the release of the bootstrap. *)
SysExit ==
    /\ InTask
    /\ Kind(current) = "USER"
    /\ old' = boot
    /\ boot' = NoBootstrap
    /\ LET st == [state EXCEPT ![current] = "DONE"]
       IN  Dispatch(SelectNext(current, st), st, [rsp EXCEPT ![current] = Null],
                    "release_image")
    /\ UNCHANGED <<memory, space, started, request, fresh>>

-----------------------------------------------------------------------------
(* The steps of kernel_main and of a handler that is under way. *)
KernelStep ==
    \/ CreateAddressSpace \/ ValidateImage \/ ClaimWindowPage \/ LoadSegments
    \/ MapUserPages \/ AllocUserStack \/ DropImage \/ DropSpace
    \/ CreateIdleTask \/ CreateUserTask \/ CreateWorkerTask
    \/ Transfer \/ UnloadImage \/ ReleaseImage \/ ReleaseSpace

Next ==
    \/ KernelStep
    \/ Tick
    \/ Yield \/ UserFault \/ SysExit
    \/ \E prog \in Programs : SysExec(prog)

(* The CPU goes on with the kernel's code, and the timer interrupt is      *)
(* latched by the PIC while a handler runs and delivered when it returns,  *)
(* so a task that keeps calling the kernel cannot hold it off for ever.    *)
Fairness == WF_vars(KernelStep) /\ SF_vars(Tick)

Spec == Init /\ [][Next]_vars
FairSpec == Spec /\ Fairness
-----------------------------------------------------------------------------
(* Properties *)

Free == ToSet(freeList)

Bootstrap ==
    [pml4 : 0..NumPages, pdpt : 0..NumPages, pd : 0..NumPages, pt : 0..NumPages,
     stack : 0..NumPages, begin : 0..NumPages, end : 0..(NumPages + 1),
     prog : Programs \cup {NoProgram}]

Steps == {"create", "validate", "claim", "map", "stack", "drop_image", "drop_space",
          "init0", "init1", "running", "transfer", "unload", "release_image",
          "release_space", "halted", "sched_fail"}

(* Every variable has its type. *)
TypeOK ==
    /\ config \in Configs
    /\ freeList \in Seq(Pages)
    /\ holds \in [Pages -> Programs \cup {NoProgram}]
    /\ state \in [Tasks -> {"UNUSED", "RUNNABLE", "RUNNING", "DONE"}]
    /\ rsp \in [Tasks -> {Null, TssStack} \cup Pages]
    /\ space \in [Tasks -> {Null, KernelSpace} \cup Pages]
    /\ boot \in Bootstrap
    /\ current \in {0, 1, NoTask}
    /\ started \in BOOLEAN
    /\ cr3 \in {KernelSpace} \cup Pages
    /\ pc \in Steps
    /\ target \in Programs
    /\ page \in Nat
    /\ fresh \in Bootstrap
    /\ old \in Bootstrap
    /\ lost \subseteq Pages

(* Pages that are in use: those of the three bootstraps, those a claim     *)
(* under way has taken, and the stacks of the kernel tasks.                *)
Private(b) == {b.pml4, b.pdpt, b.pd, b.pt, b.stack} \ {Null}
Taken == IF pc = "claim" THEN {p \in LoadBase..(page - 1) : ~Reusable(p)} ELSE {}
KernelStacks == {rsp[t] : t \in {u \in Tasks : Kind(u) = "KERNEL"}} \ {Null}
Images == ImagePages(boot) \cup ImagePages(fresh) \cup ImagePages(old) \cup Taken
InUse == Private(boot) \cup Private(fresh) \cup Private(old) \cup KernelStacks \cup Images

(* The allocator never owns a page that is in use: no release frees a page *)
(* the current image, stack or tables still need, and none frees a page    *)
(* twice (sched_exec_current, sched_exit_current, the unwinding of exec).  *)
NoFreePageInUse ==
    /\ IsInjective(freeList)
    /\ Free \cap InUse = {}

(* No page serves two purposes: tables, stacks and image pages of the      *)
(* current, the new and the previous program are all different, except     *)
(* that the loader reuses the caller's image pages.                        *)
NoPageUsedTwice ==
    /\ \A b \in {boot, fresh, old} :
          \A f, g \in {"pml4", "pdpt", "pd", "pt", "stack"} :
             f # g /\ b[f] # Null => b[f] # b[g]
    /\ Private(boot) \cap Private(fresh) = {}
    /\ Private(boot) \cap Private(old) = {}
    /\ Private(fresh) \cap Private(old) = {}
    /\ (Private(boot) \cup Private(fresh) \cup Private(old)) \cap (KernelStacks \cup Images) = {}
    /\ KernelStacks \cap Images = {}

(* No page is lost: each one is free or in use, except the image pages     *)
(* that sched_exit_current may leave behind; in particular exec loses none, *)
(* however it ends.                                                        *)
EveryPageAccounted ==
    /\ Free \cup InUse \cup lost = 1..config.pages
    /\ lost # {} => state[1] = "DONE"

(* The CPU never walks page tables that were freed: CR3 holds the kernel's *)
(* PML4 or that of the current bootstrap, whose four tables are allocated. *)
ActiveSpaceLive ==
    cr3 # KernelSpace =>
        /\ cr3 = boot.pml4
        /\ Tables(boot) \cap (Free \cup {Null}) = {}

(* The context that a dispatch would restore lies in memory the task still *)
(* owns: the frame exec builds in the new user stack is not the one the    *)
(* release frees.                                                          *)
SavedFrameLive ==
    \A t \in Tasks : state[t] \in {"RUNNABLE", "RUNNING"} =>
        /\ rsp[t] # Null
        /\ rsp[t] \notin Free
        /\ Kind(t) = "USER" => rsp[t] \in {TssStack, boot.stack}

(* Whenever a task runs, it is the current one, it is the only one in      *)
(* state RUNNING, and the CPU is in its address space.                     *)
OneRunning ==
    (pc = "running" /\ started) =>
        /\ {t \in Tasks : state[t] = "RUNNING"} = {current}
        /\ cr3 = space[current]
        /\ Kind(current) = "USER" => cr3 = boot.pml4

(* None of the checks that end in sched_fail ever fails. *)
SchedNeverFails == pc # "sched_fail"

(* Whenever the user task may run, its image is what was loaded: a failed  *)
(* exec has not damaged it, and no page of it went back to the allocator.  *)
ImageIntact ==
    pc = "running" => \A p \in ImagePages(boot) : holds[p] = boot.prog

(* Every runnable task runs again, unless the machine halts: neither the   *)
(* other task nor a sequence of system calls starves it.                   *)
RunnableRuns ==
    \A t \in Tasks : (state[t] = "RUNNABLE") ~> (state[t] = "RUNNING" \/ pc = "halted")

(* Every handler returns or halts; no step of boot, exec or exit is left   *)
(* without a successor.                                                    *)
HandlerReturns == (pc # "running") ~> (pc \in {"running", "halted"})

(* The CPU as module TwoTasks sees it. *)
Phase ==
    IF pc \in {"halted", "sched_fail"} THEN "halted"
    ELSE IF pc = "running" THEN "running"
    ELSE IF started THEN "kernel" ELSE "boot"
Scheduler == INSTANCE TwoTasks WITH phase <- Phase

(* The scheduler with all it allocates and frees implements the two tasks  *)
(* that take turns: exec gives the caller its turn back, exit passes it    *)
(* on, and no failure in between disturbs whose turn it is.                *)
ImplementsTwoTasks == Scheduler!Spec

(* Every page has exactly one owner, inside handlers too.                  *)
PagesOwned == NoFreePageInUse /\ NoPageUsedTwice /\ EveryPageAccounted

(* What the CPU uses, and what a dispatch would give it, is in memory that *)
(* is not free.                                                            *)
CpuStateLive == ActiveSpaceLive /\ SavedFrameLive

(* The scheduler's records are consistent and its checks never fail.       *)
SchedulerSound == TypeOK /\ OneRunning /\ SchedNeverFails

(* The idle stack, and the tables and the stack of two programs. *)
PrivatePages == 1 + 2 * 5
Ample == \A p \in Programs : config.pages >= PrivatePages + Span[p]

(* With as many pages as the caller and its successor need side by side,   *)
(* no exec, failed or not, damages its caller, however often programs      *)
(* replace each other.                                                     *)
AmpleMemorySuffices == Ample => ImageIntact

(* The current task is inside exec: its exit leaves it DONE. *)
Execing == started /\ state[1] = "RUNNING" /\ pc # "running"

(* The user task is about to enter the image it asked for: its bytes are   *)
(* in place, and the frame and the page tables are those built for it.     *)
EntersTarget ==
    /\ boot.prog = target
    /\ \A p \in LoadBase..(LoadEnd - 1) : holds[p] = target
    /\ rsp[1] = boot.stack
    /\ cr3 = boot.pml4

(* How boot and exec may end on such a machine. *)
ExecEnds ==
    Ample =>
        /\ pc' = "halted" =>
             pc = "running" \/ (pc = "validate" /\ Booting /\ target \in BadImages)
        /\ Execing /\ pc' = "running" /\ target \notin BadImages /\ ~config.refuse =>
             old.pml4 # Null /\ EntersTarget'

(* With that many pages exec of a valid image never fails: the call ends   *)
(* in the new program, its caller having been released, neither with a -1  *)
(* to the caller nor with a halt of the machine; and boot halts for a      *)
(* malformed image only.  It needs every page of the loader's window, and  *)
(* none may have been handed out as a table or a stack, although every     *)
(* release pushes window pages onto the list that allocations pop.         *)
ValidExecSucceeds == [][ExecEnds]_vars
=============================================================================
