---------------------------- MODULE ProcessProofs ---------------------------
(***************************************************************************)
(* Type correctness and the scheduling invariants of Process, and that it  *)
(* implements TwoTasks, for every number of pages, every set of images of  *)
(* any spans, and every build; and, in the second part, the ownership of   *)
(* its memory.                                                             *)
(*                                                                         *)
(* TypeOK is not inductive by itself.  That the free list holds only pages *)
(* needs the ranges that exec and exit free to lie in memory (Layout,      *)
(* ClaimInv); that CR3 and the saved frames are never null needs to know   *)
(* which fields of the new bootstrap exist at which step (FreshInv), which *)
(* task a handler runs for (BootInv), and what a dispatchable task owns    *)
(* (TaskInv, RunInv).                                                      *)
(***************************************************************************)
EXTENDS Process, PageListProofs

(* The image of a bootstrap is a range of pages, empty at the null page. *)
Layout(b) == b.begin <= b.end /\ (b.begin = Null => b.end = Null)

(* claim_window_pages has seen only pages that exist. *)
ClaimInv ==
    pc = "claim" => page \in LoadBase..LoadEnd /\ LoadBase..(page - 1) \subseteq Pages

Building == {"create", "validate", "claim", "map", "stack"}
Exec == Building \cup {"drop_image", "drop_space", "transfer", "unload"}

(* The parts of the new bootstrap that exist at each step. *)
FreshInv ==
    /\ pc \in Exec \ {"create"} => fresh.pml4 # Null
    /\ pc \in {"init0", "init1"} /\ user_task_enabled => fresh.pml4 # Null /\ fresh.stack # Null
    /\ pc = "transfer" => fresh.stack # Null
    /\ pc = "map" /\ CBoot => fresh.stack # Null
    /\ CBoot => pc \notin {"validate", "claim"}

(* Which steps belong to kernel_main, and that exec runs for task1. *)
BootInv ==
    /\ Booting => /\ pc \in Building \cup {"init0", "halted"}
                  /\ state[1] = "UNUSED"
                  /\ ~started
    /\ pc = "init0" => Booting
    /\ pc = "init1" => ~Booting /\ state[1] = "UNUSED" /\ ~started
    /\ state[1] = "UNUSED" => Booting \/ pc \in {"init1", "halted"}
    /\ pc \in Exec /\ ~Booting => started /\ current = 1 /\ user_task_enabled

(* A task that can be dispatched passes sched_validate_task. *)
TaskInv ==
    /\ ~Booting => state[0] \in {"RUNNABLE", "RUNNING"} /\ rsp[0] # Null /\ space[0] = KernelSpace
    /\ state[1] \in {"RUNNABLE", "RUNNING"} =>
         /\ rsp[1] # Null
         /\ IF user_task_enabled THEN space[1] = boot.pml4 /\ boot.pml4 # Null
                                 ELSE space[1] = KernelSpace

(* Once started, exactly the current task is RUNNING, in its own space. *)
RunInv ==
    /\ started => /\ current \in Tasks
                  /\ state[current] = "RUNNING"
                  /\ state[1 - current] # "RUNNING"
                  /\ cr3 = space[current]
    /\ ~started => \A t \in Tasks : state[t] \in {"UNUSED", "RUNNABLE"}
    /\ pc # "sched_fail"

Control ==
    /\ Layout(boot) /\ Layout(fresh) /\ Layout(old)
    /\ ClaimInv /\ FreshInv /\ BootInv /\ TaskInv /\ RunInv

IInv == TypeOK /\ Control

-----------------------------------------------------------------------------
(* The constants. *)
LEMMA ConstantFacts ==
  /\ NumPages \in Nat /\ LoadBase \in Nat \ {0}
  /\ KernelSpace \notin Pages /\ KernelSpace # Null
  /\ TssStack # Null /\ Null \notin Pages
  /\ \A p \in Pages : p \in 0..NumPages
  /\ NoBootstrap \in Bootstrap
  BY ConstantsAssumption DEF KernelSpace, TssStack, Pages, Null, NoBootstrap, Bootstrap

(* The image of a bootstrap lies in memory. *)
LEMMA ImageInMemory ==
  ASSUME NEW b \in Bootstrap, Layout(b)
  PROVE  ImagePages(b) \subseteq Pages
  BY ConstantsAssumption DEF Bootstrap, Layout, ImagePages, Pages, Null

(* The state kernel_main starts from. *)
LEMMA InitInv == Init => IInv
<1> SUFFICES ASSUME Init PROVE IInv
  OBVIOUS
<1>1. config \in Config /\ config.pages \in 0..NumPages
  BY ConstantsAssumption DEF Init, Config
<1>2. freeList \in Seq(Pages)
  <2> DEFINE n == config.pages
  <2>1. n \in Nat /\ n <= NumPages /\ freeList = Descending(1, n + 1)
    BY <1>1, ConstantsAssumption DEF Init, palloc_initialize
  <2> HIDE DEF n
  <2>2. freeList \in Seq(1..((n + 1) - 1))
    BY <2>1, DescendingFacts
  <2>3. 1..((n + 1) - 1) \subseteq Pages
    BY <2>1, ConstantsAssumption DEF Pages
  <2> QED BY <2>2, <2>3, SeqMonotonic
<1>3. TypeOK
  BY <1>2, ConstantFacts, ConstantsAssumption
     DEF Init, TypeOK, Steps, Tasks, NoTask
<1>4. Control
  BY ConstantsAssumption
     DEF Init, Control, Layout, ClaimInv, FreshInv, BootInv, TaskInv, RunInv, Building, Exec,
         Booting, CBoot, user_task_enabled, NoBootstrap, Tasks, Null
<1> QED BY <1>3, <1>4 DEF IInv

(* An allocation in Pages: the page and the list after it. *)
LEMMA AllocTyped ==
  ASSUME TypeOK, freeList # <<>>
  PROVE  palloc_alloc(freeList) \in Pages /\ AfterAlloc(freeList) \in Seq(Pages)
  BY TypedOperations DEF TypeOK

(* paging_create_user_address_space keeps the invariant. *)
LEMMA CreateAddressSpaceInv == IInv /\ CreateAddressSpace => IInv'
<1> SUFFICES ASSUME IInv, CreateAddressSpace PROVE IInv'
  OBVIOUS
<1> USE DEF IInv
<1>1. CASE freeList = <<>>
  <2>1. TypeOK'
    BY <1>1 DEF CreateAddressSpace, TypeOK, memory, schedule, request, FailTo, Steps
  <2>2. Control'
    BY <1>1 DEF CreateAddressSpace, memory, schedule, request, FailTo, NoTask, Tasks,
         Control, Layout, ClaimInv, FreshInv, BootInv, TaskInv, RunInv, Building, Exec,
         Booting, CBoot, user_task_enabled
  <2> QED BY <2>1, <2>2
<1>2. CASE freeList # <<>>
  <2> DEFINE p == palloc_alloc(freeList)
             l == AfterAlloc(freeList)
  <2>1. p \in Pages /\ l \in Seq(Pages)
    BY <1>2, AllocTyped
  <2>2. /\ pc = "create"
        /\ fresh' = [NoBootstrap EXCEPT !.pml4 = p]
        /\ freeList' = l
        /\ holds' = [holds EXCEPT ![p] = NoProgram]
        /\ pc' = IF CBoot THEN "stack" ELSE "validate"
        /\ UNCHANGED <<lost, schedule, request, old>>
    BY <1>2 DEF CreateAddressSpace
  <2> HIDE DEF p, l
  <2>3. TypeOK'
    BY <2>1, <2>2, ConstantFacts DEF TypeOK, schedule, request, Steps, Bootstrap
  <2>4. Control'
    <3>1. Layout(fresh)' /\ fresh'.pml4 # Null
      BY <2>1, <2>2, ConstantsAssumption DEF NoBootstrap, Layout, Null, Pages
    <3> QED BY <2>2, <3>1 DEF schedule, request,
         Control, Layout, ClaimInv, FreshInv, BootInv, TaskInv, RunInv, Building, Exec,
         Booting, CBoot, user_task_enabled
  <2> QED BY <2>3, <2>4
<1> QED BY <1>1, <1>2

(* So does the validation of an image, *)
LEMMA ValidateImageInv == IInv /\ ValidateImage => IInv'
<1> SUFFICES ASSUME IInv, ValidateImage PROVE IInv'
  OBVIOUS
<1> USE DEF IInv
<1>1. TypeOK'
  BY ConstantFacts DEF ValidateImage, TypeOK, memory, schedule, FailTo, Steps
<1>2. target \in Programs /\ Span[target] \in Nat \ {0}
  BY ConstantsAssumption DEF TypeOK
<1>3. Control'
  BY <1>2, ConstantFacts DEF ValidateImage, memory, schedule, FailTo, LoadEnd,
       Control, Layout, ClaimInv, FreshInv, BootInv, TaskInv, RunInv, Building, Exec,
       Booting, CBoot, user_task_enabled
<1> QED BY <1>1, <1>3

(* the loading of its segments, whose window has been claimed, *)
LEMMA LoadSegmentsInv == IInv /\ LoadSegments => IInv'
<1> SUFFICES ASSUME IInv, LoadSegments PROVE IInv'
  OBVIOUS
<1> USE DEF IInv
<1>1. target \in Programs /\ Span[target] \in Nat \ {0}
  BY ConstantsAssumption DEF TypeOK
<1>2. LoadBase \in 1..NumPages /\ LoadEnd \in 1..(NumPages + 1)
  <2>1. LoadBase..(LoadEnd - 1) \subseteq Pages
    BY DEF LoadSegments, Control, ClaimInv
  <2>2. LoadEnd - 1 \in LoadBase..(LoadEnd - 1) /\ LoadBase \in LoadBase..(LoadEnd - 1)
    BY <1>1, ConstantFacts DEF LoadEnd
  <2>3. LoadEnd \in Int
    BY <1>1, ConstantFacts DEF LoadEnd
  <2> QED BY <2>1, <2>2, <2>3, ConstantFacts DEF Pages
<1> DEFINE e == LoadEnd
<1>3. /\ pc = "claim" /\ pc' = "map"
      /\ holds' = [p \in Pages |-> IF p \in LoadBase..(e - 1) THEN target ELSE holds[p]]
      /\ fresh' = [fresh EXCEPT !.begin = LoadBase, !.end = e, !.prog = target]
      /\ page' = LoadBase
      /\ UNCHANGED <<freeList, lost, schedule, config, target, old>>
  BY DEF LoadSegments
<1>4. e \in 1..(NumPages + 1) /\ LoadBase <= e
  BY <1>1, <1>2, ConstantsAssumption DEF LoadEnd
<1> HIDE DEF e
<1>5. fresh' \in Bootstrap
  <2>1. LoadBase \in 0..NumPages /\ e \in 0..(NumPages + 1) /\ fresh \in Bootstrap
    BY <1>2, <1>4, ConstantsAssumption DEF TypeOK
  <2> QED BY <1>1, <1>3, <2>1 DEF Bootstrap
<1>6. holds' \in [Pages -> Programs \cup {NoProgram}]
  BY <1>1, <1>3 DEF TypeOK
<1>7. TypeOK'
  BY <1>3, <1>5, <1>6, ConstantFacts DEF TypeOK, schedule, Steps
<1>8. Layout(fresh)' /\ fresh'.pml4 = fresh.pml4 /\ fresh'.stack = fresh.stack
  BY <1>2, <1>3, <1>4, ConstantsAssumption DEF TypeOK, Bootstrap, Layout, Null
<1>9. Control'
  BY <1>3, <1>8 DEF schedule, LoadEnd,
       Control, Layout, ClaimInv, FreshInv, BootInv, TaskInv, RunInv, Building, Exec,
       Booting, CBoot, user_task_enabled
<1> QED BY <1>7, <1>9

(* the creation of the private tables, *)
LEMMA MapUserPagesInv == IInv /\ MapUserPages => IInv'
<1> SUFFICES ASSUME IInv, MapUserPages PROVE IInv'
  OBVIOUS
<1> USE DEF IInv
<1>1. CASE Len(freeList) < 3
  <2>1. TypeOK'
    BY <1>1 DEF MapUserPages, TypeOK, memory, schedule, request, Steps
  <2>2. Control'
    BY <1>1 DEF MapUserPages, memory, schedule, request,
         Control, Layout, ClaimInv, FreshInv, BootInv, TaskInv, RunInv, Building, Exec,
         Booting, CBoot, user_task_enabled
  <2> QED BY <2>1, <2>2
<1>2. CASE ~(Len(freeList) < 3)
  <2>1. Len(freeList) \in Nat /\ \A i \in 1..Len(freeList) : freeList[i] \in Pages
    BY LenProperties, ElementOfSeq DEF TypeOK
  <2> DEFINE p == freeList[1]
             q == freeList[2]
             r == freeList[3]
             l == SubSeq(freeList, 4, Len(freeList))
  <2>2. p \in Pages /\ q \in Pages /\ r \in Pages
    BY <1>2, <2>1
  <2>3. l \in Seq(Pages)
    <3>1. \A i \in 4..Len(freeList) : freeList[i] \in Pages
      BY <2>1
    <3> QED BY <3>1, <2>1, SubSeqProperties
  <2>4. /\ pc = "map"
        /\ fresh' = [fresh EXCEPT !.pdpt = p, !.pd = q, !.pt = r]
        /\ freeList' = l
        /\ holds' = [holds EXCEPT ![p] = NoProgram, ![q] = NoProgram, ![r] = NoProgram]
        /\ pc' = IF CBoot THEN "init0" ELSE "stack"
        /\ UNCHANGED <<lost, schedule, request, old>>
    BY <1>2 DEF MapUserPages, WithTables
  <2> HIDE DEF p, q, r, l
  <2>5. TypeOK'
    BY <2>2, <2>3, <2>4, ConstantFacts DEF TypeOK, schedule, request, Steps, Bootstrap
  <2>6. Control'
    BY <2>2, <2>4, ConstantFacts DEF schedule, request, TypeOK, Bootstrap,
         Control, Layout, ClaimInv, FreshInv, BootInv, TaskInv, RunInv, Building, Exec,
         Booting, CBoot, user_task_enabled
  <2> QED BY <2>5, <2>6
<1> QED BY <1>1, <1>2

(* and the allocation of the user stack. *)
LEMMA AllocUserStackInv == IInv /\ AllocUserStack => IInv'
<1> SUFFICES ASSUME IInv, AllocUserStack PROVE IInv'
  OBVIOUS
<1> USE DEF IInv
<1>1. CASE freeList = <<>>
  <2>1. TypeOK'
    BY <1>1 DEF AllocUserStack, TypeOK, memory, schedule, request, FailTo, Steps
  <2>2. Control'
    BY <1>1 DEF AllocUserStack, memory, schedule, request, FailTo,
         Control, Layout, ClaimInv, FreshInv, BootInv, TaskInv, RunInv, Building, Exec,
         Booting, CBoot, user_task_enabled
  <2> QED BY <2>1, <2>2
<1>2. CASE freeList # <<>>
  <2> DEFINE p == palloc_alloc(freeList)
             l == AfterAlloc(freeList)
  <2>1. p \in Pages /\ l \in Seq(Pages)
    BY <1>2, AllocTyped
  <2>2. /\ pc = "stack"
        /\ fresh' = [fresh EXCEPT !.stack = p]
        /\ freeList' = l
        /\ holds' = [holds EXCEPT ![p] = NoProgram]
        /\ pc' = IF CBoot THEN "map" ELSE IF Booting THEN "init0" ELSE "transfer"
        /\ UNCHANGED <<lost, schedule, request, old>>
    BY <1>2 DEF AllocUserStack
  <2> HIDE DEF p, l
  <2>3. TypeOK'
    BY <2>1, <2>2, ConstantFacts DEF TypeOK, schedule, request, Steps, Bootstrap
  <2>4. Control'
    BY <2>1, <2>2, ConstantFacts DEF schedule, request, TypeOK, Bootstrap,
         Control, Layout, ClaimInv, FreshInv, BootInv, TaskInv, RunInv, Building, Exec,
         Booting, CBoot, user_task_enabled
  <2> QED BY <2>3, <2>4
<1> QED BY <1>1, <1>2

(* Freeing the pages of a range that lies in memory, the caller's image    *)
(* excepted, leaves a list of pages.                                       *)
LEMMA FreeUnlessReusableTyped ==
  ASSUME NEW list \in Seq(Pages), NEW b \in Int, NEW e \in Int, b <= e,
         b..(e - 1) \subseteq Pages, boot \in Bootstrap
  PROVE  FreeUnlessReusable(list, b, e) \in Seq(Pages)
<1>1. boot.begin \in Int /\ boot.end \in Int
  BY ConstantsAssumption DEF Bootstrap
<1>2. CASE boot.begin = Null
  <2>1. b..(b - 1) \subseteq Pages
    OBVIOUS
  <2> QED BY <1>2, <2>1, TypedRange DEF FreeUnlessReusable
<1>3. CASE boot.begin # Null
  <2> DEFINE clamp(x) == IF x < b THEN b ELSE IF x > e THEN e ELSE x
             lo == clamp(boot.begin)
             hi == clamp(boot.end)
  <2>1. lo \in Int /\ hi \in Int /\ b <= lo /\ lo <= e /\ b <= hi /\ hi <= e
    BY <1>1
  <2>2. FreeUnlessReusable(list, b, e) = FreeRangeExcept(list, b, e, lo, hi)
    BY <1>3 DEF FreeUnlessReusable
  <2> HIDE DEF lo, hi
  <2>3. b..(lo - 1) \subseteq Pages /\ hi..(e - 1) \subseteq Pages
    BY <2>1
  <2> QED BY <2>1, <2>2, <2>3, TypedRange
<1> QED BY <1>2, <1>3

(* palloc_free of a page of memory or of the null page. *)
LEMMA FreeTyped ==
  ASSUME NEW list \in Seq(Pages), NEW p \in 0..NumPages
  PROVE  palloc_free(list, p) \in Seq(Pages)
<1>1. p \in Pages \cup {Null}
  BY ConstantsAssumption DEF Pages, Null
<1> QED BY <1>1, TypedOperations

(* paging_release_user_address_space frees pages of memory only. *)
LEMMA FreeSpaceTyped ==
  ASSUME NEW list \in Seq(Pages), NEW b \in Bootstrap
  PROVE  FreeSpace(list, b) \in Seq(Pages)
<1>1. /\ b.pt \in 0..NumPages /\ b.pd \in 0..NumPages
      /\ b.pdpt \in 0..NumPages /\ b.pml4 \in 0..NumPages
  BY DEF Bootstrap
<1> DEFINE l1 == palloc_free(list, b.pt)
           l2 == palloc_free(l1, b.pd)
           l3 == palloc_free(l2, b.pdpt)
<1>2. l1 \in Seq(Pages)
  BY <1>1, FreeTyped
<1> HIDE DEF l1
<1>3. l2 \in Seq(Pages)
  BY <1>1, <1>2, FreeTyped
<1> HIDE DEF l2
<1>4. l3 \in Seq(Pages)
  BY <1>1, <1>3, FreeTyped
<1> HIDE DEF l3
<1>5. palloc_free(l3, b.pml4) \in Seq(Pages)
  BY <1>1, <1>4, FreeTyped
<1> QED BY <1>5 DEF FreeSpace, l1, l2, l3

(* palloc_free writes no image into a page. *)
LEMMA UnloadedTyped ==
  ASSUME TypeOK, NEW S
  PROVE  Unloaded(S) \in [Pages -> Programs \cup {NoProgram}]
  BY DEF TypeOK, Unloaded

(* claim_window_pages takes pages of memory only, and gives them back. *)
LEMMA ClaimWindowPageInv == IInv /\ ClaimWindowPage => IInv'
<1> SUFFICES ASSUME IInv, ClaimWindowPage PROVE IInv'
  OBVIOUS
<1> USE DEF IInv
<1>1. target \in Programs /\ Span[target] \in Nat \ {0}
  BY ConstantsAssumption DEF TypeOK
<1>2. /\ page \in Int /\ LoadBase <= page /\ page < LoadEnd /\ LoadEnd \in Int
      /\ LoadBase..(page - 1) \subseteq Pages
      /\ pc = "claim"
  BY <1>1, ConstantFacts DEF ClaimWindowPage, LoadEnd, Control, ClaimInv
<1>3. ASSUME page \in Pages, page' = page + 1, freeList' \in Seq(Pages),
             UNCHANGED <<holds, pc, schedule, config, target, fresh, old, lost>>
      PROVE  IInv'
  <2>1. TypeOK'
    BY <1>3, ConstantFacts DEF TypeOK, schedule
  <2>2. ClaimInv'
    <3>1. LoadEnd' = LoadEnd
      BY <1>3 DEF LoadEnd
    <3>2. page' \in LoadBase..LoadEnd /\ LoadBase..(page' - 1) \subseteq Pages
      BY <1>2, <1>3, ConstantFacts
    <3> QED BY <3>1, <3>2 DEF ClaimInv
  <2>3. Control'
    BY <1>3, <2>2 DEF schedule, Control, Layout, FreshInv, BootInv, TaskInv, RunInv,
         Booting, CBoot, user_task_enabled
  <2> QED BY <2>1, <2>3
<1>4. CASE Reusable(page)
  <2>1. page \in Pages
    <3>1. boot.begin \in 1..NumPages /\ boot.end \in 0..(NumPages + 1)
      <4>1. boot.begin # Null
        BY <1>4 DEF Reusable
      <4>2. boot.begin \in 0..NumPages /\ boot.end \in 0..(NumPages + 1)
        BY DEF TypeOK, Bootstrap
      <4> QED BY <4>1, <4>2, ConstantsAssumption DEF Null
    <3>2. boot.begin <= page /\ page < boot.end
      BY <1>4 DEF Reusable
    <3> QED BY <1>2, <3>1, <3>2, ConstantsAssumption DEF Pages
  <2>2. freeList' \in Seq(Pages)
    BY <1>4 DEF ClaimWindowPage, TypeOK
  <2> QED BY <1>3, <1>4, <2>1, <2>2 DEF ClaimWindowPage
<1>5. CASE ~Reusable(page) /\ Listed(freeList, page)
  <2>1. page \in Pages /\ palloc_take(freeList, page) \in Seq(Pages)
    BY <1>5, TypedOperations DEF TypeOK
  <2> QED BY <1>3, <1>5, <2>1 DEF ClaimWindowPage
<1>6. CASE ~Reusable(page) /\ ~Listed(freeList, page)
  <2>1. /\ freeList' = FreeUnlessReusable(freeList, LoadBase, page)
        /\ holds' = [p \in Pages |-> IF p \in LoadBase..(page - 1) /\ ~Reusable(p)
                                     THEN NoProgram ELSE holds[p]]
        /\ page' = LoadBase
        /\ pc' = FailTo("drop_space")
        /\ UNCHANGED <<schedule, config, target, fresh, old, lost>>
    BY <1>6 DEF ClaimWindowPage
  <2>2. freeList' \in Seq(Pages)
    BY <1>2, <2>1, ConstantFacts, FreeUnlessReusableTyped DEF TypeOK
  <2>3. holds' \in [Pages -> Programs \cup {NoProgram}]
    BY <2>1 DEF TypeOK
  <2>4. TypeOK'
    BY <2>1, <2>2, <2>3, ConstantFacts DEF TypeOK, schedule, FailTo, Steps
  <2>5. Control'
    BY <1>2, <2>1 DEF schedule, FailTo,
         Control, Layout, ClaimInv, FreshInv, BootInv, TaskInv, RunInv, Building, Exec,
         Booting, CBoot, user_task_enabled
  <2> QED BY <2>4, <2>5
<1> QED BY <1>4, <1>5, <1>6

(* A step that only releases memory of the bootstrap under construction:   *)
(* DropImage and UnloadImage.                                              *)
LEMMA DropFreshInv ==
  ASSUME IInv, pc \in {"drop_image", "unload"}, pc' = "drop_space",
         freeList' \in Seq(Pages), holds' \in [Pages -> Programs \cup {NoProgram}],
         fresh' = [fresh EXCEPT !.stack = Null, !.begin = Null, !.end = Null,
                                !.prog = NoProgram],
         UNCHANGED <<lost, schedule, request, old>>
  PROVE  IInv'
<1> USE DEF IInv
<1>1. fresh' \in Bootstrap /\ Layout(fresh)' /\ fresh'.pml4 = fresh.pml4
  <2>1. fresh \in Bootstrap /\ Null \in 0..NumPages /\ Null \in 0..(NumPages + 1)
    BY ConstantsAssumption DEF TypeOK, Null
  <2>2. fresh' \in Bootstrap
    BY <2>1 DEF Bootstrap
  <2>3. fresh'.begin = Null /\ fresh'.end = Null /\ fresh'.pml4 = fresh.pml4
    BY <2>1 DEF Bootstrap
  <2> QED BY <2>2, <2>3 DEF Layout, Null
<1>2. TypeOK'
  BY <1>1 DEF TypeOK, schedule, request, Steps
<1>3. Control'
  BY <1>1 DEF schedule, request,
       Control, Layout, ClaimInv, FreshInv, BootInv, TaskInv, RunInv, Building, Exec,
       Booting, CBoot, user_task_enabled
<1> QED BY <1>2, <1>3

(* The image of a bootstrap that was loaded is a range of memory. *)
LEMMA ImageRange ==
  ASSUME NEW b \in Bootstrap, Layout(b)
  PROVE  /\ b.begin \in Int /\ b.end \in Int
         /\ b.begin..(b.end - 1) \subseteq Pages
         /\ b.stack \in 0..NumPages
  BY ConstantsAssumption DEF Bootstrap, Layout, Pages, Null

(* The fail label of elf_load_user_image, *)
LEMMA DropImageInv == IInv /\ DropImage => IInv'
<1> SUFFICES ASSUME IInv, DropImage PROVE IInv'
  OBVIOUS
<1>1. fresh \in Bootstrap /\ boot \in Bootstrap /\ Layout(fresh) /\ freeList \in Seq(Pages)
  BY DEF IInv, TypeOK, Control
<1>2. /\ fresh.begin \in Int /\ fresh.end \in Int /\ fresh.begin <= fresh.end
      /\ fresh.begin..(fresh.end - 1) \subseteq Pages /\ fresh.stack \in 0..NumPages
  BY <1>1, ImageRange DEF Layout
<1>3. palloc_free(freeList, fresh.stack) \in Seq(Pages)
  BY <1>1, <1>2, FreeTyped
<1>4. freeList' \in Seq(Pages)
  BY <1>1, <1>2, <1>3, FreeUnlessReusableTyped DEF DropImage
<1>5. holds' \in [Pages -> Programs \cup {NoProgram}]
  BY UnloadedTyped DEF DropImage, IInv
<1> QED BY <1>4, <1>5, DropFreshInv DEF DropImage

(* syscall_release_bootstrap, *)
LEMMA UnloadImageInv == IInv /\ UnloadImage => IInv'
<1> SUFFICES ASSUME IInv, UnloadImage PROVE IInv'
  OBVIOUS
<1>1. fresh \in Bootstrap /\ Layout(fresh) /\ freeList \in Seq(Pages)
  BY DEF IInv, TypeOK, Control
<1>2. /\ fresh.begin \in Int /\ fresh.end \in Int
      /\ fresh.begin..(fresh.end - 1) \subseteq Pages /\ fresh.stack \in 0..NumPages
      /\ fresh.begin..(fresh.begin - 1) \subseteq Pages
  BY <1>1, ImageRange
<1>3. palloc_free(freeList, fresh.stack) \in Seq(Pages)
  BY <1>1, <1>2, FreeTyped
<1>4. freeList' \in Seq(Pages)
  BY <1>2, <1>3, TypedRange DEF UnloadImage
<1>5. holds' \in [Pages -> Programs \cup {NoProgram}]
  BY UnloadedTyped DEF UnloadImage, IInv
<1> QED BY <1>4, <1>5, DropFreshInv DEF UnloadImage

(* and the release of the new address space keep the invariant. *)
LEMMA DropSpaceInv == IInv /\ DropSpace => IInv'
<1> SUFFICES ASSUME IInv, DropSpace PROVE IInv'
  OBVIOUS
<1> USE DEF IInv
<1>1. freeList' \in Seq(Pages)
  BY FreeSpaceTyped DEF DropSpace, TypeOK
<1>2. holds' \in [Pages -> Programs \cup {NoProgram}]
  BY UnloadedTyped DEF DropSpace
<1>3. TypeOK'
  BY <1>1, <1>2, ConstantFacts DEF DropSpace, TypeOK, schedule, request, Steps
<1>4. Layout(NoBootstrap)
  BY DEF Layout, NoBootstrap, Null
<1>5. Control'
  BY <1>4 DEF DropSpace, schedule, request,
         Control, Layout, ClaimInv, FreshInv, BootInv, TaskInv, RunInv, Building, Exec,
         Booting, CBoot, user_task_enabled
<1> QED BY <1>3, <1>5

(* The release of the previous image, whatever run it spares, *)
LEMMA ReleaseImageInv == IInv /\ ReleaseImage => IInv'
<1> SUFFICES ASSUME IInv, ReleaseImage PROVE IInv'
  OBVIOUS
<1> USE DEF IInv
<1>1. old \in Bootstrap /\ Layout(old) /\ freeList \in Seq(Pages)
  BY DEF TypeOK, Control
<1>2. /\ old.begin \in Int /\ old.end \in Int
      /\ old.begin..(old.end - 1) \subseteq Pages /\ old.stack \in 0..NumPages
  BY <1>1, ImageRange
<1>3. PICK lo \in old.begin..old.end, hi \in old.begin..old.end :
          /\ freeList' = FreeRangeExcept(palloc_free(freeList, old.stack),
                                         old.begin, old.end, lo, hi)
          /\ holds' = Unloaded((ImagePages(old) \ (lo..(hi - 1))) \cup {old.stack})
          /\ lost' = lost \cup ((lo..(hi - 1)) \ ImagePages(boot))
  BY DEF ReleaseImage
<1>4. /\ lo \in Int /\ hi \in Int
      /\ old.begin..(lo - 1) \subseteq Pages
      /\ hi..(old.end - 1) \subseteq Pages
      /\ lo..(hi - 1) \subseteq Pages
  BY <1>2
<1>5. palloc_free(freeList, old.stack) \in Seq(Pages)
  BY <1>1, <1>2, FreeTyped
<1>6. freeList' \in Seq(Pages)
  BY <1>2, <1>3, <1>4, <1>5, TypedRange
<1>7. holds' \in [Pages -> Programs \cup {NoProgram}]
  BY <1>3, UnloadedTyped
<1>8. lost' \subseteq Pages
  BY <1>3, <1>4 DEF TypeOK
<1>9. /\ pc = "release_image" /\ pc' = "release_space"
      /\ old' = [old EXCEPT !.stack = Null, !.begin = Null, !.end = Null,
                            !.prog = NoProgram]
      /\ UNCHANGED <<schedule, request, fresh>>
  BY DEF ReleaseImage
<1>10. old' \in Bootstrap /\ Layout(old)'
  <2>1. Null \in 0..NumPages /\ Null \in 0..(NumPages + 1)
    BY ConstantsAssumption DEF Null
  <2>2. old' \in Bootstrap
    BY <1>1, <1>9, <2>1 DEF Bootstrap
  <2>3. old'.begin = Null /\ old'.end = Null
    BY <1>1, <1>9 DEF Bootstrap
  <2> QED BY <2>2, <2>3 DEF Layout, Null
<1>11. TypeOK'
  BY <1>6, <1>7, <1>8, <1>9, <1>10 DEF TypeOK, schedule, request, Steps
<1>12. Control'
  BY <1>9, <1>10 DEF schedule, request,
         Control, Layout, ClaimInv, FreshInv, BootInv, TaskInv, RunInv, Building, Exec,
         Booting, CBoot, user_task_enabled
<1> QED BY <1>11, <1>12

(* and of the previous address space keep it. *)
LEMMA ReleaseSpaceInv == IInv /\ ReleaseSpace => IInv'
<1> SUFFICES ASSUME IInv, ReleaseSpace PROVE IInv'
  OBVIOUS
<1> USE DEF IInv
<1>1. freeList' \in Seq(Pages)
  BY FreeSpaceTyped DEF ReleaseSpace, TypeOK
<1>2. holds' \in [Pages -> Programs \cup {NoProgram}]
  BY UnloadedTyped DEF ReleaseSpace
<1>3. TypeOK'
  BY <1>1, <1>2, ConstantFacts DEF ReleaseSpace, TypeOK, schedule, request, Steps
<1>4. Layout(NoBootstrap)
  BY DEF Layout, NoBootstrap, Null
<1>5. Control'
  BY <1>4 DEF ReleaseSpace, schedule, request,
         Control, Layout, ClaimInv, FreshInv, BootInv, TaskInv, RunInv, Building, Exec,
         Booting, CBoot, user_task_enabled
<1> QED BY <1>3, <1>5

(* task_create_kernel makes a task that can be dispatched, or halts. *)
LEMMA CreateKernelTask ==
  ASSUME IInv, NEW t \in Tasks, NEW step \in Steps, task_create_kernel(t, step)
  PROVE  /\ TypeOK'
         /\ \/ pc' = "halted" /\ UNCHANGED <<state, rsp, space>>
            \/ /\ pc' = step
               /\ state' = [state EXCEPT ![t] = "RUNNABLE"]
               /\ space' = [space EXCEPT ![t] = KernelSpace]
               /\ \E p \in Pages : rsp' = [rsp EXCEPT ![t] = p]
<1> USE DEF IInv
<1>1. CASE freeList = <<>>
  BY <1>1 DEF task_create_kernel, TypeOK, memory, request, Steps
<1>2. CASE freeList # <<>>
  <2> DEFINE p == palloc_alloc(freeList)
             l == AfterAlloc(freeList)
  <2>1. p \in Pages /\ l \in Seq(Pages)
    BY <1>2, AllocTyped
  <2>2. /\ rsp' = [rsp EXCEPT ![t] = p]
        /\ space' = [space EXCEPT ![t] = KernelSpace]
        /\ state' = [state EXCEPT ![t] = "RUNNABLE"]
        /\ freeList' = l
        /\ holds' = [holds EXCEPT ![p] = NoProgram]
        /\ pc' = step
        /\ UNCHANGED <<lost, boot, current, started, cr3, request, fresh, old>>
    BY <1>2 DEF task_create_kernel
  <2> HIDE DEF p, l
  <2>3. TypeOK'
    BY <2>1, <2>2 DEF TypeOK, request
  <2> QED BY <2>1, <2>2, <2>3
<1> QED BY <1>1, <1>2

(* sched_initialize establishes the facts about task0, *)
LEMMA CreateIdleTaskInv == IInv /\ CreateIdleTask => IInv'
<1> SUFFICES ASSUME IInv, CreateIdleTask PROVE IInv'
  OBVIOUS
<1>1. /\ TypeOK'
      /\ \/ pc' = "halted" /\ UNCHANGED <<state, rsp, space>>
         \/ /\ pc' = "init1"
            /\ state' = [state EXCEPT ![0] = "RUNNABLE"]
            /\ space' = [space EXCEPT ![0] = KernelSpace]
            /\ \E p \in Pages : rsp' = [rsp EXCEPT ![0] = p]
  BY CreateKernelTask DEF CreateIdleTask, Tasks, Steps
<1>2. /\ pc = "init0"
      /\ UNCHANGED <<boot, current, started, cr3, request, fresh, old>>
  BY DEF CreateIdleTask, task_create_kernel
<1>3. Control'
  BY <1>1, <1>2, ConstantFacts DEF IInv, TypeOK, Tasks, request,
         Control, Layout, ClaimInv, FreshInv, BootInv, TaskInv, RunInv, Building, Exec,
         Booting, CBoot, user_task_enabled
<1> QED BY <1>1, <1>3 DEF IInv

(* and about task1, a kernel worker *)
LEMMA CreateWorkerTaskInv == IInv /\ CreateWorkerTask => IInv'
<1> SUFFICES ASSUME IInv, CreateWorkerTask PROVE IInv'
  OBVIOUS
<1>1. /\ TypeOK'
      /\ \/ pc' = "halted" /\ UNCHANGED <<state, rsp, space>>
         \/ /\ pc' = "running"
            /\ state' = [state EXCEPT ![1] = "RUNNABLE"]
            /\ space' = [space EXCEPT ![1] = KernelSpace]
            /\ \E p \in Pages : rsp' = [rsp EXCEPT ![1] = p]
  BY CreateKernelTask DEF CreateWorkerTask, Tasks, Steps
<1>2. /\ pc = "init1" /\ ~user_task_enabled
      /\ UNCHANGED <<boot, current, started, cr3, request, fresh, old>>
  BY DEF CreateWorkerTask, task_create_kernel
<1> SUFFICES Control'
  BY <1>1 DEF IInv
<1>3. CASE pc' = "halted"
  <2>1. UNCHANGED <<state, rsp, space>>
    BY <1>1, <1>3
  <2> QED BY <1>2, <1>3, <2>1 DEF IInv, request,
         Control, Layout, ClaimInv, FreshInv, BootInv, TaskInv, RunInv, Building, Exec,
         Booting, CBoot, user_task_enabled
<1>4. CASE pc' # "halted"
  <2>1. PICK p \in Pages : rsp' = [rsp EXCEPT ![1] = p]
    BY <1>1, <1>4
  <2>2. /\ pc' = "running"
        /\ state' = [state EXCEPT ![1] = "RUNNABLE"]
        /\ space' = [space EXCEPT ![1] = KernelSpace]
    BY <1>1, <1>4
  <2>3. /\ state'[0] = state[0] /\ state'[1] = "RUNNABLE"
        /\ rsp'[0] = rsp[0] /\ rsp'[1] # Null
        /\ space'[0] = space[0] /\ space'[1] = KernelSpace
    BY <2>1, <2>2, ConstantFacts DEF IInv, TypeOK, Tasks
  <2> QED BY <1>2, <2>2, <2>3 DEF IInv, request, Tasks,
         Control, Layout, ClaimInv, FreshInv, BootInv, TaskInv, RunInv, Building, Exec,
         Booting, CBoot, user_task_enabled
<1> QED BY <1>3, <1>4

(* or the user task. *)
LEMMA CreateUserTaskInv == IInv /\ CreateUserTask => IInv'
<1> SUFFICES ASSUME IInv, CreateUserTask PROVE IInv'
  OBVIOUS
<1> USE DEF IInv
<1>1. fresh.stack \in Pages /\ fresh.pml4 \in Pages
  <2>1. fresh.stack \in 0..NumPages /\ fresh.pml4 \in 0..NumPages
    BY DEF TypeOK, Bootstrap
  <2>2. fresh.stack # Null /\ fresh.pml4 # Null
    BY DEF CreateUserTask, Control, FreshInv
  <2> QED BY <2>1, <2>2, ConstantsAssumption DEF Pages, Null
<1>2. TypeOK'
  BY <1>1, ConstantFacts
     DEF CreateUserTask, task_build_user_stack, TypeOK, memory, request, Tasks, Steps
<1>3. Layout(NoBootstrap)
  BY DEF Layout, NoBootstrap, Null
<1>4. Control'
  BY <1>1, <1>3, ConstantFacts DEF CreateUserTask, task_build_user_stack, TypeOK, Tasks, request,
         Control, Layout, ClaimInv, FreshInv, BootInv, TaskInv, RunInv, Building, Exec,
         Booting, CBoot, user_task_enabled
<1> QED BY <1>2, <1>4

-----------------------------------------------------------------------------
(* The timer, the system calls and the transfer of control. *)

(* A task with a saved context passes the checks of sched_validate_task. *)
LEMMA Dispatchable ==
  ASSUME IInv, NEW t \in Tasks, ~Booting, t = 1 => state[1] \in {"RUNNABLE", "RUNNING"}
  PROVE  /\ rsp[t] # Null
         /\ Kind(t) = "KERNEL" => space[t] = KernelSpace
         /\ Kind(t) # "KERNEL" => space[t] \notin {Null, KernelSpace}
         /\ space[t] \in {KernelSpace} \cup Pages
<1>1. CASE t = 0
  BY <1>1 DEF IInv, Control, TaskInv, Kind
<1>2. CASE t = 1
  <2>1. boot.pml4 \in 0..NumPages
    BY DEF IInv, TypeOK, Bootstrap
  <2>2. boot.pml4 # Null => boot.pml4 \in Pages /\ boot.pml4 # KernelSpace
    BY <2>1, ConstantsAssumption DEF Pages, Null, KernelSpace
  <2> QED BY <1>2, <2>2 DEF IInv, Control, TaskInv, Kind
<1> QED BY <1>1, <1>2 DEF Tasks

(* Dispatching a valid task. *)
LEMMA Dispatched ==
  ASSUME NEW n \in Tasks, NEW st, NEW frame, NEW step,
         Dispatch(n, st, frame, step), Valid(n, st, frame)
  PROVE  /\ rsp' = frame /\ current' = n /\ cr3' = space[n]
         /\ state' = [st EXCEPT ![n] = "RUNNING"] /\ pc' = step
  BY DEF Dispatch, paging_activate, NoTask, Tasks

(* The first tick dispatches a task that passes every check, *)
LEMMA StartSchedulerInv == IInv /\ StartScheduler => IInv'
<1> SUFFICES ASSUME IInv, StartScheduler PROVE IInv'
  OBVIOUS
<1> DEFINE n == IF user_task_enabled THEN 1 ELSE 0
<1>1. /\ pc = "running" /\ ~started /\ started'
      /\ Dispatch(n, state, rsp, "running")
      /\ UNCHANGED <<memory, space, boot, request, fresh, old>>
  BY DEF StartScheduler
<1>2. ~Booting /\ state[0] = "RUNNABLE" /\ state[1] = "RUNNABLE"
  BY <1>1 DEF IInv, TypeOK, Control, BootInv, TaskInv, RunInv, Building, Tasks
<1>3. n \in Tasks /\ state[n] = "RUNNABLE"
  BY <1>2 DEF Tasks
<1> HIDE DEF n
<1>4. /\ rsp[n] # Null
      /\ Kind(n) = "KERNEL" => space[n] = KernelSpace
      /\ Kind(n) # "KERNEL" => space[n] \notin {Null, KernelSpace}
      /\ space[n] \in {KernelSpace} \cup Pages
  BY <1>2, <1>3, Dispatchable
<1>5. Valid(n, state, rsp)
  BY <1>3, <1>4 DEF Valid
<1>6. /\ rsp' = rsp /\ current' = n /\ cr3' = space[n]
      /\ state' = [state EXCEPT ![n] = "RUNNING"] /\ pc' = "running"
  BY <1>1, <1>3, <1>5, Dispatched
<1>7. TypeOK'
  BY <1>1, <1>3, <1>4, <1>6 DEF IInv, TypeOK, memory, request, Tasks, Steps
<1>8. Control'
  <2>1. /\ state'[n] = "RUNNING" /\ state'[1 - n] = "RUNNABLE" /\ state'[0] # "UNUSED"
        /\ state'[1] # "UNUSED" /\ state'[0] \in {"RUNNABLE", "RUNNING"}
    BY <1>2, <1>3, <1>6 DEF IInv, TypeOK, Tasks
  <2> QED BY <1>1, <1>2, <1>3, <1>6, <2>1 DEF IInv, request,
         Control, Layout, ClaimInv, FreshInv, BootInv, TaskInv, RunInv, Building, Exec,
         Booting, CBoot, user_task_enabled
<1> QED BY <1>7, <1>8 DEF IInv

(* and so does every later tick and yield. *)
LEMMA RescheduleInv == IInv /\ Reschedule => IInv'
<1> SUFFICES ASSUME IInv, Reschedule PROVE IInv'
  OBVIOUS
<1> DEFINE st == [state EXCEPT ![current] = "RUNNABLE"]
           frame == [rsp EXCEPT ![current] = FramePage(current)]
           n == SelectNext(current, st)
<1>1. /\ pc = "running" /\ started
      /\ UNCHANGED <<memory, space, boot, started, request, fresh, old>>
  BY DEF Reschedule
<1>2. /\ current \in Tasks /\ state[current] = "RUNNING" /\ state[1 - current] # "RUNNING"
      /\ ~Booting /\ state[1] # "UNUSED" /\ state[0] \in {"RUNNABLE", "RUNNING"}
  BY <1>1 DEF IInv, Control, BootInv, TaskInv, RunInv, Building
<1>3. rsp[current] # Null
  BY <1>2, Dispatchable DEF Tasks
<1>4. Dispatch(n, st, frame, "running")
  BY <1>2, <1>3 DEF Reschedule
<1>5. /\ st \in [Tasks -> {"UNUSED", "RUNNABLE", "RUNNING", "DONE"}]
      /\ \A t \in Tasks : st[t] = IF t = current THEN "RUNNABLE" ELSE state[t]
  BY <1>2 DEF IInv, TypeOK
<1>6. /\ FramePage(current) \in {TssStack} \cup Pages /\ FramePage(current) # Null
      /\ frame \in [Tasks -> {Null, TssStack} \cup Pages]
      /\ \A t \in Tasks : frame[t] = IF t = current THEN FramePage(current) ELSE rsp[t]
  BY <1>2, <1>3, ConstantFacts DEF IInv, TypeOK, FramePage
<1>7. n \in Tasks /\ st[n] = "RUNNABLE"
  BY <1>2, <1>5 DEF SelectNext, Tasks
<1>8. /\ rsp[n] # Null
      /\ Kind(n) = "KERNEL" => space[n] = KernelSpace
      /\ Kind(n) # "KERNEL" => space[n] \notin {Null, KernelSpace}
      /\ space[n] \in {KernelSpace} \cup Pages
  <2> HIDE DEF n, st
  <2>1. n = 1 => state[1] \in {"RUNNABLE", "RUNNING"}
    BY <1>2, <1>5, <1>7
  <2> QED BY <1>2, <1>7, <2>1, Dispatchable
<1> HIDE DEF n, st, frame
<1>9. Valid(n, st, frame)
  BY <1>6, <1>7, <1>8 DEF Valid
<1>10. /\ rsp' = frame /\ current' = n /\ cr3' = space[n]
       /\ state' = [st EXCEPT ![n] = "RUNNING"] /\ pc' = "running"
  BY <1>4, <1>7, <1>9, Dispatched
<1>11. TypeOK'
  BY <1>1, <1>5, <1>6, <1>7, <1>8, <1>10 DEF IInv, TypeOK, memory, request, Tasks, Steps
<1>12. /\ state'[n] = "RUNNING" /\ state'[1 - n] # "RUNNING"
       /\ state'[0] \in {"RUNNABLE", "RUNNING"} /\ state'[1] # "UNUSED"
       /\ state'[1] \in {"RUNNABLE", "RUNNING"} => state[1] \in {"RUNNABLE", "RUNNING"}
  BY <1>2, <1>5, <1>7, <1>10 DEF Tasks
<1>13. rsp'[0] # Null /\ (rsp[1] # Null => rsp'[1] # Null)
  BY <1>2, <1>6, <1>10 DEF IInv, Control, TaskInv, Tasks
<1>14. Control'
  BY <1>1, <1>2, <1>7, <1>10, <1>12, <1>13 DEF IInv, request,
         Control, Layout, ClaimInv, FreshInv, BootInv, TaskInv, RunInv, Building, Exec,
         Booting, CBoot, user_task_enabled
<1> QED BY <1>11, <1>14 DEF IInv

(* A fault halts. *)
LEMMA UserFaultInv == IInv /\ UserFault => IInv'
<1> SUFFICES ASSUME IInv, UserFault PROVE IInv'
  OBVIOUS
<1>1. TypeOK'
  BY DEF IInv, UserFault, TypeOK, memory, schedule, request, Steps
<1>2. Control'
  BY DEF IInv, UserFault, InTask, schedule, request,
         Control, Layout, ClaimInv, FreshInv, BootInv, TaskInv, RunInv, Building, Exec,
         Booting, CBoot, user_task_enabled
<1> QED BY <1>1, <1>2 DEF IInv

(* exec begins only in the user task. *)
LEMMA SysExecInv == ASSUME NEW prog \in Programs PROVE IInv /\ SysExec(prog) => IInv'
<1> SUFFICES ASSUME IInv, SysExec(prog) PROVE IInv'
  OBVIOUS
<1>1. TypeOK'
  BY DEF IInv, SysExec, TypeOK, memory, schedule, Steps
<1>2. user_task_enabled
  BY DEF SysExec, Kind
<1>3. Control'
  BY <1>2 DEF IInv, SysExec, InTask, schedule,
         Control, Layout, ClaimInv, FreshInv, BootInv, TaskInv, RunInv, Building, Exec,
         Booting, CBoot, user_task_enabled
<1> QED BY <1>1, <1>3 DEF IInv

(* sched_exec_current hands over a complete bootstrap, or none. *)
LEMMA TransferInv == IInv /\ Transfer => IInv'
<1> SUFFICES ASSUME IInv, Transfer PROVE IInv'
  OBVIOUS
<1>1. /\ pc = "transfer" /\ started /\ current = 1 /\ user_task_enabled /\ ~Booting
      /\ fresh.pml4 # Null /\ fresh.stack # Null
  BY DEF IInv, Transfer, Control, FreshInv, BootInv, Building, Exec
<1>2. CASE config.refuse
  <2>1. TypeOK'
    BY <1>1, <1>2 DEF IInv, Transfer, TypeOK, memory, schedule, request, Steps
  <2>2. Control'
    BY <1>1, <1>2 DEF IInv, Transfer, schedule, request,
         Control, Layout, ClaimInv, FreshInv, BootInv, TaskInv, RunInv, Building, Exec,
         Booting, CBoot, user_task_enabled
  <2> QED BY <2>1, <2>2 DEF IInv
<1>3. CASE ~config.refuse
  <2>1. /\ old' = IF SameImage THEN [boot EXCEPT !.begin = Null, !.end = Null] ELSE boot
        /\ rsp' = [rsp EXCEPT ![1] = fresh.stack]
        /\ space' = [space EXCEPT ![1] = fresh.pml4]
        /\ boot' = fresh
        /\ cr3' = fresh.pml4
        /\ fresh' = NoBootstrap
        /\ pc' = "release_image"
        /\ UNCHANGED <<state, current, started, memory, request>>
    BY <1>1, <1>3 DEF Transfer, task_build_user_stack, paging_activate
  <2>2. fresh.stack \in Pages /\ fresh.pml4 \in Pages
    <3>1. fresh.stack \in 0..NumPages /\ fresh.pml4 \in 0..NumPages
      BY DEF IInv, TypeOK, Bootstrap
    <3> QED BY <1>1, <3>1, ConstantsAssumption DEF Pages, Null
  <2>3. old' \in Bootstrap /\ Layout(old)'
    <3>1. boot \in Bootstrap /\ Layout(boot)
      BY DEF IInv, TypeOK, Control
    <3>2. CASE SameImage
      <4>1. Null \in 0..NumPages /\ Null \in 0..(NumPages + 1)
        BY ConstantsAssumption DEF Null
      <4>2. old' \in Bootstrap /\ old'.begin = Null /\ old'.end = Null
        BY <2>1, <3>1, <3>2, <4>1 DEF Bootstrap
      <4> QED BY <4>2 DEF Layout, Null
    <3>3. CASE ~SameImage
      BY <2>1, <3>1, <3>3 DEF Layout
    <3> QED BY <3>2, <3>3
  <2>4. TypeOK'
    BY <2>1, <2>2, <2>3, ConstantFacts DEF IInv, TypeOK, memory, request, Tasks, Steps
  <2>5. Layout(NoBootstrap)
    BY DEF Layout, NoBootstrap, Null
  <2>6. /\ rsp'[0] = rsp[0] /\ rsp'[1] = fresh.stack
        /\ space'[0] = space[0] /\ space'[1] = fresh.pml4
    BY <2>1 DEF IInv, TypeOK, Tasks
  <2>7. Control'
    BY <1>1, <2>1, <2>3, <2>5, <2>6 DEF IInv, request,
         Control, Layout, ClaimInv, FreshInv, BootInv, TaskInv, RunInv, Building, Exec,
         Booting, CBoot, user_task_enabled
  <2> QED BY <2>4, <2>7 DEF IInv
<1> QED BY <1>2, <1>3

(* sched_exit_current always finds the idle task runnable. *)
LEMMA SysExitInv == IInv /\ SysExit => IInv'
<1> SUFFICES ASSUME IInv, SysExit PROVE IInv'
  OBVIOUS
<1> DEFINE st == [state EXCEPT ![1] = "DONE"]
           frame == [rsp EXCEPT ![1] = Null]
<1>1. /\ pc = "running" /\ started /\ current = 1
      /\ old' = boot /\ boot' = NoBootstrap
      /\ Dispatch(SelectNext(1, st), st, frame, "release_image")
      /\ UNCHANGED <<memory, space, started, request, fresh>>
  BY DEF SysExit, InTask
<1>2. ~Booting /\ state[0] = "RUNNABLE" /\ state[1] = "RUNNING"
  BY <1>1 DEF IInv, Control, BootInv, TaskInv, RunInv, Building
<1>3. /\ st \in [Tasks -> {"UNUSED", "RUNNABLE", "RUNNING", "DONE"}]
      /\ st[0] = "RUNNABLE" /\ st[1] = "DONE"
      /\ frame \in [Tasks -> {Null, TssStack} \cup Pages]
      /\ frame[0] = rsp[0]
  BY <1>2 DEF IInv, TypeOK, Tasks
<1>4. SelectNext(1, st) = 0
  BY <1>3 DEF SelectNext
<1>5. rsp[0] # Null /\ space[0] = KernelSpace
  BY <1>2 DEF IInv, Control, TaskInv
<1> HIDE DEF st, frame
<1>6. Valid(0, st, frame)
  BY <1>3, <1>5 DEF Valid, Kind
<1>7. /\ rsp' = frame /\ current' = 0 /\ cr3' = KernelSpace
      /\ state' = [st EXCEPT ![0] = "RUNNING"] /\ pc' = "release_image"
  BY <1>1, <1>4, <1>5, <1>6, Dispatched DEF Tasks
<1>8. TypeOK'
  BY <1>1, <1>3, <1>7, ConstantFacts DEF IInv, TypeOK, memory, request, Tasks, Steps
<1>9. state'[0] = "RUNNING" /\ state'[1] = "DONE" /\ rsp'[0] = rsp[0]
  BY <1>3, <1>7 DEF Tasks
<1>10. Layout(NoBootstrap)
  BY DEF Layout, NoBootstrap, Null
<1>11. Control'
  BY <1>1, <1>2, <1>5, <1>7, <1>9, <1>10 DEF IInv, request, Tasks,
         Control, Layout, ClaimInv, FreshInv, BootInv, TaskInv, RunInv, Building, Exec,
         Booting, CBoot, user_task_enabled
<1> QED BY <1>8, <1>11 DEF IInv

(* Every step keeps the invariant. *)
LEMMA NextInv == IInv /\ [Next]_vars => IInv'
<1> SUFFICES ASSUME IInv, [Next]_vars PROVE IInv'
  OBVIOUS
<1>1. CASE KernelStep
  BY <1>1, CreateAddressSpaceInv, ValidateImageInv, ClaimWindowPageInv, LoadSegmentsInv,
     MapUserPagesInv, AllocUserStackInv, DropImageInv, DropSpaceInv, CreateIdleTaskInv,
     CreateUserTaskInv, CreateWorkerTaskInv, TransferInv, UnloadImageInv, ReleaseImageInv,
     ReleaseSpaceInv DEF KernelStep
<1>2. CASE Tick
  BY <1>2, StartSchedulerInv, RescheduleInv DEF Tick
<1>3. CASE Yield
  BY <1>3, RescheduleInv DEF Yield
<1>4. CASE UserFault
  BY <1>4, UserFaultInv
<1>5. CASE SysExit
  BY <1>5, SysExitInv
<1>6. ASSUME NEW prog \in Programs, SysExec(prog) PROVE IInv'
  BY <1>6, SysExecInv
<1>7. CASE UNCHANGED vars
  <2>1. TypeOK'
    BY <1>7 DEF IInv, vars, TypeOK
  <2>2. Control'
    BY <1>7 DEF IInv, vars, LoadEnd, Control, Layout, ClaimInv, FreshInv, BootInv, TaskInv,
         RunInv, Booting, CBoot, user_task_enabled
  <2> QED BY <2>1, <2>2 DEF IInv
<1> QED BY <1>1, <1>2, <1>3, <1>4, <1>5, <1>6, <1>7 DEF Next

(* IInv implies the properties the runs check. *)
LEMMA InvImplies == IInv => TypeOK /\ OneRunning /\ SchedNeverFails
<1> SUFFICES ASSUME IInv PROVE OneRunning /\ SchedNeverFails
  BY DEF IInv
<1>1. SchedNeverFails
  BY DEF IInv, Control, RunInv, SchedNeverFails
<1>2. ASSUME pc = "running", started
      PROVE  /\ {t \in Tasks : state[t] = "RUNNING"} = {current}
             /\ cr3 = space[current]
             /\ Kind(current) = "USER" => cr3 = boot.pml4
  <2>1. /\ current \in Tasks /\ state[current] = "RUNNING" /\ state[1 - current] # "RUNNING"
        /\ cr3 = space[current]
    BY <1>2 DEF IInv, Control, RunInv
  <2>2. {t \in Tasks : state[t] = "RUNNING"} = {current}
    BY <2>1 DEF Tasks
  <2>3. Kind(current) = "USER" => cr3 = boot.pml4
    BY <2>1 DEF Kind, IInv, Control, TaskInv
  <2> QED BY <2>1, <2>2, <2>3
<1> QED BY <1>1, <1>2 DEF OneRunning

(* Every variable of the process model keeps its type: in particular every *)
(* range that exec, exit and their unwinding free lies in memory.          *)
THEOREM TypeCorrect == Spec => []TypeOK
<1>1. Init => IInv
  BY InitInv
<1>2. IInv /\ [Next]_vars => IInv'
  BY NextInv
<1>3. IInv => TypeOK
  BY InvImplies
<1> QED BY <1>1, <1>2, <1>3, PTL DEF Spec

(* Whenever a task runs it is the current one, the only one in state       *)
(* RUNNING, and CR3 is its address space, through any sequence of ticks,   *)
(* yields, execs and exits.                                                *)
THEOREM RunningTaskUnique == Spec => []OneRunning
<1>1. Init => IInv
  BY InitInv
<1>2. IInv /\ [Next]_vars => IInv'
  BY NextInv
<1>3. IInv => OneRunning
  BY InvImplies
<1> QED BY <1>1, <1>2, <1>3, PTL DEF Spec

(* sched_fail is unreachable: no dispatch ever meets a task without a      *)
(* saved frame or with the wrong address space.                            *)
THEOREM SchedulerNeverFails == Spec => []SchedNeverFails
<1>1. Init => IInv
  BY InitInv
<1>2. IInv /\ [Next]_vars => IInv'
  BY NextInv
<1>3. IInv => SchedNeverFails
  BY InvImplies
<1> QED BY <1>1, <1>2, <1>3, PTL DEF Spec

(* The three together: the scheduler's records are consistent inside and   *)
(* between all handlers of sched.c, core.c and elf.c.                      *)
THEOREM SchedulerIsSound == Spec => []SchedulerSound
<1>1. TypeOK /\ OneRunning /\ SchedNeverFails => SchedulerSound
  BY DEF SchedulerSound
<1> QED BY <1>1, TypeCorrect, RunningTaskUnique, SchedulerNeverFails, PTL

-----------------------------------------------------------------------------
(* Process implements TwoTasks, for every number of pages, every set of    *)
(* images and every build.  Most steps of boot, exec and exit leave the    *)
(* tasks alone and only move the CPU between its phases (Quiet); the rest  *)
(* creates, starts, switches or ends a task.  Besides IInv this needs that *)
(* no task is current before the first tick.                               *)


NoneYet == ~started => current = NoTask

RInv == IInv /\ NoneYet

(* A step that does not touch the tasks and does not leave a halt.  Only   *)
(* task 1 enters the kernel by a call.                                     *)
Quiet ==
    /\ UNCHANGED <<state, current, started>>
    /\ pc \notin {"halted", "sched_fail"}
    /\ pc = "running" /\ pc' # "running" => pc' = "halted" \/ (started /\ current = 1)

(* Interrupts are enabled when both tasks exist. *)
LEMMA BootEnds ==
  ASSUME RInv, RInv', UNCHANGED <<state, current, started>>, ~started,
         Phase = "boot", Phase' = "running", pc' = "running"
  PROVE  Scheduler!Next
<1>1. state' \in [Tasks -> {"UNUSED", "RUNNABLE", "RUNNING", "DONE"}]
  BY DEF RInv, IInv, TypeOK
<1>2. \A t \in Tasks : state'[t] = "RUNNABLE"
  BY DEF RInv, IInv, Control, BootInv, RunInv, Booting, Building, Tasks
<1>3. Scheduler!Create({})
  BY <1>1, <1>2 DEF Scheduler!Create, Scheduler!Tasks, Tasks
<1> QED BY <1>3 DEF Scheduler!Next, Scheduler!Tasks

(* A quiet step is a step of TwoTasks or a stutter. *)
LEMMA QuietStep == RInv /\ RInv' /\ Quiet => [Scheduler!Next]_(Scheduler!vars)
<1> SUFFICES ASSUME RInv, RInv', Quiet PROVE [Scheduler!Next]_(Scheduler!vars)
  OBVIOUS
<1>1. UNCHANGED <<state, current, started>>
  BY DEF Quiet
<1>2. CASE pc' \in {"halted", "sched_fail"}
  <2>1. Phase' = "halted"
    BY <1>2 DEF Phase
  <2> QED BY <1>1, <2>1 DEF Scheduler!Next, Scheduler!Halt
<1>3. CASE pc' = "running" /\ pc = "running"
  <2>1. Phase' = Phase
    BY <1>3 DEF Phase
  <2> QED BY <1>1, <2>1 DEF Scheduler!vars
<1>4. CASE pc' = "running" /\ pc # "running" /\ started
  <2>1. Phase = "kernel" /\ Phase' = "running"
    BY <1>4 DEF Phase, Quiet
  <2> QED BY <1>1, <2>1 DEF Scheduler!Next, Scheduler!Return
<1>5. CASE pc' = "running" /\ pc # "running" /\ ~started
  <2>1. Phase = "boot" /\ Phase' = "running"
    BY <1>5 DEF Phase, Quiet
  <2> QED BY <1>1, <1>5, <2>1, BootEnds
<1>6. CASE pc' \notin {"running", "halted", "sched_fail"} /\ pc = "running"
  <2>1. started /\ current = 1 /\ started'
    BY <1>1, <1>6 DEF Quiet
  <2>2. Phase = "running" /\ Phase' = "kernel"
    BY <1>6, <2>1 DEF Phase
  <2> QED BY <1>1, <2>1, <2>2 DEF Scheduler!Next, Scheduler!Call
<1>7. CASE pc' \notin {"running", "halted", "sched_fail"} /\ pc # "running"
  <2>1. Phase' = Phase
    BY <1>1, <1>7 DEF Phase, Quiet
  <2> QED BY <1>1, <2>1 DEF Scheduler!vars
<1> QED BY <1>2, <1>3, <1>4, <1>5, <1>6, <1>7

(* The steps that build, unwind and release a bootstrap, a call of exec    *)
(* and a fault are quiet.                                                  *)
LEMMA QuietActions ==
  ASSUME RInv,
         \/ CreateAddressSpace \/ ValidateImage \/ ClaimWindowPage \/ LoadSegments
         \/ MapUserPages \/ AllocUserStack \/ DropImage \/ DropSpace \/ Transfer
         \/ UnloadImage \/ ReleaseImage \/ ReleaseSpace \/ UserFault
         \/ \E prog \in Programs : SysExec(prog)
  PROVE  Quiet
<1> USE DEF Quiet, schedule
<1>1. CASE CreateAddressSpace \/ ValidateImage \/ ClaimWindowPage \/ LoadSegments
  BY <1>1 DEF CreateAddressSpace, ValidateImage, ClaimWindowPage, LoadSegments
<1>2. CASE MapUserPages \/ AllocUserStack \/ DropImage \/ DropSpace
  BY <1>2 DEF MapUserPages, AllocUserStack, DropImage, DropSpace
<1>3. CASE Transfer
  BY <1>3 DEF Transfer
<1>4. CASE UnloadImage \/ ReleaseImage \/ ReleaseSpace
  BY <1>4 DEF UnloadImage, ReleaseImage, ReleaseSpace
<1>5. CASE UserFault \/ \E prog \in Programs : SysExec(prog)
  BY <1>5 DEF UserFault, SysExec, InTask
<1> QED BY <1>1, <1>2, <1>3, <1>4, <1>5

(* A task that is created, and after the second one interrupts. *)
LEMMA Created ==
  ASSUME RInv, RInv', NEW t \in Tasks, ~started, pc \in {"init0", "init1"},
         state[t] = "UNUSED", state' = [state EXCEPT ![t] = "RUNNABLE"],
         UNCHANGED <<current, started>>,
         t = 0 => pc' = "init1", t = 1 => pc' = "running"
  PROVE  Scheduler!Next
<1>1. state \in [Tasks -> {"UNUSED", "RUNNABLE", "RUNNING", "DONE"}]
  BY DEF RInv, IInv, TypeOK
<1>2. state' = [u \in Tasks |-> IF u \in {t} THEN "RUNNABLE" ELSE state[u]]
  BY <1>1
<1>3. Phase = "boot" /\ Phase' = IF t = 0 THEN "boot" ELSE "running"
  BY DEF Phase, Tasks
<1>4. t = 1 => \A u \in Tasks : state'[u] = "RUNNABLE"
  BY <1>1 DEF RInv, IInv, Control, BootInv, RunInv, Booting, Building, Tasks
<1>5. Scheduler!Create({t})
  BY <1>2, <1>3, <1>4 DEF Scheduler!Create, Scheduler!Tasks, Tasks
<1> QED BY <1>5 DEF Scheduler!Next, Scheduler!Tasks, Tasks

(* sched_initialize creates the tasks; without memory it halts. *)
LEMMA CreateStep ==
  ASSUME RInv, RInv', CreateIdleTask \/ CreateUserTask \/ CreateWorkerTask
  PROVE  [Scheduler!Next]_(Scheduler!vars)
<1>1. ~started
  BY DEF CreateIdleTask, CreateUserTask, CreateWorkerTask, task_create_kernel,
         RInv, IInv, Control, BootInv
<1>2. CASE CreateIdleTask
  <2>1. CASE freeList = <<>>
    <3>1. Quiet
      BY <1>2, <2>1 DEF CreateIdleTask, task_create_kernel, Quiet
    <3> QED BY <3>1, QuietStep
  <2>2. CASE freeList # <<>>
    <3>1. state[0] = "UNUSED"
      BY <1>2 DEF CreateIdleTask, RInv, IInv, Control, BootInv, Booting
    <3> QED BY <1>1, <1>2, <2>2, <3>1, Created DEF CreateIdleTask, task_create_kernel, Tasks
  <2> QED BY <2>1, <2>2
<1>3. CASE CreateWorkerTask \/ CreateUserTask
  <2>1. state[1] = "UNUSED"
    BY <1>3 DEF CreateWorkerTask, CreateUserTask, RInv, IInv, Control, BootInv
  <2>2. CASE CreateWorkerTask /\ freeList = <<>>
    <3>1. Quiet
      BY <2>2 DEF CreateWorkerTask, task_create_kernel, Quiet
    <3> QED BY <3>1, QuietStep
  <2>3. CASE CreateWorkerTask /\ freeList # <<>>
    BY <1>1, <2>1, <2>3, Created DEF CreateWorkerTask, task_create_kernel, Tasks
  <2>4. CASE CreateUserTask
    BY <1>1, <2>1, <2>4, Created DEF CreateUserTask, Tasks
  <2> QED BY <1>3, <2>2, <2>3, <2>4
<1> QED BY <1>2, <1>3

(* The first tick starts a task. *)
LEMMA StartStep == ASSUME RInv, RInv', StartScheduler PROVE Scheduler!Next
<1> DEFINE n == IF user_task_enabled THEN 1 ELSE 0
<1>1. /\ pc = "running" /\ ~started /\ current = NoTask
      /\ Dispatch(n, state, rsp, "running")
  BY DEF StartScheduler, RInv, NoneYet
<1>2. n \in Tasks /\ n # NoTask
  BY DEF Tasks, NoTask
<1>3. pc' # "sched_fail"
  BY DEF RInv, IInv, Control, RunInv
<1> HIDE DEF n
<1>4. current' = n /\ state' = [state EXCEPT ![n] = "RUNNING"] /\ pc' = "running"
  BY <1>1, <1>2, <1>3 DEF Dispatch
<1>5. Phase = "running" /\ Phase' = "running"
  BY <1>1, <1>4 DEF Phase
<1>6. Scheduler!Start(n)
  BY <1>1, <1>4, <1>5 DEF Scheduler!Start, Scheduler!NoTask, NoTask
<1> QED BY <1>2, <1>6 DEF Scheduler!Next, Scheduler!Tasks, Tasks

(* Every later tick and every yield switches. *)
LEMMA SwitchStep == ASSUME RInv, RInv', Reschedule PROVE Scheduler!Next
<1> DEFINE st == [state EXCEPT ![current] = "RUNNABLE"]
           next == IF state[1 - current] = "RUNNABLE" THEN 1 - current ELSE current
<1>1. pc = "running" /\ pc' # "sched_fail" /\ started /\ current \in Tasks
      /\ state \in [Tasks -> {"UNUSED", "RUNNABLE", "RUNNING", "DONE"}]
  BY DEF Reschedule, RInv, IInv, Control, RunInv, TypeOK
<1>2. SelectNext(current, st) = next
  <2>1. /\ 1 - current \in Tasks /\ 1 - current # current
        /\ st[current] = "RUNNABLE" /\ st[1 - current] = state[1 - current]
    BY <1>1 DEF Tasks
  <2> HIDE DEF st
  <2> QED BY <2>1 DEF SelectNext
<1>3. Dispatch(next, st, [rsp EXCEPT ![current] = FramePage(current)], "running")
  BY <1>1, <1>2 DEF Reschedule
<1>4. next \in Tasks /\ next # NoTask
  BY <1>1 DEF Tasks, NoTask
<1>5. current' = next /\ state' = [st EXCEPT ![next] = "RUNNING"] /\ pc' = "running"
  <2> HIDE DEF next, st
  <2> QED BY <1>1, <1>3, <1>4 DEF Dispatch
<1>6. Phase = "running" /\ Phase' = "running"
  BY <1>1, <1>5 DEF Phase
<1>7. Scheduler!Switch
  BY <1>1, <1>5, <1>6 DEF Scheduler!Switch, Scheduler!Tasks, Tasks
<1> QED BY <1>7 DEF Scheduler!Next

(* Exit ends task 1. *)
LEMMA ExitStep == ASSUME RInv, RInv', SysExit PROVE Scheduler!Next
<1> DEFINE st == [state EXCEPT ![1] = "DONE"]
           frame == [rsp EXCEPT ![1] = Null]
<1>1. /\ pc = "running" /\ started /\ started' /\ current = 1 /\ pc' # "sched_fail"
      /\ Dispatch(SelectNext(1, st), st, frame, "release_image")
      /\ state \in [Tasks -> {"UNUSED", "RUNNABLE", "RUNNING", "DONE"}]
  BY DEF SysExit, InTask, RInv, IInv, Control, RunInv, TypeOK
<1>2. state[0] = "RUNNABLE"
  BY <1>1 DEF RInv, IInv, Control, BootInv, TaskInv, RunInv, Building
<1>3. SelectNext(1, st) = 0
  BY <1>1, <1>2 DEF SelectNext, Tasks
<1>4. current' = 0 /\ state' = [st EXCEPT ![0] = "RUNNING"] /\ pc' = "release_image"
  <2> HIDE DEF st, frame
  <2> QED BY <1>1, <1>3 DEF Dispatch, NoTask
<1>5. Phase = "running" /\ Phase' = "kernel"
  BY <1>1, <1>4 DEF Phase
<1>6. state' = [state EXCEPT ![1] = "DONE", ![0] = "RUNNING"]
  BY <1>4
<1>7. Scheduler!Exit
  BY <1>1, <1>2, <1>4, <1>5, <1>6 DEF Scheduler!Exit
<1> QED BY <1>7 DEF Scheduler!Next

(* No task is current before the first tick. *)
LEMMA NoneYetInv == ASSUME RInv, [Next]_vars PROVE NoneYet'
<1> USE DEF RInv, NoneYet
<1>3. CASE CreateIdleTask \/ CreateUserTask \/ CreateWorkerTask
  BY <1>3 DEF CreateIdleTask, CreateUserTask, CreateWorkerTask, task_create_kernel
<1>4. CASE StartScheduler \/ Reschedule \/ SysExit
  BY <1>4 DEF StartScheduler, Reschedule, SysExit, InTask
<1>5. CASE UNCHANGED vars
  BY <1>5 DEF vars
<1>6. CASE Quiet
  BY <1>6 DEF Quiet
<1> QED BY <1>3, <1>4, <1>5, <1>6, QuietActions DEF Next, KernelStep, Tick, Yield

(* Process implements the two-task scheduler: whatever memory its boot,    *)
(* exec and exit find or lack, each of its steps is one of TwoTasks.       *)
THEOREM ProcessImplementsTwoTasks == Spec => ImplementsTwoTasks
<1>1. Init => RInv
  BY InitInv DEF RInv, NoneYet, Init
<1>2. RInv /\ [Next]_vars => RInv'
  BY NextInv, NoneYetInv DEF RInv
<1>3. Init => Scheduler!Init
  BY DEF Init, Scheduler!Init, Phase, Scheduler!Tasks, Tasks, Scheduler!NoTask, NoTask
<1>4. RInv /\ RInv' /\ [Next]_vars => [Scheduler!Next]_(Scheduler!vars)
  <2> SUFFICES ASSUME RInv, RInv', [Next]_vars PROVE [Scheduler!Next]_(Scheduler!vars)
    OBVIOUS
  <2>1. CASE UNCHANGED vars
    BY <2>1 DEF vars, Scheduler!vars, Phase
  <2>2. CASE CreateIdleTask \/ CreateUserTask \/ CreateWorkerTask
    BY <2>2, CreateStep
  <2>3. CASE StartScheduler \/ Reschedule \/ SysExit
    BY <2>3, StartStep, SwitchStep, ExitStep
  <2>4. CASE Quiet
    BY <2>4, QuietStep
  <2> QED BY <2>1, <2>2, <2>3, <2>4, QuietActions DEF Next, KernelStep, Tick, Yield
<1> QED BY <1>1, <1>2, <1>3, <1>4, PTL DEF Spec, ImplementsTwoTasks, Scheduler!Spec

-----------------------------------------------------------------------------
(***************************************************************************)
(* Memory ownership, for every number of pages and every machine: inside   *)
(* every handler each page is free, or in use for one purpose, or an image *)
(* page that exit may leave behind; and what the CPU uses is never free.   *)
(* Two facts about a build are needed, and the findings are what happens   *)
(* without the first:                                                      *)
(*   - the images of the registry span the same pages (SpansAgree), as the *)
(*     embedded programs do;                                               *)
(*   - a build that refuses execs does not start from an ELF image         *)
(*     (RefusesAll): the test hook comes with the C first task.            *)
(*                                                                         *)
(* PagesOwned is not inductive.  That no release frees a page twice or     *)
(* forgets one depends on which parts of the three bootstraps exist at     *)
(* each step of boot, exec and exit (StageInv), on every image being the   *)
(* loader's whole window or nothing (ShapeInv), and on a bootstrap that is *)
(* handed over being complete (FullInv).                                   *)
(***************************************************************************)

SpansAgree == \A p, q \in Programs : Span[p] = Span[q]
RefusesAll == \A c \in Configs : c.refuse => c.init # "elf"

WindowEnd == LoadBase + Span[CHOOSE p \in Programs : TRUE]
Window == LoadBase..(WindowEnd - 1)

HasImage(b) == b.begin = LoadBase /\ b.end = WindowEnd
NoImage(b) == b.begin = Null /\ b.end = Null
NoTables(b) == b.pdpt = Null /\ b.pd = Null /\ b.pt = Null
AllTables(b) == b.pml4 # Null /\ b.pdpt # Null /\ b.pd # Null /\ b.pt # Null
Full(b) == AllTables(b) /\ b.stack # Null

ShapeInv == \A b \in {boot, fresh, old} : HasImage(b) \/ NoImage(b)

(* What the new bootstrap and the one being released hold at each step. *)
StageInv ==
    /\ pc \in {"create", "running", "release_image", "release_space"} => fresh = NoBootstrap
    /\ pc \in Exec => user_task_enabled
    /\ pc \in {"validate", "claim"} => NoTables(fresh) /\ fresh.stack = Null /\ NoImage(fresh)
    /\ pc = "map" => NoTables(fresh) /\ (~CBoot => fresh.stack = Null)
    /\ pc = "stack" => fresh.stack = Null
    /\ pc \in {"map", "stack"} => IF CBoot THEN NoImage(fresh) ELSE HasImage(fresh)
    /\ pc = "stack" => IF CBoot THEN NoTables(fresh) ELSE AllTables(fresh)
    /\ pc \in {"drop_image", "transfer", "unload"} => HasImage(fresh)
    /\ pc = "drop_space" => fresh.stack = Null /\ NoImage(fresh)
    /\ pc \in {"init0", "init1"} /\ ~user_task_enabled => fresh = NoBootstrap
    /\ pc \notin {"release_image", "release_space"} => old = NoBootstrap
    /\ pc = "release_image" => NoImage(old) \/ (NoImage(boot) /\ state[1] = "DONE")
    /\ pc = "release_space" => old.stack = Null /\ NoImage(old)

(* A bootstrap is handed over when it is complete, to a task that has none. *)
FullInv ==
    /\ pc \in {"transfer"} => Full(fresh)
    /\ pc \in {"init0", "init1"} /\ user_task_enabled => Full(fresh)
    /\ boot.pml4 # Null => Full(boot)
    /\ Booting \/ pc = "init1" \/ ~user_task_enabled => boot = NoBootstrap

(* Where execs are refused no image is ever run. *)
RefuseInv ==
    /\ config.refuse => /\ NoImage(boot)
                        /\ Booting \/ pc = "init1" => NoImage(fresh)
    /\ pc = "unload" => config.refuse

(* Stacks: none before its task, and the user task's frame on its own. *)
StackInv ==
    /\ Booting => rsp[0] = Null
    /\ Booting \/ pc = "init1" => rsp[1] = Null
    /\ user_task_enabled /\ state[1] \in {"RUNNABLE", "RUNNING"} => rsp[1] \in {TssStack, boot.stack}
    /\ ~started => cr3 = KernelSpace

Stages == ShapeInv /\ StageInv /\ FullInv /\ RefuseInv /\ StackInv


-----------------------------------------------------------------------------
(* Sets of pages *)

(* The fields of a bootstrap that name pages name different ones. *)
Distinct(b) ==
    /\ b.pml4 # Null => b.pml4 \notin {b.pdpt, b.pd, b.pt, b.stack}
    /\ b.pdpt # Null => b.pdpt \notin {b.pd, b.pt, b.stack}
    /\ b.pd # Null => b.pd \notin {b.pt, b.stack}
    /\ b.pt # Null => b.pt # b.stack

(* Free pages, the private pages of the current, the new and the previous  *)
(* bootstrap, kernel stacks and images share nothing.                      *)
Divided(F, B, N, O, K, I) ==
    /\ F \cap (B \cup N \cup O \cup K \cup I) = {}
    /\ B \cap N = {} /\ B \cap O = {} /\ N \cap O = {}
    /\ (B \cup N \cup O) \cap (K \cup I) = {}
    /\ K \cap I = {}

Account(F, B, N, O, K, I, L, n) ==
    /\ Divided(F, B, N, O, K, I)
    /\ F \cup B \cup N \cup O \cup K \cup I \cup L = 1..n

(* PagesOwned, as sets. *)
Owned ==
    /\ IsInjective(freeList)
    /\ Distinct(boot) /\ Distinct(fresh) /\ Distinct(old)
    /\ Account(Free, Private(boot), Private(fresh), Private(old), KernelStacks, Images, lost,
               config.pages)
    /\ lost # {} => state[1] = "DONE"

OInv == IInv /\ Stages /\ Owned

LEMMA DistinctFields ==
  ASSUME NEW b \in Bootstrap
  PROVE  Distinct(b) <=> \A f, g \in {"pml4", "pdpt", "pd", "pt", "stack"} :
                           f # g /\ b[f] # Null => b[f] # b[g]
<1>1. ASSUME Distinct(b), NEW f \in {"pml4", "pdpt", "pd", "pt", "stack"},
             NEW g \in {"pml4", "pdpt", "pd", "pt", "stack"}, f # g, b[f] # Null
      PROVE  b[f] # b[g]
  BY <1>1 DEF Distinct
<1>2. ASSUME \A f, g \in {"pml4", "pdpt", "pd", "pt", "stack"} : f # g /\ b[f] # Null => b[f] # b[g]
      PROVE  Distinct(b)
  BY <1>2 DEF Distinct
<1> QED BY <1>1, <1>2

LEMMA OwnedIsPagesOwned == TypeOK => (Owned <=> PagesOwned)
<1> SUFFICES ASSUME TypeOK PROVE Owned <=> PagesOwned
  OBVIOUS
<1>1. boot \in Bootstrap /\ fresh \in Bootstrap /\ old \in Bootstrap
  BY DEF TypeOK
<1> DEFINE Fields(b) == \A f, g \in {"pml4", "pdpt", "pd", "pt", "stack"} :
                          f # g /\ b[f] # Null => b[f] # b[g]
<1>2. /\ Distinct(boot) <=> Fields(boot)
      /\ Distinct(fresh) <=> Fields(fresh)
      /\ Distinct(old) <=> Fields(old)
  BY <1>1, DistinctFields
<1> HIDE DEF Fields
<1>3. NoPageUsedTwice <=>
         /\ Fields(boot) /\ Fields(fresh) /\ Fields(old)
         /\ Private(boot) \cap Private(fresh) = {}
         /\ Private(boot) \cap Private(old) = {}
         /\ Private(fresh) \cap Private(old) = {}
         /\ (Private(boot) \cup Private(fresh) \cup Private(old)) \cap (KernelStacks \cup Images) = {}
         /\ KernelStacks \cap Images = {}
  BY DEF NoPageUsedTwice, Fields
<1>4. Free \cup InUse \cup lost = Free \cup Private(boot) \cup Private(fresh) \cup Private(old)
         \cup KernelStacks \cup Images \cup lost
  BY DEF InUse
<1> QED BY <1>2, <1>3, <1>4
    DEF Owned, Account, PagesOwned, NoFreePageInUse, EveryPageAccounted, Divided, InUse

(* Every image is loaded at the same place. *)
LEMMA WindowFacts ==
  ASSUME SpansAgree, TypeOK
  PROVE  /\ LoadEnd = WindowEnd /\ WindowEnd \in Int /\ LoadBase < WindowEnd
         /\ LoadBase \in Int /\ LoadBase > 0
<1>1. target \in Programs
  BY DEF TypeOK
<1>2. (CHOOSE p \in Programs : TRUE) \in Programs
  BY <1>1
<1>3. Span[target] = Span[CHOOSE p \in Programs : TRUE] /\ Span[target] \in Nat \ {0}
  BY <1>1, <1>2, ConstantsAssumption DEF SpansAgree
<1> QED BY <1>3, ConstantsAssumption DEF LoadEnd, WindowEnd

LEMMA ImageShape ==
  ASSUME NEW b
  PROVE  /\ NoImage(b) => ImagePages(b) = {}
         /\ HasImage(b) => ImagePages(b) = Window
  BY DEF NoImage, HasImage, ImagePages, Window, Null

(* What a claim has taken so far: nothing where the caller has an image. *)
LEMMA TakenPages ==
  ASSUME SpansAgree, IInv, ShapeInv
  PROVE  /\ Taken = IF pc = "claim" /\ NoImage(boot) THEN LoadBase..(page - 1) ELSE {}
         /\ NoImage(boot) => \A p : ~Reusable(p)
         /\ HasImage(boot) => \A p \in Int : Reusable(p) <=> p \in Window
<1>1. WindowEnd \in Int /\ LoadBase \in Int /\ LoadBase > 0 /\ LoadEnd = WindowEnd
  BY WindowFacts DEF IInv
<1>2. HasImage(boot) \/ NoImage(boot)
  BY DEF ShapeInv
<1>3. NoImage(boot) => \A p : ~Reusable(p)
  BY DEF NoImage, Reusable
<1>4. HasImage(boot) => \A p \in Int : Reusable(p) <=> p \in Window
  BY <1>1 DEF HasImage, Reusable, Window, Null
<1>5. pc = "claim" => page \in Int /\ page <= WindowEnd
  BY <1>1 DEF IInv, Control, ClaimInv
<1>6. pc = "claim" /\ HasImage(boot) => {p \in LoadBase..(page - 1) : ~Reusable(p)} = {}
  BY <1>1, <1>4, <1>5 DEF Window
<1>7. ~(HasImage(boot) /\ NoImage(boot))
  BY <1>1 DEF HasImage, NoImage, Null
<1> QED BY <1>2, <1>3, <1>4, <1>6, <1>7 DEF Taken

(* palloc_free of a page that is not on the list, or of the null page. *)
LEMMA FreeAny ==
  ASSUME NEW list \in Seq(Pages), IsInjective(list), NEW p \in 0..NumPages, p \notin ToSet(list)
  PROVE  /\ palloc_free(list, p) \in Seq(Pages)
         /\ IsInjective(palloc_free(list, p))
         /\ ToSet(palloc_free(list, p)) = ToSet(list) \cup ({p} \ {Null})
<1>1. CASE p = Null
  BY <1>1 DEF palloc_free
<1>2. CASE p # Null
  <2>1. p \in Pages
    BY <1>2, ConstantsAssumption DEF Pages, Null
  <2> QED BY <1>2, <2>1, FreeFacts
<1> QED BY <1>1, <1>2

LEMMA NullNotListed ==
  ASSUME NEW list \in Seq(Pages)
  PROVE  Null \notin ToSet(list) /\ ToSet(list) \subseteq Pages
BY ListFacts, ConstantFacts

(* paging_release_user_address_space gives back exactly the tables. *)
LEMMA FreeSpaceFacts ==
  ASSUME NEW list \in Seq(Pages), IsInjective(list), NEW b \in Bootstrap, Distinct(b),
         Private(b) \cap ToSet(list) = {}
  PROVE  /\ IsInjective(FreeSpace(list, b))
         /\ ToSet(FreeSpace(list, b)) = ToSet(list) \cup (Tables(b) \ {Null})
<1>1. /\ b.pt \in 0..NumPages /\ b.pd \in 0..NumPages
      /\ b.pdpt \in 0..NumPages /\ b.pml4 \in 0..NumPages
  BY DEF Bootstrap
<1>2. \A p \in {b.pt, b.pd, b.pdpt, b.pml4} : p \notin ToSet(list)
  BY NullNotListed DEF Private
<1> DEFINE l1 == palloc_free(list, b.pt)
           l2 == palloc_free(l1, b.pd)
           l3 == palloc_free(l2, b.pdpt)
           l4 == palloc_free(l3, b.pml4)
<1>3. l1 \in Seq(Pages) /\ IsInjective(l1) /\ ToSet(l1) = ToSet(list) \cup ({b.pt} \ {Null})
  BY <1>1, <1>2, FreeAny
<1> HIDE DEF l1
<1>4. b.pd \notin ToSet(l1)
  BY <1>2, <1>3 DEF Distinct
<1>5. l2 \in Seq(Pages) /\ IsInjective(l2) /\ ToSet(l2) = ToSet(l1) \cup ({b.pd} \ {Null})
  BY <1>1, <1>3, <1>4, FreeAny
<1> HIDE DEF l2
<1>6. b.pdpt \notin ToSet(l2)
  BY <1>2, <1>3, <1>5 DEF Distinct
<1>7. l3 \in Seq(Pages) /\ IsInjective(l3) /\ ToSet(l3) = ToSet(l2) \cup ({b.pdpt} \ {Null})
  BY <1>1, <1>5, <1>6, FreeAny
<1> HIDE DEF l3
<1>8. b.pml4 \notin ToSet(l3)
  BY <1>2, <1>3, <1>5, <1>7 DEF Distinct
<1>9. IsInjective(l4) /\ ToSet(l4) = ToSet(l3) \cup ({b.pml4} \ {Null})
  BY <1>1, <1>7, <1>8, FreeAny
<1>10. ToSet(l4) = ToSet(list) \cup ({b.pt, b.pd, b.pdpt, b.pml4} \ {Null})
  BY <1>3, <1>5, <1>7, <1>9
<1>11. l4 = FreeSpace(list, b)
  BY DEF l4, l3, l2, l1, FreeSpace
<1> QED BY <1>9, <1>10, <1>11 DEF Tables

-----------------------------------------------------------------------------
(* Stages: what each step leaves in the bootstraps *)

LEMMA InitStages == Init => Stages
BY
   DEF Init, NoBootstrap, Null, Tasks, Stages, ShapeInv, StageInv, FullInv, RefuseInv,
       StackInv, HasImage, NoImage, NoTables, AllTables, Full, Exec, Building, Booting,
       CBoot, user_task_enabled

LEMMA CreateAddressSpaceStages == IInv /\ Stages /\ CreateAddressSpace => Stages'
<1> SUFFICES ASSUME IInv, Stages, CreateAddressSpace PROVE Stages'
  OBVIOUS
<1>1. CASE freeList = <<>>
  BY <1>1
     DEF CreateAddressSpace, memory, schedule, request, FailTo, IInv, Control, BootInv,
         Stages, ShapeInv, StageInv, FullInv, RefuseInv, StackInv, HasImage, NoImage,
         NoTables, AllTables, Full, Exec, Building, Booting, CBoot, user_task_enabled
<1>2. CASE freeList # <<>>
  <2>1. /\ pc = "create" /\ UNCHANGED <<schedule, request, old>>
        /\ pc' = IF CBoot THEN "stack" ELSE "validate"
        /\ fresh' = [NoBootstrap EXCEPT !.pml4 = palloc_alloc(freeList)]
    BY <1>2 DEF CreateAddressSpace
  <2>2. NoTables(fresh') /\ fresh'.stack = Null /\ NoImage(fresh')
    BY <2>1 DEF NoBootstrap, NoTables, NoImage
  <2> QED BY <2>1, <2>2
     DEF schedule, request, IInv, Control, BootInv, Stages, ShapeInv, StageInv, FullInv,
         RefuseInv, StackInv, HasImage, NoImage, NoTables, AllTables, Full, Exec, Building,
         Booting, CBoot, user_task_enabled
<1> QED BY <1>1, <1>2

LEMMA ValidateImageStages == IInv /\ Stages /\ ValidateImage => Stages'
BY
   DEF ValidateImage, memory, schedule, FailTo, IInv, Control, BootInv, Stages, ShapeInv,
       StageInv, FullInv, RefuseInv, StackInv, HasImage, NoImage, NoTables, AllTables,
       Full, Exec, Building, Booting, CBoot, user_task_enabled

LEMMA ClaimWindowPageStages == IInv /\ Stages /\ ClaimWindowPage => Stages'
BY
   DEF ClaimWindowPage, schedule, FailTo, IInv, Control, BootInv, Stages, ShapeInv,
       StageInv, FullInv, RefuseInv, StackInv, HasImage, NoImage, NoTables, AllTables,
       Full, Exec, Building, Booting, CBoot, user_task_enabled

LEMMA LoadSegmentsStages ==
  ASSUME SpansAgree, RefusesAll, IInv, Stages, LoadSegments
  PROVE  Stages'
<1>1. /\ pc = "claim" /\ pc' = "map" /\ UNCHANGED <<schedule, config, target, old>>
      /\ fresh' = [fresh EXCEPT !.begin = LoadBase, !.end = LoadEnd, !.prog = target]
  BY DEF LoadSegments
<1>2. fresh \in Bootstrap /\ LoadEnd = WindowEnd /\ config \in Configs
  BY WindowFacts DEF IInv, TypeOK
<1>3. /\ HasImage(fresh') /\ fresh'.stack = fresh.stack
      /\ fresh'.pdpt = fresh.pdpt /\ fresh'.pd = fresh.pd /\ fresh'.pt = fresh.pt
  BY <1>1, <1>2 DEF Bootstrap, HasImage
<1>4. ~CBoot /\ user_task_enabled /\ (config.refuse => ~Booting)
  <2>1. ~CBoot /\ user_task_enabled
    BY <1>1 DEF IInv, Control, FreshInv, Stages, StageInv, Exec, Building
  <2>2. config.init \in {"off", "c", "elf"}
    BY <1>2, ConstantsAssumption DEF Config
  <2> QED BY <1>2, <2>1, <2>2 DEF RefusesAll, CBoot, user_task_enabled
<1> QED BY <1>1, <1>3, <1>4
   DEF schedule, Stages, ShapeInv, StageInv, FullInv, RefuseInv, StackInv, HasImage,
       NoImage, NoTables, AllTables, Full, Exec, Building, Booting, CBoot,
       user_task_enabled

LEMMA MapUserPagesStages == IInv /\ IInv' /\ Stages /\ MapUserPages => Stages'
<1> SUFFICES ASSUME IInv, IInv', Stages, MapUserPages PROVE Stages'
  OBVIOUS
<1>1. CASE Len(freeList) < 3
  BY <1>1
     DEF MapUserPages, memory, schedule, request, Stages, ShapeInv, StageInv, FullInv,
         RefuseInv, StackInv, HasImage, NoImage, NoTables, AllTables, Full, Exec, Building,
         Booting, CBoot, user_task_enabled
<1>2. CASE ~(Len(freeList) < 3)
  <2>1. /\ pc = "map" /\ UNCHANGED <<schedule, request, old>>
        /\ pc' = IF CBoot THEN "init0" ELSE "stack"
        /\ fresh' = [fresh EXCEPT !.pdpt = freeList[1], !.pd = freeList[2], !.pt = freeList[3]]
    BY <1>2 DEF MapUserPages, WithTables
  <2>2. fresh \in Bootstrap /\ freeList \in Seq(Pages)
    BY DEF IInv, TypeOK
  <2>3. freeList[1] \in Pages /\ freeList[2] \in Pages /\ freeList[3] \in Pages
    BY <1>2, <2>2, ElementOfSeq, LenProperties
  <2>4. /\ fresh'.begin = fresh.begin /\ fresh'.end = fresh.end /\ fresh'.stack = fresh.stack
        /\ fresh'.pml4 = fresh.pml4 /\ fresh.pml4 # Null /\ AllTables(fresh')
    BY <2>1, <2>2, <2>3, ConstantFacts
    DEF Bootstrap, AllTables, IInv, Control, FreshInv, Exec, Building
  <2>5. CBoot => fresh.stack # Null
    BY <2>1 DEF IInv, Control, FreshInv
  <2> QED BY <2>1, <2>4, <2>5
     DEF schedule, request, Stages, ShapeInv, StageInv, FullInv, RefuseInv, StackInv,
         HasImage, NoImage, NoTables, AllTables, Full, Exec, Building, Booting, CBoot,
         user_task_enabled
<1> QED BY <1>1, <1>2

LEMMA AllocUserStackStages == IInv /\ Stages /\ AllocUserStack => Stages'
<1> SUFFICES ASSUME IInv, Stages, AllocUserStack PROVE Stages'
  OBVIOUS
<1>1. CASE freeList = <<>>
  BY <1>1
     DEF AllocUserStack, memory, schedule, request, FailTo, IInv, Control, BootInv, Stages,
         ShapeInv, StageInv, FullInv, RefuseInv, StackInv, HasImage, NoImage, NoTables,
         AllTables, Full, Exec, Building, Booting, CBoot, user_task_enabled
<1>2. CASE freeList # <<>>
  <2>1. /\ pc = "stack" /\ UNCHANGED <<schedule, request, old>>
        /\ pc' = IF CBoot THEN "map" ELSE IF Booting THEN "init0" ELSE "transfer"
        /\ fresh' = [fresh EXCEPT !.stack = palloc_alloc(freeList)]
    BY <1>2 DEF AllocUserStack
  <2>2. fresh \in Bootstrap /\ palloc_alloc(freeList) # Null
    BY <1>2, AllocTyped, ConstantFacts DEF IInv, TypeOK
  <2>3. /\ fresh'.begin = fresh.begin /\ fresh'.end = fresh.end /\ fresh'.stack # Null
        /\ fresh'.pml4 = fresh.pml4 /\ fresh'.pdpt = fresh.pdpt
        /\ fresh'.pd = fresh.pd /\ fresh'.pt = fresh.pt
    BY <2>1, <2>2 DEF Bootstrap
  <2> QED BY <2>1, <2>3
     DEF schedule, request, Stages, ShapeInv, StageInv, FullInv, RefuseInv, StackInv,
         HasImage, NoImage, NoTables, AllTables, Full, Exec, Building, Booting, CBoot,
         user_task_enabled
<1> QED BY <1>1, <1>2

(* The image and the stack of the new bootstrap go back, then its tables; *)
(* the previous one's likewise.                                            *)
LEMMA DropStages ==
  IInv /\ Stages /\ (DropImage \/ UnloadImage \/ DropSpace) => Stages'
<1> SUFFICES ASSUME IInv, Stages, DropImage \/ UnloadImage \/ DropSpace PROVE Stages'
  OBVIOUS
<1>1. ~Booting /\ UNCHANGED <<schedule, request, old>> /\ fresh \in Bootstrap
  BY DEF DropImage, UnloadImage, DropSpace, IInv, Control, BootInv, Exec, Building, TypeOK
<1>2. CASE DropImage \/ UnloadImage
  <2>1. /\ pc \in {"drop_image", "unload"} /\ pc' = "drop_space"
        /\ fresh' = [fresh EXCEPT !.stack = Null, !.begin = Null, !.end = Null, !.prog = NoProgram]
    BY <1>2 DEF DropImage, UnloadImage
  <2>2. fresh'.stack = Null /\ NoImage(fresh')
    BY <1>1, <2>1 DEF Bootstrap, NoImage
  <2> QED BY <1>1, <2>1, <2>2
     DEF schedule, request, Stages, ShapeInv, StageInv, FullInv, RefuseInv, StackInv,
         HasImage, NoImage, NoTables, AllTables, Full, Exec, Building, Booting, CBoot,
         user_task_enabled
<1>3. CASE DropSpace
  <2>1. pc = "drop_space" /\ pc' = "running" /\ fresh' = NoBootstrap
    BY <1>3 DEF DropSpace
  <2> QED BY <1>1, <2>1
     DEF schedule, request, NoBootstrap, Stages, ShapeInv, StageInv, FullInv, RefuseInv,
         StackInv, HasImage, NoImage, NoTables, AllTables, Full, Exec, Building, Booting,
         CBoot, user_task_enabled
<1> QED BY <1>2, <1>3

LEMMA ReleaseStages == IInv /\ Stages /\ (ReleaseImage \/ ReleaseSpace) => Stages'
<1> SUFFICES ASSUME IInv, Stages, ReleaseImage \/ ReleaseSpace PROVE Stages'
  OBVIOUS
<1>1. ~Booting /\ UNCHANGED <<schedule, request, fresh>> /\ old \in Bootstrap
  BY DEF ReleaseImage, ReleaseSpace, IInv, Control, BootInv, Exec, Building, TypeOK
<1>2. CASE ReleaseImage
  <2>1. /\ pc = "release_image" /\ pc' = "release_space"
        /\ old' = [old EXCEPT !.stack = Null, !.begin = Null, !.end = Null, !.prog = NoProgram]
    BY <1>2 DEF ReleaseImage
  <2>2. old'.stack = Null /\ NoImage(old')
    BY <1>1, <2>1 DEF Bootstrap, NoImage
  <2> QED BY <1>1, <2>1, <2>2
     DEF schedule, request, Stages, ShapeInv, StageInv, FullInv, RefuseInv, StackInv,
         HasImage, NoImage, NoTables, AllTables, Full, Exec, Building, Booting, CBoot,
         user_task_enabled
<1>3. CASE ReleaseSpace
  <2>1. pc = "release_space" /\ pc' = "running" /\ old' = NoBootstrap
    BY <1>3 DEF ReleaseSpace
  <2> QED BY <1>1, <2>1
     DEF schedule, request, NoBootstrap, Stages, ShapeInv, StageInv, FullInv, RefuseInv,
         StackInv, HasImage, NoImage, NoTables, AllTables, Full, Exec, Building, Booting,
         CBoot, user_task_enabled
<1> QED BY <1>2, <1>3

LEMMA CreateTaskStages ==
  IInv /\ Stages /\ (CreateIdleTask \/ CreateUserTask \/ CreateWorkerTask) => Stages'
<1> SUFFICES ASSUME IInv, Stages, CreateIdleTask \/ CreateUserTask \/ CreateWorkerTask PROVE Stages'
  OBVIOUS
<1>1. /\ state \in [Tasks -> {"UNUSED", "RUNNABLE", "RUNNING", "DONE"}]
      /\ rsp \in [Tasks -> {Null, TssStack} \cup Pages]
  BY DEF IInv, TypeOK
<1>2. CASE CreateIdleTask
  <2>1. pc = "init0" /\ task_create_kernel(0, "init1")
    BY <1>2 DEF CreateIdleTask
  <2>2. Booting /\ state[1] = "UNUSED" /\ ~started
    BY <2>1 DEF IInv, Control, BootInv
  <2> QED BY <1>1, <2>1, <2>2
     DEF task_create_kernel, memory, request, Tasks, Stages, ShapeInv, StageInv, FullInv,
         RefuseInv, StackInv, HasImage, NoImage, NoTables, AllTables, Full, Exec, Building,
         Booting, CBoot, user_task_enabled
<1>3. CASE CreateWorkerTask
  <2>1. pc = "init1" /\ ~user_task_enabled /\ task_create_kernel(1, "running") /\ ~Booting
    BY <1>3 DEF CreateWorkerTask, IInv, Control, BootInv
  <2> QED BY <1>1, <2>1
     DEF task_create_kernel, memory, request, Tasks, Stages, ShapeInv, StageInv, FullInv,
         RefuseInv, StackInv, HasImage, NoImage, NoTables, AllTables, Full, Exec, Building,
         Booting, CBoot, user_task_enabled
<1>4. CASE CreateUserTask
  <2>1. /\ pc = "init1" /\ pc' = "running" /\ user_task_enabled /\ ~Booting
        /\ state' = [state EXCEPT ![1] = "RUNNABLE"]
        /\ rsp' = [rsp EXCEPT ![1] = fresh.stack]
        /\ boot' = fresh /\ fresh' = NoBootstrap
        /\ UNCHANGED <<started, cr3, request, old>>
    BY <1>4 DEF CreateUserTask, task_build_user_stack, IInv, Control, BootInv
  <2> QED BY <1>1, <2>1
     DEF request, NoBootstrap, Tasks, Stages, ShapeInv, StageInv, FullInv, RefuseInv,
         StackInv, HasImage, NoImage, NoTables, AllTables, Full, Exec, Building, Booting,
         CBoot, user_task_enabled
<1> QED BY <1>2, <1>3, <1>4

(* A tick or a yield saves the frame of the user task on the TSS stack and *)
(* leaves memory, bootstraps and kernel stacks alone.                      *)
Scheduled ==
    /\ pc = "running" /\ pc' \in {"running", "halted"} /\ ~Booting /\ ~Booting' /\ started'
    /\ UNCHANGED <<memory, space, boot, request, fresh, old>>
    /\ \A t \in Tasks : rsp'[t] = rsp[t] \/ (Kind(t) = "USER" /\ rsp'[t] = TssStack)
    /\ state'[1] \in {"RUNNABLE", "RUNNING"} => state[1] \in {"RUNNABLE", "RUNNING"}
    /\ state[1] = "DONE" <=> state'[1] = "DONE"

LEMMA TickSchedules == ASSUME IInv, IInv', Tick \/ Yield PROVE Scheduled
<1>1. pc' # "sched_fail" /\ pc = "running" /\ ~Booting /\ state[1] # "UNUSED"
  BY DEF Tick, Yield, StartScheduler, Reschedule, IInv, Control, RunInv, BootInv, Building
<1>2. /\ state \in [Tasks -> {"UNUSED", "RUNNABLE", "RUNNING", "DONE"}]
      /\ rsp \in [Tasks -> {Null, TssStack} \cup Pages]
  BY DEF IInv, TypeOK
<1>3. CASE StartScheduler
  <2> DEFINE n == IF user_task_enabled THEN 1 ELSE 0
  <2>1. /\ ~started /\ started' /\ Dispatch(n, state, rsp, "running")
        /\ UNCHANGED <<memory, space, boot, request, fresh, old>>
    BY <1>3 DEF StartScheduler
  <2>2. state[0] = "RUNNABLE" /\ state[1] = "RUNNABLE"
    BY <1>1, <2>1 DEF IInv, Control, RunInv, Tasks, Booting
  <2>3. n \in Tasks /\ n # NoTask
    BY DEF Tasks, NoTask
  <2> HIDE DEF n
  <2>4. rsp' = rsp /\ state' = [state EXCEPT ![n] = "RUNNING"] /\ pc' = "running"
    BY <1>1, <2>1, <2>3 DEF Dispatch
  <2>5. state'[0] # "UNUSED" /\ state'[1] # "UNUSED"
    BY <1>2, <2>2, <2>3, <2>4 DEF Tasks
  <2> QED BY <1>1, <2>1, <2>2, <2>4, <2>5 DEF Scheduled, Booting
<1>4. CASE Reschedule
  <2> DEFINE st == [state EXCEPT ![current] = "RUNNABLE"]
             f == [rsp EXCEPT ![current] = FramePage(current)]
             n == SelectNext(current, st)
  <2>1. /\ started /\ started' /\ Dispatch(n, st, f, "running")
        /\ UNCHANGED <<memory, space, boot, request, fresh, old>>
    BY <1>1, <1>4 DEF Reschedule
  <2>2. current \in Tasks /\ state[current] = "RUNNING"
    BY <2>1 DEF IInv, Control, RunInv
  <2>3. /\ st \in [Tasks -> {"UNUSED", "RUNNABLE", "RUNNING", "DONE"}]
        /\ \A t \in Tasks : st[t] = IF t = current THEN "RUNNABLE" ELSE state[t]
    BY <1>2, <2>2
  <2>4. \A t \in Tasks : f[t] = IF t = current THEN FramePage(current) ELSE rsp[t]
    BY <1>2, <2>2
  <2>5. n \in Tasks \cup {NoTask} /\ (n \in Tasks => st[n] = "RUNNABLE")
    BY <2>2, <2>3 DEF SelectNext, Tasks
  <2> HIDE DEF st, f, n
  <2>6. /\ rsp' = f /\ pc' \in {"running", "halted"}
        /\ state' = st \/ (n \in Tasks /\ state' = [st EXCEPT ![n] = "RUNNING"])
    BY <1>1, <2>1, <2>5 DEF Dispatch
  <2>7. \A t \in Tasks : rsp'[t] = rsp[t] \/ (Kind(t) = "USER" /\ rsp'[t] = TssStack)
    BY <2>4, <2>6 DEF FramePage
  <2>8. /\ state'[0] # "UNUSED"
        /\ state'[1] \in {"RUNNABLE", "RUNNING"} => state[1] \in {"RUNNABLE", "RUNNING"}
        /\ state[1] = "DONE" <=> state'[1] = "DONE"
    BY <1>1, <2>2, <2>3, <2>5, <2>6 DEF Tasks, Booting
  <2> QED BY <1>1, <2>1, <2>6, <2>7, <2>8 DEF Scheduled, Booting
<1> QED BY <1>3, <1>4 DEF Tick, Yield

LEMMA ScheduledStages == ASSUME IInv, Stages, Scheduled PROVE Stages'
<1>1. rsp'[1] = rsp[1] \/ (user_task_enabled /\ rsp'[1] = TssStack)
  BY DEF Scheduled, Kind, Tasks
<1> QED BY <1>1
   DEF Scheduled, memory, request, Stages, ShapeInv, StageInv, FullInv, RefuseInv,
       StackInv, HasImage, NoImage, NoTables, AllTables, Full, Exec, Building, Booting,
       CBoot, user_task_enabled

(* The steps of a system call up to the release. *)
LEMMA SyscallStages ==
  ASSUME IInv, Stages, UserFault \/ \E prog \in Programs : SysExec(prog)
  PROVE  Stages'
<1>1. CASE UserFault
  BY <1>1
     DEF UserFault, InTask, schedule, request, Stages, ShapeInv, StageInv, FullInv,
         RefuseInv, StackInv, HasImage, NoImage, NoTables, AllTables, Full, Exec, Building,
         Booting, CBoot, user_task_enabled
<1>2. CASE \E prog \in Programs : SysExec(prog)
  <2>1. /\ pc = "running" /\ pc' = "create" /\ user_task_enabled /\ started
        /\ UNCHANGED <<memory, schedule, config, fresh, old>>
    BY <1>2 DEF SysExec, InTask, Kind
  <2>2. ~Booting
    BY <2>1 DEF IInv, Control, BootInv
  <2> QED BY <2>1, <2>2
     DEF schedule, Stages, ShapeInv, StageInv, FullInv, RefuseInv, StackInv, HasImage,
         NoImage, NoTables, AllTables, Full, Exec, Building, Booting, CBoot,
         user_task_enabled
<1> QED BY <1>1, <1>2

LEMMA TransferStages == ASSUME IInv, Stages, Transfer PROVE Stages'
<1>1. /\ pc = "transfer" /\ current = 1 /\ user_task_enabled /\ ~Booting /\ started
      /\ UNCHANGED request
  BY DEF Transfer, IInv, Control, BootInv, Exec, Building
<1>2. CASE config.refuse
  BY <1>1, <1>2
     DEF Transfer, schedule, request, Stages, ShapeInv, StageInv, FullInv, RefuseInv,
         StackInv, HasImage, NoImage, NoTables, AllTables, Full, Exec, Building, Booting,
         CBoot, user_task_enabled
<1>3. CASE ~config.refuse
  <2>1. /\ old' = IF SameImage THEN [boot EXCEPT !.begin = Null, !.end = Null] ELSE boot
        /\ rsp' = [rsp EXCEPT ![1] = fresh.stack]
        /\ boot' = fresh /\ fresh' = NoBootstrap /\ pc' = "release_image"
        /\ UNCHANGED <<state, current, started>>
    BY <1>1, <1>3 DEF Transfer, task_build_user_stack
  <2>2. rsp'[1] = fresh.stack
    BY <2>1 DEF IInv, TypeOK, Tasks
  <2>3. NoImage(old')
    <3>1. boot \in Bootstrap
      BY DEF IInv, TypeOK
    <3>2. CASE SameImage
      BY <2>1, <3>1, <3>2 DEF NoImage, Bootstrap
    <3>3. CASE ~SameImage
      BY <1>1, <2>1, <3>3 DEF SameImage, Stages, ShapeInv, StageInv, HasImage
    <3> QED BY <3>2, <3>3
  <2>4. NoImage(NoBootstrap)
    BY DEF NoImage, NoBootstrap
  <2> QED BY <1>1, <1>3, <2>1, <2>2, <2>3, <2>4
     DEF request, Stages, ShapeInv, StageInv, FullInv, RefuseInv, StackInv, HasImage,
         NoImage, NoTables, AllTables, Full, Exec, Building, Booting, CBoot,
         user_task_enabled
<1> QED BY <1>2, <1>3

(* sched_exit_current leaves task 1 without bootstrap and frame. *)
Exited ==
    /\ pc = "running" /\ pc' = "release_image" /\ ~Booting /\ ~Booting' /\ started'
    /\ user_task_enabled /\ state'[1] = "DONE" /\ rsp'[0] = rsp[0]
    /\ old' = boot /\ boot' = NoBootstrap
    /\ UNCHANGED <<memory, space, started, request, fresh>>

LEMMA ExitLeaves == ASSUME IInv, IInv', SysExit PROVE Exited
<1> DEFINE st == [state EXCEPT ![1] = "DONE"]
           f == [rsp EXCEPT ![1] = Null]
<1>1. /\ pc = "running" /\ started /\ started' /\ user_task_enabled /\ current = 1
      /\ old' = boot /\ boot' = NoBootstrap
      /\ Dispatch(SelectNext(1, st), st, f, "release_image")
      /\ UNCHANGED <<memory, space, started, request, fresh>>
  BY DEF SysExit, InTask, Kind
<1>2. ~Booting /\ state[0] = "RUNNABLE" /\ pc' # "sched_fail"
  BY <1>1 DEF IInv, Control, BootInv, TaskInv, RunInv, Building
<1>3. st[0] = "RUNNABLE" /\ st[1] = "DONE" /\ f[0] = rsp[0]
  BY <1>2 DEF IInv, TypeOK, Tasks
<1>4. SelectNext(1, st) = 0
  BY <1>3 DEF SelectNext
<1>5. st \in [Tasks -> {"UNUSED", "RUNNABLE", "RUNNING", "DONE"}]
  BY DEF IInv, TypeOK
<1> HIDE DEF st, f
<1>6. rsp' = f /\ pc' = "release_image" /\ state' = [st EXCEPT ![0] = "RUNNING"]
  BY <1>1, <1>2, <1>4 DEF Dispatch, NoTask
<1>7. state'[0] = "RUNNING" /\ state'[1] = "DONE"
  BY <1>3, <1>5, <1>6 DEF Tasks
<1> QED BY <1>1, <1>2, <1>3, <1>6, <1>7 DEF Exited, Booting

LEMMA ExitedStages == ASSUME Stages, Exited PROVE Stages'
<1>1. NoImage(NoBootstrap) /\ NoBootstrap.pml4 = Null
  BY DEF NoImage, NoBootstrap
<1> QED BY <1>1
   DEF Exited, request, Stages, ShapeInv, StageInv, FullInv, RefuseInv, StackInv, HasImage,
       NoImage, NoTables, AllTables, Full, Exec, Building, Booting, CBoot,
       user_task_enabled

-----------------------------------------------------------------------------
(* Owned: pages move from one owner to another *)

(* Allocation: to the new bootstrap, to a kernel stack, to a claim. *)
LEMMA AccountAlloc ==
  ASSUME NEW F, NEW B, NEW N, NEW O, NEW K, NEW I, NEW L, NEW n, NEW X,
         Account(F, B, N, O, K, I, L, n), X \subseteq F
  PROVE  /\ Account(F \ X, B, N \cup X, O, K, I, L, n)
         /\ Account(F \ X, B, N, O, K \cup X, I, L, n)
         /\ Account(F \ X, B, N, O, K, I \cup X, L, n)
<1>1. Divided(F \ X, B, N \cup X, O, K, I)
  BY DEF Account, Divided
<1>2. Divided(F \ X, B, N, O, K \cup X, I)
  BY DEF Account, Divided
<1>3. Divided(F \ X, B, N, O, K, I \cup X)
  BY DEF Account, Divided
<1> QED BY <1>1, <1>2, <1>3 DEF Account

(* Release, by the new bootstrap, by the previous one, or of image pages,  *)
(* some of which may be lost.                                              *)
LEMMA AccountFree ==
  ASSUME NEW F, NEW B, NEW N, NEW O, NEW K, NEW I, NEW L, NEW n, NEW X, NEW Y,
         Account(F, B, N, O, K, I, L, n)
  PROVE  /\ X \subseteq N => Account(F \cup X, B, N \ X, O, K, I, L, n)
         /\ X \subseteq O => Account(F \cup X, B, N, O \ X, K, I, L, n)
         /\ X \subseteq I /\ Y \subseteq X =>
              Account(F \cup (X \ Y), B, N, O, K, I \ X, L \cup Y, n)
<1>1. ASSUME X \subseteq N PROVE Account(F \cup X, B, N \ X, O, K, I, L, n)
  <2>1. Divided(F \cup X, B, N \ X, O, K, I)
    BY <1>1 DEF Account, Divided
  <2> QED BY <1>1, <2>1 DEF Account
<1>2. ASSUME X \subseteq O PROVE Account(F \cup X, B, N, O \ X, K, I, L, n)
  <2>1. Divided(F \cup X, B, N, O \ X, K, I)
    BY <1>2 DEF Account, Divided
  <2> QED BY <1>2, <2>1 DEF Account
<1>3. ASSUME X \subseteq I, Y \subseteq X
      PROVE  Account(F \cup (X \ Y), B, N, O, K, I \ X, L \cup Y, n)
  <2>1. Divided(F \cup (X \ Y), B, N, O, K, I \ X)
    BY <1>3 DEF Account, Divided
  <2> QED BY <1>3, <2>1 DEF Account
<1> QED BY <1>1, <1>2, <1>3

(* A bootstrap changes its role. *)
LEMMA AccountRoles ==
  ASSUME NEW F, NEW B, NEW N, NEW K, NEW I, NEW L, NEW n
  PROVE  /\ Account(F, {}, N, {}, K, I, L, n) => Account(F, N, {}, {}, K, I, L, n)
         /\ Account(F, B, N, {}, K, I, L, n) => Account(F, N, {}, B, K, I, L, n)
         /\ Account(F, B, {}, {}, K, I, L, n) => Account(F, {}, {}, B, K, I, L, n)
BY DEF Account, Divided

LEMMA EmptyBootstrap ==
  /\ Private(NoBootstrap) = {} /\ ImagePages(NoBootstrap) = {} /\ Distinct(NoBootstrap)
  /\ NoBootstrap \in Bootstrap
BY ConstantFacts DEF Private, NoBootstrap, ImagePages, Distinct, Null

LEMMA FreeIsPages == TypeOK => Free \subseteq Pages /\ Null \notin Free /\ freeList \in Seq(Pages)
BY NullNotListed DEF TypeOK, Free

LEMMA InitOwned == Init => Owned
<1> SUFFICES ASSUME Init PROVE Owned
  OBVIOUS
<1>1. config \in Config /\ config.pages \in Nat
  BY ConstantsAssumption DEF Init, Config
<1>2. freeList = Descending(1, config.pages + 1)
  BY DEF Init, palloc_initialize
<1>3. IsInjective(freeList) /\ Free = 1..((config.pages + 1) - 1)
  <2> DEFINE e == config.pages + 1
  <2>1. e \in Int /\ freeList = Descending(1, e)
    BY <1>1, <1>2
  <2> HIDE DEF e
  <2>2. IsInjective(freeList) /\ ToSet(freeList) = 1..(e - 1)
    BY <2>1, DescendingFacts
  <2> QED BY <2>2 DEF Free, e
<1>4. Free = 1..config.pages
  BY <1>1, <1>3
<1>5. Images = {} /\ KernelStacks = {}
  <2>1. Taken = {}
    BY DEF Init, Taken
  <2>2. Images = {}
    BY <2>1, EmptyBootstrap DEF Init, Images
  <2>3. \A t \in Tasks : rsp[t] = Null
    BY DEF Init
  <2> QED BY <2>2, <2>3 DEF KernelStacks
<1>6. Account(Free, {}, {}, {}, KernelStacks, Images, lost, config.pages)
  BY <1>4, <1>5 DEF Account, Divided, Init
<1> QED BY <1>3, <1>6, EmptyBootstrap DEF Owned, Init

(* Steps that move no page. *)
LEMMA KeptOwned ==
  ASSUME Owned, UNCHANGED <<freeList, boot, fresh, old, lost, config>>,
         KernelStacks' = KernelStacks, Images' = Images,
         state[1] = "DONE" => state'[1] = "DONE"
  PROVE  Owned'
<1>1. Free' = Free /\ Private(boot)' = Private(boot) /\ Private(fresh)' = Private(fresh)
      /\ Private(old)' = Private(old)
  BY DEF Free
<1> QED BY <1>1 DEF Owned

(* Steps that fill the new bootstrap from the free list. *)
LEMMA FilledOwned ==
  ASSUME OInv, NEW X, X \subseteq Free, IsInjective(freeList'), Free' = Free \ X,
         Private(fresh') = Private(fresh) \cup X, Distinct(fresh'),
         ImagePages(fresh') = ImagePages(fresh), pc # "claim", pc' # "claim",
         UNCHANGED <<lost, schedule, request, old>>
  PROVE  Owned'
<1>1. /\ Private(boot)' = Private(boot) /\ Private(old)' = Private(old)
      /\ KernelStacks' = KernelStacks /\ lost' = lost /\ config' = config /\ state' = state
      /\ boot' = boot /\ old' = old
  BY DEF schedule, request, KernelStacks, Kind, user_task_enabled
<1>2. Images' = Images
  BY <1>1 DEF Images, Taken
<1>3. Account(Free \ X, Private(boot), Private(fresh) \cup X, Private(old), KernelStacks, Images,
              lost, config.pages)
  BY AccountAlloc DEF OInv, Owned
<1> QED BY <1>1, <1>2, <1>3 DEF OInv, Owned

(* The free list after an allocation. *)
LEMMA AllocOwned ==
  ASSUME OInv, freeList # <<>>, freeList' = AfterAlloc(freeList)
  PROVE  /\ palloc_alloc(freeList) \in Free /\ palloc_alloc(freeList) \in Pages
         /\ palloc_alloc(freeList) # Null
         /\ IsInjective(freeList') /\ Free' = Free \ {palloc_alloc(freeList)}
<1>1. freeList \in Seq(Pages) /\ IsInjective(freeList) /\ Free \subseteq Pages /\ Null \notin Free
  BY FreeIsPages DEF OInv, IInv, Owned
<1> QED BY <1>1, AllocFacts DEF Free

LEMMA CreateAddressSpaceOwned == ASSUME OInv, CreateAddressSpace PROVE Owned'
<1> DEFINE p == palloc_alloc(freeList)
<1>1. CASE freeList = <<>>
  <2>1. /\ UNCHANGED <<freeList, boot, fresh, old, lost, config, state, rsp, page>>
        /\ pc # "claim" /\ pc' # "claim"
    BY <1>1 DEF CreateAddressSpace, memory, schedule, request, FailTo
  <2>2. KernelStacks' = KernelStacks /\ Images' = Images
    BY <2>1 DEF KernelStacks, Kind, user_task_enabled, Images, Taken
  <2> QED BY <2>1, <2>2, KeptOwned DEF OInv
<1>2. CASE freeList # <<>>
  <2>1. /\ pc = "create" /\ UNCHANGED <<lost, schedule, request, old>>
        /\ fresh' = [NoBootstrap EXCEPT !.pml4 = p]
        /\ freeList' = AfterAlloc(freeList)
        /\ pc' = IF CBoot THEN "stack" ELSE "validate"
    BY <1>2 DEF CreateAddressSpace
  <2>2. p \in Free /\ p # Null /\ IsInjective(freeList') /\ Free' = Free \ {p}
    BY <1>2, <2>1, AllocOwned
  <2>3. fresh = NoBootstrap
    BY <2>1 DEF OInv, Stages, StageInv
  <2> HIDE DEF p
  <2>4. Private(fresh') = {p} /\ Distinct(fresh') /\ ImagePages(fresh') = ImagePages(fresh)
    BY <2>1, <2>2, <2>3 DEF Private, Distinct, ImagePages, NoBootstrap
  <2>5. Private(fresh') = Private(fresh) \cup {p}
    BY <2>3, <2>4, EmptyBootstrap
  <2> QED BY <2>1, <2>2, <2>4, <2>5, FilledOwned
<1> QED BY <1>1, <1>2

LEMMA AllocUserStackOwned == ASSUME OInv, AllocUserStack PROVE Owned'
<1> DEFINE p == palloc_alloc(freeList)
<1>1. CASE freeList = <<>>
  <2>1. /\ UNCHANGED <<freeList, boot, fresh, old, lost, config, state, rsp, page>>
        /\ pc # "claim" /\ pc' # "claim"
    BY <1>1 DEF AllocUserStack, memory, schedule, request, FailTo
  <2>2. KernelStacks' = KernelStacks /\ Images' = Images
    BY <2>1 DEF KernelStacks, Kind, user_task_enabled, Images, Taken
  <2> QED BY <2>1, <2>2, KeptOwned DEF OInv
<1>2. CASE freeList # <<>>
  <2>1. /\ pc = "stack" /\ UNCHANGED <<lost, schedule, request, old>>
        /\ fresh' = [fresh EXCEPT !.stack = p]
        /\ freeList' = AfterAlloc(freeList)
        /\ pc' = IF CBoot THEN "map" ELSE IF Booting THEN "init0" ELSE "transfer"
    BY <1>2 DEF AllocUserStack
  <2>2. p \in Free /\ p # Null /\ IsInjective(freeList') /\ Free' = Free \ {p}
    BY <1>2, <2>1, AllocOwned
  <2>3. fresh.stack = Null /\ fresh \in Bootstrap /\ Distinct(fresh) /\ p \notin Private(fresh)
    BY <2>1, <2>2 DEF OInv, Stages, StageInv, IInv, TypeOK, Owned, Account, Divided
  <2> HIDE DEF p
  <2>4. /\ fresh'.stack = p /\ fresh'.pml4 = fresh.pml4 /\ fresh'.pdpt = fresh.pdpt
        /\ fresh'.pd = fresh.pd /\ fresh'.pt = fresh.pt
        /\ fresh'.begin = fresh.begin /\ fresh'.end = fresh.end
    BY <2>1, <2>3 DEF Bootstrap
  <2>5. Private(fresh') = Private(fresh) \cup {p} /\ ImagePages(fresh') = ImagePages(fresh)
    BY <2>2, <2>3, <2>4 DEF Private, ImagePages
  <2>6. Distinct(fresh')
    BY <2>2, <2>3, <2>4 DEF Private, Distinct
  <2> QED BY <2>1, <2>2, <2>5, <2>6, FilledOwned
<1> QED BY <1>1, <1>2

(* Three pages off the list. *)
LEMMA AllocThree ==
  ASSUME NEW list \in Seq(Pages), IsInjective(list), Len(list) >= 3
  PROVE  LET rest == SubSeq(list, 4, Len(list))
             X == {list[1], list[2], list[3]}
         IN  /\ X \subseteq ToSet(list) /\ IsInjective(rest) /\ ToSet(rest) = ToSet(list) \ X
             /\ list[1] # list[2] /\ list[1] # list[3] /\ list[2] # list[3]
<1> DEFINE n == Len(list)
           rest == SubSeq(list, 4, n)
<1>1. n \in Nat /\ DOMAIN list = 1..n /\ \A i \in 1..n : list[i] \in Pages
  BY LenProperties, ElementOfSeq
<1>2. /\ Len(rest) = n - 3 /\ rest \in Seq(Pages)
      /\ \A i \in 1..(n - 3) : rest[i] = list[i + 3]
  <2>1. \A i \in 4..n : list[i] \in Pages
    BY <1>1
  <2>2. CASE n = 3
    BY <1>1, <2>1, <2>2, SubSeqProperties
  <2>3. CASE n > 3
    BY <1>1, <2>1, <2>3, SubSeqProperties
  <2> QED BY <1>1, <2>2, <2>3
<1>3. \A i, j \in 1..n : list[i] = list[j] => i = j
  BY <1>1 DEF IsInjective
<1>4. DOMAIN rest = 1..(n - 3) /\ n - 3 \in Nat
  BY <1>1, <1>2, LenProperties
<1> HIDE DEF rest
<1>5. IsInjective(rest)
  BY <1>1, <1>2, <1>3, <1>4 DEF IsInjective
<1>6. ToSet(rest) = ToSet(list) \ {list[1], list[2], list[3]}
  <2>1. ASSUME NEW i \in 1..(n - 3) PROVE rest[i] \in ToSet(list) \ {list[1], list[2], list[3]}
    <3>1. i + 3 \in 1..n /\ rest[i] = list[i + 3] /\ 1 \in 1..n /\ 2 \in 1..n /\ 3 \in 1..n
      BY <1>1, <1>2
    <3>2. i + 3 # 1 /\ i + 3 # 2 /\ i + 3 # 3
      OBVIOUS
    <3>3. list[i + 3] \notin {list[1], list[2], list[3]}
      BY <1>3, <3>1, <3>2
    <3> QED BY <1>1, <3>1, <3>3 DEF ToSet
  <2>2. ASSUME NEW k \in 1..n, list[k] \notin {list[1], list[2], list[3]}
        PROVE  list[k] \in ToSet(rest)
    <3>1. k - 3 \in 1..(n - 3)
      BY <1>1, <2>2
    <3>2. rest[k - 3] = list[k]
      BY <1>2, <3>1
    <3> QED BY <1>4, <3>1, <3>2 DEF ToSet
  <2> QED BY <1>1, <1>4, <2>1, <2>2 DEF ToSet
<1>7. list[1] # list[2] /\ list[1] # list[3] /\ list[2] # list[3]
  BY <1>1, <1>3
<1>8. {list[1], list[2], list[3]} \subseteq ToSet(list)
  <2>1. 1 \in DOMAIN list /\ 2 \in DOMAIN list /\ 3 \in DOMAIN list
    BY <1>1
  <2> QED BY <2>1 DEF ToSet
<1> QED BY <1>5, <1>6, <1>7, <1>8 DEF rest

LEMMA MapUserPagesOwned == ASSUME OInv, MapUserPages PROVE Owned'
<1>0. freeList \in Seq(Pages) /\ IsInjective(freeList) /\ Null \notin Free /\ Len(freeList) \in Nat
  BY FreeIsPages, LenProperties DEF OInv, IInv, Owned
<1>1. CASE Len(freeList) < 3
  <2>1. /\ UNCHANGED <<freeList, boot, fresh, old, lost, config, state, rsp, page>>
        /\ pc # "claim" /\ pc' # "claim"
    BY <1>1 DEF MapUserPages, memory, schedule, request
  <2>2. KernelStacks' = KernelStacks /\ Images' = Images
    BY <2>1 DEF KernelStacks, Kind, user_task_enabled, Images, Taken
  <2> QED BY <2>1, <2>2, KeptOwned DEF OInv
<1>2. CASE ~(Len(freeList) < 3)
  <2> DEFINE p == freeList[1]
             q == freeList[2]
             r == freeList[3]
  <2>1. /\ pc = "map" /\ UNCHANGED <<lost, schedule, request, old>>
        /\ fresh' = [fresh EXCEPT !.pdpt = p, !.pd = q, !.pt = r]
        /\ freeList' = SubSeq(freeList, 4, Len(freeList))
        /\ pc' = IF CBoot THEN "init0" ELSE "stack"
    BY <1>2 DEF MapUserPages, WithTables
  <2>2. /\ {p, q, r} \subseteq Free /\ IsInjective(freeList') /\ Free' = Free \ {p, q, r}
        /\ p # q /\ p # r /\ q # r
    BY <1>0, <1>2, <2>1, AllocThree DEF Free
  <2>3. /\ NoTables(fresh) /\ fresh \in Bootstrap /\ Distinct(fresh)
        /\ Private(fresh) \cap {p, q, r} = {}
    BY <2>1, <2>2 DEF OInv, Stages, StageInv, IInv, TypeOK, Owned, Account, Divided
  <2>4. p # Null /\ q # Null /\ r # Null
    BY <1>0, <2>2
  <2> HIDE DEF p, q, r
  <2>5. /\ fresh'.stack = fresh.stack /\ fresh'.pml4 = fresh.pml4 /\ fresh'.pdpt = p
        /\ fresh'.pd = q /\ fresh'.pt = r
        /\ fresh'.begin = fresh.begin /\ fresh'.end = fresh.end
    BY <2>1, <2>3 DEF Bootstrap
  <2>6. Private(fresh') = Private(fresh) \cup {p, q, r} /\ ImagePages(fresh') = ImagePages(fresh)
    BY <2>3, <2>4, <2>5 DEF Private, ImagePages, NoTables
  <2>7. Distinct(fresh')
    BY <2>2, <2>3, <2>4, <2>5 DEF Private, Distinct
  <2> QED BY <2>1, <2>2, <2>6, <2>7, FilledOwned
<1> QED BY <1>1, <1>2

LEMMA ValidateImageOwned == ASSUME SpansAgree, OInv, ValidateImage PROVE Owned'
<1>1. /\ pc = "validate" /\ UNCHANGED <<freeList, boot, fresh, old, lost, config, state, rsp>>
      /\ pc' = "claim" => page' = LoadBase
  BY DEF ValidateImage, memory, schedule, FailTo
<1>2. LoadBase..(LoadBase - 1) = {}
  BY WindowFacts DEF OInv, IInv
<1>3. Taken = {} /\ Taken' = {}
  BY <1>1, <1>2 DEF Taken
<1>4. KernelStacks' = KernelStacks /\ Images' = Images
  BY <1>1, <1>3 DEF KernelStacks, Kind, user_task_enabled, Images
<1> QED BY <1>1, <1>4, KeptOwned DEF OInv

(* A page of the window that is not the caller's moves to the claim, or    *)
(* the whole claim goes back.                                              *)
LEMMA ClaimWindowPageOwned == ASSUME SpansAgree, OInv, ClaimWindowPage PROVE Owned'
<1>1. /\ pc = "claim" /\ page < LoadEnd
      /\ UNCHANGED <<boot, fresh, old, lost, config, state, rsp>>
  BY DEF ClaimWindowPage, schedule
<1>2. /\ page \in Int /\ LoadBase <= page /\ page < WindowEnd /\ WindowEnd \in Int
      /\ LoadBase \in Int /\ LoadBase > 0
      /\ LoadBase..(page - 1) \subseteq Pages
  BY <1>1, WindowFacts DEF OInv, IInv, Control, ClaimInv
<1>3. /\ KernelStacks' = KernelStacks /\ Private(boot)' = Private(boot)
      /\ Private(fresh)' = Private(fresh) /\ Private(old)' = Private(old)
  BY <1>1 DEF KernelStacks, Kind, user_task_enabled
<1>4. /\ freeList \in Seq(Pages) /\ IsInjective(freeList)
      /\ fresh.begin = Null /\ old = NoBootstrap
      /\ NoImage(fresh)
  BY <1>1, FreeIsPages DEF OInv, IInv, Owned, Stages, StageInv, NoImage
<1>5. ImagePages(fresh) = {} /\ ImagePages(old) = {}
  BY <1>4, ImageShape, EmptyBootstrap
<1>6. CASE Reusable(page)
  <2>1. boot.begin # Null /\ ~NoImage(boot) /\ HasImage(boot)
    BY <1>6 DEF Reusable, NoImage, OInv, Stages, ShapeInv
  <2>2. UNCHANGED <<freeList, pc>> /\ page' = page + 1
    BY <1>1, <1>6 DEF ClaimWindowPage
  <2>3. \A p \in LoadBase..(page' - 1) : Reusable(p) /\ Reusable(p)'
    BY <1>1, <1>2, <2>1, <2>2 DEF Reusable, HasImage, Null
  <2>4. Taken = {} /\ Taken' = {}
    BY <1>2, <2>2, <2>3 DEF Taken
  <2>5. Images' = Images
    BY <1>1, <2>4 DEF Images
  <2> QED BY <1>1, <1>3, <2>2, <2>5, KeptOwned DEF OInv
<1>7. CASE ~Reusable(page)
  <2>1. NoImage(boot)
    <3>1. HasImage(boot) => Reusable(page)
      BY <1>2 DEF HasImage, Reusable, Null
    <3> QED BY <1>7, <3>1 DEF OInv, Stages, ShapeInv
  <2>2. (\A p : ~Reusable(p)) /\ (\A p : ~Reusable(p)')
    BY <1>1, <2>1 DEF NoImage, Reusable
  <2>3. Taken = LoadBase..(page - 1)
    BY <1>1, <2>2 DEF Taken
  <2>4. Images = Taken /\ Images' = Taken'
    BY <1>1, <1>5, <2>1, ImageShape DEF Images
  <2>5. CASE Listed(freeList, page)
    <3>1. freeList' = palloc_take(freeList, page) /\ page' = page + 1 /\ pc' = pc
      BY <1>1, <1>7, <2>5 DEF ClaimWindowPage
    <3>2. page \in Free
      BY <2>5 DEF Listed, Free, ToSet
    <3>3. IsInjective(freeList') /\ Free' = Free \ {page}
      BY <1>4, <3>1, <3>2, TakeFacts DEF Free
    <3>4. Taken' = Taken \cup {page}
      BY <1>1, <1>2, <2>2, <2>3, <3>1 DEF Taken
    <3>5. Account(Free \ {page}, Private(boot), Private(fresh), Private(old), KernelStacks,
                  Images \cup {page}, lost, config.pages)
      BY <3>2, AccountAlloc DEF OInv, Owned
    <3> QED BY <1>1, <1>3, <2>4, <3>3, <3>4, <3>5 DEF OInv, Owned
  <2>6. CASE ~Listed(freeList, page)
    <3>1. freeList' = FreeUnlessReusable(freeList, LoadBase, page) /\ pc' # "claim"
      BY <1>1, <1>7, <2>6 DEF ClaimWindowPage, FailTo
    <3>2. freeList' = FreeRangeExcept(freeList, LoadBase, page, LoadBase, LoadBase)
      BY <2>1, <3>1 DEF FreeUnlessReusable, NoImage
    <3>3. Taken \cap Free = {} /\ LoadBase..(LoadBase - 1) = {}
      BY <1>2, <2>4 DEF OInv, Owned, Account, Divided
    <3>4. IsInjective(freeList') /\ Free' = Free \cup Taken
      BY <1>2, <1>4, <2>3, <3>2, <3>3, RangeFacts DEF Free
    <3>5. Taken' = {}
      BY <3>1 DEF Taken
    <3>6. Account(Free \cup (Taken \ {}), Private(boot), Private(fresh), Private(old), KernelStacks,
                  Images \ Taken, lost \cup {}, config.pages)
      BY <2>4, AccountFree DEF OInv, Owned
    <3>7. Taken \ {} = Taken /\ Images \ Taken = {} /\ lost \cup {} = lost
      BY <2>4
    <3> QED BY <1>1, <1>3, <2>4, <3>4, <3>5, <3>6, <3>7 DEF OInv, Owned
  <2> QED BY <2>5, <2>6
<1> QED BY <1>6, <1>7

(* The claimed window becomes the image of the new bootstrap. *)
LEMMA LoadSegmentsOwned == ASSUME SpansAgree, OInv, LoadSegments PROVE Owned'
<1>1. /\ pc = "claim" /\ page = LoadEnd /\ pc' = "map"
      /\ fresh' = [fresh EXCEPT !.begin = LoadBase, !.end = LoadEnd, !.prog = target]
      /\ UNCHANGED <<freeList, lost, boot, old, config, state, rsp>>
  BY DEF LoadSegments, schedule
<1>2. LoadEnd = WindowEnd /\ fresh \in Bootstrap /\ NoImage(fresh)
  BY <1>1, WindowFacts DEF OInv, IInv, TypeOK, Stages, StageInv
<1>3. HasImage(fresh') /\ Private(fresh') = Private(fresh) /\ (Distinct(fresh) => Distinct(fresh'))
  BY <1>1, <1>2 DEF Bootstrap, HasImage, Private, Distinct
<1>4. ImagePages(fresh) = {} /\ ImagePages(fresh') = Window
  BY <1>2, <1>3, ImageShape
<1>5. Taken' = {} /\ Taken = IF NoImage(boot) THEN Window ELSE {}
  BY <1>1, <1>2, TakenPages DEF Taken, OInv, Stages, Window
<1>6. ImagePages(boot) = IF NoImage(boot) THEN {} ELSE Window
  BY ImageShape DEF OInv, Stages, ShapeInv
<1>7. Images' = Images
  BY <1>1, <1>4, <1>5, <1>6 DEF Images
<1>8. /\ KernelStacks' = KernelStacks /\ Free' = Free /\ Private(boot)' = Private(boot)
      /\ Private(old)' = Private(old)
  BY <1>1 DEF KernelStacks, Kind, user_task_enabled, Free
<1> QED BY <1>1, <1>3, <1>7, <1>8 DEF OInv, Owned

(* A bootstrap without its image and its stack. *)
Bare(b) == [b EXCEPT !.stack = Null, !.begin = Null, !.end = Null, !.prog = NoProgram]

LEMMA BareFacts ==
  ASSUME NEW b \in Bootstrap, Distinct(b)
  PROVE  /\ Private(Bare(b)) = Private(b) \ {b.stack}
         /\ Distinct(Bare(b)) /\ ImagePages(Bare(b)) = {}
<1>1. /\ Bare(b).stack = Null /\ Bare(b).begin = Null /\ Bare(b).end = Null
      /\ Bare(b).pml4 = b.pml4 /\ Bare(b).pdpt = b.pdpt /\ Bare(b).pd = b.pd /\ Bare(b).pt = b.pt
  BY DEF Bare, Bootstrap
<1>2. ImagePages(Bare(b)) = {}
  BY <1>1 DEF ImagePages, Null
<1> QED BY <1>1, <1>2 DEF Private, Distinct

(* The list after the stack page of a bootstrap went back. *)
LEMMA StackBack ==
  ASSUME OInv, NEW b \in {fresh, old}
  PROVE  LET l == palloc_free(freeList, b.stack)
             X == {b.stack} \ {Null}
         IN  /\ l \in Seq(Pages) /\ IsInjective(l) /\ ToSet(l) = Free \cup X
             /\ X \subseteq Private(b) /\ Private(b) \ X = Private(b) \ {b.stack}
             /\ X \cap Images = {}
<1>1. freeList \in Seq(Pages) /\ IsInjective(freeList) /\ Null \notin Free
  BY FreeIsPages DEF OInv, IInv, Owned
<1>2. b.stack \in 0..NumPages
  BY DEF OInv, IInv, TypeOK, Bootstrap
<1>3. Private(b) \cap Free = {} /\ Private(b) \cap Images = {}
  BY DEF OInv, Owned, Account, Divided
<1>4. {b.stack} \ {Null} \subseteq Private(b) /\ Null \notin Private(b)
  BY DEF Private
<1>5. b.stack \notin ToSet(freeList)
  BY <1>1, <1>3, <1>4 DEF Free
<1> QED BY <1>1, <1>2, <1>3, <1>4, <1>5, FreeAny DEF Free

(* The image and the stack of the new bootstrap go back, the pages that    *)
(* belong to the caller's image excepted.                                  *)
LEMMA DropFreshOwned ==
  ASSUME SpansAgree, OInv, pc \in {"drop_image", "unload"}, pc' # "claim", fresh' = Bare(fresh),
         UNCHANGED <<lost, schedule, request, old>>,
         freeList' = LET l == palloc_free(freeList, fresh.stack)
                     IN  IF NoImage(boot)
                         THEN FreeRangeExcept(l, LoadBase, WindowEnd, LoadBase, LoadBase)
                         ELSE FreeRangeExcept(l, LoadBase, WindowEnd, LoadBase, WindowEnd)
  PROVE  Owned'
<1> DEFINE l == palloc_free(freeList, fresh.stack)
           X == {fresh.stack} \ {Null}
           Y == IF NoImage(boot) THEN Window ELSE {}
<1>1. /\ l \in Seq(Pages) /\ IsInjective(l) /\ ToSet(l) = Free \cup X
      /\ X \subseteq Private(fresh) /\ Private(fresh) \ X = Private(fresh) \ {fresh.stack}
      /\ X \cap Images = {}
  BY StackBack
<1>2. /\ HasImage(fresh) /\ old = NoBootstrap /\ fresh \in Bootstrap /\ Layout(fresh)
      /\ Distinct(fresh) /\ (HasImage(boot) \/ NoImage(boot))
  BY DEF OInv, Stages, ShapeInv, StageInv, IInv, TypeOK, Control, Owned
<1>3. Window \subseteq Pages /\ Window \subseteq Images /\ ImagePages(fresh) = Window
  BY <1>2, ImageInMemory, ImageShape DEF Images
<1>4. WindowEnd \in Int /\ LoadBase \in Int /\ LoadBase < WindowEnd
  BY WindowFacts DEF OInv, IInv
<1>5. Window \cap Free = {} /\ Window \cap ToSet(l) = {}
  BY <1>1, <1>3 DEF OInv, Owned, Account, Divided
<1>6. LoadBase..(LoadBase - 1) = {} /\ WindowEnd..(WindowEnd - 1) = {}
  BY <1>4
<1> HIDE DEF l
<1>7. IsInjective(freeList') /\ ToSet(freeList') = ToSet(l) \cup Y
  <2>1. CASE NoImage(boot)
    <3>1. freeList' = FreeRangeExcept(l, LoadBase, WindowEnd, LoadBase, LoadBase)
      BY <2>1 DEF l
    <3> QED BY <1>1, <1>3, <1>4, <1>5, <1>6, <2>1, <3>1, RangeFacts DEF Window
  <2>2. CASE ~NoImage(boot)
    <3>1. freeList' = FreeRangeExcept(l, LoadBase, WindowEnd, LoadBase, WindowEnd)
      BY <2>2 DEF l
    <3> QED BY <1>1, <1>4, <1>6, <2>2, <3>1, RangeFacts
  <2> QED BY <2>1, <2>2
<1>8. /\ KernelStacks' = KernelStacks /\ Private(boot)' = Private(boot) /\ lost' = lost
      /\ Private(old)' = Private(old) /\ config' = config /\ state' = state
      /\ boot' = boot /\ old' = old
  BY DEF KernelStacks, Kind, user_task_enabled, schedule, request
<1>9. Private(fresh') = Private(fresh) \ X /\ Distinct(fresh') /\ ImagePages(fresh') = {}
  BY <1>1, <1>2, BareFacts
<1>10. Taken = {} /\ Taken' = {}
  BY DEF Taken
<1>11. Y \subseteq Images /\ Images' = Images \ Y
  BY <1>2, <1>3, <1>8, <1>9, <1>10, ImageShape, EmptyBootstrap DEF Images
<1> HIDE DEF X, Y
<1>12. Account(Free \cup X, Private(boot), Private(fresh) \ X, Private(old), KernelStacks, Images,
               lost, config.pages)
  BY <1>1, AccountFree DEF OInv, Owned
<1>13. Account((Free \cup X) \cup (Y \ {}), Private(boot), Private(fresh) \ X, Private(old),
               KernelStacks, Images \ Y, lost \cup {}, config.pages)
  BY <1>11, <1>12, AccountFree
<1>14. Free' = (Free \cup X) \cup (Y \ {}) /\ lost \cup {} = lost
  BY <1>1, <1>7 DEF Free
<1> QED BY <1>7, <1>8, <1>9, <1>11, <1>13, <1>14 DEF OInv, Owned

LEMMA DropImageOwned == ASSUME SpansAgree, OInv, DropImage \/ UnloadImage PROVE Owned'
<1>1. /\ pc \in {"drop_image", "unload"} /\ pc' # "claim" /\ fresh' = Bare(fresh)
      /\ UNCHANGED <<lost, schedule, request, old>>
  BY DEF DropImage, UnloadImage, Bare
<1>2. fresh.begin = LoadBase /\ fresh.end = WindowEnd /\ (HasImage(boot) \/ NoImage(boot))
  BY <1>1 DEF OInv, Stages, ShapeInv, StageInv, HasImage
<1>3. WindowEnd \in Int /\ LoadBase \in Int /\ LoadBase < WindowEnd /\ LoadBase > 0
  BY WindowFacts DEF OInv, IInv
<1> DEFINE l == palloc_free(freeList, fresh.stack)
<1>4. CASE UnloadImage
  <2>1. NoImage(boot)
    BY <1>4 DEF UnloadImage, OInv, Stages, RefuseInv
  <2>2. freeList' = FreeRangeExcept(l, LoadBase, WindowEnd, LoadBase, LoadBase)
    BY <1>2, <1>4 DEF UnloadImage
  <2> QED BY <1>1, <2>1, <2>2, DropFreshOwned
<1>5. CASE DropImage
  <2>1. freeList' = FreeUnlessReusable(l, LoadBase, WindowEnd)
    BY <1>2, <1>5 DEF DropImage
  <2> HIDE DEF l
  <2>2. CASE NoImage(boot)
    <3>1. freeList' = FreeRangeExcept(l, LoadBase, WindowEnd, LoadBase, LoadBase)
      BY <2>1, <2>2 DEF FreeUnlessReusable, NoImage
    <3> QED BY <1>1, <2>2, <3>1, DropFreshOwned DEF l
  <2>3. CASE HasImage(boot)
    <3>1. boot.begin = LoadBase /\ boot.end = WindowEnd /\ boot.begin # Null /\ ~NoImage(boot)
      BY <1>3, <2>3 DEF HasImage, NoImage, Null
    <3>2. freeList' = FreeRangeExcept(l, LoadBase, WindowEnd, LoadBase, WindowEnd)
      BY <1>3, <2>1, <3>1 DEF FreeUnlessReusable
    <3> QED BY <1>1, <3>1, <3>2, DropFreshOwned DEF l
  <2> QED BY <1>2, <2>2, <2>3
<1> QED BY <1>4, <1>5

(* The tables of a bootstrap that has nothing else go back. *)
LEMMA SpaceBack ==
  ASSUME OInv, NEW b \in {fresh, old}, b.stack = Null, freeList' = FreeSpace(freeList, b)
  PROVE  IsInjective(freeList') /\ Free' = Free \cup Private(b)
<1>1. /\ freeList \in Seq(Pages) /\ IsInjective(freeList) /\ b \in Bootstrap /\ Distinct(b)
      /\ Private(b) \cap ToSet(freeList) = {}
  BY FreeIsPages DEF OInv, IInv, TypeOK, Owned, Account, Divided, Free
<1>2. Tables(b) \ {Null} = Private(b)
  BY DEF Tables, Private
<1> QED BY <1>1, <1>2, FreeSpaceFacts DEF Free

LEMMA DropSpaceOwned == ASSUME OInv, DropSpace PROVE Owned'
<1>1. /\ pc = "drop_space" /\ pc' = "running" /\ fresh' = NoBootstrap
      /\ freeList' = FreeSpace(freeList, fresh) /\ UNCHANGED <<lost, schedule, request, old>>
  BY DEF DropSpace
<1>2. fresh.stack = Null /\ NoImage(fresh)
  BY <1>1 DEF OInv, Stages, StageInv
<1>3. IsInjective(freeList') /\ Free' = Free \cup Private(fresh)
  BY <1>1, <1>2, SpaceBack
<1>4. /\ KernelStacks' = KernelStacks /\ Private(boot)' = Private(boot) /\ lost' = lost
      /\ Private(old)' = Private(old) /\ config' = config /\ state' = state
      /\ boot' = boot /\ old' = old
  BY <1>1 DEF KernelStacks, Kind, user_task_enabled, schedule, request
<1>5. Images' = Images
  BY <1>1, <1>2, <1>4, ImageShape, EmptyBootstrap DEF Images, Taken
<1>6. Private(fresh') = Private(fresh) \ Private(fresh) /\ Distinct(fresh')
  BY <1>1, EmptyBootstrap
<1>7. Account(Free \cup Private(fresh), Private(boot), Private(fresh) \ Private(fresh), Private(old),
              KernelStacks, Images, lost, config.pages)
  BY AccountFree DEF OInv, Owned
<1> QED BY <1>3, <1>4, <1>5, <1>6, <1>7 DEF OInv, Owned

LEMMA ReleaseSpaceOwned == ASSUME OInv, ReleaseSpace PROVE Owned'
<1>1. /\ pc = "release_space" /\ pc' = "running" /\ old' = NoBootstrap
      /\ freeList' = FreeSpace(freeList, old) /\ UNCHANGED <<lost, schedule, request, fresh>>
  BY DEF ReleaseSpace
<1>2. old.stack = Null /\ NoImage(old)
  BY <1>1 DEF OInv, Stages, StageInv
<1>3. IsInjective(freeList') /\ Free' = Free \cup Private(old)
  BY <1>1, <1>2, SpaceBack
<1>4. /\ KernelStacks' = KernelStacks /\ Private(boot)' = Private(boot) /\ lost' = lost
      /\ Private(fresh)' = Private(fresh) /\ config' = config /\ state' = state
      /\ boot' = boot /\ fresh' = fresh
  BY <1>1 DEF KernelStacks, Kind, user_task_enabled, schedule, request
<1>5. Images' = Images
  BY <1>1, <1>2, <1>4, ImageShape, EmptyBootstrap DEF Images, Taken
<1>6. Private(old') = Private(old) \ Private(old) /\ Distinct(old')
  BY <1>1, EmptyBootstrap
<1>7. Account(Free \cup Private(old), Private(boot), Private(fresh), Private(old) \ Private(old),
              KernelStacks, Images, lost, config.pages)
  BY AccountFree DEF OInv, Owned
<1> QED BY <1>3, <1>4, <1>5, <1>6, <1>7 DEF OInv, Owned

(* The previous program's stack and image go back; after an exec it has no *)
(* image of its own, after an exit part of it may be lost.                 *)
LEMMA ReleaseImageOwned == ASSUME SpansAgree, OInv, ReleaseImage PROVE Owned'
<1> DEFINE l == palloc_free(freeList, old.stack)
           X == {old.stack} \ {Null}
<1>1. PICK lo, hi \in old.begin..old.end :
        /\ lo <= hi
        /\ freeList' = FreeRangeExcept(l, old.begin, old.end, lo, hi)
        /\ lost' = lost \cup ((lo..(hi - 1)) \ ImagePages(boot))
  BY DEF ReleaseImage
<1>2. /\ pc = "release_image" /\ pc' = "release_space" /\ old' = Bare(old)
      /\ UNCHANGED <<schedule, request, fresh>>
  BY DEF ReleaseImage, Bare
<1>3. /\ l \in Seq(Pages) /\ IsInjective(l) /\ ToSet(l) = Free \cup X
      /\ X \subseteq Private(old) /\ Private(old) \ X = Private(old) \ {old.stack}
      /\ X \cap Images = {}
  BY StackBack
<1>4. /\ old \in Bootstrap /\ Distinct(old) /\ Layout(old) /\ fresh = NoBootstrap
      /\ (HasImage(old) \/ NoImage(old))
      /\ NoImage(old) \/ (NoImage(boot) /\ state[1] = "DONE")
  BY <1>2 DEF OInv, Stages, ShapeInv, StageInv, IInv, TypeOK, Control, Owned
<1>5. old.begin \in Int /\ old.end \in Int /\ ImagePages(old) \subseteq Pages
  BY <1>4, ImageRange, ImageInMemory
<1> DEFINE Y == ImagePages(old)
           Z == lo..(hi - 1)
<1>6. Z \subseteq Y /\ Y \subseteq Images /\ lo \in Int /\ hi \in Int
  BY <1>1, <1>5 DEF ImagePages, Images
<1>7. Y \cap Free = {} /\ Y \cap ToSet(l) = {}
  BY <1>3, <1>6 DEF OInv, Owned, Account, Divided
<1>8. /\ old.begin..(lo - 1) \subseteq Y /\ hi..(old.end - 1) \subseteq Y
      /\ (old.begin..(lo - 1)) \cup (hi..(old.end - 1)) = Y \ Z
  BY <1>1, <1>5, <1>6 DEF ImagePages
<1> HIDE DEF l, Y, Z, X
<1>9. /\ old.begin..(lo - 1) \subseteq Pages /\ hi..(old.end - 1) \subseteq Pages
      /\ (old.begin..(lo - 1)) \cap ToSet(l) = {} /\ (hi..(old.end - 1)) \cap ToSet(l) = {}
  BY <1>5, <1>7, <1>8 DEF Y
<1>10. /\ IsInjective(freeList')
       /\ ToSet(freeList') = ToSet(l) \cup (old.begin..(lo - 1)) \cup (hi..(old.end - 1))
  BY <1>1, <1>3, <1>5, <1>6, <1>9, RangeFacts
<1>11. Free' = (Free \cup X) \cup (Y \ Z)
  BY <1>3, <1>8, <1>10 DEF Free
<1>12. /\ KernelStacks' = KernelStacks /\ Private(boot)' = Private(boot)
       /\ Private(fresh)' = Private(fresh) /\ config' = config /\ state' = state
       /\ boot' = boot /\ fresh' = fresh
  BY <1>2 DEF KernelStacks, Kind, user_task_enabled, schedule, request
<1>13. Private(old') = Private(old) \ X /\ Distinct(old') /\ ImagePages(old') = {}
  BY <1>2, <1>3, <1>4, BareFacts
<1>14. Images = ImagePages(boot) \cup Y /\ Images' = ImagePages(boot)
  BY <1>2, <1>4, <1>12, <1>13, EmptyBootstrap DEF Images, Taken, Y
<1>15. Y = {} \/ ImagePages(boot) = {}
  BY <1>4, ImageShape DEF Y
<1>16. Images' = Images \ Y /\ lost' = lost \cup Z
  BY <1>1, <1>6, <1>14, <1>15 DEF Z
<1>17. lost' # {} => state'[1] = "DONE"
  <2>1. Z # {} => state[1] = "DONE"
    BY <1>4, <1>6, ImageShape DEF Y
  <2> QED BY <1>12, <1>16, <2>1 DEF OInv, Owned
<1>18. Account(Free \cup X, Private(boot), Private(fresh), Private(old) \ X, KernelStacks, Images,
               lost, config.pages)
  BY <1>3, AccountFree DEF OInv, Owned
<1>19. Account((Free \cup X) \cup (Y \ Z), Private(boot), Private(fresh), Private(old) \ X,
               KernelStacks, Images \ Y, lost \cup Z, config.pages)
  BY <1>6, <1>18, AccountFree
<1> QED BY <1>10, <1>11, <1>12, <1>13, <1>16, <1>17, <1>19 DEF OInv, Owned

(* The kernel stacks: the idle task's, and the worker's where it exists. *)
LEMMA KernelStacksAre ==
  /\ KernelStacks = (IF user_task_enabled THEN {rsp[0]} ELSE {rsp[0], rsp[1]}) \ {Null}
  /\ KernelStacks' = (IF user_task_enabled' THEN {rsp'[0]} ELSE {rsp'[0], rsp'[1]}) \ {Null}
<1>1. Kind(0) = "KERNEL" /\ (Kind(1) = "KERNEL" <=> ~user_task_enabled)
  BY DEF Kind
<1>2. {u \in Tasks : Kind(u) = "KERNEL"} = IF user_task_enabled THEN {0} ELSE {0, 1}
  BY <1>1 DEF Tasks
<1>3. Kind(0)' = "KERNEL" /\ (Kind(1)' = "KERNEL" <=> ~user_task_enabled')
  BY DEF Kind
<1>4. {u \in Tasks : Kind(u) = "KERNEL"}' = IF user_task_enabled' THEN {0} ELSE {0, 1}
  BY <1>3 DEF Tasks
<1> QED BY <1>2, <1>4 DEF KernelStacks

(* task_create_kernel takes the new task's stack from the free list. *)
LEMMA CreateKernelTaskOwned ==
  ASSUME OInv, NEW t \in Tasks, NEW step, task_create_kernel(t, step),
         t = 0 \/ ~user_task_enabled, rsp[t] = Null, state[1] # "DONE",
         pc # "claim", step # "claim"
  PROVE  Owned'
<1> DEFINE p == palloc_alloc(freeList)
<1>1. /\ UNCHANGED <<boot, fresh, old, lost, config, page>> /\ pc' # "claim"
      /\ user_task_enabled' = user_task_enabled
  BY DEF task_create_kernel, memory, request, user_task_enabled
<1>2. Images' = Images
  BY <1>1 DEF Images, Taken
<1>3. CASE freeList = <<>>
  <2>1. UNCHANGED <<freeList, state, rsp>>
    BY <1>3 DEF task_create_kernel, memory
  <2>2. KernelStacks' = KernelStacks
    BY <1>1, <2>1 DEF KernelStacks, Kind
  <2> QED BY <1>1, <1>2, <2>1, <2>2, KeptOwned DEF OInv
<1>4. CASE freeList # <<>>
  <2>1. rsp' = [rsp EXCEPT ![t] = p] /\ freeList' = AfterAlloc(freeList)
    BY <1>4 DEF task_create_kernel
  <2>2. p \in Free /\ p # Null /\ IsInjective(freeList') /\ Free' = Free \ {p}
    BY <1>4, <2>1, AllocOwned
  <2> HIDE DEF p
  <2>3. rsp'[t] = p /\ \A u \in Tasks \ {t} : rsp'[u] = rsp[u]
    BY <2>1 DEF OInv, IInv, TypeOK
  <2>4. KernelStacks' = (IF user_task_enabled THEN {rsp'[0]} ELSE {rsp'[0], rsp'[1]}) \ {Null}
    BY <1>1, KernelStacksAre
  <2>5. KernelStacks' = KernelStacks \cup {p}
    <3>1. CASE t = 0
      BY <2>2, <2>3, <2>4, <3>1, KernelStacksAre DEF Tasks
    <3>2. CASE t = 1
      BY <2>2, <2>3, <2>4, <3>2, KernelStacksAre DEF Tasks
    <3> QED BY <3>1, <3>2 DEF Tasks
  <2>6. Account(Free \ {p}, Private(boot), Private(fresh), Private(old), KernelStacks \cup {p},
                Images, lost, config.pages)
    BY <2>2, AccountAlloc DEF OInv, Owned
  <2>7. lost' = {}
    BY <1>1 DEF OInv, Owned
  <2> QED BY <1>1, <1>2, <2>2, <2>5, <2>6, <2>7 DEF OInv, Owned
<1> QED BY <1>3, <1>4

(* sched_initialize. *)
LEMMA CreateTaskOwned ==
  ASSUME OInv, CreateIdleTask \/ CreateUserTask \/ CreateWorkerTask
  PROVE  Owned'
<1>1. CASE CreateIdleTask
  <2>1. pc = "init0" /\ task_create_kernel(0, "init1")
    BY <1>1 DEF CreateIdleTask
  <2>2. rsp[0] = Null /\ state[1] # "DONE"
    BY <2>1 DEF OInv, IInv, Control, BootInv, Stages, StackInv
  <2> QED BY <2>1, <2>2, CreateKernelTaskOwned DEF Tasks
<1>2. CASE CreateWorkerTask
  <2>1. pc = "init1" /\ ~user_task_enabled /\ task_create_kernel(1, "running")
    BY <1>2 DEF CreateWorkerTask
  <2>2. rsp[1] = Null /\ state[1] # "DONE"
    BY <2>1 DEF OInv, IInv, Control, BootInv, Stages, StackInv
  <2> QED BY <2>1, <2>2, CreateKernelTaskOwned DEF Tasks
<1>3. CASE CreateUserTask
  <2>1. /\ pc = "init1" /\ user_task_enabled /\ pc' = "running"
        /\ rsp' = [rsp EXCEPT ![1] = fresh.stack]
        /\ boot' = fresh /\ fresh' = NoBootstrap
        /\ UNCHANGED <<freeList, lost, config, old>>
    BY <1>3 DEF CreateUserTask, task_build_user_stack, memory, request
  <2>2. boot = NoBootstrap /\ old = NoBootstrap
    BY <2>1 DEF OInv, Stages, StageInv, FullInv
  <2>3. KernelStacks' = KernelStacks
    <3>1. rsp'[0] = rsp[0]
      BY <2>1 DEF OInv, IInv, TypeOK, Tasks
    <3>2. user_task_enabled'
      BY <2>1 DEF user_task_enabled
    <3>3. KernelStacks' = {rsp'[0]} \ {Null}
      BY <3>2, KernelStacksAre
    <3> QED BY <2>1, <3>1, <3>3, KernelStacksAre
  <2>4. Images' = Images
    BY <2>1, <2>2, EmptyBootstrap DEF Images, Taken
  <2>5. Account(Free, Private(fresh), {}, {}, KernelStacks, Images, lost, config.pages)
    BY <2>2, EmptyBootstrap, AccountRoles DEF OInv, Owned
  <2>6. lost' = {}
    BY <2>1 DEF OInv, Owned, IInv, Control, BootInv
  <2>7. Free' = Free
    BY <2>1 DEF Free
  <2> QED BY <2>1, <2>2, <2>3, <2>4, <2>5, <2>6, <2>7, EmptyBootstrap DEF OInv, Owned
<1> QED BY <1>1, <1>2, <1>3

(* sched_exec_current: the new bootstrap becomes the current one, and the  *)
(* current one the previous, without the image that both have.             *)
LEMMA TransferOwned == ASSUME OInv, Transfer PROVE Owned'
<1>1. pc = "transfer" /\ current = 1 /\ user_task_enabled /\ pc' # "claim"
      /\ UNCHANGED <<freeList, lost, config, page>>
  BY DEF OInv, IInv, Control, BootInv, Exec, Building, Transfer, memory, request
<1>2. old = NoBootstrap /\ HasImage(fresh) /\ (HasImage(boot) \/ NoImage(boot))
  BY <1>1 DEF OInv, Stages, StageInv, ShapeInv
<1>3. CASE config.refuse
  <2>1. UNCHANGED <<boot, fresh, old, state, rsp>>
    BY <1>3 DEF Transfer, schedule
  <2>2. KernelStacks' = KernelStacks /\ Images' = Images
    BY <1>1, <2>1 DEF KernelStacks, Kind, user_task_enabled, Images, Taken
  <2> QED BY <1>1, <2>1, <2>2, KeptOwned DEF OInv
<1>4. CASE ~config.refuse
  <2>1. /\ old' = IF SameImage THEN [boot EXCEPT !.begin = Null, !.end = Null] ELSE boot
        /\ rsp' = [rsp EXCEPT ![1] = fresh.stack]
        /\ boot' = fresh /\ fresh' = NoBootstrap /\ UNCHANGED state
    BY <1>1, <1>4 DEF Transfer, task_build_user_stack
  <2>2. KernelStacks' = KernelStacks
    <3>1. rsp'[0] = rsp[0]
      BY <2>1 DEF OInv, IInv, TypeOK, Tasks
    <3>2. user_task_enabled'
      BY <1>1 DEF user_task_enabled
    <3>3. KernelStacks' = {rsp'[0]} \ {Null}
      BY <3>2, KernelStacksAre
    <3> QED BY <1>1, <3>1, <3>3, KernelStacksAre
  <2>3. boot \in Bootstrap /\ Distinct(boot)
    BY DEF OInv, IInv, TypeOK, Owned
  <2>4. NoImage(old') /\ Private(old') = Private(boot) /\ Distinct(old')
    <3>1. CASE SameImage
      BY <2>1, <2>3, <3>1 DEF NoImage, Bootstrap, Private, Distinct
    <3>2. CASE ~SameImage
      BY <1>2, <2>1, <2>3, <3>2 DEF SameImage, HasImage
    <3> QED BY <3>1, <3>2
  <2>5. Images' = Images
    <3>1. Images = Window
      BY <1>1, <1>2, ImageShape, EmptyBootstrap DEF Images, Taken
    <3>2. Images' = Window
      BY <1>1, <1>2, <2>1, <2>4, ImageShape, EmptyBootstrap DEF Images, Taken
    <3> QED BY <3>1, <3>2
  <2>6. Account(Free, Private(fresh), {}, Private(boot), KernelStacks, Images, lost, config.pages)
    BY <1>2, EmptyBootstrap, AccountRoles DEF OInv, Owned
  <2>7. Free' = Free
    BY <1>1 DEF Free
  <2> QED BY <1>1, <2>1, <2>2, <2>4, <2>5, <2>6, <2>7, EmptyBootstrap DEF OInv, Owned
<1> QED BY <1>3, <1>4

(* Ticks and yields move no page. *)
LEMMA ScheduledOwned == ASSUME OInv, Scheduled PROVE Owned'
<1>1. /\ UNCHANGED <<freeList, boot, fresh, old, lost, config, page>>
      /\ pc # "claim" /\ pc' # "claim" /\ (state[1] = "DONE" => state'[1] = "DONE")
      /\ \A t \in Tasks : rsp'[t] = rsp[t] \/ Kind(t) = "USER"
  BY DEF Scheduled, memory, request
<1>2. rsp'[0] = rsp[0] /\ (~user_task_enabled => rsp'[1] = rsp[1])
  BY <1>1 DEF Kind, Tasks
<1>3. user_task_enabled' = user_task_enabled
  BY <1>1 DEF user_task_enabled
<1>4. KernelStacks' = (IF user_task_enabled THEN {rsp'[0]} ELSE {rsp'[0], rsp'[1]}) \ {Null}
  BY <1>3, KernelStacksAre
<1>5. KernelStacks' = KernelStacks
  BY <1>2, <1>4, KernelStacksAre
<1>6. Images' = Images
  BY <1>1 DEF Images, Taken
<1> QED BY <1>1, <1>5, <1>6, KeptOwned DEF OInv

(* Nor do a fault and the entry of exec. *)
LEMMA SyscallOwned ==
  ASSUME OInv, UserFault \/ \E prog \in Programs : SysExec(prog)
  PROVE  Owned'
<1>1. /\ UNCHANGED <<freeList, boot, fresh, old, lost, config, state, rsp, page>>
      /\ pc # "claim" /\ pc' # "claim"
  BY DEF UserFault, SysExec, InTask, memory, schedule, request
<1>2. KernelStacks' = KernelStacks /\ Images' = Images
  BY <1>1 DEF KernelStacks, Kind, user_task_enabled, Images, Taken
<1> QED BY <1>1, <1>2, KeptOwned DEF OInv

(* Exit: the current bootstrap becomes the one to be released. *)
LEMMA ExitedOwned == ASSUME OInv, Exited PROVE Owned'
<1>1. /\ pc = "running" /\ pc' = "release_image" /\ user_task_enabled /\ state'[1] = "DONE"
      /\ rsp'[0] = rsp[0] /\ old' = boot /\ boot' = NoBootstrap
      /\ UNCHANGED <<freeList, lost, config, fresh>>
  BY DEF Exited, memory, request
<1>2. fresh = NoBootstrap /\ old = NoBootstrap
  BY <1>1 DEF OInv, Stages, StageInv
<1>3. user_task_enabled' /\ Free' = Free
  BY <1>1 DEF user_task_enabled, Free
<1>4. KernelStacks' = {rsp'[0]} \ {Null}
  BY <1>3, KernelStacksAre
<1>5. KernelStacks' = KernelStacks
  BY <1>1, <1>4, KernelStacksAre
<1>6. Images' = Images
  BY <1>1, <1>2, EmptyBootstrap DEF Images, Taken
<1>7. Account(Free, {}, {}, Private(boot), KernelStacks, Images, lost, config.pages)
  BY <1>2, EmptyBootstrap, AccountRoles DEF OInv, Owned
<1> QED BY <1>1, <1>2, <1>3, <1>5, <1>6, <1>7, EmptyBootstrap DEF OInv, Owned

-----------------------------------------------------------------------------
(* The invariant and what it implies *)

LEMMA InitOInv == Init => OInv
BY InitInv, InitStages, InitOwned DEF OInv

LEMMA NextOInv ==
  ASSUME SpansAgree, RefusesAll, OInv, [Next]_vars
  PROVE  OInv'
<1>0. IInv /\ IInv' /\ Stages
  BY NextInv DEF OInv
<1>1. CASE CreateAddressSpace
  BY <1>0, <1>1, CreateAddressSpaceStages, CreateAddressSpaceOwned DEF OInv
<1>2. CASE ValidateImage
  BY <1>0, <1>2, ValidateImageStages, ValidateImageOwned DEF OInv
<1>3. CASE ClaimWindowPage
  BY <1>0, <1>3, ClaimWindowPageStages, ClaimWindowPageOwned DEF OInv
<1>4. CASE LoadSegments
  BY <1>0, <1>4, LoadSegmentsStages, LoadSegmentsOwned DEF OInv
<1>5. CASE MapUserPages
  BY <1>0, <1>5, MapUserPagesStages, MapUserPagesOwned DEF OInv
<1>6. CASE AllocUserStack
  BY <1>0, <1>6, AllocUserStackStages, AllocUserStackOwned DEF OInv
<1>7. CASE DropImage \/ UnloadImage
  BY <1>0, <1>7, DropStages, DropImageOwned DEF OInv
<1>8. CASE DropSpace
  BY <1>0, <1>8, DropStages, DropSpaceOwned DEF OInv
<1>9. CASE CreateIdleTask \/ CreateUserTask \/ CreateWorkerTask
  BY <1>0, <1>9, CreateTaskStages, CreateTaskOwned DEF OInv
<1>10. CASE Transfer
  BY <1>0, <1>10, TransferStages, TransferOwned DEF OInv
<1>11. CASE ReleaseImage
  BY <1>0, <1>11, ReleaseStages, ReleaseImageOwned DEF OInv
<1>12. CASE ReleaseSpace
  BY <1>0, <1>12, ReleaseStages, ReleaseSpaceOwned DEF OInv
<1>13. CASE Tick \/ Yield
  BY <1>0, <1>13, TickSchedules, ScheduledStages, ScheduledOwned DEF OInv
<1>14. CASE UserFault \/ \E prog \in Programs : SysExec(prog)
  BY <1>0, <1>14, SyscallStages, SyscallOwned DEF OInv
<1>15. CASE SysExit
  BY <1>0, <1>15, ExitLeaves, ExitedStages, ExitedOwned DEF OInv
<1>16. CASE UNCHANGED vars
  <2>1. /\ UNCHANGED <<freeList, boot, fresh, old, lost, config, state, rsp, page, pc, cr3,
                       started, target>>
    BY <1>16 DEF vars
  <2>2. KernelStacks' = KernelStacks /\ Images' = Images
    BY <2>1 DEF KernelStacks, Kind, user_task_enabled, Images, Taken, Reusable
  <2>3. Owned'
    BY <2>1, <2>2, KeptOwned DEF OInv
  <2>4. Stages'
    BY <1>0, <2>1 DEF Stages, ShapeInv, StageInv, FullInv, RefuseInv, StackInv, Booting, CBoot,
         user_task_enabled
  <2> QED BY <1>0, <2>3, <2>4 DEF OInv
<1> QED BY <1>1, <1>2, <1>3, <1>4, <1>5, <1>6, <1>7, <1>8, <1>9, <1>10, <1>11, <1>12, <1>13,
           <1>14, <1>15, <1>16 DEF Next, KernelStep

(* The CPU's page tables and the frames a dispatch would restore are in    *)
(* pages with an owner.                                                    *)
LEMMA OwnedIsLive == OInv => CpuStateLive
<1> SUFFICES ASSUME OInv PROVE CpuStateLive
  OBVIOUS
<1>1. /\ IInv /\ Free \cap Private(boot) = {} /\ Free \cap KernelStacks = {}
      /\ Free \subseteq Pages
  BY FreeIsPages DEF OInv, IInv, Owned, Account, Divided
<1>2. ASSUME cr3 # KernelSpace
      PROVE  cr3 = boot.pml4 /\ Tables(boot) \cap (Free \cup {Null}) = {}
  <2>1. started /\ ~Booting /\ current \in Tasks /\ state[current] = "RUNNING"
        /\ cr3 = space[current]
    BY <1>1, <1>2 DEF OInv, Stages, StackInv, IInv, Control, RunInv, BootInv
  <2>2. current = 1 /\ cr3 = boot.pml4 /\ boot.pml4 # Null
    BY <1>1, <1>2, <2>1 DEF IInv, Control, TaskInv, Tasks
  <2>3. AllTables(boot)
    BY <2>2 DEF OInv, Stages, FullInv, Full
  <2>4. Tables(boot) \subseteq Private(boot) /\ Null \notin Tables(boot)
    BY <2>3 DEF AllTables, Tables, Private
  <2> QED BY <1>1, <2>2, <2>4
<1>3. ASSUME NEW t \in Tasks, state[t] \in {"RUNNABLE", "RUNNING"}
      PROVE  /\ rsp[t] # Null /\ rsp[t] \notin Free
             /\ Kind(t) = "USER" => rsp[t] \in {TssStack, boot.stack}
  <2>1. rsp[t] # Null
    BY <1>1, <1>3 DEF IInv, Control, TaskInv, Booting, Tasks
  <2>2. CASE Kind(t) = "KERNEL"
    BY <1>1, <2>1, <2>2 DEF KernelStacks
  <2>3. CASE Kind(t) = "USER"
    <3>1. rsp[t] \in {TssStack, boot.stack}
      BY <1>3, <2>3 DEF OInv, Stages, StackInv, Kind
    <3>2. TssStack \notin Free
      BY <1>1, ConstantsAssumption DEF TssStack, Pages
    <3>3. rsp[t] = boot.stack => rsp[t] \in Private(boot)
      BY <2>1 DEF Private
    <3> QED BY <1>1, <2>1, <3>1, <3>2, <3>3
  <2> QED BY <2>2, <2>3 DEF Kind
<1> QED BY <1>2, <1>3 DEF CpuStateLive, ActiveSpaceLive, SavedFrameLive

LEMMA OInvIsInvariant == ASSUME SpansAgree, RefusesAll PROVE Spec => []OInv
<1>1. Init => OInv
  BY InitOInv
<1>2. OInv /\ [Next]_vars => OInv'
  BY NextOInv
<1> QED BY <1>1, <1>2, PTL DEF Spec

(* In a kernel whose images span the same pages, and whose test hook comes *)
(* with the C first task, each page has one owner at every step of boot,   *)
(* exec and exit, for every number of pages: no failure in between frees a *)
(* page that is in use, frees one twice, or forgets one, and only the exit *)
(* of the user task may leave image pages behind.                          *)
THEOREM PagesAreOwned == ASSUME SpansAgree, RefusesAll PROVE Spec => []PagesOwned
<1>1. OInv => PagesOwned
  BY OwnedIsPagesOwned DEF OInv, IInv
<1> QED BY <1>1, OInvIsInvariant, PTL

(* In such a kernel CR3 never names tables that were freed, and the frame  *)
(* of a task that can be dispatched is in memory the task owns, at every   *)
(* step of exec's transfer and of exit's release.                          *)
THEOREM CpuStateIsLive == ASSUME SpansAgree, RefusesAll PROVE Spec => []CpuStateLive
<1> QED BY OwnedIsLive, OInvIsInvariant, PTL

-----------------------------------------------------------------------------
(***************************************************************************)
(* Ample memory.  The loader's window is at a fixed place, and its pages   *)
(* are on the same list that tables and stacks are popped from: an exec    *)
(* succeeds only if none of them was handed out before.  What keeps them   *)
(* is the order of the list.  The highest page is allocated first, so that *)
(* a machine with enough pages above the window (WindowIsLow) boots from   *)
(* those; and a release pushes the image before the tables, so that the    *)
(* next exec pops its PML4 from above the window's pages (OrderInv).       *)
(***************************************************************************)

(* The tables and the stack of a C first task, the idle stack, and the     *)
(* PML4 of the first exec come from above the window.                      *)
PagesAbove == 7
WindowIsLow ==
    \A c \in Configs, p \in Programs :
        c.pages >= PrivatePages + Span[p] => LoadBase + Span[p] + PagesAbove <= c.pages + 1

WindowSize == WindowEnd - LoadBase
ImageSize(b) == IF NoImage(b) THEN 0 ELSE WindowSize

(* The private pages of the task that runs, with the idle stack. *)
Running == IF Booting THEN 0 ELSE 6

(* At least so many pages are free. *)
Room(n) == Len(freeList) >= config.pages - n

RoomInv ==
    /\ pc = "create" => Room(Running + ImageSize(boot))
    /\ pc = "validate" => Room(Running + 1 + ImageSize(boot))
    /\ pc = "claim" => Room(Running + 1 + IF NoImage(boot) THEN page - LoadBase ELSE WindowSize)
    /\ pc = "map" => Room(IF CBoot THEN 2 ELSE Running + 1 + WindowSize)
    /\ pc = "stack" => Room(IF CBoot THEN 1 ELSE Running + 4 + WindowSize)
    /\ pc = "init0" => Room(IF user_task_enabled THEN 5 + ImageSize(fresh) ELSE 0)
    /\ pc = "init1" => Room(IF user_task_enabled THEN 6 + ImageSize(fresh) ELSE 1)
    /\ pc = "running" /\ user_task_enabled => Room(6 + ImageSize(boot))
    /\ pc \in {"transfer", "unload", "release_image"} => Room(11 + WindowSize)
    /\ pc = "drop_space" => Room(6 + ImageSize(boot) + IF fresh.pt = Null THEN 1 ELSE 4)
    /\ pc = "release_space" => Room(10 + WindowSize)

(* The first n pages of the list are not the window's. *)
Above(n) == \A i \in 1..n : i <= Len(freeList) => freeList[i] \notin Window

(* How far allocation may go before the window is claimed. *)
OrderInv ==
    /\ Booting /\ pc = "create" => Above(7)
    /\ CBoot /\ pc = "stack" => Above(6)
    /\ CBoot /\ pc = "map" => Above(5)
    /\ pc = "init0" /\ user_task_enabled /\ NoImage(fresh) => Above(2)
    /\ pc = "init1" /\ user_task_enabled /\ NoImage(fresh) => Above(1)
    /\ pc \in {"running", "create"} /\ user_task_enabled /\ NoImage(boot) => Above(1)

(* No table and no stack lies in the window. *)
ApartInv ==
    user_task_enabled =>
        Window \cap (Private(boot) \cup Private(fresh) \cup Private(old) \cup KernelStacks) = {}

(* The new image is complete once it is loaded; until then, and after a    *)
(* failure, the caller's is.                                               *)
BytesInv ==
    /\ pc \notin {"map", "stack", "transfer"} => \A p \in ImagePages(boot) : holds[p] = boot.prog
    /\ pc \in {"map", "stack", "transfer", "init0", "init1"} =>
         \A p \in ImagePages(fresh) : holds[p] = fresh.prog

(* What a release finds. *)
PartsInv ==
    /\ pc = "unload" => Full(fresh)
    /\ pc = "drop_space" => NoTables(fresh) \/ AllTables(fresh)
    /\ pc = "release_image" => Full(old) /\ HasImage(boot)
    /\ pc = "release_space" => AllTables(old) /\ HasImage(boot)

(* Exec fails only where it has to. *)
FailInv ==
    /\ pc # "drop_image"
    /\ pc = "drop_space" => target \in BadImages \/ config.refuse

AInv ==
    /\ BytesInv /\ FailInv
    /\ state[1] = "DONE" => NoImage(boot)
    /\ state[1] # "DONE" => RoomInv /\ OrderInv /\ ApartInv /\ PartsInv

(* What the constants are in a machine with ample memory. *)
LEMMA AmpleFacts ==
  ASSUME SpansAgree, WindowIsLow, Ample, TypeOK
  PROVE  /\ config.pages \in Nat /\ WindowSize \in Nat /\ WindowSize >= 1 /\ WindowSize = WindowEnd - LoadBase
         /\ LoadBase \in Nat /\ LoadBase >= 1 /\ WindowEnd \in Nat /\ LoadEnd = WindowEnd
         /\ config.pages >= 11 + WindowSize /\ WindowEnd + 6 <= config.pages
         /\ Window \subseteq 1..config.pages /\ Window \subseteq Pages
<1>1. PICK p : p = CHOOSE q \in Programs : TRUE
  OBVIOUS
<1>2. p \in Programs /\ WindowEnd = LoadBase + Span[p]
  <2>1. target \in Programs
    BY DEF TypeOK
  <2> QED
    BY <1>1, <2>1 DEF WindowEnd
<1>3. PICK w : w = Span[p]
  OBVIOUS
<1>4. w \in Nat /\ w >= 1 /\ LoadBase \in Nat /\ LoadBase >= 1 /\ NumPages \in Nat
  BY <1>2, <1>3, ConstantsAssumption
<1>5. config \in Configs /\ config.pages \in 0..NumPages
  BY ConstantsAssumption DEF TypeOK, Config
<1>6. config.pages >= 11 + w
  BY <1>2, <1>3 DEF Ample, PrivatePages
<1>7. LoadBase + w + 7 <= config.pages + 1
  BY <1>2, <1>3, <1>5, <1>6 DEF WindowIsLow, PagesAbove, PrivatePages
<1>8. WindowEnd = LoadBase + w
  BY <1>2, <1>3
<1>9. LoadEnd = WindowEnd
  BY WindowFacts
<1>10. WindowSize = w
  BY <1>4, <1>8 DEF WindowSize
<1> QED
  BY <1>4, <1>5, <1>6, <1>7, <1>8, <1>9, <1>10 DEF Window, Pages

(* Boot and exec have a task that is not done. *)
LEMMA StepsOfLiving ==
  ASSUME IInv, Stages, pc \in Exec \cup {"init0", "init1"}
  PROVE  state[1] # "DONE" /\ (pc \in Exec => user_task_enabled)
         /\ (Booting => boot = NoBootstrap /\ NoImage(boot))
<1>1. pc \in Exec => user_task_enabled
  BY DEF Stages, StageInv
<1>2. Booting => boot = NoBootstrap /\ NoImage(boot)
  BY DEF Stages, FullInv, NoImage, NoBootstrap
<1>3. CASE Booting
  BY <1>1, <1>2, <1>3 DEF IInv, Control, BootInv
<1>4. CASE pc \in Exec /\ ~Booting
  BY <1>1, <1>4 DEF IInv, Control, BootInv, RunInv
<1>5. CASE pc \in {"init0", "init1"}
  BY <1>1, <1>2, <1>5 DEF IInv, Control, BootInv
<1> QED
  BY <1>3, <1>4, <1>5

LEMMA AliveFacts ==
  ASSUME OInv, AInv, pc \in Exec \cup {"init0", "init1"}
  PROVE  /\ state[1] # "DONE" /\ RoomInv /\ OrderInv /\ ApartInv /\ PartsInv /\ BytesInv /\ FailInv
         /\ IInv /\ Stages /\ Owned /\ TypeOK
         /\ pc \in Exec => user_task_enabled
         /\ Booting => boot = NoBootstrap /\ NoImage(boot)
BY StepsOfLiving DEF AInv, OInv, IInv

(* One page off the list. *)
LEMMA PopFacts ==
  ASSUME TypeOK, freeList # <<>>, freeList' = AfterAlloc(freeList)
  PROVE  /\ Len(freeList) \in Nat /\ Len(freeList) >= 1 /\ Len(freeList') = Len(freeList) - 1
         /\ palloc_alloc(freeList) = freeList[1]
         /\ \A i \in 1..Len(freeList') : freeList'[i] = freeList[i + 1]
<1>1. freeList \in Seq(Pages)
  BY DEF TypeOK
<1>2. freeList' = Tail(freeList) /\ palloc_alloc(freeList) = Head(freeList)
  BY DEF AfterAlloc, palloc_alloc
<1>3. Len(freeList) \in Nat /\ Len(freeList) >= 1
  BY <1>1, EmptySeq, LenProperties
<1> QED
  BY <1>1, <1>2, <1>3, HeadTailProperties

LEMMA AboveAfter ==
  ASSUME TypeOK, freeList # <<>>, freeList' = AfterAlloc(freeList), NEW n \in Nat, Above(n + 1)
  PROVE  Above(n)' /\ palloc_alloc(freeList) \notin Window
<1>1. /\ Len(freeList) \in Nat /\ Len(freeList) >= 1 /\ Len(freeList') = Len(freeList) - 1
      /\ palloc_alloc(freeList) = freeList[1]
      /\ \A i \in 1..Len(freeList') : freeList'[i] = freeList[i + 1]
  BY PopFacts
<1>2. palloc_alloc(freeList) \notin Window
  BY <1>1 DEF Above
<1>3. ASSUME NEW i \in 1..n, i <= Len(freeList') PROVE freeList'[i] \notin Window
  <2>1. i + 1 \in 1..(n + 1) /\ i + 1 <= Len(freeList) /\ i \in 1..Len(freeList')
    BY <1>1, <1>3
  <2> QED
    BY <1>1, <2>1 DEF Above
<1> QED
  BY <1>2, <1>3 DEF Above

(* Where a program is loaded, no page of the window is free. *)
LEMMA WindowInUse ==
  ASSUME Owned, HasImage(boot) \/ HasImage(fresh)
  PROVE  Window \cap Free = {}
BY ImageShape DEF Owned, Account, Divided, Images

LEMMA ImageExists ==
  ASSUME OInv
  PROVE  ImagePages(boot) \subseteq Pages /\ ImagePages(fresh) \subseteq Pages
BY ImageInMemory DEF OInv, IInv, TypeOK, Control

(* A page that leaves the list, or a private page that comes back, is no   *)
(* page of an image.                                                       *)
LEMMA ImagesStay ==
  ASSUME OInv, NEW X, X \subseteq Free \cup Private(boot) \cup Private(fresh) \cup Private(old) \cup {Null},
         \A p \in Pages : p \notin X => holds'[p] = holds[p]
  PROVE  /\ \A p \in ImagePages(boot) : holds'[p] = holds[p]
         /\ \A p \in ImagePages(fresh) : holds'[p] = holds[p]
<1>1. Images \cap (Free \cup Private(boot) \cup Private(fresh) \cup Private(old)) = {}
  BY DEF OInv, Owned, Account, Divided
<1>2. ImagePages(boot) \cup ImagePages(fresh) \subseteq Images
  BY DEF Images
<1>3. Null \notin Pages /\ ImagePages(boot) \cup ImagePages(fresh) \subseteq Pages
  BY ConstantFacts, ImageExists
<1>4. \A p \in ImagePages(boot) \cup ImagePages(fresh) : p \notin X
  BY <1>1, <1>2, <1>3
<1> QED
  BY <1>3, <1>4

(* Booting allocates from above the window, exec while the window is in    *)
(* use or from above it.                                                   *)
LEMMA CreateAddressSpaceAmple ==
  ASSUME SpansAgree, WindowIsLow, Ample, OInv, AInv, CreateAddressSpace
  PROVE  AInv' /\ pc' \notin {"running", "halted"}
<1>1. /\ pc = "create" /\ user_task_enabled /\ state[1] # "DONE" /\ RoomInv /\ OrderInv /\ ApartInv
      /\ BytesInv /\ FailInv /\ (Booting => boot = NoBootstrap /\ NoImage(boot)) /\ fresh = NoBootstrap
      /\ IInv /\ Stages /\ Owned /\ TypeOK
  <2>1. pc = "create" /\ pc \in Exec /\ Stages
    BY DEF CreateAddressSpace, OInv, Exec, Building
  <2>2. fresh = NoBootstrap
    BY <2>1 DEF Stages, StageInv
  <2> QED
    BY <2>1, <2>2, AliveFacts
<1>2. /\ config.pages \in Nat /\ WindowSize \in Nat /\ config.pages >= 11 + WindowSize
  BY <1>1, AmpleFacts
<1>3. PICK used : used = Running + ImageSize(boot)
  OBVIOUS
<1>4. used \in Nat /\ used <= 6 + WindowSize /\ Len(freeList) >= config.pages - used
  BY <1>1, <1>2, <1>3 DEF RoomInv, Room, Running, ImageSize
<1>5. freeList # <<>>
  BY <1>2, <1>4
<1>6. PICK p : p = palloc_alloc(freeList)
  OBVIOUS
<1>7. /\ fresh' = [NoBootstrap EXCEPT !.pml4 = p]
      /\ freeList' = AfterAlloc(freeList)
      /\ holds' = [holds EXCEPT ![p] = NoProgram]
      /\ pc' = IF CBoot THEN "stack" ELSE "validate"
      /\ UNCHANGED <<lost, state, rsp, boot, started, config, target, page, old>>
  BY <1>5, <1>6 DEF CreateAddressSpace, schedule, request
<1>8. /\ Len(freeList) \in Nat /\ Len(freeList) >= 1 /\ Len(freeList') = Len(freeList) - 1
  BY <1>1, <1>5, <1>7, PopFacts
<1>9. p \notin Window /\ (CBoot => Above(6)')
  <2>1. CASE Booting
    <3>1. Above(6 + 1)
      BY <1>1, <2>1 DEF OrderInv
    <3> QED
      BY <1>1, <1>5, <1>6, <1>7, <3>1, AboveAfter
  <2>2. CASE ~Booting /\ NoImage(boot)
    <3>1. Above(0 + 1)
      BY <1>1, <2>2 DEF OrderInv
    <3> QED
      BY <1>1, <1>5, <1>6, <1>7, <2>2, <3>1, AboveAfter DEF CBoot
  <2>3. CASE ~Booting /\ HasImage(boot)
    <3>1. Window \cap Free = {} /\ p \in Free
      BY <1>1, <1>5, <1>6, <1>7, <2>3, WindowInUse, AllocOwned
    <3> QED
      BY <2>3, <3>1 DEF CBoot
  <2> QED
    BY <1>1, <2>1, <2>2, <2>3 DEF Stages, ShapeInv
<1>10. p \in Free /\ p # Null
  BY <1>5, <1>6, <1>7, AllocOwned
<1>11. /\ Private(fresh') = {p} /\ ImagePages(fresh') = {} /\ Private(fresh) = {}
  BY <1>1, <1>7, <1>10, EmptyBootstrap DEF Private, ImagePages, NoBootstrap, Null
<1>12. Booting' = Booting /\ CBoot' = CBoot /\ user_task_enabled' = user_task_enabled /\ Running' = Running
  BY <1>7 DEF Booting, CBoot, user_task_enabled, Running
<1>13. KernelStacks' = KernelStacks
  BY <1>7, <1>12 DEF KernelStacks, Kind
<1>14. RoomInv'
  <2>1. CASE CBoot
    <3>1. Len(freeList') >= config.pages - 1
      BY <1>1, <1>2, <1>3, <1>4, <1>8, <2>1 DEF CBoot, Running, ImageSize
    <3> QED
      BY <1>7, <1>12, <2>1, <3>1 DEF RoomInv, Room
  <2>2. CASE ~CBoot
    <3>1. Len(freeList') >= config.pages - (Running + 1 + ImageSize(boot))
      BY <1>2, <1>3, <1>4, <1>8 DEF Running, ImageSize
    <3> QED
      BY <1>7, <1>12, <2>2, <3>1 DEF RoomInv, Room, ImageSize, NoImage
  <2> QED
    BY <2>1, <2>2
<1>15. OrderInv'
  BY <1>7, <1>9, <1>12 DEF OrderInv
<1>16. PartsInv'
  BY <1>7 DEF PartsInv
<1>17. ApartInv'
  BY <1>1, <1>7, <1>9, <1>11, <1>12, <1>13 DEF ApartInv
<1>18. BytesInv'
  <2>1. \A q \in ImagePages(boot) : holds'[q] = holds[q]
    <3>1. \A q \in Pages : q \notin {p} => holds'[q] = holds[q]
      BY <1>1, <1>7 DEF TypeOK
    <3> QED
      BY <1>10, <3>1, ImagesStay
  <2> QED
    BY <1>1, <1>7, <1>11, <2>1 DEF BytesInv
<1>19. FailInv'
  BY <1>7 DEF FailInv
<1> QED
  BY <1>1, <1>7, <1>14, <1>15, <1>16, <1>17, <1>18, <1>19 DEF AInv

LEMMA ValidateImageAmple ==
  ASSUME SpansAgree, WindowIsLow, Ample, OInv, AInv, ValidateImage
  PROVE  AInv'
<1>1. /\ pc = "validate" /\ user_task_enabled /\ state[1] # "DONE" /\ RoomInv /\ OrderInv /\ ApartInv
      /\ BytesInv /\ FailInv /\ NoTables(fresh) /\ TypeOK
  <2>1. pc = "validate" /\ pc \in Exec
    BY DEF ValidateImage, Exec, Building
  <2>2. NoTables(fresh)
    BY <2>1 DEF OInv, Stages, StageInv
  <2> QED
    BY <2>1, <2>2, AliveFacts
<1>2. config.pages \in Nat /\ WindowSize \in Nat /\ LoadBase \in Nat
  BY <1>1, AmpleFacts
<1>3. /\ UNCHANGED <<freeList, holds, lost, state, rsp, boot, started, config, target, fresh, old>>
      /\ IF target \in BadImages THEN pc' = FailTo("drop_space") ELSE pc' = "claim" /\ page' = LoadBase
  BY DEF ValidateImage, memory, schedule
<1>4. Booting' = Booting /\ CBoot' = CBoot /\ user_task_enabled' = user_task_enabled /\ Running' = Running
  BY <1>3 DEF Booting, CBoot, user_task_enabled, Running
<1>5. pc' \in {"drop_space", "claim", "halted"}
  BY <1>3 DEF FailTo
<1>6. RoomInv'
  <2>1. Len(freeList) >= config.pages - (Running + 1 + ImageSize(boot))
    BY <1>1 DEF RoomInv, Room
  <2>2. CASE pc' = "drop_space"
    <3>1. ~Booting /\ fresh.pt = Null
      BY <1>1, <1>3, <2>2 DEF FailTo, NoTables
    <3>2. Len(freeList) >= config.pages - (6 + ImageSize(boot) + 1)
      BY <1>2, <2>1, <3>1 DEF Running, ImageSize
    <3> QED
      BY <1>3, <2>2, <3>1, <3>2 DEF RoomInv, Room, ImageSize, NoImage
  <2>3. CASE pc' = "claim"
    <3>1. page' = LoadBase
      BY <1>3, <2>3 DEF FailTo
    <3>2. Len(freeList) >= config.pages - (Running + 1 + IF NoImage(boot) THEN LoadBase - LoadBase ELSE WindowSize)
      BY <1>2, <2>1 DEF Running, ImageSize
    <3> QED
      BY <1>3, <1>4, <2>3, <3>1, <3>2 DEF RoomInv, Room, NoImage
  <2>4. CASE pc' = "halted"
    BY <2>4 DEF RoomInv
  <2> QED
    BY <1>5, <2>2, <2>3, <2>4
<1>7. OrderInv'
  BY <1>5 DEF OrderInv
<1>8. ApartInv'
  BY <1>1, <1>3, <1>4 DEF ApartInv, KernelStacks, Kind
<1>9. PartsInv'
  BY <1>1, <1>3, <1>5 DEF PartsInv, NoTables
<1>10. BytesInv'
  BY <1>1, <1>3, <1>5 DEF BytesInv
<1>11. FailInv'
  BY <1>3, <1>5 DEF FailInv
<1> QED
  BY <1>1, <1>3, <1>6, <1>7, <1>8, <1>9, <1>10, <1>11 DEF AInv

(* The claim succeeds: a page of the window that is not the caller's is    *)
(* nobody's, and so it is on the list.                                     *)
LEMMA ClaimFinds ==
  ASSUME SpansAgree, WindowIsLow, Ample, OInv, AInv, pc = "claim", page < LoadEnd, ~Reusable(page)
  PROVE  NoImage(boot) /\ page \in Free
<1>1. /\ user_task_enabled /\ state[1] # "DONE" /\ ApartInv /\ IInv /\ Stages /\ Owned /\ TypeOK
  BY AliveFacts DEF Exec, Building
<1>2. page \in Window /\ page \in Nat /\ Window \subseteq 1..config.pages
  <2>1. LoadEnd = WindowEnd /\ Window \subseteq 1..config.pages
    BY <1>1, AmpleFacts
  <2>2. page \in Nat /\ page >= LoadBase /\ LoadBase \in Nat /\ WindowEnd \in Nat
    BY <1>1, AmpleFacts DEF IInv, Control, ClaimInv, TypeOK
  <2> QED
    BY <2>1, <2>2 DEF Window
<1>3. /\ Taken = IF pc = "claim" /\ NoImage(boot) THEN LoadBase..(page - 1) ELSE {}
      /\ HasImage(boot) => \A p \in Int : Reusable(p) <=> p \in Window
  BY <1>1, TakenPages DEF Stages
<1>4. NoImage(boot)
  BY <1>1, <1>2, <1>3 DEF Stages, ShapeInv
<1>5. page \notin Images
  <2>1. NoImage(fresh) /\ old = NoBootstrap
    BY <1>1 DEF Stages, StageInv
  <2>2. ImagePages(boot) = {} /\ ImagePages(fresh) = {} /\ ImagePages(old) = {}
    BY <1>4, <2>1, ImageShape, EmptyBootstrap
  <2>3. page \notin Taken
    BY <1>2, <1>3
  <2> QED
    BY <2>2, <2>3 DEF Images
<1>6. lost = {}
  BY <1>1 DEF Owned
<1>7. page \notin Private(boot) \cup Private(fresh) \cup Private(old) \cup KernelStacks
  BY <1>1, <1>2 DEF ApartInv
<1>8. page \in 1..config.pages
  BY <1>2
<1>9. Free \cup Private(boot) \cup Private(fresh) \cup Private(old) \cup KernelStacks \cup Images \cup lost
        = 1..config.pages
  BY <1>1 DEF Owned, Account
<1> QED
  BY <1>4, <1>5, <1>6, <1>7, <1>8, <1>9

LEMMA ClaimWindowPageAmple ==
  ASSUME SpansAgree, WindowIsLow, Ample, OInv, AInv, ClaimWindowPage
  PROVE  AInv' /\ pc' # "halted"
<1>1. /\ pc = "claim" /\ user_task_enabled /\ state[1] # "DONE" /\ RoomInv /\ OrderInv /\ ApartInv
      /\ BytesInv /\ FailInv /\ TypeOK /\ Owned /\ page < LoadEnd
  <2>1. pc = "claim" /\ pc \in Exec /\ page < LoadEnd
    BY DEF ClaimWindowPage, Exec, Building
  <2> QED
    BY <2>1, AliveFacts
<1>2. /\ config.pages \in Nat /\ WindowSize \in Nat /\ LoadBase \in Nat /\ page \in Nat
  BY <1>1, AmpleFacts DEF TypeOK
<1>3. PICK taken : taken = IF NoImage(boot) THEN page - LoadBase ELSE WindowSize
  OBVIOUS
<1>4. Len(freeList) >= config.pages - (Running + 1 + taken)
  BY <1>1, <1>3 DEF RoomInv, Room
<1>5. /\ UNCHANGED <<holds, lost, state, rsp, boot, started, config, target, fresh, old, pc>>
      /\ page' = page + 1
      /\ \/ Reusable(page) /\ freeList' = freeList
         \/ NoImage(boot) /\ page \in Free /\ freeList' = palloc_take(freeList, page)
  <2>1. CASE Reusable(page)
    BY <2>1 DEF ClaimWindowPage, schedule
  <2>2. CASE ~Reusable(page)
    <3>1. NoImage(boot) /\ page \in Free
      BY <1>1, <2>2, ClaimFinds
    <3>2. Listed(freeList, page)
      BY <3>1, ListFacts DEF Free, Listed, ToSet
    <3> QED
      BY <2>2, <3>1, <3>2 DEF ClaimWindowPage, schedule
  <2> QED
    BY <2>1, <2>2
<1>6. Booting' = Booting /\ CBoot' = CBoot /\ user_task_enabled' = user_task_enabled /\ Running' = Running
  BY <1>5 DEF Booting, CBoot, user_task_enabled, Running
<1>7. Len(freeList') >= config.pages - (Running + 1 + IF NoImage(boot) THEN (page + 1) - LoadBase ELSE WindowSize)
  <2>1. Len(freeList) \in Nat /\ Running \in Nat
    BY <1>1, LenProperties DEF TypeOK, Running
  <2>2. CASE freeList' = freeList
    BY <1>2, <1>3, <1>4, <2>1, <2>2
  <2>3. CASE NoImage(boot) /\ page \in Free /\ freeList' = palloc_take(freeList, page)
    <3>1. Len(freeList') = Len(freeList) - 1
      <4>1. freeList \in Seq(Pages) /\ IsInjective(freeList) /\ page \in ToSet(freeList)
        BY <1>1, <2>3 DEF TypeOK, Owned, Free
      <4> QED
        BY <2>3, <4>1, TakeFacts
    <3> QED
      BY <1>2, <1>3, <1>4, <2>1, <2>3, <3>1
  <2> QED
    BY <1>5, <2>2, <2>3
<1>8. RoomInv'
  BY <1>1, <1>5, <1>6, <1>7 DEF RoomInv, Room, NoImage
<1>9. OrderInv'
  BY <1>1, <1>5 DEF OrderInv
<1>10. ApartInv'
  BY <1>1, <1>5, <1>6 DEF ApartInv, KernelStacks, Kind
<1>11. PartsInv'
  BY <1>1, <1>5 DEF PartsInv
<1>12. BytesInv'
  BY <1>1, <1>5 DEF BytesInv
<1>13. FailInv'
  BY <1>1, <1>5 DEF FailInv
<1> QED
  BY <1>1, <1>5, <1>8, <1>9, <1>10, <1>11, <1>12, <1>13 DEF AInv

LEMMA LoadSegmentsAmple ==
  ASSUME SpansAgree, WindowIsLow, Ample, OInv, AInv, LoadSegments
  PROVE  AInv'
<1>1. /\ pc = "claim" /\ user_task_enabled /\ state[1] # "DONE" /\ RoomInv /\ OrderInv /\ ApartInv
      /\ BytesInv /\ FailInv /\ TypeOK /\ IInv /\ page = LoadEnd
  <2>1. pc = "claim" /\ pc \in Exec /\ page = LoadEnd
    BY DEF LoadSegments, Exec, Building
  <2> QED
    BY <2>1, AliveFacts
<1>2. /\ config.pages \in Nat /\ WindowSize = WindowEnd - LoadBase /\ WindowSize \in Nat
      /\ LoadEnd = WindowEnd /\ Window \subseteq Pages
  BY <1>1, AmpleFacts
<1>3. /\ UNCHANGED <<freeList, lost, state, rsp, boot, started, config, target, old>>
      /\ holds' = [p \in Pages |-> IF p \in LoadBase..(LoadEnd - 1) THEN target ELSE holds[p]]
      /\ fresh' = [fresh EXCEPT !.begin = LoadBase, !.end = LoadEnd, !.prog = target]
      /\ pc' = "map"
  BY DEF LoadSegments, schedule
<1>4. Booting' = Booting /\ CBoot' = CBoot /\ user_task_enabled' = user_task_enabled /\ Running' = Running
  BY <1>3 DEF Booting, CBoot, user_task_enabled, Running
<1>5. ~CBoot
  BY <1>1 DEF IInv, Control, FreshInv
<1>6. /\ fresh'.stack = fresh.stack /\ fresh'.pml4 = fresh.pml4 /\ fresh'.pdpt = fresh.pdpt
      /\ fresh'.pd = fresh.pd /\ fresh'.pt = fresh.pt
      /\ fresh'.begin = LoadBase /\ fresh'.end = LoadEnd /\ fresh'.prog = target
  BY <1>1, <1>3 DEF TypeOK, Bootstrap
<1>7. RoomInv'
  <2>1. Len(freeList) >= config.pages - (Running + 1 + WindowSize)
    BY <1>1, <1>2 DEF RoomInv, Room
  <2> QED
    BY <1>3, <1>4, <1>5, <2>1 DEF RoomInv, Room
<1>8. OrderInv'
  BY <1>3, <1>4, <1>5 DEF OrderInv
<1>9. ApartInv'
  <2>1. Private(fresh') = Private(fresh)
    BY <1>6 DEF Private
  <2> QED
    BY <1>1, <1>3, <1>4, <2>1 DEF ApartInv, KernelStacks, Kind
<1>10. PartsInv'
  BY <1>3 DEF PartsInv
<1>11. BytesInv'
  <2>1. ImagePages(fresh') = Window
    BY <1>2, <1>6 DEF ImagePages, Window
  <2>2. \A p \in Window : holds'[p] = target
    BY <1>2, <1>3 DEF Window
  <2> QED
    BY <1>3, <1>6, <2>1, <2>2 DEF BytesInv
<1>12. FailInv'
  BY <1>3 DEF FailInv
<1> QED
  BY <1>1, <1>3, <1>7, <1>8, <1>9, <1>10, <1>11, <1>12 DEF AInv

(* Three pages off the list, when the window is in use or far enough down. *)
LEMMA MapUserPagesAmple ==
  ASSUME SpansAgree, WindowIsLow, Ample, OInv, AInv, MapUserPages
  PROVE  AInv' /\ pc' # "halted"
<1>1. /\ pc = "map" /\ user_task_enabled /\ state[1] # "DONE" /\ RoomInv /\ OrderInv /\ ApartInv
      /\ BytesInv /\ FailInv /\ TypeOK /\ IInv /\ Stages /\ Owned
  <2>1. pc = "map" /\ pc \in Exec
    BY DEF MapUserPages, Exec, Building
  <2> QED
    BY <2>1, AliveFacts
<1>2. config.pages \in Nat /\ WindowSize \in Nat /\ config.pages >= 11 + WindowSize
  BY <1>1, AmpleFacts
<1>3. PICK used : used = IF CBoot THEN 2 ELSE Running + 1 + WindowSize
  OBVIOUS
<1>4. used \in Nat /\ used <= 7 + WindowSize /\ Len(freeList) >= config.pages - used /\ Len(freeList) \in Nat
  <2>1. Len(freeList) \in Nat
    BY <1>1, LenProperties DEF TypeOK
  <2> QED
    BY <1>1, <1>2, <1>3, <2>1 DEF RoomInv, Room, Running
<1>5. Len(freeList) >= 3
  BY <1>2, <1>4
<1>6. PICK p, q, r : p = freeList[1] /\ q = freeList[2] /\ r = freeList[3]
  OBVIOUS
<1>7. /\ UNCHANGED <<lost, state, rsp, boot, started, config, target, old>>
      /\ fresh' = [fresh EXCEPT !.pdpt = p, !.pd = q, !.pt = r]
      /\ freeList' = SubSeq(freeList, 4, Len(freeList))
      /\ holds' = [holds EXCEPT ![p] = NoProgram, ![q] = NoProgram, ![r] = NoProgram]
      /\ pc' = IF CBoot THEN "init0" ELSE "stack"
  BY <1>4, <1>5, <1>6 DEF MapUserPages, WithTables, schedule, request
<1>8. /\ freeList \in Seq(Pages) /\ IsInjective(freeList) /\ {p, q, r} \subseteq Free
      /\ \A i \in 1..Len(freeList) : freeList[i] \in Pages
  <2>1. freeList \in Seq(Pages) /\ IsInjective(freeList)
    BY <1>1 DEF TypeOK, Owned
  <2> QED
    BY <1>5, <1>6, <2>1, AllocThree, ElementOfSeq DEF Free
<1>9. Len(freeList') = Len(freeList) - 3 /\ \A i \in 1..(Len(freeList) - 3) : freeList'[i] = freeList[i + 3]
  <2>1. PICK n \in Nat : n = Len(freeList)
    BY <1>4
  <2>2. freeList' = SubSeq(freeList, 4, n) /\ \A i \in 4..n : freeList[i] \in Pages
    BY <1>7, <1>8, <2>1
  <2>3. CASE n = 3
    BY <2>1, <2>2, <2>3, SubSeqProperties
  <2>4. CASE n > 3
    BY <2>1, <2>2, <2>4, SubSeqProperties
  <2> QED
    BY <1>5, <2>1, <2>3, <2>4
<1>10. {p, q, r} \cap Window = {} /\ (CBoot => Above(2)')
  <2>1. CASE CBoot
    <3>1. Above(5)
      BY <1>1, <2>1 DEF OrderInv
    <3>2. p \notin Window /\ q \notin Window /\ r \notin Window
      BY <1>4, <1>5, <1>6, <3>1 DEF Above
    <3>3. ASSUME NEW i \in 1..2, i <= Len(freeList') PROVE freeList'[i] \notin Window
      <4>1. i + 3 \in 1..5 /\ i + 3 <= Len(freeList) /\ i \in 1..(Len(freeList) - 3)
        BY <1>4, <1>9, <3>3
      <4> QED
        BY <1>9, <3>1, <4>1 DEF Above
    <3> QED
      BY <3>2, <3>3 DEF Above
  <2>2. CASE ~CBoot
    <3>1. HasImage(fresh)
      BY <1>1, <2>2 DEF Stages, StageInv
    <3> QED
      BY <1>1, <1>8, <2>2, <3>1, WindowInUse
  <2> QED
    BY <2>1, <2>2
<1>11. /\ fresh'.stack = fresh.stack /\ fresh'.pml4 = fresh.pml4 /\ fresh'.pdpt = p
       /\ fresh'.pd = q /\ fresh'.pt = r
       /\ fresh'.begin = fresh.begin /\ fresh'.end = fresh.end /\ fresh'.prog = fresh.prog
  BY <1>1, <1>7 DEF TypeOK, Bootstrap
<1>12. Private(fresh') \subseteq Private(fresh) \cup {p, q, r} /\ ImagePages(fresh') = ImagePages(fresh)
       /\ (NoImage(fresh') <=> NoImage(fresh))
  BY <1>11 DEF Private, ImagePages, NoImage
<1>13. Booting' = Booting /\ CBoot' = CBoot /\ user_task_enabled' = user_task_enabled /\ Running' = Running
  BY <1>7 DEF Booting, CBoot, user_task_enabled, Running
<1>14. RoomInv'
  <2>1. CASE CBoot
    <3>1. Len(freeList') >= config.pages - 5 /\ NoImage(fresh)
      BY <1>1, <1>2, <1>3, <1>4, <1>9, <2>1 DEF Stages, StageInv
    <3>2. ImageSize(fresh') = 0 /\ 5 + ImageSize(fresh') = 5
      BY <1>12, <3>1 DEF ImageSize
    <3> QED
      BY <1>1, <1>7, <1>13, <2>1, <3>1, <3>2 DEF RoomInv, Room
  <2>2. CASE ~CBoot
    <3>1. Len(freeList') >= config.pages - (Running + 4 + WindowSize)
      BY <1>2, <1>3, <1>4, <1>9, <2>2 DEF Running
    <3> QED
      BY <1>7, <1>13, <2>2, <3>1 DEF RoomInv, Room
  <2> QED
    BY <2>1, <2>2
<1>15. OrderInv'
  BY <1>7, <1>10, <1>13 DEF OrderInv
<1>16. ApartInv'
  BY <1>1, <1>7, <1>10, <1>12, <1>13 DEF ApartInv, KernelStacks, Kind
<1>17. PartsInv'
  BY <1>7 DEF PartsInv
<1>18. BytesInv'
  <2>1. \A x \in Pages : x \notin {p, q, r} => holds'[x] = holds[x]
    BY <1>1, <1>7 DEF TypeOK
  <2>2. /\ \A x \in ImagePages(fresh) : holds'[x] = holds[x]
        /\ \A x \in ImagePages(boot) : holds'[x] = holds[x]
    BY <1>8, <2>1, ImagesStay
  <2>3. CBoot => ImagePages(boot) = {}
    <3>1. Booting => NoImage(boot)
      BY <1>1 DEF Stages, FullInv, NoImage, NoBootstrap
    <3> QED
      BY <3>1, ImageShape DEF CBoot
  <2>4. \A x \in ImagePages(fresh) : holds'[x] = fresh'.prog
    BY <1>1, <1>11, <2>2 DEF BytesInv
  <2> QED
    BY <1>7, <1>12, <2>3, <2>4 DEF BytesInv
<1>19. FailInv'
  BY <1>7 DEF FailInv
<1> QED
  BY <1>1, <1>7, <1>14, <1>15, <1>16, <1>17, <1>18, <1>19 DEF AInv

LEMMA AllocUserStackAmple ==
  ASSUME SpansAgree, WindowIsLow, Ample, OInv, AInv, AllocUserStack
  PROVE  AInv' /\ pc' # "halted"
<1>1. /\ pc = "stack" /\ user_task_enabled /\ state[1] # "DONE" /\ RoomInv /\ OrderInv /\ ApartInv
      /\ BytesInv /\ FailInv /\ TypeOK /\ IInv /\ Stages /\ Owned
  <2>1. pc = "stack" /\ pc \in Exec
    BY DEF AllocUserStack, Exec, Building
  <2> QED
    BY <2>1, AliveFacts
<1>2. config.pages \in Nat /\ WindowSize \in Nat /\ config.pages >= 11 + WindowSize
  BY <1>1, AmpleFacts
<1>3. PICK used : used = IF CBoot THEN 1 ELSE Running + 4 + WindowSize
  OBVIOUS
<1>4. used \in Nat /\ used <= 10 + WindowSize /\ Len(freeList) >= config.pages - used
  BY <1>1, <1>2, <1>3 DEF RoomInv, Room, Running
<1>5. freeList # <<>>
  BY <1>2, <1>4
<1>6. PICK p : p = palloc_alloc(freeList)
  OBVIOUS
<1>7. /\ fresh' = [fresh EXCEPT !.stack = p]
      /\ freeList' = AfterAlloc(freeList)
      /\ holds' = [holds EXCEPT ![p] = NoProgram]
      /\ pc' = IF CBoot THEN "map" ELSE IF Booting THEN "init0" ELSE "transfer"
      /\ UNCHANGED <<lost, state, rsp, boot, started, config, target, old>>
  BY <1>5, <1>6 DEF AllocUserStack, schedule, request
<1>8. Len(freeList) \in Nat /\ Len(freeList') = Len(freeList) - 1
  BY <1>1, <1>5, <1>7, PopFacts
<1>9. p \in Free
  BY <1>5, <1>6, <1>7, AllocOwned
<1>10. p \notin Window /\ (CBoot => Above(5)') /\ (~CBoot => HasImage(fresh) /\ ~NoImage(fresh))
  <2>1. CASE CBoot
    <3>1. Above(5 + 1)
      BY <1>1, <2>1 DEF OrderInv
    <3> QED
      BY <1>1, <1>5, <1>6, <1>7, <2>1, <3>1, AboveAfter
  <2>2. CASE ~CBoot
    <3>1. HasImage(fresh)
      BY <1>1, <2>2 DEF Stages, StageInv
    <3>2. ~NoImage(fresh)
      BY <3>1, ConstantsAssumption DEF HasImage, NoImage, Null
    <3> QED
      BY <1>1, <1>9, <2>2, <3>1, <3>2, WindowInUse
  <2> QED
    BY <2>1, <2>2
<1>11. /\ fresh'.stack = p /\ fresh'.pml4 = fresh.pml4 /\ fresh'.pdpt = fresh.pdpt
       /\ fresh'.pd = fresh.pd /\ fresh'.pt = fresh.pt
       /\ fresh'.begin = fresh.begin /\ fresh'.end = fresh.end /\ fresh'.prog = fresh.prog
  BY <1>1, <1>7 DEF TypeOK, Bootstrap
<1>12. /\ Private(fresh') \subseteq Private(fresh) \cup {p} /\ ImagePages(fresh') = ImagePages(fresh)
       /\ (NoImage(fresh') <=> NoImage(fresh))
  BY <1>11 DEF Private, ImagePages, NoImage
<1>13. Booting' = Booting /\ CBoot' = CBoot /\ user_task_enabled' = user_task_enabled /\ Running' = Running
  BY <1>7 DEF Booting, CBoot, user_task_enabled, Running
<1>14. RoomInv'
  <2>1. CASE CBoot
    <3>1. Len(freeList') >= config.pages - 2
      BY <1>2, <1>3, <1>4, <1>8, <2>1
    <3> QED
      BY <1>7, <1>13, <2>1, <3>1 DEF RoomInv, Room
  <2>2. CASE ~CBoot /\ Booting
    <3>1. Len(freeList') >= config.pages - (5 + WindowSize)
      BY <1>2, <1>3, <1>4, <1>8, <2>2 DEF Running
    <3>2. ImageSize(fresh') = WindowSize
      BY <1>10, <1>12, <2>2 DEF ImageSize
    <3> QED
      BY <1>1, <1>7, <1>13, <2>2, <3>1, <3>2 DEF RoomInv, Room
  <2>3. CASE ~CBoot /\ ~Booting
    <3>1. Len(freeList') >= config.pages - (11 + WindowSize)
      BY <1>2, <1>3, <1>4, <1>8, <2>3 DEF Running
    <3> QED
      BY <1>7, <2>3, <3>1 DEF RoomInv, Room
  <2> QED
    BY <2>1, <2>2, <2>3
<1>15. OrderInv'
  BY <1>7, <1>10, <1>12, <1>13 DEF OrderInv
<1>16. ApartInv'
  BY <1>1, <1>7, <1>10, <1>12, <1>13 DEF ApartInv, KernelStacks, Kind
<1>17. PartsInv'
  BY <1>7 DEF PartsInv
<1>18. BytesInv'
  <2>1. \A x \in Pages : x \notin {p} => holds'[x] = holds[x]
    BY <1>1, <1>7 DEF TypeOK
  <2>2. \A x \in ImagePages(fresh) : holds'[x] = holds[x]
    BY <1>9, <2>1, ImagesStay
  <2>3. Booting => ImagePages(boot) = {}
    <3>1. Booting => NoImage(boot)
      BY <1>1 DEF Stages, FullInv, NoImage, NoBootstrap
    <3> QED
      BY <3>1, ImageShape
  <2>4. \A x \in ImagePages(fresh) : holds'[x] = fresh'.prog
    BY <1>1, <1>11, <2>2 DEF BytesInv
  <2> QED
    BY <1>7, <1>12, <2>3, <2>4 DEF BytesInv
<1>19. FailInv'
  BY <1>7 DEF FailInv
<1> QED
  BY <1>1, <1>7, <1>14, <1>15, <1>16, <1>17, <1>18, <1>19 DEF AInv

(* How much a release makes the list longer, and what it leaves in front. *)
LEMMA PushFacts ==
  ASSUME NEW list \in Seq(Pages), NEW p \in 0..NumPages
  PROVE  /\ palloc_free(list, p) \in Seq(Pages) /\ Len(list) \in Nat
         /\ Len(palloc_free(list, p)) = Len(list) + (IF p = Null THEN 0 ELSE 1)
         /\ p # Null => palloc_free(list, p)[1] = p
<1>1. Len(list) \in Nat
  BY LenProperties
<1>2. CASE p = Null
  BY <1>1, <1>2 DEF palloc_free
<1>3. CASE p # Null
  <2>1. p \in Pages
    BY <1>3, ConstantsAssumption DEF Pages, Null
  <2>2. <<p>> \in Seq(Pages) /\ Len(<<p>>) = 1 /\ <<p>>[1] = p
    BY <2>1
  <2>3. palloc_free(list, p) = <<p>> \o list
    BY <1>3 DEF palloc_free
  <2> QED
    BY <1>1, <1>3, <2>2, <2>3, ConcatProperties
<1> QED
  BY <1>2, <1>3

LEMMA RangeLength ==
  ASSUME NEW list \in Seq(Pages), NEW b \in Nat, NEW e \in Nat, b <= e, b..(e - 1) \subseteq Pages
  PROVE  Len(FreeRangeExcept(list, b, e, b, b)) = Len(list) + (e - b)
<1>1. /\ Descending(b, e) \in Seq(b..(e - 1)) /\ Len(Descending(b, e)) = e - b
      /\ Descending(b, b) \in Seq(b..(b - 1)) /\ Len(Descending(b, b)) = 0
  <2>1. b \in Int /\ e \in Int
    OBVIOUS
  <2>2. /\ Descending(b, e) \in Seq(b..(e - 1))
        /\ Len(Descending(b, e)) = IF b < e THEN e - b ELSE 0
    BY ONLY <2>1, DescendingFacts
  <2>3. /\ Descending(b, b) \in Seq(b..(b - 1))
        /\ Len(Descending(b, b)) = IF b < b THEN b - b ELSE 0
    BY ONLY <2>1, DescendingFacts
  <2>4. (IF b < e THEN e - b ELSE 0) = e - b /\ (IF b < b THEN b - b ELSE 0) = 0
    OBVIOUS
  <2> QED
    BY ONLY <2>2, <2>3, <2>4
<1>2. PICK d, n, S, T : d = Descending(b, e) /\ n = Descending(b, b) /\ S = b..(e - 1) /\ T = b..(b - 1)
  OBVIOUS
<1>3. d \in Seq(S) /\ n \in Seq(T) /\ S \subseteq Pages /\ T \subseteq Pages
  BY <1>1, <1>2
<1>4. d \in Seq(Pages) /\ n \in Seq(Pages) /\ Len(d) = e - b /\ Len(n) = 0
  BY <1>1, <1>2, <1>3, SeqMonotonic
<1>5. d \o n \in Seq(Pages) /\ Len(d \o n) = Len(d) + Len(n)
  BY ONLY <1>4, ConcatProperties
<1>6. Len((d \o n) \o list) = Len(d \o n) + Len(list) /\ Len(list) \in Nat
  BY ONLY <1>5, list \in Seq(Pages), ConcatProperties, LenProperties
<1>7. FreeRangeExcept(list, b, e, b, b) = (d \o n) \o list
  BY <1>2 DEF FreeRangeExcept
<1> QED
  BY ONLY <1>4, <1>5, <1>6, <1>7, b \in Nat, e \in Nat

LEMMA SpaceLength ==
  ASSUME NEW list \in Seq(Pages), NEW b \in Bootstrap, b.pml4 # Null, NoTables(b) \/ AllTables(b)
  PROVE  /\ Len(FreeSpace(list, b)) = Len(list) + (IF b.pt = Null THEN 1 ELSE 4)
         /\ FreeSpace(list, b)[1] = b.pml4 /\ Len(list) \in Nat
<1>1. /\ b.pt \in 0..NumPages /\ b.pd \in 0..NumPages
      /\ b.pdpt \in 0..NumPages /\ b.pml4 \in 0..NumPages
  BY DEF Bootstrap
<1> DEFINE l1 == palloc_free(list, b.pt)
           l2 == palloc_free(l1, b.pd)
           l3 == palloc_free(l2, b.pdpt)
           l4 == palloc_free(l3, b.pml4)
<1>2. l4 = FreeSpace(list, b)
  BY DEF FreeSpace
<1>3. l1 \in Seq(Pages) /\ Len(list) \in Nat /\ Len(l1) = Len(list) + (IF b.pt = Null THEN 0 ELSE 1)
  BY <1>1, PushFacts
<1> HIDE DEF l1
<1>4. l2 \in Seq(Pages) /\ Len(l2) = Len(l1) + (IF b.pd = Null THEN 0 ELSE 1)
  BY <1>1, <1>3, PushFacts
<1> HIDE DEF l2
<1>5. l3 \in Seq(Pages) /\ Len(l3) = Len(l2) + (IF b.pdpt = Null THEN 0 ELSE 1)
  BY <1>1, <1>4, PushFacts
<1> HIDE DEF l3
<1>6. Len(l4) = Len(l3) + 1 /\ l4[1] = b.pml4
  BY <1>1, <1>5, PushFacts
<1> HIDE DEF l4
<1>7. Len(l4) = Len(list) + (IF b.pt = Null THEN 1 ELSE 4)
  <2>1. PICK n, n1, n2, n3, n4 :
          n = Len(list) /\ n1 = Len(l1) /\ n2 = Len(l2) /\ n3 = Len(l3) /\ n4 = Len(l4)
    OBVIOUS
  <2>2. CASE NoTables(b)
    <3>1. b.pt = Null /\ b.pd = Null /\ b.pdpt = Null
      BY <2>2 DEF NoTables
    <3> QED
      BY <1>3, <1>4, <1>5, <1>6, <2>1, <3>1
  <2>3. CASE AllTables(b)
    <3>1. b.pt # Null /\ b.pd # Null /\ b.pdpt # Null
      BY <2>3 DEF AllTables
    <3> QED
      BY <1>3, <1>4, <1>5, <1>6, <2>1, <3>1
  <2> QED
    BY <2>2, <2>3
<1> QED
  BY <1>2, <1>3, <1>6, <1>7

(* A refused exec gives everything back.  Its image goes first, so that    *)
(* the tables that follow lie in front of it.                              *)
LEMMA UnloadImageAmple ==
  ASSUME SpansAgree, WindowIsLow, Ample, OInv, AInv, UnloadImage
  PROVE  AInv'
<1>1. /\ pc = "unload" /\ user_task_enabled /\ state[1] # "DONE" /\ RoomInv /\ OrderInv /\ ApartInv
      /\ BytesInv /\ FailInv /\ TypeOK /\ IInv /\ Stages /\ Owned /\ Full(fresh)
      /\ HasImage(fresh) /\ NoImage(boot) /\ config.refuse
  <2>1. pc = "unload" /\ pc \in Exec
    BY DEF UnloadImage, Exec, Building
  <2>2. HasImage(fresh) /\ NoImage(boot) /\ config.refuse
    BY <2>1 DEF OInv, Stages, StageInv, RefuseInv
  <2>3. Full(fresh)
    BY <2>1, AliveFacts DEF PartsInv
  <2> QED
    BY <2>1, <2>2, <2>3, AliveFacts
<1>2. /\ config.pages \in Nat /\ WindowSize \in Nat /\ LoadBase \in Nat /\ WindowEnd \in Nat
      /\ WindowSize = WindowEnd - LoadBase /\ Window \subseteq Pages
  BY <1>1, AmpleFacts
<1>3. /\ UNCHANGED <<state, rsp, boot, started, config, target, old>>
      /\ freeList' = FreeRangeExcept(palloc_free(freeList, fresh.stack),
                                     fresh.begin, fresh.end, fresh.begin, fresh.begin)
      /\ fresh' = [fresh EXCEPT !.stack = Null, !.begin = Null, !.end = Null, !.prog = NoProgram]
      /\ pc' = "drop_space"
  BY DEF UnloadImage, schedule, request
<1>4. /\ fresh'.stack = Null /\ fresh'.pml4 = fresh.pml4 /\ fresh'.pdpt = fresh.pdpt
      /\ fresh'.pd = fresh.pd /\ fresh'.pt = fresh.pt
  BY <1>1, <1>3 DEF TypeOK, Bootstrap
<1>5. Booting' = Booting /\ user_task_enabled' = user_task_enabled
  BY <1>3 DEF Booting, user_task_enabled
<1>6. Len(freeList) \in Nat /\ Len(freeList') = Len(freeList) + 1 + WindowSize
  <2>1. freeList \in Seq(Pages) /\ fresh.stack \in 0..NumPages /\ fresh.stack # Null
    BY <1>1 DEF TypeOK, Bootstrap, Full
  <2>2. PICK list : list = palloc_free(freeList, fresh.stack)
    OBVIOUS
  <2>3. list \in Seq(Pages) /\ Len(freeList) \in Nat /\ Len(list) = Len(freeList) + 1
    BY <2>1, <2>2, PushFacts
  <2>4. freeList' = FreeRangeExcept(list, LoadBase, WindowEnd, LoadBase, LoadBase)
    BY <1>1, <1>3, <2>2 DEF HasImage
  <2>5. Len(freeList') = Len(list) + (WindowEnd - LoadBase)
    <3>1. LoadBase <= WindowEnd /\ LoadBase..(WindowEnd - 1) \subseteq Pages
      BY <1>2 DEF Window
    <3> QED
      BY ONLY <1>2, <2>3, <2>4, <3>1, RangeLength
  <2> QED
    BY <1>2, <2>3, <2>5
<1>7. RoomInv'
  <2>1. Len(freeList) >= config.pages - (11 + WindowSize)
    BY <1>1 DEF RoomInv, Room
  <2>2. Len(freeList') >= config.pages - 10
    BY <1>2, <1>6, <2>1
  <2>3. ImageSize(boot') = 0 /\ fresh'.pt # Null
    BY <1>1, <1>3, <1>4 DEF ImageSize, NoImage, Full, AllTables
  <2> QED
    BY <1>3, <2>2, <2>3 DEF RoomInv, Room
<1>8. OrderInv'
  BY <1>3, <1>5 DEF OrderInv
<1>9. ApartInv'
  <2>1. Private(fresh') \subseteq Private(fresh)
    BY <1>4 DEF Private
  <2> QED
    BY <1>1, <1>3, <1>5, <2>1 DEF ApartInv, KernelStacks, Kind
<1>10. PartsInv'
  BY <1>1, <1>3, <1>4 DEF PartsInv, Full, AllTables
<1>11. BytesInv'
  BY <1>1, <1>3, ImageShape DEF BytesInv
<1>12. FailInv'
  BY <1>1, <1>3 DEF FailInv
<1> QED
  BY <1>1, <1>3, <1>7, <1>8, <1>9, <1>10, <1>11, <1>12 DEF AInv

LEMMA DropSpaceAmple ==
  ASSUME SpansAgree, WindowIsLow, Ample, OInv, AInv, DropSpace
  PROVE  AInv'
<1>1. /\ pc = "drop_space" /\ user_task_enabled /\ state[1] # "DONE" /\ RoomInv /\ OrderInv /\ ApartInv
      /\ BytesInv /\ FailInv /\ PartsInv /\ TypeOK /\ IInv /\ Stages /\ Owned
  <2>1. pc = "drop_space" /\ pc \in Exec
    BY DEF DropSpace, Exec, Building
  <2> QED
    BY <2>1, AliveFacts
<1>2. config.pages \in Nat /\ WindowSize \in Nat
  BY <1>1, AmpleFacts
<1>3. /\ UNCHANGED <<state, rsp, boot, started, config, target, old>>
      /\ freeList' = FreeSpace(freeList, fresh) /\ holds' = Unloaded(Tables(fresh))
      /\ fresh' = NoBootstrap /\ pc' = "running"
  BY DEF DropSpace, schedule, request
<1>4. /\ Len(freeList') = Len(freeList) + (IF fresh.pt = Null THEN 1 ELSE 4)
      /\ freeList'[1] = fresh.pml4 /\ Len(freeList) \in Nat /\ fresh.pml4 # Null
  <2>1. freeList \in Seq(Pages) /\ fresh \in Bootstrap /\ fresh.pml4 # Null
    BY <1>1 DEF TypeOK, IInv, Control, FreshInv, Exec, Building
  <2> QED
    BY <1>1, <1>3, <2>1, SpaceLength DEF PartsInv
<1>5. Booting' = Booting /\ user_task_enabled' = user_task_enabled
  BY <1>3 DEF Booting, user_task_enabled
<1>6. RoomInv'
  <2>1. Len(freeList) >= config.pages - (6 + ImageSize(boot) + IF fresh.pt = Null THEN 1 ELSE 4)
    BY <1>1 DEF RoomInv, Room
  <2>2. Len(freeList') >= config.pages - (6 + ImageSize(boot))
    BY <1>2, <1>4, <2>1 DEF ImageSize
  <2> QED
    BY <1>3, <2>2 DEF RoomInv, Room, ImageSize, NoImage
<1>7. OrderInv'
  <2>1. fresh.pml4 \notin Window
    BY <1>1, <1>4 DEF ApartInv, Private
  <2>2. Above(1)'
    BY <1>4, <2>1 DEF Above
  <2> QED
    BY <1>3, <1>5, <2>2 DEF OrderInv
<1>8. ApartInv'
  BY <1>1, <1>3, <1>5, EmptyBootstrap DEF ApartInv, KernelStacks, Kind
<1>9. PartsInv'
  BY <1>3 DEF PartsInv
<1>10. BytesInv'
  <2>1. \A x \in Pages : x \notin Tables(fresh) => holds'[x] = holds[x]
    BY <1>3 DEF Unloaded
  <2>2. Tables(fresh) \subseteq Private(fresh) \cup {Null}
    BY DEF Tables, Private
  <2>3. \A x \in ImagePages(boot) : holds'[x] = holds[x]
    BY <2>1, <2>2, ImagesStay
  <2> QED
    BY <1>1, <1>3, <2>3 DEF BytesInv
<1>11. FailInv'
  BY <1>3 DEF FailInv
<1> QED
  BY <1>1, <1>3, <1>6, <1>7, <1>8, <1>9, <1>10, <1>11 DEF AInv

(* The release after an exec finds the tables and the stack of the caller, *)
(* whose image its successor has taken over.                               *)
LEMMA ReleaseImageAmple ==
  ASSUME SpansAgree, WindowIsLow, Ample, OInv, AInv, ReleaseImage
  PROVE  AInv'
<1>1. PICK lo, hi \in old.begin..old.end :
        /\ lo <= hi
        /\ freeList' = FreeRangeExcept(palloc_free(freeList, old.stack), old.begin, old.end, lo, hi)
        /\ holds' = Unloaded((ImagePages(old) \ (lo..(hi - 1))) \cup {old.stack})
  BY DEF ReleaseImage
<1>2. /\ pc = "release_image" /\ pc' = "release_space"
      /\ old' = [old EXCEPT !.stack = Null, !.begin = Null, !.end = Null, !.prog = NoProgram]
      /\ UNCHANGED <<state, rsp, boot, started, config, target, fresh>>
  BY DEF ReleaseImage, schedule, request
<1>3. TypeOK /\ Stages /\ BytesInv /\ FailInv
  BY DEF OInv, IInv, AInv
<1>4. FailInv'
  BY <1>2 DEF FailInv
<1>5. CASE state[1] = "DONE"
  <2>1. NoImage(boot) /\ NoImage(boot)'
    BY <1>2, <1>5 DEF AInv, NoImage
  <2>2. ImagePages(boot') = {}
    BY <2>1, ImageShape DEF NoImage
  <2>3. BytesInv'
    BY <1>2, <2>2 DEF BytesInv
  <2> QED
    BY <1>2, <1>4, <1>5, <2>1, <2>3 DEF AInv
<1>6. CASE state[1] # "DONE"
  <2>1. /\ RoomInv /\ ApartInv /\ Full(old) /\ HasImage(boot) /\ NoImage(old)
    BY <1>2, <1>3, <1>6 DEF AInv, PartsInv, Stages, StageInv
  <2>2. old.begin = 0 /\ old.end = 0 /\ lo = 0 /\ hi = 0
    BY <1>1, <2>1 DEF NoImage, Null
  <2>3. old.stack \in 0..NumPages /\ old.stack # Null /\ freeList \in Seq(Pages)
    BY <1>3, <2>1 DEF TypeOK, Bootstrap, Full
  <2>4. PICK list : list = palloc_free(freeList, old.stack)
    OBVIOUS
  <2>5. list \in Seq(Pages) /\ Len(freeList) \in Nat /\ Len(list) = Len(freeList) + 1
    BY <2>3, <2>4, PushFacts
  <2>6. Len(freeList') = Len(freeList) + 1
    <3>1. freeList' = FreeRangeExcept(list, 0, 0, 0, 0)
      BY <1>1, <2>2, <2>4
    <3>2. 0..(0 - 1) \subseteq Pages /\ 0 \in Nat /\ 0 <= 0
      OBVIOUS
    <3>3. Len(FreeRangeExcept(list, 0, 0, 0, 0)) = Len(list) + (0 - 0)
      BY ONLY <2>5, <3>2, RangeLength
    <3> QED
      BY <2>5, <3>1, <3>3
  <2>7. config.pages \in Nat /\ WindowSize \in Nat
    BY <1>3, AmpleFacts
  <2>8. Len(freeList') >= config.pages - (10 + WindowSize)
    <3>1. Len(freeList) >= config.pages - (11 + WindowSize)
      BY <1>2, <2>1 DEF RoomInv, Room
    <3> QED
      BY <2>5, <2>6, <2>7, <3>1
  <2>9. /\ old'.stack = Null /\ old'.pml4 = old.pml4 /\ old'.pdpt = old.pdpt
        /\ old'.pd = old.pd /\ old'.pt = old.pt
    BY <1>2, <1>3 DEF TypeOK, Bootstrap
  <2>10. Booting' = Booting /\ user_task_enabled' = user_task_enabled
    BY <1>2 DEF Booting, user_task_enabled
  <2>11. RoomInv'
    BY <1>2, <2>8 DEF RoomInv, Room
  <2>12. OrderInv'
    BY <1>2 DEF OrderInv, CBoot
  <2>13. ApartInv'
    <3>1. Private(old') \subseteq Private(old)
      BY <2>9 DEF Private
    <3> QED
      BY <1>2, <2>1, <2>10, <3>1 DEF ApartInv, KernelStacks, Kind
  <2>14. PartsInv'
    BY <1>2, <2>1, <2>9 DEF PartsInv, Full, AllTables, HasImage
  <2>15. BytesInv'
    <3>1. ImagePages(old) = {}
      BY <2>1, ImageShape
    <3>2. \A x \in Pages : x \notin {old.stack} => holds'[x] = holds[x]
      BY <1>1, <3>1 DEF Unloaded
    <3>3. old.stack \in Private(old)
      BY <2>3 DEF Private
    <3>4. \A x \in ImagePages(boot) : holds'[x] = holds[x]
      BY <3>2, <3>3, ImagesStay
    <3> QED
      BY <1>2, <1>3, <3>4 DEF BytesInv
  <2> QED
    BY <1>2, <1>4, <1>6, <2>11, <2>12, <2>13, <2>14, <2>15 DEF AInv
<1> QED
  BY <1>5, <1>6

LEMMA ReleaseSpaceAmple ==
  ASSUME SpansAgree, WindowIsLow, Ample, OInv, AInv, ReleaseSpace
  PROVE  AInv'
<1>1. /\ pc = "release_space" /\ pc' = "running" /\ old' = NoBootstrap
      /\ freeList' = FreeSpace(freeList, old) /\ holds' = Unloaded(Tables(old))
      /\ UNCHANGED <<state, rsp, boot, started, config, target, fresh>>
  BY DEF ReleaseSpace, schedule, request
<1>2. TypeOK /\ Stages /\ BytesInv /\ FailInv
  BY DEF OInv, IInv, AInv
<1>3. FailInv'
  BY <1>1 DEF FailInv
<1>4. BytesInv'
  <2>1. \A x \in Pages : x \notin Tables(old) => holds'[x] = holds[x]
    BY <1>1 DEF Unloaded
  <2>2. Tables(old) \subseteq Private(old) \cup {Null}
    BY DEF Tables, Private
  <2>3. \A x \in ImagePages(boot) : holds'[x] = holds[x]
    BY <2>1, <2>2, ImagesStay
  <2> QED
    BY <1>1, <1>2, <2>3 DEF BytesInv
<1>5. CASE state[1] = "DONE"
  BY <1>1, <1>3, <1>4, <1>5 DEF AInv, NoImage
<1>6. CASE state[1] # "DONE"
  <2>1. /\ RoomInv /\ ApartInv /\ AllTables(old) /\ HasImage(boot)
    BY <1>1, <1>6 DEF AInv, PartsInv
  <2>2. /\ config.pages \in Nat /\ WindowSize \in Nat /\ LoadBase >= 1 /\ LoadBase \in Nat
    BY <1>2, AmpleFacts
  <2>3. Len(freeList') = Len(freeList) + 4 /\ Len(freeList) \in Nat
    <3>1. freeList \in Seq(Pages) /\ old \in Bootstrap /\ old.pml4 # Null /\ old.pt # Null
      BY <1>2, <2>1 DEF TypeOK, AllTables
    <3>2. Len(FreeSpace(freeList, old)) = Len(freeList) + (IF old.pt = Null THEN 1 ELSE 4)
          /\ Len(freeList) \in Nat
      BY <2>1, <3>1, SpaceLength
    <3> QED
      BY <1>1, <3>1, <3>2
  <2>4. Len(freeList') >= config.pages - (6 + WindowSize)
    <3>1. Len(freeList) >= config.pages - (10 + WindowSize)
      BY <1>1, <2>1 DEF RoomInv, Room
    <3> QED
      BY <2>2, <2>3, <3>1
  <2>5. ~NoImage(boot') /\ ImageSize(boot') = WindowSize
    BY <1>1, <2>1, <2>2 DEF NoImage, HasImage, ImageSize, Null
  <2>6. Booting' = Booting /\ user_task_enabled' = user_task_enabled
    BY <1>1 DEF Booting, user_task_enabled
  <2>7. RoomInv'
    BY <1>1, <2>4, <2>5 DEF RoomInv, Room, ImageSize, NoImage
  <2>8. OrderInv'
    BY <1>1, <2>5 DEF OrderInv, NoImage
  <2>9. ApartInv'
    BY <1>1, <2>1, <2>6, EmptyBootstrap DEF ApartInv, KernelStacks, Kind
  <2>10. PartsInv'
    BY <1>1 DEF PartsInv
  <2> QED
    BY <1>1, <1>3, <1>4, <1>6, <2>7, <2>8, <2>9, <2>10 DEF AInv
<1> QED
  BY <1>5, <1>6

(* sched_initialize: the idle stack is the last page that is allocated     *)
(* before the first exec.                                                  *)
LEMMA CreateIdleTaskAmple ==
  ASSUME SpansAgree, WindowIsLow, Ample, OInv, AInv, CreateIdleTask
  PROVE  AInv' /\ pc' # "halted"
<1>1. /\ pc = "init0" /\ Booting /\ state[1] # "DONE" /\ RoomInv /\ OrderInv /\ ApartInv
      /\ BytesInv /\ FailInv /\ TypeOK /\ IInv /\ Stages /\ Owned
  <2>1. pc = "init0" /\ pc \in Exec \cup {"init0", "init1"}
    BY DEF CreateIdleTask
  <2>2. Booting
    BY <2>1 DEF OInv, IInv, Control, BootInv
  <2> QED
    BY <2>1, <2>2, AliveFacts
<1>2. config.pages \in Nat /\ WindowSize \in Nat /\ config.pages >= 11 + WindowSize
  BY <1>1, AmpleFacts
<1>3. PICK used : used = IF user_task_enabled THEN 5 + ImageSize(fresh) ELSE 0
  OBVIOUS
<1>4. used \in Nat /\ used <= 5 + WindowSize /\ Len(freeList) >= config.pages - used
  BY <1>1, <1>2, <1>3 DEF RoomInv, Room, ImageSize
<1>5. freeList # <<>>
  BY <1>2, <1>4
<1>6. PICK p : p = palloc_alloc(freeList)
  OBVIOUS
<1>7. /\ rsp' = [rsp EXCEPT ![0] = p] /\ state' = [state EXCEPT ![0] = "RUNNABLE"]
      /\ freeList' = AfterAlloc(freeList) /\ holds' = [holds EXCEPT ![p] = NoProgram]
      /\ pc' = "init1" /\ UNCHANGED <<boot, started, config, target, fresh, old>>
  BY <1>5, <1>6 DEF CreateIdleTask, task_create_kernel, request
<1>8. Len(freeList) \in Nat /\ Len(freeList) >= 1 /\ Len(freeList') = Len(freeList) - 1
  BY <1>1, <1>5, <1>7, PopFacts
<1>9. p \in Free /\ p # Null
  BY <1>5, <1>6, <1>7, AllocOwned
<1>10. state'[1] = state[1] /\ rsp'[0] = p /\ rsp'[1] = rsp[1]
  BY <1>1, <1>7 DEF TypeOK, Tasks
<1>11. user_task_enabled' = user_task_enabled
  BY <1>7 DEF user_task_enabled
<1>12. user_task_enabled => p \notin Window /\ (NoImage(fresh) => Above(1)')
  <2>1. CASE NoImage(fresh) /\ user_task_enabled
    <3>1. Above(1 + 1)
      BY <1>1, <2>1 DEF OrderInv
    <3> QED
      BY <1>1, <1>5, <1>6, <1>7, <3>1, AboveAfter
  <2>2. CASE HasImage(fresh)
    <3>1. LoadBase # Null
      BY <1>1, AmpleFacts DEF Null
    <3>2. Window \cap Free = {}
      BY <1>1, <2>2, WindowInUse
    <3> QED
      BY <1>9, <2>2, <3>1, <3>2 DEF HasImage, NoImage
  <2> QED
    BY <1>1, <2>1, <2>2 DEF Stages, ShapeInv
<1>13. user_task_enabled => KernelStacks' \subseteq {p}
  BY <1>10, <1>11, KernelStacksAre
<1>14. RoomInv'
  <2>1. Len(freeList') >= config.pages - (used + 1)
    BY <1>2, <1>4, <1>8
  <2>2. CASE user_task_enabled
    <3>1. used + 1 = 6 + ImageSize(fresh)
      BY <1>2, <1>3, <2>2 DEF ImageSize
    <3> QED
      BY <1>7, <1>11, <2>1, <2>2, <3>1 DEF RoomInv, Room, ImageSize, NoImage
  <2>3. CASE ~user_task_enabled
    <3>1. used + 1 = 1
      BY <1>3, <2>3
    <3> QED
      BY <1>7, <1>11, <2>1, <2>3, <3>1 DEF RoomInv, Room
  <2> QED
    BY <2>2, <2>3
<1>15. OrderInv'
  BY <1>7, <1>11, <1>12 DEF OrderInv, CBoot, NoImage
<1>16. ApartInv'
  BY <1>1, <1>7, <1>11, <1>12, <1>13 DEF ApartInv
<1>17. PartsInv'
  BY <1>7 DEF PartsInv
<1>18. BytesInv'
  <2>1. \A x \in Pages : x \notin {p} => holds'[x] = holds[x]
    BY <1>1, <1>7 DEF TypeOK
  <2>2. /\ \A x \in ImagePages(boot) : holds'[x] = holds[x]
        /\ \A x \in ImagePages(fresh) : holds'[x] = holds[x]
    BY <1>9, <2>1, ImagesStay
  <2> QED
    BY <1>1, <1>7, <2>2 DEF BytesInv
<1>19. FailInv'
  BY <1>7 DEF FailInv
<1> QED
  BY <1>1, <1>7, <1>10, <1>14, <1>15, <1>16, <1>17, <1>18, <1>19 DEF AInv

LEMMA CreateWorkerTaskAmple ==
  ASSUME SpansAgree, WindowIsLow, Ample, OInv, AInv, CreateWorkerTask
  PROVE  AInv' /\ pc' # "halted"
<1>1. /\ pc = "init1" /\ ~user_task_enabled /\ RoomInv /\ BytesInv /\ TypeOK
      /\ task_create_kernel(1, "running")
  <2>1. pc = "init1" /\ pc \in Exec \cup {"init0", "init1"}
    BY DEF CreateWorkerTask
  <2> QED
    BY <2>1, AliveFacts DEF CreateWorkerTask
<1>2. config.pages \in Nat /\ WindowSize \in Nat /\ config.pages >= 11 + WindowSize
  BY <1>1, AmpleFacts
<1>3. freeList # <<>>
  BY <1>1, <1>2 DEF RoomInv, Room
<1>4. PICK p : p = palloc_alloc(freeList)
  OBVIOUS
<1>5. /\ state' = [state EXCEPT ![1] = "RUNNABLE"]
      /\ freeList' = AfterAlloc(freeList) /\ holds' = [holds EXCEPT ![p] = NoProgram]
      /\ pc' = "running" /\ UNCHANGED <<boot, config>>
  BY <1>1, <1>3, <1>4 DEF task_create_kernel, request
<1>6. p \in Free
  BY <1>3, <1>4, <1>5, AllocOwned
<1>7. state'[1] # "DONE" /\ ~user_task_enabled'
  BY <1>1, <1>5 DEF TypeOK, Tasks, user_task_enabled
<1>8. RoomInv' /\ OrderInv' /\ ApartInv' /\ PartsInv' /\ FailInv'
  BY <1>5, <1>7 DEF RoomInv, OrderInv, CBoot, ApartInv, PartsInv, FailInv
<1>9. BytesInv'
  <2>1. \A x \in Pages : x \notin {p} => holds'[x] = holds[x]
    BY <1>1, <1>5 DEF TypeOK
  <2>2. \A x \in ImagePages(boot) : holds'[x] = holds[x]
    BY <1>6, <2>1, ImagesStay
  <2> QED
    BY <1>1, <1>5, <2>2 DEF BytesInv
<1> QED
  BY <1>5, <1>7, <1>8, <1>9 DEF AInv

LEMMA CreateUserTaskAmple ==
  ASSUME SpansAgree, WindowIsLow, Ample, OInv, AInv, CreateUserTask
  PROVE  AInv'
<1>1. /\ pc = "init1" /\ user_task_enabled /\ RoomInv /\ OrderInv /\ ApartInv /\ BytesInv /\ TypeOK
  <2>1. pc = "init1" /\ pc \in Exec \cup {"init0", "init1"}
    BY DEF CreateUserTask
  <2> QED
    BY <2>1, AliveFacts DEF CreateUserTask
<1>2. /\ rsp' = [rsp EXCEPT ![1] = fresh.stack] /\ state' = [state EXCEPT ![1] = "RUNNABLE"]
      /\ boot' = fresh /\ fresh' = NoBootstrap /\ pc' = "running"
      /\ UNCHANGED <<freeList, holds, started, config, target, old>>
  BY DEF CreateUserTask, task_build_user_stack, memory, request
<1>3. state'[1] = "RUNNABLE" /\ rsp'[0] = rsp[0] /\ user_task_enabled'
  BY <1>1, <1>2 DEF TypeOK, Tasks, user_task_enabled
<1>4. KernelStacks' = {rsp'[0]} \ {Null} /\ KernelStacks = {rsp[0]} \ {Null}
  BY <1>1, <1>3, KernelStacksAre
<1>5. RoomInv'
  BY <1>1, <1>2 DEF RoomInv, Room, ImageSize, NoImage
<1>6. OrderInv'
  BY <1>1, <1>2 DEF OrderInv, CBoot, NoImage, Above
<1>7. ApartInv'
  BY <1>1, <1>2, <1>3, <1>4, EmptyBootstrap DEF ApartInv
<1>8. BytesInv'
  BY <1>1, <1>2 DEF BytesInv
<1>9. PartsInv' /\ FailInv'
  BY <1>2 DEF PartsInv, FailInv
<1> QED
  BY <1>3, <1>5, <1>6, <1>7, <1>8, <1>9 DEF AInv

(* sched_exec_current. *)
LEMMA TransferAmple ==
  ASSUME SpansAgree, WindowIsLow, Ample, OInv, AInv, Transfer
  PROVE  AInv'
<1>1. /\ pc = "transfer" /\ user_task_enabled /\ state[1] # "DONE" /\ RoomInv /\ OrderInv /\ ApartInv
      /\ BytesInv /\ FailInv /\ TypeOK /\ IInv /\ Stages /\ Owned
      /\ current = 1 /\ ~Booting /\ HasImage(fresh) /\ Full(fresh) /\ Full(boot) /\ old = NoBootstrap
  <2>1. pc = "transfer" /\ pc \in Exec
    BY DEF Transfer, Exec, Building
  <2>2. IInv /\ Stages
    BY DEF OInv
  <2>3. ~Booting /\ current = 1 /\ user_task_enabled /\ started
    BY <2>1, <2>2 DEF IInv, Control, BootInv, Building
  <2>4. HasImage(fresh) /\ Full(fresh) /\ old = NoBootstrap
    BY <2>1, <2>2 DEF Stages, StageInv, FullInv
  <2>5. Full(boot)
    BY <2>2, <2>3 DEF IInv, Control, RunInv, TaskInv, Stages, FullInv
  <2> QED
    BY <2>1, <2>3, <2>4, <2>5, AliveFacts
<1>2. UNCHANGED <<freeList, holds, config, target, state, started>>
  BY DEF Transfer, memory, request, schedule
<1>3. user_task_enabled'
  BY <1>1, <1>2 DEF user_task_enabled
<1>4. CASE config.refuse
  <2>1. pc' = "unload" /\ UNCHANGED <<rsp, boot, fresh, old>>
    BY <1>4 DEF Transfer, schedule
  <2>2. ImagePages(boot') = {}
    <3>1. NoImage(boot')
      BY <1>1, <1>4, <2>1 DEF Stages, RefuseInv
    <3> QED
      BY <3>1, ImageShape
  <2>3. RoomInv'
    BY <1>1, <1>2, <2>1 DEF RoomInv, Room
  <2>4. OrderInv'
    BY <2>1 DEF OrderInv, CBoot
  <2>5. ApartInv'
    BY <1>1, <1>2, <1>3, <2>1 DEF ApartInv, KernelStacks, Kind
  <2>6. PartsInv'
    BY <1>1, <2>1 DEF PartsInv
  <2>7. BytesInv'
    BY <2>1, <2>2 DEF BytesInv
  <2>8. FailInv'
    BY <2>1 DEF FailInv
  <2> QED
    BY <1>1, <1>2, <2>3, <2>4, <2>5, <2>6, <2>7, <2>8 DEF AInv
<1>5. CASE ~config.refuse
  <2>1. /\ old' = IF SameImage THEN [boot EXCEPT !.begin = Null, !.end = Null] ELSE boot
        /\ rsp' = [rsp EXCEPT ![1] = fresh.stack]
        /\ boot' = fresh /\ fresh' = NoBootstrap /\ pc' = "release_image"
    BY <1>1, <1>5 DEF Transfer, task_build_user_stack
  <2>2. /\ old'.stack = boot.stack /\ old'.pml4 = boot.pml4 /\ old'.pdpt = boot.pdpt
        /\ old'.pd = boot.pd /\ old'.pt = boot.pt
    BY <1>1, <2>1 DEF TypeOK, Bootstrap
  <2>3. Full(old') /\ Private(old') = Private(boot)
    BY <1>1, <2>2 DEF Full, AllTables, Private
  <2>4. KernelStacks' = KernelStacks
    <3>1. rsp'[0] = rsp[0]
      BY <1>1, <2>1 DEF TypeOK, Tasks
    <3>2. KernelStacks' = {rsp'[0]} \ {Null} /\ KernelStacks = {rsp[0]} \ {Null}
      BY <1>1, <1>3, KernelStacksAre
    <3> QED
      BY <3>1, <3>2
  <2>5. RoomInv'
    BY <1>1, <1>2, <2>1 DEF RoomInv, Room
  <2>6. OrderInv'
    BY <2>1 DEF OrderInv, CBoot
  <2>7. ApartInv'
    BY <1>1, <1>3, <2>1, <2>3, <2>4, EmptyBootstrap DEF ApartInv
  <2>8. PartsInv'
    BY <1>1, <2>1, <2>3 DEF PartsInv, HasImage
  <2>9. BytesInv'
    BY <1>1, <1>2, <2>1 DEF BytesInv
  <2>10. FailInv'
    BY <2>1 DEF FailInv
  <2> QED
    BY <1>1, <1>2, <2>5, <2>6, <2>7, <2>8, <2>9, <2>10 DEF AInv
<1> QED
  BY <1>4, <1>5

(* Ticks, faults and the entries of exec and exit allocate nothing. *)
LEMMA ScheduledAmple == ASSUME OInv, AInv, Scheduled PROVE AInv'
<1>1. /\ pc = "running" /\ pc' \in {"running", "halted"} /\ ~Booting /\ started'
      /\ UNCHANGED <<freeList, holds, boot, config, target, fresh, old>>
      /\ (state[1] = "DONE" <=> state'[1] = "DONE")
      /\ \A t \in Tasks : rsp'[t] = rsp[t] \/ Kind(t) = "USER"
  BY DEF Scheduled, memory, request
<1>2. user_task_enabled' = user_task_enabled
  BY <1>1 DEF user_task_enabled
<1>3. user_task_enabled => KernelStacks' = KernelStacks
  <2>1. rsp'[0] = rsp[0]
    BY <1>1 DEF Kind, Tasks
  <2> QED
    BY <1>2, <2>1, KernelStacksAre
<1>4. BytesInv' /\ FailInv'
  BY <1>1 DEF AInv, BytesInv, FailInv
<1>5. CASE state[1] = "DONE"
  BY <1>1, <1>4, <1>5 DEF AInv, NoImage
<1>6. CASE state[1] # "DONE"
  <2>1. RoomInv /\ OrderInv /\ ApartInv
    BY <1>6 DEF AInv
  <2>2. RoomInv'
    BY <1>1, <1>2, <2>1 DEF RoomInv, Room, ImageSize, NoImage
  <2>3. OrderInv'
    BY <1>1, <1>2, <2>1 DEF OrderInv, CBoot, NoImage, Above
  <2>4. ApartInv'
    BY <1>1, <1>2, <1>3, <2>1 DEF ApartInv
  <2>5. PartsInv'
    BY <1>1 DEF PartsInv
  <2> QED
    BY <1>1, <1>4, <1>6, <2>2, <2>3, <2>4, <2>5 DEF AInv
<1> QED
  BY <1>5, <1>6

LEMMA SyscallAmple ==
  ASSUME OInv, AInv, UserFault \/ \E prog \in Programs : SysExec(prog)
  PROVE  AInv'
<1>1. /\ pc = "running" /\ pc' \in {"create", "halted"} /\ started'
      /\ UNCHANGED <<freeList, holds, boot, config, fresh, old, state, rsp>>
  BY DEF UserFault, SysExec, InTask, memory, schedule, request
<1>2. /\ user_task_enabled' = user_task_enabled /\ KernelStacks' = KernelStacks /\ Booting' = Booting
  BY <1>1 DEF user_task_enabled, KernelStacks, Kind, Booting
<1>3. ~Booting /\ user_task_enabled
  <2>1. user_task_enabled
    BY DEF UserFault, SysExec, Kind
  <2> QED
    BY <1>1, <2>1 DEF OInv, IInv, Control, BootInv, Building
<1>4. BytesInv' /\ FailInv'
  BY <1>1 DEF AInv, BytesInv, FailInv
<1>5. CASE state[1] = "DONE"
  BY <1>1, <1>4, <1>5 DEF AInv, NoImage
<1>6. CASE state[1] # "DONE"
  <2>1. RoomInv /\ OrderInv /\ ApartInv
    BY <1>6 DEF AInv
  <2>2. RoomInv'
    BY <1>1, <1>2, <1>3, <2>1 DEF RoomInv, Room, ImageSize, NoImage, Running
  <2>3. OrderInv'
    BY <1>1, <1>2, <1>3, <2>1 DEF OrderInv, CBoot, NoImage, Above
  <2>4. ApartInv'
    BY <1>1, <1>2, <2>1 DEF ApartInv
  <2>5. PartsInv'
    BY <1>1 DEF PartsInv
  <2> QED
    BY <1>1, <1>4, <1>6, <2>2, <2>3, <2>4, <2>5 DEF AInv
<1> QED
  BY <1>5, <1>6

LEMMA ExitedAmple == ASSUME Exited PROVE AInv'
<1>1. pc' = "release_image" /\ state'[1] = "DONE" /\ boot' = NoBootstrap
  BY DEF Exited
<1>2. NoImage(boot') /\ ImagePages(boot') = {}
  BY <1>1, EmptyBootstrap DEF NoImage, NoBootstrap
<1> QED
  BY <1>1, <1>2 DEF AInv, BytesInv, FailInv, NoImage

(* The list that palloc_initialize leaves starts with the highest page. *)
LEMMA InitAmple ==
  ASSUME SpansAgree, WindowIsLow, Ample, Init
  PROVE  AInv
<1>1. TypeOK
  BY InitInv DEF IInv
<1>2. /\ config.pages \in Nat /\ LoadBase \in Nat /\ WindowEnd \in Nat /\ WindowEnd + 6 <= config.pages
  BY <1>1, AmpleFacts
<1>3. PICK n : n = config.pages
  OBVIOUS
<1>4. freeList = [i \in 1..n |-> (n + 1) - i]
  <2>1. freeList = Descending(1, n + 1)
    BY <1>3 DEF Init, palloc_initialize
  <2> QED
    BY <1>2, <1>3, <2>1 DEF Descending
<1>5. Len(freeList) = n
  BY <1>2, <1>3, <1>4
<1>6. Above(7)
  <2>1. ASSUME NEW i \in 1..7, i <= Len(freeList) PROVE freeList[i] \notin Window
    <3>1. i \in 1..n /\ freeList[i] = (n + 1) - i
      BY <1>2, <1>3, <1>4, <1>5, <2>1
    <3> QED
      BY <1>2, <1>3, <3>1 DEF Window
  <2> QED
    BY <2>1 DEF Above
<1>7. /\ boot = NoBootstrap /\ fresh = NoBootstrap /\ old = NoBootstrap
      /\ state[1] = "UNUSED" /\ Booting /\ rsp[0] = Null
      /\ pc = IF user_task_enabled THEN "create" ELSE "init0"
  BY DEF Init, Tasks, Booting
<1>8. NoImage(boot) /\ ImagePages(boot) = {} /\ ImagePages(fresh) = {}
  BY <1>7, EmptyBootstrap DEF NoImage, NoBootstrap
<1>9. RoomInv
  BY <1>2, <1>3, <1>5, <1>7, <1>8 DEF RoomInv, Room, Running, ImageSize
<1>10. OrderInv
  BY <1>6, <1>7 DEF OrderInv, Above
<1>11. ApartInv
  BY <1>7, EmptyBootstrap, KernelStacksAre DEF ApartInv
<1>12. PartsInv /\ FailInv /\ BytesInv
  BY <1>7, <1>8 DEF PartsInv, FailInv, BytesInv
<1> QED
  BY <1>7, <1>9, <1>10, <1>11, <1>12 DEF AInv

(* No step changes the build or the machine. *)
LEMMA ConfigStays == ASSUME [Next]_vars PROVE config' = config
<1>1. CASE CreateAddressSpace \/ ValidateImage \/ ClaimWindowPage \/ LoadSegments \/ MapUserPages
  BY <1>1 DEF CreateAddressSpace, ValidateImage, ClaimWindowPage, LoadSegments, MapUserPages, request
<1>2. CASE AllocUserStack \/ DropImage \/ DropSpace \/ UnloadImage \/ ReleaseImage \/ ReleaseSpace
  BY <1>2 DEF AllocUserStack, DropImage, DropSpace, UnloadImage, ReleaseImage, ReleaseSpace, request
<1>3. CASE CreateIdleTask \/ CreateUserTask \/ CreateWorkerTask
  BY <1>3 DEF CreateIdleTask, CreateUserTask, CreateWorkerTask, task_create_kernel, request
<1>4. CASE Transfer \/ Tick \/ Yield \/ SysExit
  BY <1>4 DEF Transfer, Tick, Yield, StartScheduler, Reschedule, SysExit, request
<1>5. CASE UserFault \/ (\E prog \in Programs : SysExec(prog)) \/ UNCHANGED vars
  BY <1>5 DEF UserFault, SysExec, request, vars
<1> QED
  BY <1>1, <1>2, <1>3, <1>4, <1>5 DEF Next, KernelStep

LEMMA NextAmple ==
  ASSUME SpansAgree, WindowIsLow, Ample, OInv, OInv', AInv, [Next]_vars
  PROVE  AInv'
<1>1. CASE CreateAddressSpace
  BY <1>1, CreateAddressSpaceAmple
<1>2. CASE ValidateImage
  BY <1>2, ValidateImageAmple
<1>3. CASE ClaimWindowPage
  BY <1>3, ClaimWindowPageAmple
<1>4. CASE LoadSegments
  BY <1>4, LoadSegmentsAmple
<1>5. CASE MapUserPages
  BY <1>5, MapUserPagesAmple
<1>6. CASE AllocUserStack
  BY <1>6, AllocUserStackAmple
<1>7. CASE DropImage
  BY <1>7 DEF DropImage, AInv, FailInv
<1>8. CASE UnloadImage
  BY <1>8, UnloadImageAmple
<1>9. CASE DropSpace
  BY <1>9, DropSpaceAmple
<1>10. CASE CreateIdleTask
  BY <1>10, CreateIdleTaskAmple
<1>11. CASE CreateUserTask
  BY <1>11, CreateUserTaskAmple
<1>12. CASE CreateWorkerTask
  BY <1>12, CreateWorkerTaskAmple
<1>13. CASE Transfer
  BY <1>13, TransferAmple
<1>14. CASE ReleaseImage
  BY <1>14, ReleaseImageAmple
<1>15. CASE ReleaseSpace
  BY <1>15, ReleaseSpaceAmple
<1>16. CASE Tick \/ Yield
  BY <1>16, TickSchedules, ScheduledAmple DEF OInv
<1>17. CASE UserFault \/ \E prog \in Programs : SysExec(prog)
  BY <1>17, SyscallAmple
<1>18. CASE SysExit
  BY <1>18, ExitLeaves, ExitedAmple DEF OInv
<1>19. CASE UNCHANGED vars
  <2>1. UNCHANGED <<config, freeList, holds, state, rsp, boot, started, pc, target, page, fresh, old>>
    BY <1>19 DEF vars
  <2>2. /\ user_task_enabled' = user_task_enabled /\ KernelStacks' = KernelStacks
        /\ Booting' = Booting /\ CBoot' = CBoot /\ Running' = Running
    BY <2>1 DEF user_task_enabled, KernelStacks, Kind, Booting, CBoot, Running
  <2>3. BytesInv' /\ FailInv' /\ (state[1] = "DONE" => NoImage(boot)')
    BY <2>1 DEF AInv, BytesInv, FailInv, NoImage
  <2>4. RoomInv => RoomInv'
    BY <2>1, <2>2 DEF RoomInv, Room, ImageSize, NoImage
  <2>5. OrderInv => OrderInv'
    BY <2>1, <2>2 DEF OrderInv, Above, NoImage
  <2>6. ApartInv /\ PartsInv => ApartInv' /\ PartsInv'
    BY <2>1, <2>2 DEF ApartInv, PartsInv, HasImage, NoTables, AllTables, Full
  <2> QED
    BY <2>1, <2>3, <2>4, <2>5, <2>6 DEF AInv
<1> QED
  BY <1>1, <1>2, <1>3, <1>4, <1>5, <1>6, <1>7, <1>8, <1>9, <1>10, <1>11, <1>12, <1>13, <1>14, <1>15,
     <1>16, <1>17, <1>18, <1>19 DEF Next, KernelStep

(* The invariant of ample memory holds along every behaviour.              *)
LEMMA AmpleInvariant ==
  ASSUME SpansAgree, RefusesAll, WindowIsLow PROVE Spec => [](Ample => AInv)
<1>1. Init => (Ample => AInv)
  BY InitAmple
<1>2. OInv /\ OInv' /\ (Ample => AInv) /\ [Next]_vars => (Ample => AInv)'
  <2> SUFFICES ASSUME OInv, OInv', Ample => AInv, [Next]_vars, Ample' PROVE AInv'
    OBVIOUS
  <2>1. Ample
    BY ConfigStays DEF Ample
  <2> QED
    BY <2>1, NextAmple
<1>3. Spec => []OInv
  BY OInvIsInvariant
<1> QED
  BY <1>1, <1>2, <1>3, PTL DEF Spec

(* With ample memory, on a machine whose loader window lies low enough, no *)
(* exec, refused or not, damages the image of its caller, however often    *)
(* programs replace each other: elf_load_user_image clears and copies over *)
(* pages of the caller only if they carry the caller's own program.        *)
THEOREM AmpleSuffices ==
  ASSUME SpansAgree, RefusesAll, WindowIsLow PROVE Spec => []AmpleMemorySuffices
<1>1. (Ample => AInv) => AmpleMemorySuffices
  BY DEF AInv, BytesInv, AmpleMemorySuffices, ImageIntact
<1> QED
  BY <1>1, AmpleInvariant, PTL

-----------------------------------------------------------------------------
(* How an exec ends *)

(* The image that is built, and that a release leaves running, is the one  *)
(* that was asked for, and its frame lies on its own stack.                *)
EntryInv ==
    /\ pc \in {"map", "stack", "transfer"} /\ ~CBoot => fresh.prog = target
    /\ pc \in {"release_image", "release_space"} /\ state[1] # "DONE" =>
         boot.prog = target /\ rsp[1] = boot.stack

LEMMA BuildEntry ==
  ASSUME OInv, EntryInv,
         CreateAddressSpace \/ LoadSegments \/ MapUserPages \/ AllocUserStack
  PROVE  EntryInv'
<1>1. fresh \in Bootstrap
  BY DEF OInv, IInv, TypeOK
<1>2. UNCHANGED <<config, state, target>>
  BY DEF CreateAddressSpace, LoadSegments, MapUserPages, AllocUserStack, schedule, request
<1>3. CBoot' = CBoot
  BY <1>2 DEF CBoot, Booting
<1>4. CASE CreateAddressSpace
  <2>1. pc' \in {"running", "halted", "validate"} \/ (pc' = "stack" /\ CBoot)
    BY <1>4 DEF CreateAddressSpace, FailTo
  <2> QED
    BY <1>3, <2>1 DEF EntryInv
<1>5. CASE LoadSegments
  <2>1. pc' = "map" /\ fresh'.prog = target
    BY <1>1, <1>5 DEF LoadSegments, Bootstrap
  <2> QED
    BY <1>2, <2>1 DEF EntryInv
<1>6. CASE MapUserPages
  <2>1. pc = "map" /\ (pc' \in {"halted", "init0"} \/ (pc' = "stack" /\ fresh'.prog = fresh.prog))
    BY <1>1, <1>6 DEF MapUserPages, WithTables, Bootstrap
  <2> QED
    BY <1>2, <1>3, <2>1 DEF EntryInv
<1>7. CASE AllocUserStack
  <2>1. pc = "stack" /\ (\/ pc' \in {"halted", "drop_image", "init0"}
                         \/ pc' = "map" /\ CBoot
                         \/ pc' = "transfer" /\ fresh'.prog = fresh.prog)
    BY <1>1, <1>7 DEF AllocUserStack, FailTo, Bootstrap
  <2> QED
    BY <1>2, <1>3, <2>1 DEF EntryInv
<1> QED
  BY <1>4, <1>5, <1>6, <1>7

LEMMA TransferEntry ==
  ASSUME OInv, EntryInv, Transfer
  PROVE  EntryInv'
<1>1. pc = "transfer" /\ target' = target /\ pc' \in {"unload", "release_image"}
  BY DEF Transfer, request
<1>2. current = 1 /\ ~Booting /\ rsp \in [Tasks -> {Null, TssStack} \cup Pages]
  <2>1. pc \in Exec
    BY <1>1 DEF Exec, Building
  <2> QED
    BY <1>1, <2>1 DEF OInv, IInv, TypeOK, Control, BootInv, Building
<1>3. CASE pc' = "release_image"
  <2>1. boot' = fresh /\ rsp' = [rsp EXCEPT ![1] = fresh.stack]
    BY <1>2, <1>3 DEF Transfer, task_build_user_stack
  <2>2. boot'.prog = target /\ rsp'[1] = boot'.stack
    BY <1>1, <1>2, <2>1 DEF EntryInv, CBoot, Tasks
  <2> QED
    BY <1>1, <1>3, <2>2 DEF EntryInv
<1> QED
  BY <1>1, <1>3 DEF EntryInv

LEMMA NextEntry ==
  ASSUME OInv, OInv', EntryInv, [Next]_vars
  PROVE  EntryInv'
<1>1. CASE CreateAddressSpace \/ LoadSegments \/ MapUserPages \/ AllocUserStack
  BY <1>1, BuildEntry
<1>2. CASE ValidateImage \/ DropImage \/ DropSpace \/ UnloadImage
  BY <1>2 DEF ValidateImage, DropImage, DropSpace, UnloadImage, FailTo, EntryInv
<1>3. CASE ClaimWindowPage
  <2>1. pc' \in {"claim", "drop_space", "halted"}
    BY <1>3 DEF ClaimWindowPage, FailTo
  <2> QED
    BY <2>1 DEF EntryInv
<1>4. CASE CreateIdleTask \/ CreateUserTask \/ CreateWorkerTask
  BY <1>4 DEF CreateIdleTask, CreateUserTask, CreateWorkerTask, task_create_kernel, EntryInv
<1>5. CASE Transfer
  BY <1>5, TransferEntry
<1>6. CASE ReleaseImage \/ ReleaseSpace
  <2>1. pc \in {"release_image", "release_space"} /\ pc' \in {"release_space", "running"}
        /\ UNCHANGED <<state, rsp, boot, target>>
    BY <1>6 DEF ReleaseImage, ReleaseSpace, schedule, request
  <2> QED
    BY <2>1 DEF EntryInv
<1>7. CASE Tick \/ Yield
  <2>1. pc' \in {"running", "halted"}
    BY <1>7, TickSchedules DEF OInv, Scheduled
  <2> QED
    BY <2>1 DEF EntryInv
<1>8. CASE UserFault \/ \E prog \in Programs : SysExec(prog)
  BY <1>8 DEF UserFault, SysExec, EntryInv
<1>9. CASE SysExit
  BY <1>9, ExitLeaves DEF OInv, Exited, EntryInv
<1>10. CASE UNCHANGED vars
  <2>1. UNCHANGED <<config, state, rsp, boot, pc, target, fresh>>
    BY <1>10 DEF vars
  <2> QED
    BY <2>1 DEF EntryInv, CBoot, Booting
<1> QED
  BY <1>1, <1>2, <1>3, <1>4, <1>5, <1>6, <1>7, <1>8, <1>9, <1>10 DEF Next, KernelStep

(* The last step of an exec that goes through. *)
LEMMA ReleaseEnters ==
  ASSUME SpansAgree, OInv, AInv, AInv', EntryInv, Execing, ReleaseSpace
  PROVE  old.pml4 # Null /\ EntersTarget'
<1>1. /\ pc = "release_space" /\ pc' = "running" /\ state[1] = "RUNNING" /\ started
      /\ UNCHANGED <<rsp, boot, target, cr3>>
  BY DEF ReleaseSpace, Execing, schedule, request
<1>2. boot.prog = target /\ rsp[1] = boot.stack
  BY <1>1, Zenon DEF EntryInv
<1>3. AllTables(old) /\ HasImage(boot)
  BY <1>1 DEF AInv, PartsInv
<1>4. \A p \in ImagePages(boot) : holds'[p] = boot.prog
  <2>1. \A p \in ImagePages(boot') : holds'[p] = boot'.prog
    BY <1>1 DEF AInv, BytesInv
  <2> QED
    BY <1>1, <2>1
<1>5. ImagePages(boot) = LoadBase..(LoadEnd - 1) /\ LoadEnd' = LoadEnd
  <2>1. LoadEnd = WindowEnd
    BY WindowFacts DEF OInv, IInv
  <2>2. ImagePages(boot) = Window
    BY <1>3, ImageShape
  <2>3. LoadEnd' = LoadEnd
    BY <1>1 DEF LoadEnd
  <2> QED
    BY <2>1, <2>2, <2>3, Zenon DEF Window
<1>6. cr3 = boot.pml4
  <2>1. TypeOK /\ TaskInv /\ RunInv /\ FullInv
    BY DEF OInv, IInv, Control, Stages
  <2>2. current = 1 /\ cr3 = space[1]
    BY <1>1, <2>1 DEF RunInv, Tasks
  <2>3. user_task_enabled
    <3>1. boot # NoBootstrap
      BY <1>3, ConstantFacts DEF HasImage, NoBootstrap, Null
    <3> QED
      BY <2>1, <3>1 DEF FullInv
  <2> QED
    BY <1>1, <2>1, <2>2, <2>3 DEF TaskInv
<1>7. EntersTarget'
  <2>1. boot'.prog = target' /\ rsp'[1] = boot'.stack /\ cr3' = boot'.pml4
    BY <1>1, <1>2, <1>6
  <2>2. \A p \in LoadBase..(LoadEnd' - 1) : holds'[p] = target'
    BY <1>1, <1>2, <1>4, <1>5
  <2> QED
    BY <2>1, <2>2, Zenon DEF EntersTarget
<1> QED
  BY <1>3, <1>7 DEF AllTables

(* A step of boot or exec halts, or returns to the caller, only where it   *)
(* has to.                                                                 *)
LEMMA NextEnds ==
  ASSUME SpansAgree, WindowIsLow, OInv, OInv', Ample => AInv, EntryInv, Next
  PROVE  ExecEnds
<1> SUFFICES ASSUME Ample
             PROVE  /\ pc' = "halted" =>
                         pc = "running" \/ (pc = "validate" /\ Booting /\ target \in BadImages)
                    /\ Execing /\ pc' = "running" /\ target \notin BadImages /\ ~config.refuse =>
                         old.pml4 # Null /\ EntersTarget'
  BY Zenon DEF ExecEnds
<1>1. AInv /\ FailInv
  BY DEF AInv
<1>2. CASE CreateAddressSpace
  BY <1>1, <1>2, CreateAddressSpaceAmple
<1>3. CASE ValidateImage
  <2>1. pc = "validate" /\ pc' # "running" /\ (pc' = "halted" => Booting /\ target \in BadImages)
    BY <1>3 DEF ValidateImage, FailTo
  <2> QED
    BY <2>1
<1>4. CASE ClaimWindowPage
  <2>1. pc' # "running"
    BY <1>4 DEF ClaimWindowPage, FailTo
  <2> QED
    BY <1>1, <1>4, <2>1, ClaimWindowPageAmple
<1>5. CASE MapUserPages
  <2>1. pc' # "running"
    BY <1>5 DEF MapUserPages
  <2> QED
    BY <1>1, <1>5, <2>1, MapUserPagesAmple
<1>6. CASE AllocUserStack
  <2>1. pc' # "running"
    BY <1>6 DEF AllocUserStack, FailTo
  <2> QED
    BY <1>1, <1>6, <2>1, AllocUserStackAmple
<1>7. CASE LoadSegments \/ DropImage \/ Transfer \/ UnloadImage \/ ReleaseImage
  <2>1. pc' \notin {"running", "halted"}
    BY <1>7 DEF LoadSegments, DropImage, Transfer, UnloadImage, ReleaseImage
  <2> QED
    BY <2>1
<1>8. CASE DropSpace
  <2>1. pc = "drop_space" /\ pc' = "running"
    BY <1>8 DEF DropSpace
  <2> QED
    BY <1>1, <2>1 DEF FailInv
<1>9. CASE CreateIdleTask
  <2>1. pc' # "running"
    BY <1>9 DEF CreateIdleTask, task_create_kernel
  <2> QED
    BY <1>1, <1>9, <2>1, CreateIdleTaskAmple
<1>10. CASE CreateUserTask \/ CreateWorkerTask
  <2>1. pc = "init1" /\ pc' # "halted"
    BY <1>1, <1>10, CreateWorkerTaskAmple DEF CreateUserTask, CreateWorkerTask
  <2>2. ~Execing
    BY <2>1 DEF OInv, IInv, Control, BootInv, Execing
  <2> QED
    BY <2>1, <2>2
<1>11. CASE ReleaseSpace
  <2>1. pc' = "running"
    BY <1>11 DEF ReleaseSpace
  <2>2. AInv'
    BY <1>1, <1>11, ReleaseSpaceAmple
  <2> QED
    BY <1>1, <1>11, <2>1, <2>2, ReleaseEnters
<1>12. CASE Tick \/ Yield \/ UserFault \/ SysExit \/ \E prog \in Programs : SysExec(prog)
  <2>1. pc = "running"
    BY <1>12, Zenon DEF Tick, StartScheduler, Reschedule, Yield, UserFault, SysExit, SysExec, InTask
  <2> QED
    BY <2>1 DEF Execing
<1> QED
  BY <1>2, <1>3, <1>4, <1>5, <1>6, <1>7, <1>8, <1>9, <1>10, <1>11, <1>12 DEF Next, KernelStep

(* With ample memory, on a machine whose loader window lies low enough,    *)
(* every exec of a valid image ends in the new program, the caller having  *)
(* been released, and boot does not halt but for a malformed image:        *)
(* elf_load_user_image finds every page of its window, although            *)
(* palloc_free pushes them onto the very list that the next tables and     *)
(* stacks are popped from.                                                 *)
THEOREM ExecSucceeds ==
  ASSUME SpansAgree, RefusesAll, WindowIsLow PROVE Spec => ValidExecSucceeds
<1>1. Init => EntryInv
  BY DEF Init, EntryInv
<1>2. OInv /\ OInv' /\ EntryInv /\ [Next]_vars => EntryInv'
  BY NextEntry
<1>3. OInv /\ OInv' /\ (Ample => AInv) /\ EntryInv /\ [Next]_vars => [ExecEnds]_vars
  BY NextEnds
<1>4. Spec => []OInv /\ [](Ample => AInv)
  BY OInvIsInvariant, AmpleInvariant
<1> QED
  BY <1>1, <1>2, <1>3, <1>4, PTL DEF Spec, ValidExecSucceeds

=============================================================================
