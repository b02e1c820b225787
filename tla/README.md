# A TLA+ model of the platinum kernel

platinum is a small x86-64 UEFI kernel: one CPU, a page allocator, a heap, two
tasks, an ELF loader, descriptors on a tiny VFS and a handful of system calls.
This directory models the parts in which state changes hands, checks them with
TLC on small instances and proves some of the results with TLAPS for all
instances. `PROJECT.json` maps each definition to the lines it models and lists
runs, mutants, hazards, findings and theorems.

## 1. Inventory

| Component | State | Operations | Correct when |
|---|---|---|---|
| page allocator (`palloc.c`) | intrusive free list, counter | initialize, alloc, free, take a given page | no page twice on the list, a page is free or somebody's |
| heap (`heap.c`) | address-sorted doubly linked blocks | kmalloc, kzalloc, kfree, growth by a page | blocks tile the pages, live ranges are disjoint, free neighbours merged |
| scheduler (`sched.c`) | two task records, current, started | initialize, tick, exit, exec, select | one RUNNING task, CR3 is its space, none starves, `sched_fail` unreachable |
| address spaces (`paging.c`) | PML4/PDPT/PD/PT pages, CR3 | create, map, activate, release | CR3 never points to freed tables, every table is freed once |
| ELF loader (`elf.c`) | the window at `elf_user_load_base` | validate, claim, load, map, release | an image is never freed while it runs, a failed load gives back what it took |
| syscalls and boot (`core.c`) | bootstrap under construction | `kernel_main`, timer, traps, syscalls | failures unwind completely |
| descriptors (`fd.c`) | table per task | install, dup, read, write, close, close_all, seed | exact reference counts on files |
| VFS (`vfs.c`) | files, nodes, two levels of counts | open, retain, close, read, write, path walk | a node lives as long as its files |
| memory map (`memmap.c`) | copy of the UEFI map | capture, exit boot services, choose a region | stale key retried, region inside memory |
| GDT/IDT, boot.S, PIC, PIT | gates, TSS stack, masks, requests, IF | set up at boot, entry, EOI, return | nothing is delivered before the kernel is ready, handlers do not nest, no tick is lost for good |
| user programs (`user/`) | descriptors, loop counters, output | one script of system calls per build mode | every test prints its marker and ends |
| tools | | build, run, compare output | host side |

How they interact: a timer interrupt (`arch/x86_64/boot.S` → `kernel_timer_tick`
→ `sched_tick`) or a system call (`kernel_syscall_entry`) enters the kernel with
interrupts off and returns the stack pointer of the task to resume. `exec` is
the longest chain: it opens a file (VFS, heap), creates an address space
(paging, palloc), claims the loader's window (elf, palloc), copies the image,
maps it, allocates a stack, replaces all descriptors (fd, VFS, heap), switches
CR3 and then releases the previous program (elf, paging, palloc).

What is hard here. Nothing runs in parallel, but (a) the CPU keeps using page
tables, stack and image while a handler takes them apart; (b) exec loads the
new program *into the pages of the old one*, and three different functions
decide later which of those pages belong to whom; (c) every allocation may fail
half way; (d) pages are recycled through one LIFO list on which the loader's
fixed window also lives; (e) reference counts at two levels with objects that
are held by local variables only; (f) liveness depends on the timer.
In addition (g) user spaces share the kernel's page tables until they are written
to; (h) the loader computes with words from a file; (i) devices request
interrupts at any moment, also during boot, with masks left by the firmware.
The list, line by line, is `hazards` in `PROJECT.json`.

## 2. Modules

| Module | Models |
|---|---|
| `PageList` | the free list as operators on sequences: head = first element |
| `Palloc` | the allocator with a client that allocates, takes and frees |
| `PageSet` | abstract: pages are free or held |
| `Heap` | `heap.c` on top of `Palloc`, whose client stands for the other users of pages |
| `ByteRanges` | abstract: disjoint ranges inside the allocator's memory |
| `Process` | boot, scheduler, timer, exec, exit, loader, address spaces |
| `FileTable` | descriptors, files, nodes, as driven by the system calls |
| `MemMap` | the UEFI memory map, ExitBootServices with its retry, the allocator's region |
| `UserRange` | the checks on user buffers and the copy of a path, with wrapping addresses |
| `Paging` | `paging.c`: four levels of tables with present and user bits in shared memory |
| `ElfImage` | `elf_load_user_image` on an arbitrary file, with wrapping words |
| `Namespace` | `vfs_walk_path` character by character, the verdict of open and exec |
| `KernelHeap` | all callers of the heap with the sizes of their structures, on module `Heap`: self tests, consoles, open, close, exec, exit |
| `UserPrograms` | `user/*.c` in every build mode, on module `FileTable` |
| `TwoTasks` | abstract: two tasks take turns on one CPU |
| `Interrupts` | gates, TSS, PIC, PIT, entry code and boot order under the scheduler |
| `PageListProofs`, `HeapProofs`, `ProcessProofs`, `PagingProofs`, `InterruptsProofs`, `FileTableProofs`, `MemMapProofs` | lemmas and theorems about the module of that name; `HeapProofs` is about `Palloc` and `Heap`, `FileTableProofs` about `FileTable` and `UserPrograms` |
| `UserInputProofs` | theorems about `UserRange`, `Namespace` and `ElfImage`, which judge what a user or a file supplies |
| `MC...` | instances for TLC, one per module that has a run; `Heap` and `FileTable` run inside `MCKernelHeap` and `MCUserPrograms` |

What extends or implements what: `Heap` extends `Palloc` and implements
`ByteRanges`; `Palloc` implements `PageSet`; `KernelHeap` extends `Heap`,
`UserPrograms` extends `FileTable`, each with the free client of the module below
as one of its behaviours, so that one run checks both; `Process` and `Interrupts` both implement
`TwoTasks`. Where one module takes for granted what another shows, the text
below says so.

**PageList, Palloc.** Pages are numbers and 0 is the null page. A double free,
which in memory makes a cycle, is a repeated element. `Palloc` refines `PageSet`
by `free <- ToSet(freeList)`.

**Heap.** The linked list is a sequence of blocks `[addr, size, free]`; `next`
and `prev` are neighbours. The loop of `coalesce_forward` is expressed by the
last block it reaches. The client of `Palloc` stands for the other users of
pages, so that the heap's pages come in any order and need not touch; the heap's
pages are those that are neither free nor held by it. A call
that returns NULL changes nothing and is not a step. The magic numbers are left
out: no kernel code writes outside the range it asked for.

**Process.** A bootstrap record holds the pages of an address space (PML4, PDPT,
PD, PT: the user layout fits in one PT), of the stack, and the range of the
image. `boot` is task 1's, `fresh` the one exec or boot is building, `old` the
one being released. `pc` is "running" when a task runs, otherwise the step of
the handler under way; handlers are cut wherever pages change hands, and since
interrupts are off no other handler starts in between. The invariants hold at
these intermediate steps too, which is what (a) above needs. `holds[p]` is the
image whose bytes page p contains. `rsp[t]` is the page that holds the saved
frame: the TSS stack for a frame pushed from ring 3, the task's own stack from
ring 0, the new user stack after exec. Failures at boot halt, failures in exec
unwind (`FailTo`); `paging_map_user_page` halts in both.
`sched_release_user_bootstrap` leaves two fields of its `loaded_user_image`
uninitialized; `ReleaseImage` therefore chooses any sub-range to be spared, and
`lost` collects the pages that nobody has afterwards.
`config` is a build (no user task, C first task, ELF first task; transfer
refused by the test hook or not) and a machine (number of free pages). A build
with `USER_TEST_BAD_ELF` is a boot whose `target` is in `BadImages`;
`USER_TEST_BAD_BOOTSTRAP`, which stops the boot at once, is not modelled. At the
end of the module the variables are mapped to `TwoTasks`.

**FileTable.** Entry → file → node, with `refs` at both levels; the two console
nodes of a table and their data live in the heap, namespace nodes are static.
`pending`, `seedIn`, `seedOut` are the local variables that hold an object
while no table does. The heap is a number of objects (`HeapSizes`), so that
every allocation fails in some behaviour. A system call that returns -1 without
changing anything is not a step. `ExecCloseImage` lets the preparation of the
image succeed or fail: `Process` models it. Writes to the console change nothing
that is modelled here; `UserPrograms` keeps what they print.

**KernelHeap.** A call is a script of instructions (allocate, free, test for
NULL, ...), executed from its head; kmalloc and kfree are the actions of `Heap`.
The six structures have their sizes on x86-64. The self tests of `kernel_main`
are the first scripts, then the consoles of the two tasks, then the user task
opens, closes, execs and exits. The table is the set of files it leads to:
copies of a descriptor only delay the close that frees the file, and fill the
table earlier (`Install` may refuse whenever a file is open). A machine with
fewer pages is one whose other pages are held for ever. The client of module
`Heap`, which knows no script, is the behaviour with `call = "any"`. `Process` starts
with the pages that are left when the heap has its page and never lets the heap
take another; `OneHeapPage` is the reason why it may.

**UserPrograms.** Every `USER_TEST_...` branch of `init.c`, and the other three
programs, is a sequence of instructions with the results it goes on with; any
other result makes it write its complaint and exit. The kernel's side of each
call is an action of `FileTable`. A path is its text, resolved by a table that
`Namespace` justifies; buffers are valid or not as `UserRange` decides; whether
an image starts is `ElfImage`'s and `Process`'s business. `ticks` counts to 4,
which is all that programs compare, and `fresh` says that the tick count has
changed since it was last read. Output is a set: that two characters come out
next to each other ("FD") is not checked. In mode "any" a program makes any call
at any time, on heaps that may be too small. `init.c:291` stores a terminator at
`ok[12]` of a `char ok[12]`; the model keeps only what is written to descriptor 1.

**Paging.** Physical memory is a function from page to table contents; an entry
has an address, a present and a user bit, and the tables have `Fan` entries per
level. The CPU's view is the operator that walks four levels; the code's own
checks (`paging_mapping_matches`, `paging_user_range_mapped`) are modelled next
to it and compared with it. All tables are in one memory, so that a table that
is shared and written shows in every space.

**ElfImage.** The file is read lazily: a header is chosen when it is first
looked at and stays. A byte of memory is the file offset it came from, zero, or
something else, so that "the program finds the bytes of the file" can be said.
Layout checks that cannot fail for the kernel's constant layout are left out.

**Namespace.** The tree is a constant of the kernel's shape; a path is a sequence
of characters, and the walk takes one step per character and component with its
buffer of `BufferSize`.

**TwoTasks, Interrupts.** The controllers, the timer and the CPU's reaction are
external: a request is latched once, blocked by equal or higher priorities in
service until the EOI, and accepted before an instruction when IF is set. The
firmware hands over with IF clear (`kernel_main` has no `cli` of its own, so this
is an assumption on what ExitBootServices leaves behind; the kernel's only `sti`
is the last step of boot), with any mask and perhaps a request in service. `kernel_main`'s
steps are in `BootOrder`. The frame of the first tick, kernel_main's own, is
dropped, so that its last two lines of output may be cut; no property is about
them. `TwoTasks` has a `phase`: boot, running, a kernel call, halted; each
implementation maps its own program counter to it. Exceptions other than 6, 13
and 14, which have no gate, and spurious requests of the controller are not
modelled.

**MemMap.** The firmware is external: it may change its map at any moment until
ExitBootServices succeeds, and it accepts only the current key, of which the
model keeps whether it is `stale`. The search for the region is one action per
descriptor; `FillFreeList` is the rest of `palloc_initialize`. UEFI describes
memory below the end of the address space, so the ends do not wrap.

**UserRange.** An initial state is one system call: a pointer, a size and a set
of mapped user pages. Both loops take one step per turn. No page outside the
layout is mapped for the user (`paging_map_user_page` is called for the
layout's pages only).

## 3. Runs

| Run | Instance | States | Shows |
|---|---|---|---|
| `palloc` | 5 pages | 326 | list, counter, refinement of `PageSet` |
| `heap` | 3 pages of 1088 bytes, header 32, alignment 16; any client with requests of 0, 470, 520, 1056, 1100; the kernel's callers with their sizes, 6 descriptors, 0..3 pages | 199 461 | tiling, full merging, every live pointer freeable, refinement of `ByteRanges`; one heap page is enough, no object lost, exec starts clean |
| `process_any` | all builds, 0..14 pages, window of 2 pages at page 2, 3 images, one malformed | 4 024 | ownership, CR3, frames, scheduler, liveness, refinement of `TwoTasks`; with 13 pages or more no exec damages its caller, and one of a valid image always ends in the new program |
| `process_spans` | ELF build, images of 2 and 1 pages | violation | finding 1 |
| `process_tight` | ELF build, 12 pages | violation | finding 2 |
| `memmap` | 3 places for descriptors (64 maps), limits that cut the first and the last, any number of changes | 16 976 | no stale map, largest region, boot decides |
| `userrange` | 32 addresses, pages of 4, a layout of 4 pages, paths of 6 | 41 104 | byte-wise correctness of the checks, termination |
| `paging` | 32 virtual pages (`Fan` 8,2,2,1), six memories, 2 spaces at a time, 3 in all | 6 289 | kernel map fixed, user reach exact, tables owned once |
| `elfimage` | 16 addresses, pages of 2, up to 2 program headers | 230 450 | writes in the window, reads in the file, exact verdict, image = file |
| `namespace` | paths up to 6 characters, buffer of 3, flags up to 19 of which the kernel keeps the value modulo 8 | 33 693 | exact walk; every open and exec ends as its path and flags deserve |
| `user_programs` | any program on heaps of 3..15 objects, and 26 build modes on 15; 4 descriptors, text of length 1 | 455 343 | both reference counts, no dangling or leaked console, exec's descriptors; no complaint, every marker, every test ends, hearts beat |
| `interrupts` | all masks, with and without a user task, tick count modulo 3 | 5 272 | readiness, no nesting, frames intact, no tick lost, refinement of `TwoTasks` with turns |

A property is a conjunction of named parts where the parts are about one thing:
`ListSound` (`TypeOK`, `NoPageListedTwice`, `CountIsLength`), `HeapSound`
(`HeapTypeOK`, `BlocksTile`, `FullyCoalesced`, `EveryPointerFreeable`), `PagesOwned`
(`NoFreePageInUse`, `NoPageUsedTwice`, `EveryPageAccounted`), `CpuStateLive`
(`ActiveSpaceLive`, `SavedFrameLive`), `SchedulerSound` (`TypeOK`, `OneRunning`,
`SchedNeverFails`),
`RefsExact` (`TypeOK`, `FileRefsExact`, `NodeRefsExact`), `NodeLifetime`
(`NoDanglingNode`, `NoLeakedNode`, `ClosedTableHoldsNothing`), `FinalMapKnown`
and `RegionRight`, `ChecksExact`, `KernelMapped`, `UserMapExact`,
`TablesAccounted`, `LoaderInBounds`, `ProgramIsTheFile`, `WalkSound`,
`ContextsSound`, `ObjectsSound` (`ClientTypeOK`,
`EveryObjectHeld`, `SelfTestsLeaveNothing`). `mutants` in `PROJECT.json` has at least one
for each part that can fail on its own.

Why the bounds are enough. *palloc*: a take from the middle needs three pages;
five give every list order with room on both sides. *heap*: three pages make a
page between two others; the requests split a page in two with either half
first, leave a remainder that is too small to split off, fill a page, and exceed
it (1100, which fits only in merged pages).
*process*: a running program, its successor under construction and the idle
stack need 13 pages, so 13 and 14 never run out (`Ample`) and every smaller
number fails at a different allocation; the window holds two pages, so that a claim can fail after
it took one; two good images can replace each other for ever and the state space
is finite without a bound on the number of calls. *user_programs*: four descriptors
are the three seeded ones and one more, enough for a full table, for copies that
outlive the original and for reuse of the lowest entry; boot needs 14 objects,
11 to 15 fail at different allocations or succeed. The programs open one
descriptor at a time, and `dup-full` fills the table of whatever size: its loops
of 13 are the capacity less the three standard descriptors.

*memmap*: the maps have regions cut from below, from above, entirely cut away and
ties; a `stale` bit instead of a key makes the number of changes unbounded.
*userrange*: the layout has pages on both sides, and sizes up to 31 wrap from
every start; paths cross one page boundary at least.
*paging*: the layout lies in an entry of the PDPT that the kernel has, has in
part, or does not have, so that every combination of copied and created tables
happens; allocators end in boot, in the middle of a path, or never; two spaces
show sharing, a third one reuses what was released.
*elfimage*: addresses and sizes lie at both ends of the word, two headers come
in both orders, overlap, touch and leave gaps; the window has two pages, so that
an image can be too large by one.
*namespace*: six characters give two components of full length with both slashes
and one character more than the buffer; names are prefixes of each other.
*heap*, the kernel's callers: 1088 bytes are the sum of the largest set of objects that can be
live at a time with six descriptors; with 1072 the run fails, so that the
property leaves no room for fragmentation. The same sum for the kernel's sixteen
descriptors is 2816 bytes for `fd_self_test` (16 times 176) and 1728 at run
time, of 4096; all orders of closing sixteen files are out of TLC's reach.
*interrupts*: the timer, a line of the master and one of the slave, all 16 masks.

Three properties state a verdict from both sides, so that refusing too much is an
error as accepting too much is. `ChecksExact`: a path is refused only for a
character the user has not, the first one included, for a first character that is
not a slash, or for its length. `ValidExecSucceeds`, an action property: with ample
memory every step that ends an exec of a valid image enters that image, with its
bytes in place, its own stack and its own page tables, and no exec halts the
machine; so a -1 is excluded wherever it could arise, from the first allocation of
`CreateAddressSpace` on. `CallVerdict`: what `SYS_OPEN` and `SYS_EXEC` grant or refuse is
compared with the spellings of the nodes, the operations they have and the flags as
the program passed them, and not with the node the walk returned or the flags it cut;
a refusal counts wherever it happens. In `UserPrograms` a program compares the result of
every call it checks, also of a write that has to fail, so that `NobodyComplains` is
violated by a kernel that accepts too much (`MayWrite_AnyPointer`).

`CHECK_DEADLOCK FALSE` where the kernel halts, a task has exited, or the
modelled call has returned.

**Fairness.** `WF(KernelStep)`: the CPU keeps executing kernel code, which does
not wait for anything. `SF(Tick)`: the PIT fires periodically and the PIC
latches the interrupt while a handler runs with interrupts off, so that it is
delivered when the handler returns; a task that keeps calling the kernel
disables and re-enables the tick but cannot hold it off. Nothing is assumed of
the user task: no system call is fair. `RunnableRuns` and `HandlerReturns` use
these two only. `MemMap` has weak fairness of the kernel's steps and none of the
firmware's; `UserRange` of the handler. `UserPrograms` has weak fairness of the
scripted program that runs (none of the one that makes any call), and `SF(Tick)`
as above. `Interrupts` is the justification of
`SF(Tick)`: there only the CPU's own steps (boot, accepting an interrupt,
handlers) are weakly fair, and the timer requests again and again once it is
programmed; `LatchedTickIsHandled` and `TurnsCome` follow. The other runs of `Process` check invariants under the same
specification; `Palloc`, `Heap`, `KernelHeap`, `FileTable`, `Paging`, `ElfImage` and `Namespace`
state safety only.

### Findings

1. *Exec between images of different spans* (`process_spans`,
   `sched.c:547-557`). The loader loads the new image into the caller's pages;
   `sched_exec_current` then compares the two ranges and, if they are not equal,
   releases the whole old one. The common pages, which the running program now
   occupies, go to the free list. All embedded programs span one page today.
2. *Exec that fails for lack of a stack page* (`process_tight`, `elf.c:437-460`).
   The image is copied before the last allocation; on failure the caller gets -1
   and runs on in the bytes of another program. With one page less or more the
   failure comes earlier or not at all.

Not a violation of a stated claim, but visible in the model: exit may leave the
image pages unfreed because of the uninitialized range (`lost`), and a refused
transfer in an ELF build would free the caller's image
(`syscall_release_bootstrap` spares nothing). The latter needs the test hook in
a build that does not combine with it, or a heap too small to seed three
descriptors, which `ExecSeedsStdio` excludes on a heap that boot succeeded on;
`Builds` in `MCProcess` leaves it out.

## 4. Proofs

All are for arbitrary constants satisfying the modules' `ASSUME`s.

* `PageListProofs`: what each list operation returns, preserves and bounds
  (`DescendingFacts`, `AllocFacts`, `FreeFacts`, `TakeFacts`, `RangeFacts`, ...).
* `HeapProofs!ListSafe`: `Spec => []ListSound`. The inductive invariant adds `Split`: a held page is not
  listed. Without it a free could push a page that is already there.
* `HeapProofs!PallocRefines`: `Spec => AbstractSpec`, from the same invariant
  and the set equations of the list lemmas.
* `HeapProofs!HeapSafe` and `!HeapRefines`: `HeapSpec => []HeapSound` and
  `HeapSpec => RangesSpec`, for every page size, header, alignment and set of
  requests (`HeapAssumption`: header and page are multiples of the alignment and
  a block fits a page). With any set of requests, `HeapSpec` has the behaviours of
  every client of the heap. `BlocksTile` speaks of the first byte of each page and of
  the byte after each block only, which does not tell what a merge leaves covered. The invariant `HeapInv` adds that every
  byte of the heap's pages is in a block and no other byte is (`Tiles`), that the
  blocks are sorted and aligned (`Good`) and merged (`Merged`), and that the used
  blocks and the live ranges correspond (`RangesOK`). Split, merge and insertion are
  then one operation: blocks i..j are replaced by a sequence that covers the same
  bytes (`Splice`), or the bytes of a new page besides. That kfree merges
  far enough rests on `Merged` before the call: only the freed block can touch
  a free neighbour.
* `ProcessProofs!SchedulerIsSound`: `Spec => []SchedulerSound`, from
  `TypeCorrect`, `RunningTaskUnique` and `SchedulerNeverFails`. The
  inductive invariant `IInv` is `TypeOK` and `Control`: the image ranges lie in
  memory (`Layout`, `ClaimInv`; else a release could push something that is no
  page); which parts of the new bootstrap exist at each step (`FreshInv`; else
  CR3 or a stack pointer could be null); which handlers belong to boot and which
  to task 1 (`BootInv`); what a dispatchable task owns (`TaskInv`); and that
  exactly the current task is RUNNING, in its own space (`RunInv`). One lemma
  per action. No assumption about equal spans or about the build is needed:
  scheduling stays consistent even in the behaviours of the two findings.
* `ProcessProofs!ProcessImplementsTwoTasks`: `Spec => ImplementsTwoTasks`. The
  invariant is `RInv`: `IInv` and that no task is current before the first tick
  (without it the first tick could be a switch). A step is `Quiet` if it leaves
  the tasks alone: then it is a call, a return, the end of boot, a halt or a
  stutter of `TwoTasks` (`QuietStep`), and `QuietActions` shows it of all but
  six actions; `CreateStep`, `StartStep`, `SwitchStep` and `ExitStep` treat those.
* `ProcessProofs!PagesAreOwned` and `!CpuStateIsLive`: `Spec => []PagesOwned`
  and `Spec => []CpuStateLive`, for every number of pages, under two conditions
  on the build. `SpansAgree`: the programs of the registry span the same pages,
  as the embedded ones do; the run `process_spans` (section 3) shows what
  happens otherwise. `RefusesAll`: a build that refuses execs does not start from
  an ELF image; a refused transfer in such a build would free its own image
  (section 3, Findings). Both are satisfied by every configuration of `MCProcess`
  with equal spans. The inductive invariant `OInv` adds to `IInv` which parts
  of the three bootstraps exist at each step (`StageInv`), that an image is the
  loader's whole window or nothing (`ShapeInv`), that a bootstrap handed over is
  complete (`FullInv`), and states ownership as disjointness of the free list,
  the three bootstraps and the task stacks (`Owned`), which each action changes
  by a fixed set of pages.
* `ProcessProofs!AmpleSuffices`: `Spec => []AmpleMemorySuffices`, under the same two
  conditions and `WindowIsLow`: a machine with ample memory has seven pages above
  the loader's window. The window is at 33 MiB (`elf_user_load_base`), so that any
  machine with a few pages more than that meets it; the instance of `process` does
  too. It cannot be dropped: with six pages above the window a C first task, the idle
  stack and the PML4 of the first exec use them all and one of the window's, and TLC
  shows the claim failing although enough pages are free. The invariant `AInv` counts the
  free pages at each step (`RoomInv`), says how many pages at the front of the list
  are not the window's (`OrderInv`: pages are pushed in ascending order, so the
  highest is allocated first, and a release pushes the image before the tables, so the
  next PML4 does not come from the window), that no table or stack lies in the window (`ApartInv`), which image
  is complete at each step (`BytesInv`) and what a release finds (`PartsInv`). A new
  program takes over the pages of the old one, so a release after exec frees only
  tables and a stack.
* `ProcessProofs!ExecSucceeds`: `Spec => ValidExecSucceeds`, under the same three
  conditions. From `RoomInv` every allocation of an exec, and of boot, finds a page, and from
  `OrderInv` and `ApartInv` the loader finds its window free or in the caller's
  image; so an exec that is not refused gets to the release of its caller (the lemmas
  named `...Ample`, one per action). That the program entered then is the one
  asked for is a second invariant, `EntryInv`: it follows `target` from the load
  through the transfer to the release (`BuildEntry`, `TransferEntry`, `NextEntry`), and
  `ReleaseEnters` puts the two together.
* `InterruptsProofs!KernelIsReady`, `!ContextsAreSound`,
  `!InterruptsImplementTwoTasks`: that the first interrupt finds a gate rests
  on what each step of `kernel_main` has left behind (`PreparedInv`) and on IF
  being clear until the last (`FlagInv`); that a task goes on with IF set, on the
  flags of every frame that can still be restored (`FrameInv`).
* `FileTableProofs!CountsAreExact`, `!ConsolesLiveRightLong`, `!ExecSeedsConsole`:
  each for `Spec` (any sequence of calls) and `UserSpec` (the programs of
  `user/` on top). The third is an action property. `FInv` says who holds a file
  in the middle of an operation (`PendingInv`, `FileInv`), which nodes a file can
  have (`NodeInv`), that seeding installs into unused descriptors (`SeedInv`), and
  that a heap that held two consoles at boot holds the idle task's and has room
  for one more whenever exec seeds again (`RoomInv`); this is why the re-seeding
  of exec cannot fail.
* `MemMapProofs!FinalMapIsKnown`, `!RegionIsRight`: a captured map whose key is
  not stale is the firmware's (`MapInv`), the search keeps the largest region
  so far (`BestInv`), and the list is that region (`ListInv`). The page counts are
  folds over the map; that such a sum is well defined is shown by a least
  counterexample (`LeastNumber`), as induction with an operator as a parameter is
  out of the provers' reach.
* `PagingProofs!KernelIsMapped`, `!UserMapIsExact`, `!TablesAreAccounted`:
  `Spec => []KernelMapped`, `[]UserMapExact` and `[]TablesAccounted`, for every
  fan-out of the four levels (512 in the machine), every memory and every layout
  below one page table. None of the three is inductive: a map that is right says
  nothing of what a write to a shared table would do to it. The invariant `PInv`
  gives every page an owner (`Shape`): the free list, a place in the kernel's
  tree (`KernelTree`: a place is a level and a prefix of the virtual page), or a
  place on the path of one space to the layout (`UserTree`: the private tables from
  the PML4 down to a depth, each equal to the kernel's table at its place but
  for the way down and the pages mapped). As a page has one owner, a step that
  writes to a page of one owner changes no other tree (`KernelFrame`, `UserFrame`,
  `ForeignFrame`). The functions of `paging.c` are followed one table at a time:
  the kernel's tree gets a table or a leaf (`GrowKernel`, `MapKernel`), a space gets
  a private copy, a leaf or its PML4 (`GrowUser`, `MapUser`, `CreateUser`), and a
  release gives its path back (`FreedTables`, `ReleaseUser`). The stages in the
  middle of a call, when the path is private to some depth, are shapes too; so
  a call that fails for want of a page stops in a state with the right types.
  `WalkIs` then shows that the CPU's walk, which takes the user bit of four levels,
  ends at the entry the kernel's checks look at, and `TablesAre` that the tables
  found through present entries are the pages owned.
* `UserInputProofs!UserPointersAreChecked`: `Spec => []ChecksExact` for every width
  of an address and every page size. `LayoutCheck` shows that the kernel's
  wrapping comparisons are those of unbounded arithmetic. The invariant `UInv` says
  that in the middle of the walk the range has not wrapped and every page before
  the current one is mapped (`WalkInv`); the walk cannot miss the page at which
  it stops because both are multiples of the page size (`AlignedFacts`).
* `UserInputProofs!WalkIsSound` and `!OpenIsExact`: `WalkSpec => []WalkSound` and
  `WalkSpec => []CallVerdict`, for every alphabet, word, buffer and path length and every
  tree of the kernel's shape (names fit the buffer, directories are entries of the
  root). That nothing is refused wrongly needs to know what was read before:
  the component is the text of the path behind the last separator, and a
  directory that is searched is spelled by what stands before it (`NInv`, with
  `Inside`). A refusal then has a position that no spelling can have (`Leads`,
  `Ended`, `TooLong`). For the second, `OpenInv` says how the last step judges the node the walk
  returned. The verdict itself speaks of every node: a path spells one node at most
  (`OneNode`), and flags ask for an access in the sense of the property exactly if
  their low word is its number (`LowWordIs`, `AsksIs`).
* `UserInputProofs!LoaderStaysInBounds`, `!ProgramIsLoaded`, `!VerdictIsExact`:
  `LoaderSpec => []LoaderInBounds`, `[]ProgramIsTheFile` and `[]Verdict`, for every
  word, page size, file and number of segments. `ElfAssumption` asks what the
  kernel's constants satisfy: window, image base, stack top and word are multiples
  of the page, and the largest image and a stack page fit between
  the image base and the top of the stack. `HeaderCheck`, `SegmentCheck` and
  `SpanVerdict` show that each check on wrapping words decides the
  statement about numbers; `SpanFacts` that rounding keeps every segment inside the
  span. The invariant `LInv` says for each stage what has been decided, and that
  before segment n is copied the window holds what the segments before n have for it
  (`WindowHolds`); `UserAddress` carries this through the page mappings to what the
  program sees. The three are proved together: a copy stays in the window
  because the verdict was right.

Every inductive invariant was first checked by TLC on the instance of its run.

Only model-checked: `NobodyComplains` of `UserPrograms`, and `OneHeapPage`
and `ObjectsSound` of `KernelHeap`, which depend on what particular scripts do in which
order and on the sizes of particular structures. Liveness (`RunnableRuns`,
`HandlerReturns`, `LatchedTickIsHandled`, `TurnsCome`, `MarkerAppears`,
`HeartBeats`, `TestEnds`, `BootDecides`, `CheckEnds`) is out of the prover's reach,
as is ENABLED.

## 5. Not modelled

* The saving and restoring of registers in `boot.S`, and the bit layouts of
  descriptors, gates and the TSS: TLA+ would only repeat them.
* The serial port (polled output), the wording of messages and the summary of
  the memory map, which change no state.
* Contents of memory that no property tells apart: the bytes of user programs
  beyond where they come from, the magic numbers of heap blocks.
* Exceptions without a gate, spurious interrupts, non-maskable interrupts.
* The build with `USER_TEST_BAD_BOOTSTRAP`, which stops at boot by construction.
* A few details that change nothing in their place: `Interrupts!Switch` leaves the checks of
  `sched_tick` (`sched.c:419-427`) to `Process`, where `SchedNeverFails` is about
  them; `Heap!align_up` does not wrap, as no caller asks for sizes near 2^64;
  `MapImage` omits the `uint16_t` cast of `elf.c:445`, as the layout has 256 pages.
* The host tools, except the markers they require (`UserPrograms!Required`).

## 6. Plan

1. (done) `PageList`, `Palloc`, `Process`, `FileTable`, `Heap`, `MemMap`,
   `UserRange`; `PageListProofs`, `ProcessProofs`.
2. (done) `Paging`, `ElfImage`, `Namespace`, `UserPrograms`, `KernelHeap`,
   `TwoTasks`, `Interrupts`.
3. (done) Proofs: page ownership in `Process`, reference counts in `FileTable` and
   `UserPrograms`, the safety invariants of `Interrupts`, `MemMap` and `UserRange`,
   the address spaces of `Paging`, the refinements of `TwoTasks`.
4. (done) Proofs: the blocks of `Heap` and the refinement of `ByteRanges`, the walk of
   `Namespace`, the loader of `ElfImage`, ample memory in `Process`.
5. Open: proofs about the scripts of `KernelHeap` and `UserPrograms`.
