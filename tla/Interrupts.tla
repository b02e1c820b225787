----------------------------- MODULE Interrupts ------------------------------
(***************************************************************************)
(* The interrupt path below the scheduler: the gates of kernel/idt.c, the  *)
(* TSS of kernel/gdt.c, the interrupt controller and the timer of          *)
(* drivers/pic.c and drivers/pit.c, the entry code of arch/x86_64/boot.S   *)
(* and the order in which kernel_main sets them up, against devices that   *)
(* may request an interrupt at any time.                                   *)
(*                                                                         *)
(* The chips and the CPU are external: a request is latched in IRR until   *)
(* it is accepted, an accepted one blocks lower priorities in ISR until an *)
(* EOI, a request that is already latched is not counted twice; the CPU    *)
(* looks at the controller before every instruction it executes with IF    *)
(* set, a gate decides whether IF is cleared, iretq restores the flags of  *)
(* the frame.  The firmware hands over with IF clear and any mask.         *)
(***************************************************************************)
EXTENDS Integers, Sequences

CONSTANT TickCount      \* kernel_ticks is kept modulo TickCount

ASSUME TickCountAssumption == TickCount \in Nat \ {0, 1}

VARIABLES
    user,       \* user_task_enabled: task1 is a user task, not the worker
    bootStep,   \* index of kernel_main's next step
    at,         \* what the CPU executes
    depth,      \* handlers entered and not left
    iflag,      \* RFLAGS.IF
    gates,      \* the vectors with a gate
    rsp0,       \* whether the TSS has a ring 0 stack
    base,       \* vector of IRQ 0
    mask,       \* IRQ lines masked in the controllers
    irr, isr,   \* requests latched, and in service
    reload,     \* the timer's divisor, 0 before pit_initialize
    ticks,      \* kernel_ticks
    state,      \* task->state
    current,
    frame,      \* task->rsp: the saved IF and the stack the frame lies on
    here,       \* the frame of the handler under way
    tssHolds    \* the task whose frame is at the top of the TSS stack

machine == <<gates, rsp0, base, mask, reload>>
scheduler == <<state, current, frame>>
vars == <<user, bootStep, at, depth, iflag, machine, irr, isr, ticks, scheduler, here, tssHolds>>

Tasks == {0, 1}
NoTask == 2

Timer == 0
Keyboard == 1
Cascade == 2        \* the slave controller's line to the master
Clock == 8
Devices == {Timer, Keyboard, Clock}
Lines == Devices \cup {Cascade}

FirmwareBase == 104     \* 0x68, where the firmware put IRQ 0
Vectors == 0..255

-----------------------------------------------------------------------------
(* Interrupt controllers *)

Level(irq) == IF irq >= 8 THEN Cascade ELSE irq
Unmasked(irq) == irq \notin mask /\ (irq >= 8 => Cascade \notin mask)
Deliverable == {irq \in irr : Unmasked(irq) /\ \A j \in isr : Level(irq) < Level(j)}
Highest(irqs) == CHOOSE i \in irqs : \A j \in irqs : i <= j

(* A device requests an interrupt. *)
Request(irq) ==
    /\ irq \notin irr
    /\ irr' = irr \cup {irq}
    /\ UNCHANGED <<user, bootStep, at, depth, iflag, machine, isr, ticks, scheduler, here, tssHolds>>

\* Mutant: the firmware's mask is kept.
Masked_Kept == mask \ {Timer, Cascade}

(* pic_initialize: whatever the firmware had enabled, the timer and the    *)
(* cascade line of the master are all that is left.                        *)
Masked == Lines \ {Timer, Cascade}

\* Mutant: only the slave is told.
AfterEoi_None(irq) == isr

(* pic_eoi, non-specific: the request of highest priority is done. *)
AfterEoi(irq) == IF isr = {} THEN isr ELSE isr \ {Highest(isr)}

(* pit_initialize. *)
PitInput == 1193182
MaxReload == 65535
Divisor(hz) ==
    LET d == PitInput \div (IF hz = 0 THEN 100 ELSE hz)
    IN  IF d = 0 THEN 1 ELSE IF d > MaxReload THEN MaxReload ELSE d

-----------------------------------------------------------------------------
(* kernel_main, in its order.  The heap, the namespace, the page tables    *)
(* and the first user image have their own modules; where they can fail,   *)
(* the machine halts with IF still clear.                                  *)

\* Mutant: interrupts are enabled before there are tasks.
BootOrder_EarlyIf == <<"gdt", "idt", "rsp0", "pic", "pit", "sti", "sched">>

BootOrder == <<"gdt", "idt", "rsp0", "pic", "pit", "sched", "sti">>

Boots(step) ==
    /\ at = "boot"
    /\ bootStep <= Len(BootOrder) /\ BootOrder[bootStep] = step
    /\ bootStep' = bootStep + 1

gdt_initialize ==
    /\ Boots("gdt")
    /\ rsp0' = FALSE
    /\ UNCHANGED <<user, at, depth, iflag, gates, base, mask, reload, irr, isr, ticks,
                   scheduler, here, tssHolds>>

(* idt_initialize, idt_set_irq0_gate and idt_set_syscall_gate. *)
idt_initialize ==
    /\ Boots("idt")
    /\ gates' = {6, 13, 14} \cup {32} \cup {128}
    /\ UNCHANGED <<user, at, depth, iflag, rsp0, base, mask, reload, irr, isr, ticks,
                   scheduler, here, tssHolds>>

gdt_set_tss_rsp0 ==
    /\ Boots("rsp0")
    /\ rsp0' = TRUE
    /\ UNCHANGED <<user, at, depth, iflag, gates, base, mask, reload, irr, isr, ticks,
                   scheduler, here, tssHolds>>

(* ICW1 clears the request and in-service registers. *)
pic_initialize ==
    /\ Boots("pic")
    /\ base' = 32
    /\ mask' = Masked
    /\ irr' = {} /\ isr' = {}
    /\ UNCHANGED <<user, at, depth, iflag, gates, rsp0, reload, ticks, scheduler, here, tssHolds>>

pit_initialize ==
    /\ Boots("pit")
    /\ reload' = Divisor(100)
    /\ UNCHANGED <<user, at, depth, iflag, gates, rsp0, base, mask, irr, isr, ticks,
                   scheduler, here, tssHolds>>

\* Mutant: the first frame has IF clear.
FirstFrame_Off == [flag |-> FALSE, stack |-> "own"]

(* The frame a task starts with has RFLAGS 0x202. *)
FirstFrame == [flag |-> TRUE, stack |-> "own"]

sched_initialize ==
    /\ Boots("sched")
    /\ state' = [t \in Tasks |-> "RUNNABLE"]
    /\ frame' = [t \in Tasks |-> FirstFrame]
    /\ UNCHANGED <<user, at, depth, iflag, machine, irr, isr, ticks, current, here, tssHolds>>

arch_enable_interrupts ==
    /\ Boots("sti")
    /\ iflag' = TRUE
    /\ UNCHANGED <<user, at, depth, machine, irr, isr, ticks, scheduler, here, tssHolds>>

BootFails ==
    /\ at = "boot" /\ ~iflag
    /\ at' = "halted"
    /\ UNCHANGED <<user, bootStep, depth, iflag, machine, irr, isr, ticks, scheduler, here, tssHolds>>

-----------------------------------------------------------------------------
(* Entry and return *)

\* Mutant: every task runs in ring 3.
Ring3_All == at = "task"

Ring3 == at = "task" /\ current = 1 /\ user

\* Mutant: the gate is a trap gate, which leaves IF alone.
IfInHandler_Kept == iflag

(* Every gate is an interrupt gate (0x8E, 0xEE). *)
IfInHandler == FALSE

(* The CPU pushes a frame, from ring 3 on the TSS stack, and clears IF. *)
Enter(step) ==
    /\ at' = step
    /\ depth' = depth + 1
    /\ here' = [flag |-> iflag, stack |-> IF Ring3 THEN "tss" ELSE "own"]
    /\ tssHolds' = IF Ring3 THEN current ELSE tssHolds
    /\ iflag' = IfInHandler

(* iretq: the CPU goes on with the context of a frame. *)
Resume(f) ==
    /\ at' = "task"
    /\ depth' = depth - 1
    /\ iflag' = f.flag

(* An instruction is executed only when no interrupt can be accepted. *)
Undisturbed == ~iflag \/ Deliverable = {}

(* The CPU accepts an interrupt: a vector without a gate is stray. *)
Interrupt ==
    /\ iflag
    /\ Deliverable # {}
    /\ LET irq == Highest(Deliverable)
       IN  /\ irr' = irr \ {irq}
           /\ isr' = isr \cup {irq}
           /\ Enter(IF base + irq \notin gates \/ (Ring3 /\ ~rsp0) THEN "stray" ELSE "irq_count")
    /\ UNCHANGED <<user, bootStep, machine, ticks, scheduler>>

(* kernel_timer_tick: count (and report, which changes no state), EOI, and *)
(* sched_tick.                                                             *)
CountTick ==
    /\ at = "irq_count"
    /\ ticks' = (ticks + 1) % TickCount
    /\ at' = "irq_eoi"
    /\ UNCHANGED <<user, bootStep, depth, iflag, machine, irr, isr, scheduler, here, tssHolds>>

EndOfInterrupt ==
    /\ at = "irq_eoi"
    /\ isr' = AfterEoi(Timer)
    /\ at' = "sched"
    /\ UNCHANGED <<user, bootStep, depth, iflag, machine, irr, ticks, scheduler, here, tssHolds>>

Dispatch(next, st, saved) ==
    /\ current' = next
    /\ state' = [st EXCEPT ![next] = "RUNNING"]
    /\ frame' = saved
    /\ Resume(saved[next])

(* The first tick drops the context of kernel_main, which waits in hlt.    *)
Start ==
    /\ current = NoTask
    /\ LET first == IF user THEN 1 ELSE 0
       IN  IF state[first] = "RUNNABLE"
           THEN Dispatch(first, state, frame)
           ELSE at' = "sched_fail" /\ UNCHANGED <<depth, iflag, scheduler>>

\* Mutant: the other task, whatever its state.
NextTask_Other(st) == 1 - current

(* sched_select_next, of a task that is runnable itself. *)
NextTask(st) == IF st[1 - current] = "RUNNABLE" THEN 1 - current ELSE current

Switch ==
    /\ current \in Tasks
    /\ LET st == [state EXCEPT ![current] = "RUNNABLE"]
       IN  Dispatch(NextTask(st), st, [frame EXCEPT ![current] = here])

(* sched_tick, from the timer or from SYS_YIELD. *)
SchedTick ==
    /\ at = "sched"
    /\ Start \/ Switch
    /\ UNCHANGED <<user, bootStep, machine, irr, isr, ticks, here, tssHolds>>

-----------------------------------------------------------------------------
(* System calls and faults *)

(* int 0x80 of task 1, the user task or the worker. *)
Syscall ==
    /\ at = "task" /\ current = 1
    /\ Undisturbed
    /\ Enter("syscall")
    /\ UNCHANGED <<user, bootStep, machine, irr, isr, ticks, scheduler>>

SyscallReturns ==
    /\ at = "syscall"
    /\ Resume(here)
    /\ UNCHANGED <<user, bootStep, machine, irr, isr, ticks, scheduler, here, tssHolds>>

SyscallYields ==
    /\ at = "syscall"
    /\ at' = "sched"
    /\ UNCHANGED <<user, bootStep, depth, iflag, machine, irr, isr, ticks, scheduler, here, tssHolds>>

(* SYS_EXEC that succeeds: a first frame again. *)
SyscallExecs ==
    /\ at = "syscall" /\ user
    /\ frame' = [frame EXCEPT ![1] = FirstFrame]
    /\ Resume(FirstFrame)
    /\ UNCHANGED <<user, bootStep, machine, irr, isr, ticks, state, current, here, tssHolds>>

(* SYS_EXIT. *)
SyscallExits ==
    /\ at = "syscall" /\ user
    /\ Dispatch(0, [state EXCEPT ![1] = "DONE"], frame)
    /\ UNCHANGED <<user, bootStep, machine, irr, isr, ticks, here, tssHolds>>

(* A fault of the user task, or of the kernel on its behalf. *)
Fault ==
    /\ user /\ current = 1
    /\ at \in {"task", "syscall"}
    /\ Undisturbed
    /\ Enter("trap")
    /\ UNCHANGED <<user, bootStep, machine, irr, isr, ticks, scheduler>>

\* Mutant: hlt with interrupts as they were before the trap.
HaltedIf_Restored == here.flag

(* kernel_trap writes its report, and arch_halt_forever starts with cli.   *)
HaltedIf == FALSE
Trapped ==
    /\ at = "trap"
    /\ at' = "halted"
    /\ iflag' = HaltedIf
    /\ UNCHANGED <<user, bootStep, depth, machine, irr, isr, ticks, scheduler, here, tssHolds>>

-----------------------------------------------------------------------------
(* What the firmware leaves. *)
Init ==
    /\ user \in BOOLEAN
    /\ bootStep = 1
    /\ at = "boot"
    /\ depth = 0
    /\ iflag = FALSE
    /\ gates = {}
    /\ rsp0 = FALSE
    /\ base = FirmwareBase
    /\ mask \in SUBSET Lines
    /\ irr = {}
    /\ isr \in {{}, {Timer}}
    /\ reload = 0
    /\ ticks = 0
    /\ state = [t \in Tasks |-> "UNUSED"]
    /\ current = NoTask
    /\ frame = [t \in Tasks |-> FirstFrame]
    /\ here = FirstFrame
    /\ tssHolds = NoTask

Boot ==
    \/ gdt_initialize \/ idt_initialize \/ gdt_set_tss_rsp0 \/ pic_initialize
    \/ pit_initialize \/ sched_initialize \/ arch_enable_interrupts

Handler ==
    \/ CountTick \/ EndOfInterrupt \/ SchedTick
    \/ SyscallReturns \/ SyscallYields \/ SyscallExecs \/ SyscallExits \/ Trapped

Next ==
    \/ Boot \/ BootFails
    \/ Interrupt
    \/ Handler
    \/ Syscall \/ Fault
    \/ \E irq \in Devices : Request(irq)

(* The CPU goes on, and the timer keeps requesting once it is programmed;  *)
(* nothing is assumed of the other devices or of what tasks do.            *)
Fairness ==
    /\ WF_vars(Boot)
    /\ WF_vars(Interrupt)
    /\ WF_vars(Handler)
    /\ WF_vars(reload # 0 /\ Request(Timer))

Spec == Init /\ [][Next]_vars /\ Fairness

-----------------------------------------------------------------------------
(* Properties *)

Frame == [flag : BOOLEAN, stack : {"own", "tss"}]

(* Every variable has its type. *)
TypeOK ==
    /\ user \in BOOLEAN
    /\ bootStep \in 1..8
    /\ at \in {"boot", "task", "irq_count", "irq_eoi", "sched", "syscall", "trap", "halted",
               "stray", "sched_fail"}
    /\ depth \in 0..2
    /\ iflag \in BOOLEAN /\ rsp0 \in BOOLEAN
    /\ gates \subseteq Vectors
    /\ base \in {FirmwareBase, 32}
    /\ mask \subseteq Lines
    /\ irr \subseteq Devices /\ isr \subseteq Devices
    /\ reload \in 0..MaxReload
    /\ ticks \in 0..(TickCount - 1)
    /\ state \in [Tasks -> {"UNUSED", "RUNNABLE", "RUNNING", "DONE"}]
    /\ current \in {0, 1, NoTask}
    /\ frame \in [Tasks -> Frame]
    /\ here \in Frame
    /\ tssHolds \in {0, 1, NoTask}

(* Handlers do not nest, and one that was entered is left before its task  *)
(* goes on: a gate that left IF set would let the timer interrupt a system *)
(* call after the EOI, and sched_tick save the middle of a handler.        *)
HandlersDoNotNest ==
    /\ at \in {"irq_count", "irq_eoi", "sched", "syscall"} => depth = 1
    /\ at \in {"boot", "task"} => depth = 0

(* Whatever interrupts the firmware left enabled and whenever devices ask  *)
(* for one, the first that is accepted finds a gate for its vector, a ring *)
(* 0 stack and tasks to run, and so do all others: kernel_main may enable  *)
(* interrupts only after everything else.                                  *)
InterruptsFindKernelReady == at \notin {"stray", "sched_fail"}

(* A saved frame on the TSS stack is the one at its top: no entry from     *)
(* ring 3 overwrites the frame of a task that waits.                       *)
SavedFramesIntact ==
    \A t \in Tasks : (state[t] = "RUNNABLE" /\ frame[t].stack = "tss") => tssHolds = t

(* A task always runs with interrupts enabled, however the CPU came to it: *)
(* the frames of the timer, of a yield, of exec and of a first dispatch    *)
(* all restore IF, without which the idle task would sleep for ever.       *)
TasksAreInterruptible == at = "task" => iflag

(* A timer request is handled, whatever the CPU does when it comes: none   *)
(* is left in the controller for ever, not even while a program calls the  *)
(* kernel without end.  Modules Process and UserPrograms assume this as    *)
(* strong fairness of Tick.                                                *)
LatchedTickIsHandled ==
    (Timer \in irr /\ reload # 0) ~> (at \in {"irq_count", "halted"})

(* The CPU as module TwoTasks sees it. *)
Phase ==
    CASE at = "boot" -> IF iflag THEN "running" ELSE "boot"
      [] at \in {"task", "irq_count", "irq_eoi", "sched"} -> "running"
      [] at = "syscall" -> "kernel"
      [] OTHER -> "halted"
Scheduler == INSTANCE TwoTasks WITH phase <- Phase

(* The interrupt path implements the two-task scheduler: entry, EOI and    *)
(* return leave the tasks alone, and every switch is one of TwoTasks.      *)
ImplementsTwoTasks == Scheduler!Spec

(* On this hardware every runnable task gets its turn, with fairness of    *)
(* the CPU and the timer only.                                             *)
TurnsCome == Scheduler!EveryTurnComes

(* Contexts are kept apart: handlers do not nest, no saved frame is        *)
(* overwritten, and every task that goes on can be interrupted again.      *)
ContextsSound == TypeOK /\ HandlersDoNotNest /\ SavedFramesIntact /\ TasksAreInterruptible
=============================================================================
