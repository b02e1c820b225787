-------------------------- MODULE InterruptsProofs ---------------------------
(***************************************************************************)
(* The interrupt path, for every count of ticks, every mask the firmware   *)
(* leaves and every order of requests: no interrupt finds the kernel       *)
(* unprepared, handlers do not nest, saved frames stay intact and tasks    *)
(* run with IF set; and every step is one of TwoTasks or a stutter.        *)
(*                                                                         *)
(* None of these is inductive as it stands.  That the first interrupt      *)
(* finds a gate rests on what each step of kernel_main has left behind     *)
(* (PreparedInv) and on IF being clear until the last of them (FlagInv);   *)
(* that a task goes on with IF set rests on the flags of every frame that  *)
(* can still be restored (FrameInv).                                       *)
(***************************************************************************)
EXTENDS Interrupts, TLAPS

InTimer == {"irq_count", "irq_eoi"}
InHandler == InTimer \cup {"sched", "syscall"}

(* What kernel_main has set up before its next step. *)
PreparedInv ==
    /\ bootStep > 2 => gates = {6, 13, 14, 32, 128}
    /\ bootStep > 3 => rsp0 = TRUE
    /\ bootStep > 4 => base = 32 /\ mask = {Keyboard, Clock}
    /\ at \notin {"boot", "halted"} => bootStep = 8

(* IF is set for tasks and for kernel_main in its last hlt, and nowhere    *)
(* else.                                                                   *)
FlagInv ==
    /\ at = "boot" /\ bootStep < 8 => iflag = FALSE
    /\ at = "boot" /\ bootStep = 8 => iflag = TRUE
    /\ at = "task" => iflag = TRUE
    /\ at \notin {"boot", "task"} => iflag = FALSE

(* Once the controllers are programmed a request is in service from the    *)
(* timer's entry to its EOI only.                                          *)
ServiceInv == bootStep > 4 => isr = IF at \in InTimer THEN {Timer} ELSE {}

DepthInv ==
    /\ at \in {"boot", "task"} => depth = 0
    /\ at \in InHandler => depth = 1
    /\ at = "trap" => depth \in {1, 2}

(* Every frame that iretq can still take has IF set, and the one on the    *)
(* TSS stack is task 1's.                                                  *)
FrameInv ==
    /\ \A t \in Tasks : frame[t].flag = TRUE
    /\ at \in InHandler => here.flag = TRUE
    /\ at \in InHandler /\ here.stack = "tss" => current = 1 /\ tssHolds = 1
    /\ frame[0].stack = "own"
    /\ frame[1].stack = "tss" => tssHolds = 1
    /\ tssHolds \in {1, NoTask}

(* One task runs and the other waits, unless it has ended. *)
TaskInv ==
    /\ bootStep <= 6 => state = [t \in Tasks |-> "UNUSED"] /\ current = NoTask
    /\ bootStep > 6 /\ current = NoTask => state = [t \in Tasks |-> "RUNNABLE"]
    /\ current = 0 => state[0] = "RUNNING" /\ state[1] \in {"RUNNABLE", "DONE"}
    /\ current = 1 => state[1] = "RUNNING" /\ state[0] = "RUNNABLE"
    /\ at = "boot" => current = NoTask
    /\ at = "task" => current \in Tasks
    /\ at \in {"syscall", "trap"} => current = 1

IInv ==
    /\ TypeOK /\ InterruptsFindKernelReady
    /\ PreparedInv /\ FlagInv /\ ServiceInv /\ DepthInv /\ FrameInv /\ TaskInv

(* The step of kernel_main that comes next is the one at its index. *)
LEMMA BootIndex ==
  ASSUME TypeOK
  PROVE  /\ Boots("gdt") => bootStep = 1
         /\ Boots("idt") => bootStep = 2
         /\ Boots("rsp0") => bootStep = 3
         /\ Boots("pic") => bootStep = 4
         /\ Boots("pit") => bootStep = 5
         /\ Boots("sched") => bootStep = 6
         /\ Boots("sti") => bootStep = 7
<1>1. bootStep \in 1..8
  BY DEF TypeOK
<1>2. Len(BootOrder) = 7
  BY DEF BootOrder
<1>3. /\ BootOrder[1] = "gdt" /\ BootOrder[2] = "idt" /\ BootOrder[3] = "rsp0"
      /\ BootOrder[4] = "pic" /\ BootOrder[5] = "pit" /\ BootOrder[6] = "sched"
      /\ BootOrder[7] = "sti"
  BY DEF BootOrder
<1>4. ASSUME NEW s, Boots(s)
      PROVE  bootStep \in 1..7 /\ BootOrder[bootStep] = s
  BY <1>1, <1>2, <1>4 DEF Boots
<1> QED BY <1>3, <1>4

(* The divisor that pit_initialize writes fits the timer's 16 bits. *)
LEMMA DivisorRange == Divisor(100) \in 0..MaxReload /\ 0 \in 0..MaxReload
<1>1. \A a \in Nat : a \div 100 \in Nat
  BY SMT
<1>2. PitInput \in Nat /\ MaxReload \in Nat /\ 1 <= MaxReload
  BY SMT DEF PitInput, MaxReload
<1>3. PitInput \div 100 \in Nat
  BY <1>1, <1>2
<1> QED BY <1>2, <1>3, SMT DEF Divisor

(* The gates that idt_initialize sets are vectors of the table. *)
LEMMA GateRange == {6, 13, 14, 32, 128} \subseteq Vectors
BY SMT DEF Vectors

LEMMA InitInv == Init => IInv
<1> SUFFICES ASSUME Init PROVE IInv
  OBVIOUS
<1> USE DEF Init
<1>1. FirstFrame \in Frame /\ frame \in [Tasks -> Frame]
  BY DEF FirstFrame, Frame
<1>2. ticks \in 0..(TickCount - 1)
  BY TickCountAssumption
<1>3. TypeOK
  <2>1. iflag \in BOOLEAN /\ rsp0 \in BOOLEAN /\ user \in BOOLEAN
    OBVIOUS
  <2>2. irr \subseteq Devices /\ isr \subseteq Devices /\ mask \subseteq Lines
    BY DEF Devices
  <2>3. bootStep \in 1..8 /\ depth \in 0..2 /\ reload \in 0..MaxReload /\ gates \subseteq Vectors
    BY DivisorRange
  <2> QED BY <1>1, <1>2, <2>1, <2>2, <2>3 DEF TypeOK, Tasks, NoTask
<1>4. PreparedInv /\ ServiceInv /\ DepthInv /\ InterruptsFindKernelReady
  BY DEF PreparedInv, ServiceInv, DepthInv, InterruptsFindKernelReady, InHandler, InTimer
<1>6. FlagInv
  BY DEF FlagInv
<1>5. FrameInv /\ TaskInv
  BY DEF FrameInv, TaskInv, FirstFrame, Tasks, NoTask, InHandler, InTimer
<1> QED BY <1>3, <1>4, <1>5, <1>6 DEF IInv

LEMMA BootInv == IInv /\ Boot => IInv'
<1> SUFFICES ASSUME IInv, Boot PROVE IInv'
  OBVIOUS
<1>1. TypeOK
  BY DEF IInv
<1>2. at = "boot" /\ at' = "boot" /\ bootStep \in 1..7 /\ bootStep' = bootStep + 1
  BY <1>1, BootIndex DEF Boot, gdt_initialize, idt_initialize, gdt_set_tss_rsp0,
     pic_initialize, pit_initialize, sched_initialize, arch_enable_interrupts, Boots
<1> USE DEF IInv, TypeOK, InterruptsFindKernelReady, PreparedInv, FlagInv, ServiceInv,
            DepthInv, FrameInv, TaskInv, InHandler, InTimer
<1>3. CASE gdt_initialize
  <2>1. bootStep = 1 /\ bootStep' = 2
    BY <1>1, <1>2, <1>3, BootIndex DEF gdt_initialize
  <2>2. rsp0' \in BOOLEAN
    BY <1>3 DEF gdt_initialize
  <2> QED BY <1>2, <1>3, <2>1, <2>2 DEF gdt_initialize, scheduler
<1>4. CASE idt_initialize
  BY <1>1, <1>2, <1>4, BootIndex, GateRange DEF idt_initialize, scheduler
<1>5. CASE gdt_set_tss_rsp0
  BY <1>1, <1>2, <1>5, BootIndex DEF gdt_set_tss_rsp0, scheduler
<1>6. CASE pic_initialize
  <2>1. Masked = {Keyboard, Clock} /\ Masked \subseteq Lines
    BY DEF Masked, Lines, Devices, Timer, Keyboard, Cascade, Clock
  <2> QED BY <1>1, <1>2, <1>6, <2>1, BootIndex DEF pic_initialize, scheduler
<1>7. CASE pit_initialize
  BY <1>1, <1>2, <1>7, BootIndex, DivisorRange DEF pit_initialize, scheduler
<1>8. CASE sched_initialize
  BY <1>1, <1>2, <1>8, BootIndex
  DEF sched_initialize, machine, FirstFrame, Frame, Tasks, NoTask
<1>9. CASE arch_enable_interrupts
  BY <1>1, <1>2, <1>9, BootIndex DEF arch_enable_interrupts, machine, scheduler
<1> QED BY <1>3, <1>4, <1>5, <1>6, <1>7, <1>8, <1>9 DEF Boot

LEMMA BootFailsInv == IInv /\ BootFails => IInv'
BY DEF IInv, TypeOK, InterruptsFindKernelReady, PreparedInv, FlagInv, ServiceInv, DepthInv,
   FrameInv, TaskInv, InHandler, InTimer, BootFails, machine, scheduler

LEMMA RequestInv == IInv /\ (\E irq \in Devices : Request(irq)) => IInv'
BY DEF IInv, TypeOK, InterruptsFindKernelReady, PreparedInv, FlagInv, ServiceInv, DepthInv,
   FrameInv, TaskInv, InHandler, InTimer, Request, machine, scheduler

(* With IF set everything but the timer is masked and nothing is in        *)
(* service.                                                                *)
LEMMA OnlyTheTimer ==
  ASSUME IInv, iflag, Deliverable # {}
  PROVE  /\ Highest(Deliverable) = Timer
         /\ bootStep = 8 /\ at \in {"boot", "task"} /\ isr = {}
<1>1. bootStep = 8 /\ at \in {"boot", "task"}
  BY DEF IInv, TypeOK, FlagInv, PreparedInv
<1>2. isr = {} /\ mask = {Keyboard, Clock} /\ irr \subseteq Devices
  BY <1>1 DEF IInv, TypeOK, ServiceInv, InTimer, PreparedInv
<1>3. Deliverable = {Timer}
  BY <1>2 DEF Deliverable, Unmasked, Devices, Timer, Keyboard, Clock
<1>4. Highest(Deliverable) = Timer
  BY <1>3 DEF Highest, Timer
<1> QED BY <1>1, <1>2, <1>4

(* The frame an entry pushes has the flags of what it interrupts, and lies *)
(* on the TSS stack only when task 1 was in ring 3.                        *)
Entered(step) ==
    /\ at' = step /\ depth' = depth + 1 /\ iflag' = FALSE /\ iflag' \in BOOLEAN
    /\ here' \in Frame /\ here'.flag = iflag
    /\ here'.stack = "tss" => current = 1 /\ tssHolds' = 1
    /\ tssHolds' \in {1, NoTask}
    /\ tssHolds = 1 => tssHolds' = 1

LEMMA EnterFacts ==
  ASSUME IInv, NEW step, Enter(step)
  PROVE  Entered(step)
<1> USE DEF Entered
<1>1. iflag \in BOOLEAN /\ tssHolds \in {1, NoTask}
  BY DEF IInv, TypeOK, FrameInv
<1>2. at' = step /\ depth' = depth + 1 /\ iflag' = FALSE /\ iflag' \in BOOLEAN
  BY DEF Enter, IfInHandler
<1>3. CASE Ring3
  <2>1. here' = [flag |-> iflag, stack |-> "tss"] /\ tssHolds' = 1 /\ current = 1
    BY <1>3 DEF Enter, Ring3
  <2> QED BY <1>1, <1>2, <2>1 DEF Frame
<1>4. CASE ~Ring3
  <2>1. here' = [flag |-> iflag, stack |-> "own"] /\ tssHolds' = tssHolds
    BY <1>4 DEF Enter
  <2> QED BY <1>1, <1>2, <2>1 DEF Frame
<1> QED BY <1>3, <1>4

LEMMA InterruptInv == IInv /\ Interrupt => IInv'
<1> SUFFICES ASSUME IInv, Interrupt PROVE IInv'
  OBVIOUS
<1>1. /\ Highest(Deliverable) = Timer /\ isr = {} /\ iflag = TRUE
      /\ bootStep = 8 /\ at \in {"boot", "task"}
  BY OnlyTheTimer DEF Interrupt, IInv, TypeOK
<1>2. base + Timer \in gates /\ rsp0 = TRUE
  BY <1>1 DEF IInv, PreparedInv, Timer
<1>3. Enter("irq_count") /\ isr' = {Timer} /\ irr' \subseteq irr
  BY <1>1, <1>2 DEF Interrupt
<1>4. UNCHANGED <<user, bootStep, machine, ticks, scheduler>>
  BY DEF Interrupt
<1>9. Entered("irq_count")
  BY <1>3, EnterFacts
<1>5. depth' = 1 /\ isr' \subseteq Devices
  BY <1>1, <1>3, <1>9 DEF Entered, IInv, DepthInv, Devices
<1>6. TypeOK'
  BY <1>1, <1>3, <1>4, <1>5, <1>9 DEF Entered, IInv, TypeOK, machine, scheduler
<1>7. (InterruptsFindKernelReady /\ PreparedInv /\ FlagInv /\ ServiceInv /\ DepthInv)'
  BY <1>1, <1>3, <1>4, <1>5, <1>9
  DEF Entered, IInv, InterruptsFindKernelReady, PreparedInv, FlagInv, ServiceInv, DepthInv,
      InHandler, InTimer, machine
<1>8. (FrameInv /\ TaskInv)'
  BY <1>1, <1>3, <1>4, <1>9 DEF Entered, IInv, FrameInv, TaskInv, InHandler, InTimer, scheduler
<1> QED BY <1>6, <1>7, <1>8 DEF IInv

LEMMA SyscallInv == IInv /\ Syscall => IInv'
<1> SUFFICES ASSUME IInv, Syscall PROVE IInv'
  OBVIOUS
<1>1. at = "task" /\ current = 1 /\ Enter("syscall")
  BY DEF Syscall
<1>2. UNCHANGED <<user, bootStep, machine, irr, isr, ticks, scheduler>>
  BY DEF Syscall
<1>9. Entered("syscall")
  BY <1>1, EnterFacts
<1>3. depth' = 1 /\ iflag = TRUE
  BY <1>1, <1>9 DEF Entered, IInv, DepthInv, FlagInv
<1>4. TypeOK'
  BY <1>1, <1>2, <1>3, <1>9 DEF Entered, IInv, TypeOK, machine, scheduler
<1>5. (InterruptsFindKernelReady /\ PreparedInv /\ FlagInv /\ ServiceInv /\ DepthInv)'
  BY <1>1, <1>2, <1>3, <1>9
  DEF Entered, IInv, InterruptsFindKernelReady, PreparedInv, FlagInv, ServiceInv, DepthInv,
      InHandler, InTimer, machine
<1>6. (FrameInv /\ TaskInv)'
  BY <1>1, <1>2, <1>3, <1>9 DEF Entered, IInv, FrameInv, TaskInv, InHandler, InTimer, scheduler
<1> QED BY <1>4, <1>5, <1>6 DEF IInv

LEMMA FaultInv == IInv /\ Fault => IInv'
<1> SUFFICES ASSUME IInv, Fault PROVE IInv'
  OBVIOUS
<1>1. at \in {"task", "syscall"} /\ current = 1 /\ Enter("trap")
  BY DEF Fault
<1>2. UNCHANGED <<user, bootStep, machine, irr, isr, ticks, scheduler>>
  BY DEF Fault
<1>9. Entered("trap")
  BY <1>1, EnterFacts
<1>3. depth' \in {1, 2}
  BY <1>1, <1>9 DEF Entered, IInv, DepthInv, InHandler
<1>4. TypeOK'
  BY <1>1, <1>2, <1>3, <1>9 DEF Entered, IInv, TypeOK, machine, scheduler
<1>5. (InterruptsFindKernelReady /\ PreparedInv /\ FlagInv /\ ServiceInv /\ DepthInv)'
  BY <1>1, <1>2, <1>3, <1>9
  DEF Entered, IInv, InterruptsFindKernelReady, PreparedInv, FlagInv, ServiceInv, DepthInv,
      InHandler, InTimer, machine
<1>6. (FrameInv /\ TaskInv)'
  BY <1>1, <1>2, <1>9 DEF Entered, IInv, FrameInv, TaskInv, InHandler, InTimer, scheduler
<1> QED BY <1>4, <1>5, <1>6 DEF IInv

(* Within the handler: counting, the EOI, a yield and a halt. *)
LEMMA CountTickInv == IInv /\ CountTick => IInv'
<1> SUFFICES ASSUME IInv, CountTick PROVE IInv'
  OBVIOUS
<1>1. ticks' \in 0..(TickCount - 1)
  BY TickCountAssumption DEF CountTick, IInv, TypeOK
<1> QED BY <1>1 DEF IInv, TypeOK, InterruptsFindKernelReady, PreparedInv, FlagInv, ServiceInv,
        DepthInv, FrameInv, TaskInv, InHandler, InTimer, CountTick, machine, scheduler

LEMMA EndOfInterruptInv == IInv /\ EndOfInterrupt => IInv'
<1> SUFFICES ASSUME IInv, EndOfInterrupt PROVE IInv'
  OBVIOUS
<1>1. isr = {Timer}
  BY DEF IInv, PreparedInv, ServiceInv, EndOfInterrupt, InTimer
<1>2. Highest(isr) = Timer
  BY <1>1 DEF Highest, Timer
<1>3. isr' = {}
  BY <1>1, <1>2 DEF EndOfInterrupt, AfterEoi
<1> QED BY <1>3 DEF IInv, TypeOK, InterruptsFindKernelReady, PreparedInv, FlagInv, ServiceInv,
        DepthInv, FrameInv, TaskInv, InHandler, InTimer, EndOfInterrupt, machine, scheduler

LEMMA SyscallYieldsInv == IInv /\ SyscallYields => IInv'
BY DEF IInv, TypeOK, InterruptsFindKernelReady, PreparedInv, FlagInv, ServiceInv, DepthInv,
   FrameInv, TaskInv, InHandler, InTimer, SyscallYields, machine, scheduler

LEMMA TrappedInv == IInv /\ Trapped => IInv'
<1> SUFFICES ASSUME IInv, Trapped PROVE IInv'
  OBVIOUS
<1>1. iflag' = FALSE /\ iflag' \in BOOLEAN
  BY DEF Trapped, HaltedIf
<1>2. TypeOK'
  BY <1>1 DEF IInv, TypeOK, Trapped, machine, scheduler
<1> QED BY <1>1, <1>2 DEF IInv, InterruptsFindKernelReady, PreparedInv, FlagInv, ServiceInv,
        DepthInv, FrameInv, TaskInv, InHandler, InTimer, Trapped, machine, scheduler

(* Whatever handler is left, and for whichever task: its frame has IF set, *)
(* and the frames and states of the two tasks fit one another.             *)
Left ==
    /\ at \in {"sched", "syscall"}
    /\ UNCHANGED <<user, bootStep, machine, irr, isr, ticks, here, tssHolds>>
    /\ at' = "task" /\ depth' = depth - 1 /\ iflag' = TRUE

Fits(st, cur) ==
    /\ st \in [Tasks -> {"UNUSED", "RUNNABLE", "RUNNING", "DONE"}]
    /\ cur \in Tasks
    /\ cur = 0 => st[0] = "RUNNING" /\ st[1] \in {"RUNNABLE", "DONE"}
    /\ cur = 1 => st[1] = "RUNNING" /\ st[0] = "RUNNABLE"

Restorable(f) ==
    /\ f \in [Tasks -> Frame]
    /\ \A t \in Tasks : f[t].flag = TRUE
    /\ f[0].stack = "own"
    /\ f[1].stack = "tss" => tssHolds = 1

LEMMA LeftInv ==
  ASSUME IInv, Left, Fits(state', current'), Restorable(frame')
  PROVE  IInv'
<1>1. bootStep = 8 /\ bootStep' = 8 /\ depth' = 0 /\ iflag' \in BOOLEAN
  BY DEF IInv, PreparedInv, DepthInv, InHandler, Left
<1>2. TypeOK'
  BY <1>1 DEF IInv, TypeOK, Left, Fits, Restorable, Tasks, machine
<1>3. (InterruptsFindKernelReady /\ PreparedInv /\ FlagInv /\ ServiceInv /\ DepthInv)'
  BY <1>1 DEF IInv, InterruptsFindKernelReady, PreparedInv, FlagInv, ServiceInv, DepthInv,
     InHandler, InTimer, Left, machine
<1>4. (FrameInv /\ TaskInv)'
  BY <1>1 DEF IInv, FrameInv, TaskInv, InHandler, InTimer, Left, Fits, Restorable, Tasks, NoTask
<1> QED BY <1>2, <1>3, <1>4 DEF IInv

(* The frames as they are, and with the interrupted one saved. *)
LEMMA FramesRestorable ==
  ASSUME IInv
  PROVE  /\ Restorable(frame)
         /\ at \in InHandler /\ current \in Tasks => Restorable([frame EXCEPT ![current] = here])
         /\ Restorable([frame EXCEPT ![1] = FirstFrame])
         /\ at \in InHandler => here.flag = TRUE
<1>1. Restorable(frame)
  BY DEF IInv, TypeOK, FrameInv, Restorable
<1>2. FirstFrame \in Frame /\ FirstFrame.flag = TRUE /\ FirstFrame.stack = "own"
  BY DEF FirstFrame, Frame
<1>3. Restorable([frame EXCEPT ![1] = FirstFrame])
  BY <1>1, <1>2 DEF Restorable, Tasks
<1>4. ASSUME at \in InHandler, current \in Tasks
      PROVE  Restorable([frame EXCEPT ![current] = here])
  <2>1. here \in Frame /\ here.flag = TRUE /\ (here.stack = "tss" => current = 1 /\ tssHolds = 1)
    BY <1>4 DEF IInv, TypeOK, FrameInv
  <2>2. here.stack \in {"own", "tss"}
    BY <2>1 DEF Frame
  <2> QED BY <1>1, <1>4, <2>1, <2>2 DEF Restorable, Tasks
<1> QED BY <1>1, <1>3, <1>4 DEF IInv, FrameInv

(* sched_tick always finds a task to go on with. *)
LEMMA SchedTickInv == IInv /\ SchedTick => IInv'
<1> SUFFICES ASSUME IInv, SchedTick PROVE IInv'
  OBVIOUS
<1>1. at = "sched" /\ at \in InHandler /\ bootStep = 8
  BY DEF SchedTick, InHandler, IInv, PreparedInv
<1>2. UNCHANGED <<user, bootStep, machine, irr, isr, ticks, here, tssHolds>>
  BY DEF SchedTick
<1>3. ASSUME Start PROVE IInv'
  <2> DEFINE first == IF user THEN 1 ELSE 0
  <2>1. current = NoTask /\ state = [t \in Tasks |-> "RUNNABLE"] /\ first \in Tasks
    BY <1>1, <1>3 DEF Start, IInv, TaskInv, Tasks
  <2>2. Dispatch(first, state, frame)
    BY <1>3, <2>1 DEF Start
  <2>3. Fits(state', current')
    BY <2>1, <2>2 DEF Dispatch, Fits, Tasks
  <2>4. Restorable(frame') /\ frame[first].flag = TRUE
    BY <2>1, <2>2, FramesRestorable DEF Dispatch, Restorable
  <2>5. Left
    BY <1>1, <1>2, <2>2, <2>4 DEF Left, Dispatch, Resume
  <2> QED BY <2>3, <2>4, <2>5, LeftInv
<1>4. ASSUME Switch PROVE IInv'
  <2> DEFINE st == [state EXCEPT ![current] = "RUNNABLE"]
  <2> DEFINE saved == [frame EXCEPT ![current] = here]
  <2>1. current \in Tasks /\ Dispatch(NextTask(st), st, saved)
    BY <1>4 DEF Switch
  <2>2. Fits(state, current)
    BY <2>1 DEF IInv, TypeOK, TaskInv, Fits, Tasks
  <2>3. NextTask(st) \in Tasks /\ Fits([st EXCEPT ![NextTask(st)] = "RUNNING"], NextTask(st))
    BY <2>1, <2>2 DEF Fits, NextTask, Tasks
  <2>4. Restorable(saved)
    BY <1>1, <2>1, FramesRestorable
  <2>5. Fits(state', current') /\ Restorable(frame')
    BY <2>1, <2>3, <2>4 DEF Dispatch
  <2>6. Left
    BY <1>1, <1>2, <2>1, <2>3, <2>4 DEF Left, Dispatch, Resume, Restorable
  <2> QED BY <2>5, <2>6, LeftInv
<1> QED BY <1>3, <1>4 DEF SchedTick

(* A system call that comes back, replaces its program or ends its task. *)
LEMMA SyscallEndsInv == IInv /\ (SyscallReturns \/ SyscallExecs \/ SyscallExits) => IInv'
<1> SUFFICES ASSUME IInv, SyscallReturns \/ SyscallExecs \/ SyscallExits PROVE IInv'
  OBVIOUS
<1>1. at = "syscall" /\ at \in InHandler /\ current = 1 /\ current \in Tasks
  BY DEF SyscallReturns, SyscallExecs, SyscallExits, InHandler, IInv, TaskInv, Tasks
<1>2. UNCHANGED <<user, bootStep, machine, irr, isr, ticks, here, tssHolds>>
  BY DEF SyscallReturns, SyscallExecs, SyscallExits
<1>3. Fits(state, current)
  BY <1>1 DEF IInv, TypeOK, TaskInv, Fits
<1>4. CASE SyscallReturns
  <2>1. Left
    BY <1>1, <1>2, <1>4, FramesRestorable DEF SyscallReturns, Left, Resume
  <2>2. UNCHANGED <<state, current, frame>>
    BY <1>4 DEF SyscallReturns, scheduler
  <2> QED BY <1>3, <2>1, <2>2, FramesRestorable, LeftInv
<1>5. CASE SyscallExecs
  <2>1. Left
    BY <1>1, <1>2, <1>5 DEF SyscallExecs, Left, Resume, FirstFrame
  <2>2. UNCHANGED <<state, current>> /\ frame' = [frame EXCEPT ![1] = FirstFrame]
    BY <1>5 DEF SyscallExecs
  <2> QED BY <1>3, <2>1, <2>2, FramesRestorable, LeftInv
<1>6. CASE SyscallExits
  <2>1. /\ current' = 0 /\ frame' = frame
        /\ state' = [[state EXCEPT ![1] = "DONE"] EXCEPT ![0] = "RUNNING"]
    BY <1>6 DEF SyscallExits, Dispatch
  <2>2. Fits(state', current')
    BY <1>1, <1>3, <2>1 DEF Fits, Tasks
  <2>3. Restorable(frame) /\ frame[0].flag = TRUE
    BY FramesRestorable DEF Restorable, Tasks
  <2>4. Left
    BY <1>1, <1>2, <1>6, <2>3 DEF SyscallExits, Left, Dispatch, Resume
  <2> QED BY <2>1, <2>2, <2>3, <2>4, LeftInv
<1> QED BY <1>4, <1>5, <1>6

LEMMA NextInv == IInv /\ [Next]_vars => IInv'
<1> SUFFICES ASSUME IInv, [Next]_vars PROVE IInv'
  OBVIOUS
<1>1. CASE UNCHANGED vars
  BY <1>1 DEF IInv, TypeOK, InterruptsFindKernelReady, PreparedInv, FlagInv, ServiceInv,
     DepthInv, FrameInv, TaskInv, vars, machine, scheduler
<1>2. CASE Handler
  BY <1>2, CountTickInv, EndOfInterruptInv, SchedTickInv, SyscallYieldsInv, SyscallEndsInv,
     TrappedInv DEF Handler
<1> QED BY <1>1, <1>2, BootInv, BootFailsInv, InterruptInv, SyscallInv, FaultInv, RequestInv
    DEF Next

LEMMA InvHolds == Spec => []IInv
BY InitInv, NextInv, PTL DEF Spec

(* Whatever interrupts the firmware left enabled and whenever devices ask  *)
(* for one, the vector of an accepted one has a gate, there is a ring 0    *)
(* stack and sched_tick finds a task that can run.                         *)
THEOREM KernelIsReady == Spec => []InterruptsFindKernelReady
<1>1. IInv => InterruptsFindKernelReady
  BY DEF IInv
<1> QED BY <1>1, InvHolds, PTL

(* Handlers do not nest, no entry from ring 3 overwrites the frame of a    *)
(* task that waits, and every task that goes on can be interrupted again.  *)
THEOREM ContextsAreSound == Spec => []ContextsSound
<1>1. IInv => ContextsSound
  <2> SUFFICES ASSUME IInv PROVE ContextsSound
    OBVIOUS
  <2>1. TypeOK
    BY DEF IInv
  <2>2. HandlersDoNotNest
    BY DEF IInv, DepthInv, InHandler, InTimer, HandlersDoNotNest
  <2>3. SavedFramesIntact
    BY DEF IInv, FrameInv, SavedFramesIntact, Tasks
  <2>4. TasksAreInterruptible
    BY DEF IInv, FlagInv, TasksAreInterruptible
  <2> QED BY <2>1, <2>2, <2>3, <2>4 DEF ContextsSound
<1> QED BY <1>1, InvHolds, PTL

-----------------------------------------------------------------------------
(* The steps of the interrupt path as steps of TwoTasks. *)

(* Entry, the EOI and the boot steps before the tasks leave them alone and *)
(* the CPU in its phase.                                                   *)
LEMMA StutterStep ==
  ASSUME UNCHANGED <<state, current>>, Phase' = Phase
  PROVE  UNCHANGED (Scheduler!vars)
BY DEF Scheduler!vars

LEMMA BootStep == IInv /\ Boot => [Scheduler!Next]_(Scheduler!vars)
<1> SUFFICES ASSUME IInv, Boot PROVE [Scheduler!Next]_(Scheduler!vars)
  OBVIOUS
<1>1. TypeOK
  BY DEF IInv
<1>2. at = "boot" /\ at' = "boot"
  BY DEF Boot, gdt_initialize, idt_initialize, gdt_set_tss_rsp0, pic_initialize, pit_initialize,
     sched_initialize, arch_enable_interrupts, Boots
<1>3. CASE gdt_initialize \/ idt_initialize \/ gdt_set_tss_rsp0 \/ pic_initialize \/ pit_initialize
  <2>1. UNCHANGED <<state, current, iflag>>
    BY <1>3 DEF gdt_initialize, idt_initialize, gdt_set_tss_rsp0, pic_initialize, pit_initialize,
       scheduler
  <2>2. Phase' = Phase
    BY <1>2, <2>1 DEF Phase
  <2> QED BY <2>1, <2>2, StutterStep
<1>4. CASE sched_initialize
  <2>1. bootStep = 6 /\ bootStep < 8
    BY <1>1, <1>4, BootIndex DEF sched_initialize
  <2>2. iflag = FALSE /\ iflag' = FALSE /\ current' = current
    BY <1>2, <1>4, <2>1 DEF IInv, FlagInv, sched_initialize
  <2>3. Phase = "boot" /\ Phase' = "boot"
    BY <1>2, <2>2 DEF Phase
  <2>4. state = [t \in Tasks |-> "UNUSED"] /\ state' = [t \in Tasks |-> "RUNNABLE"]
    BY <1>4, <2>1 DEF IInv, TaskInv, sched_initialize
  <2>5. Scheduler!Create(Tasks)
    BY <2>2, <2>3, <2>4 DEF Scheduler!Create, Scheduler!Tasks, Tasks
  <2> QED BY <2>5 DEF Scheduler!Next, Scheduler!Tasks, Tasks
<1>5. CASE arch_enable_interrupts
  <2>1. bootStep = 7 /\ bootStep < 8 /\ bootStep > 6
    BY <1>1, <1>5, BootIndex DEF arch_enable_interrupts
  <2>2. iflag = FALSE /\ iflag' = TRUE /\ UNCHANGED <<state, current>>
    BY <1>2, <1>5, <2>1 DEF IInv, FlagInv, arch_enable_interrupts, scheduler
  <2>3. Phase = "boot" /\ Phase' = "running"
    BY <1>2, <2>2 DEF Phase
  <2>4. state = [t \in Tasks |-> "RUNNABLE"]
    BY <1>2, <2>1 DEF IInv, TaskInv
  <2>5. Scheduler!Create({})
    BY <2>2, <2>3, <2>4 DEF Scheduler!Create, Scheduler!Tasks, Tasks
  <2> QED BY <2>5 DEF Scheduler!Next, Scheduler!Tasks
<1> QED BY <1>3, <1>4, <1>5 DEF Boot

Entry == Interrupt \/ CountTick \/ EndOfInterrupt \/ Syscall \/ Fault \/ BootFails \/ Trapped

LEMMA EntryStep == IInv /\ IInv' /\ Entry => [Scheduler!Next]_(Scheduler!vars)
<1> SUFFICES ASSUME IInv, IInv', Entry PROVE [Scheduler!Next]_(Scheduler!vars)
  OBVIOUS
<1>1. UNCHANGED <<state, current>>
  BY DEF Entry, Interrupt, CountTick, EndOfInterrupt, Syscall, Fault, BootFails, Trapped, scheduler
<1>2. CASE Interrupt
  <2>1. iflag /\ at \in {"boot", "task"}
    BY <1>2, OnlyTheTimer DEF Interrupt
  <2>2. at' = "irq_count"
    BY <1>2 DEF Interrupt, Enter, IInv, InterruptsFindKernelReady
  <2>3. Phase' = Phase
    BY <2>1, <2>2 DEF Phase
  <2> QED BY <1>1, <2>3, StutterStep
<1>3. CASE CountTick \/ EndOfInterrupt
  <2>1. Phase' = Phase
    BY <1>3 DEF CountTick, EndOfInterrupt, Phase
  <2> QED BY <1>1, <2>1, StutterStep
<1>4. CASE Syscall
  <2>1. Phase = "running" /\ Phase' = "kernel" /\ current = 1
    BY <1>4 DEF Syscall, Enter, Phase
  <2> QED BY <1>1, <2>1 DEF Scheduler!Next, Scheduler!Call
<1>5. CASE Fault \/ BootFails \/ Trapped
  <2>1. Phase' = "halted"
    BY <1>5 DEF Fault, BootFails, Trapped, Enter, Phase
  <2> QED BY <1>1, <2>1 DEF Scheduler!Next, Scheduler!Halt
<1> QED BY <1>2, <1>3, <1>4, <1>5 DEF Entry

LEMMA SchedTickStep == IInv /\ SchedTick => [Scheduler!Next]_(Scheduler!vars)
<1> SUFFICES ASSUME IInv, SchedTick PROVE Scheduler!Next
  OBVIOUS
<1>1. at = "sched" /\ bootStep = 8
  BY DEF SchedTick, IInv, PreparedInv
<1>2. ASSUME Start PROVE Scheduler!Next
  <2> DEFINE first == IF user THEN 1 ELSE 0
  <2>1. current = NoTask /\ state = [t \in Tasks |-> "RUNNABLE"] /\ first \in Tasks
    BY <1>1, <1>2 DEF Start, IInv, TaskInv, Tasks
  <2>2. Dispatch(first, state, frame)
    BY <1>2, <2>1 DEF Start
  <2>3. Phase = "running" /\ Phase' = "running"
    BY <1>1, <2>2 DEF Phase, Dispatch, Resume
  <2>4. Scheduler!Start(first)
    BY <2>1, <2>2, <2>3 DEF Scheduler!Start, Scheduler!NoTask, NoTask, Dispatch
  <2> QED BY <2>1, <2>4 DEF Scheduler!Next, Scheduler!Tasks, Tasks
<1>3. ASSUME Switch PROVE Scheduler!Next
  <2> DEFINE st == [state EXCEPT ![current] = "RUNNABLE"]
  <2>1. current \in Tasks /\ Dispatch(NextTask(st), st, [frame EXCEPT ![current] = here])
    BY <1>3 DEF Switch
  <2>2. Phase = "running" /\ Phase' = "running"
    BY <1>1, <2>1 DEF Phase, Dispatch, Resume
  <2>3. state \in [Tasks -> {"UNUSED", "RUNNABLE", "RUNNING", "DONE"}]
    BY DEF IInv, TypeOK
  <2>4. st[1 - current] = state[1 - current]
    BY <2>1, <2>3 DEF Tasks
  <2>5. NextTask(st) = IF state[1 - current] = "RUNNABLE" THEN 1 - current ELSE current
    BY <2>4 DEF NextTask
  <2>6. Scheduler!Switch
    BY <2>1, <2>2, <2>5 DEF Scheduler!Switch, Scheduler!Tasks, Tasks, Dispatch
  <2> QED BY <2>6 DEF Scheduler!Next
<1> QED BY <1>2, <1>3 DEF SchedTick

LEMMA SyscallEndsStep ==
  IInv /\ (SyscallReturns \/ SyscallYields \/ SyscallExecs \/ SyscallExits)
    => [Scheduler!Next]_(Scheduler!vars)
<1> SUFFICES ASSUME IInv, SyscallReturns \/ SyscallYields \/ SyscallExecs \/ SyscallExits
             PROVE  Scheduler!Next
  OBVIOUS
<1>1. at = "syscall" /\ at' \in {"task", "sched"}
  BY DEF SyscallReturns, SyscallYields, SyscallExecs, SyscallExits, Dispatch, Resume
<1>2. Phase = "kernel" /\ Phase' = "running"
  BY <1>1 DEF Phase
<1>3. CASE SyscallReturns \/ SyscallYields \/ SyscallExecs
  <2>1. UNCHANGED <<state, current>>
    BY <1>3 DEF SyscallReturns, SyscallYields, SyscallExecs, scheduler
  <2> QED BY <1>2, <2>1 DEF Scheduler!Next, Scheduler!Return
<1>4. CASE SyscallExits
  <2>1. current = 1 /\ state[0] = "RUNNABLE"
    BY <1>1 DEF IInv, TaskInv
  <2>2. current' = 0 /\ state' = [[state EXCEPT ![1] = "DONE"] EXCEPT ![0] = "RUNNING"]
    BY <1>4 DEF SyscallExits, Dispatch
  <2>3. Scheduler!Exit
    BY <1>2, <2>1, <2>2 DEF Scheduler!Exit
  <2> QED BY <2>3 DEF Scheduler!Next
<1> QED BY <1>3, <1>4

(* The interrupt path implements the two-task scheduler: entry, EOI and    *)
(* return leave the tasks alone, and every switch is one of TwoTasks.      *)
THEOREM InterruptsImplementTwoTasks == Spec => ImplementsTwoTasks
<1>1. Init => Scheduler!Init
  <2> SUFFICES ASSUME Init PROVE Scheduler!Init
    OBVIOUS
  <2>1. Phase = "boot"
    BY DEF Init, Phase
  <2> QED BY <2>1 DEF Init, Scheduler!Init, Scheduler!Tasks, Tasks, Scheduler!NoTask, NoTask
<1>2. IInv /\ IInv' /\ [Next]_vars => [Scheduler!Next]_(Scheduler!vars)
  <2> SUFFICES ASSUME IInv, IInv', [Next]_vars PROVE [Scheduler!Next]_(Scheduler!vars)
    OBVIOUS
  <2>1. CASE UNCHANGED vars \/ \E irq \in Devices : Request(irq)
    <3>1. UNCHANGED <<state, current, at, iflag>>
      BY <2>1 DEF vars, scheduler, Request
    <3>2. Phase' = Phase
      BY <3>1 DEF Phase
    <3> QED BY <3>1, <3>2, StutterStep
  <2>2. CASE Handler
    BY <2>2, EntryStep, SchedTickStep, SyscallEndsStep DEF Handler, Entry
  <2> QED BY <2>1, <2>2, BootStep, EntryStep DEF Next, Entry
<1> QED BY <1>1, <1>2, InvHolds, PTL DEF Spec, ImplementsTwoTasks, Scheduler!Spec
=============================================================================
