------------------------------ MODULE TwoTasks -------------------------------
(***************************************************************************)
(* What the scheduler of kernel/sched.c promises, without memory, page     *)
(* tables, frames or interrupt hardware: two tasks take turns on one CPU.  *)
(* Modules Process and Interrupts are both shown to implement it, the      *)
(* first for the memory that tasks own, the second for the interrupts that *)
(* switch them.                                                            *)
(***************************************************************************)
EXTENDS Integers

VARIABLES
    state,      \* task->state
    current,    \* the task that runs, or NoTask before the first switch
    phase       \* where the CPU is: "boot", "running" a task, in a "kernel"
                \* call of the current task, or "halted"

vars == <<state, current, phase>>

Tasks == {0, 1}
NoTask == 2

Init ==
    /\ state = [t \in Tasks |-> "UNUSED"]
    /\ current = NoTask
    /\ phase = "boot"

(* Tasks come into being before the first one runs. *)
Create(ts) ==
    /\ phase = "boot"
    /\ \A t \in ts : state[t] = "UNUSED"
    /\ state' = [t \in Tasks |-> IF t \in ts THEN "RUNNABLE" ELSE state[t]]
    /\ phase' = "running" => \A t \in Tasks : state'[t] = "RUNNABLE"
    /\ phase' \in {"boot", "running"}
    /\ UNCHANGED current

Start(t) ==
    /\ phase = "running"
    /\ current = NoTask
    /\ current' = t
    /\ state' = [state EXCEPT ![t] = "RUNNING"]
    /\ UNCHANGED phase

(* The timer or a yield: the other task's turn, if it can run. *)
Switch ==
    /\ phase \in {"running", "kernel"}
    /\ current \in Tasks
    /\ LET next == IF state[1 - current] = "RUNNABLE" THEN 1 - current ELSE current
       IN  /\ current' = next
           /\ state' = [state EXCEPT ![current] = "RUNNABLE", ![next] = "RUNNING"]
    /\ phase' = "running"

(* A system call that comes back to its caller. *)
Call == phase = "running" /\ current = 1 /\ phase' = "kernel" /\ UNCHANGED <<state, current>>
Return == phase = "kernel" /\ phase' = "running" /\ UNCHANGED <<state, current>>

(* Task 1 ends, and task 0 runs for good; the kernel may go on releasing   *)
(* what the task owned.                                                    *)
Exit ==
    /\ phase \in {"running", "kernel"}
    /\ current = 1
    /\ state[0] = "RUNNABLE"
    /\ state' = [state EXCEPT ![1] = "DONE", ![0] = "RUNNING"]
    /\ current' = 0
    /\ phase' \in {"running", "kernel"}

Halt == phase' = "halted" /\ UNCHANGED <<state, current>>

Next ==
    \/ \E ts \in SUBSET Tasks : Create(ts)
    \/ \E t \in Tasks : Start(t)
    \/ Switch \/ Call \/ Return \/ Exit \/ Halt

Spec == Init /\ [][Next]_vars

(* Nobody waits for ever while the machine runs. *)
EveryTurnComes ==
    \A t \in Tasks : state[t] = "RUNNABLE" ~> (state[t] = "RUNNING" \/ phase = "halted")
=============================================================================
