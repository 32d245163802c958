------------------------------ MODULE Scheduler ------------------------------
(***************************************************************************)
(* The scheduler under arbitrary tasks.  kernel_main creates tasks with    *)
(* interrupts off, executes `sti' and becomes the idle task; from then on  *)
(* each task does anything at all except that it may call task_sleep and   *)
(* task_yield, and the timer interrupts it wherever it is.                 *)
(*                                                                         *)
(* What a task computes between those calls does not touch the scheduler's *)
(* state, so a task's program counter has two values: "run", and "int" in  *)
(* the window of task_sleep between its stores and its `int $32', where    *)
(* the task is on the CPU although its state says SLEEPING.                *)
(***************************************************************************)
EXTENDS Task

CONSTANTS
  Priorities,   \* what create_task may be given
  SleepTimes    \* what task_sleep may be given by the tasks created

ASSUME SchedulerAssumption ==
  /\ Priorities \subseteq Nat
  /\ SleepTimes \subseteq Nat \ {0}
  /\ 1 \in SleepTimes

VARIABLES
  phase,      \* "boot": IF = 0; "sti": IF = 1, no interrupt yet; "up"
  pc

vars == <<taskVars, phase, pc>>

Init ==
  /\ init_tasking
  /\ phase = "boot"
  /\ pc = [t \in Tasks |-> "run"]

-----------------------------------------------------------------------------
\* kernel_main's calls of create_task.
CreateTask(p) ==
  /\ phase = "boot"
  /\ create_task(p)
  /\ UNCHANGED <<phase, pc>>

\* kernel_main's `sti'; what follows is the hlt loop.
EnableInterrupts ==
  /\ phase = "boot"
  /\ phase' = "sti"
  /\ UNCHANGED <<taskVars, pc>>

\* task_sleep(n) up to `int $32'.  A sleep of 0 returns at once: no step.
\* main reaches task_sleep only from mutex_lock and sem_wait, in a keyboard
\* interrupt taken in its hlt loop, and those pass 1.
TaskSleep(n) ==
  /\ phase # "boot"
  /\ pc[current_task] = "run"
  /\ current_task = main => n = 1
  /\ task_sleep_mark(current_task, n)
  /\ pc' = [pc EXCEPT ![current_task] = "int"]
  /\ UNCHANGED phase

\* The `int $32' that ends task_sleep.
SleepInt ==
  /\ phase # "boot"
  /\ pc[current_task] = "int"
  /\ pc' = [pc EXCEPT ![current_task] = "run"]
  /\ irq_handler32
  /\ phase' = "up"

TaskYield ==
  /\ phase # "boot"
  /\ pc[current_task] = "run"
  /\ irq_handler32
  /\ phase' = "up"
  /\ UNCHANGED pc

\* IRQ 0: the PIT fires while interrupts are on.
TimerIrq ==
  /\ phase # "boot"
  /\ irq_handler32
  /\ phase' = "up"
  /\ UNCHANGED pc

Next ==
  \/ \E p \in Priorities : CreateTask(p)
  \/ EnableInterrupts
  \/ \E n \in SleepTimes : TaskSleep(n)
  \/ SleepInt
  \/ TaskYield
  \/ TimerIrq

Spec == Init /\ [][Next]_vars

\* The PIT keeps firing once it may; kernel_main reaches its `sti'.  Tasks
\* get no fairness: one may compute for ever.
FairSpec == Spec /\ WF_vars(EnableInterrupts) /\ WF_vars(TimerIrq)

-----------------------------------------------------------------------------
\* Every variable keeps its type.  A task created by create_task is never
\* BLOCKED or ZOMBIE: task.c has no code that puts it there.
TypeOK ==
  /\ TaskTypeOK
  /\ state \in [Tasks -> {"READY", "SLEEPING"}]
  /\ phase \in {"boot", "sti", "up"}
  /\ pc \in [Tasks -> {"run", "int"}]

\* The list is one ring of exactly the created tasks: no link leaves them,
\* and a set of them that the links do not leave is all of them, so both
\* do/while loops of schedule() end and visit every task once.
RingInv ==
  /\ \A t \in Live : next[t] \in Live
  /\ \A S \in SUBSET Live :
       S # {} /\ (\A t \in S : next[t] \in S) => S = Live

\* The idle task is READY at the end of every schedule(), so there is
\* always a task to switch to: the `best == 0' case, in which schedule()
\* returns into a task that is asleep, cannot happen.
AlwaysEligible == phase # "boot" => Eligible # {}

\* The task on the CPU is READY, except in task_sleep's window.
RunningIsReady == state[current_task] = "SLEEPING" => pc[current_task] = "int"

\* Once the first interrupt has been taken no READY task of a higher
\* priority ever waits for the one on the CPU: every way of becoming READY
\* passes through schedule()'s choice.
NoReadyAbove ==
  phase = "up" =>
    \A t \in Live : state[t] = "READY" => priority[t] <= priority[current_task]

\* A task off the CPU is woken by schedule() alone and never early: its
\* state changes only when its last tick is counted, and its counter only
\* by that count.
WakesOnTime ==
  [][\A t \in Live : t # current_task /\ state[t] = "SLEEPING" =>
       \/ sleep_ticks'[t] = sleep_ticks[t] /\ state'[t] = "SLEEPING"
       \/ /\ timer_ticks' = (timer_ticks + 1) % TICK_MOD
          /\ sleep_ticks'[t] = sleep_ticks[t] - 1
          /\ state'[t] = (IF sleep_ticks'[t] = 0 THEN "READY" ELSE "SLEEPING")]_vars

\* Whoever sleeps wakes.
SleeperWakes ==
  \A t \in Tasks : state[t] = "SLEEPING" ~> state[t] = "READY"

\* A READY task of the highest priority gets the CPU: equals alternate,
\* because the second loop starts after current_task and compares with >.
TopPriorityRuns ==
  \A t \in Tasks :
    (/\ t \in Live /\ phase # "boot"
     /\ state[t] = "READY"
     /\ priority[t] > 0
     /\ \A u \in Live : priority[u] <= priority[t]) ~> current_task = t
=============================================================================
