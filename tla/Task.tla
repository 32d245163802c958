-------------------------------- MODULE Task --------------------------------
(***************************************************************************)
(* The task scheduler: task.c, with the interrupt 32 path that runs it     *)
(* (irq_handler in idt.c, timer_irq_callback in timer.c).                  *)
(*                                                                         *)
(* A task is known by its id: 0 is main_task, i > 0 is task_pool[i - 1].   *)
(* This module holds the scheduler's variables and operations.  Scheduler  *)
(* runs them under arbitrary tasks, KernelTasks under the kernel's own.    *)
(***************************************************************************)
EXTENDS Integers

CONSTANTS
  TASK_POOL_SIZE,   \* slots of task_pool (8 in the code)
  TICK_MOD          \* tick counters wrap at this value (2^32 in the code)

ASSUME TaskAssumption ==
  /\ TASK_POOL_SIZE \in Nat
  /\ TICK_MOD \in Nat \ {0}

VARIABLES
  current_task,   \* the task whose stack the CPU is on
  pool_index,     \* slots of task_pool handed out so far
  next,           \* the circular list
  priority,
  state,
  sleep_ticks,
  cpu_ticks,
  timer_ticks     \* timer.c's tick counter

taskVars == <<current_task, pool_index, next, priority, state, sleep_ticks,
              cpu_ticks, timer_ticks>>

Tasks == 0 .. TASK_POOL_SIZE
main == 0
TaskState == {"READY", "SLEEPING", "BLOCKED", "ZOMBIE"}

\* The tasks created so far.  The do/while loops of schedule() walk the list
\* from current_task; that they visit exactly these is Scheduler!RingInv.
Live == 0 .. pool_index

task_count == pool_index + 1

-----------------------------------------------------------------------------
\* State of the scheduler before and after init_tasking().
init_tasking ==
  /\ current_task = main
  /\ pool_index = 0
  /\ next = [t \in Tasks |-> main]
  /\ priority = [t \in Tasks |-> IF t = main THEN 1 ELSE 0]
  /\ state = [t \in Tasks |-> "READY"]
  /\ sleep_ticks = [t \in Tasks |-> 0]
  /\ cpu_ticks = [t \in Tasks |-> 0]
  /\ timer_ticks = 0

\* Mutant: the new task keeps the null `next' of its slot's reset (here main).
create_task_unlinked(p) ==
  LET nt == pool_index + 1 IN
  /\ pool_index < TASK_POOL_SIZE
  /\ pool_index' = nt
  /\ priority' = [priority EXCEPT ![nt] = p]
  /\ next' = [next EXCEPT ![current_task] = nt]
  /\ UNCHANGED <<state, sleep_ticks, cpu_ticks, current_task, timer_ticks>>

\* Mutant: the pool's bound is off by one.
create_task_past_end(p) ==
  /\ pool_index <= TASK_POOL_SIZE
  /\ pool_index' = pool_index + 1
  /\ UNCHANGED <<next, priority, state, sleep_ticks, cpu_ticks, current_task, timer_ticks>>

\* create_task(entry, p): take the next slot, link it after current_task.
\* A full pool is the early return of the code: no step.
create_task(p) ==
  LET nt == pool_index + 1 IN
  /\ pool_index < TASK_POOL_SIZE
  /\ pool_index' = nt
  /\ priority' = [priority EXCEPT ![nt] = p]
  /\ state' = [state EXCEPT ![nt] = "READY"]
  /\ sleep_ticks' = [sleep_ticks EXCEPT ![nt] = 0]
  /\ cpu_ticks' = [cpu_ticks EXCEPT ![nt] = 0]
  /\ next' = [next EXCEPT ![nt] = next[current_task], ![current_task] = nt]
  /\ UNCHANGED <<current_task, timer_ticks>>

-----------------------------------------------------------------------------
(* schedule(), loop 1: every sleeper's counter drops by one; a sleeper     *)
(* whose counter is then 0 is READY.  The caller is visited too.           *)

\* Mutant: the last tick is not counted.
TicksLeft_above1(t) == IF t \in Live /\ state[t] = "SLEEPING" /\ sleep_ticks[t] > 1
                       THEN sleep_ticks[t] - 1
                       ELSE sleep_ticks[t]

TicksLeft(t) == IF t \in Live /\ state[t] = "SLEEPING" /\ sleep_ticks[t] > 0
                THEN sleep_ticks[t] - 1
                ELSE sleep_ticks[t]

\* Mutant: the counter is tested before it is decremented.
Woken_late(t) == IF t \in Live /\ state[t] = "SLEEPING" /\ sleep_ticks[t] = 0
                 THEN "READY"
                 ELSE state[t]

Woken(t) == IF t \in Live /\ state[t] = "SLEEPING" /\ TicksLeft(t) = 0
            THEN "READY"
            ELSE state[t]

(* schedule(), loop 2: the first task of highest priority, among the READY *)
(* ones of priority above 0, in list order from current_task->next.        *)

\* Mutant: the walk starts at current_task.
Visit_from_current(k) ==
  LET walk[i \in 0 .. k] == IF i = 0 THEN current_task ELSE next[walk[i - 1]]
  IN walk[k]

\* The task k links after current_task->next.
Visit(k) ==
  LET walk[i \in 0 .. k] ==
        IF i = 0 THEN next[current_task] ELSE next[walk[i - 1]]
  IN walk[k]

Hops(t) == CHOOSE k \in 0 .. pool_index : Visit(k) = t

\* Mutants: the states from before loop 1; no look at the state; best_prio
\* starts at 1.
Eligible_stale == {t \in Live : state[t] = "READY" /\ priority[t] > 0}
Eligible_any == {t \in Live : priority[t] > 0}
Eligible_above1 == {t \in Live : Woken(t) = "READY" /\ priority[t] > 1}

Eligible == {t \in Live : Woken(t) = "READY" /\ priority[t] > 0}

TopPriority == {t \in Eligible : \A u \in Eligible : priority[u] <= priority[t]}

\* Where schedule() leaves current_task: a singleton.
Best == IF Eligible = {}
        THEN {current_task}
        ELSE {t \in TopPriority : \A u \in TopPriority : Hops(t) <= Hops(u)}

\* schedule(): both loops and the accounting of the tick to the chosen task.
\* The saved esp is the task's own program counter in the client modules.
schedule ==
  \E t \in Best :
    /\ current_task' = t
    /\ cpu_ticks' = [cpu_ticks EXCEPT ![t] = (@ + 1) % TICK_MOD]
    /\ state' = [u \in Tasks |-> Woken(u)]
    /\ sleep_ticks' = [u \in Tasks |-> TicksLeft(u)]
    /\ UNCHANGED <<pool_index, next, priority>>

\* timer_irq_callback(): every interrupt 32 counts, the PIT's and `int $32'.
timer_irq_callback == timer_ticks' = (timer_ticks + 1) % TICK_MOD

\* irq_handler() for vector 32.  Interrupts are off throughout: one step.
irq_handler32 == timer_irq_callback /\ schedule

\* task_sleep(n), n > 0, up to its `int $32'.  The two stores commute with
\* everything an interrupt between them can do, so they are one step.
task_sleep_mark(t, n) ==
  /\ sleep_ticks' = [sleep_ticks EXCEPT ![t] = n]
  /\ state' = [state EXCEPT ![t] = "SLEEPING"]
  /\ UNCHANGED <<current_task, pool_index, next, priority, cpu_ticks, timer_ticks>>

TaskTypeOK ==
  /\ pool_index \in 0 .. TASK_POOL_SIZE
  /\ current_task \in Live
  /\ next \in [Tasks -> Tasks]
  /\ priority \in [Tasks -> Nat]
  /\ state \in [Tasks -> TaskState]
  /\ sleep_ticks \in [Tasks -> Nat]
  /\ cpu_ticks \in [Tasks -> 0 .. TICK_MOD - 1]
  /\ timer_ticks \in 0 .. TICK_MOD - 1
=============================================================================
