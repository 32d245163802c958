----------------------------- MODULE KernelTasks -----------------------------
(***************************************************************************)
(* The kernel's own tasks: producers running task_a and consumers running  *)
(* task_b (kernel.c), over queue.c, mutex.c and the scheduler.  The kernel *)
(* starts one of each; the module allows any number.                       *)
(*                                                                         *)
(* A step is what a task does between two points where the timer can       *)
(* preempt it and another task can tell.  A cli..sti section is one step.  *)
(***************************************************************************)
EXTENDS Task, Sequences

CONSTANTS
  Producers,    \* the tasks that run task_a; the others but main run task_b
  Prio,         \* the priority each task was created with
  QUEUE_SIZE,   \* 8 in the code
  VAL_MOD,      \* task_a's counter wraps here (2^32 in the code)
  SleepA,       \* 50 in the code
  SleepB        \* 75 in the code

NULL == -1
Workers == Tasks \ {main}
Consumers == Workers \ Producers

ASSUME KernelTasksAssumption ==
  /\ Producers \subseteq Workers
  /\ Prio \in [Workers -> Nat \ {0}]
  /\ QUEUE_SIZE \in Nat \ {0}
  /\ VAL_MOD \in Nat \ {0}
  /\ SleepA \in Nat \ {0}
  /\ SleepB \in Nat \ {0}

VARIABLES
  owner,               \* per mutex: who holds it; NULL is locked == 0
  data, head, tail, count,   \* msg_queue
  pc,                  \* per task: the next statement
  sl,                  \* per task: where it is in task_sleep
  msg,                 \* task_a's count, task_b's val
  ret                  \* what the task's last queue operation returned

queueVars == <<data, head, tail, count>>
vars == <<taskVars, owner, queueVars, pc, sl, msg, ret>>

Slots == 0 .. QUEUE_SIZE - 1
Mutexes == {"queue", "vga"}

\* The statements inside each mutex.
Section == [queue |-> {"check", "data", "ptr", "count", "unlock"},
            vga   |-> {"draw", "vunlock"}]

\* kernel_main after `sti': queue_init, mutex_init and init_tasking are done
\* and the tasks were created in order, each linked right after main.
Init ==
  /\ current_task = main
  /\ pool_index = TASK_POOL_SIZE
  /\ next = [t \in Tasks |-> IF t = main THEN TASK_POOL_SIZE ELSE t - 1]
  /\ priority = [t \in Tasks |-> IF t = main THEN 1 ELSE Prio[t]]
  /\ state = [t \in Tasks |-> "READY"]
  /\ sleep_ticks = [t \in Tasks |-> 0]
  /\ cpu_ticks = [t \in Tasks |-> 0]
  /\ timer_ticks = 0
  /\ owner = [m \in Mutexes |-> NULL]
  /\ data = [i \in Slots |-> 0]
  /\ head = 0 /\ tail = 0 /\ count = 0
  /\ pc = [t \in Workers |-> "lock"]
  /\ sl = [t \in Workers |-> "off"]
  /\ msg = [t \in Workers |-> 0]
  /\ ret = [t \in Workers |-> FALSE]

-----------------------------------------------------------------------------
(* A task's step: it is on the CPU, at a statement, not inside task_sleep. *)

At(t, l) == current_task = t /\ pc[t] = l /\ sl[t] = "off"
Goto(t, l) == pc' = [pc EXCEPT ![t] = l]

\* Mutant: locked is not tested.
Acquire_always(t, m, from, to) ==
  /\ At(t, from)
  /\ owner' = [owner EXCEPT ![m] = t]
  /\ Goto(t, to)
  /\ UNCHANGED <<taskVars, queueVars, sl, msg, ret>>

\* mutex_lock: one turn of the loop.  The mutex is free ...
Acquire(t, m, from, to) ==
  /\ At(t, from)
  /\ owner[m] = NULL
  /\ owner' = [owner EXCEPT ![m] = t]
  /\ Goto(t, to)
  /\ UNCHANGED <<taskVars, queueVars, sl, msg, ret>>

\* ... or it is not, and task_sleep(1) comes next.
Busy(t, m, from) ==
  /\ At(t, from)
  /\ owner[m] # NULL
  /\ sl' = [sl EXCEPT ![t] = "call"]
  /\ UNCHANGED <<taskVars, owner, queueVars, pc, msg, ret>>

\* Mutant: the test of the owner is inverted.
unlock_inverted(t, m) ==
  owner' = [owner EXCEPT ![m] = IF @ # t THEN NULL ELSE @]

\* mutex_unlock: only the owner's call has an effect.
unlock(t, m) ==
  owner' = [owner EXCEPT ![m] = IF @ = t THEN NULL ELSE @]

\* task_sleep's stores.  A task gets here from mutex_lock or at "sleep".
SleepArg(t) ==
  IF pc[t] # "sleep" THEN 1 ELSE IF t \in Producers THEN SleepA ELSE SleepB

SleepMark(t) ==
  /\ current_task = t
  /\ sl[t] = "call" \/ At(t, "sleep")
  /\ task_sleep_mark(t, SleepArg(t))
  /\ sl' = [sl EXCEPT ![t] = "int"]
  /\ UNCHANGED <<owner, queueVars, pc, msg, ret>>

\* task_sleep's `int $32'; then mutex_lock's next turn, or the while (1)'s.
SleepInt(t) ==
  /\ current_task = t
  /\ sl[t] = "int"
  /\ irq_handler32
  /\ sl' = [sl EXCEPT ![t] = "off"]
  /\ pc' = [pc EXCEPT ![t] = IF @ = "sleep" THEN "lock" ELSE @]
  /\ UNCHANGED <<owner, queueVars, msg, ret>>

-----------------------------------------------------------------------------
(* queue_push and queue_pop, after mutex_lock.                             *)

\* Mutant: off by one.
Full_late == count > QUEUE_SIZE

Full == count >= QUEUE_SIZE
Empty == count = 0

\* The early return: unlock follows.
Refuse(t) ==
  /\ At(t, "check")
  /\ IF t \in Producers THEN Full ELSE Empty
  /\ ret' = [ret EXCEPT ![t] = FALSE]
  /\ Goto(t, "unlock")
  /\ UNCHANGED <<taskVars, owner, queueVars, sl, msg>>

Accept(t) ==
  /\ At(t, "check")
  /\ ~ (IF t \in Producers THEN Full ELSE Empty)
  /\ Goto(t, "data")
  /\ UNCHANGED <<taskVars, owner, queueVars, sl, msg, ret>>

PushData(t) ==
  /\ t \in Producers /\ At(t, "data")
  /\ data' = [data EXCEPT ![tail] = msg[t]]
  /\ Goto(t, "ptr")
  /\ UNCHANGED <<taskVars, owner, head, tail, count, sl, msg, ret>>

\* Mutant: the wrap is missing.
PushTail_nowrap(t) ==
  /\ t \in Producers /\ At(t, "ptr")
  /\ tail' = tail + 1
  /\ Goto(t, "count")
  /\ UNCHANGED <<taskVars, owner, data, head, count, sl, msg, ret>>

PushTail(t) ==
  /\ t \in Producers /\ At(t, "ptr")
  /\ tail' = (tail + 1) % QUEUE_SIZE
  /\ Goto(t, "count")
  /\ UNCHANGED <<taskVars, owner, data, head, count, sl, msg, ret>>

PushCount(t) ==
  /\ t \in Producers /\ At(t, "count")
  /\ count' = count + 1
  /\ ret' = [ret EXCEPT ![t] = TRUE]
  /\ Goto(t, "unlock")
  /\ UNCHANGED <<taskVars, owner, data, head, tail, sl, msg>>

PopData(t) ==
  /\ t \in Consumers /\ At(t, "data")
  /\ msg' = [msg EXCEPT ![t] = data[head]]
  /\ ret' = [ret EXCEPT ![t] = TRUE]
  /\ Goto(t, "ptr")
  /\ UNCHANGED <<taskVars, owner, queueVars, sl>>

PopHead(t) ==
  /\ t \in Consumers /\ At(t, "ptr")
  /\ head' = (head + 1) % QUEUE_SIZE
  /\ Goto(t, "count")
  /\ UNCHANGED <<taskVars, owner, data, tail, count, sl, msg, ret>>

\* Mutant: count is not decremented.
PopCount_missing(t) ==
  /\ t \in Consumers /\ At(t, "count")
  /\ Goto(t, "unlock")
  /\ UNCHANGED <<taskVars, owner, queueVars, sl, msg, ret>>

PopCount(t) ==
  /\ t \in Consumers /\ At(t, "count")
  /\ count' = count - 1
  /\ Goto(t, "unlock")
  /\ UNCHANGED <<taskVars, owner, data, head, tail, sl, msg, ret>>

\* The unlock that ends both.  task_a draws whatever queue_push returned;
\* task_b draws only if queue_pop returned true.
Unlock(t) ==
  /\ At(t, "unlock")
  /\ unlock(t, "queue")
  /\ Goto(t, IF t \in Producers \/ ret[t] THEN "vlock" ELSE "sleep")
  /\ UNCHANGED <<taskVars, queueVars, sl, msg, ret>>

\* terminal_write_dec under vga_mutex.  The screen itself is not modelled.
Draw(t) ==
  /\ At(t, "draw")
  /\ Goto(t, "vunlock")
  /\ UNCHANGED <<taskVars, owner, queueVars, sl, msg, ret>>

\* mutex_unlock(&vga_mutex), and task_a's count++.
VgaUnlock(t) ==
  /\ At(t, "vunlock")
  /\ unlock(t, "vga")
  /\ msg' = IF t \in Producers THEN [msg EXCEPT ![t] = (@ + 1) % VAL_MOD] ELSE msg
  /\ Goto(t, "sleep")
  /\ UNCHANGED <<taskVars, queueVars, sl, ret>>

QueueOp(t) ==
  \/ Refuse(t) \/ Accept(t)
  \/ PushData(t) \/ PushTail(t) \/ PushCount(t)
  \/ PopData(t) \/ PopHead(t) \/ PopCount(t)

TaskStep(t) ==
  \/ Acquire(t, "queue", "lock", "check") \/ Busy(t, "queue", "lock")
  \/ QueueOp(t) \/ Unlock(t)
  \/ Acquire(t, "vga", "vlock", "draw") \/ Busy(t, "vga", "vlock")
  \/ Draw(t) \/ VgaUnlock(t)
  \/ SleepMark(t) \/ SleepInt(t)

\* IRQ 0, at any point outside a cli..sti section.
TimerIrq ==
  /\ irq_handler32
  /\ UNCHANGED <<owner, queueVars, pc, sl, msg, ret>>

Next == TimerIrq \/ \E t \in Workers : TaskStep(t)

Spec == Init /\ [][Next]_vars

\* The PIT keeps firing, and a task executes many instructions per tick: one
\* that is given the CPU again and again gets on.
FairSpec == Spec /\ WF_vars(TimerIrq) /\ \A t \in Workers : SF_vars(TaskStep(t))

-----------------------------------------------------------------------------
\* Every variable keeps its type.
TypeOK ==
  /\ TaskTypeOK
  /\ owner \in [Mutexes -> Workers \cup {NULL}]
  /\ data \in [Slots -> 0 .. VAL_MOD - 1]
  /\ head \in Slots /\ tail \in Slots /\ count \in 0 .. QUEUE_SIZE
  /\ pc \in [Workers -> {"lock", "vlock", "sleep"} \cup Section["queue"] \cup Section["vga"]]
  /\ sl \in [Workers -> {"off", "call", "int"}]
  /\ msg \in [Workers -> 0 .. VAL_MOD - 1]
  /\ ret \in [Workers -> BOOLEAN]

\* A mutex is held by exactly the task inside its section: no two tasks are
\* inside, and no task sleeps in task_a's or task_b's long sleep holding it.
MutualExclusion ==
  \A m \in Mutexes, t \in Workers : pc[t] \in Section[m] <=> owner[m] = t

\* Who is between two of the three assignments of a queue operation.
Inside(S, l) == \E t \in S : pc[t] = l

\* The three counters describe the same buffer, up to the assignments the
\* task inside queue.c has still to make.
QueueConsistent ==
  LET pushed == IF Inside(Producers, "count") THEN 1 ELSE 0
      popped == IF Inside(Consumers, "count") THEN 1 ELSE 0
  IN (head + count + pushed) % QUEUE_SIZE = (tail + popped) % QUEUE_SIZE

\* The messages in msg_queue.  A pop takes effect when it reads the slot.
Messages ==
  LET first == IF Inside(Consumers, "ptr") THEN head + 1 ELSE head
      n == IF Inside(Consumers, "ptr") \/ Inside(Consumers, "count")
           THEN count - 1 ELSE count
  IN [i \in 1 .. n |-> data[(first + i - 1) % QUEUE_SIZE]]

Abstract == INSTANCE Channel WITH
  Senders <- Producers, Receivers <- Consumers, Capacity <- QUEUE_SIZE,
  Values <- 0 .. VAL_MOD - 1, chan <- Messages

\* queue.c implements the bounded FIFO, preemption anywhere included.
ImplementsChannel == Abstract!Spec

\* A mutex that is held is released: mutex.c blocks a waiter, not the owner.
HolderReleases ==
  \A m \in Mutexes, t \in Workers : owner[m] = t ~> owner[m] # t
=============================================================================
