--------------------------- MODULE SchedulerProofs ---------------------------
(***************************************************************************)
(* Proofs about Scheduler, for any pool size, priorities and sleep times.  *)
(***************************************************************************)
EXTENDS MCScheduler, FiniteSetTheorems, ProofBasics

\* main keeps priority 1 and never sleeps longer than the tick that its own
\* `int $32' counts: the next schedule() finds it READY.
MainInv ==
  /\ priority[main] = 1
  /\ state[main] = "SLEEPING" => sleep_ticks[main] = 1

\* The inductive invariant.
IInv ==
  /\ TypeOK
  /\ RingInv
  /\ MainInv
  /\ RunningIsReady
  /\ NoReadyAbove

-----------------------------------------------------------------------------
\* While MainInv holds, main itself is eligible in schedule().
LEMMA MainEligible == TypeOK /\ MainInv => main \in Eligible
<1> SUFFICES ASSUME TypeOK, MainInv PROVE main \in Eligible
  OBVIOUS
<1>1. main \in Live
  BY TaskAssumption DEF TypeOK, TaskTypeOK, Live, main
<1>2. Woken(main) = "READY"
  BY <1>1, TaskAssumption DEF TypeOK, TaskTypeOK, MainInv, Woken, TicksLeft, Tasks, main
<1> QED
  BY <1>1, <1>2 DEF Eligible, MainInv

\* What schedule() leaves behind when some task is eligible: the chosen task
\* is created, READY, and no READY task has a higher priority.
LEMMA ScheduleChoice ==
  ASSUME TypeOK, MainInv, schedule
  PROVE  /\ current_task' \in Live
         /\ state'[current_task'] = "READY"
         /\ \A t \in Live : state'[t] = "READY" => priority[t] <= priority[current_task']
<1>1. Eligible # {}
  BY MainEligible
<1>2. PICK b \in Best : current_task' = b /\ state' = [u \in Tasks |-> Woken(u)]
  BY DEF schedule
<1>3. b \in TopPriority
  BY <1>1, <1>2 DEF Best
<1>4. b \in Eligible /\ \A u \in Eligible : priority[u] <= priority[b]
  BY <1>3 DEF TopPriority
<1>5. Live \subseteq Tasks
  BY TaskAssumption DEF TypeOK, TaskTypeOK, Live, Tasks
<1>6. b \in Live /\ state'[b] = "READY"
  BY <1>2, <1>4, <1>5 DEF Eligible
<1>7. ASSUME NEW t \in Live, state'[t] = "READY" PROVE priority[t] <= priority[b]
  <2>1. Woken(t) = "READY"
    BY <1>2, <1>5, <1>7
  <2>2. CASE priority[t] > 0
    BY <1>4, <2>1, <2>2 DEF Eligible
  <2>3. CASE ~ priority[t] > 0
    BY <1>5, <1>6, <2>3 DEF TypeOK, TaskTypeOK
  <2> QED
    BY <2>2, <2>3
<1> QED
  BY <1>2, <1>6, <1>7

\* schedule() keeps the types.
LEMMA ScheduleType ==
  ASSUME TypeOK, MainInv, schedule
  PROVE  /\ current_task' \in Live
         /\ state' \in [Tasks -> {"READY", "SLEEPING"}]
         /\ sleep_ticks' \in [Tasks -> Nat]
         /\ cpu_ticks' \in [Tasks -> 0 .. TICK_MOD - 1]
<1>1. current_task' \in Live
  BY ScheduleChoice
<1>2. \A t \in Tasks : TicksLeft(t) \in Nat
  BY DEF TypeOK, TaskTypeOK, TicksLeft
<1>3. \A t \in Tasks : Woken(t) \in {"READY", "SLEEPING"}
  BY DEF TypeOK, Woken
<1>4. \A n \in Nat : (n + 1) % TICK_MOD \in 0 .. TICK_MOD - 1
  BY TaskAssumption
<1>5. cpu_ticks' \in [Tasks -> 0 .. TICK_MOD - 1]
  <2>1. PICK b \in Best :
          current_task' = b /\ cpu_ticks' = [cpu_ticks EXCEPT ![b] = (@ + 1) % TICK_MOD]
    BY DEF schedule
  <2>2. b \in Tasks
    BY <1>1, <2>1, TaskAssumption DEF TypeOK, TaskTypeOK, Live, Tasks
  <2>3. (cpu_ticks[b] + 1) % TICK_MOD \in 0 .. TICK_MOD - 1
    BY <1>4, <2>2 DEF TypeOK, TaskTypeOK
  <2> QED
    BY <2>1, <2>2, <2>3 DEF TypeOK, TaskTypeOK
<1> QED
  BY <1>1, <1>2, <1>3, <1>5 DEF schedule

-----------------------------------------------------------------------------
\* Inserting the new task after current_task keeps the list one ring.
LEMMA CreateKeepsRing ==
  ASSUME TypeOK, RingInv, NEW p, create_task(p)
  PROVE  RingInv'
<1> DEFINE nt == pool_index + 1
<1>1. /\ Live' = Live \cup {nt} /\ nt \notin Live /\ Live \subseteq Tasks /\ nt \in Tasks
      /\ current_task \in Live
  <2>1. pool_index \in Nat /\ pool_index < TASK_POOL_SIZE /\ pool_index' = pool_index + 1
    BY TaskAssumption DEF TypeOK, TaskTypeOK, create_task
  <2>2. Live' = Live \cup {nt}
    BY <2>1 DEF Live
  <2>3. nt \notin Live /\ Live \subseteq Tasks /\ nt \in Tasks
    BY <2>1, TaskAssumption DEF Live, Tasks
  <2> QED
    BY <2>2, <2>3 DEF TypeOK, TaskTypeOK
<1>2. /\ next' = [next EXCEPT ![nt] = next[current_task], ![current_task] = nt]
      /\ next \in [Tasks -> Tasks]
  BY DEF create_task, TypeOK, TaskTypeOK
<1>3. /\ next'[current_task] = nt
      /\ next'[nt] = next[current_task]
      /\ \A t \in Live \ {current_task} : next'[t] = next[t]
  BY <1>1, <1>2
<1>4. \A t \in Live : next[t] \in Live
  BY DEF RingInv
<1> HIDE DEF nt
<1>5. \A t \in Live' : next'[t] \in Live'
  BY <1>1, <1>3, <1>4
<1>6. ASSUME NEW S \in SUBSET Live', S # {}, \A t \in S : next'[t] \in S
      PROVE  S = Live'
  <2>1. nt \in S
    <3> SUFFICES ASSUME nt \notin S PROVE FALSE
      OBVIOUS
    <3>1. S \subseteq Live /\ current_task \notin S
      BY <1>1, <1>3, <1>6
    <3>2. \A t \in S : next[t] \in S
      BY <1>3, <1>6, <3>1
    <3> QED
      BY <1>1, <1>6, <3>1, <3>2 DEF RingInv
  <2> DEFINE R == S \ {nt}
  <2>2. R \in SUBSET Live
    BY <1>1
  <2>3. next[current_task] \in R
    BY <1>1, <1>3, <1>4, <1>6, <2>1
  <2>4. \A t \in R : next[t] \in R
    BY <1>1, <1>3, <1>4, <1>6, <2>3
  <2>5. R = Live
    <3> HIDE DEF R
    <3> QED BY <2>2, <2>3, <2>4 DEF RingInv
  <2> QED
    BY <1>1, <2>1, <2>5
<1> QED
  BY <1>5, <1>6 DEF RingInv

\* Interrupt 32, however raised, keeps the invariant once pc and phase are
\* known to be as the three interrupting actions leave them.
LEMMA InterruptStep ==
  ASSUME IInv, irq_handler32, phase' = "up",
         pc' \in [Tasks -> {"run", "int"}]
  PROVE  IInv'
<1> USE DEF irq_handler32
<1>1. UNCHANGED <<pool_index, next, priority>> /\ Live' = Live
  BY DEF schedule, Live
<1>2. TypeOK'
  <2>1. timer_ticks' \in 0 .. TICK_MOD - 1
    BY TaskAssumption DEF timer_irq_callback, IInv, TypeOK, TaskTypeOK
  <2> QED
    BY <1>1, <2>1, ScheduleType DEF IInv, TypeOK, TaskTypeOK, TaskState
<1>3. RingInv'
  BY <1>1 DEF IInv, RingInv
<1>4. MainInv'
  <2>1. Woken(main) = "READY"
    BY MainEligible DEF IInv, Eligible
  <2>2. main \in Tasks
    BY TaskAssumption DEF Tasks, main
  <2> QED
    BY <1>1, <2>1, <2>2 DEF IInv, MainInv, schedule
<1>5. RunningIsReady'
  BY ScheduleChoice DEF IInv, RunningIsReady
<1>6. NoReadyAbove'
  BY <1>1, ScheduleChoice DEF IInv, NoReadyAbove
<1> QED
  BY <1>2, <1>3, <1>4, <1>5, <1>6 DEF IInv

\* The invariant holds after init_tasking.
LEMMA InitIInv == Init => IInv
<1> SUFFICES ASSUME Init PROVE IInv
  OBVIOUS
<1> USE TaskAssumption DEF Init, init_tasking
<1>1. TypeOK
  BY DEF TypeOK, TaskTypeOK, TaskState, Tasks, main, Live
<1>2. RingInv
  <2>1. main \in Tasks
    BY DEF Tasks, main
  <2>2. Live = {main} /\ next[main] = main
    BY <2>1 DEF Live, main
  <2> QED
    BY <2>2 DEF RingInv
<1> QED
  BY <1>1, <1>2 DEF IInv, MainInv, RunningIsReady, NoReadyAbove, Tasks, main

\* Every call of a task, and the timer anywhere, keeps the invariant.
LEMMA NextIInv == IInv /\ [Next]_vars => IInv'
<1> SUFFICES ASSUME IInv, [Next]_vars PROVE IInv'
  OBVIOUS
<1>1. ASSUME NEW p \in Priorities, CreateTask(p) PROVE IInv'
  <2> USE <1>1
  <2>1. create_task(p) /\ phase = "boot" /\ UNCHANGED <<phase, pc>>
    BY DEF CreateTask
  <2> DEFINE nt == pool_index + 1
  <2>a. /\ pool_index \in Nat /\ pool_index' = nt /\ nt \in Tasks /\ nt # main
        /\ current_task \in Tasks /\ current_task # nt
        /\ current_task' = current_task /\ current_task' \in Live'
    <3>1. /\ pool_index \in Nat /\ pool_index < TASK_POOL_SIZE /\ pool_index' = nt
          /\ current_task' = current_task /\ current_task \in Nat
          /\ current_task <= pool_index
      BY <2>1, TaskAssumption DEF create_task, IInv, TypeOK, TaskTypeOK, Live
    <3>2. nt \in Tasks /\ nt # main /\ current_task \in Tasks /\ current_task # nt
      BY <3>1, TaskAssumption DEF Tasks, main
    <3>3. current_task' \in Live'
      BY <3>1 DEF Live
    <3> QED
      BY <3>1, <3>2, <3>3
  <2>b. p \in Nat
    BY SchedulerAssumption
  <2>2. TypeOK'
    <3>1. /\ priority' = [priority EXCEPT ![nt] = p]
          /\ state' = [state EXCEPT ![nt] = "READY"]
          /\ sleep_ticks' = [sleep_ticks EXCEPT ![nt] = 0]
          /\ cpu_ticks' = [cpu_ticks EXCEPT ![nt] = 0]
          /\ next' = [next EXCEPT ![nt] = next[current_task], ![current_task] = nt]
          /\ timer_ticks' = timer_ticks
      BY <2>1 DEF create_task
    <3>2. 0 \in 0 .. TICK_MOD - 1
      BY TaskAssumption
    <3>3. pool_index' \in 0 .. TASK_POOL_SIZE
      BY <2>a DEF Tasks
    <3> HIDE DEF nt
    <3> QED
      BY <2>1, <2>a, <2>b, <3>1, <3>2, <3>3 DEF IInv, TypeOK, TaskTypeOK, TaskState
  <2>3. RingInv'
    BY <2>1, CreateKeepsRing DEF IInv
  <2>4. MainInv' /\ RunningIsReady'
    <3>1. /\ priority' = [priority EXCEPT ![nt] = p]
          /\ state' = [state EXCEPT ![nt] = "READY"]
          /\ sleep_ticks' = [sleep_ticks EXCEPT ![nt] = 0]
      BY <2>1 DEF create_task
    <3>2. main \in Tasks
      BY TaskAssumption DEF Tasks, main
    <3> HIDE DEF nt
    <3> QED
      BY <2>1, <2>a, <3>1, <3>2 DEF IInv, TypeOK, TaskTypeOK, MainInv, RunningIsReady
  <2>5. NoReadyAbove'
    BY <2>1 DEF NoReadyAbove
  <2> QED
    BY <2>2, <2>3, <2>4, <2>5 DEF IInv
<1>2. CASE EnableInterrupts
  BY <1>2 DEF EnableInterrupts, taskVars, IInv, TypeOK, TaskTypeOK, RingInv, MainInv,
     RunningIsReady, NoReadyAbove, Live
<1>3. ASSUME NEW n \in SleepTimes, TaskSleep(n) PROVE IInv'
  <2>0. current_task \in Tasks /\ Live' = Live /\ Live \subseteq Tasks
    <3>1. pool_index' = pool_index
      BY <1>3 DEF TaskSleep, task_sleep_mark
    <3>2. pool_index \in 0 .. TASK_POOL_SIZE /\ current_task \in Live
      BY DEF IInv, TypeOK, TaskTypeOK
    <3>3. Live \subseteq Tasks
      BY <3>2, TaskAssumption DEF Live, Tasks
    <3> QED
      BY <3>1, <3>2, <3>3 DEF Live
  <2> USE <1>3 DEF TaskSleep, task_sleep_mark
  <2>1. TypeOK'
    BY <2>0, SchedulerAssumption DEF IInv, TypeOK, TaskTypeOK, TaskState
  <2>2. RingInv'
    BY <2>0 DEF IInv, RingInv
  <2>3. MainInv'
    <3>1. main \in Tasks
      BY TaskAssumption DEF Tasks, main
    <3>2. CASE current_task = main
      BY <2>0, <3>1, <3>2 DEF IInv, TypeOK, TaskTypeOK, MainInv
    <3>3. CASE current_task # main
      BY <2>0, <3>1, <3>3 DEF IInv, TypeOK, TaskTypeOK, MainInv
    <3> QED
      BY <3>2, <3>3
  <2>4. RunningIsReady'
    BY <2>0 DEF IInv, TypeOK, RunningIsReady
  <2>5. NoReadyAbove'
    <3>1. \A t \in Live : state'[t] = "READY" => state[t] = "READY"
      BY <2>0 DEF IInv, TypeOK
    <3>2. CASE phase = "up"
      BY <2>0, <3>1, <3>2 DEF IInv, NoReadyAbove
    <3>3. CASE phase # "up"
      BY <3>3 DEF NoReadyAbove
    <3> QED
      BY <3>2, <3>3
  <2> QED
    BY <2>1, <2>2, <2>3, <2>4, <2>5 DEF IInv
<1>4. CASE SleepInt
  <2>1. pc' \in [Tasks -> {"run", "int"}]
    BY <1>4 DEF SleepInt, IInv, TypeOK
  <2> QED
    BY <1>4, <2>1, InterruptStep DEF SleepInt
<1>5. CASE TaskYield
  <2>1. pc' \in [Tasks -> {"run", "int"}]
    BY <1>5 DEF TaskYield, IInv, TypeOK
  <2> QED
    BY <1>5, <2>1, InterruptStep DEF TaskYield
<1>6. CASE TimerIrq
  <2>1. pc' \in [Tasks -> {"run", "int"}]
    BY <1>6 DEF TimerIrq, IInv, TypeOK
  <2> QED
    BY <1>6, <2>1, InterruptStep DEF TimerIrq
<1>7. CASE UNCHANGED vars
  BY <1>7 DEF vars, taskVars, IInv, TypeOK, TaskTypeOK, RingInv, MainInv,
     RunningIsReady, NoReadyAbove, Live
<1> QED
  BY <1>1, <1>2, <1>3, <1>4, <1>5, <1>6, <1>7 DEF Next

-----------------------------------------------------------------------------
\* The invariant holds in every state the scheduler reaches.
THEOREM Inductive == Spec => []IInv
  BY InitIInv, NextIInv, PTL DEF Spec

\* task.c keeps the types of its state.
THEOREM TypeCorrect == Spec => []TypeOK
<1>1. IInv => TypeOK
  BY DEF IInv
<1> QED
  BY <1>1, Inductive, PTL

\* create_task keeps the list a single ring of all the tasks, so the loops
\* of schedule() visit each task once, whatever the size of the pool.
THEOREM RingCorrect == Spec => []RingInv
<1>1. IInv => RingInv
  BY DEF IInv
<1> QED
  BY <1>1, Inductive, PTL

\* schedule() always finds a task: the idle task is eligible.
THEOREM SomeTaskEligible == Spec => []AlwaysEligible
<1>1. IInv => AlwaysEligible
  BY MainEligible DEF IInv, AlwaysEligible
<1> QED
  BY <1>1, Inductive, PTL

\* The CPU never runs a sleeping task outside task_sleep's own window.
THEOREM RunsReadyTask == Spec => []RunningIsReady
<1>1. IInv => RunningIsReady
  BY DEF IInv
<1> QED
  BY <1>1, Inductive, PTL

\* Strict priority: a READY task never waits for one of lower priority.
THEOREM StrictPriority == Spec => []NoReadyAbove
<1>1. IInv => NoReadyAbove
  BY DEF IInv
<1> QED
  BY <1>1, Inductive, PTL
-----------------------------------------------------------------------------
\* A sleeper has ticks left: schedule() makes it READY when it counts the
\* last one, so no sleeper is ever woken by a counter that was 0 already.
SleepersCount == \A t \in Live : state[t] = "SLEEPING" => sleep_ticks[t] > 0

\* The types a sleep counter's step depends on.
LEMMA SleepTypes ==
  ASSUME IInv
  PROVE  /\ pool_index \in Nat /\ pool_index <= TASK_POOL_SIZE
         /\ Live \subseteq Tasks /\ current_task \in Live /\ current_task \in Tasks
         /\ state \in [Tasks -> {"READY", "SLEEPING"}]
         /\ sleep_ticks \in [Tasks -> Nat]
<1>1. pool_index \in 0 .. TASK_POOL_SIZE /\ current_task \in Live
  BY DEF IInv, TypeOK, TaskTypeOK
<1>2. Live \subseteq Tasks
  BY <1>1, TaskAssumption DEF Live, Tasks
<1> QED
  BY <1>1, <1>2, TaskAssumption DEF IInv, TypeOK, TaskTypeOK

\* init_tasking leaves no sleeper, and no step a sleeper without ticks.
LEMMA SleepersCountStep ==
  /\ Init => SleepersCount
  /\ IInv /\ SleepersCount /\ [Next]_vars => SleepersCount'
<1>1. Init => SleepersCount
  BY TaskAssumption DEF Init, init_tasking, SleepersCount, Live, Tasks
<1> SUFFICES ASSUME IInv, SleepersCount, [Next]_vars PROVE SleepersCount'
  BY <1>1
<1>2. /\ Live \subseteq Tasks /\ current_task \in Live
      /\ state \in [Tasks -> {"READY", "SLEEPING"}] /\ sleep_ticks \in [Tasks -> Nat]
  BY SleepTypes
<1>3. ASSUME NEW p \in Priorities, CreateTask(p) PROVE SleepersCount'
  <2> DEFINE nt == pool_index + 1
  <2>1. /\ pool_index < TASK_POOL_SIZE /\ pool_index' = nt
        /\ state' = [state EXCEPT ![nt] = "READY"]
        /\ sleep_ticks' = [sleep_ticks EXCEPT ![nt] = 0]
    BY <1>3 DEF CreateTask, create_task
  <2>2. Live' = Live \cup {nt} /\ nt \in Tasks /\ nt \notin Live
    BY <2>1, SleepTypes, TaskAssumption DEF Live, Tasks
  <2> HIDE DEF nt
  <2> QED
    BY <1>2, <2>1, <2>2 DEF SleepersCount
<1>4. CASE EnableInterrupts \/ UNCHANGED vars
  BY <1>4 DEF EnableInterrupts, vars, taskVars, SleepersCount, Live
<1>5. ASSUME NEW n \in SleepTimes, TaskSleep(n) PROVE SleepersCount'
  <2>1. n > 0 /\ n \in Nat
    BY SchedulerAssumption
  <2> QED
    BY <1>2, <1>5, <2>1 DEF TaskSleep, task_sleep_mark, SleepersCount, Live
<1>6. CASE irq_handler32
  <2>1. Live' = Live
    BY <1>6 DEF irq_handler32, schedule, Live
  <2>2. ASSUME NEW t \in Live, state'[t] = "SLEEPING" PROVE sleep_ticks'[t] > 0
    <3>1. state'[t] = Woken(t) /\ sleep_ticks'[t] = TicksLeft(t)
      BY <1>2, <1>6 DEF irq_handler32, schedule
    <3> QED
      BY <1>2, <2>2, <3>1 DEF Woken, TicksLeft
  <2> QED
    BY <2>1, <2>2 DEF SleepersCount
<1> QED
  BY <1>3, <1>4, <1>5, <1>6 DEF Next, SleepInt, TaskYield, TimerIrq

\* What a step may do to a task that sleeps off the CPU.
SleepStep(t) ==
  t # current_task /\ state[t] = "SLEEPING" =>
    \/ sleep_ticks'[t] = sleep_ticks[t] /\ state'[t] = "SLEEPING"
    \/ /\ timer_ticks' = (timer_ticks + 1) % TICK_MOD
       /\ sleep_ticks'[t] = sleep_ticks[t] - 1
       /\ state'[t] = (IF sleep_ticks'[t] = 0 THEN "READY" ELSE "SLEEPING")

\* schedule() alone wakes a task that sleeps off the CPU, on its last tick.
THEOREM SleepersWakeOnTime == Spec => WakesOnTime
<1>1. ASSUME IInv, SleepersCount, [Next]_vars, NEW t \in Live PROVE SleepStep(t)
  <2> SUFFICES ASSUME t # current_task, state[t] = "SLEEPING" PROVE SleepStep(t)
    BY DEF SleepStep
  <2>1. /\ Live \subseteq Tasks /\ t \in Tasks /\ current_task \in Tasks
        /\ state \in [Tasks -> {"READY", "SLEEPING"}] /\ sleep_ticks \in [Tasks -> Nat]
    BY <1>1, SleepTypes
  <2>2. ASSUME NEW p \in Priorities, CreateTask(p) PROVE SleepStep(t)
    <3>1. t # pool_index + 1
      BY <1>1, SleepTypes DEF Live
    <3> QED
      BY <2>1, <2>2, <3>1 DEF CreateTask, create_task, SleepStep
  <2>3. CASE EnableInterrupts \/ UNCHANGED vars
    BY <2>3 DEF EnableInterrupts, vars, taskVars, SleepStep
  <2>4. ASSUME NEW n \in SleepTimes, TaskSleep(n) PROVE SleepStep(t)
    BY <2>1, <2>4 DEF TaskSleep, task_sleep_mark, SleepStep
  <2>5. CASE irq_handler32
    <3>1. /\ state'[t] = Woken(t) /\ sleep_ticks'[t] = TicksLeft(t)
          /\ timer_ticks' = (timer_ticks + 1) % TICK_MOD
      BY <2>1, <2>5 DEF irq_handler32, timer_irq_callback, schedule
    <3>2. sleep_ticks[t] > 0
      BY <1>1 DEF SleepersCount
    <3>3. sleep_ticks'[t] = sleep_ticks[t] - 1
      BY <1>1, <2>1, <3>1, <3>2 DEF TicksLeft
    <3>4. state'[t] = (IF sleep_ticks'[t] = 0 THEN "READY" ELSE "SLEEPING")
      BY <1>1, <2>1, <3>1 DEF Woken
    <3> QED
      BY <3>1, <3>3, <3>4 DEF SleepStep
  <2> QED
    BY <1>1, <2>2, <2>3, <2>4, <2>5 DEF Next, SleepInt, TaskYield, TimerIrq
<1>2. IInv /\ SleepersCount /\ [Next]_vars =>
        [\A t \in Live : t # current_task /\ state[t] = "SLEEPING" =>
           \/ sleep_ticks'[t] = sleep_ticks[t] /\ state'[t] = "SLEEPING"
           \/ /\ timer_ticks' = (timer_ticks + 1) % TICK_MOD
              /\ sleep_ticks'[t] = sleep_ticks[t] - 1
              /\ state'[t] = (IF sleep_ticks'[t] = 0 THEN "READY" ELSE "SLEEPING")]_vars
  BY <1>1 DEF SleepStep
<1> QED
  BY <1>2, SleepersCountStep, Inductive, PTL DEF Spec, WakesOnTime

-----------------------------------------------------------------------------
(* The list as a ring: a walk along the links returns to its first task    *)
(* after exactly as many links as there are tasks.  Nothing here depends   *)
(* on the order in which create_task linked them.                          *)

\* The walks of k links from s along nx, inside 0 .. n.
Walks(s, k, n, nx) ==
  {h \in [0 .. k -> 0 .. n] : h[0] = s /\ \A i \in 1 .. k : h[i] = nx[h[i - 1]]}

\* nx links the tasks 0 .. n to one ring: what RingInv says of next.
OneRing(n, nx) ==
  /\ \A t \in 0 .. n : nx[t] \in 0 .. n
  /\ \A S \in SUBSET (0 .. n) : S # {} /\ (\A t \in S : nx[t] \in S) => S = 0 .. n

\* One link more.
LEMMA LongerWalk ==
  ASSUME NEW n \in Nat, NEW nx, OneRing(n, nx), NEW s \in 0 .. n, NEW k \in Nat,
         NEW h \in Walks(s, k, n, nx)
  PROVE  \E g \in Walks(s, k + 1, n, nx) : g[k + 1] = nx[h[k]]
<1> DEFINE g == [i \in 0 .. k + 1 |-> IF i <= k THEN h[i] ELSE nx[h[k]]]
<1>1. h \in [0 .. k -> 0 .. n] /\ h[0] = s /\ \A i \in 1 .. k : h[i] = nx[h[i - 1]]
  BY DEF Walks
<1>2. h[k] \in 0 .. n
  BY <1>1
<1>3. nx[h[k]] \in 0 .. n
  BY <1>2 DEF OneRing
<1>4. g \in [0 .. k + 1 -> 0 .. n] /\ g[0] = s /\ g[k + 1] = nx[h[k]]
  BY <1>1, <1>3
<1>5. ASSUME NEW i \in 1 .. k + 1 PROVE g[i] = nx[g[i - 1]]
  <2>1. CASE i <= k
    BY <1>1, <2>1
  <2>2. CASE i = k + 1
    BY <2>2
  <2> QED
    BY <2>1, <2>2
<1> HIDE DEF g
<1>6. g \in Walks(s, k + 1, n, nx)
  BY <1>4, <1>5 DEF Walks
<1> QED
  BY <1>4, <1>6

\* Some walk comes back: the tasks the links lead to from s are a closed set.
LEMMA SomeReturn ==
  ASSUME NEW n \in Nat, NEW nx, OneRing(n, nx), NEW s \in 0 .. n
  PROVE  \E k \in Nat \ {0} : \E h \in Walks(s, k, n, nx) : h[k] = s
<1> DEFINE R == {t \in 0 .. n : \E k \in Nat \ {0} : \E h \in Walks(s, k, n, nx) : h[k] = t}
           z == [i \in 0 .. 0 |-> s]
<1>1. z \in Walks(s, 0, n, nx) /\ z[0] = s
  BY DEF Walks
<1> HIDE DEF z
<1>2. PICK g \in Walks(s, 0 + 1, n, nx) : g[0 + 1] = nx[z[0]]
  BY <1>1, LongerWalk
<1>3. nx[s] \in 0 .. n /\ 0 + 1 \in Nat \ {0}
  BY DEF OneRing
<1>4. nx[s] \in R
  BY <1>1, <1>2, <1>3
<1>5. ASSUME NEW t \in R PROVE nx[t] \in R
  <2>1. PICK k \in Nat \ {0} : \E h \in Walks(s, k, n, nx) : h[k] = t
    OBVIOUS
  <2>2. PICK h \in Walks(s, k, n, nx) : h[k] = t
    BY <2>1
  <2>3. PICK f \in Walks(s, k + 1, n, nx) : f[k + 1] = nx[h[k]]
    BY LongerWalk
  <2>4. nx[t] \in 0 .. n /\ k + 1 \in Nat \ {0}
    BY DEF OneRing
  <2> QED
    BY <2>2, <2>3, <2>4
<1>6. R \in SUBSET (0 .. n)
  OBVIOUS
<1>7. R = 0 .. n
  <2> HIDE DEF R
  <2> QED
    BY <1>4, <1>5, <1>6 DEF OneRing
<1>8. s \in R
  BY <1>7
<1> QED
  BY <1>8

\* The start of a walk is a walk.
LEMMA ShorterWalk ==
  ASSUME NEW n \in Nat, NEW nx, NEW s \in 0 .. n, NEW k \in Nat,
         NEW h \in Walks(s, k, n, nx), NEW j \in 0 .. k
  PROVE  [i \in 0 .. j |-> h[i]] \in Walks(s, j, n, nx)
<1>1. h \in [0 .. k -> 0 .. n] /\ h[0] = s /\ \A i \in 1 .. k : h[i] = nx[h[i - 1]]
  BY DEF Walks
<1> DEFINE g == [i \in 0 .. j |-> h[i]]
<1>2. g \in [0 .. j -> 0 .. n] /\ g[0] = s
  BY <1>1
<1>3. \A i \in 1 .. j : g[i] = nx[g[i - 1]]
  BY <1>1
<1> HIDE DEF g
<1>4. g \in Walks(s, j, n, nx)
  BY <1>2, <1>3 DEF Walks
<1> QED
  BY <1>4 DEF g

\* A walk once round the ring: it visits every task once and ends where it
\* began.
Rounds(s, n, nx) ==
  {h \in Walks(s, n + 1, n, nx) :
     /\ h[n + 1] = s
     /\ \A i, j \in 0 .. n : h[i] = h[j] => i = j
     /\ \A t \in 0 .. n : \E i \in 0 .. n : h[i] = t}

\* There is one, from every task: the shortest walk that returns.
LEMMA RoundExists ==
  ASSUME NEW n \in Nat, NEW nx, OneRing(n, nx), NEW s \in 0 .. n
  PROVE  Rounds(s, n, nx) # {}
<1> DEFINE K == {k \in Nat \ {0} : \E h \in Walks(s, k, n, nx) : h[k] = s}
<1>1. K \subseteq Nat /\ K # {}
  BY SomeReturn
<1>2. PICK p \in K : \A m \in K : p <= m
  BY <1>1, LeastNat
<1>3. PICK h \in Walks(s, p, n, nx) : h[p] = s
  OBVIOUS
<1>4. p \in Nat /\ p > 0
  OBVIOUS
<1>5. h \in [0 .. p -> 0 .. n] /\ h[0] = s /\ \A i \in 1 .. p : h[i] = nx[h[i - 1]]
  BY DEF Walks
<1>6. ASSUME NEW j \in 1 .. p - 1, h[j] = s PROVE FALSE
  <2>1. j \in 0 .. p /\ j \in Nat \ {0} /\ j < p
    BY <1>4
  <2> DEFINE g == [i \in 0 .. j |-> h[i]]
  <2>2. g \in Walks(s, j, n, nx)
    BY <1>4, <2>1, ShorterWalk
  <2>3. g[j] = s
    BY <1>6, <2>1
  <2> HIDE DEF g
  <2>4. j \in K
    BY <2>1, <2>2, <2>3
  <2> HIDE DEF K
  <2> QED
    BY <1>2, <1>4, <2>1, <2>4
<1> HIDE DEF K
<1>7. ASSUME NEW i \in 0 .. p - 1, NEW j \in 0 .. p - 1, i < j PROVE h[i] # h[j]
  <2> SUFFICES ASSUME h[i] = h[j] PROVE FALSE
    OBVIOUS
  <2> DEFINE T == {m \in 0 .. p - j : h[i + m] = h[j + m]}
  <2>0. p - j \in Nat
    BY <1>4
  <2>1. 0 \in T
    BY <1>4
  <2>2. \A m \in 1 .. p - j : m - 1 \in T => m \in T
    <3> SUFFICES ASSUME NEW m \in 1 .. p - j, m - 1 \in T PROVE m \in T
      OBVIOUS
    <3>1. /\ m \in 0 .. p - j /\ i + m \in 1 .. p /\ j + m \in 1 .. p
          /\ (i + m) - 1 = i + (m - 1) /\ (j + m) - 1 = j + (m - 1)
      BY <1>4, <1>7
    <3>2. h[i + (m - 1)] = h[j + (m - 1)]
      OBVIOUS
    <3>3. h[i + m] = nx[h[i + (m - 1)]] /\ h[j + m] = nx[h[j + (m - 1)]]
      BY <1>5, <3>1
    <3> QED
      BY <3>1, <3>2, <3>3
  <2> HIDE DEF T
  <2>3. 0 .. p - j \subseteq T
    BY <2>0, <2>1, <2>2, InductionTo
  <2>4. p - j \in T
    BY <2>0, <2>3
  <2>5. h[i + (p - j)] = h[j + (p - j)] /\ j + (p - j) = p /\ i + (p - j) \in 1 .. p - 1
    BY <1>4, <1>7, <2>4 DEF T
  <2> QED
    BY <1>3, <1>6, <2>5
<1>8. \A i, j \in 0 .. p - 1 : h[i] = h[j] => i = j
  <2> SUFFICES ASSUME NEW i \in 0 .. p - 1, NEW j \in 0 .. p - 1, h[i] = h[j] PROVE i = j
    OBVIOUS
  <2>1. i < j \/ j < i \/ i = j
    BY <1>4
  <2> QED
    BY <1>7, <2>1
<1> DEFINE V == {h[i] : i \in 0 .. p - 1}
<1>9. V = 0 .. n
  <2>1. V \in SUBSET (0 .. n)
    BY <1>4, <1>5
  <2>2. s \in V
    BY <1>4, <1>5
  <2>3. ASSUME NEW t \in V PROVE nx[t] \in V
    <3>1. PICK i \in 0 .. p - 1 : t = h[i]
      OBVIOUS
    <3>2. i + 1 \in 1 .. p /\ i + 1 - 1 = i
      BY <1>4
    <3>3. h[i + 1] = nx[t]
      BY <1>5, <3>1, <3>2
    <3>4. CASE i + 1 = p
      BY <1>3, <2>2, <3>3, <3>4
    <3>5. CASE i + 1 # p
      <4>1. i + 1 \in 0 .. p - 1
        BY <1>4, <3>2, <3>5
      <4> QED
        BY <3>3, <4>1
    <3> QED
      BY <3>4, <3>5
  <2> HIDE DEF V
  <2> QED
    BY <2>1, <2>2, <2>3 DEF OneRing
<1>10. \A t \in 0 .. n : \E i \in 0 .. p - 1 : h[i] = t
  BY <1>9
<1>11. p = n + 1
  <2> DEFINE b == [i \in 0 .. p - 1 |-> h[i]]
  <2>1. b \in [0 .. p - 1 -> 0 .. n]
    BY <1>4, <1>5
  <2>2. /\ \A i, j \in 0 .. p - 1 : b[i] = b[j] => i = j
        /\ \A t \in 0 .. n : \E i \in 0 .. p - 1 : b[i] = t
    BY <1>8, <1>10
  <2> HIDE DEF b
  <2>3. b \in Bijection(0 .. p - 1, 0 .. n)
    BY <2>1, <2>2 DEF Bijection, Injection, Surjection, IsInjective
  <2>4. ExistsBijection(0 .. p - 1, 0 .. n)
    BY <2>3 DEF ExistsBijection
  <2>5. p - 1 \in Int /\ n \in Int /\ 0 \in Int /\ ~ (0 > p - 1) /\ ~ (0 > n)
    BY <1>4
  <2>6. IsFiniteSet(0 .. p - 1) /\ Cardinality(0 .. p - 1) = p - 1 - 0 + 1
    BY <2>5, FS_Interval
  <2>7. Cardinality(0 .. n) = n - 0 + 1
    BY <2>5, FS_Interval
  <2>8. Cardinality(0 .. n) = Cardinality(0 .. p - 1)
    BY <2>4, <2>6, FS_Bijection
  <2> QED
    BY <1>4, <2>6, <2>7, <2>8
<1>12. p - 1 = n
  BY <1>11
<1>13. h \in Rounds(s, n, nx)
  BY <1>3, <1>8, <1>10, <1>11, <1>12 DEF Rounds
<1> QED
  BY <1>13

-----------------------------------------------------------------------------
(* What the two loops of schedule() compute.                               *)

\* The walk of a round is back at its start at the end and not before.
LEMMA RoundEnds ==
  ASSUME NEW n \in Nat, NEW nx, NEW s \in 0 .. n, NEW h \in Rounds(s, n, nx),
         NEW k \in 1 .. n + 1
  PROVE  h[k] = s <=> k = n + 1
<1>1. h[0] = s /\ h[n + 1] = s /\ \A i, j \in 0 .. n : h[i] = h[j] => i = j
  BY DEF Rounds, Walks
<1>2. ASSUME h[k] = s PROVE k = n + 1
  <2> SUFFICES ASSUME k # n + 1 PROVE FALSE
    OBVIOUS
  <2>1. k \in 0 .. n /\ 0 \in 0 .. n /\ k # 0
    OBVIOUS
  <2> QED
    BY <1>1, <1>2, <2>1
<1> QED
  BY <1>1, <1>2

\* The task k links from s, the way Visit walks, and how far t is from s.
From(s, nx, k) == LET walk[i \in 0 .. k] == IF i = 0 THEN s ELSE nx[walk[i - 1]] IN walk[k]
Distance(s, n, nx, t) == CHOOSE k \in 0 .. n : From(s, nx, k) = t

\* Any walk agrees with it.
LEMMA FromIs ==
  ASSUME NEW n \in Nat, NEW nx, NEW s \in 0 .. n, NEW m \in Nat,
         NEW h \in Walks(s, m, n, nx), NEW k \in 0 .. m
  PROVE  From(s, nx, k) = h[k]
<1> DEFINE R(w) == w = [i \in 0 .. k |-> IF i = 0 THEN s ELSE nx[w[i - 1]]]
           walk == CHOOSE w : R(w)
           g == [i \in 0 .. k |-> h[i]]
<1>1. h[0] = s /\ \A i \in 1 .. m : h[i] = nx[h[i - 1]]
  BY DEF Walks
<1>2. R(g)
  <2>1. \A i \in 0 .. k : h[i] = IF i = 0 THEN s ELSE nx[g[i - 1]]
    <3> TAKE i \in 0 .. k
    <3>1. CASE i = 0
      BY <1>1, <3>1
    <3>2. CASE i # 0
      <4>1. i \in 1 .. m /\ i - 1 \in 0 .. k
        BY <3>2
      <4> QED
        BY <1>1, <3>2, <4>1
    <3> QED
      BY <3>1, <3>2
  <2> QED
    BY <2>1
<1>3. R(walk)
  BY <1>2
<1>4. From(s, nx, k) = walk[k]
  BY DEF From
<1> HIDE DEF walk
<1>5. /\ walk[0] = s
      /\ \A i \in 1 .. k : walk[i] = nx[walk[i - 1]]
  BY <1>3
<1> DEFINE T == {i \in 0 .. k : walk[i] = h[i]}
<1>6. 0 \in T
  BY <1>1, <1>5
<1>7. \A i \in 1 .. k : i - 1 \in T => i \in T
  BY <1>1, <1>5
<1> HIDE DEF T
<1>8. k \in Nat /\ k \in 0 .. k
  OBVIOUS
<1>9. 0 .. k \subseteq T
  BY <1>6, <1>7, <1>8, InductionTo
<1> QED
  BY <1>4, <1>8, <1>9 DEF T

\* The distance of a task is where the round meets it.
LEMMA DistanceIs ==
  ASSUME NEW n \in Nat, NEW nx, NEW s \in 0 .. n, NEW h \in Rounds(s, n, nx), NEW k \in 0 .. n
  PROVE  Distance(s, n, nx, h[k]) = k
<1>1. \A j \in 0 .. n : From(s, nx, j) = h[j]
  <2>1. h \in Walks(s, n + 1, n, nx) /\ n + 1 \in Nat /\ \A j \in 0 .. n : j \in 0 .. n + 1
    BY DEF Rounds
  <2> QED
    BY <2>1, FromIs
<1>2. \A i, j \in 0 .. n : h[i] = h[j] => i = j
  BY DEF Rounds
<1>3. \A j \in 0 .. n : From(s, nx, j) = h[k] <=> j = k
  BY <1>1, <1>2
<1>4. PICK c : c = CHOOSE j \in 0 .. n : From(s, nx, j) = h[k]
  OBVIOUS
<1>5. c \in 0 .. n /\ From(s, nx, c) = h[k]
  BY <1>3, <1>4
<1> QED
  BY <1>3, <1>4, <1>5 DEF Distance

\* Hops is that distance, from current_task->next.
LEMMA HopsIs ==
  ASSUME NEW t
  PROVE  /\ Hops(t) = Distance(next[current_task], pool_index, next, t)
         /\ Hops(t)' = Distance(next'[current_task'], pool_index', next', t)
<1>1. Hops(t) = Distance(next[current_task], pool_index, next, t)
  BY DEF Hops, Visit, Distance, From
<1>2. Hops(t)' = Distance(next'[current_task'], pool_index', next', t)
  BY DEF Hops, Visit, Distance, From
<1> QED
  BY <1>1, <1>2

\* The list is such a ring.
LEMMA LiveRing ==
  ASSUME TypeOK, RingInv, NEW n \in Nat, n = pool_index
  PROVE  Live = 0 .. n /\ current_task \in 0 .. n /\ OneRing(n, next) /\ 0 .. n \subseteq Tasks
<1>1. Live = 0 .. n
  BY DEF Live
<1>2. n <= TASK_POOL_SIZE
  BY DEF TypeOK, TaskTypeOK
<1>3. 0 .. n \subseteq Tasks
  BY <1>2, TaskAssumption DEF Tasks
<1> QED
  BY <1>1, <1>3 DEF TypeOK, TaskTypeOK, RingInv, OneRing

\* Loop 1 counts each sleeper's tick and wakes those that have none left.
LEMMA SleepLoopIs ==
  ASSUME TypeOK, RingInv
  PROVE  /\ SleepLoop.done
         /\ SleepLoop.acc = [ticks |-> [t \in Tasks |-> TicksLeft(t)],
                             state |-> [t \in Tasks |-> Woken(t)]]
<1>1. PICK n \in Nat : n = pool_index
  BY TaskAssumption DEF TypeOK, TaskTypeOK
<1>2. PICK N \in Nat : N = n + 1 /\ task_count = N
  BY <1>1 DEF task_count
<1>3. Live = 0 .. n /\ current_task \in 0 .. n /\ OneRing(n, next) /\ 0 .. n \subseteq Tasks
  BY <1>1, LiveRing
<1>4. PICK h \in Rounds(current_task, n, next) : TRUE
  BY <1>3, RoundExists
<1>5. /\ h \in [0 .. N -> 0 .. n]
      /\ h[0] = current_task
      /\ \A k \in 1 .. N : h[k] = next[h[k - 1]]
      /\ \A i, j \in 0 .. n : h[i] = h[j] => i = j
      /\ \A t \in 0 .. n : \E i \in 0 .. n : h[i] = t
      /\ \A k \in 1 .. N : h[k] = current_task <=> k = N
  <2>1. h \in Walks(current_task, n + 1, n, next)
    BY DEF Rounds
  <2>2. /\ h \in [0 .. N -> 0 .. n] /\ h[0] = current_task
        /\ \A k \in 1 .. N : h[k] = next[h[k - 1]]
    BY <1>2, <2>1 DEF Walks
  <2>3. \A k \in 1 .. n + 1 : h[k] = current_task <=> k = n + 1
    BY <1>3, RoundEnds
  <2> QED
    BY <1>2, <2>2, <2>3 DEF Rounds
<1> DEFINE Seen(k) == {t \in Tasks : \E i \in 0 .. k - 1 : h[i] = t}
           Ticks(k) == [t \in Tasks |-> IF t \in Seen(k) THEN TicksLeft(t) ELSE sleep_ticks[t]]
           State(k) == [t \in Tasks |-> IF t \in Seen(k) THEN Woken(t) ELSE state[t]]
           A(k) == [ticks |-> Ticks(k), state |-> State(k)]
           Body(t, a) ==
             IF a.state[t] # "SLEEPING" THEN a
             ELSE LET m == IF a.ticks[t] > 0 THEN a.ticks[t] - 1 ELSE 0 IN
                  [ticks |-> [a.ticks EXCEPT ![t] = m],
                   state |-> IF m = 0 THEN [a.state EXCEPT ![t] = "READY"] ELSE a.state]
           Turn(r) == IF r.done THEN r
                      ELSE [t |-> next[r.t], acc |-> Body(r.t, r.acc),
                            done |-> next[r.t] = current_task]
           G(k) == [t |-> h[k], acc |-> A(k), done |-> k = N]
           do == CHOOSE d : d = [k \in 0 .. task_count |->
                   IF k = 0 THEN [t |-> current_task, acc |-> [ticks |-> sleep_ticks, state |-> state],
                                  done |-> FALSE]
                   ELSE Turn(d[k - 1])]
<1>6. SleepLoop = do[task_count]
  BY DEF SleepLoop, Walk
<1>7. /\ state \in [Tasks -> {"READY", "SLEEPING"}] /\ sleep_ticks \in [Tasks -> Nat]
  BY DEF TypeOK, TaskTypeOK
<1>8. A(0) = [ticks |-> sleep_ticks, state |-> state]
  <2>1. Seen(0) = {}
    OBVIOUS
  <2> HIDE DEF Seen
  <2> QED
    BY <1>7, <2>1
<1>9. ASSUME NEW k \in 1 .. N PROVE Body(h[k - 1], A(k - 1)) = A(k)
  <2>1. PICK t \in 0 .. n : t = h[k - 1]
    BY <1>5
  <2>2. t \in Tasks /\ t \in Live
    BY <1>3
  <2>3. Seen(k) = Seen(k - 1) \cup {t}
    <3>1. \A i \in 0 .. k - 1 : i \in 0 .. (k - 1) - 1 \/ i = k - 1
      OBVIOUS
    <3>2. k - 1 \in 0 .. k - 1 /\ \A i \in 0 .. (k - 1) - 1 : i \in 0 .. k - 1
      OBVIOUS
    <3> QED
      BY <2>1, <2>2, <3>1, <3>2
  <2>4. t \notin Seen(k - 1)
    <3> SUFFICES ASSUME NEW i \in 0 .. (k - 1) - 1, h[i] = t PROVE FALSE
      OBVIOUS
    <3>1. i \in 0 .. n /\ k - 1 \in 0 .. n /\ i # k - 1
      BY <1>2
    <3> QED
      BY <1>5, <2>1, <3>1
  <2>5. PICK U, V : U = Seen(k - 1) /\ V = Seen(k)
    OBVIOUS
  <2> HIDE DEF Seen
  <2>6. State(k - 1)[t] = state[t] /\ Ticks(k - 1)[t] = sleep_ticks[t]
    BY <2>2, <2>4
  <2>7. CASE state[t] # "SLEEPING"
    <3>1. TicksLeft(t) = sleep_ticks[t] /\ Woken(t) = state[t]
      BY <2>7 DEF TicksLeft, Woken
    <3>2. Ticks(k) = Ticks(k - 1) /\ State(k) = State(k - 1)
      BY <2>3, <3>1
    <3> HIDE DEF Ticks, State
    <3> QED
      BY <2>1, <2>6, <2>7, <3>2
  <2>8. CASE state[t] = "SLEEPING"
    <3> DEFINE m == IF sleep_ticks[t] > 0 THEN sleep_ticks[t] - 1 ELSE 0
    <3>1. TicksLeft(t) = m
      BY <1>7, <2>2, <2>8 DEF TicksLeft
    <3>2. Woken(t) = IF m = 0 THEN "READY" ELSE state[t]
      BY <2>2, <2>8, <3>1 DEF Woken
    <3> HIDE DEF m
    <3>3. Ticks(k) = [Ticks(k - 1) EXCEPT ![t] = m]
      BY <2>2, <2>3, <3>1
    <3>4. State(k) = IF m = 0 THEN [State(k - 1) EXCEPT ![t] = "READY"] ELSE State(k - 1)
      <4>1. CASE m = 0
        BY <2>2, <2>3, <3>2, <4>1
      <4>2. CASE m # 0
        BY <2>2, <2>3, <2>4, <3>2, <4>2
      <4> QED
        BY <4>1, <4>2
    <3>5. A(k - 1).state = State(k - 1) /\ A(k - 1).ticks = Ticks(k - 1)
      OBVIOUS
    <3>6. A(k) = [ticks |-> Ticks(k), state |-> State(k)]
      OBVIOUS
    <3>7. m = IF Ticks(k - 1)[t] > 0 THEN Ticks(k - 1)[t] - 1 ELSE 0
      <4> HIDE DEF Ticks
      <4> QED
        BY <2>6 DEF m
    <3> HIDE DEF Ticks, State, A
    <3> QED
      BY <2>1, <2>6, <2>8, <3>3, <3>4, <3>5, <3>6, <3>7
  <2> QED
    BY <2>7, <2>8
\* The walk with the accumulator in closed form satisfies the recursion.
<1> HIDE DEF Body, A
<1>10. ASSUME NEW k \in 1 .. N PROVE Turn(G(k - 1)) = G(k)
  <2>0. (k - 1 = N) = FALSE
    BY <1>2
  <2>1. G(k - 1).done = FALSE /\ G(k - 1).t = h[k - 1] /\ G(k - 1).acc = A(k - 1)
    BY <2>0
  <2>2. Turn(G(k - 1)) = [t |-> next[h[k - 1]], acc |-> Body(h[k - 1], A(k - 1)),
                          done |-> next[h[k - 1]] = current_task]
    <3> HIDE DEF G
    <3> QED
      BY <2>1
  <2>3. next[h[k - 1]] = h[k] /\ (h[k] = current_task <=> k = N)
    BY <1>5
  <2>4. (next[h[k - 1]] = current_task) = (k = N)
    BY <2>3, Zenon
  <2> QED
    BY <1>9, <2>2, <2>3, <2>4
<1>11. G(0) = [t |-> current_task, acc |-> [ticks |-> sleep_ticks, state |-> state], done |-> FALSE]
  <2>1. (0 = N) = FALSE
    BY <1>2
  <2> QED
    BY <1>5, <1>8, <2>1
<1> HIDE DEF G, Turn
<1> DEFINE R(d) == d = [k \in 0 .. task_count |->
                   IF k = 0 THEN [t |-> current_task, acc |-> [ticks |-> sleep_ticks, state |-> state],
                                  done |-> FALSE]
                   ELSE Turn(d[k - 1])]
           g == [k \in 0 .. task_count |-> G(k)]
<1>12. R(g)
  <2>1. ASSUME NEW k \in 0 .. N
        PROVE  G(k) = IF k = 0 THEN [t |-> current_task, acc |-> [ticks |-> sleep_ticks, state |-> state],
                                     done |-> FALSE]
                      ELSE Turn(g[k - 1])
    <3>1. CASE k = 0
      BY <1>11, <3>1
    <3>2. CASE k # 0
      <4>1. k \in 1 .. N /\ k - 1 \in 0 .. task_count
        BY <1>2, <3>2
      <4>2. g[k - 1] = G(k - 1)
        BY <4>1
      <4> HIDE DEF g
      <4> QED
        BY <1>10, <3>2, <4>1, <4>2
    <3> QED
      BY <3>1, <3>2
  <2> QED
    BY <1>2, <2>1
<1>13. R(do)
  <2>1. do = CHOOSE d : R(d)
    OBVIOUS
  <2> HIDE DEF R, do
  <2> QED
    BY <1>12, <2>1
<1> HIDE DEF do
<1>14. /\ do[0] = G(0)
       /\ \A k \in 1 .. N : do[k] = Turn(do[k - 1])
  <2>1. 0 \in 0 .. N /\ \A k \in 1 .. N : k \in 0 .. N /\ k # 0
    BY <1>2
  <2>2. \A k \in 0 .. N : do[k] = IF k = 0 THEN G(0) ELSE Turn(do[k - 1])
    BY <1>2, <1>11, <1>13
  <2> HIDE DEF R
  <2> QED
    BY <2>1, <2>2
<1> HIDE DEF R
<1> DEFINE T == {k \in 0 .. N : do[k] = G(k)}
<1>15. 0 \in T /\ \A k \in 1 .. N : k - 1 \in T => k \in T
  BY <1>10, <1>14
<1> HIDE DEF T
<1>16. 0 .. N \subseteq T
  BY <1>15, InductionTo
<1>17. SleepLoop = G(N)
  BY <1>2, <1>6, <1>16 DEF T
<1>18. SleepLoop.done = TRUE /\ SleepLoop.acc = A(N)
  BY <1>17 DEF G
<1>19. A(N) = [ticks |-> [t \in Tasks |-> TicksLeft(t)], state |-> [t \in Tasks |-> Woken(t)]]
  <2>1. N - 1 = n
    BY <1>2
  <2>2. Seen(N) = 0 .. n
    <3>1. \A i \in 0 .. n : i \in 0 .. N - 1 /\ i \in 0 .. N
      BY <1>2
    <3>2. \A i \in 0 .. N - 1 : i \in 0 .. n
      BY <2>1
    <3>3. \A i \in 0 .. n : h[i] \in 0 .. n
      BY <1>5, <3>1
    <3>4. \A t \in 0 .. n : t \in Seen(N)
      BY <1>3, <1>5, <3>1
    <3>5. \A t \in Seen(N) : t \in 0 .. n
      BY <3>2, <3>3
    <3> QED
      BY <3>4, <3>5
  <2> HIDE DEF Seen
  <2>3. \A t \in Tasks \ Live : TicksLeft(t) = sleep_ticks[t] /\ Woken(t) = state[t]
    BY DEF TicksLeft, Woken
  <2>4. Ticks(N) = [t \in Tasks |-> TicksLeft(t)] /\ State(N) = [t \in Tasks |-> Woken(t)]
    BY <1>3, <2>2, <2>3
  <2> HIDE DEF Ticks, State
  <2> QED
    BY <2>4 DEF A
<1> QED
  BY <1>18, <1>19

\* Loop 2 finds the first of the eligible tasks of highest priority.
LEMMA SelectLoopIs ==
  ASSUME TypeOK, RingInv
  PROVE  /\ SelectLoop.done
         /\ Best = {IF SelectLoop.acc.best = -1 THEN current_task ELSE SelectLoop.acc.best}
<1>1. PICK n \in Nat : n = pool_index
  BY TaskAssumption DEF TypeOK, TaskTypeOK
<1>2. PICK N \in Nat : N = n + 1 /\ task_count = N
  BY <1>1 DEF task_count
<1>3. /\ Live = 0 .. n /\ current_task \in 0 .. n /\ OneRing(n, next)
      /\ 0 .. n \subseteq Tasks
  BY <1>1, LiveRing
<1>4. PICK s \in 0 .. n : s = next[current_task]
  BY <1>3 DEF OneRing
<1>5. PICK h \in Rounds(s, n, next) : TRUE
  BY <1>3, <1>4, RoundExists
<1>6. /\ h \in [0 .. N -> 0 .. n]
      /\ h[0] = s
      /\ \A k \in 1 .. N : h[k] = next[h[k - 1]]
      /\ \A t \in 0 .. n : \E i \in 0 .. n : h[i] = t
      /\ \A k \in 1 .. N : h[k] = s <=> k = N
  <2>1. h \in Walks(s, n + 1, n, next)
    BY DEF Rounds
  <2>2. /\ h \in [0 .. N -> 0 .. n] /\ h[0] = s
        /\ \A k \in 1 .. N : h[k] = next[h[k - 1]]
    BY <1>2, <2>1 DEF Walks
  <2>3. \A k \in 1 .. n + 1 : h[k] = s <=> k = n + 1
    BY <1>4, RoundEnds
  <2> QED
    BY <1>2, <2>2, <2>3 DEF Rounds
<1>7. PICK w : w = SleepLoop.acc.state
  OBVIOUS
<1>8. \A t \in 0 .. n : w[t] = Woken(t)
  <2>1. w = [t \in Tasks |-> Woken(t)]
    BY <1>7, SleepLoopIs
  <2> QED
    BY <1>3, <2>1
<1>9. priority \in [Tasks -> Nat]
  BY DEF TypeOK, TaskTypeOK
<1> DEFINE Accs == [best : Tasks \cup {-1}, best_prio : Nat]
           z == [best |-> -1, best_prio |-> 0]
           Body(t, a) == IF w[t] = "READY" /\ priority[t] > a.best_prio
                         THEN [best |-> t, best_prio |-> priority[t]]
                         ELSE a
           Turn(r) == IF r.done THEN r
                      ELSE [t |-> next[r.t], acc |-> Body(r.t, r.acc), done |-> next[r.t] = s]
           R(d) == d = [k \in 0 .. task_count |->
                          IF k = 0 THEN [t |-> s, acc |-> z, done |-> FALSE] ELSE Turn(d[k - 1])]
           do == CHOOSE d : R(d)
<1>10. SelectLoop = do[task_count]
  BY <1>4, <1>7 DEF SelectLoop, Walk
<1>11. \E f \in [0 .. N -> Accs] : f[0] = z /\ \A k \in 1 .. N : f[k] = Body(h[k - 1], f[k - 1])
  <2> DEFINE F == [k \in 1 .. N |-> [a \in Accs |-> Body(h[k - 1], a)]]
  <2>1. F \in StepFunctions(N, Accs)
    <3>1. ASSUME NEW k \in 1 .. N, NEW a \in Accs PROVE Body(h[k - 1], a) \in Accs
      <4>1. PICK t \in Tasks : t = h[k - 1]
        BY <1>3, <1>6
      <4>2. priority[t] \in Nat
        BY <1>9
      <4>3. [best |-> t, best_prio |-> priority[t]] \in Accs
        BY <4>2
      <4> HIDE DEF Accs
      <4> QED
        BY <4>1, <4>3
    <3> HIDE DEF Accs, Body
    <3> QED
      BY <3>1 DEF StepFunctions
  <2>2. z \in Accs
    OBVIOUS
  <2> HIDE DEF Accs, z
  <2>3. PICK f \in Orbits(z, N, Accs, F) : TRUE
    <3> HIDE DEF F
    <3> QED
      BY <2>1, <2>2, Recursion
  <2>4. f \in [0 .. N -> Accs] /\ f[0] = z /\ \A k \in 1 .. N : f[k] = F[k][f[k - 1]]
    <3> HIDE DEF F
    <3> QED
      BY DEF Orbits
  <2>5. ASSUME NEW k \in 1 .. N PROVE f[k] = Body(h[k - 1], f[k - 1])
    <3>1. k - 1 \in 0 .. N
      OBVIOUS
    <3>2. f[k - 1] \in Accs
      BY <2>4, <3>1
    <3> HIDE DEF Body
    <3> QED
      BY <2>4, <3>2
  <2> QED
    BY <2>4, <2>5
<1>12. PICK f \in [0 .. N -> Accs] :
         f[0] = z /\ \A k \in 1 .. N : f[k] = Body(h[k - 1], f[k - 1])
  BY <1>11
<1> DEFINE G(k) == [t |-> h[k], acc |-> f[k], done |-> k = N]
           g == [k \in 0 .. task_count |-> G(k)]
<1> HIDE DEF Body, z, Accs
<1>13. ASSUME NEW k \in 1 .. N PROVE Turn(G(k - 1)) = G(k)
  <2>0. (k - 1 = N) = FALSE
    BY <1>2
  <2>1. G(k - 1).done = FALSE /\ G(k - 1).t = h[k - 1] /\ G(k - 1).acc = f[k - 1]
    BY <2>0
  <2>2. Turn(G(k - 1)) = [t |-> next[h[k - 1]], acc |-> Body(h[k - 1], f[k - 1]),
                          done |-> next[h[k - 1]] = s]
    <3> HIDE DEF G
    <3> QED
      BY <2>1
  <2>3. next[h[k - 1]] = h[k] /\ (h[k] = s <=> k = N)
    BY <1>6
  <2>4. (next[h[k - 1]] = s) = (k = N)
    BY <2>3, Zenon
  <2> QED
    BY <1>12, <2>2, <2>3, <2>4
<1>14. G(0) = [t |-> s, acc |-> z, done |-> FALSE]
  <2>1. (0 = N) = FALSE
    BY <1>2
  <2> QED
    BY <1>6, <1>12, <2>1
<1> HIDE DEF G, Turn
<1>15. R(g)
  <2>1. ASSUME NEW k \in 0 .. N
        PROVE  G(k) = IF k = 0 THEN [t |-> s, acc |-> z, done |-> FALSE] ELSE Turn(g[k - 1])
    <3>1. CASE k = 0
      BY <1>14, <3>1
    <3>2. CASE k # 0
      <4>1. k \in 1 .. N /\ k - 1 \in 0 .. task_count
        BY <1>2, <3>2
      <4>2. g[k - 1] = G(k - 1)
        BY <4>1
      <4> HIDE DEF g
      <4> QED
        BY <1>13, <3>2, <4>1, <4>2
    <3> QED
      BY <3>1, <3>2
  <2> QED
    BY <1>2, <2>1
<1>16. R(do)
  <2> HIDE DEF R
  <2> QED
    BY <1>15
<1> HIDE DEF do
<1>17. /\ do[0] = G(0)
       /\ \A k \in 1 .. N : do[k] = Turn(do[k - 1])
  <2>1. 0 \in 0 .. N /\ \A k \in 1 .. N : k \in 0 .. N /\ k # 0
    BY <1>2
  <2>2. \A k \in 0 .. N : do[k] = IF k = 0 THEN G(0) ELSE Turn(do[k - 1])
    BY <1>2, <1>14, <1>16
  <2> HIDE DEF R
  <2> QED
    BY <2>1, <2>2
<1> HIDE DEF R
<1> DEFINE T == {k \in 0 .. N : do[k] = G(k)}
<1>18. 0 \in T /\ \A k \in 1 .. N : k - 1 \in T => k \in T
  BY <1>13, <1>17
<1> HIDE DEF T
<1>19. 0 .. N \subseteq T
  BY <1>18, InductionTo
<1>20. SelectLoop = G(N)
  BY <1>2, <1>10, <1>19 DEF T
<1>21. SelectLoop.done = TRUE /\ SelectLoop.acc = f[N]
  BY <1>20 DEF G
\* What the loop knows after k tasks: nothing eligible yet, or the first of
\* the best so far.
<1> DEFINE First(k, b) ==
             /\ h[b] \in Eligible
             /\ \A i \in 0 .. k - 1 : h[i] \in Eligible =>
                  /\ priority[h[i]] <= priority[h[b]]
                  /\ i < b => priority[h[i]] < priority[h[b]]
           Known(k) ==
             \/ /\ f[k] = z
                /\ \A i \in 0 .. k - 1 : h[i] \notin Eligible
             \/ \E b \in 0 .. k - 1 :
                  f[k] = [best |-> h[b], best_prio |-> priority[h[b]]] /\ First(k, b)
<1>22. ASSUME NEW k \in 1 .. N, Known(k - 1) PROVE Known(k)
  <2>1. PICK j \in 0 .. n : j = k - 1 /\ j \in 0 .. N
    BY <1>2
  <2>2. PICK t \in 0 .. n : t = h[j]
    BY <1>6, <2>1
  <2>3. priority[t] \in Nat /\ \A u \in 0 .. n : priority[u] \in Nat
    BY <1>3, <1>9
  <2>4. t \in Eligible <=> w[t] = "READY" /\ priority[t] > 0
    BY <1>3, <1>8 DEF Eligible
  <2>5. f[k] = Body(t, f[j])
    BY <1>12, <2>1, <2>2
  <2>6. /\ \A i \in 0 .. k - 1 : i \in 0 .. j - 1 \/ i = j
        /\ j \in 0 .. k - 1 /\ \A i \in 0 .. j - 1 : i \in 0 .. k - 1
    BY <2>1
  <2>7. CASE f[j] = z /\ \A i \in 0 .. j - 1 : h[i] \notin Eligible
    <3>1. f[j].best_prio = 0
      BY <2>7 DEF z
    <3>2. CASE t \in Eligible
      <4>1. f[k] = [best |-> h[j], best_prio |-> priority[h[j]]]
        BY <2>2, <2>4, <2>5, <3>1, <3>2 DEF Body
      <4>2. First(k, j)
        <5>1. ASSUME NEW i \in 0 .. k - 1, h[i] \in Eligible PROVE i = j
          BY <2>6, <2>7, <5>1
        <5>2. priority[h[j]] <= priority[h[j]] /\ ~ (j < j)
          BY <2>2, <2>3
        <5> QED
          BY <2>2, <3>2, <5>1, <5>2
      <4> HIDE DEF First
      <4> QED
        BY <2>6, <4>1, <4>2
    <3>3. CASE t \notin Eligible
      <4>1. f[k] = z
        BY <2>4, <2>5, <2>7, <3>1, <3>3 DEF Body
      <4>2. \A i \in 0 .. k - 1 : h[i] \notin Eligible
        BY <2>2, <2>6, <2>7, <3>3
      <4> QED
        BY <4>1, <4>2
    <3> QED
      BY <3>2, <3>3
  <2>8. ASSUME NEW b \in 0 .. j - 1, First(j, b),
               f[j] = [best |-> h[b], best_prio |-> priority[h[b]]]
        PROVE  Known(k)
    <3>1. f[j].best_prio = priority[h[b]]
      BY <2>8
    <3>2. b \in 0 .. k - 1 /\ b < j /\ h[b] \in 0 .. n
      BY <1>6, <2>1, <2>6
    <3>3. priority[h[b]] \in Nat /\ priority[h[b]] > 0
      BY <2>3, <2>8, <3>2 DEF Eligible
    <3>4. CASE t \in Eligible /\ priority[t] > priority[h[b]]
      <4>1. f[k] = [best |-> h[j], best_prio |-> priority[h[j]]]
        BY <2>2, <2>4, <2>5, <3>1, <3>4 DEF Body
      <4>2. First(k, j)
        <5>1. ASSUME NEW i \in 0 .. j - 1, h[i] \in Eligible
              PROVE  priority[h[i]] < priority[h[j]] /\ priority[h[i]] <= priority[h[j]]
          <6>1. priority[h[i]] <= priority[h[b]]
            BY <2>8, <5>1
          <6>2. i \in 0 .. N
            BY <2>1
          <6>3. h[i] \in 0 .. n
            BY <1>6, <6>2
          <6>4. priority[h[i]] \in Nat
            BY <2>3, <6>3
          <6> QED
            BY <2>2, <2>3, <3>3, <3>4, <6>1, <6>4
        <5>2. priority[h[j]] <= priority[h[j]] /\ ~ (j < j)
          BY <2>2, <2>3
        <5> QED
          BY <2>2, <2>6, <3>4, <5>1, <5>2
      <4> HIDE DEF First
      <4> QED
        BY <2>6, <4>1, <4>2
    <3>5. CASE ~ (t \in Eligible /\ priority[t] > priority[h[b]])
      <4>1. ~ (w[t] = "READY" /\ priority[t] > priority[h[b]])
        BY <2>3, <2>4, <3>3, <3>5
      <4>2. f[k] = f[j]
        BY <2>5, <3>1, <4>1 DEF Body
      <4>3. First(k, b)
        <5>1. h[j] \in Eligible => priority[h[j]] <= priority[h[b]] /\ ~ (j < b)
          BY <2>2, <2>3, <3>2, <3>3, <3>5
        <5> QED
          BY <2>6, <2>8, <5>1
      <4> HIDE DEF First
      <4> QED
        BY <2>8, <3>2, <4>2, <4>3
    <3> QED
      BY <3>4, <3>5
  <2> HIDE DEF First
  <2>9. \/ f[j] = z /\ \A i \in 0 .. j - 1 : h[i] \notin Eligible
        \/ \E b \in 0 .. j - 1 :
             f[j] = [best |-> h[b], best_prio |-> priority[h[b]]] /\ First(j, b)
    BY <1>22, <2>1
  <2> QED
    BY <2>7, <2>8, <2>9
<1>23. Known(N)
  <2> DEFINE K == {k \in 0 .. N : Known(k)}
  <2>1. Known(0)
    BY <1>12
  <2> HIDE DEF Known
  <2>2. 0 \in K /\ \A k \in 1 .. N : k - 1 \in K => k \in K
    BY <1>22, <2>1
  <2> HIDE DEF K
  <2>3. 0 .. N \subseteq K
    BY <2>2, InductionTo
  <2> QED
    BY <2>3 DEF K
<1>24. \A t \in Live : \E i \in 0 .. N - 1 : i \in 0 .. n /\ h[i] = t
  <2>1. \A i \in 0 .. n : i \in 0 .. N - 1
    BY <1>2
  <2> QED
    BY <1>3, <1>6, <2>1
<1> DEFINE chosen == IF SelectLoop.acc.best = -1 THEN current_task ELSE SelectLoop.acc.best
<1>25. ASSUME f[N] = z, \A i \in 0 .. N - 1 : h[i] \notin Eligible
       PROVE  Best = {chosen}
  <2>1. Eligible = {}
    BY <1>24, <1>25 DEF Eligible
  <2>2. chosen = current_task
    BY <1>21, <1>25 DEF z
  <2> HIDE DEF chosen
  <2> QED
    BY <2>1, <2>2 DEF Best
<1>26. ASSUME NEW b \in 0 .. N - 1, First(N, b),
              f[N] = [best |-> h[b], best_prio |-> priority[h[b]]]
       PROVE  Best = {chosen}
  <2>0. b \in 0 .. n /\ b \in 0 .. N
    BY <1>2
  <2>1. b \in 0 .. n /\ b \in 0 .. N /\ h[b] \in 0 .. n
    BY <1>6, <2>0
  <2>2. chosen = h[b]
    BY <1>21, <1>26, <2>1
  <2> HIDE DEF chosen
  <2>3. \A k \in 0 .. n : Hops(h[k]) = k
    BY <1>1, <1>4, HopsIs, DistanceIs
  <2>4. \A t \in 0 .. n : priority[t] \in Nat
    BY <1>3, <1>9
  <2>5. h[b] \in TopPriority
    <3>1. ASSUME NEW u \in Eligible PROVE priority[u] <= priority[h[b]]
      <4>1. u \in Live
        BY DEF Eligible
      <4>2. PICK i \in 0 .. N - 1 : h[i] = u
        BY <1>24, <4>1
      <4> QED
        BY <1>26, <4>2
    <3> QED
      BY <1>26, <3>1 DEF TopPriority
  <2>6. ASSUME NEW t \in TopPriority
        PROVE  \E i \in 0 .. n : t = h[i] /\ b <= i
    <3>1. t \in Eligible /\ t \in Live /\ priority[h[b]] <= priority[t]
      BY <1>26 DEF TopPriority, Eligible
    <3>2. PICK i \in 0 .. N - 1 : i \in 0 .. n /\ h[i] = t
      BY <1>24, <3>1
    <3>3. i < b => priority[t] < priority[h[b]]
      BY <1>26, <3>1, <3>2
    <3>4. priority[t] \in Nat /\ priority[h[b]] \in Nat
      BY <1>3, <2>1, <2>4, <3>1
    <3>5. b <= i
      BY <2>1, <3>1, <3>2, <3>3, <3>4
    <3> QED
      BY <3>2, <3>5
  <2>7. Best = {t \in TopPriority : \A u \in TopPriority : Hops(t) <= Hops(u)}
    BY <1>26 DEF Best
  <2>8. h[b] \in Best
    <3>1. ASSUME NEW u \in TopPriority PROVE Hops(h[b]) <= Hops(u)
      BY <2>1, <2>3, <2>6
    <3> QED
      BY <2>5, <2>7, <3>1
  <2>9. ASSUME NEW t \in Best PROVE t = h[b]
    <3>1. t \in TopPriority /\ Hops(t) <= Hops(h[b])
      BY <2>5, <2>7
    <3>2. PICK i \in 0 .. n : t = h[i] /\ b <= i
      BY <2>6, <3>1
    <3>3. i <= b
      BY <2>1, <2>3, <3>1, <3>2
    <3>4. i = b
      BY <2>1, <3>2, <3>3
    <3> QED
      BY <3>2, <3>4
  <2> QED
    BY <2>2, <2>8, <2>9
<1> HIDE DEF First
<1>27. Best = {chosen}
  BY <1>23, <1>25, <1>26
<1> QED
  BY <1>21, <1>27

\* Wherever the list is one ring, both do/while loops of schedule() end after
\* one round and leave the ticks, the states and the choice of Task!schedule.
THEOREM LoopsCorrect == Spec => []LoopsAgree
<1>1. IInv => LoopsAgree
  BY SleepLoopIs, SelectLoopIs DEF IInv, LoopsAgree
<1> QED
  BY <1>1, Inductive, PTL

-----------------------------------------------------------------------------
\* Equals take turns.  At each interrupt 32 a READY task that no READY task is
\* above gets the CPU or comes nearer to current_task->next, where loop 2
\* begins; nothing else moves it.  So it waits for at most as many interrupts as
\* there are tasks.
TakesTurns ==
  [][\A t \in Live :
       /\ phase # "boot"
       /\ priority[t] > 0 /\ state'[t] = "READY"
       /\ \A u \in Live : state'[u] = "READY" => priority[u] <= priority[t]
       => IF irq_handler32 THEN current_task' = t \/ Hops(t)' < Hops(t)
                           ELSE current_task' = current_task /\ Hops(t)' = Hops(t)]_vars

\* The links still to go, after b of them, on the round that begins there.
LEMMA LaterRound ==
  ASSUME NEW n \in Nat, NEW nx, OneRing(n, nx), NEW s \in 0 .. n, NEW h \in Rounds(s, n, nx),
         NEW b \in 0 .. n, NEW i \in 0 .. n, b < i, NEW d, d = i - (b + 1)
  PROVE  Distance(nx[h[b]], n, nx, h[i]) = d
<1>1. /\ h \in [0 .. n + 1 -> 0 .. n] /\ \A k \in 1 .. n + 1 : h[k] = nx[h[k - 1]]
  BY DEF Rounds, Walks
<1>2. PICK z \in 0 .. n : z = nx[h[b]] /\ z = h[b + 1]
  <2>1. b + 1 \in 1 .. n + 1 /\ (b + 1) - 1 = b /\ b + 1 \in 0 .. n + 1
    OBVIOUS
  <2> QED
    BY <1>1, <2>1
<1>3. PICK g \in Rounds(z, n, nx) : TRUE
  BY RoundExists
<1>4. /\ g[0] = z /\ \A k \in 1 .. n + 1 : g[k] = nx[g[k - 1]]
  BY DEF Rounds, Walks
<1>5. PICK c \in 0 .. n : c = i - (b + 1) /\ b + 1 + c = i
  OBVIOUS
<1> DEFINE T == {m \in 0 .. c : g[m] = h[b + 1 + m]}
<1>6. 0 \in T
  BY <1>2, <1>4, <1>5
<1>7. \A m \in 1 .. c : m - 1 \in T => m \in T
  <2> SUFFICES ASSUME NEW m \in 1 .. c, m - 1 \in T PROVE m \in T
    OBVIOUS
  <2>1. /\ m \in 0 .. c /\ m \in 1 .. n + 1 /\ b + 1 + m \in 1 .. n + 1
        /\ (b + 1 + m) - 1 = b + 1 + (m - 1)
    BY <1>5
  <2>2. h[b + 1 + m] = nx[h[b + 1 + (m - 1)]] /\ g[m] = nx[g[m - 1]]
    BY <1>1, <1>4, <2>1
  <2> QED
    BY <2>1, <2>2
<1> HIDE DEF T
<1>8. c \in Nat /\ c \in 0 .. c
  OBVIOUS
<1>9. 0 .. c \subseteq T
  BY <1>6, <1>7, <1>8, InductionTo
<1>10. g[c] = h[i]
  BY <1>5, <1>8, <1>9 DEF T
<1>11. Distance(z, n, nx, g[c]) = c
  BY DistanceIs
<1> QED
  BY <1>2, <1>5, <1>10, <1>11

\* The step of schedule() itself.
LEMMA TurnComes ==
  ASSUME TypeOK, RingInv, schedule, NEW t \in Live,
         priority[t] > 0, state'[t] = "READY",
         \A u \in Live : state'[u] = "READY" => priority[u] <= priority[t]
  PROVE  current_task' = t \/ Hops(t)' < Hops(t)
<1>1. PICK n \in Nat : n = pool_index
  BY TaskAssumption DEF TypeOK, TaskTypeOK
<1>2. /\ Live = 0 .. n /\ current_task \in 0 .. n /\ OneRing(n, next)
      /\ 0 .. n \subseteq Tasks
  BY <1>1, LiveRing
<1>3. PICK s \in 0 .. n : s = next[current_task]
  BY <1>2 DEF OneRing
<1>4. PICK h \in Rounds(s, n, next) : TRUE
  BY <1>2, <1>3, RoundExists
<1>5. PICK c \in Best : current_task' = c /\ state' = [u \in Tasks |-> Woken(u)]
                        /\ pool_index' = pool_index /\ next' = next
  BY DEF schedule
<1>6. \A u \in Live : state'[u] = Woken(u)
  BY <1>2, <1>5
<1>7. t \in Eligible
  BY <1>6 DEF Eligible
<1>8. t \in TopPriority
  BY <1>6, <1>7 DEF TopPriority, Eligible
<1>9. c \in TopPriority /\ Hops(c) <= Hops(t)
  BY <1>7, <1>8 DEF Best
<1>10. c \in Live
  BY <1>9 DEF TopPriority, Eligible
<1>11. PICK i \in 0 .. n, b \in 0 .. n : t = h[i] /\ c = h[b]
  BY <1>2, <1>10 DEF Rounds
<1>12. Hops(t) = i /\ Hops(c) = b
  BY <1>1, <1>3, <1>11, HopsIs, DistanceIs
<1>13. CASE b = i
  BY <1>5, <1>11, <1>13
<1>14. CASE b < i
  <2>0. PICK d : d = i - (b + 1)
    OBVIOUS
  <2>1. Distance(next[h[b]], n, next, h[i]) = d
    BY <1>2, <1>14, <2>0, LaterRound
  <2>2. Hops(t)' = Distance(next'[current_task'], pool_index', next', t)
    BY HopsIs
  <2>3. Hops(t)' = d
    BY <1>1, <1>5, <1>11, <2>1, <2>2
  <2> QED
    BY <1>12, <2>0, <2>3
<1> QED
  BY <1>9, <1>12, <1>13, <1>14

\* A task of the highest priority that is READY is not passed over for ever by
\* its equals, however many there are: each interrupt brings it nearer.
THEOREM EqualsTakeTurns == Spec => TakesTurns
<1>1. ASSUME IInv, [Next]_vars, phase # "boot", NEW t \in Live, priority[t] > 0,
             state'[t] = "READY",
             \A u \in Live : state'[u] = "READY" => priority[u] <= priority[t]
      PROVE  IF irq_handler32 THEN current_task' = t \/ Hops(t)' < Hops(t)
                              ELSE current_task' = current_task /\ Hops(t)' = Hops(t)
  <2>1. CASE irq_handler32
    <3>1. TypeOK /\ RingInv /\ schedule
      BY <1>1, <2>1 DEF IInv, irq_handler32
    <3>2. current_task' = t \/ Hops(t)' < Hops(t)
      BY <1>1, <3>1, TurnComes
    <3> QED
      BY <2>1, <3>2
  <2>2. CASE ~ irq_handler32
    <3>1. current_task' = current_task /\ next' = next /\ pool_index' = pool_index
      BY <1>1, <2>2 DEF Next, CreateTask, EnableInterrupts, TaskSleep, task_sleep_mark, SleepInt,
         TaskYield, TimerIrq, vars, taskVars
    <3>2. Hops(t)' = Hops(t)
      BY <3>1, HopsIs
    <3> QED
      BY <2>2, <3>1, <3>2
  <2> QED
    BY <2>1, <2>2
<1>2. IInv /\ [Next]_vars =>
        [\A t \in Live :
           /\ phase # "boot"
           /\ priority[t] > 0 /\ state'[t] = "READY"
           /\ \A u \in Live : state'[u] = "READY" => priority[u] <= priority[t]
           => IF irq_handler32 THEN current_task' = t \/ Hops(t)' < Hops(t)
                               ELSE current_task' = current_task /\ Hops(t)' = Hops(t)]_vars
  BY <1>1
<1> QED
  BY <1>2, Inductive, PTL DEF Spec, TakesTurns
=============================================================================
