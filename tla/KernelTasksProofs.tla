-------------------------- MODULE KernelTasksProofs --------------------------
(***************************************************************************)
(* Proofs about KernelTasks: for any number of producers and consumers, of *)
(* any priorities, and any queue size, mutex.c excludes and queue.c keeps  *)
(* its counters together.                                                  *)
(***************************************************************************)
EXTENDS KernelTasks, ProofBasics, TLAPS

\* A task inside task_sleep is at a lock it found busy or at its long sleep.
SleepOutside == \A t \in Workers : sl[t] # "off" => pc[t] \in {"lock", "vlock", "sleep"}

\* The test of queue_push or queue_pop still holds while the task acts on it.
RoomInv ==
  \A t \in Workers : pc[t] \in {"data", "ptr", "count"} =>
     IF t \in Producers THEN count < QUEUE_SIZE ELSE count > 0

\* The inductive invariant.
IInv ==
  /\ TypeOK
  /\ pool_index = TASK_POOL_SIZE
  /\ MutualExclusion
  /\ SleepOutside
  /\ RoomInv
  /\ QueueConsistent

PC == {"lock", "vlock", "sleep"} \cup Section["queue"] \cup Section["vga"]


-----------------------------------------------------------------------------
\* The sets the model is built from.
LEMMA Sets ==
  /\ Workers = 1 .. TASK_POOL_SIZE
  /\ Workers \subseteq Tasks
  /\ NULL \notin Workers
  /\ main \in Tasks
  /\ Section["queue"] = {"check", "data", "ptr", "count", "unlock"}
  /\ Section["vga"] = {"draw", "vunlock"}
  BY TaskAssumption DEF Workers, Tasks, main, NULL, Section

\* Two tasks inside the same mutex are one.
LEMMA OnlyOne ==
  ASSUME MutualExclusion, NEW t \in Workers, NEW u \in Workers, NEW m \in Mutexes,
         pc[t] \in Section[m], pc[u] \in Section[m]
  PROVE  t = u
  BY DEF MutualExclusion

\* Interrupt 32 touches nothing but the scheduler, and keeps its types.
LEMMA InterruptType ==
  ASSUME TaskTypeOK, pool_index = TASK_POOL_SIZE, irq_handler32
  PROVE  TaskTypeOK' /\ pool_index' = TASK_POOL_SIZE
<1>1. /\ UNCHANGED <<pool_index, next, priority>> /\ Live' = Live /\ Live = Tasks
  BY DEF irq_handler32, schedule, Live, Tasks
<1>2. PICK b \in Best :
        /\ current_task' = b
        /\ cpu_ticks' = [cpu_ticks EXCEPT ![b] = (@ + 1) % TICK_MOD]
        /\ state' = [u \in Tasks |-> Woken(u)]
        /\ sleep_ticks' = [u \in Tasks |-> TicksLeft(u)]
  BY DEF irq_handler32, schedule
<1>3. b \in Live
  BY DEF Best, TopPriority, Eligible, TaskTypeOK
<1>4. \A n \in Nat : (n + 1) % TICK_MOD \in 0 .. TICK_MOD - 1
  BY TaskAssumption
<1>5. timer_ticks' \in 0 .. TICK_MOD - 1
  BY <1>4 DEF irq_handler32, timer_irq_callback, TaskTypeOK
<1>6. (cpu_ticks[b] + 1) % TICK_MOD \in 0 .. TICK_MOD - 1
  BY <1>1, <1>3, <1>4 DEF TaskTypeOK
<1>7. cpu_ticks' \in [Tasks -> 0 .. TICK_MOD - 1]
  BY <1>1, <1>2, <1>3, <1>6 DEF TaskTypeOK
<1>8. \A t \in Tasks : TicksLeft(t) \in Nat /\ Woken(t) \in TaskState
  BY DEF TaskTypeOK, TicksLeft, Woken, TaskState
<1> QED
  BY <1>1, <1>2, <1>3, <1>5, <1>7, <1>8 DEF TaskTypeOK

\* A step that leaves taskVars alone keeps the scheduler's types.
LEMMA TaskFrame ==
  ASSUME TaskTypeOK, pool_index = TASK_POOL_SIZE, UNCHANGED taskVars
  PROVE  TaskTypeOK' /\ pool_index' = TASK_POOL_SIZE
  BY DEF TaskTypeOK, taskVars, Live

-----------------------------------------------------------------------------
\* A task that moves on without entering or leaving a section.
LEMMA StayInside ==
  ASSUME TypeOK, MutualExclusion, NEW t \in Workers, NEW l, Goto(t, l), owner' = owner,
         \A m \in Mutexes : pc[t] \in Section[m] <=> l \in Section[m]
  PROVE  MutualExclusion'
  BY DEF TypeOK, MutualExclusion, Goto

\* A step that moves no task to or from "count" and no counter.
LEMMA CountersFrame ==
  ASSUME QueueConsistent, UNCHANGED <<head, tail, count>>,
         \A u \in Workers : pc'[u] = "count" <=> pc[u] = "count"
  PROVE  QueueConsistent'
<1>1. Producers \subseteq Workers /\ Consumers \subseteq Workers
  BY KernelTasksAssumption DEF Consumers
<1>2. /\ Inside(Producers, "count")' <=> Inside(Producers, "count")
      /\ Inside(Consumers, "count")' <=> Inside(Consumers, "count")
  BY <1>1 DEF Inside
<1> QED
  BY <1>2 DEF QueueConsistent

\* The same for RoomInv: no task comes to the three assignments.
LEMMA RoomFrame ==
  ASSUME RoomInv, count' = count,
         \A u \in Workers : pc'[u] \in {"data", "ptr", "count"} => pc[u] \in {"data", "ptr", "count"}
  PROVE  RoomInv'
  BY DEF RoomInv

\* What the counters say of each other when t is the task inside queue.c.
LEMMA CountersInside ==
  ASSUME IInv, NEW t \in Workers, pc[t] \in Section["queue"]
  PROVE  /\ pc[t] # "count" => (head + count) % QUEUE_SIZE = tail
         /\ pc[t] = "count" /\ t \in Producers => (head + count + 1) % QUEUE_SIZE = tail
         /\ pc[t] = "count" /\ t \notin Producers =>
              (head + count) % QUEUE_SIZE = (tail + 1) % QUEUE_SIZE
<1>1. \A u \in Workers : u # t => pc[u] # "count"
  BY OnlyOne, Sets DEF IInv, Mutexes
<1>2. Producers \subseteq Workers /\ Consumers = Workers \ Producers
  BY KernelTasksAssumption DEF Consumers
<1>3. /\ Inside(Producers, "count") <=> pc[t] = "count" /\ t \in Producers
      /\ Inside(Consumers, "count") <=> pc[t] = "count" /\ t \notin Producers
  BY <1>1, <1>2 DEF Inside
<1>4. head \in Int /\ count \in Int /\ tail \in 0 .. QUEUE_SIZE - 1 /\ QUEUE_SIZE \in Nat \ {0}
  BY KernelTasksAssumption DEF IInv, TypeOK, Slots
<1>5. tail % QUEUE_SIZE = tail
  BY <1>4, ModSmall
<1> QED
  BY <1>3, <1>4, <1>5 DEF IInv, QueueConsistent

\* And back: what is to be shown after a step of t that ends inside queue.c.
LEMMA CountersAfter ==
  ASSUME NEW t \in Workers, MutualExclusion', pc'[t] \in Section["queue"],
         head' \in Int, count' \in Int, tail' \in Slots,
         pc'[t] # "count" => (head' + count') % QUEUE_SIZE = tail',
         pc'[t] = "count" /\ t \in Producers => (head' + count' + 1) % QUEUE_SIZE = tail',
         pc'[t] = "count" /\ t \notin Producers =>
              (head' + count') % QUEUE_SIZE = (tail' + 1) % QUEUE_SIZE
  PROVE  QueueConsistent'
<1>1. \A u \in Workers : u # t => pc'[u] # "count"
  <2>1. "queue" \in Mutexes /\ "count" \in Section["queue"]
    BY Sets DEF Mutexes
  <2> QED
    BY <2>1 DEF MutualExclusion
<1>2. Producers \subseteq Workers /\ Consumers = Workers \ Producers
  BY KernelTasksAssumption DEF Consumers
<1>3. /\ Inside(Producers, "count")' <=> pc'[t] = "count" /\ t \in Producers
      /\ Inside(Consumers, "count")' <=> pc'[t] = "count" /\ t \notin Producers
  <2>1. Inside(Producers, "count")' <=> \E u \in Producers : pc'[u] = "count"
    BY DEF Inside
  <2>2. Inside(Consumers, "count")' <=> \E u \in Consumers : pc'[u] = "count"
    BY DEF Inside
  <2> QED
    BY <1>1, <1>2, <2>1, <2>2
<1>4. tail' % QUEUE_SIZE = tail' /\ tail' \in Int
  <2>1. QUEUE_SIZE \in Nat \ {0} /\ tail' \in 0 .. QUEUE_SIZE - 1
    BY KernelTasksAssumption DEF Slots
  <2>2. \A x \in 0 .. QUEUE_SIZE - 1 : x % QUEUE_SIZE = x /\ x \in Int
    BY <2>1, ModSmall
  <2> QED
    BY <2>1, <2>2
<1>5. CASE pc'[t] # "count"
  BY <1>3, <1>4, <1>5 DEF QueueConsistent
<1>6. CASE pc'[t] = "count" /\ t \in Producers
  BY <1>3, <1>4, <1>6 DEF QueueConsistent
<1>7. CASE pc'[t] = "count" /\ t \notin Producers
  BY <1>3, <1>4, <1>7 DEF QueueConsistent
<1> QED
  BY <1>5, <1>6, <1>7
-----------------------------------------------------------------------------
\* The invariant holds when kernel_main has set the queue and tasks up.
LEMMA InitIInv == Init => IInv
<1> SUFFICES ASSUME Init PROVE IInv
  OBVIOUS
<1> USE DEF Init
<1>1. TaskTypeOK
  <2>1. next \in [Tasks -> Tasks]
    BY TaskAssumption DEF Tasks, main
  <2>2. priority \in [Tasks -> Nat]
    BY KernelTasksAssumption DEF Workers
  <2>3. 0 \in 0 .. TICK_MOD - 1 /\ current_task \in Live
    BY TaskAssumption DEF Live, main
  <2> QED
    BY <2>1, <2>2, <2>3, TaskAssumption DEF TaskTypeOK, TaskState
<1>2. TypeOK
  <2>1. 0 \in Slots /\ 0 \in 0 .. QUEUE_SIZE /\ 0 \in 0 .. VAL_MOD - 1
    BY KernelTasksAssumption DEF Slots
  <2> QED
    BY <1>1, <2>1, Sets DEF TypeOK
<1>3. MutualExclusion
  BY Sets DEF MutualExclusion, Mutexes
<1>4. SleepOutside /\ RoomInv
  BY DEF SleepOutside, RoomInv
<1>5. QueueConsistent
  <2>1. ~ Inside(Producers, "count") /\ ~ Inside(Consumers, "count")
    BY KernelTasksAssumption DEF Inside, Consumers
  <2> QED
    BY <2>1, KernelTasksAssumption DEF QueueConsistent
<1> QED
  BY <1>2, <1>3, <1>4, <1>5 DEF IInv

\* mutex_lock takes a free mutex.
LEMMA AcquireStep ==
  ASSUME IInv, NEW t \in Workers, NEW m \in Mutexes, NEW from, NEW to,
         Acquire(t, m, from, to),
         \/ m = "queue" /\ from = "lock" /\ to = "check"
         \/ m = "vga" /\ from = "vlock" /\ to = "draw"
  PROVE  IInv'
<1>1. /\ pc[t] = from /\ sl[t] = "off" /\ pc' = [pc EXCEPT ![t] = to]
      /\ owner[m] = NULL /\ owner' = [owner EXCEPT ![m] = t]
      /\ UNCHANGED <<taskVars, data, head, tail, count, sl, msg, ret>>
  BY DEF Acquire, At, Goto, queueVars
<1>2. TypeOK' /\ pool_index' = TASK_POOL_SIZE
  BY <1>1, TaskFrame, Sets DEF IInv, TypeOK
<1>3. MutualExclusion'
  <2>1. \A u \in Workers : u # t => pc[u] \notin Section[m]
    BY <1>1, Sets DEF IInv, MutualExclusion
  <2>2. ASSUME NEW n \in Mutexes, NEW u \in Workers
        PROVE  pc'[u] \in Section[n] <=> owner'[n] = u
    <3>1. CASE n = m
      BY <1>1, <2>1, <3>1, Sets DEF IInv, TypeOK
    <3>2. CASE n # m
      BY <1>1, <3>2, Sets DEF IInv, TypeOK, MutualExclusion, Mutexes
    <3> QED
      BY <3>1, <3>2
  <2> QED
    BY <2>2 DEF MutualExclusion
<1>4. SleepOutside'
  BY <1>1 DEF IInv, TypeOK, SleepOutside
<1>5. RoomInv'
  BY <1>1, RoomFrame DEF IInv, TypeOK
<1>6. QueueConsistent'
  BY <1>1, CountersFrame DEF IInv, TypeOK
<1> QED
  BY <1>2, <1>3, <1>4, <1>5, <1>6 DEF IInv

\* mutex_unlock at the end of a section.
LEMMA ReleaseStep ==
  ASSUME IInv, NEW t \in Workers, NEW m \in Mutexes, NEW to,
         pc[t] \in {"unlock", "vunlock"}, pc[t] \in Section[m],
         to \in {"vlock", "sleep"}, sl[t] = "off",
         unlock(t, m), Goto(t, to), UNCHANGED <<taskVars, queueVars, sl, ret>>,
         msg' \in [Workers -> 0 .. VAL_MOD - 1]
  PROVE  IInv'
<1>1. /\ pc' = [pc EXCEPT ![t] = to] /\ owner[m] = t
      /\ owner' = [owner EXCEPT ![m] = NULL]
      /\ UNCHANGED <<data, head, tail, count>>
  BY DEF unlock, Goto, queueVars, IInv, MutualExclusion
<1>2. TypeOK' /\ pool_index' = TASK_POOL_SIZE
  BY <1>1, TaskFrame, Sets DEF IInv, TypeOK
<1>3. MutualExclusion'
  <2>1. \A n \in Mutexes : to \notin Section[n] /\ (n # m => pc[t] \notin Section[n])
    BY Sets DEF Mutexes
  <2>2. ASSUME NEW n \in Mutexes, NEW u \in Workers
        PROVE  pc'[u] \in Section[n] <=> owner'[n] = u
    <3>1. pc[u] \in Section[n] <=> owner[n] = u
      BY DEF IInv, MutualExclusion
    <3>2. /\ pc'[u] = IF u = t THEN to ELSE pc[u]
          /\ owner'[n] = IF n = m THEN NULL ELSE owner[n]
      BY <1>1 DEF IInv, TypeOK
    <3>3. u # NULL
      BY Sets
    <3> QED
      BY <1>1, <2>1, <3>1, <3>2, <3>3
  <2> QED
    BY <2>2 DEF MutualExclusion
<1>4. SleepOutside'
  BY <1>1 DEF IInv, TypeOK, SleepOutside
<1>5. RoomInv'
  BY <1>1, RoomFrame DEF IInv, TypeOK
<1>6. QueueConsistent'
  BY <1>1, CountersFrame DEF IInv, TypeOK
<1> QED
  BY <1>2, <1>3, <1>4, <1>5, <1>6 DEF IInv
\* The statements of queue_push and queue_pop between lock and unlock.
LEMMA QueueOpStep ==
  ASSUME IInv, NEW t \in Workers, QueueOp(t)
  PROVE  IInv'
<1>0. /\ t \in Consumers <=> t \notin Producers
      /\ QUEUE_SIZE \in Nat \ {0}
      /\ head \in 0 .. QUEUE_SIZE - 1 /\ tail \in 0 .. QUEUE_SIZE - 1
      /\ count \in 0 .. QUEUE_SIZE
      /\ pc \in [Workers -> PC]
  BY KernelTasksAssumption DEF Consumers, IInv, TypeOK, Slots, PC
<1>1. PICK l \in Section["queue"] : Goto(t, l)
  BY Sets DEF QueueOp, Refuse, Accept, PushData, PushTail, PushCount, PopData, PopHead, PopCount
<1>2. /\ pc[t] \in Section["queue"] /\ sl[t] = "off"
      /\ UNCHANGED <<taskVars, owner, sl>>
      /\ pc' = [pc EXCEPT ![t] = l] /\ pc'[t] = l
  BY <1>0, <1>1, Sets DEF QueueOp, Refuse, Accept, PushData, PushTail, PushCount, PopData, PopHead,
     PopCount, At, Goto
<1>3. MutualExclusion'
  <2>1. \A m \in Mutexes : pc[t] \in Section[m] <=> l \in Section[m]
    BY <1>2, Sets DEF Mutexes
  <2> QED
    BY <1>1, <1>2, <2>1, StayInside DEF IInv
<1>4. SleepOutside'
  BY <1>2 DEF IInv, TypeOK, SleepOutside
<1>5. \A u \in Workers : u # t => pc'[u] \notin Section["queue"]
  BY <1>2, <1>3, Sets DEF MutualExclusion, Mutexes
\* What is left, from the new values of the queue's variables.
<1>6. ASSUME data' \in [Slots -> 0 .. VAL_MOD - 1], head' \in Slots, tail' \in Slots,
             count' \in 0 .. QUEUE_SIZE, msg' \in [Workers -> 0 .. VAL_MOD - 1],
             ret' \in [Workers -> BOOLEAN],
             l \in {"data", "ptr", "count"} =>
               IF t \in Producers THEN count' < QUEUE_SIZE ELSE count' > 0,
             l # "count" => (head' + count') % QUEUE_SIZE = tail',
             l = "count" /\ t \in Producers => (head' + count' + 1) % QUEUE_SIZE = tail',
             l = "count" /\ t \notin Producers =>
               (head' + count') % QUEUE_SIZE = (tail' + 1) % QUEUE_SIZE
      PROVE  IInv'
  <2>1. TypeOK' /\ pool_index' = TASK_POOL_SIZE
    BY <1>0, <1>1, <1>2, <1>6, TaskFrame DEF IInv, TypeOK, PC
  <2>2. RoomInv'
    BY <1>2, <1>5, <1>6, Sets DEF RoomInv
  <2>3. QueueConsistent'
    BY <1>0, <1>2, <1>3, <1>6, CountersAfter DEF Slots
  <2> QED
    BY <1>3, <1>4, <2>1, <2>2, <2>3 DEF IInv
<1>7. /\ pc[t] # "count" => (head + count) % QUEUE_SIZE = tail
      /\ pc[t] = "count" /\ t \in Producers => (head + count + 1) % QUEUE_SIZE = tail
      /\ pc[t] = "count" /\ t \notin Producers =>
           (head + count) % QUEUE_SIZE = (tail + 1) % QUEUE_SIZE
  BY <1>2, CountersInside
<1>8. pc[t] \in {"data", "ptr", "count"} =>
        IF t \in Producers THEN count < QUEUE_SIZE ELSE count > 0
  BY DEF IInv, RoomInv
<1>9. /\ data \in [Slots -> 0 .. VAL_MOD - 1] /\ head \in Slots /\ tail \in Slots
      /\ msg \in [Workers -> 0 .. VAL_MOD - 1] /\ ret \in [Workers -> BOOLEAN]
  BY DEF IInv, TypeOK
<1> USE DEF At, Goto
<1>a. CASE Refuse(t)
  <2>1. /\ pc[t] = "check" /\ l = "unlock" /\ UNCHANGED <<queueVars, msg>>
        /\ ret' \in [Workers -> BOOLEAN]
    BY <1>a, <1>0, <1>2, <1>9 DEF Refuse
  <2> QED
    BY <1>0, <1>6, <1>7, <1>9, <2>1 DEF queueVars
<1>b. CASE Accept(t)
  <2>1. /\ pc[t] = "check" /\ l = "data" /\ UNCHANGED <<queueVars, msg, ret>>
        /\ IF t \in Producers THEN count < QUEUE_SIZE ELSE count > 0
    BY <1>b, <1>0, <1>2 DEF Accept, Full, Empty
  <2> QED
    BY <1>0, <1>6, <1>7, <1>9, <2>1 DEF queueVars
<1>c. CASE PushData(t)
  <2>1. /\ t \in Producers /\ pc[t] = "data" /\ l = "ptr"
        /\ UNCHANGED <<head, tail, count, msg, ret>>
        /\ data' \in [Slots -> 0 .. VAL_MOD - 1]
    BY <1>c, <1>0, <1>2, <1>9 DEF PushData
  <2> QED
    BY <1>0, <1>6, <1>7, <1>8, <1>9, <2>1
<1>d. CASE PushTail(t)
  <2>1. /\ t \in Producers /\ pc[t] = "ptr" /\ l = "count"
        /\ UNCHANGED <<data, head, count, msg, ret>>
        /\ tail' = (tail + 1) % QUEUE_SIZE
    BY <1>d, <1>0, <1>2 DEF PushTail
  <2>2. tail' \in Slots
    BY <1>0, <2>1, ModSucc DEF Slots
  <2>3. (head + count + 1) % QUEUE_SIZE = (tail + 1) % QUEUE_SIZE
    <3>1. head + count \in 0 .. 2 * QUEUE_SIZE - 2 /\ (head + count) % QUEUE_SIZE = tail
      BY <1>0, <1>7, <1>8, <2>1
    <3> QED
      BY <1>0, <3>1, ModCongruent
  <2> QED
    BY <1>0, <1>6, <1>8, <1>9, <2>1, <2>2, <2>3
<1>e. CASE PushCount(t)
  <2>1. /\ t \in Producers /\ pc[t] = "count" /\ l = "unlock"
        /\ UNCHANGED <<data, head, tail, msg>> /\ count' = count + 1
        /\ ret' \in [Workers -> BOOLEAN]
    BY <1>e, <1>0, <1>2, <1>9 DEF PushCount
  <2>2. count' \in 0 .. QUEUE_SIZE /\ head' + count' = head + count + 1
    BY <1>0, <1>8, <2>1
  <2> QED
    BY <1>0, <1>6, <1>7, <1>9, <2>1, <2>2
<1>f. CASE PopData(t)
  <2>1. /\ t \notin Producers /\ pc[t] = "data" /\ l = "ptr"
        /\ UNCHANGED queueVars
        /\ msg' \in [Workers -> 0 .. VAL_MOD - 1]
        /\ ret' \in [Workers -> BOOLEAN]
    BY <1>f, <1>0, <1>2, <1>9 DEF PopData
  <2> QED
    BY <1>0, <1>6, <1>7, <1>8, <1>9, <2>1 DEF queueVars
<1>g. CASE PopHead(t)
  <2>1. /\ t \notin Producers /\ pc[t] = "ptr" /\ l = "count"
        /\ UNCHANGED <<data, tail, count, msg, ret>>
        /\ head' = (head + 1) % QUEUE_SIZE
    BY <1>g, <1>0, <1>2 DEF PopHead
  <2>2. /\ head' \in Slots
        /\ head' = IF head = QUEUE_SIZE - 1 THEN 0 ELSE head + 1
    BY <1>0, <2>1, ModSucc DEF Slots
  <2>3. (head' + count) % QUEUE_SIZE = (tail + 1) % QUEUE_SIZE
    <3>1. (head + count) % QUEUE_SIZE = tail /\ count > 0
      BY <1>7, <1>8, <2>1
    <3>2. CASE head + count = 2 * QUEUE_SIZE - 1
      <4>1. head = QUEUE_SIZE - 1 /\ count = QUEUE_SIZE /\ head' = 0
        BY <1>0, <2>2, <3>2
      <4>2. tail = QUEUE_SIZE - 1
        BY <1>0, <3>1, <3>2, ModLarge
      <4> QED
        BY <1>0, <4>1, <4>2
    <3>3. CASE head + count # 2 * QUEUE_SIZE - 1
      <4>1. head + count \in 0 .. 2 * QUEUE_SIZE - 2
        BY <1>0, <3>3
      <4>2. (head + count + 1) % QUEUE_SIZE = (tail + 1) % QUEUE_SIZE
        BY <1>0, <3>1, <4>1, ModCongruent
      <4>3. (head' + count) % QUEUE_SIZE = (head + count + 1) % QUEUE_SIZE
        <5>1. CASE head = QUEUE_SIZE - 1
          <6>1. head' + count = count /\ head + count + 1 = count + QUEUE_SIZE
            BY <1>0, <2>2, <5>1
          <6>2. count \in 0 .. QUEUE_SIZE - 1
            BY <1>0, <4>1, <5>1
          <6>3. count % QUEUE_SIZE = count
            BY <1>0, <6>2, ModSmall
          <6>4. (count + QUEUE_SIZE) % QUEUE_SIZE = count
            BY <1>0, <6>2, ModLarge
          <6> QED
            BY <6>1, <6>3, <6>4
        <5>2. CASE head # QUEUE_SIZE - 1
          BY <1>0, <2>2, <5>2
        <5> QED
          BY <5>1, <5>2
      <4> QED
        BY <4>2, <4>3
    <3> QED
      BY <3>2, <3>3
  <2> QED
    BY <1>0, <1>6, <1>8, <1>9, <2>1, <2>2, <2>3
<1>h. CASE PopCount(t)
  <2>1. /\ t \notin Producers /\ pc[t] = "count" /\ l = "unlock"
        /\ UNCHANGED <<data, head, tail, msg, ret>> /\ count' = count - 1
    BY <1>h, <1>0, <1>2 DEF PopCount
  <2>2. count \in 1 .. QUEUE_SIZE /\ (head + count) % QUEUE_SIZE = (tail + 1) % QUEUE_SIZE
    BY <1>0, <1>7, <1>8, <2>1
  <2>3. (head + count - 1) % QUEUE_SIZE = tail
    <3>1. (tail + 1) % QUEUE_SIZE = IF tail = QUEUE_SIZE - 1 THEN 0 ELSE tail + 1
      BY <1>0, ModSucc
    <3>2. CASE head + count < QUEUE_SIZE
      <4>1. (head + count) % QUEUE_SIZE = head + count
        BY <1>0, <3>2, ModSmall
      <4>2. (head + count - 1) % QUEUE_SIZE = head + count - 1
        BY <1>0, <2>2, <3>2, ModSmall
      <4> QED
        BY <1>0, <2>2, <3>1, <4>1, <4>2
    <3>3. CASE head + count = QUEUE_SIZE
      <4>1. (head + count) % QUEUE_SIZE = 0
        BY <1>0, <3>3, ModLarge
      <4>2. (head + count - 1) % QUEUE_SIZE = QUEUE_SIZE - 1
        BY <1>0, <3>3, ModSmall
      <4> QED
        BY <1>0, <2>2, <3>1, <4>1, <4>2
    <3>4. CASE head + count > QUEUE_SIZE
      <4>1. (head + count) % QUEUE_SIZE = head + count - QUEUE_SIZE
        BY <1>0, <3>4, ModLarge
      <4>2. (head + count - 1) % QUEUE_SIZE = head + count - 1 - QUEUE_SIZE
        <5>1. head + count - 1 \in QUEUE_SIZE .. 2 * QUEUE_SIZE - 1
          BY <1>0, <3>4
        <5> QED
          BY <1>0, <5>1, ModLarge
      <4> QED
        BY <1>0, <2>2, <3>1, <4>1, <4>2
    <3> QED
      BY <1>0, <3>2, <3>3, <3>4
  <2>4. count' \in 0 .. QUEUE_SIZE /\ head' + count' = head + count - 1
    BY <1>0, <2>1, <2>2
  <2> QED
    BY <1>0, <1>6, <1>9, <2>1, <2>3, <2>4
<1> QED
  BY <1>a, <1>b, <1>c, <1>d, <1>e, <1>f, <1>g, <1>h DEF QueueOp

\* A step that moves no task between statements that matter: pc, owner and
\* the queue as they were, the scheduler's types kept.
LEMMA QuietStep ==
  ASSUME IInv, TaskTypeOK', pool_index' = TASK_POOL_SIZE,
         UNCHANGED <<owner, queueVars, pc, msg, ret>>,
         sl' \in [Workers -> {"off", "call", "int"}], SleepOutside'
  PROVE  IInv'
<1>1. TypeOK'
  BY DEF IInv, TypeOK, queueVars
<1>2. MutualExclusion' /\ RoomInv'
  BY DEF IInv, MutualExclusion, RoomInv, queueVars
<1>3. QueueConsistent'
  BY CountersFrame DEF IInv, queueVars
<1> QED
  BY <1>1, <1>2, <1>3 DEF IInv

\* Every step of a task, and the timer anywhere, keeps the invariant.
LEMMA NextIInv == IInv /\ [Next]_vars => IInv'
<1> SUFFICES ASSUME IInv, [Next]_vars PROVE IInv'
  OBVIOUS
<1>0. /\ TaskTypeOK /\ pool_index = TASK_POOL_SIZE
      /\ pc \in [Workers -> PC] /\ sl \in [Workers -> {"off", "call", "int"}]
  BY DEF IInv, TypeOK, PC
<1>1. CASE TimerIrq
  BY <1>0, <1>1, InterruptType, QuietStep DEF TimerIrq, IInv, SleepOutside
<1>2. ASSUME NEW t \in Workers, TaskStep(t) PROVE IInv'
  <2>1. CASE Acquire(t, "queue", "lock", "check") \/ Acquire(t, "vga", "vlock", "draw")
    BY <2>1, AcquireStep DEF Mutexes
  <2>2. ASSUME NEW m \in Mutexes, NEW from \in {"lock", "vlock"}, Busy(t, m, from)
        PROVE  IInv'
    <3>1. /\ pc[t] = from /\ sl' = [sl EXCEPT ![t] = "call"]
          /\ UNCHANGED <<taskVars, owner, queueVars, pc, msg, ret>>
      BY <2>2 DEF Busy, At
    <3>2. SleepOutside'
      BY <1>0, <3>1 DEF IInv, SleepOutside
    <3> QED
      BY <1>0, <3>1, <3>2, TaskFrame, QuietStep
  <2>3. CASE QueueOp(t)
    BY <2>3, QueueOpStep
  <2>4. CASE Unlock(t)
    <3>1. PICK to \in {"vlock", "sleep"} : Goto(t, to)
      BY <2>4 DEF Unlock
    <3>2. msg' \in [Workers -> 0 .. VAL_MOD - 1]
      BY <2>4 DEF Unlock, IInv, TypeOK
    <3>3. /\ pc[t] = "unlock" /\ sl[t] = "off" /\ unlock(t, "queue")
          /\ UNCHANGED <<taskVars, queueVars, sl, ret>>
      BY <2>4 DEF Unlock, At
    <3>4. "queue" \in Mutexes /\ pc[t] \in Section["queue"]
      BY <3>3, Sets DEF Mutexes
    <3> QED
      BY <3>1, <3>2, <3>3, <3>4, ReleaseStep
  <2>5. CASE Draw(t)
    <3>1. /\ pc[t] = "draw" /\ sl[t] = "off" /\ Goto(t, "vunlock")
          /\ UNCHANGED <<taskVars, owner, queueVars, sl, msg, ret>>
      BY <2>5 DEF Draw, At
    <3>2. TypeOK' /\ pool_index' = TASK_POOL_SIZE
      BY <1>0, <3>1, TaskFrame, Sets DEF IInv, TypeOK, Goto, queueVars
    <3>3. MutualExclusion'
      BY <3>1, StayInside, Sets DEF IInv, Mutexes
    <3>4. SleepOutside'
      BY <1>0, <3>1 DEF IInv, SleepOutside, Goto
    <3>5. \A u \in Workers : pc'[u] = pc[u] \/ (pc[u] = "draw" /\ pc'[u] = "vunlock")
      BY <1>0, <3>1 DEF Goto
    <3>6. RoomInv'
      BY <3>1, <3>5, RoomFrame DEF IInv, queueVars
    <3>7. QueueConsistent'
      BY <3>1, <3>5, CountersFrame DEF IInv, queueVars
    <3> QED
      BY <3>2, <3>3, <3>4, <3>6, <3>7 DEF IInv
  <2>6. CASE VgaUnlock(t)
    <3>1. msg' \in [Workers -> 0 .. VAL_MOD - 1]
      <4>1. (msg[t] + 1) % VAL_MOD \in 0 .. VAL_MOD - 1
        BY KernelTasksAssumption DEF IInv, TypeOK
      <4> QED
        BY <2>6, <4>1 DEF VgaUnlock, IInv, TypeOK
    <3> QED
      BY <2>6, <3>1, ReleaseStep, Sets DEF VgaUnlock, At, Mutexes
  <2>7. CASE SleepMark(t)
    <3>1. TaskTypeOK' /\ pool_index' = TASK_POOL_SIZE
      <4>1. SleepArg(t) \in Nat
        BY KernelTasksAssumption DEF SleepArg
      <4> QED
        BY <1>0, <2>7, <4>1, Sets DEF SleepMark, task_sleep_mark, TaskTypeOK, TaskState, Live
    <3>2. /\ sl' = [sl EXCEPT ![t] = "int"] /\ UNCHANGED <<owner, queueVars, pc, msg, ret>>
          /\ sl[t] = "call" \/ pc[t] = "sleep"
      BY <2>7 DEF SleepMark, At
    <3>3. SleepOutside'
      BY <1>0, <3>2 DEF IInv, SleepOutside
    <3> QED
      BY <1>0, <3>1, <3>2, <3>3, QuietStep
  <2>8. CASE SleepInt(t)
    <3>1. /\ sl[t] = "int" /\ sl' = [sl EXCEPT ![t] = "off"]
          /\ pc' = [pc EXCEPT ![t] = IF @ = "sleep" THEN "lock" ELSE @]
          /\ UNCHANGED <<owner, queueVars, msg, ret>>
          /\ TaskTypeOK' /\ pool_index' = TASK_POOL_SIZE
      BY <1>0, <2>8, InterruptType DEF SleepInt
    <3>2. \A u \in Workers : pc'[u] = pc[u] \/ (pc[u] = "sleep" /\ pc'[u] = "lock")
      BY <1>0, <3>1
    <3>3. TypeOK'
      BY <1>0, <3>1, Sets DEF IInv, TypeOK, queueVars
    <3>4. MutualExclusion'
      BY <3>1, <3>2, Sets DEF IInv, MutualExclusion, Mutexes
    <3>5. SleepOutside'
      BY <1>0, <3>1, <3>2 DEF IInv, SleepOutside
    <3>6. RoomInv'
      BY <3>1, <3>2, RoomFrame DEF IInv, queueVars
    <3>7. QueueConsistent'
      BY <3>1, <3>2, CountersFrame DEF IInv, queueVars
    <3> QED
      BY <3>1, <3>3, <3>4, <3>5, <3>6, <3>7 DEF IInv
  <2> QED
    BY <1>2, <2>1, <2>2, <2>3, <2>4, <2>5, <2>6, <2>7, <2>8 DEF TaskStep, Mutexes
<1>3. CASE UNCHANGED vars
  BY <1>0, <1>3, TaskFrame, QuietStep DEF vars, IInv, SleepOutside
<1> QED
  BY <1>1, <1>2, <1>3 DEF Next

-----------------------------------------------------------------------------
\* The invariant holds in every state the kernel's tasks reach.
THEOREM Inductive == Spec => []IInv
  BY InitIInv, NextIInv, PTL DEF Spec

\* Every variable of the tasks, the mutexes and the queue keeps its type; in
\* particular count never passes QUEUE_SIZE and never goes below 0.
THEOREM TypeCorrect == Spec => []TypeOK
<1>1. IInv => TypeOK
  BY DEF IInv
<1> QED
  BY <1>1, Inductive, PTL

\* mutex.c: never two tasks inside the sections of one mutex, whoever is
\* preempted where and whatever the priorities.
THEOREM MutexExcludes == Spec => []MutualExclusion
<1>1. IInv => MutualExclusion
  BY DEF IInv
<1> QED
  BY <1>1, Inductive, PTL

\* queue.c: head, tail and count agree between any two statements.
THEOREM QueueCountersAgree == Spec => []QueueConsistent
<1>1. IInv => QueueConsistent
  BY DEF IInv
<1> QED
  BY <1>1, Inductive, PTL
-----------------------------------------------------------------------------
\* main is READY for ever, and a worker that is not is in task_sleep: at its
\* `int $32', or behind it, off the CPU, on its way to a lock.
SleepInv ==
  /\ priority[main] = 1 /\ state[main] = "READY"
  /\ \A t \in Workers : state[t] # "READY" =>
       \/ sl[t] = "int"
       \/ t # current_task /\ sl[t] = "off" /\ pc[t] \in {"lock", "vlock"}

\* No hold and wait: the owner of a mutex is READY, is not in task_sleep and
\* owns no other.  mutex.c cannot deadlock task_a and task_b; all that can keep
\* a mutex locked is that the scheduler prefers others to its owner.
HoldersAwake ==
  \A m \in Mutexes, t \in Workers : owner[m] = t =>
    /\ state[t] = "READY" /\ sl[t] = "off"
    /\ \A k \in Mutexes : owner[k] = t => k = m

\* schedule() wakes and never puts to sleep, and chooses a READY task.
LEMMA InterruptSleep ==
  ASSUME IInv, SleepInv, irq_handler32
  PROVE  /\ priority'[main] = 1 /\ state'[main] = "READY"
         /\ \A t \in Workers : state'[t] # "READY" => state[t] # "READY" /\ t # current_task'
<1>1. TaskTypeOK /\ Live = Tasks /\ Workers \subseteq Tasks /\ main \in Tasks
  BY Sets DEF IInv, TypeOK, Live, Tasks
<1>2. PICK b \in Best : /\ current_task' = b /\ priority' = priority
                        /\ state' = [u \in Tasks |-> Woken(u)]
  BY DEF irq_handler32, schedule
<1>3. \A u \in Tasks : state[u] = "READY" => Woken(u) = "READY"
  BY DEF Woken
<1>4. \A u \in Tasks : state'[u] = Woken(u)
  BY <1>2
<1>5. main \in Eligible
  BY <1>1, <1>3 DEF SleepInv, Eligible
<1>6. b \in Eligible
  BY <1>5 DEF Best, TopPriority
<1>7. Woken(b) = "READY" /\ b \in Tasks
  BY <1>1, <1>6 DEF Eligible
<1>8. priority'[main] = 1 /\ state'[main] = "READY"
  BY <1>1, <1>2, <1>3, <1>4 DEF SleepInv
<1>9. ASSUME NEW t \in Workers, state'[t] # "READY"
      PROVE  state[t] # "READY" /\ t # current_task'
  BY <1>1, <1>2, <1>3, <1>4, <1>7, <1>9
<1> QED
  BY <1>8, <1>9

\* Every step keeps it.
LEMMA SleepInvStep ==
  /\ Init => SleepInv
  /\ IInv /\ SleepInv /\ [Next]_vars => SleepInv'
<1>1. Init => SleepInv
  BY Sets DEF Init, SleepInv
<1> SUFFICES ASSUME IInv, SleepInv, [Next]_vars PROVE SleepInv'
  BY <1>1
<1>0. /\ pc \in [Workers -> PC] /\ sl \in [Workers -> {"off", "call", "int"}]
      /\ state \in [Tasks -> TaskState] /\ main \notin Workers /\ Workers \subseteq Tasks
  BY Sets DEF IInv, TypeOK, TaskTypeOK, PC, Workers
<1>2. CASE TimerIrq
  <2>1. irq_handler32 /\ pc' = pc /\ sl' = sl
    BY <1>2 DEF TimerIrq
  <2> QED
    BY <2>1, InterruptSleep DEF SleepInv
<1>3. ASSUME NEW t \in Workers, current_task = t, sl[t] = "off", UNCHANGED taskVars,
             \A u \in Workers : u # t => pc'[u] = pc[u] /\ sl'[u] = sl[u]
      PROVE  SleepInv'
  <2>1. state[t] = "READY"
    BY <1>3 DEF SleepInv
  <2> QED
    BY <1>3, <2>1 DEF SleepInv, taskVars
<1>4. ASSUME NEW t \in Workers, TaskStep(t) PROVE SleepInv'
  <2>1. CASE SleepMark(t)
    <3>1. /\ state' = [state EXCEPT ![t] = "SLEEPING"] /\ sl' = [sl EXCEPT ![t] = "int"]
          /\ pc' = pc /\ priority' = priority /\ current_task' = current_task
      BY <2>1 DEF SleepMark, task_sleep_mark
    <3>2. state'[main] = state[main] /\ sl'[t] = "int"
      BY <1>0, <3>1
    <3>3. \A u \in Workers : u # t => state'[u] = state[u] /\ sl'[u] = sl[u]
      BY <1>0, <3>1
    <3> QED
      BY <3>1, <3>2, <3>3 DEF SleepInv
  <2>2. CASE SleepInt(t)
    <3>1. /\ irq_handler32 /\ sl[t] = "int" /\ sl' = [sl EXCEPT ![t] = "off"]
          /\ pc' = [pc EXCEPT ![t] = IF @ = "sleep" THEN "lock" ELSE @]
      BY <2>2 DEF SleepInt
    <3>2. sl'[t] = "off" /\ pc'[t] \in {"lock", "vlock"}
      BY <1>0, <3>1 DEF IInv, SleepOutside
    <3>3. \A u \in Workers : u # t => pc'[u] = pc[u] /\ sl'[u] = sl[u]
      BY <1>0, <3>1
    <3> QED
      BY <3>1, <3>2, <3>3, InterruptSleep DEF SleepInv
  <2>3. ASSUME NEW m, NEW from, NEW to,
               Acquire(t, m, from, to) \/ Busy(t, m, from)
        PROVE  SleepInv'
    <3>1. /\ current_task = t /\ sl[t] = "off" /\ UNCHANGED taskVars
          /\ \A u \in Workers : u # t => pc'[u] = pc[u] /\ sl'[u] = sl[u]
      BY <1>0, <2>3 DEF Acquire, Busy, At, Goto
    <3> QED
      BY <1>3, <3>1
  <2>4. CASE QueueOp(t)
    <3>1. current_task = t /\ sl[t] = "off" /\ UNCHANGED <<taskVars, sl>>
      BY <2>4 DEF QueueOp, Refuse, Accept, PushData, PushTail, PushCount, PopData, PopHead, PopCount, At
    <3>2. \E l : pc' = [pc EXCEPT ![t] = l]
      BY <2>4 DEF QueueOp, Refuse, Accept, PushData, PushTail, PushCount, PopData, PopHead, PopCount, Goto
    <3>3. \A u \in Workers : u # t => pc'[u] = pc[u] /\ sl'[u] = sl[u]
      BY <1>0, <3>1, <3>2
    <3> QED
      BY <1>3, <3>1, <3>3
  <2>5. CASE Unlock(t) \/ Draw(t) \/ VgaUnlock(t)
    <3>1. current_task = t /\ sl[t] = "off" /\ UNCHANGED <<taskVars, sl>>
      BY <2>5 DEF Unlock, Draw, VgaUnlock, At
    <3>2. \E l : pc' = [pc EXCEPT ![t] = l]
      BY <2>5 DEF Unlock, Draw, VgaUnlock, Goto
    <3>3. \A u \in Workers : u # t => pc'[u] = pc[u] /\ sl'[u] = sl[u]
      BY <1>0, <3>1, <3>2
    <3> QED
      BY <1>3, <3>1, <3>3
  <2> QED
    BY <1>4, <2>1, <2>2, <2>3, <2>4, <2>5 DEF TaskStep
<1>5. CASE UNCHANGED vars
  BY <1>5 DEF vars, taskVars, SleepInv
<1> QED
  BY <1>2, <1>4, <1>5 DEF Next

\* The safety half of HolderReleases: whatever the priorities, a task never
\* sleeps or waits for a second mutex while it owns one.
THEOREM NoHoldAndWait == Spec => []HoldersAwake
<1>1. IInv /\ SleepInv => HoldersAwake
  <2> SUFFICES ASSUME IInv, SleepInv, NEW m \in Mutexes, NEW t \in Workers, owner[m] = t
               PROVE  /\ state[t] = "READY" /\ sl[t] = "off"
                      /\ \A k \in Mutexes : owner[k] = t => k = m
    BY DEF HoldersAwake
  <2>1. \A k \in Mutexes : owner[k] = t => pc[t] \in Section[k]
    BY DEF IInv, MutualExclusion
  <2>2. pc[t] \notin {"lock", "vlock", "sleep"}
    BY <2>1, Sets DEF Mutexes
  <2>3. sl[t] = "off"
    BY <2>2 DEF IInv, SleepOutside
  <2>4. state[t] = "READY"
    BY <2>2, <2>3 DEF SleepInv
  <2>5. \A k \in Mutexes : owner[k] = t => k = m
    BY <2>1, Sets DEF Mutexes
  <2> QED
    BY <2>3, <2>4, <2>5
<1> QED
  BY <1>1, SleepInvStep, Inductive, PTL DEF Spec

-----------------------------------------------------------------------------
(* queue.c implements Channel.  Beside IInv the refinement needs to know   *)
(* what the slot being pushed holds before count says that it is there.    *)

\* A message is in its slot from queue_push's first assignment to its last.
Written ==
  \A t \in Producers : pc[t] \in {"ptr", "count"} =>
     data[(head + count) % QUEUE_SIZE] = msg[t]

\* msg_queue as a ring buffer of messages.
W == INSTANCE RingWindow WITH N <- QUEUE_SIZE, V <- 0 .. VAL_MOD - 1

\* Messages, when t is the task inside queue.c.
LEMMA MessagesInside ==
  ASSUME MutualExclusion, NEW t \in Workers, pc[t] \in Section["queue"]
  PROVE  /\ t \in Producers \/ pc[t] \notin {"ptr", "count"} =>
              Messages = W!Window(data, head, count)
         /\ t \notin Producers /\ pc[t] = "ptr" =>
              Messages = W!Window(data, head + 1, count - 1)
         /\ t \notin Producers /\ pc[t] = "count" =>
              Messages = W!Window(data, head, count - 1)
<1>1. \A u \in Workers : u # t => pc[u] # "ptr" /\ pc[u] # "count"
  BY OnlyOne, Sets DEF Mutexes
<1>2. /\ Inside(Consumers, "ptr") <=> t \notin Producers /\ pc[t] = "ptr"
      /\ Inside(Consumers, "count") <=> t \notin Producers /\ pc[t] = "count"
  BY <1>1 DEF Inside, Consumers
<1> QED
  BY <1>2 DEF Messages, W!Window

\* The same after a step of t that ends inside queue.c.
LEMMA MessagesAfter ==
  ASSUME MutualExclusion', NEW t \in Workers, pc'[t] \in Section["queue"]
  PROVE  /\ t \in Producers \/ pc'[t] \notin {"ptr", "count"} =>
              Messages' = W!Window(data', head', count')
         /\ t \notin Producers /\ pc'[t] = "ptr" =>
              Messages' = W!Window(data', head' + 1, count' - 1)
         /\ t \notin Producers /\ pc'[t] = "count" =>
              Messages' = W!Window(data', head', count' - 1)
<1>1. \A u \in Workers : u # t => pc'[u] # "ptr" /\ pc'[u] # "count"
  <2>1. "queue" \in Mutexes /\ {"ptr", "count"} \subseteq Section["queue"]
    BY Sets DEF Mutexes
  <2> QED
    BY <2>1 DEF MutualExclusion
<1>2. /\ Inside(Consumers, "ptr")' <=> t \notin Producers /\ pc'[t] = "ptr"
      /\ Inside(Consumers, "count")' <=> t \notin Producers /\ pc'[t] = "count"
  BY <1>1 DEF Inside, Consumers
<1> QED
  BY <1>2 DEF Messages, W!Window

\* A step that touches neither the queue nor a task between its statements.
LEMMA MessagesFrame ==
  ASSUME UNCHANGED <<data, head, count>>,
         \A u \in Workers : /\ pc'[u] = "ptr" <=> pc[u] = "ptr"
                            /\ pc'[u] = "count" <=> pc[u] = "count"
  PROVE  Messages' = Messages
<1>1. /\ Inside(Consumers, "ptr")' <=> Inside(Consumers, "ptr")
      /\ Inside(Consumers, "count")' <=> Inside(Consumers, "count")
  BY DEF Inside, Consumers
<1> QED
  BY <1>1 DEF Messages

\* Each statement of queue.c is a step of the channel or none, and keeps
\* Written: Refuse is PushFull or PopEmpty, PushCount is Push, PopData is Pop.
LEMMA QueueOpMaps ==
  ASSUME IInv, IInv', Written, NEW t \in Workers, QueueOp(t)
  PROVE  [Abstract!Next]_(Abstract!vars) /\ Written'
<1>0. /\ t \in Consumers <=> t \notin Producers
      /\ QUEUE_SIZE \in Nat \ {0}
      /\ head \in Slots /\ head \in 0 .. QUEUE_SIZE - 1 /\ count \in 0 .. QUEUE_SIZE
      /\ count \in Nat /\ head \in Nat
      /\ data \in [Slots -> 0 .. VAL_MOD - 1]
      /\ pc \in [Workers -> PC] /\ Producers \subseteq Workers
      /\ msg \in [Workers -> 0 .. VAL_MOD - 1]
  <2>1. t \in Consumers <=> t \notin Producers
    BY DEF Consumers
  <2>2. QUEUE_SIZE \in Nat \ {0} /\ Producers \subseteq Workers
    BY KernelTasksAssumption
  <2>3. /\ head \in Slots /\ count \in 0 .. QUEUE_SIZE /\ data \in [Slots -> 0 .. VAL_MOD - 1]
        /\ pc \in [Workers -> PC] /\ msg \in [Workers -> 0 .. VAL_MOD - 1]
    BY DEF IInv, TypeOK, PC
  <2>4. head \in 0 .. QUEUE_SIZE - 1 /\ head \in Nat /\ count \in Nat
    BY <2>2, <2>3 DEF Slots
  <2> QED
    BY <2>1, <2>2, <2>3, <2>4
<1>r. data \in [W!Ring -> 0 .. VAL_MOD - 1] /\ head \in W!Ring
  BY <1>0 DEF W!Ring, Slots
<1>1. /\ pc[t] \in Section["queue"] /\ pc'[t] \in Section["queue"]
      /\ \A u \in Workers : u # t => pc'[u] \notin Section["queue"]
  <2>1. pc[t] \in Section["queue"] /\ pc'[t] \in Section["queue"]
    BY <1>0, Sets DEF QueueOp, Refuse, Accept, PushData, PushTail, PushCount, PopData, PopHead,
       PopCount, At, Goto
  <2>2. \A u \in Workers : pc'[u] \in Section["queue"] <=> owner'["queue"] = u
    BY DEF IInv, MutualExclusion, Mutexes
  <2> QED
    BY <2>1, <2>2
<1>2. \A u \in Producers : u # t => pc'[u] \notin {"ptr", "count"}
  BY <1>0, <1>1, Sets
<1>3. /\ t \in Producers \/ pc[t] \notin {"ptr", "count"} =>
           Messages = W!Window(data, head, count)
      /\ t \notin Producers /\ pc[t] = "ptr" =>
           Messages = W!Window(data, head + 1, count - 1)
      /\ t \notin Producers /\ pc[t] = "count" =>
           Messages = W!Window(data, head, count - 1)
  BY <1>1, MessagesInside DEF IInv
<1>4. /\ t \in Producers \/ pc'[t] \notin {"ptr", "count"} =>
           Messages' = W!Window(data', head', count')
      /\ t \notin Producers /\ pc'[t] = "ptr" =>
           Messages' = W!Window(data', head' + 1, count' - 1)
      /\ t \notin Producers /\ pc'[t] = "count" =>
           Messages' = W!Window(data', head', count' - 1)
  BY <1>1, MessagesAfter DEF IInv
<1>5. pc[t] \in {"data", "ptr", "count"} =>
        IF t \in Producers THEN count < QUEUE_SIZE ELSE count > 0
  BY DEF IInv, RoomInv
<1>6. ASSUME UNCHANGED <<Messages, msg, ret>> PROVE [Abstract!Next]_(Abstract!vars)
  BY <1>6 DEF Abstract!vars
<1>7. ASSUME t \notin Producers \/ pc'[t] \notin {"ptr", "count"} PROVE Written'
  BY <1>2, <1>7 DEF Written
<1> USE DEF At, Goto
<1>a. CASE Refuse(t)
  <2>1. /\ pc[t] = "check" /\ pc'[t] = "unlock" /\ UNCHANGED <<data, head, count, msg>>
        /\ IF t \in Producers THEN Full ELSE Empty
        /\ ret' = [ret EXCEPT ![t] = FALSE]
    BY <1>a, <1>0 DEF Refuse, queueVars
  <2>2. Messages = W!Window(data, head, count) /\ Messages' = Messages
    BY <1>3, <1>4, <2>1
  <2>3. CASE t \in Producers
    <3>1. count = QUEUE_SIZE
      BY <1>0, <2>1, <2>3 DEF Full
    <3>2. Len(Messages) = QUEUE_SIZE
      BY <1>0, <1>r, <2>2, <3>1, W!WindowSeq
    <3>3. Abstract!PushFull(t)
      BY <2>1, <2>2, <3>2 DEF Abstract!PushFull
    <3> QED
      BY <1>7, <2>1, <2>3, <3>3 DEF Abstract!Next
  <2>4. CASE t \notin Producers
    <3>1. count = 0
      BY <2>1, <2>4 DEF Empty
    <3>2. Messages = <<>>
      BY <1>0, <1>r, <2>2, <3>1, W!WindowSeq
    <3>3. Abstract!PopEmpty(t)
      BY <2>1, <2>2, <3>2 DEF Abstract!PopEmpty
    <3> QED
      BY <1>0, <1>7, <2>4, <3>3 DEF Abstract!Next
  <2> QED
    BY <2>3, <2>4
<1>b. CASE Accept(t)
  <2>1. /\ pc[t] = "check" /\ pc'[t] = "data" /\ UNCHANGED <<data, head, count, msg, ret>>
    BY <1>b, <1>0 DEF Accept, queueVars
  <2>2. Messages' = Messages
    BY <1>3, <1>4, <2>1
  <2> QED
    BY <1>6, <1>7, <2>1, <2>2
<1>c. CASE PushData(t)
  <2>1. /\ t \in Producers /\ pc[t] = "data" /\ pc'[t] = "ptr"
        /\ UNCHANGED <<head, count, msg, ret>> /\ data' = [data EXCEPT ![tail] = msg[t]]
    BY <1>c, <1>0 DEF PushData
  <2>2. count < QUEUE_SIZE /\ (head + count) % QUEUE_SIZE = tail /\ tail \in Slots
    BY <1>1, <1>5, <2>1, CountersInside DEF IInv, TypeOK
  <2>3. Messages' = Messages
    <3>1. W!Window([data EXCEPT ![(head + count) % QUEUE_SIZE] = msg[t]], head, count)
            = W!Window(data, head, count)
      BY <1>0, <1>r, <2>2, W!WindowStore
    <3> QED
      BY <1>3, <1>4, <2>1, <2>2, <3>1
  <2>4. data'[(head' + count') % QUEUE_SIZE] = msg'[t]
    BY <1>0, <2>1, <2>2
  <2> QED
    BY <1>2, <1>6, <2>1, <2>3, <2>4 DEF Written
<1>d. CASE PushTail(t)
  <2>1. /\ t \in Producers /\ pc[t] = "ptr" /\ pc'[t] = "count"
        /\ UNCHANGED <<data, head, count, msg, ret>>
    BY <1>d, <1>0 DEF PushTail
  <2>2. Messages' = Messages
    BY <1>3, <1>4, <2>1
  <2>3. data'[(head' + count') % QUEUE_SIZE] = msg'[t]
    BY <2>1 DEF Written
  <2> QED
    BY <1>2, <1>6, <2>1, <2>2, <2>3 DEF Written
<1>e. CASE PushCount(t)
  <2>1. /\ t \in Producers /\ pc[t] = "count" /\ pc'[t] = "unlock"
        /\ UNCHANGED <<data, head, msg>> /\ count' = count + 1
        /\ ret' = [ret EXCEPT ![t] = TRUE]
    BY <1>e, <1>0 DEF PushCount
  <2>2. Messages = W!Window(data, head, count) /\ Messages' = W!Window(data, head, count + 1)
    BY <1>3, <1>4, <2>1
  <2>3. Len(Messages) < QUEUE_SIZE
    BY <1>0, <1>r, <1>5, <2>1, <2>2, W!WindowSeq
  <2>4. data[(head + count) % QUEUE_SIZE] = msg[t]
    BY <2>1 DEF Written
  <2>5. Messages' = Append(Messages, msg[t])
    <3>1. W!Window(data, head, count + 1)
            = Append(W!Window(data, head, count), data[(head + count) % QUEUE_SIZE])
      BY <1>0, <1>r, W!WindowAppend
    <3> QED
      BY <2>2, <2>4, <3>1
  <2>6. Abstract!Push(t)
    BY <2>1, <2>3, <2>5 DEF Abstract!Push
  <2> QED
    BY <1>7, <2>1, <2>6 DEF Abstract!Next
<1>f. CASE PopData(t)
  <2>1. /\ t \in Consumers /\ t \notin Producers /\ pc[t] = "data" /\ pc'[t] = "ptr"
        /\ UNCHANGED <<data, head, count>> /\ ret' = [ret EXCEPT ![t] = TRUE]
        /\ msg' = [msg EXCEPT ![t] = data[head]]
    BY <1>f, <1>0 DEF PopData, queueVars
  <2>2. Messages = W!Window(data, head, count) /\ Messages' = W!Window(data, head + 1, count - 1)
    BY <1>3, <1>4, <2>1
  <2>3. Messages # <<>> /\ Head(Messages) = data[head] /\ Messages' = Tail(Messages)
    <3>1. count \in Nat \ {0}
      BY <1>0, <1>5, <2>1
    <3> QED
      BY <1>0, <1>r, <2>2, <3>1, W!WindowTail
  <2>4. Abstract!Pop(t)
    BY <2>1, <2>3 DEF Abstract!Pop
  <2> QED
    BY <1>7, <2>1, <2>4 DEF Abstract!Next
<1>g. CASE PopHead(t)
  <2>1. /\ t \notin Producers /\ pc[t] = "ptr" /\ pc'[t] = "count"
        /\ UNCHANGED <<data, count, msg, ret>> /\ head' = (head + 1) % QUEUE_SIZE
    BY <1>g, <1>0 DEF PopHead
  <2>2. /\ Messages = W!Window(data, head + 1, count - 1)
        /\ Messages' = W!Window(data, (head + 1) % QUEUE_SIZE, count - 1)
    BY <1>3, <1>4, <2>1
  <2>3. ASSUME NEW i \in 1 .. count - 1
        PROVE  (((head + 1) % QUEUE_SIZE) + i - 1) % QUEUE_SIZE = (head + 1 + i - 1) % QUEUE_SIZE
    <3>1. /\ i - 1 \in 0 .. QUEUE_SIZE - 1 /\ head + 1 + (i - 1) = head + 1 + i - 1
          /\ ((head + 1) % QUEUE_SIZE) + (i - 1) = ((head + 1) % QUEUE_SIZE) + i - 1
      BY <1>0
    <3>2. (((head + 1) % QUEUE_SIZE) + (i - 1)) % QUEUE_SIZE = (head + 1 + (i - 1)) % QUEUE_SIZE
      BY <1>0, <3>1, ModShift
    <3> QED
      BY <3>1, <3>2
  <2>4. Messages' = Messages
    BY <2>2, <2>3 DEF W!Window
  <2> QED
    BY <1>6, <1>7, <2>1, <2>4
<1>h. CASE PopCount(t)
  <2>1. /\ t \notin Producers /\ pc[t] = "count" /\ pc'[t] = "unlock"
        /\ UNCHANGED <<data, head, msg, ret>> /\ count' = count - 1
    BY <1>h, <1>0 DEF PopCount
  <2>2. Messages' = Messages
    BY <1>3, <1>4, <2>1
  <2> QED
    BY <1>6, <1>7, <2>1, <2>2
<1> QED
  BY <1>a, <1>b, <1>c, <1>d, <1>e, <1>f, <1>g, <1>h DEF QueueOp

\* Outside queue.c a step is none of the channel's, but for task_a's count++,
\* which chooses the next message.
LEMMA NextMaps ==
  IInv /\ IInv' /\ Written /\ [Next]_vars => [Abstract!Next]_(Abstract!vars) /\ Written'
<1> SUFFICES ASSUME IInv, IInv', Written, [Next]_vars
             PROVE  [Abstract!Next]_(Abstract!vars) /\ Written'
  OBVIOUS
<1>0. /\ pc \in [Workers -> PC] /\ Producers \subseteq Workers
      /\ msg \in [Workers -> 0 .. VAL_MOD - 1]
  BY KernelTasksAssumption DEF IInv, TypeOK, PC
<1>1. ASSUME UNCHANGED <<data, head, count>>,
             \A u \in Workers : /\ pc'[u] = "ptr" <=> pc[u] = "ptr"
                                /\ pc'[u] = "count" <=> pc[u] = "count",
             \A u \in Producers : pc[u] \in {"ptr", "count"} => msg'[u] = msg[u]
      PROVE  Messages' = Messages /\ Written'
  BY <1>0, <1>1, MessagesFrame DEF Written
<1>2. ASSUME NEW t \in Workers, NEW l, NEW k, pc[t] = l, pc' = [pc EXCEPT ![t] = k],
             {l, k} \cap {"ptr", "count"} = {}, UNCHANGED <<data, head, count, msg, ret>>
      PROVE  [Abstract!Next]_(Abstract!vars) /\ Written'
  <2>1. Messages' = Messages /\ Written'
    BY <1>0, <1>1, <1>2
  <2> QED
    BY <1>2, <2>1 DEF Abstract!vars
<1>3. ASSUME UNCHANGED <<queueVars, pc, msg, ret>>
      PROVE  [Abstract!Next]_(Abstract!vars) /\ Written'
  <2>1. Messages' = Messages /\ Written'
    BY <1>1, <1>3 DEF queueVars
  <2> QED
    BY <1>3, <2>1 DEF Abstract!vars
<1>4. CASE TimerIrq \/ UNCHANGED vars
  BY <1>3, <1>4 DEF TimerIrq, vars
<1>5. ASSUME NEW t \in Workers, TaskStep(t)
      PROVE  [Abstract!Next]_(Abstract!vars) /\ Written'
  <2>1. CASE QueueOp(t)
    BY <2>1, QueueOpMaps
  <2>2. CASE VgaUnlock(t)
    <3>1. /\ pc[t] = "vunlock" /\ pc' = [pc EXCEPT ![t] = "sleep"]
          /\ UNCHANGED <<data, head, count, ret>>
          /\ msg' = IF t \in Producers THEN [msg EXCEPT ![t] = (@ + 1) % VAL_MOD] ELSE msg
      BY <2>2 DEF VgaUnlock, At, Goto, queueVars
    <3>2. Messages' = Messages /\ Written'
      BY <1>0, <1>1, <3>1
    <3>3. CASE t \in Producers
      <4>1. (msg[t] + 1) % VAL_MOD \in 0 .. VAL_MOD - 1
        BY <1>0, KernelTasksAssumption
      <4>2. Abstract!Prepare(t)
        BY <3>1, <3>2, <3>3, <4>1 DEF Abstract!Prepare
      <4> QED
        BY <3>2, <3>3, <4>2 DEF Abstract!Next
    <3>4. CASE t \notin Producers
      BY <3>1, <3>2, <3>4 DEF Abstract!vars
    <3> QED
      BY <3>3, <3>4
  <2>3. CASE SleepInt(t)
    <3>1. PICK k : pc' = [pc EXCEPT ![t] = k] /\ k = IF pc[t] = "sleep" THEN "lock" ELSE pc[t]
      BY <2>3 DEF SleepInt
    <3>2. pc[t] \in {"lock", "vlock", "sleep"} /\ UNCHANGED <<data, head, count, msg, ret>>
      BY <2>3 DEF SleepInt, IInv, SleepOutside, queueVars
    <3>3. {pc[t], k} \cap {"ptr", "count"} = {}
      BY <3>1, <3>2
    <3> QED
      BY <1>2, <3>1, <3>2, <3>3
  <2>4. CASE \/ Busy(t, "queue", "lock") \/ Busy(t, "vga", "vlock") \/ SleepMark(t)
    BY <1>3, <2>4 DEF Busy, SleepMark
  <2>5. CASE \/ Acquire(t, "queue", "lock", "check") \/ Acquire(t, "vga", "vlock", "draw")
             \/ Draw(t)
    BY <1>2, <2>5 DEF Acquire, Draw, At, Goto, queueVars
  <2>6. CASE Unlock(t)
    <3>1. /\ pc[t] = "unlock" /\ UNCHANGED <<data, head, count, msg, ret>>
          /\ pc' = [pc EXCEPT ![t] = "vlock"] \/ pc' = [pc EXCEPT ![t] = "sleep"]
      BY <2>6 DEF Unlock, At, Goto, queueVars
    <3> QED
      BY <1>2, <3>1
  <2> QED
    BY <1>5, <2>1, <2>2, <2>3, <2>4, <2>5, <2>6 DEF TaskStep
<1> QED
  BY <1>4, <1>5 DEF Next

\* Before the first push the channel is empty.
LEMMA InitMaps == Init => Abstract!Init /\ Written
<1> SUFFICES ASSUME Init PROVE Abstract!Init /\ Written
  OBVIOUS
<1>1. Producers \cup Consumers = Workers /\ Producers \subseteq Workers
  BY KernelTasksAssumption DEF Consumers
<1>2. Written
  BY <1>1 DEF Init, Written
<1>3. Messages = <<>>
  <2>1. ~ Inside(Consumers, "ptr") /\ ~ Inside(Consumers, "count") /\ count = 0
    BY <1>1 DEF Init, Inside
  <2>2. Messages = W!Window(data, head, count)
    BY <2>1 DEF Messages, W!Window
  <2>3. /\ data \in [W!Ring -> 0 .. VAL_MOD - 1]
        /\ head \in Nat /\ count \in Nat /\ QUEUE_SIZE \in Nat \ {0}
    BY KernelTasksAssumption DEF Init, Slots, W!Ring
  <2> QED
    BY <2>1, <2>2, <2>3, W!WindowSeq
<1> QED
  BY <1>1, <1>2, <1>3 DEF Init, Abstract!Init

\* queue.c, preempted at any statement by any number of producers and
\* consumers, is a bounded first-in-first-out channel of QUEUE_SIZE messages:
\* none is lost, repeated, reordered or made up.
THEOREM QueueIsChannel == Spec => ImplementsChannel
<1>1. Spec => []Written
  <2>1. IInv /\ IInv' /\ Written /\ [Next]_vars => Written'
    BY NextMaps
  <2> QED
    BY <2>1, InitMaps, Inductive, PTL DEF Spec
<1>2. IInv /\ IInv' /\ Written /\ [Next]_vars => [Abstract!Next]_(Abstract!vars)
  BY NextMaps
<1> QED
  BY <1>1, <1>2, InitMaps, Inductive, PTL DEF Spec, ImplementsChannel, Abstract!Spec
=============================================================================
