----------------------------- MODULE PipeProofs ------------------------------
(***************************************************************************)
(* Proofs about Pipe, for any number of tasks in any roles and any buffer  *)
(* size.                                                                   *)
(***************************************************************************)
EXTENDS Pipe, ProofBasics

PC == {"idle", "test", "wait", "enter", "lock", "post"}
Errors == {"none", "E_OK", "E_BUSY", "E_BADF", "E_INVAL"}
Sems == {"not_empty", "not_full"}

\* The types of pipe.c's state; a task outside "idle" is in one of the four
\* transfer functions, one that its role allows.
TypeOK ==
  /\ sem \in [Sems -> [count : 0 .. 1, max : {1}]]
  /\ buffer \in [0 .. PIPE_BUFFER_SIZE - 1 -> Values]
  /\ read_idx \in 0 .. PIPE_BUFFER_SIZE - 1
  /\ write_idx \in 0 .. PIPE_BUFFER_SIZE - 1
  /\ count \in 0 .. PIPE_BUFFER_SIZE
  /\ active \in BOOLEAN
  /\ role \in Roles
  /\ pc \in [PipeTasks -> PC]
  /\ op \in [PipeTasks -> Writes \cup Reads \cup {"none"}]
  /\ \A t \in PipeTasks : pc[t] # "idle" => op[t] \in role[t].calls /\ op[t] # "none"
  /\ msg \in [PipeTasks -> Values]
  /\ ret \in [PipeTasks -> Errors]

\* The three indices describe the same buffer.
RingInv == (read_idx + count) % PIPE_BUFFER_SIZE = write_idx

\* A task that has taken a unit of its guard and not yet posted the other.
Holds(t) == pc[t] \in {"enter", "lock", "post"}

\* With blocking calls only: the unit is in one semaphore or with one task,
\* or was dropped by a call that found the pipe closed, and where it is says
\* how many values there are.
TokenInv ==
  /\ \A t \in PipeTasks : Holds(t) =>
       /\ sem["not_empty"].count = 0 /\ sem["not_full"].count = 0
       /\ \A u \in PipeTasks : Holds(u) => u = t
       /\ count = IF op[t] \in Writes <=> pc[t] = "post" THEN 1 ELSE 0
  /\ sem["not_empty"].count = 1 => sem["not_full"].count = 0 /\ count = 1
  /\ sem["not_full"].count = 1 => count = 0
  /\ count <= 1

\* The inductive invariant.
IInv ==
  /\ TypeOK
  /\ RingInv
  /\ BlockingOnly => TokenInv

-----------------------------------------------------------------------------
\* What a role allows.
LEMMA RoleTypes ==
  ASSUME TypeOK, NEW t \in PipeTasks
  PROVE  /\ role[t].calls \subseteq Functions /\ role[t].values \subseteq Values
         /\ BlockingOnly /\ pc[t] # "idle" => op[t] \in Blocking
<1>1. role \in [PipeTasks -> [calls : SUBSET Functions, values : SUBSET Values]]
  BY PipeAssumption DEF TypeOK
<1>2. BlockingOnly /\ pc[t] # "idle" => op[t] \in Blocking \cup {"close"}
  BY DEF TypeOK, BlockingOnly
<1>3. op[t] # "close"
  BY DEF TypeOK, Writes, Reads
<1> QED
  BY <1>1, <1>2, <1>3

\* A step that leaves the ring as it is, and moves one task on or nobody.
LEMMA MoveType ==
  ASSUME IInv, NEW t \in PipeTasks, NEW l \in PC, NEW f \in Writes \cup Reads \cup {"none"},
         pc' = [pc EXCEPT ![t] = l], op' = [op EXCEPT ![t] = f],
         l # "idle" => f \in role[t].calls /\ f # "none",
         sem' \in [Sems -> [count : 0 .. 1, max : {1}]],
         active' \in BOOLEAN, role' = role,
         msg' \in [PipeTasks -> Values], ret' \in [PipeTasks -> Errors],
         UNCHANGED ring
  PROVE  TypeOK' /\ RingInv'
  BY DEF IInv, TypeOK, RingInv, ring

\* pipe_create leaves the invariant true: the unit is in not_full.
LEMMA InitIInv == Init => IInv
<1> SUFFICES ASSUME Init PROVE IInv
  OBVIOUS
<1> USE DEF Init, pipe_create
<1>1. TypeOK
  <2>1. 0 \in 0 .. PIPE_BUFFER_SIZE - 1 /\ 0 \in 0 .. PIPE_BUFFER_SIZE /\ 0 \in Values
    BY PipeAssumption
  <2>2. sem \in [Sems -> [count : 0 .. 1, max : {1}]]
    BY DEF Sems, sem_init
  <2> QED
    BY <2>1, <2>2 DEF TypeOK, PC, Errors
<1>2. RingInv
  BY PipeAssumption, ModSmall DEF RingInv
<1>3. TokenInv
  BY DEF TokenInv, Holds, sem_init
<1> QED
  BY <1>1, <1>2, <1>3 DEF IInv

\* The effect of sem_wait and sem_post on the two counts.
LEMMA SemTypes ==
  ASSUME TypeOK, NEW s \in Sems
  PROVE  /\ sem_wait(s) =>
              /\ sem[s].count = 1 /\ sem'[s].count = 0
              /\ \A r \in Sems \ {s} : sem'[r] = sem[r]
              /\ sem' \in [Sems -> [count : 0 .. 1, max : {1}]]
         /\ sem_post(s) =>
              /\ sem'[s].count = 1
              /\ \A r \in Sems \ {s} : sem'[r] = sem[r]
              /\ sem' \in [Sems -> [count : 0 .. 1, max : {1}]]
<1>1. sem[s] \in [count : 0 .. 1, max : {1}] /\ sem \in [Sems -> [count : 0 .. 1, max : {1}]]
  BY DEF TypeOK
<1>2. sem[s].count \in {0, 1} /\ sem[s].max = 1
  BY <1>1
<1>3. ASSUME sem_wait(s)
      PROVE  /\ sem[s].count = 1 /\ sem'[s].count = 0
             /\ \A r \in Sems \ {s} : sem'[r] = sem[r]
             /\ sem' \in [Sems -> [count : 0 .. 1, max : {1}]]
  BY <1>1, <1>2, <1>3 DEF sem_wait
<1>4. ASSUME sem_post(s)
      PROVE  /\ sem'[s].count = 1
             /\ \A r \in Sems \ {s} : sem'[r] = sem[r]
             /\ sem' \in [Sems -> [count : 0 .. 1, max : {1}]]
  BY <1>1, <1>2, <1>4 DEF sem_post
<1> QED
  BY <1>3, <1>4

\* The locked section of pipe_write and pipe_read keeps the ring.
LEMMA TransferType ==
  ASSUME IInv, NEW t \in PipeTasks, Write(t) \/ Read(t)
  PROVE  TypeOK' /\ RingInv'
<1> DEFINE N == PIPE_BUFFER_SIZE
<1>1. /\ N \in Nat \ {0} /\ read_idx \in 0 .. N - 1 /\ write_idx \in 0 .. N - 1
      /\ count \in 0 .. N /\ (read_idx + count) % N = write_idx
  BY PipeAssumption DEF IInv, TypeOK, RingInv
<1>2. CASE Write(t)
  <2>1. /\ count < N /\ count' = count + 1 /\ read_idx' = read_idx
        /\ write_idx' = (write_idx + 1) % N
        /\ buffer' = [buffer EXCEPT ![write_idx] = msg[t]]
        /\ pc' = [pc EXCEPT ![t] = "post"] /\ ret' = [ret EXCEPT ![t] = "E_OK"]
        /\ UNCHANGED <<sem, active, role, op, msg>> /\ pc[t] = "lock"
    BY <1>2 DEF Write
  <2>2. count' \in 0 .. N /\ write_idx' \in 0 .. N - 1
    BY <1>1, <2>1, ModSucc
  <2>3. RingInv'
    <3>1. (read_idx + count + 1) % N = (write_idx + 1) % N
      <4>1. read_idx + count \in 0 .. 2 * N - 2
        BY <1>1, <2>1
      <4> QED
        BY <1>1, <4>1, ModCongruent
    <3>2. read_idx' + count' = read_idx + count + 1
      BY <1>1, <2>1
    <3> QED
      BY <2>1, <3>1, <3>2 DEF RingInv
  <2>4. TypeOK'
    BY <2>1, <2>2 DEF IInv, TypeOK, PC, Errors
  <2> QED
    BY <2>3, <2>4
<1>3. CASE Read(t)
  <2>1. /\ count # 0 /\ count' = count - 1 /\ write_idx' = write_idx
        /\ read_idx' = (read_idx + 1) % N
        /\ msg' = [msg EXCEPT ![t] = buffer[read_idx]]
        /\ pc' = [pc EXCEPT ![t] = "post"] /\ ret' = [ret EXCEPT ![t] = "E_OK"]
        /\ UNCHANGED <<sem, active, role, op, buffer>> /\ pc[t] = "lock"
    BY <1>3 DEF Read
  <2>2. count' \in 0 .. N /\ read_idx' \in 0 .. N - 1
    BY <1>1, <2>1, ModSucc
  <2>3. RingInv'
    <3>1. count - 1 \in 0 .. N - 1
      BY <1>1, <2>1
    <3>2. (((read_idx + 1) % N) + (count - 1)) % N = (read_idx + 1 + (count - 1)) % N
      BY <1>1, <3>1, ModShift
    <3>3. read_idx + 1 + (count - 1) = read_idx + count
      BY <1>1
    <3> QED
      BY <1>1, <2>1, <3>2, <3>3 DEF RingInv
  <2>4. TypeOK'
    <3>1. buffer[read_idx] \in Values
      BY <1>1 DEF IInv, TypeOK
    <3> QED
      BY <2>1, <2>2, <3>1 DEF IInv, TypeOK, PC, Errors
  <2> QED
    BY <2>3, <2>4
<1> QED
  BY <1>2, <1>3

\* The types and the ring, one case per statement.
LEMMA StepType ==
  ASSUME IInv, NEW t \in PipeTasks,
         (\E f \in Functions : Call(t, f)) \/ Step(t) \/ Flush(t) \/ Close(t)
  PROVE  TypeOK' /\ RingInv'
<1>0. /\ TypeOK /\ 0 \in Values /\ PIPE_BUFFER_SIZE \in Nat \ {0}
      /\ role[t].values \subseteq Values
      /\ pc \in [PipeTasks -> PC] /\ op \in [PipeTasks -> Writes \cup Reads \cup {"none"}]
      /\ msg \in [PipeTasks -> Values] /\ ret \in [PipeTasks -> Errors]
      /\ sem \in [Sems -> [count : 0 .. 1, max : {1}]] /\ active \in BOOLEAN
      /\ pc[t] # "idle" => op[t] \in role[t].calls /\ op[t] # "none"
  BY PipeAssumption, RoleTypes DEF IInv, TypeOK
<1>1. ASSUME NEW f \in Functions, Call(t, f) PROVE TypeOK' /\ RingInv'
  <2>1. PICK v \in Values : msg' = [msg EXCEPT ![t] = v]
    BY <1>0, <1>1 DEF Call
  <2>2. PICK l \in {"test", "enter"} : pc' = [pc EXCEPT ![t] = l]
    BY <1>1 DEF Call
  <2>3. /\ f \in role[t].calls /\ f \in Writes \cup Reads /\ f # "none"
        /\ op' = [op EXCEPT ![t] = f] /\ UNCHANGED <<sem, ring, active, role, ret>>
    BY <1>1 DEF Call, Writes, Reads
  <2>4. msg' \in [PipeTasks -> Values] /\ l \in PC
    BY <1>0, <2>1 DEF PC
  <2> QED
    BY <1>0, <2>2, <2>3, <2>4, MoveType
<1>2. CASE TestActive(t)
  <2>1. PICK l \in {"wait", "lock"} : pc' = [pc EXCEPT ![t] = l]
    BY <1>2 DEF TestActive
  <2>2. /\ pc[t] # "idle" /\ UNCHANGED <<sem, ring, active, role, op, msg, ret>>
        /\ op' = [op EXCEPT ![t] = op[t]]
    BY <1>0, <1>2 DEF TestActive
  <2> QED
    BY <1>0, <2>1, <2>2, MoveType DEF PC
<1>3. ASSUME NEW e \in Errors, Return(t), ret' = [ret EXCEPT ![t] = e],
             UNCHANGED <<sem, ring, active, role, msg>>
      PROVE  TypeOK' /\ RingInv'
  <2>1. ret' \in [PipeTasks -> Errors]
    BY <1>0, <1>3
  <2> QED
    BY <1>0, <1>3, <2>1, MoveType DEF Return, PC
<1>4. CASE TestClosed(t) \/ Busy(t)
  BY <1>3, <1>4 DEF TestClosed, Busy, Closed, Errors
<1>5. CASE Wait(t)
  <2>1. Guard(t) \in Sems
    BY DEF Guard, Sems
  <2>2. sem' \in [Sems -> [count : 0 .. 1, max : {1}]]
    BY <1>0, <1>5, <2>1, SemTypes DEF Wait
  <2>3. /\ pc[t] = "wait" /\ pc' = [pc EXCEPT ![t] = "enter"]
        /\ UNCHANGED <<ring, active, role, op, msg, ret>> /\ op' = [op EXCEPT ![t] = op[t]]
    BY <1>0, <1>5 DEF Wait
  <2> QED
    BY <1>0, <2>2, <2>3, MoveType DEF PC
<1>6. CASE Write(t) \/ Read(t)
  BY <1>6, TransferType
<1>7. CASE Post(t)
  <2>1. Signal(t) \in Sems
    BY DEF Signal, Sems
  <2>2. sem' \in [Sems -> [count : 0 .. 1, max : {1}]]
    BY <1>0, <1>7, <2>1, SemTypes DEF Post
  <2>3. msg' \in [PipeTasks -> Values]
    BY <1>0, <1>7 DEF Post
  <2> QED
    BY <1>0, <1>7, <2>2, <2>3, MoveType DEF Post, Return, PC
<1>8. CASE Flush(t)
  <2>1. 0 \in 0 .. PIPE_BUFFER_SIZE - 1 /\ 0 \in 0 .. PIPE_BUFFER_SIZE
    BY <1>0
  <2>2. RingInv'
    BY <1>0, <1>8, ModSmall DEF Flush, RingInv
  <2> QED
    BY <1>0, <1>8, <2>1, <2>2 DEF Flush, TypeOK
<1>9. CASE Close(t)
  BY <1>9 DEF Close, IInv, TypeOK, RingInv, ring
<1> QED
  BY <1>1, <1>2, <1>4, <1>5, <1>6, <1>7, <1>8, <1>9 DEF Step

\* With blocking calls only the unit is handed round, one case per statement:
\* sem_wait takes it, the locked section moves a value, sem_post returns it,
\* and a call that finds the pipe closed drops it.
LEMMA StepToken ==
  ASSUME IInv, BlockingOnly, NEW t \in PipeTasks,
         (\E f \in Functions : Call(t, f)) \/ Step(t) \/ Flush(t) \/ Close(t)
  PROVE  TokenInv'
<1>0. /\ TypeOK /\ TokenInv
      /\ pc \in [PipeTasks -> PC] /\ op \in [PipeTasks -> Writes \cup Reads \cup {"none"}]
      /\ count \in Nat
      /\ pc[t] # "idle" => op[t] \in Blocking
      /\ role[t].calls \subseteq Blocking \cup {"close"}
      /\ sem["not_empty"].count \in {0, 1} /\ sem["not_full"].count \in {0, 1}
  <2>1. sem \in [Sems -> [count : 0 .. 1, max : {1}]]
    BY DEF IInv, TypeOK
  <2>2. sem["not_empty"].count \in 0 .. 1 /\ sem["not_full"].count \in 0 .. 1
    BY <2>1 DEF Sems
  <2>3. count \in Nat
    BY PipeAssumption DEF IInv, TypeOK
  <2> QED
    BY <2>2, <2>3, RoleTypes DEF IInv, TypeOK, BlockingOnly
<1>1. /\ \A u \in PipeTasks : Holds(u) =>
           /\ sem["not_empty"].count = 0 /\ sem["not_full"].count = 0
           /\ \A v \in PipeTasks : Holds(v) => v = u
           /\ count = IF op[u] \in Writes <=> pc[u] = "post" THEN 1 ELSE 0
      /\ sem["not_empty"].count = 1 => sem["not_full"].count = 0 /\ count = 1
      /\ sem["not_full"].count = 1 => count = 0
      /\ count <= 1
  BY <1>0 DEF TokenInv
\* A step that moves t between statements where it does not hold the unit.
<1>2. ASSUME NEW l, NEW f, pc' = [pc EXCEPT ![t] = l], op' = [op EXCEPT ![t] = f],
             l \notin {"enter", "lock", "post"}, UNCHANGED <<sem, count>>
      PROVE  TokenInv'
  <2>1. \A u \in PipeTasks : Holds(u)' => u # t /\ Holds(u) /\ pc'[u] = pc[u] /\ op'[u] = op[u]
    BY <1>0, <1>2 DEF Holds
  <2> QED
    BY <1>1, <1>2, <2>1 DEF TokenInv
<1>3. ASSUME NEW f \in Functions, Call(t, f) PROVE TokenInv'
  <2>1. f \in Blocking
    BY <1>0, <1>3 DEF Call, Writes, Reads
  <2> QED
    BY <1>2, <1>3, <2>1 DEF Call, ring
<1>4. CASE TestActive(t)
  <2>1. CASE pc[t] = "test"
    <3>1. pc' = [pc EXCEPT ![t] = "wait"] /\ op' = [op EXCEPT ![t] = op[t]] /\ UNCHANGED <<sem, count>>
      BY <1>0, <1>4, <2>1 DEF TestActive, ring
    <3> QED
      BY <1>2, <3>1
  <2>2. CASE pc[t] = "enter"
    <3>1. pc' = [pc EXCEPT ![t] = "lock"] /\ UNCHANGED <<sem, count, op>>
      BY <1>4, <2>2 DEF TestActive, ring
    <3>2. \A u \in PipeTasks : /\ Holds(u)' <=> Holds(u)
                               /\ Holds(u) => (pc'[u] = "post" <=> pc[u] = "post")
      BY <1>0, <2>2, <3>1 DEF Holds
    <3> QED
      BY <1>1, <3>1, <3>2 DEF TokenInv
  <2> QED
    BY <1>4, <2>1, <2>2 DEF TestActive
<1>5. CASE TestClosed(t) \/ Busy(t)
  BY <1>2, <1>5 DEF TestClosed, Busy, Return, ring
<1>6. CASE Wait(t)
  <2>0. Guard(t) \in Sems
    BY DEF Guard, Sems
  <2>1. /\ sem[Guard(t)].count = 1 /\ sem'[Guard(t)].count = 0
        /\ \A r \in Sems \ {Guard(t)} : sem'[r] = sem[r]
    BY <1>0, <1>6, <2>0, SemTypes DEF Wait
  <2>2. pc' = [pc EXCEPT ![t] = "enter"] /\ UNCHANGED <<count, op>> /\ pc[t] = "wait"
    BY <1>6 DEF Wait, ring
  <2>3. \A u \in PipeTasks : ~ Holds(u)
    BY <1>1, <2>1 DEF Guard
  <2>4. \A u \in PipeTasks : Holds(u)' => u = t
    BY <1>0, <2>2, <2>3 DEF Holds
  <2>5. sem'["not_empty"].count = 0 /\ sem'["not_full"].count = 0
    BY <1>0, <1>1, <2>1 DEF Guard, Sems
  <2>6. count' = IF op'[t] \in Writes <=> pc'[t] = "post" THEN 1 ELSE 0
    BY <1>0, <1>1, <2>1, <2>2 DEF Guard
  <2> QED
    BY <1>1, <2>2, <2>4, <2>5, <2>6 DEF TokenInv
<1>7. CASE Write(t) \/ Read(t)
  <2>1. /\ pc[t] = "lock" /\ pc' = [pc EXCEPT ![t] = "post"] /\ UNCHANGED <<sem, op>>
        /\ count' = IF op[t] \in Writes THEN count + 1 ELSE count - 1
    BY <1>7 DEF Write, Read, Reads, Writes
  <2>2. Holds(t) /\ \A u \in PipeTasks : Holds(u)' => u = t
    BY <1>0, <1>1, <2>1 DEF Holds
  <2>3. count' = IF op'[t] \in Writes <=> pc'[t] = "post" THEN 1 ELSE 0
    BY <1>0, <1>1, <2>1, <2>2
  <2> QED
    BY <1>1, <2>1, <2>2, <2>3 DEF TokenInv
<1>8. CASE Post(t)
  <2>0. Signal(t) \in Sems
    BY DEF Signal, Sems
  <2>1. /\ sem'[Signal(t)].count = 1
        /\ \A r \in Sems \ {Signal(t)} : sem'[r] = sem[r]
    BY <1>0, <1>8, <2>0, SemTypes DEF Post
  <2>2. /\ pc[t] = "post" /\ pc' = [pc EXCEPT ![t] = "idle"] /\ count' = count
        /\ op' = [op EXCEPT ![t] = "none"]
    BY <1>8 DEF Post, Return, ring
  <2>3. Holds(t)
    BY <2>2 DEF Holds
  <2>4. \A u \in PipeTasks : ~ Holds(u)'
    BY <1>0, <1>1, <2>2, <2>3 DEF Holds
  <2>5. count = (IF op[t] \in Writes THEN 1 ELSE 0) /\ sem["not_empty"].count = 0
        /\ sem["not_full"].count = 0
    BY <1>1, <2>2, <2>3
  <2> QED
    BY <2>1, <2>2, <2>4, <2>5 DEF TokenInv, Signal, Sems
<1>9. CASE Flush(t)
  BY <1>0, <1>9 DEF Flush, Blocking
<1>a. CASE Close(t)
  BY <1>1, <1>a DEF Close, ring, TokenInv, Holds
<1> QED
  BY <1>3, <1>4, <1>5, <1>6, <1>7, <1>8, <1>9, <1>a DEF Step

\* Every step of every task keeps the invariant.
LEMMA NextIInv == IInv /\ [Next]_vars => IInv'
<1> SUFFICES ASSUME IInv, [Next]_vars PROVE IInv'
  OBVIOUS
<1>1. ASSUME NEW t \in PipeTasks,
             (\E f \in Functions : Call(t, f)) \/ Step(t) \/ Flush(t) \/ Close(t)
      PROVE  IInv'
  <2>1. TypeOK' /\ RingInv'
    BY <1>1, StepType
  <2>2. role' = role
    BY <1>1 DEF Call, Step, TestActive, TestClosed, Wait, Write, Read, Busy, Post, Flush, Close
  <2>3. BlockingOnly' => TokenInv'
    BY <1>1, <2>2, StepToken DEF BlockingOnly
  <2> QED
    BY <2>1, <2>3 DEF IInv
<1>2. CASE UNCHANGED vars
  BY <1>2 DEF vars, ring, IInv, TypeOK, RingInv, BlockingOnly, TokenInv, Holds
<1> QED
  BY <1>1, <1>2 DEF Next

-----------------------------------------------------------------------------
\* The invariant holds in every state a pipe reaches.
THEOREM Inductive == Spec => []IInv
  BY InitIInv, NextIInv, PTL DEF Spec

\* pipe_write_blocking and pipe_read_blocking never find the buffer full or
\* empty behind their sem_wait, while only such calls are made.
THEOREM WaitSuffices == Spec => []NoBusyAfterWait
<1>1. IInv => NoBusyAfterWait
  BY PipeAssumption DEF IInv, TypeOK, TokenInv, Holds, NoBusyAfterWait
<1> QED
  BY <1>1, Inductive, PTL

\* The pipe holds one value at a time: pipe_create gives not_full one unit,
\* not one for each slot, and the two semaphores hand it round.
OneToken ==
  BlockingOnly /\ active =>
    sem["not_empty"].count + sem["not_full"].count <= 1 /\ count <= 1

\* Whatever PIPE_BUFFER_SIZE is, blocking calls never use more than one slot:
\* the writers that WriterServed's run finds waiting beside a free slot are
\* the rule, whatever the size.
THEOREM OneSlotUsed == Spec => []OneToken
<1>1. ASSUME IInv, BlockingOnly
      PROVE  sem["not_empty"].count + sem["not_full"].count <= 1 /\ count <= 1
  <2>1. sem \in [Sems -> [count : 0 .. 1, max : {1}]] /\ TokenInv
    BY <1>1 DEF IInv, TypeOK
  <2>2. sem["not_empty"].count \in 0 .. 1 /\ sem["not_full"].count \in 0 .. 1
    BY <2>1 DEF Sems
  <2> QED
    BY <2>1, <2>2 DEF TokenInv
<1>2. IInv => OneToken
  BY <1>1 DEF OneToken
<1> QED
  BY <1>2, Inductive, PTL

-----------------------------------------------------------------------------
\* The unit is lost only to pipe_close: in an open pipe a semaphore has it or
\* a task does.
UnitKept ==
  BlockingOnly /\ active =>
    \/ sem["not_empty"].count = 1 \/ sem["not_full"].count = 1
    \/ \E t \in PipeTasks : Holds(t)

\* Nobody waits for a post that nobody owes: when no call is between its
\* sem_wait and its sem_post, the readers' semaphore has the unit if there is
\* a value and the writers' if there is none.  So the two sides of an open
\* pipe never wait for each other.
NoVainWait ==
  BlockingOnly /\ active /\ (\A t \in PipeTasks : ~ Holds(t)) =>
    sem[IF count > 0 THEN "not_empty" ELSE "not_full"].count = 1

\* Each statement hands the unit on.
LEMMA UnitStep ==
  /\ Init => UnitKept
  /\ IInv /\ UnitKept /\ [Next]_vars => UnitKept'
<1>1. Init => UnitKept
  BY DEF Init, pipe_create, UnitKept, sem_init
<1> SUFFICES ASSUME IInv, UnitKept, [Next]_vars, BlockingOnly', active'
             PROVE  UnitKept'
  BY <1>1 DEF UnitKept
<1>2. CASE UNCHANGED vars
  BY <1>2 DEF vars, UnitKept, Holds, BlockingOnly
<1>3. ASSUME NEW t \in PipeTasks,
             (\E f \in Functions : Call(t, f)) \/ Step(t) \/ Flush(t) \/ Close(t)
      PROVE  UnitKept'
  <2>1. role' = role
    BY <1>3 DEF Call, Step, TestActive, TestClosed, Wait, Write, Read, Busy, Post, Flush, Close
  <2>2. BlockingOnly /\ TypeOK /\ TokenInv /\ pc \in [PipeTasks -> PC]
    BY <2>1 DEF BlockingOnly, IInv, TypeOK
  \* A step to a statement where t holds the unit.
  <2>3. ASSUME NEW l \in {"enter", "lock", "post"}, pc' = [pc EXCEPT ![t] = l]
        PROVE  UnitKept'
    <3>1. Holds(t)'
      BY <2>2, <2>3 DEF Holds
    <3> QED
      BY <3>1 DEF UnitKept
  \* A step of a task that does not hold it.
  <2>4. ASSUME NEW l, pc' = [pc EXCEPT ![t] = l], ~ Holds(t), active, sem' = sem
        PROVE  UnitKept'
    <3>1. \A u \in PipeTasks : Holds(u) => Holds(u)'
      BY <2>2, <2>4 DEF Holds
    <3> QED
      BY <2>2, <2>4, <3>1 DEF UnitKept
  <2>5. ASSUME NEW f \in Functions, Call(t, f) PROVE UnitKept'
    <3>1. ~ Holds(t) /\ active /\ sem' = sem /\ \E l : pc' = [pc EXCEPT ![t] = l]
      BY <2>5 DEF Call, Holds
    <3> QED
      BY <2>4, <3>1
  <2>6. CASE TestActive(t)
    <3>1. CASE pc[t] = "test"
      <4>1. ~ Holds(t) /\ active /\ sem' = sem /\ pc' = [pc EXCEPT ![t] = "wait"]
        BY <2>2, <2>6, <3>1 DEF TestActive, Holds
      <4> QED
        BY <2>4, <4>1
    <3>2. CASE pc[t] = "enter"
      <4>1. pc' = [pc EXCEPT ![t] = "lock"]
        BY <2>2, <2>6, <3>2 DEF TestActive
      <4> QED
        BY <2>3, <4>1
    <3> QED
      BY <2>6, <3>1, <3>2 DEF TestActive
  <2>7. CASE TestClosed(t) \/ Close(t)
    BY <2>7 DEF TestClosed, Close
  <2>8. CASE Wait(t)
    <3>1. pc' = [pc EXCEPT ![t] = "enter"]
      BY <2>8 DEF Wait
    <3> QED
      BY <2>3, <3>1
  <2>9. CASE Write(t) \/ Read(t)
    <3>1. pc' = [pc EXCEPT ![t] = "post"]
      BY <2>9 DEF Write, Read
    <3> QED
      BY <2>3, <3>1
  <2>10. ~ Busy(t)
    <3> SUFFICES ASSUME Busy(t) PROVE FALSE
      OBVIOUS
    <3>1. /\ pc[t] = "lock"
          /\ IF op[t] \in Writes THEN count >= PIPE_BUFFER_SIZE ELSE count = 0
      BY DEF Busy
    <3>2. count = IF op[t] \in Writes THEN 0 ELSE 1
      BY <2>2, <3>1 DEF TokenInv, Holds
    <3> QED
      BY <3>1, <3>2, PipeAssumption
  <2>11. CASE Post(t)
    <3>1. Signal(t) \in Sems /\ sem_post(Signal(t))
      BY <2>11 DEF Signal, Sems, Post
    <3>2. sem'[Signal(t)].count = 1
      BY <2>2, <3>1, SemTypes
    <3> QED
      BY <3>2 DEF Signal, UnitKept
  <2>12. ~ Flush(t)
    BY <2>2 DEF Flush, BlockingOnly, Blocking
  <2> QED
    BY <1>3, <2>5, <2>6, <2>7, <2>8, <2>9, <2>10, <2>11, <2>12 DEF Step
<1> QED
  BY <1>2, <1>3 DEF Next

\* The safety half of ReaderServed, for readers and writers alike: in an open
\* pipe that is used with blocking calls, the semaphore that can be taken is
\* the one that the buffer calls for.
THEOREM SidesNeverBlockEachOther == Spec => []NoVainWait
<1>1. ASSUME IInv, UnitKept PROVE NoVainWait
  <2> SUFFICES ASSUME BlockingOnly, active, \A t \in PipeTasks : ~ Holds(t)
               PROVE  sem[IF count > 0 THEN "not_empty" ELSE "not_full"].count = 1
    BY DEF NoVainWait
  <2>1. count \in Nat /\ TokenInv
    BY <1>1, PipeAssumption DEF IInv, TypeOK
  <2>2. sem["not_empty"].count = 1 \/ sem["not_full"].count = 1
    BY <1>1 DEF UnitKept
  <2>3. CASE count > 0
    BY <2>1, <2>2, <2>3 DEF TokenInv
  <2>4. CASE ~ (count > 0)
    BY <2>1, <2>2, <2>4 DEF TokenInv
  <2> QED
    BY <2>3, <2>4
<1> QED
  BY <1>1, UnitStep, Inductive, PTL DEF Spec

-----------------------------------------------------------------------------
\* The pipe's buffer as a ring of values.
W == INSTANCE RingWindow WITH N <- PIPE_BUFFER_SIZE, V <- Values

\* What FifoUntilFlushed allows a step to be.
FifoStep ==
  \/ Abstract!Next
  \/ /\ \E t \in PipeTasks : pc[t] = "idle" /\ "flush" \in role[t].calls
     /\ Contents' = <<>>
     /\ UNCHANGED <<pc, msg, ret>>
  \/ /\ ~ active
     /\ \E t \in PipeTasks : ret'[t] \in {"E_BADF", "E_INVAL"}
     /\ UNCHANGED <<ring, msg>>

\* The values of the pipe are its buffer's window of count entries.
LEMMA ContentsWindow ==
  ASSUME TypeOK
  PROVE  /\ PIPE_BUFFER_SIZE \in Nat \ {0} /\ count \in Nat /\ read_idx \in Nat
         /\ buffer \in [W!Ring -> Values] /\ read_idx \in W!Ring
         /\ Contents = W!Window(buffer, read_idx, count)
         /\ Contents \in Seq(Values) /\ Len(Contents) = count
<1>1. /\ PIPE_BUFFER_SIZE \in Nat \ {0} /\ count \in Nat /\ read_idx \in Nat
      /\ buffer \in [W!Ring -> Values] /\ read_idx \in W!Ring
  BY PipeAssumption DEF TypeOK, W!Ring
<1>2. Contents = W!Window(buffer, read_idx, count)
  BY DEF Contents, W!Window
<1>3. W!Window(buffer, read_idx, count) \in Seq(Values) /\ Len(W!Window(buffer, read_idx, count)) = count
  BY <1>1, W!WindowSeq
<1> QED
  BY <1>1, <1>2, <1>3

\* What ret says to the channel: the call succeeded.
LEMMA RetMaps ==
  ASSUME TypeOK, NEW t \in PipeTasks, NEW e, ret' = [ret EXCEPT ![t] = e]
  PROVE  [u \in PipeTasks |-> ret[u] = "E_OK"]'
           = [[u \in PipeTasks |-> ret[u] = "E_OK"] EXCEPT ![t] = (e = "E_OK")]
  BY DEF TypeOK

\* The locked section of pipe_write appends the value.
LEMMA WriteMaps ==
  ASSUME IInv, NEW t \in PipeTasks, Write(t)
  PROVE  Abstract!Push(t)
<1>1. /\ count < PIPE_BUFFER_SIZE /\ count' = count + 1 /\ read_idx' = read_idx
      /\ buffer' = [buffer EXCEPT ![write_idx] = msg[t]]
      /\ ret' = [ret EXCEPT ![t] = "E_OK"] /\ msg' = msg
  BY DEF Write
<1>2. /\ PIPE_BUFFER_SIZE \in Nat \ {0} /\ count \in Nat /\ read_idx \in Nat
      /\ buffer \in [W!Ring -> Values] /\ read_idx \in W!Ring
      /\ Contents = W!Window(buffer, read_idx, count) /\ Len(Contents) = count
  BY ContentsWindow DEF IInv
<1>3. write_idx = (read_idx + count) % PIPE_BUFFER_SIZE /\ write_idx \in W!Ring /\ msg[t] \in Values
  BY DEF IInv, RingInv, TypeOK, W!Ring
<1>4. buffer' \in [W!Ring -> Values] /\ buffer'[write_idx] = msg[t]
  BY <1>1, <1>2, <1>3
<1>5. W!Window(buffer', read_idx, count) = W!Window(buffer, read_idx, count)
  <2>1. W!Window([buffer EXCEPT ![(read_idx + count) % PIPE_BUFFER_SIZE] = msg[t]], read_idx, count)
          = W!Window(buffer, read_idx, count)
    BY <1>1, <1>2, W!WindowStore
  <2> QED
    BY <1>1, <1>3, <2>1
<1>6. W!Window(buffer', read_idx, count + 1)
        = Append(W!Window(buffer', read_idx, count), buffer'[(read_idx + count) % PIPE_BUFFER_SIZE])
  BY <1>2, <1>4, W!WindowAppend
<1>7. Contents' = W!Window(buffer', read_idx, count + 1)
  BY <1>1 DEF Contents, W!Window
<1>8. Contents' = Append(Contents, msg[t])
  BY <1>2, <1>3, <1>4, <1>5, <1>6, <1>7
<1>9. [u \in PipeTasks |-> ret[u] = "E_OK"]'
        = [[u \in PipeTasks |-> ret[u] = "E_OK"] EXCEPT ![t] = TRUE]
  BY <1>1, RetMaps DEF IInv
<1> QED
  BY <1>1, <1>2, <1>8, <1>9 DEF Abstract!Push

\* The locked section of pipe_read takes the oldest value.
LEMMA ReadMaps ==
  ASSUME IInv, NEW t \in PipeTasks, Read(t)
  PROVE  Abstract!Pop(t)
<1>1. /\ count # 0 /\ count' = count - 1 /\ buffer' = buffer
      /\ read_idx' = (read_idx + 1) % PIPE_BUFFER_SIZE
      /\ ret' = [ret EXCEPT ![t] = "E_OK"] /\ msg' = [msg EXCEPT ![t] = buffer[read_idx]]
  BY DEF Read
<1>2. /\ PIPE_BUFFER_SIZE \in Nat \ {0} /\ count \in Nat \ {0} /\ read_idx \in Nat
      /\ buffer \in [W!Ring -> Values] /\ read_idx \in W!Ring
      /\ Contents = W!Window(buffer, read_idx, count) /\ Len(Contents) = count
  BY <1>1, ContentsWindow DEF IInv
<1>3. /\ Contents # <<>> /\ Head(Contents) = buffer[read_idx]
      /\ Tail(Contents) = W!Window(buffer, read_idx + 1, count - 1)
  BY <1>2, W!WindowTail
<1>4. Contents' = W!Window(buffer, read_idx + 1, count - 1)
  <2>1. ASSUME NEW i \in 1 .. count - 1
        PROVE  (((read_idx + 1) % PIPE_BUFFER_SIZE) + i - 1) % PIPE_BUFFER_SIZE
                 = (read_idx + 1 + i - 1) % PIPE_BUFFER_SIZE
    <3>1. /\ i - 1 \in 0 .. PIPE_BUFFER_SIZE - 1 /\ read_idx \in 0 .. PIPE_BUFFER_SIZE - 1
          /\ read_idx + 1 + (i - 1) = read_idx + 1 + i - 1
          /\ ((read_idx + 1) % PIPE_BUFFER_SIZE) + (i - 1)
               = ((read_idx + 1) % PIPE_BUFFER_SIZE) + i - 1
      BY <1>2 DEF IInv, TypeOK
    <3>2. (((read_idx + 1) % PIPE_BUFFER_SIZE) + (i - 1)) % PIPE_BUFFER_SIZE
            = (read_idx + 1 + (i - 1)) % PIPE_BUFFER_SIZE
      BY <1>2, <3>1, ModShift
    <3> QED
      BY <3>1, <3>2
  <2> QED
    BY <1>1, <2>1 DEF Contents, W!Window
<1>5. [u \in PipeTasks |-> ret[u] = "E_OK"]'
        = [[u \in PipeTasks |-> ret[u] = "E_OK"] EXCEPT ![t] = TRUE]
  BY <1>1, RetMaps DEF IInv
<1> QED
  BY <1>1, <1>3, <1>4, <1>5 DEF Abstract!Pop

\* Whoever calls what in whatever order: values leave in the order in which
\* they came, and only pipe_flush discards any.
THEOREM PipeIsFifo == Spec => FifoUntilFlushed
<1>1. ASSUME IInv, Next PROVE FifoStep \/ UNCHANGED <<Contents, msg, ret>>
  <2>1. PICK t \in PipeTasks :
          (\E f \in Functions : Call(t, f)) \/ Step(t) \/ Flush(t) \/ Close(t)
    BY <1>1 DEF Next
  <2>0. /\ TypeOK /\ 0 \in Values /\ role[t].values \subseteq Values
        /\ Contents \in Seq(Values) /\ Len(Contents) = count
        /\ count \in 0 .. PIPE_BUFFER_SIZE /\ PIPE_BUFFER_SIZE \in Nat \ {0}
    BY <1>1, RoleTypes, ContentsWindow, PipeAssumption DEF IInv, TypeOK
  <2>2. ASSUME UNCHANGED ring PROVE Contents' = Contents
    BY <2>2 DEF Contents, ring
  \* What the caller does with its argument and its result.
  <2>3. ASSUME NEW v \in Values, msg' = [msg EXCEPT ![t] = v], UNCHANGED <<ring, ret>>
        PROVE  FifoStep
    <3>1. Abstract!Prepare(t)
      BY <2>2, <2>3 DEF Abstract!Prepare
    <3> QED
      BY <3>1 DEF Abstract!Next, FifoStep
  <2>4. ASSUME NEW f \in Functions, Call(t, f) PROVE FifoStep
    <3>1. PICK v \in Values : msg' = [msg EXCEPT ![t] = v]
      BY <2>0, <2>4 DEF Call
    <3> QED
      BY <2>3, <2>4, <3>1 DEF Call
  <2>5. CASE TestActive(t) \/ Wait(t) \/ Close(t)
    BY <2>2, <2>5 DEF TestActive, Wait, Close
  <2>6. CASE TestClosed(t)
    <3>1. ret'[t] \in {"E_BADF", "E_INVAL"}
      BY <2>0, <2>6 DEF TestClosed, Closed, TypeOK
    <3> QED
      BY <2>6, <3>1 DEF TestClosed, FifoStep
  <2>7. CASE Write(t)
    BY <1>1, <2>7, WriteMaps DEF Abstract!Next, FifoStep
  <2>8. CASE Read(t)
    BY <1>1, <2>8, ReadMaps DEF Abstract!Next, FifoStep
  <2>9. CASE Busy(t)
    <3>1. [u \in PipeTasks |-> ret[u] = "E_OK"]'
            = [[u \in PipeTasks |-> ret[u] = "E_OK"] EXCEPT ![t] = FALSE]
      <4>1. ret' = [ret EXCEPT ![t] = "E_BUSY"] /\ "E_BUSY" # "E_OK"
        BY <2>9 DEF Busy
      <4>2. [u \in PipeTasks |-> ret[u] = "E_OK"]'
              = [[u \in PipeTasks |-> ret[u] = "E_OK"] EXCEPT ![t] = ("E_BUSY" = "E_OK")]
        BY <2>0, <4>1, RetMaps
      <4>3. ("E_BUSY" = "E_OK") = FALSE
        OBVIOUS
      <4> QED
        BY <4>2, <4>3
    <3>2. UNCHANGED <<Contents, msg>>
      BY <2>2, <2>9 DEF Busy
    <3>3. CASE op[t] \in Writes
      <4>1. Len(Contents) = PIPE_BUFFER_SIZE
        BY <2>0, <2>9, <3>3 DEF Busy
      <4>2. Abstract!PushFull(t)
        BY <3>1, <3>2, <4>1 DEF Abstract!PushFull
      <4> QED
        BY <4>2 DEF Abstract!Next, FifoStep
    <3>4. CASE op[t] \notin Writes
      <4>1. Contents = <<>>
        BY <2>0, <2>9, <3>4 DEF Busy
      <4>2. Abstract!PopEmpty(t)
        BY <3>1, <3>2, <4>1 DEF Abstract!PopEmpty
      <4> QED
        BY <4>2 DEF Abstract!Next, FifoStep
    <3> QED
      BY <3>3, <3>4
  <2>a. CASE Post(t)
    BY <2>0, <2>3, <2>a DEF Post
  <2>b. CASE Flush(t)
    <3>1. Contents' = <<>>
      BY <2>b DEF Flush, Contents
    <3> QED
      BY <2>b, <3>1 DEF Flush, FifoStep
  <2> QED
    BY <2>1, <2>4, <2>5, <2>6, <2>7, <2>8, <2>9, <2>a, <2>b DEF Step
<1>2. IInv /\ [Next]_vars =>
        [\/ Abstract!Next
         \/ /\ \E t \in PipeTasks : pc[t] = "idle" /\ "flush" \in role[t].calls
            /\ Contents' = <<>>
            /\ UNCHANGED <<pc, msg, ret>>
         \/ /\ ~ active
            /\ \E t \in PipeTasks : ret'[t] \in {"E_BADF", "E_INVAL"}
            /\ UNCHANGED <<ring, msg>>]_<<Contents, msg, ret>>
  BY <1>1 DEF FifoStep, vars, ring, Contents
<1> QED
  BY <1>2, Inductive, PTL DEF Spec, FifoUntilFlushed
=============================================================================
