-------------------------------- MODULE Pipe ---------------------------------
(***************************************************************************)
(* One pipe of pipe.c, shared by tasks that call any of its functions in   *)
(* any order.  A mutex_lock .. mutex_unlock section is one step: its data  *)
(* is touched nowhere else, and KernelTasks shows that mutex.c excludes.   *)
(* `active' is tested outside the lock and the semaphores are waited for   *)
(* and posted outside it, so those are steps of their own.                 *)
(***************************************************************************)
EXTENDS Semaphore, Sequences

CONSTANTS
  PipeTasks,          \* the tasks that share the pipe
  Values,             \* what they write
  PIPE_BUFFER_SIZE,   \* 256 in the code
  Roles               \* who does what: the functions each task may call and what it writes

Writes == {"write", "write_blocking"}
Reads == {"read", "read_blocking"}
Blocking == {"write_blocking", "read_blocking"}
Functions == Writes \cup Reads \cup {"flush", "close"}

ASSUME PipeAssumption ==
  /\ PIPE_BUFFER_SIZE \in Nat \ {0}
  /\ Roles \subseteq [PipeTasks -> [calls : SUBSET Functions, values : SUBSET Values]]
  /\ 0 \in Values

VARIABLES
  buffer, read_idx, write_idx, count,
  active,
  role,  \* the role each task plays
  pc,    \* per task: the next statement of the function it is in, or "idle"
  op,    \* per task: that function, or "none"
  msg,   \* per task: what it writes, or what it read last
  ret    \* per task: the error_t its last call returned

ring == <<buffer, read_idx, write_idx, count>>
vars == <<sem, ring, active, role, pc, op, msg, ret>>

\* Mutant: a call posts the semaphore it waited for.
Signal_own(t) == IF op[t] \in Writes THEN "not_full" ELSE "not_empty"

\* The semaphore a call waits for, and the one it posts.
Guard(t) == IF op[t] \in Writes THEN "not_full" ELSE "not_empty"
Signal(t) == IF op[t] \in Writes THEN "not_empty" ELSE "not_full"

\* Mutant: both semaphores start at 1.
pipe_create_ones ==
  /\ buffer = [i \in 0 .. PIPE_BUFFER_SIZE - 1 |-> 0]
  /\ read_idx = 0 /\ write_idx = 0 /\ count = 0
  /\ active = TRUE
  /\ sem = [s \in {"not_empty", "not_full"} |-> sem_init(1, 1)]

pipe_create ==
  /\ buffer = [i \in 0 .. PIPE_BUFFER_SIZE - 1 |-> 0]
  /\ read_idx = 0 /\ write_idx = 0 /\ count = 0
  /\ active = TRUE
  /\ sem = [s \in {"not_empty", "not_full"} |->
              IF s = "not_empty" THEN sem_init(0, 1) ELSE sem_init(1, 1)]

Init ==
  /\ pipe_create
  /\ role \in Roles
  /\ pc = [t \in PipeTasks |-> "idle"]
  /\ op = [t \in PipeTasks |-> "none"]
  /\ msg = [t \in PipeTasks |-> 0]
  /\ ret = [t \in PipeTasks |-> "none"]

-----------------------------------------------------------------------------
Closed(t) == IF op[t] \in Writes THEN "E_BADF" ELSE "E_INVAL"

\* The call is over.  What it wrote or read is the caller's business now: msg
\* is forgotten with the call.
Return(t) ==
  /\ pc' = [pc EXCEPT ![t] = "idle"]
  /\ op' = [op EXCEPT ![t] = "none"]

\* A call of one of the four transfer functions, with its argument.
Call(t, f) ==
  /\ pc[t] = "idle"
  /\ f \in role[t].calls \cap (Writes \cup Reads)
  /\ op' = [op EXCEPT ![t] = f]
  /\ pc' = [pc EXCEPT ![t] = IF f \in Blocking THEN "test" ELSE "enter"]
  /\ \E v \in IF f \in Writes THEN role[t].values ELSE {0} : msg' = [msg EXCEPT ![t] = v]
  /\ UNCHANGED <<sem, ring, active, role, ret>>

\* The test of p->active: at "test" in a blocking call, before its sem_wait,
\* and at "enter" in pipe_write and pipe_read, before their mutex_lock.
TestActive(t) ==
  /\ pc[t] \in {"test", "enter"}
  /\ active
  /\ pc' = [pc EXCEPT ![t] = IF @ = "test" THEN "wait" ELSE "lock"]
  /\ UNCHANGED <<sem, ring, active, role, op, msg, ret>>

TestClosed(t) ==
  /\ pc[t] \in {"test", "enter"}
  /\ ~ active
  /\ Return(t)
  /\ ret' = [ret EXCEPT ![t] = Closed(t)]
  /\ UNCHANGED <<sem, ring, active, role, msg>>

Wait(t) ==
  /\ pc[t] = "wait"
  /\ sem_wait(Guard(t))
  /\ pc' = [pc EXCEPT ![t] = "enter"]
  /\ UNCHANGED <<ring, active, role, op, msg, ret>>

\* The locked section of pipe_write.
Write(t) ==
  /\ pc[t] = "lock" /\ op[t] \in Writes
  /\ count < PIPE_BUFFER_SIZE
  /\ buffer' = [buffer EXCEPT ![write_idx] = msg[t]]
  /\ write_idx' = (write_idx + 1) % PIPE_BUFFER_SIZE
  /\ count' = count + 1
  /\ ret' = [ret EXCEPT ![t] = "E_OK"]
  /\ pc' = [pc EXCEPT ![t] = "post"]
  /\ UNCHANGED <<sem, read_idx, active, role, op, msg>>

\* Mutant: read_idx is not advanced.
Read_again(t) ==
  /\ pc[t] = "lock" /\ op[t] \in Reads
  /\ count # 0
  /\ msg' = [msg EXCEPT ![t] = buffer[read_idx]]
  /\ count' = count - 1
  /\ ret' = [ret EXCEPT ![t] = "E_OK"]
  /\ pc' = [pc EXCEPT ![t] = "post"]
  /\ UNCHANGED <<sem, buffer, read_idx, write_idx, active, role, op>>

\* The locked section of pipe_read.
Read(t) ==
  /\ pc[t] = "lock" /\ op[t] \in Reads
  /\ count # 0
  /\ msg' = [msg EXCEPT ![t] = buffer[read_idx]]
  /\ read_idx' = (read_idx + 1) % PIPE_BUFFER_SIZE
  /\ count' = count - 1
  /\ ret' = [ret EXCEPT ![t] = "E_OK"]
  /\ pc' = [pc EXCEPT ![t] = "post"]
  /\ UNCHANGED <<sem, buffer, write_idx, active, role, op>>

\* The early return of both: full, or empty.
Busy(t) ==
  /\ pc[t] = "lock"
  /\ IF op[t] \in Writes THEN count >= PIPE_BUFFER_SIZE ELSE count = 0
  /\ Return(t)
  /\ ret' = [ret EXCEPT ![t] = "E_BUSY"]
  /\ UNCHANGED <<sem, ring, active, role, msg>>

\* Mutant: no post.
Post_missing(t) ==
  /\ pc[t] = "post"
  /\ Return(t)
  /\ msg' = [msg EXCEPT ![t] = 0]
  /\ UNCHANGED <<sem, ring, active, role, ret>>

Post(t) ==
  /\ pc[t] = "post"
  /\ sem_post(Signal(t))
  /\ Return(t)
  /\ msg' = [msg EXCEPT ![t] = 0]
  /\ UNCHANGED <<ring, active, role, ret>>

\* pipe_flush: the ring is emptied, the semaphores keep their counts.
Flush(t) ==
  /\ pc[t] = "idle" /\ "flush" \in role[t].calls
  /\ read_idx' = 0 /\ write_idx' = 0 /\ count' = 0
  /\ UNCHANGED <<sem, buffer, active, role, pc, op, msg, ret>>

\* pipe_close: nobody who waits is woken.
Close(t) ==
  /\ pc[t] = "idle" /\ "close" \in role[t].calls
  /\ active' = FALSE
  /\ UNCHANGED <<sem, ring, role, pc, op, msg, ret>>

Step(t) ==
  \/ TestActive(t) \/ TestClosed(t) \/ Wait(t)
  \/ Write(t) \/ Read(t) \/ Busy(t) \/ Post(t)

Next ==
  \E t \in PipeTasks :
    \/ \E f \in Functions : Call(t, f)
    \/ Step(t) \/ Flush(t) \/ Close(t)

Spec == Init /\ [][Next]_vars

\* A task inside pipe.c goes on, and one in sem_wait looks at the count every
\* tick, so it takes a unit that stays there.  This is what the scheduler
\* gives tasks of equal priority; one of lower priority can be starved by the
\* spin of another (KernelTasks).  Nobody has to call anything.
FairSpec == Spec /\ \A t \in PipeTasks : WF_vars(Step(t))

-----------------------------------------------------------------------------
Contents == [i \in 1 .. count |-> buffer[(read_idx + i - 1) % PIPE_BUFFER_SIZE]]

Abstract == INSTANCE Channel WITH
  Senders <- PipeTasks, Receivers <- PipeTasks, Capacity <- PIPE_BUFFER_SIZE,
  chan <- Contents, ret <- [t \in PipeTasks |-> ret[t] = "E_OK"]

\* Seen from outside, a pipe is the bounded FIFO, except that pipe_flush
\* empties it and that after pipe_close calls are turned away.  No value is
\* lost, repeated or overtaken, even by calls in flight when it is closed.
FifoUntilFlushed ==
  [][\/ Abstract!Next
     \/ /\ \E t \in PipeTasks : pc[t] = "idle" /\ "flush" \in role[t].calls
        /\ Contents' = <<>>
        /\ UNCHANGED <<pc, msg, ret>>
     \/ /\ ~ active
        /\ \E t \in PipeTasks : ret'[t] \in {"E_BADF", "E_INVAL"}
        /\ UNCHANGED <<ring, msg>>]_<<Contents, msg, ret>>

\* Nobody calls pipe_write, pipe_read or pipe_flush on this pipe.
BlockingOnly == \A t \in PipeTasks : role[t].calls \subseteq Blocking \cup {"close"}

\* With blocking calls only, sem_wait really means what the comments in
\* pipe_write_blocking and pipe_read_blocking say: the call that follows
\* never finds the buffer full or empty, however many tasks call, and also
\* when the pipe is closed under them.
NoBusyAfterWait ==
  BlockingOnly =>
    \A t \in PipeTasks : pc[t] \in {"enter", "lock"} =>
      IF op[t] \in Writes THEN count < PIPE_BUFFER_SIZE ELSE count > 0

\* With blocking calls only, a reader does not wait beside a value in an open
\* pipe: it gets the value or another reader does.
ReaderServed ==
  \A t \in PipeTasks :
    (BlockingOnly /\ pc[t] = "wait" /\ op[t] = "read_blocking" /\ count > 0)
      ~> (pc[t] # "wait" \/ count = 0 \/ ~ active)

\* The same for writers, as the comment in pipe_write_blocking has it: a
\* writer of an open pipe waits for a buffer that is not full, so it does not
\* wait beside a free slot.  The code does not keep this.
WriterServed ==
  \A t \in PipeTasks :
    (BlockingOnly /\ pc[t] = "wait" /\ op[t] = "write_blocking" /\ count < PIPE_BUFFER_SIZE)
      ~> (pc[t] # "wait" \/ count = PIPE_BUFFER_SIZE \/ ~ active)
=============================================================================
