----------------------------- MODULE KeyboardIrq ------------------------------
(***************************************************************************)
(* Shell commands in the keyboard interrupt (idt.c, keyboard.c, shell.c)   *)
(* that use the heap under heap_mutex, with the scheduler.                 *)
(*                                                                         *)
(* irq_handler acknowledges the interrupt first, and its gate clears IF.   *)
(* But the first `sti' of mutex_lock sets IF again inside the handler: from*)
(* there on the timer may switch to another task, with the handler left on *)
(* the stack of the task it interrupted, and a further key may nest a      *)
(* second handler on the same stack or start one on another task's.        *)
(*                                                                         *)
(* A command typed is one step, and the heap is the set of blocks taken:   *)
(* Shell and Heap have the detail.  Of the commands, `alloc' and `free' are*)
(* here: one step for each stretch with interrupts off and one for each    *)
(* assignment that another handler can see.                                *)
(***************************************************************************)
EXTENDS Task, SequencesExt

CONSTANTS
  WorkerPrio,    \* priority of the created tasks
  WorkerSleep,   \* what they pass to task_sleep
  Blocks,        \* the blocks the heap has room for; 0 is the null pointer
  Users,         \* how the user may behave: see `user'
  MaxFrames      \* bound on the handlers under way at once

NULL == -1
Workers == Tasks \ {main}
Allocs == {"alloc", "alloc huge"}
Words == Allocs \cup {"free"}

ASSUME KeyboardIrqAssumption ==
  /\ WorkerPrio \in Nat \ {0}
  /\ WorkerSleep \in Nat \ {0}
  /\ Blocks \subseteq Nat \ {0}
  /\ Users \subseteq {"patient", "impatient"}
  /\ MaxFrames \in Nat

VARIABLES
  user,            \* a patient user presses no key before the prompt is back
  line,            \* the shell's buffer
  test_alloc_ptr,
  live,            \* the blocks that are not free
  heap_mutex,      \* its owner; NULL is locked == 0
  base,            \* per worker, under any handler: "run", or "int" in task_sleep
  frames           \* per task: the handlers on its stack, the innermost last

shellVars == <<line, test_alloc_ptr>>
heapVars == <<live, heap_mutex>>
vars == <<taskVars, user, shellVars, heapVars, base, frames>>

\* kernel_main after `sti'.
Init ==
  /\ current_task = main
  /\ pool_index = TASK_POOL_SIZE
  /\ next = [t \in Tasks |-> IF t = main THEN TASK_POOL_SIZE ELSE t - 1]
  /\ priority = [t \in Tasks |-> IF t = main THEN 1 ELSE WorkerPrio]
  /\ state = [t \in Tasks |-> "READY"]
  /\ sleep_ticks = [t \in Tasks |-> 0]
  /\ cpu_ticks = [t \in Tasks |-> 0]
  /\ timer_ticks = 0
  /\ user \in Users
  /\ line = "" /\ test_alloc_ptr = 0
  /\ live = {} /\ heap_mutex = NULL
  /\ base = [t \in Workers |-> "run"]
  /\ frames = [t \in Tasks |-> <<>>]

-----------------------------------------------------------------------------
\* The handler the CPU is in, if it is in one, and where that one is.
At(t, l) == current_task = t /\ frames[t] # <<>> /\ Last(frames[t]).pc = l
Goto(t, l) == frames' = [frames EXCEPT ![t][Len(frames[t])].pc = l]

\* Every state here has IF set: stretches with IF clear are inside one step.
MayPress ==
  \/ user = "patient" /\ \A t \in Tasks : frames[t] = <<>>
  \/ user = "impatient"

\* A word goes to the end of what the buffer holds.
TypeWord(w) ==
  /\ MayPress
  /\ line' = IF line = "" THEN w ELSE "text"
  /\ UNCHANGED <<taskVars, user, test_alloc_ptr, heapVars, base, frames>>

\* Mutant: cmd_alloc does not look at test_alloc_ptr.
NeedsHeap_unchecked ==
  \/ line \in Allocs
  \/ line = "free" /\ test_alloc_ptr # 0

\* Enter, and the line goes on to kmalloc or kfree.
NeedsHeap ==
  \/ line \in Allocs /\ test_alloc_ptr = 0
  \/ line = "free" /\ test_alloc_ptr # 0

\* Enter for any other line: an unknown command, "Already allocated!", "Nothing
\* to free.", or an empty line.  No mutex, so IF stays clear to the end.
EnterShort ==
  /\ MayPress
  /\ ~ NeedsHeap
  /\ line' = ""
  /\ UNCHANGED <<taskVars, user, test_alloc_ptr, heapVars, base, frames>>

\* Mutant: the owner may enter again.
Turn_reentrant(t) ==
  [pc |-> IF heap_mutex \in {NULL, t} THEN "heap" ELSE "sleep",
   owner |-> IF heap_mutex = NULL THEN t ELSE heap_mutex]

\* One turn of mutex_lock: where it leaves the handler, and the mutex.
Turn(t) ==
  [pc |-> IF heap_mutex = NULL THEN "heap" ELSE "sleep",
   owner |-> IF heap_mutex = NULL THEN t ELSE heap_mutex]

\* Enter, up to the first `sti': the line is split, its first word found, and
\* kmalloc or kfree has made its first attempt at the mutex.
EnterHeap(t) ==
  /\ current_task = t
  /\ MayPress
  /\ NeedsHeap
  /\ Cardinality({p \in Tasks \X (1 .. MaxFrames) : p[2] \in DOMAIN frames[p[1]]}) < MaxFrames
  /\ frames' = [frames EXCEPT ![t] =
                  Append(@, [cmd |-> line, pc |-> Turn(t).pc,
                             ptr |-> IF line = "free" THEN test_alloc_ptr ELSE 0])]
  /\ heap_mutex' = Turn(t).owner
  /\ UNCHANGED <<taskVars, user, shellVars, live, base>>

-----------------------------------------------------------------------------
(* mutex_lock's wait: task_sleep(1), then the next turn.                   *)

WaitMark(t) ==
  /\ At(t, "sleep")
  /\ task_sleep_mark(t, 1)
  /\ Goto(t, "int")
  /\ UNCHANGED <<user, shellVars, heapVars, base>>

WaitInt(t) ==
  /\ At(t, "int")
  /\ irq_handler32
  /\ Goto(t, "turn")
  /\ UNCHANGED <<user, shellVars, heapVars, base>>

LockTurn(t) ==
  /\ At(t, "turn")
  /\ Goto(t, Turn(t).pc)
  /\ heap_mutex' = Turn(t).owner
  /\ UNCHANGED <<taskVars, user, shellVars, live, base>>

\* What the heap has for the command: blocks of the default size, nothing of
\* the size `alloc huge' asks for.
Fits(cmd) == IF cmd = "alloc" THEN Blocks \ live ELSE {}

\* kmalloc between lock and unlock: the first block that fits, or 0.
kmalloc(t) ==
  LET fits == Fits(Last(frames[t]).cmd)
      b == IF fits = {} THEN 0 ELSE Min(fits)
  IN /\ At(t, "heap") /\ Last(frames[t]).cmd \in Allocs
     /\ live' = (live \cup {b}) \ {0}
     /\ frames' = [frames EXCEPT ![t][Len(frames[t])] = [@ EXCEPT !.ptr = b, !.pc = "unlock"]]
     /\ UNCHANGED <<taskVars, user, shellVars, heap_mutex, base>>

\* kfree between lock and unlock.
kfree(t) ==
  /\ At(t, "heap") /\ Last(frames[t]).cmd = "free"
  /\ live' = live \ {Last(frames[t]).ptr}
  /\ Goto(t, "unlock")
  /\ UNCHANGED <<taskVars, user, shellVars, heap_mutex, base>>

\* Mutant: kmalloc's failure returns with the mutex held.
Unlock_success(t) ==
  /\ At(t, "unlock")
  /\ heap_mutex' = IF Last(frames[t]).ptr # 0 THEN NULL ELSE heap_mutex
  /\ Goto(t, "assign")
  /\ UNCHANGED <<taskVars, user, shellVars, live, base>>

\* mutex_unlock, with its test of the owner.
Unlock(t) ==
  /\ At(t, "unlock")
  /\ heap_mutex' = IF heap_mutex = t THEN NULL ELSE heap_mutex
  /\ Goto(t, "assign")
  /\ UNCHANGED <<taskVars, user, shellVars, live, base>>

\* test_alloc_ptr = kmalloc(sz), or test_alloc_ptr = 0 behind kfree.
Assign(t) ==
  /\ At(t, "assign")
  /\ test_alloc_ptr' = IF Last(frames[t]).cmd \in Allocs THEN Last(frames[t]).ptr ELSE 0
  /\ Goto(t, "finish")
  /\ UNCHANGED <<taskVars, user, line, heapVars, base>>

\* The end of execute_command, buf_idx = 0, and the return from the interrupt.
Finish(t) ==
  /\ At(t, "finish")
  /\ line' = ""
  /\ frames' = [frames EXCEPT ![t] = Front(@)]
  /\ UNCHANGED <<taskVars, user, test_alloc_ptr, heapVars, base>>

Handler(t) ==
  \/ WaitMark(t) \/ WaitInt(t) \/ LockTurn(t)
  \/ kmalloc(t) \/ kfree(t) \/ Unlock(t) \/ Assign(t) \/ Finish(t)

-----------------------------------------------------------------------------
(* What the worker does when no handler is on top of it.                   *)

SleepMark(t) ==
  /\ current_task = t /\ frames[t] = <<>>
  /\ base[t] = "run"
  /\ task_sleep_mark(t, WorkerSleep)
  /\ base' = [base EXCEPT ![t] = "int"]
  /\ UNCHANGED <<user, shellVars, heapVars, frames>>

SleepInt(t) ==
  /\ current_task = t /\ frames[t] = <<>>
  /\ base[t] = "int"
  /\ irq_handler32
  /\ base' = [base EXCEPT ![t] = "run"]
  /\ UNCHANGED <<user, shellVars, heapVars, frames>>

TimerIrq ==
  /\ irq_handler32
  /\ UNCHANGED <<user, shellVars, heapVars, base, frames>>

Work(t) == Handler(t) \/ (t \in Workers /\ (SleepMark(t) \/ SleepInt(t)))

Next ==
  \/ TimerIrq
  \/ \E w \in Words : TypeWord(w)
  \/ EnterShort
  \/ \E t \in Tasks : EnterHeap(t)
  \/ \E t \in Tasks : Handler(t)
  \/ \E t \in Workers : SleepMark(t) \/ SleepInt(t)

Spec == Init /\ [][Next]_vars

\* The timer ticks, and a task that gets the CPU again and again executes its
\* instructions.  The user need not press anything.
FairSpec == Spec /\ WF_vars(TimerIrq) /\ \A t \in Tasks : SF_vars(Work(t))

-----------------------------------------------------------------------------
\* The handlers between mutex_lock and mutex_unlock.
Inside == {p \in Tasks \X (1 .. MaxFrames) :
             p[2] \in DOMAIN frames[p[1]] /\ frames[p[1]][p[2]].pc \in {"heap", "unlock"}}

\* heap_mutex excludes handlers from one another, those that are nested on one
\* stack too, although its owner is a task and they share it.
HeapExclusive ==
  /\ Cardinality(Inside) <= 1
  /\ {p[1] : p \in Inside} = {heap_mutex} \ {NULL}

\* With no command under way, the block `alloc' reported is the only one taken:
\* "Already allocated! Run 'free' first." is how cmd_alloc keeps it so, and
\* what is not in test_alloc_ptr cannot be freed any more.
AllocTracked ==
  (\A t \in Tasks : frames[t] = <<>>) => live = {test_alloc_ptr} \ {0}

\* That holds for a user who waits for the prompt, wherever the interrupt
\* strikes and whatever task runs in between.
PatientTracked == user = "patient" => AllocTracked

\* For such a user every command ends, also one that interrupted a worker on
\* its way to sleep or main, over which the worker has priority.
CommandEnds ==
  \A t \in Tasks : (user = "patient" /\ frames[t] # <<>>) ~> frames[t] = <<>>
=============================================================================
