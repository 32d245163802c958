# A TLA+ model of the RTOS kernel

This directory models the kernel in `src/`: a small preemptive x86 kernel with
a priority scheduler, mutexes, semaphores, a message queue, pipes, a process
manager, signals, a heap, a page allocator, in-memory files, a log and a shell
on a scrollback terminal. TLC checks the modules on small instances; TLAPS
proves every safety property of the passing runs, for every value of the
constants, and leaves only the liveness properties to TLC. `PROJECT.json` holds
the map from definitions to source lines, the runs, the mutants, the hazards,
the findings and the theorems.

## Inventory

| Part | State | Operations | Hard behaviour | What makes it correct |
|---|---|---|---|---|
| Tasks (`task.c`) | circular list, priority, state, sleep counter, `current_task` | `create_task`, `schedule`, `task_sleep`, `task_yield` | timer interrupts anywhere, the window inside `task_sleep` | one ring; the ready task of highest priority runs; sleeps end exactly on time |
| Timer, IRQ 0 (`timer.c`, `idt.c`, `interrupts.s`) | `timer_ticks`, table of callbacks | IRQ 0 and `int $32`; register, unregister | `int $32` looks like a tick; IRQ 0 walks the table while it is changed | every registered callback is called |
| Keyboard interrupt (`idt.c`, `shell.c`) | handlers on the stack of the task they interrupted | Enter runs a command | `sti` in `mutex_lock` makes the handler preemptible and reentrant | handlers exclude one another; commands end; nothing leaks |
| Mutex (`mutex.c`) | `locked`, `owner` | lock (spins with `task_sleep(1)`), unlock | preemption of the holder | exclusion; a holder releases |
| Queue (`queue.c`) | ring, head, tail, count | push, pop | preemption between the assignments | a bounded FIFO channel |
| Kernel tasks (`kernel.c`) | counters | `task_a`, `task_b` | all of the above together | the same, in composition |
| Semaphore (`semaphore.c`) | count, max | wait, post, trywait | a post at max is dropped | no wakeup is lost |
| Pipe (`pipe.c`) | ring, two semaphores, `active` | read/write, blocking or not, flush, close | tests outside the lock, posts after it | FIFO; a blocking call succeeds, and waits only for a full or an empty buffer |
| Processes (`process.c`) | pool of slots in a circular list | create, exit, sleep, schedule | slots are reused, zombies are on the CPU | unique pids; the list holds every process |
| Signals (`signal.c`) | per-pid handlers, pending, blocked | signal, kill, sigblock, dispatch | `kill` checks outside the lock, which is given up around handlers; dispatch inside dispatch | a signal sent once is delivered once; contexts start clean |
| Heap (`heap.c`) | list of headers | `kmalloc`, `kfree` | long sequences of splits and merges | blocks tile the heap, owners do not overlap |
| Pages (`paging.c`) | bitmap, counter, tables | alloc/free of pages and runs, `map_page` | counter and bitmap kept apart; nested locking | they agree; grants are disjoint |
| Keyboard (`keyboard.c`) | Ctrl, E0 mode | one handler | prefix bytes | drives the two below |
| Shell (`shell.c`) | line, history | keys, history up/down, commands | two copies of the line and its length; commands that turn interrupts on end among other keys | the typed line survives browsing |
| Terminal (`kernel.c`) | ring of lines, window | putchar, scrolling | ring and window arithmetic; no lock between commands with interrupts on and keys | all text can be reached |
| Files (`vfs.c`) | table of slots | init, create, open, touch, write, remove (the shell calls open only) | failures half way through a create | a bounded map; an operation does all or nothing |
| Log (`logging.c`) | ring of entries, level | message, clear, level, dump | no lock between `kernel_main`, commands and `kill` | a dump shows the latest messages |
| System calls, rings, GDT, panic, serial, boot | | | | not modelled or in part, see the end |

Interaction: IRQ 0 runs `schedule` and switches stacks; `task_sleep` and
`task_yield` enter the same path by `int $32`. Mutexes and semaphores wait by
`task_sleep(1)`. Queue, pipe, heap, pages and signals each use a mutex; pipes
also use semaphores. The keyboard interrupt runs the shell, and so every
command, in interrupt context; commands and system calls reach processes,
signals, the heap, the files and the log. The processes of `process.c` are separate from the
tasks of `task.c`, and nothing calls `process_schedule` or `signal_dispatch`.

## Modules

| Module | Models | Notes |
|---|---|---|
| `Task` | scheduler state and operations, IRQ 32 path | shared by the next two |
| `Scheduler` | the scheduler under arbitrary tasks | boot, `sti`, then anything |
| `KernelTasks` | `task_a`/`task_b` over `queue.c`, `mutex.c` and `Task` | composition, one step per statement |
| `Channel` | abstract bounded FIFO with failing operations | implemented by the queue; also used by `Pipe` |
| `Semaphore`, `Pipe`, `MCPipe` | `semaphore.c`, `pipe.c` | `MCPipe` says who may call what |
| `KeyboardIrq` | `alloc` and `free` in the keyboard interrupt, over `mutex.c` and `Task` | composition |
| `Process`, `Signal` | `process.c`, `signal.c` | `Signal` extends `Process` |
| `Heap`, `Paging` | `heap.c`, `paging.c` | |
| `Vfs`, `FileStore` | `vfs.c`; the abstract bounded map it implements | |
| `Log`, `TimerCallbacks` | `logging.c`; the callback table of `timer.c` | |
| `MCServices` | `Heap`, `Paging`, `Vfs`, `Log`, `TimerCallbacks`, `Console` side by side, for TLC | one is exercised in each behaviour |
| `Terminal`, `Shell`, `Console` | `kernel.c`'s terminal, `shell.c`, `keyboard.c` | each extends the one before |
| `MCScheduler`, `MCKernelTasks` | instances for TLC | |
| `SchedulerProofs`, `KernelTasksProofs`, `PipeProofs`, `KeyboardIrqProofs` | theorems about the module of that name | `SchedulerProofs` extends `MCScheduler`, which has the loops |
| `SignalProofs` | theorems about `Process` and `Signal` | `Signal` extends `Process` |
| `ServicesProofs` | theorems about `Paging`, `TimerCallbacks`, `Log`, `Vfs`, `Heap` and `Console` | one section each, each under its own specification |
| `ProofBasics`, `RingWindow` | lemmas the proofs share | indices of a ring, least elements, recursive functions; the contents of a ring buffer |

How state and actions correspond:

* **Task, Scheduler.** A task is its number: 0 is `main_task`, `i` is
  `task_pool[i-1]`. `schedule` is one step because it runs with interrupts
  off. Its two loops are written declaratively; `MCScheduler` also has them as
  walks along the list and `LoopsAgree` shows that both forms agree at every
  reachable state. The saved `esp` is the task's program counter: "run", or
  "int" between the stores of `task_sleep` and its `int $32`. `phase` is the
  boot sequence: tasks are created with interrupts off.
* **KernelTasks.** Each statement of `queue_push`/`queue_pop` is a step, a
  `cli..sti` section is one step, and `TimerIrq` can come between any two.
  `Messages` is the refinement mapping to `Channel`: a push takes effect at
  `count++`, a pop when it reads the slot.
* **Pipe.** A locked section is one step (`KernelTasks` is where locks are
  looked at closely). The tests of `active` and the semaphore calls lie outside
  the lock and are steps of their own. `role` says what each task may call.
* **Process, Signal.** Control blocks are slots; the list is `next`. A walk
  that would not end sets `hung`. `kill` is two steps: `process_get` before the
  lock (`killing` holds the calls past it) and the marking under it, when the
  target may be gone. `signal_dispatch` takes one step per signal. While it has
  given the lock up for a handler anything may happen, another
  `signal_dispatch` of the same process included: `disp` is the stack of its
  calls, each with what is `left` of its snapshot and what of that a call
  inside it has delivered (`stale`).
* **Heap.** The list of headers is a sequence of address, size, free bit; sizes
  are in bytes with the code's header and split sizes.
* **Paging.** The bitmap is the set of used pages. `map_page` keeps only
  whether the table exists, which decides whether it calls `alloc_page`.
* **KeyboardIrq.** A task's stack is what it runs itself (`base`) and the
  handlers on top of it (`frames`, innermost last); only the innermost of the
  current task executes. The interrupt gate clears IF, so everything up to the
  first `sti` of `mutex_lock` is one step (`EnterHeap`), or the whole command
  if it never reaches a mutex (`EnterShort`). From that `sti` on a handler is
  as preemptible as a task. `user` is "patient" or not: whether a key may come
  before the prompt is back.
* **Log.** A caller with interrupts off is one step. `Writers` are those with
  interrupts on: `kernel_main` after `sti`, and `kill`, which `testsig` reaches
  in the keyboard interrupt after `mutex_lock` has executed `sti`. For them
  test, entry, head and count are four steps, several of them may be under way
  at once, and a counter may be the value read at the start or the one in
  memory. `recent` and `damaged` are history variables.
* **Vfs.** A slot is in use, has a name and has a content. A string either fits
  its array or it does not (`TooLong`); `size` is always the length of the
  content and is left out.
* **TimerCallbacks.** `callbacks[cb_count++] = cb` is two stores in either
  order, the shift is one store a step. The interrupt only reads the table, so
  what it would call is asked at every state (`Calls`).
* **Console.** A line of text is its length; a scancode is the branch of
  `keyboard_callback` it takes; what a command prints is an input. A key is one
  step, up to the `sti` of a command that takes a mutex or a semaphore
  (`Unmask`). From there the command is a member of `Handlers`: each character
  it prints is a step that begins and one that ends `terminal_putchar`, then
  come `buf_idx = 0` and the prompt. Keys, and other handlers, may strike
  between any two of these steps; the order in which nested handlers return is
  not imposed. Nothing locks the terminal, so if it is changed while a handler
  is inside a character the stores of the two are torn (`scrollback_head` or
  `scrollback_count` may lose an update, or the count pass its bound): `term`
  is then `Garbled`, and stays so until a `clear` that nobody is in the middle
  of. The properties of the terminal are claimed for terminals that are not
  `Garbled`, those of the line and the history always.

Operators named `<definition>_<change>` and commented "Mutant" are not part of
the model: each is a plausible bug in the definition that follows it, used to
see that a property notices.

## Runs

| Run | States | Shows |
|---|---|---|
| `scheduler` | 4.4 k | ring, strict priority, exact sleeps, round-robin, both forms of the loops agree |
| `kernel_tasks` | 42 k | exclusion, queue consistency, refinement of `Channel`, holders release (equal priorities) |
| `kernel_inversion` | violation | with the kernel's own priorities a holder may never release |
| `pipe` | 228 k | FIFO under every mix of calls; blocking calls only: never `E_BUSY`, readers served |
| `pipe_capacity` | violation | blocking writers wait with room in the buffer |
| `process` | 46 k | unique pids, the running slot kept, the list complete until a slot is used twice |
| `process_list` | violation | processes fall off the list when a slot is reused |
| `signal` | 1.2 M | clean contexts; a snapshot goes stale by a nested dispatch only |
| `services` | 1.1 M | heap tiled, coalesced, exact, nothing leaks; page counter exact, grants disjoint; files refine `FileStore`; log keeps the latest; registered callbacks called; console: indices in range, text reachable, history, typed line kept |
| `paging_map` | violation | `alloc_page_user` waits for itself |
| `irq` | 99 k | handlers exclude one another; with a patient user nothing leaks and commands end |
| `irq_leak` | violation | a key during `alloc` leaks a block |

**Bounds.** Tick counters wrap after one, two or three ticks, so wrap-around is the rule
in the models. Three created tasks, two priorities above zero and sleeps of
one and two give two equals and one other, and sleeps that end together and
apart. A queue or pipe of two slots is empty, half full, full and wraps; two
tasks call every function of the pipe, or three the blocking ones and close. Three
process slots with four pids make a slot be used twice; for the signals it is
the idle process and one slot that two processes use in turn, SIGKILL and
SIGTERM, one process at a time with a handler or a mask of its own (`MaxChanged`), one call of `kill` between its
check and the lock (`MaxKills`) and one `signal_dispatch` inside another
(`MaxNest`). The heap has room for
four small blocks, so a block can have free neighbours on both sides; requests
include ones that split, ones that do not, one that never fits and one that
wraps when it is rounded. The page
allocator has one reserved table and three others. Three file slots stand
against four names that fit, so the table fills, and one slot is taken at boot;
a log of two entries wraps and is cleared while two callers with interrupts on
are in `log_msg`; three callbacks, each of which may
be registered more than once, fill a table of three.
`KeyboardIrq` has main, a worker of higher priority that sleeps, two blocks and
two handlers at once (`MaxFrames`): nested on one task, or one on each. The console has a ring of
two lines under a window of one, lines that wrap after two columns, a line of
one character and a history of two, so that everything wraps, shifts and
scrolls, and two commands that have turned interrupts on (`Handlers`), which
TLC may swap (symmetry).

The configurations of three modules switch the deadlock check off: in `Pipe` everyone may wait for
a pipe nobody feeds or sit in one that was closed; in `Process` pids run out at
the bound and a hung walk stops; in `MCServices` a `map_page` that met a
missing table holds the lock for good.

**Fairness.** `Scheduler`: only the timer and the end of boot. A task may
compute for ever and the properties still hold. `KernelTasks`: the timer, and
strong fairness of each task's steps: a task that is given the CPU again and
again executes some of its instructions, because a tick is far longer than an
instruction. `KeyboardIrq`: the same, for the worker and for the handlers on a
task's stack; the user need not press anything. `Pipe`: weak fairness of the steps of a task that is inside a
call; this is what tasks of equal priority get. `Paging`: weak fairness of a
call under way. No fairness is assumed of anybody's *decision* to call.

## Findings

1. **A waiter of higher priority never lets the holder run** (`mutex.c:19`,
   run `kernel_inversion`). `task_sleep(1)` sets the counter to 1 and executes
   `int $32`; `schedule` decrements the caller's counter in that very
   interrupt and finds it ready again. If `task_a` (priority 3) meets a mutex
   held by the preempted `task_b` (priority 2), it spins for ever and `task_b`
   never unlocks. The same holds for `sem_wait`. With equal priorities the
   round-robin lets the holder on (`kernel_tasks`).
2. **Reaped slots stay in the process list** (`process.c:170`, run
   `process_list`). The next `process_create` links the slot a second time and
   points it at the head: the processes behind it are no longer scheduled.
   This needs somebody to call `process_schedule`, which nothing does yet.
3. **`map_page` deadlocks with itself** (`paging.c:259`, run `paging_map`). It
   calls `alloc_page` with `paging_lock` held. All pages that can be allocated
   lie beyond the tables set up at boot, so the first `alloc_page_user` or
   `alloc_page_kernel` hangs. Neither has a caller yet.
4. **A key during `alloc` leaks a block** (`shell.c:481`, run `irq_leak`).
   `cmd_alloc` tests `test_alloc_ptr`, calls `kmalloc` and assigns the result.
   The `sti` inside `kmalloc`'s mutex calls enables the keyboard again, and the
   line is still in the buffer: Enter pressed just then runs `alloc` a second
   time, which finds the pointer still 0. One of the two blocks is lost. A user
   who waits for the prompt is safe (`PatientTracked`).

5. **A pipe holds one value for blocking writers** (`pipe.c:77`, run
   `pipe_capacity`). `not_full` starts at 1 with a maximum of 1 and is posted
   only by `pipe_read`: a second blocking writer waits until the first value is
   read, whatever room is left, although the comment says it waits "que le
   buffer ne soit pas plein" and `Usage.md:483` gives 256 entries. A writer
   without a reader never returns. `OneSlotUsed` proves the cause for every
   buffer size.

Read from the code, without a run of their own:

* `timer_ticks` also counts every `int $32`, so "PIT ticks" and uptime run fast
  when tasks yield or wait.
* Mixing blocking and non-blocking calls on one pipe lets a blocking call fail
  with `E_BUSY` or wait beside data: both semaphores have a maximum of 1.
* `Usage.md:478` says SIGKILL and SIGSTOP cannot be blocked; `sigblock` takes
  any mask.
* `kmalloc` of the three largest sizes rounds up to 0 and returns a block with
  no room (`alloc 4294967295`); `HeldIsTaken` states the exception.
  `free_pages` adds page number and count without regard to overflow.
* A key that arrives while a command holds `heap_mutex` can nest a second
  handler on the same stack, which waits for the first for ever: the mutex is
  owned by the task and the outer handler cannot go on. Nothing but the stack
  bounds the nesting.
* Keys typed while a command is under way are lost when it ends (`buf_idx = 0`),
  and a key inside a character that such a command prints can tear the
  terminal: a newline between the test at `kernel.c:115` and the increment takes
  `scrollback_count` past `SCROLLBACK_LINES`.
* A handler that calls `signal_dispatch` delivers what is left of the outer
  call's snapshot, and the outer call delivers it once more. `kill` can mark a
  signal for a process that has ended since `process_get` found it.
* Calls of `log_msg` that overlap may lose or repeat an
  entry; after as many further messages as the ring holds, or a clear, the dump
  is right again (`LogKeepsLatest`).
* `vfs_create` itself does not look for a file of that name; its callers do.
* A line of spaces stays in the shell's buffer after Enter, so that backspace
  erases the prompt.
* `task_a` draws its counter as sent when `queue_push` refused it.

## Theorems

Every development has the same shape: an inductive invariant, one lemma per
action (or group of actions) that preserves it, a theorem `Spec => []Inv`, and
the named results as consequences. A theorem is about the specification of the
component it names; the run `services` exercises the same specifications side
by side.

The only assumptions are the `ASSUME`s of the modules. Most of them are types.
The others: `Header` (`sizeof(header_t)`, 12) and `SIZE_MOD` (2^32) are
multiples of 4, on which it rests that every pointer is aligned and that a size
that wraps is rounded to exactly 0; `vfs_init`
creates files of distinct names (it has three string literals), because
`vfs_create` itself does not look; the reserved pages fill whole page tables;
the prompt begins with a newline (`print_prompt` prints `"\nRTOS> "`), without
which the first line of the terminal could hold text that no row shows.

**SchedulerProofs** (any pool size, priorities, sleep times):
`TypeCorrect`, `RingCorrect`, `SomeTaskEligible`, `RunsReadyTask`,
`StrictPriority`, `SleepersWakeOnTime`. That `schedule` always finds a task is
not inductive by itself: it rests on `MainInv`, which says that the idle task
keeps priority 1 and never sleeps longer than the tick of its own `int $32`, so
it is eligible whenever `schedule` looks. From that, `ScheduleChoice` shows
that the chosen task is ready and of highest priority, which carries
`RunningIsReady` and `NoReadyAbove` through every interrupt. `CreateKeepsRing`
shows that inserting behind `current_task` keeps the list one ring: `RingInv`
says it without counting, as "a set of tasks closed under `next` is all of
them". `SleepersWakeOnTime` is an action property: each action is shown to
leave a sleeper off the CPU alone, or to be a pass of `schedule`, which takes
exactly one from its counter and wakes it at 0.

`LoopsCorrect` follows from `TypeOK` and `RingInv` in every state: the two
`do`/`while` loops walk the list, and the model's `schedule` says in sets what
they compute. The tasks that links lead to from `s` are a closed set, so by
`RingInv` all of them, `s` too (`SomeReturn`); the shortest walk that returns
meets no task twice and is closed, so it is a bijection of its positions with
the tasks and has exactly as many links as there are tasks (`RoundExists`). Along that round
loop 1 has treated exactly the tasks behind it and loop 2 holds the first best
task among them (`SleepLoopIs`, `SelectLoopIs`). No order of the links is
assumed. `EqualsTakeTurns` is the action property `TakesTurns` over the same
round: at each interrupt 32 a ready task that no ready task is above gets the
CPU, or has strictly fewer links to go from `current_task->next` than before. A
counter that goes down at every interrupt is what `TopPriorityRuns` needs.

**KernelTasksProofs** (any number of tasks, any priorities, any queue size):
`TypeCorrect`, `MutexExcludes`, `QueueCountersAgree`, `QueueIsChannel`.
`MutualExclusion` is an equivalence (a task is in a section exactly if it owns
the mutex), which makes it inductive together with `SleepOutside` (a task that
sleeps is outside every section). `count` stays in range only because the test
made on entry still holds while the task acts on it: that is `RoomInv`.
`QueueConsistent` accounts for the assignments still to be made.
`QueueIsChannel` is the refinement: `Messages`, the refinement mapping, is a
window of the ring (`RingWindow`) that a consumer between two statements has
already shortened; each statement is then one step of `Channel` or none. It
needs one more invariant, `Written`: the slot behind the last message holds
the value that a producer between its store and `count++` is about to publish.
`NoHoldAndWait` says that the owner of a mutex is ready, is not inside
`task_sleep` and owns no other mutex. `SleepInv`, which it needs, says at which
statements a task can be asleep: they all lie outside the sections. So tasks
cannot deadlock on these mutexes, and what can keep one locked is priority
alone: the run `kernel_inversion` shows that it does.

**PipeProofs** (any tasks, roles and buffer size): `PipeIsFifo`, under any mix
of calls, maps the ring to `Channel` in the same way. `WaitSuffices` and
`OneSlotUsed` (which explains finding 5) hold for blocking calls only and rest on `TokenInv`: there is one
token, in one semaphore or with one task, or lost to a call that found the pipe
closed, and where it is determines how many values there are.
`SidesNeverBlockEachOther` says of an open pipe that the token is not lost
(`UnitKept`): when no call is between its `sem_wait` and its `sem_post`, it is
in the readers' semaphore if there is a value and in the writers' if there is
none.

**KeyboardIrqProofs** (any tasks, blocks and depth of nesting):
`HeapSectionExclusive` and `PatientUserLosesNothing`. The mutex's owner is a
task and not a handler, so exclusion needs that no *second* handler on the
owner's stack is inside: `MutexInv`. `PatientInv` says where a patient user's
only command is and which block it accounts for there.
`PatientCommandNeverWaits`: with no other command under way nobody owns the
mutex, so the command of a patient user takes it at the first attempt and never
enters the loop with `task_sleep(1)` on the interrupted task's stack.

**SignalProofs** (any number of slots, pids, signals, contexts):
`ProcTypeCorrect`, `PidsNameOneProcess`, `CurrentKeepsSlot`,
`ListSoundUntilReuse`, `NewProcessContextFresh`, `StaleOnlyByNesting`. Uniqueness of
pids has to count the idle slot as owned even when it is reaped, since
`process_schedule` falls back on it. `ListInv` says that until a slot is used
twice the list runs through the slots in the order of their pids; the walks
along it are bounded by the lemmas about `Hop`. That contexts start clean needs
that the calls of `kill` on their way to the lock have targets that were handed
out (`KillInv`). For signals, what is left of a snapshot is pending or was
delivered by a call inside: every call around the innermost is charged with
what that one delivers.

**ServicesProofs** (each service, any sizes):
* `FreeCountCorrect`, `PagesNotShared`: counter, bitmap and grants change
  together in every branch, double frees included. Callers are assumed to free
  nothing that is reserved or another's; `free_page` and `free_pages` would
  accept it.
* `TickCallsRegistered`: `CallAt` says which slot the next store of a
  registration or of the shift goes to and what lies there; a callback is
  registered as often as the table has it, not counting the slot a shift is
  about to overwrite.
* `DumpShowsLatest`: `Good` relates the ring to the latest messages, leaving out
  as many as a race may have hit; `Without` says that a writer's message is in
  a ring that was good without it, and `WritersInv` that this holds of a writer
  nobody has raced with, and that such a writer is the only one.
* `FilesAreBoundedMap`: names in use are distinct and nothing in use was too
  long (`TableOK`), so a search finds the only slot there is, and every call is
  a step of `FileStore` that does all or nothing.
* `BlocksTile`, `FreeSpaceMerged`, `PointersOwnBlocks`, `NothingLeaks`: the
  blocks lie end to end (`Covers`), no two free ones side by side (`Apart`),
  and the callers' pointers match the taken blocks one to one (`HeldMatches`).
  One pass of `kfree` over a list of any length is followed turn by turn.
* `ConsoleTypeCorrect`, `AllTextReachable`, `HistoryHasNoRepeats`,
  `BrowsingKeepsLine`, with any number of commands printing among the keys:
  `ShellInv` (the line, the saved line and the history are what their arrays can
  hold) is inductive by itself; `Screens` is the set of terminals that any
  character keeps, so a terminal is in it or `Garbled`, whatever handlers print
  (`DrawKeeps`). That all text can be reached needs
  `OldestEmpty`: until the ring is full its lines follow one another and the
  first, which `scrollback_get_line_index` hides, is empty.

Recursive functions (`MergeAll`, `heap_get_used`, `vfs_init`, `print_str`, the
walks along the process list and along the ring of tasks) are handled without the library's induction theorems:
`InductionTo` and `Recursion` of `ProofBasics` say, for sets and functions
instead of predicates, that what has no least exception has none and that such
a function exists and satisfies its equation. They follow from the
well-ordering of the naturals (`LeastNat`).

Only model-checked: liveness (`SleeperWakes`, `TopPriorityRuns`,
`HolderReleases`, `ReaderServed`, `CommandEnds`), which needs fairness and
`ENABLED`. For each of them the safety fact that the argument rests on is
proved: `SleepersWakeOnTime`, `EqualsTakeTurns`, `NoHoldAndWait`,
`SidesNeverBlockEachOther` and `PatientCommandNeverWaits`. The properties of the
last four (`TakesTurns`, `HoldersAwake`, `NoVainWait`, `PatientNeverWaits`) are
stated in the proof modules and are not properties of a run.

## Not modelled

* Page-table entries, CR0/CR3, GDT, rings, boot: they need a model of the
  processor. Serial output, panic, error names: pure output.
* `sem_trywait` (called once, on a semaphore nobody shares), `sem_value` and
  the other functions that only read.
* The shell's individual commands, apart from `alloc`, `free` and `loglevel` and
  the calls the others make into modelled parts; the wrappers of `syscall.c`.
* `unmap_page` and `get_physical_addr`, which work on page-table entries. The
  wrap of `page_num + count` in `free_pages`: past it the code indexes beyond
  the bitmap, and the model would have to have that memory.
* Exception handlers: they print and halt.
* In `KeyboardIrq`, workers use no mutex of their own: no task of this kernel
  calls the heap, and the ones that use the queue are in `KernelTasks`.
* `sema.c` and `klog.c` are not built.

## Plan

Done: the scheduler and the kernel's tasks; each service by itself, the files
and the log included; the keyboard interrupt as a second flow of control on the
interrupted task's stack; the theorems above, which state every safety property
of the passing runs. What is left: the hazards of `PROJECT.json` that no
property covers.
