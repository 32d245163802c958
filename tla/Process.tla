------------------------------- MODULE Process -------------------------------
(***************************************************************************)
(* The process manager, process.c: a pool of control blocks in a circular  *)
(* list.  Its callers are the shell (spawn), syscall.c and signal.c.       *)
(* process_schedule has no caller in the repository yet; Scheduled says    *)
(* whether somebody calls it.                                              *)
(***************************************************************************)
EXTENDS Integers, FiniteSets

CONSTANTS
  MAX_PROCESSES,    \* slots of proc_pool (16 in the code)
  ProcPriorities,   \* what process_create is given
  ProcSleeps,       \* what process_sleep is given
  TICK_MOD,         \* get_ticks() wraps here (2^32 in the code)
  MaxPid,           \* bound on the pids handed out
  Scheduled

ASSUME ProcessAssumption ==
  /\ MAX_PROCESSES \in Nat \ {0}
  /\ ProcPriorities \subseteq Nat
  /\ ProcSleeps \subseteq Nat \ {0}
  /\ TICK_MOD \in Nat \ {0}
  /\ MaxPid \in Nat
  /\ Scheduled \in BOOLEAN

VARIABLES
  pid, pstate, priority, wake_tick, next,   \* per slot
  current_proc,
  next_pid,
  ticks,   \* get_ticks()
  hung     \* process_schedule is in a loop it never leaves

slotVars == <<pid, pstate, priority, wake_tick, next>>
procVars == <<slotVars, current_proc, next_pid, ticks, hung>>

Slots == 0 .. MAX_PROCESSES - 1
idle == 0   \* &proc_pool[0]; proc_list_head never moves from it
Used == {s \in Slots : pstate[s] # "UNUSED"}

process_init ==
  /\ pid = [s \in Slots |-> 0]
  /\ pstate = [s \in Slots |-> IF s = idle THEN "READY" ELSE "UNUSED"]
  /\ priority = [s \in Slots |-> 0]
  /\ wake_tick = [s \in Slots |-> 0]
  /\ next = [s \in Slots |-> idle]
  /\ current_proc = idle
  /\ next_pid = 1

ProcInit == process_init /\ ticks = 0 /\ hung = FALSE

-----------------------------------------------------------------------------
(* The list, followed from a slot: Hop(s, k) is k links on.                *)

Hop(s, k) ==
  LET hop[i \in 0 .. k] == IF i = 0 THEN s ELSE next[hop[i - 1]] IN hop[k]

\* do { } while (t != s) starting at s: does it end, and after how many?
Ends(s) == \E k \in 1 .. MAX_PROCESSES : Hop(s, k) = s
Round(s) == CHOOSE k \in 1 .. MAX_PROCESSES :
              Hop(s, k) = s /\ \A j \in 1 .. k - 1 : Hop(s, j) # s
Visited(s) == {Hop(s, k) : k \in 0 .. Round(s) - 1}

-----------------------------------------------------------------------------
\* Mutant: next_pid++ is missing.
TakePid_stuck == next_pid' = next_pid

\* next_pid++: pids are not used again.
TakePid == next_pid' = next_pid + 1

\* Mutant: the new process is linked behind the head; what was there is lost.
Link_head(np, last) == [[next EXCEPT ![idle] = np] EXCEPT ![np] = idle]

\* The new slot is linked behind the last of the list and points at the head.
Link(np, last) == [[next EXCEPT ![last] = np] EXCEPT ![np] = idle]

\* process_create: the first UNUSED slot but 0, linked behind the last of
\* the list.  A full pool returns -1: no step.
process_create(p) ==
  LET free == Slots \ (Used \cup {idle})
      np == CHOOSE s \in free : \A u \in free : s <= u
      last == Hop(idle, Round(idle) - 1)
  IN /\ free # {}
     /\ next_pid <= MaxPid
     /\ pid' = [pid EXCEPT ![np] = next_pid]
     /\ TakePid
     /\ priority' = [priority EXCEPT ![np] = p]
     /\ pstate' = [pstate EXCEPT ![np] = "READY"]
     /\ wake_tick' = [wake_tick EXCEPT ![np] = 0]
     /\ next' = Link(np, last)
     /\ UNCHANGED <<current_proc, ticks, hung>>

\* process_exit and process_get: the first slot in use with that pid.
Found(i) == {s \in Used : pid[s] = i /\ \A u \in Used : pid[u] = i => s <= u}

\* Mutant: the slot is given up at once.
process_exit_frees(i) ==
  /\ pstate' = [s \in Slots |-> IF s \in Found(i) THEN "UNUSED" ELSE pstate[s]]
  /\ UNCHANGED <<pid, priority, wake_tick, next, current_proc, next_pid, ticks, hung>>

process_exit(i) ==
  /\ pstate' = [s \in Slots |-> IF s \in Found(i) THEN "ZOMBIE" ELSE pstate[s]]
  /\ UNCHANGED <<pid, priority, wake_tick, next, current_proc, next_pid, ticks, hung>>

\* Mutant: wake_tick does not wrap as get_ticks() does.
process_sleep_nowrap(n) ==
  /\ wake_tick' = [wake_tick EXCEPT ![current_proc] = ticks + n]
  /\ pstate' = [pstate EXCEPT ![current_proc] = "SLEEPING"]
  /\ UNCHANGED <<pid, priority, next, current_proc, next_pid, ticks, hung>>

\* process_sleep(n) of the current process, up to its `int $32'.
process_sleep(n) ==
  /\ wake_tick' = [wake_tick EXCEPT ![current_proc] = (ticks + n) % TICK_MOD]
  /\ pstate' = [pstate EXCEPT ![current_proc] = "SLEEPING"]
  /\ UNCHANGED <<pid, priority, next, current_proc, next_pid, ticks, hung>>

\* The states after process_schedule's first loop: the current process gives
\* the CPU back, sleepers whose time has come wake, zombies are reaped.  A
\* reaped slot stays in the list.
Reaped(s) ==
  LET was == IF s = current_proc /\ pstate[s] = "RUNNING" THEN "READY" ELSE pstate[s]
  IN IF s \notin Visited(idle) THEN was
     ELSE IF was = "SLEEPING" /\ ticks >= wake_tick[s] THEN "READY"
     ELSE IF was = "ZOMBIE" THEN "UNUSED"
     ELSE was

\* The second loop compares with >=: the last READY slot of highest priority
\* wins; with none, slot 0 does, whatever its state.
Chosen ==
  LET first == next[current_proc]
      ready == {k \in 0 .. Round(first) - 1 : Reaped(Hop(first, k)) = "READY"}
      Prio(k) == priority[Hop(first, k)]
      top == {k \in ready : \A j \in ready : Prio(j) <= Prio(k)}
  IN IF ready = {} THEN idle
     ELSE Hop(first, CHOOSE k \in top : \A j \in top : j <= k)

process_schedule ==
  /\ IF Ends(next[current_proc])
     THEN /\ current_proc' = Chosen
          /\ pstate' = [s \in Slots |-> IF s = Chosen THEN "RUNNING" ELSE Reaped(s)]
          /\ hung' = hung
     ELSE hung' = TRUE /\ UNCHANGED <<current_proc, pstate>>
  /\ UNCHANGED <<pid, priority, wake_tick, next, next_pid, ticks>>

-----------------------------------------------------------------------------
Create == ~ hung /\ \E p \in ProcPriorities : process_create(p)
Exit == ~ hung /\ \E s \in Used : process_exit(pid[s])
Sleep == ~ hung /\ \E n \in ProcSleeps : process_sleep(n)
Schedule == ~ hung /\ Scheduled /\ process_schedule
Tick ==
  /\ ~ hung
  /\ ticks' = (ticks + 1) % TICK_MOD
  /\ UNCHANGED <<slotVars, current_proc, next_pid, hung>>

ProcNext == Create \/ Exit \/ Sleep \/ Schedule \/ Tick
ProcSpec == ProcInit /\ [][ProcNext]_procVars

-----------------------------------------------------------------------------
\* Every variable keeps its type.
ProcTypeOK ==
  /\ pid \in [Slots -> 0 .. MaxPid]
  /\ pstate \in [Slots -> {"UNUSED", "READY", "RUNNING", "SLEEPING", "ZOMBIE"}]
  /\ priority \in [Slots -> ProcPriorities \cup {0}]
  /\ wake_tick \in [Slots -> 0 .. TICK_MOD - 1]
  /\ next \in [Slots -> Slots]
  /\ current_proc \in Slots
  /\ next_pid \in 1 .. MaxPid + 1
  /\ ticks \in 0 .. TICK_MOD - 1
  /\ hung \in BOOLEAN

\* A pid names one process, so process_get, process_exit and kill reach the
\* process meant, reuse of slots notwithstanding.
PidUnique == \A s, u \in Used : pid[s] = pid[u] => s = u

\* The process on the CPU keeps its control block, and with it its stack: a
\* slot is freed only when process_schedule leaves it, and a zombie's slot is
\* not given to process_create.
CurrentNotFreed == pstate[current_proc] # "UNUSED"

\* The list is a ring through proc_list_head that holds every process: what
\* process_create's comment says it appends to.
ListHoldsAll == Used \subseteq Visited(idle)

\* Until a slot is used a second time (up to then slot s has pid s) the list
\* does hold every process and process_schedule's loops end, exits and reaped
\* slots notwithstanding.
ListHoldsUntilReuse ==
  (\A s \in Slots : pid[s] \in {0, s}) =>
    /\ \A s \in Used : Ends(s) /\ Used \subseteq Visited(s)
    /\ ~ hung
=============================================================================
