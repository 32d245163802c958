--------------------------------- MODULE Log ----------------------------------
(***************************************************************************)
(* The kernel log, logging.c: a ring of the last LOG_ENTRIES messages that *)
(* no lock protects.  An entry is [level, text]; how log_msg formats it    *)
(* (level name, tick, truncation) and its copy to the serial port are left *)
(* out.                                                                    *)
(*                                                                         *)
(* A caller with interrupts off is a single step: a command up to its      *)
(* first sti (logclear, loglevel, shutdown) and an unknown system call.    *)
(* A caller with interrupts on is not, and several may be in log_msg at    *)
(* once: kernel_main after its `sti', kill (which testsig calls from the   *)
(* keyboard interrupt, and whose mutex_lock has executed sti), alloc_page  *)
(* after its mutex_unlock.  Their unlocked reads of log_head and log_count *)
(* race with everyone; the compiler (-O2) may read each once, early, or    *)
(* again where it is used: both are in the model.                          *)
(***************************************************************************)
EXTENDS Integers, Sequences

CONSTANTS
  LOG_ENTRIES,   \* length of log_buffer (32 in the code)
  TypedLevels,   \* the numbers given to the loglevel command
  Entries,       \* what is logged
  Writers        \* those who call log_msg with interrupts on

LogLevels == 0 .. 4   \* LOG_DEBUG to LOG_CRITICAL
Blank == [level |-> 0, text |-> ""]

ASSUME LogAssumption ==
  /\ LOG_ENTRIES \in Nat \ {0}
  /\ TypedLevels \subseteq Nat
  /\ \A e \in Entries : e.level \in LogLevels

VARIABLES
  log_buffer, log_head, log_count, current_level,
  writing,   \* per writer: its log_msg under way, with what it has read
  recent,    \* history: the latest messages accepted since the last log_clear
  damaged    \* history: how many messages until a raced entry is overwritten

ringVars == <<log_buffer, log_head, log_count>>
logVars == <<ringVars, current_level, writing, recent, damaged>>

Indices == 0 .. LOG_ENTRIES - 1
NotLogging == [pc |-> "off", entry |-> Blank, head |-> 0, count |-> 0, raced |-> FALSE]
Busy == {w \in Writers : writing[w].pc # "off"}

log_init ==
  /\ log_buffer = [i \in Indices |-> Blank]
  /\ log_head = 0 /\ log_count = 0
  /\ current_level = 0

LogInit ==
  /\ log_init
  /\ writing = [w \in Writers |-> NotLogging]
  /\ recent = <<>> /\ damaged = 0

-----------------------------------------------------------------------------
\* Mutant: the head stops at the end.
Advance_stop(h) == IF h + 1 < LOG_ENTRIES THEN h + 1 ELSE h

Advance(h) == (h + 1) % LOG_ENTRIES
Counted(c) == IF c < LOG_ENTRIES THEN c + 1 ELSE c

\* The history of one more message.
Remember(e) ==
  LET all == Append(recent, e)
  IN recent' = IF Len(all) > LOG_ENTRIES THEN Tail(all) ELSE all

\* Somebody uses the ring: what those in log_msg have read may be stale now.
Raced == [w \in Writers |-> [writing[w] EXCEPT !.raced = writing[w].pc # "off"]]

\* log_msg with interrupts off.  Below current_level it returns at once: no step.
log_msg(e) ==
  /\ e.level >= current_level
  /\ log_buffer' = [log_buffer EXCEPT ![log_head] = e]
  /\ log_head' = Advance(log_head)
  /\ log_count' = Counted(log_count)
  /\ writing' = Raced
  /\ Remember(e)
  /\ damaged' = IF damaged > 0 THEN damaged - 1 ELSE 0
  /\ UNCHANGED current_level

log_clear ==
  /\ log_buffer' = [i \in Indices |-> Blank]
  /\ log_head' = 0 /\ log_count' = 0
  /\ writing' = Raced
  /\ recent' = <<>> /\ damaged' = 0
  /\ UNCHANGED current_level

log_set_level(l) ==
  /\ current_level' = l
  /\ UNCHANGED <<ringVars, writing, recent, damaged>>

\* The loglevel command passes on what is a level and ignores the rest.
cmd_loglevel(n) == n \in LogLevels /\ log_set_level(n)

-----------------------------------------------------------------------------
(* log_msg with interrupts on: test and loads, the entry, both counters.   *)

LogBegin(w, e) ==
  /\ writing[w].pc = "off"
  /\ e.level >= current_level
  /\ writing' = [Raced EXCEPT ![w] = [pc |-> "entry", entry |-> e, head |-> log_head,
                                      count |-> log_count, raced |-> Busy # {}]]
  /\ UNCHANGED <<ringVars, current_level, recent, damaged>>

LogEntry(w) ==
  /\ writing[w].pc = "entry"
  /\ \E h \in {writing[w].head, log_head} :
       log_buffer' = [log_buffer EXCEPT ![h] = writing[w].entry]
  /\ writing' = [writing EXCEPT ![w].pc = "head"]
  /\ UNCHANGED <<log_head, log_count, current_level, recent, damaged>>

LogHead(w) ==
  /\ writing[w].pc = "head"
  /\ \E h \in {writing[w].head, log_head} : log_head' = Advance(h)
  /\ writing' = [writing EXCEPT ![w].pc = "count"]
  /\ UNCHANGED <<log_buffer, log_count, current_level, recent, damaged>>

LogCount(w) ==
  /\ writing[w].pc = "count"
  /\ \E c \in {writing[w].count, log_count} :
       log_count' = IF c < LOG_ENTRIES THEN c + 1 ELSE log_count
  /\ writing' = [writing EXCEPT ![w] = NotLogging]
  /\ Remember(writing[w].entry)
  /\ damaged' = IF writing[w].raced THEN LOG_ENTRIES
                ELSE IF damaged > 0 THEN damaged - 1 ELSE 0
  /\ UNCHANGED <<log_buffer, log_head, current_level>>

LogNext ==
  \/ \E e \in Entries : log_msg(e) \/ \E w \in Writers : LogBegin(w, e)
  \/ log_clear
  \/ \E n \in TypedLevels : cmd_loglevel(n)
  \/ \E w \in Writers : LogEntry(w) \/ LogHead(w) \/ LogCount(w)

LogSpec == LogInit /\ [][LogNext]_logVars

-----------------------------------------------------------------------------
\* What log_dump prints.
log_dump ==
  LET start_idx == IF log_count < LOG_ENTRIES THEN 0 ELSE log_head
  IN [i \in 1 .. log_count |-> log_buffer[(start_idx + i - 1) % LOG_ENTRIES]]

\* A dump shows the latest LOG_ENTRIES messages that passed the level since the
\* last log_clear, in order, while nobody is in log_msg.  Calls of log_msg
\* that overlap, or a log_clear in the middle of one, spoil it, but not for
\* good: once as many messages as the ring holds have followed, or a
\* log_clear, the dump is right again.
LogKeepsLatest ==
  Busy = {} /\ damaged = 0 => log_dump = recent
=============================================================================
