------------------------------- MODULE Signal --------------------------------
(***************************************************************************)
(* Signals, signal.c, over the process manager.  A section under           *)
(* signal_lock is one step.  kill looks the target up before it takes the  *)
(* lock, so the target may be gone by then.  signal_dispatch gives the     *)
(* lock up to call each handler and works on from a snapshot of the        *)
(* pending signals taken before the first, so each delivery is a step of   *)
(* its own and anything may happen in between: other processes run, and    *)
(* so does the handler, which may call any of these functions itself,      *)
(* signal_dispatch included.                                               *)
(* signal_dispatch has no caller in the repository; here the current       *)
(* process may call it at any time, up to MaxNest calls inside each other. *)
(***************************************************************************)
EXTENDS Process, Sequences

CONSTANTS
  Sigs,          \* the signal numbers used
  MAX_CTX,       \* length of signal_contexts (16 in the code)
  SetHandlers,   \* what signal is given
  Masks,         \* what sigblock and sigunblock are given
  MaxChanged,    \* bound on the contexts with handlers or a mask of their own
  MaxKills,      \* bound on the calls of kill that wait for the lock
  MaxNest        \* bound on the calls of signal_dispatch inside each other

SIGKILL == 9
SIGTERM == 14
SIGSTOP == 19

ASSUME SignalAssumption ==
  /\ Sigs \subseteq 0 .. 31
  /\ MAX_CTX \in Nat
  /\ SetHandlers \subseteq {"SIG_DFL", "SIG_IGN", "user"}
  /\ Masks \subseteq SUBSET Sigs
  /\ MaxChanged \in Nat
  /\ MaxKills \in Nat
  /\ MaxNest \in Nat

VARIABLES
  handlers,            \* per context and signal: "SIG_DFL", "SIG_IGN" or "user"
  pending, blocked,    \* per context: a set of signals
  killing,             \* calls of kill past process_get, not yet in the lock
  disp                 \* per process slot: its calls of signal_dispatch

ctxVars == <<handlers, pending, blocked>>
vars == <<procVars, ctxVars, killing, disp>>

Contexts == 0 .. MAX_CTX - 1

\* The calls of signal_dispatch of one process, the innermost last: what is
\* left of the snapshot of each, and what of that a call inside it delivered.
Calls == Seq([left : SUBSET Sigs, stale : SUBSET Sigs])

\* The calls around the innermost, and the innermost.
Outer(calls) == SubSeq(calls, 1, Len(calls) - 1)
Inner(calls) == calls[Len(calls)]

self == pid[current_proc]

Init ==
  /\ ProcInit
  /\ handlers = [i \in Contexts |-> [s \in Sigs |-> "SIG_DFL"]]
  /\ pending = [i \in Contexts |-> {}]
  /\ blocked = [i \in Contexts |-> {}]
  /\ killing = {}
  /\ disp = [s \in Slots |-> << >>]

-----------------------------------------------------------------------------
\* The bound on signal and sigblock.
MayChange ==
  Cardinality({self} \cup {i \in Contexts : blocked[i] # {} \/ \E s \in Sigs : handlers[i][s] # "SIG_DFL"})
    <= MaxChanged

\* signal(s, h) of the current process.
signal(s, h) ==
  /\ s \notin {SIGKILL, SIGSTOP}
  /\ self < MAX_CTX /\ MayChange
  /\ handlers' = [handlers EXCEPT ![self][s] = h]
  /\ UNCHANGED <<procVars, pending, blocked, killing, disp>>

\* Mutant: process_get is not asked.
kill_unchecked(i, s) ==
  /\ i < MAX_CTX
  /\ Cardinality(killing) < MaxKills
  /\ killing' = killing \cup {<<i, s>>}
  /\ UNCHANGED <<procVars, ctxVars, disp>>

\* kill(i, s) as far as the lock: process_get finds the target.  raise(s) is
\* the case i = self.
kill(i, s) ==
  /\ i < MAX_CTX
  /\ Found(i) # {}
  /\ Cardinality(killing) < MaxKills
  /\ killing' = killing \cup {<<i, s>>}
  /\ UNCHANGED <<procVars, ctxVars, disp>>

\* Its locked section marks the signal, whatever has become of the target.
kill_mark(i, s) ==
  /\ <<i, s>> \in killing
  /\ killing' = killing \ {<<i, s>>}
  /\ pending' = [pending EXCEPT ![i] = @ \cup {s}]
  /\ UNCHANGED <<procVars, handlers, blocked, disp>>

sigblock(mask) ==
  /\ self < MAX_CTX /\ MayChange
  /\ blocked' = [blocked EXCEPT ![self] = @ \cup mask]
  /\ UNCHANGED <<procVars, handlers, pending, killing, disp>>

sigunblock(mask) ==
  /\ self < MAX_CTX
  /\ blocked' = [blocked EXCEPT ![self] = @ \ mask]
  /\ UNCHANGED <<procVars, handlers, pending, killing, disp>>

\* Mutant: the loop does not move past the signal delivered.
Deliver_again(outer, call) ==
  LET s == CHOOSE x \in call.left : \A y \in call.left : x <= y IN
  /\ pending' = [pending EXCEPT ![self] = @ \ {s}]
  /\ disp' = [disp EXCEPT ![current_proc] = Append(outer, call)]
  /\ UNCHANGED <<procVars, handlers, blocked, killing>>

\* The calls once the innermost has delivered s.
Delivered(outer, call, s) ==
  Append([k \in 1 .. Len(outer) |-> [left |-> outer[k].left, stale |-> outer[k].stale \cup ({s} \cap outer[k].left)]],
         [left |-> call.left \ {s}, stale |-> call.stale \ {s}])

\* One turn of signal_dispatch's loop for the lowest signal of the snapshot:
\* read the handler, clear the bit, unlock, call.  A user handler's own calls
\* are the other actions, taken before the next turn.
Deliver(outer, call) ==
  LET s == CHOOSE x \in call.left : \A y \in call.left : x <= y IN
  /\ pending' = [pending EXCEPT ![self] = @ \ {s}]
  /\ disp' = [disp EXCEPT ![current_proc] = Delivered(outer, call, s)]
  /\ IF handlers[self][s] = "SIG_DFL" /\ s \in {SIGTERM, SIGKILL}
     THEN process_exit(self)
     ELSE UNCHANGED procVars
  /\ UNCHANGED <<handlers, blocked, killing>>

\* signal_dispatch takes its snapshot and delivers the first.
Dispatch ==
  /\ self < MAX_CTX
  /\ Len(disp[current_proc]) < MaxNest
  /\ pending[self] \ blocked[self] # {}
  /\ Deliver(disp[current_proc], [left |-> pending[self] \ blocked[self], stale |-> {}])

\* The innermost call goes on to the next signal of its snapshot.
DispatchMore ==
  /\ disp[current_proc] # << >>
  /\ Inner(disp[current_proc]).left # {}
  /\ Deliver(Outer(disp[current_proc]), Inner(disp[current_proc]))

\* It returns, to the handler that called it if there is one.
DispatchEnd ==
  /\ disp[current_proc] # << >>
  /\ Inner(disp[current_proc]).left = {}
  /\ disp' = [disp EXCEPT ![current_proc] = Outer(@)]
  /\ UNCHANGED <<procVars, ctxVars, killing>>

-----------------------------------------------------------------------------
\* A slot given out again comes with a new stack: whatever its last process
\* was doing is gone.
Manage ==
  /\ ProcNext
  /\ disp' = [s \in Slots |-> IF pid'[s] # pid[s] THEN << >> ELSE disp[s]]
  /\ UNCHANGED <<ctxVars, killing>>

Next ==
  \/ Manage
  \/ /\ ~ hung
     /\ \/ \E s \in Sigs, h \in SetHandlers : signal(s, h)
        \/ \E i \in Contexts, s \in Sigs : kill(i, s) \/ kill_mark(i, s)
        \/ \E mask \in Masks : sigblock(mask) \/ sigunblock(mask)
        \/ Dispatch \/ DispatchMore \/ DispatchEnd

Spec == Init /\ [][Next]_vars

-----------------------------------------------------------------------------
\* A process starts with a clean context although process_create resets
\* none and gives slots out again: pids are not used twice, and kill reaches
\* only those handed out, even when its target has gone by the time it has
\* the lock.
FreshContext ==
  \A i \in Contexts : i >= next_pid =>
    /\ pending[i] = {} /\ blocked[i] = {}
    /\ \A s \in Sigs : handlers[i][s] = "SIG_DFL"

\* A signal that signal_dispatch takes from its snapshot is still pending, or
\* a call of signal_dispatch inside this one, by a handler or an interrupt,
\* has delivered it since: nothing else done while the lock is given up makes
\* a signal be delivered twice for being sent once.
SnapshotPending ==
  \A s \in Used : \A k \in 1 .. Len(disp[s]) :
    disp[s][k].left \ disp[s][k].stale \subseteq pending[pid[s]]
=============================================================================
