---------------------------- MODULE TimerCallbacks ----------------------------
(***************************************************************************)
(* The table of timer callbacks, timer.c: registered and unregistered by   *)
(* code that IRQ 0 can interrupt between two stores, while the interrupt   *)
(* walks the same table.  kernel_main registers one callback, at boot;     *)
(* nothing in the repository calls timer_unregister_callback yet.          *)
(***************************************************************************)
EXTENDS Integers, FiniteSets

CONSTANTS
  TIMER_MAX_CALLBACKS,   \* 8 in the code
  Callbacks,             \* the functions registered
  NoCallback             \* the null pointer

ASSUME TimerCallbacksAssumption ==
  /\ TIMER_MAX_CALLBACKS \in Nat \ {0}
  /\ NoCallback \notin Callbacks

VARIABLES
  callbacks, cb_count,
  call,         \* the call under way: [op, cb, j], j the index of its next store
  registered    \* history: how often each callback is registered; one that is
                \* being registered or unregistered does not count

callbackVars == <<callbacks, cb_count, call, registered>>

CbSlots == 0 .. TIMER_MAX_CALLBACKS - 1
NoCall == [op |-> "none", cb |-> NoCallback, j |-> 0]

\* init_timer; the interrupt is not enabled yet.
init_timer ==
  /\ callbacks = [i \in CbSlots |-> NoCallback]
  /\ cb_count = 0

CallbackInit == init_timer /\ call = NoCall /\ registered = [cb \in Callbacks |-> 0]

-----------------------------------------------------------------------------
(* timer_register_callback: `callbacks[cb_count++] = cb'.  C leaves the    *)
(* order of the two stores open.  A full table returns -1: no step.        *)

Register(cb) ==
  /\ call = NoCall
  /\ cb_count < TIMER_MAX_CALLBACKS
  /\ \/ /\ cb_count' = cb_count + 1
        /\ call' = [op |-> "store", cb |-> cb, j |-> cb_count]
        /\ UNCHANGED callbacks
     \/ /\ callbacks' = [callbacks EXCEPT ![cb_count] = cb]
        /\ call' = [op |-> "count", cb |-> cb, j |-> cb_count]
        /\ UNCHANGED cb_count
  /\ UNCHANGED registered

RegisterStore ==
  /\ call.op = "store"
  /\ callbacks' = [callbacks EXCEPT ![call.j] = call.cb]
  /\ call' = NoCall
  /\ registered' = [registered EXCEPT ![call.cb] = @ + 1]
  /\ UNCHANGED cb_count

RegisterCount ==
  /\ call.op = "count"
  /\ cb_count' = call.j + 1
  /\ call' = NoCall
  /\ registered' = [registered EXCEPT ![call.cb] = @ + 1]
  /\ UNCHANGED callbacks

(* timer_unregister_callback: the search, each store of the shift, and the *)
(* last line.  A callback that is not there changes nothing: no step.      *)

Unregister(cb) ==
  /\ call = NoCall
  /\ \E i \in 0 .. cb_count - 1 :
       /\ callbacks[i] = cb /\ \A k \in 0 .. i - 1 : callbacks[k] # cb
       /\ call' = [op |-> "shift", cb |-> cb, j |-> i]
  /\ registered' = [registered EXCEPT ![cb] = @ - 1]
  /\ UNCHANGED <<callbacks, cb_count>>

Shift ==
  /\ call.op = "shift"
  /\ call.j < cb_count - 1
  /\ callbacks' = [callbacks EXCEPT ![call.j] = callbacks[call.j + 1]]
  /\ call' = [call EXCEPT !.j = @ + 1]
  /\ UNCHANGED <<cb_count, registered>>

\* Mutant: the slot given up keeps its pointer.
Drop_kept ==
  /\ call.op = "shift"
  /\ call.j >= cb_count - 1
  /\ cb_count' = cb_count - 1
  /\ call' = NoCall
  /\ UNCHANGED <<callbacks, registered>>

\* callbacks[--cb_count] = 0.  An interrupt between these two stores, in either
\* order, sees a slot it does not look at or a null pointer it skips.
Drop ==
  /\ call.op = "shift"
  /\ call.j >= cb_count - 1
  /\ cb_count' = cb_count - 1
  /\ callbacks' = [callbacks EXCEPT ![cb_count - 1] = NoCallback]
  /\ call' = NoCall
  /\ UNCHANGED registered

-----------------------------------------------------------------------------
\* What timer_irq_callback's loop calls if the interrupt comes now.  It only
\* reads the table, so it is not a step but a question asked at every state.
Calls == {callbacks[i] : i \in 0 .. cb_count - 1} \ {NoCallback}

CallbackNext ==
  \/ \E cb \in Callbacks : Register(cb) \/ Unregister(cb)
  \/ RegisterStore \/ RegisterCount \/ Shift \/ Drop

CallbackSpec == CallbackInit /\ [][CallbackNext]_callbackVars

-----------------------------------------------------------------------------
\* Whenever IRQ 0 strikes, also between two stores of a call, every callback
\* that is registered is called, and no other but the one that the call under
\* way adds or removes: a shift loses nobody and a slot given up is not stale.
CallsRegistered ==
  LET stable == {cb \in Callbacks : registered[cb] > 0}
  IN stable \subseteq Calls /\ Calls \subseteq stable \cup {call.cb}
=============================================================================
