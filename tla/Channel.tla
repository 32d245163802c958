------------------------------- MODULE Channel -------------------------------
(***************************************************************************)
(* What queue.c promises its callers: a bounded FIFO.  Each operation is   *)
(* one atomic step, whoever else is inside queue_push or queue_pop.        *)
(***************************************************************************)
EXTENDS Naturals, Sequences

CONSTANTS Senders, Receivers, Capacity, Values

VARIABLES
  chan,   \* the messages, oldest first
  msg,    \* per task: what it sends next, or what it received last
  ret     \* per task: what its last operation returned

vars == <<chan, msg, ret>>

Init ==
  /\ chan = <<>>
  /\ msg = [t \in Senders \cup Receivers |-> 0]
  /\ ret = [t \in Senders \cup Receivers |-> FALSE]

Push(t) ==
  /\ Len(chan) < Capacity
  /\ chan' = Append(chan, msg[t])
  /\ ret' = [ret EXCEPT ![t] = TRUE]
  /\ UNCHANGED msg

PushFull(t) ==
  /\ Len(chan) = Capacity
  /\ ret' = [ret EXCEPT ![t] = FALSE]
  /\ UNCHANGED <<chan, msg>>

Pop(t) ==
  /\ chan # <<>>
  /\ msg' = [msg EXCEPT ![t] = Head(chan)]
  /\ chan' = Tail(chan)
  /\ ret' = [ret EXCEPT ![t] = TRUE]

PopEmpty(t) ==
  /\ chan = <<>>
  /\ ret' = [ret EXCEPT ![t] = FALSE]
  /\ UNCHANGED <<chan, msg>>

\* A sender picks its next message.
Prepare(t) ==
  /\ \E v \in Values : msg' = [msg EXCEPT ![t] = v]
  /\ UNCHANGED <<chan, ret>>

Next ==
  \/ \E t \in Senders : Push(t) \/ PushFull(t) \/ Prepare(t)
  \/ \E t \in Receivers : Pop(t) \/ PopEmpty(t)

Spec == Init /\ [][Next]_vars
=============================================================================
