----------------------------- MODULE MCScheduler -----------------------------
(***************************************************************************)
(* Scheduler for TLC, with schedule()'s two loops written the way the code *)
(* walks the list.                                                         *)
(***************************************************************************)
EXTENDS Scheduler

\* do { body; t = t->next } while (t != first), as a fold over the tasks in
\* the order of the visits.  The walk is cut off after task_count + 1 steps,
\* so that a list that is not a ring shows up as a wrong result.
Walk(first, body(_, _), acc) ==
  LET do[k \in 0 .. task_count] ==
        IF k = 0 THEN [t |-> first, acc |-> acc, done |-> FALSE]
        ELSE LET r == do[k - 1] IN
             IF r.done THEN r
             ELSE [t |-> next[r.t], acc |-> body(r.t, r.acc),
                   done |-> next[r.t] = first]
  IN do[task_count]

\* Loop 1 of schedule(): the new sleep_ticks and state.
SleepLoop ==
  Walk(current_task,
       LAMBDA t, a :
         IF a.state[t] # "SLEEPING" THEN a
         ELSE LET n == IF a.ticks[t] > 0 THEN a.ticks[t] - 1 ELSE 0 IN
              [ticks |-> [a.ticks EXCEPT ![t] = n],
               state |-> IF n = 0 THEN [a.state EXCEPT ![t] = "READY"] ELSE a.state],
       [ticks |-> sleep_ticks, state |-> state])

\* Loop 2 of schedule(): best and best_prio; -1 stands for the null pointer.
SelectLoop ==
  Walk(next[current_task],
       LAMBDA t, a :
         IF SleepLoop.acc.state[t] = "READY" /\ priority[t] > a.best_prio
         THEN [best |-> t, best_prio |-> priority[t]]
         ELSE a,
       [best |-> -1, best_prio |-> 0])

\* At every state, both loops of schedule() end after one round and leave
\* what Task!schedule says: the declarative form is the code's.
LoopsAgree ==
  /\ SleepLoop.done /\ SelectLoop.done
  /\ SleepLoop.acc = [ticks |-> [t \in Tasks |-> TicksLeft(t)],
                      state |-> [t \in Tasks |-> Woken(t)]]
  /\ Best = {IF SelectLoop.acc.best = -1 THEN current_task ELSE SelectLoop.acc.best}
=============================================================================
