------------------------------ MODULE Semaphore ------------------------------
(***************************************************************************)
(* The counting semaphores of semaphore.c.  Each operation is a cli..sti   *)
(* section, so one step; sem_wait's spin (task_sleep(1) and try again)     *)
(* changes nothing here, so a waiter is a task whose sem_wait is disabled. *)
(* sem_trywait is only called by the shell's `sem' demo, on a semaphore    *)
(* that no other task sees, and is left out.                               *)
(***************************************************************************)
EXTENDS Integers

VARIABLE sem   \* sem[s].count, sem[s].max

sem_init(initial, max) == [count |-> initial, max |-> max]

sem_wait(s) ==
  /\ sem[s].count > 0
  /\ sem' = [sem EXCEPT ![s].count = @ - 1]

\* A post at max is dropped.  The code compares as unsigned; counts start
\* at 0 or more and never fall below, so the cast changes nothing.
sem_post(s) ==
  sem' = [sem EXCEPT ![s].count = IF @ < sem[s].max THEN @ + 1 ELSE @]
=============================================================================
