---------------------------- MODULE MCKernelTasks ----------------------------
(***************************************************************************)
(* KernelTasks for TLC: the kernel's priorities, and equal ones.           *)
(***************************************************************************)
EXTENDS KernelTasks

\* create_task(task_a, 3); create_task(task_b, 2), and a third task like
\* the second where the pool has one.
KernelPrio == [t \in Workers |-> IF t = 1 THEN 3 ELSE 2]
EqualPrio == [t \in Workers |-> 2]
=============================================================================
