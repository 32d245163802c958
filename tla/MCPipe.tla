------------------------------- MODULE MCPipe --------------------------------
(***************************************************************************)
(* Pipe for TLC: either two tasks that call everything while the third     *)
(* stays away, or three tasks that only make blocking calls.               *)
(***************************************************************************)
EXTENDS Pipe

CONSTANTS t1, t2, t3

MCTasks == {t1, t2, t3}

MCRoles ==
  { [t \in MCTasks |-> [calls  |-> IF t = t3 THEN {} ELSE Functions,
                        values |-> IF t = t1 THEN {0} ELSE {1}]],
    [t \in MCTasks |-> [calls |-> Blocking \cup {"close"}, values |-> {0}]] }
=============================================================================
