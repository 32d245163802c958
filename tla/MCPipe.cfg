\* Two tasks with every function, or three with the blocking ones.  Everyone
\* may be waiting, or turned away by a closed pipe.
CONSTANTS
  t1 = t1
  t2 = t2
  t3 = t3
  PipeTasks <- MCTasks
  Values = {0, 1}
  PIPE_BUFFER_SIZE = 2
  Roles <- MCRoles
SPECIFICATION FairSpec
INVARIANTS
  NoBusyAfterWait
PROPERTIES
  FifoUntilFlushed
  ReaderServed
CHECK_DEADLOCK FALSE
