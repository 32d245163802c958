\* The instance of MCPipe.cfg, for the writers.
CONSTANTS
  t1 = t1
  t2 = t2
  t3 = t3
  PipeTasks <- MCTasks
  Values = {0, 1}
  PIPE_BUFFER_SIZE = 2
  Roles <- MCRoles
SPECIFICATION FairSpec
PROPERTY WriterServed
CHECK_DEADLOCK FALSE
