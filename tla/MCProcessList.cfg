\* With process_schedule called: does the list hold every process?
CONSTANTS
  MAX_PROCESSES = 3
  ProcPriorities = {1}
  ProcSleeps = {1}
  TICK_MOD = 3
  MaxPid = 4
  Scheduled = TRUE
SPECIFICATION ProcSpec
INVARIANT ListHoldsAll
CHECK_DEADLOCK FALSE
