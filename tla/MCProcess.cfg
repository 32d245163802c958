\* With process_schedule called, slots are reaped and used again.
CONSTANTS
  MAX_PROCESSES = 3
  ProcPriorities = {1, 2}
  ProcSleeps = {1}
  TICK_MOD = 2
  MaxPid = 4
  Scheduled = TRUE
SPECIFICATION ProcSpec
INVARIANTS
  ProcTypeOK
  PidUnique
  CurrentNotFreed
  ListHoldsUntilReuse
CHECK_DEADLOCK FALSE
