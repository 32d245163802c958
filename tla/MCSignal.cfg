\* idle and one slot that two processes use in turn, SIGKILL and SIGTERM,
\* a kill that waits for the lock, and signal_dispatch inside a handler.
CONSTANTS
  MAX_PROCESSES = 2
  ProcPriorities = {1}
  ProcSleeps = {}
  TICK_MOD = 1
  MaxPid = 2
  Scheduled = TRUE
  Sigs = {9, 14}
  MAX_CTX = 3
  SetHandlers = {"user"}
  Masks = {{14}}
  MaxChanged = 1
  MaxKills = 1
  MaxNest = 2
SPECIFICATION Spec
INVARIANTS
  FreshContext
  SnapshotPending
