\* A user who may press Enter before the prompt is back.
CONSTANTS
  TASK_POOL_SIZE = 1
  TICK_MOD = 1
  WorkerPrio = 3
  WorkerSleep = 2
  Blocks = {1, 2}
  Users = {"impatient"}
  MaxFrames = 2
SPECIFICATION Spec
INVARIANT AllocTracked
