\* Main and a worker of higher priority, two handlers at once, two blocks.
CONSTANTS
  TASK_POOL_SIZE = 1
  TICK_MOD = 1
  WorkerPrio = 3
  WorkerSleep = 2
  Blocks = {1, 2}
  Users = {"patient", "impatient"}
  MaxFrames = 2
SPECIFICATION FairSpec
INVARIANTS
  HeapExclusive
  PatientTracked
PROPERTY CommandEnds
