\* The kernel as it boots: is a mutex that is held always released?
CONSTANTS
  TASK_POOL_SIZE = 2
  TICK_MOD = 2
  Producers = {1}
  Prio <- KernelPrio
  QUEUE_SIZE = 2
  VAL_MOD = 2
  SleepA = 2
  SleepB = 3
SPECIFICATION FairSpec
PROPERTY HolderReleases
