\* One task of each kind, of equal priority: they preempt each other anywhere.
CONSTANTS
  TASK_POOL_SIZE = 2
  TICK_MOD = 1
  Producers = {1}
  Prio <- EqualPrio
  QUEUE_SIZE = 2
  VAL_MOD = 2
  SleepA = 1
  SleepB = 2
SPECIFICATION FairSpec
INVARIANTS
  TypeOK
  MutualExclusion
  QueueConsistent
PROPERTIES
  ImplementsChannel
  HolderReleases
