\* Three tasks beside main, wrap-around of the counters after two ticks.
CONSTANTS
  TASK_POOL_SIZE = 3
  TICK_MOD = 2
  Priorities = {0, 1, 2}
  SleepTimes = {1, 2}
SPECIFICATION FairSpec
INVARIANTS
  TypeOK
  RingInv
  AlwaysEligible
  RunningIsReady
  NoReadyAbove
  LoopsAgree
PROPERTIES
  WakesOnTime
  SleeperWakes
  TopPriorityRuns
