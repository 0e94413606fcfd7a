\* Three connections in every mode, a pool of two.
CONSTANTS
  Workloads <- Loads
  Modes <- AllModes
  PoolSize = 2
  QueueLength = 2
  Times = {0, 1}
  Frames = 2
  Failures <- FailingCalls
SPECIFICATION Spec
INVARIANTS
  StatsAddUp
  DescriptorsClosed
PROPERTIES
  ZombiesReaped
  EveryoneAnswered
CHECK_DEADLOCK FALSE
