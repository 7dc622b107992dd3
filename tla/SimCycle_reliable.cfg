SPECIFICATION Spec
CONSTANTS
  NJobs = 3
  Submit <- MCSubmit
  Duration <- MCDuration
  TimeLimit <- MCTimeLimit
  Width <- MCWidth
  OverTimeLimit = 1
  NNodes = 2
  TimeIncr = 1
  SimEndPoint = 0
  BackfillInterval = 2
  PeriodicTimeout = 100
  PurgeInterval = 100
  KillAge = 100
  MaxTime = 14
  MaxLag = 1
  MaxLost = 0
INVARIANTS
  TypeOK
  LockStep
  EventsSorted
  NeverEarly
  LaunchKnowsJob
  OneEventPerRunningJob
  EpilogAccounting
  SchedulerSeesFreedNodes
  NoLostScheduling
  SpinsEnd
  EndOnlyAfterAll
PROPERTIES
  ClockFrozenDuringCycle
