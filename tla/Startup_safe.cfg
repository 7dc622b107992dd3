SPECIFICATION StartupSpec
CONSTANTS
  NJobs = 2
  LeftRecs <- MCLeftRecs
INVARIANTS
  StartupTypeOK
  ForkedLogExpected
  MainLoopHasDaemons
CHECK_DEADLOCK FALSE
