SPECIFICATION StartupFairSpec
CONSTANTS
  NJobs = 2
  LeftRecs <- MCLeftRecs
PROPERTY RegistrationStartsLoop
CHECK_DEADLOCK FALSE
