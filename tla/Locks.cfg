SPECIFICATION FairSpec
CONSTANTS
  Threads = {handler, background, backfill}
  Requests <- MCRequests
INVARIANTS
  TypeOK
  Exclusion
  NoLostWakeup
  SomeoneRuns
PROPERTIES
  WritersFirst
  EveryCallReturns
