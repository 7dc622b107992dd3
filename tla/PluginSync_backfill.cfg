SPECIFICATION SyncFairSpec
CONSTANTS
  BackfillInterval = 2
  MultifactorInterval = 3
  MaxTime = 14
  MaxKills = 0
INVARIANTS
  SyncTypeOK
  UnlockIsTimely
PROPERTIES
  ClockStopsForBackfill
  BackfillIsSynchronous
  CycleReturns
