SPECIFICATION SyncFairSpec
CONSTANTS
  BackfillInterval = 2
  MultifactorInterval = 3
  MaxTime = 8
  MaxKills = 1
PROPERTY ClockStopsForBackfill
