SPECIFICATION SyncFairSpec
CONSTANTS
  BackfillInterval = 2
  MultifactorInterval = 3
  MaxTime = 10
  MaxKills = 2
INVARIANT PostsBalanced
PROPERTY WaitsReturn
