SPECIFICATION FairSpec
CONSTANTS
  Nodes = {n1, n2}
  Shapes <- SmallShapes
  MaxJobs = 3
  BusyUntil = {1, 4}
  SchedStart = 1
  Minute = 2
  Resolution = 2
  Window = 6
  MaxRecs = 4
  QueueLimit = 2
  MaxStarts = 0
INVARIANTS
  TypeOK
  TableIsPlan
  ReservationsDisjoint
  NobodyDelayed
PROPERTIES
  PassEnds
