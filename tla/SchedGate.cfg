SPECIFICATION GateFairSpec
CONSTANTS
  Callers = {handler}
  Agent = agent
  MinInterval = 2
  TicksPerSec = 2
  MicroWrap = 1000
  MaxCalls = 4
  MaxSec = 4
  Room = 2
INVARIANTS
  GateTypeOK
  RequestRemembered
PROPERTIES
  DeferredRuns
