SPECIFICATION FairSpec
CONSTANTS
  MaxOsd = 2
  Rpcs = {r1, r2}
  MaxThreads = 5
  Nobody = Nobody
  MaxCalls = 2
  MaxSets = 1
INVARIANTS
  TypeOK
  OsdSafe
  DeinitLeavesNothing
PROPERTY OsdCallReturns
CHECK_DEADLOCK FALSE
