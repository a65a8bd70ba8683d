SPECIFICATION FairSpec
CONSTANTS
  MaxRestarts = 1
  MaxEvents = 0
  MaxCalls = 1
INVARIANTS
  StopStaysStopped
