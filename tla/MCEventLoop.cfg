SPECIFICATION FairSpec
CONSTANTS
  Caller = {a, b}
  MaxPeers = 2
  MaxCalls = 2
INVARIANTS
  PostedAreRun
PROPERTIES
  CallsReturn
  DropReturns
CHECK_DEADLOCK FALSE
