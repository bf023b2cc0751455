SPECIFICATION FairSpec
CONSTANTS
  MaxStarts = 2
  MaxPosted = 2
  MaxGateways = 2
  MaxStuns = 1
  MaxBacklog = 2
INVARIANTS
  IgdCounted
  OneOutcomePerStart
PROPERTIES
  StartAnswered
  BacklogServed
CHECK_DEADLOCK FALSE
