SPECIFICATION FairSpec
CONSTANTS
  Priority = {1, 2, 3}
  BodySize = {2, 3}
  HeaderLen = 2
  MAX_PAYLOAD_SIZE = 2
  Window = 2
  MaxMsgs = 3
INVARIANTS
  StreamIntact
  ReaderFailsForCause
PROPERTIES
  ImplementsChannel
  UrgentDelivered
CHECK_DEADLOCK FALSE
