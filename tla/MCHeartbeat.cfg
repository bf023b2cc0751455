SPECIFICATION Spec
CONSTANTS
  INACTIVITY_TIMEOUT = 7
  HEARTBEAT_PERIOD = 2
  Latency = 2
  MaxInFlight = 1
INVARIANTS
  NoFalseInactivity
  DeathIsNoticed
