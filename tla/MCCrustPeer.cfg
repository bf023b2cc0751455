SPECIFICATION Spec
CONSTANTS
  Peer = {p, q}
  MaxUps = 3
  MaxInfos = 2
  MaxEvents = 2
SYMMETRY Symmetry
INVARIANTS
  TablePanicsNever
  NodesFollowEvents
CHECK_DEADLOCK FALSE
