SPECIFICATION FairSpec
CONSTANTS
  Anyone = Anyone
  p = p
  q = q
  Peer = {p, q}
  NodeLists <- Nodes
  ClientLists <- Clients
  MaxEdits = 2
INVARIANTS
  UnlistedWillBePurged
PROPERTY
  EditsTakeEffect
