SPECIFICATION FairSpec
CONSTANTS
  Peer = {p, q}
  Observer = {a, b}
  BroadcastPort = 65534
  MaxPort = 65535
  BusyPorts = {65534, 65535}
  MaxInbox = 2
  MaxRequests = 2
  MaxOther = 1
INVARIANTS
  RepliesInOrder
  ReplyIsScheduled
PROPERTY
  RequestAnswered
