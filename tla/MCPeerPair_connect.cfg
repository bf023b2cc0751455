SPECIFICATION FairSpec
CONSTANTS
    MaxToken = 5
    UsizeMax = 15
    MaxCalls = 1
    Sockets = {1, 2}
    MaxLinks = 3
    Disconnects = FALSE
    Timeouts = FALSE
INVARIANTS OneConnection SmallerFollows
PROPERTY PeersConnect
CHECK_DEADLOCK FALSE
