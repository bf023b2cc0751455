SPECIFICATION FairSpec
CONSTANTS
    MaxToken = 6
    UsizeMax = 15
    MaxCalls = 2
    Sockets = {1}
    MaxLinks = 2
    Disconnects = TRUE
    Timeouts = TRUE
PROPERTY PeersAgree
CHECK_DEADLOCK FALSE
