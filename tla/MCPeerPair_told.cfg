SPECIFICATION Spec
CONSTANTS
    MaxToken = 5
    UsizeMax = 15
    MaxCalls = 1
    Sockets = {1}
    MaxLinks = 2
    Disconnects = TRUE
    Timeouts = FALSE
INVARIANT ConnectedIsTold
CHECK_DEADLOCK FALSE
