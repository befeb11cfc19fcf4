CONSTANTS
    MaxConns = 1
    Sockets = {1}
    A2RCap = 2
    R2ACap = 2
    MaxData = 1
    LaterData = 0
    OnDemand = FALSE
    MaxSessions = 2
SPECIFICATION Spec
INVARIANT ConnectFindsNoChannel
CHECK_DEADLOCK FALSE
