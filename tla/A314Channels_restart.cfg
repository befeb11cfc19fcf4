CONSTANTS
    MaxConns = 1
    Sockets = {1}
    A2RCap = 1
    R2ACap = 1
    MaxData = 1
    LaterData = 0
    OnDemand = TRUE
    MaxSessions = 2
SPECIFICATION Spec
INVARIANT PiQueueSound
CHECK_DEADLOCK FALSE
