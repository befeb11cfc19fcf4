CONSTANTS
    MaxConns = 2
    Sockets = {s1, s2}
    A2RCap = 1
    R2ACap = 1
    MaxData = 1
    LaterData = 0
    OnDemand = TRUE
    MaxSessions = 1
SYMMETRY SocketNumbers
SPECIFICATION Spec
INVARIANTS TypeOK SendQueueSound PiQueueSound ResponseExpected ConnectFindsNoChannel PiLearnsOfClose DriverLearnsOfClose
PROPERTIES StreamToClient StreamToApp ChannelsTakeTurns SocketsTakeTurns
CHECK_DEADLOCK FALSE
