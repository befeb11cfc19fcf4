CONSTANTS
    MaxConns = 2
    Sockets = {1, 2}
    A2RCap = 1
    R2ACap = 1
    MaxData = 0
    LaterData = 0
    OnDemand = FALSE
    MaxSessions = 1
SPECIFICATION FairSpec
PROPERTIES SocketsGetTheirTurn ChannelsEnd
CHECK_DEADLOCK FALSE
