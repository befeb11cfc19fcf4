CONSTANTS
    N = 4
    Sizes = {2}
    Header = 2
    MaxRequests = 1
    MaxPending = 1
    IrqCap = 1
    CanReset = FALSE
SPECIFICATION FairSpec
PROPERTIES R2AIsReceived A2RIsReceived
CHECK_DEADLOCK FALSE
