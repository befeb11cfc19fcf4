CONSTANTS
    N = 4
    Sizes = {2}
    Header = 2
    MaxRequests = 1
    MaxPending = 1
    IrqCap = 2
    CanReset = TRUE
SPECIFICATION Spec
INVARIANTS TypeOK RingAccounting NeverSleepsDeaf QuietMeansDelivered
CHECK_DEADLOCK FALSE
