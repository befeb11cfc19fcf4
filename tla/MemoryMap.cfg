CONSTANTS
    MaxRanges = 3
    Items <- MCItems
    FileAddress <- MCFileAddress
    Roms = {"kickstart"}
    Zorro2 <- MCZ2
    Zorro3 <- MCZ3
    AC_Z2_BASE = 10
    PISCSI_OFFSET = 48
    Assignments <- MCAssignments
    Physical = 1
    MaxLoads = 2
SPECIFICATION FairSpec
INVARIANTS TypeOK ConfiguredRamWorks RangesOfTheirOwn IoBoardsReached WritesReachProbedBoard
PROPERTIES BootEnds
