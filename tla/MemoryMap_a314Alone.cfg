CONSTANTS
    MaxRanges = 7
    Items <- MCItems
    FileAddress <- MCFileAddress
    Roms = {"kickstart"}
    Zorro2 <- AloneZ2
    Zorro3 <- MCZ3
    AC_Z2_BASE = 10
    PISCSI_OFFSET = 48
    Assignments <- AloneAssignments
    Physical = 0
    MaxLoads = 1
SPECIFICATION Spec
INVARIANT IoBoardsReached
