CONSTANTS
    Requests = {2, 3}
    MaxQueued = 2
    Pause = TRUE
    CanReset = TRUE
SPECIFICATION FairSpec
INVARIANTS TypeOK LevelMatches
PROPERTIES KeysGetThrough
