CONSTANTS
    Cells = 4
    Limit = 3
    MaxKeys = 5
SPECIFICATION Spec
INVARIANTS TypeOK CountNeverWraps KeysInOrder CountIsContents
CHECK_DEADLOCK FALSE
