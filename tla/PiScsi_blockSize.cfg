CONSTANTS
    Tasks = {"a", "b"}
    Requests <- MCRequests
    Units = {0, 1}
    BlockSize <- MCBlockSize
    ImageSize <- MCImageSize
    WORD = 16
    SECTOR = 2
SPECIFICATION Spec
INVARIANT ScsiMovesBlocks
