CONSTANTS
    NBLOCKS = 6
    NDIRECT = 1
    BLKFILES = 2
    Name <- TwoNames
    Vals = {0, 5}
    MaxBlocks = 2
    Formatted = {0, 1}
    Misuse = {"dirty_meta"}
    Hole = Hole
    NoFile = NoFile
SPECIFICATION Spec
CHECK_DEADLOCK FALSE
INVARIANT BlockOwned
