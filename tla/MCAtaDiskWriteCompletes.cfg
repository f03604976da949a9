CONSTANTS
    NumBlocks = 30
    Words = 2
    ClusterBlocks = 2
    Byte = 3
    Nibble = 2
    UsedClusters = {0, 5, 14}
    Data = {"a", "b"}

SPECIFICATION Spec
INVARIANT WriteCompletes
CHECK_DEADLOCK FALSE
