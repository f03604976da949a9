CONSTANTS
    MapSize = 5
    DiskSize = 6
    TableSize = 3
    ClusterSize = 2
    RootName = root
    Names = {root, a}
    NoExt = noext
    Exts = {noext}
    NoName = noname
    Noise = noise
    Payloads = {"x"}
    NoData = nodata
    Sizes = {0, 3}
    MaxOutages = 0
    MaxDeletes = 2
    DeleteSizes = {0, 8, 512}

SPECIFICATION DeleteSpec
INVARIANTS FreesItsOwn LeavesOthersIntact
PROPERTY TakesOneEntry
CHECK_DEADLOCK FALSE
