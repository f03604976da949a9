CONSTANTS
    MapSize = 5
    DiskSize = 6
    TableSize = 3
    ClusterSize = 2
    RootName = root
    Names = {root, a}
    NoExt = noext
    Exts = {noext}
    NoName = noname
    Noise = noise
    Payloads = {p1}
    NoData = nodata
    Sizes = {0, 3}
    MaxOutages = 1

SPECIFICATION Spec
PROPERTIES OnlyFreeSpaceChanges ImplementsFileStore CallsReturn
CHECK_DEADLOCK FALSE
