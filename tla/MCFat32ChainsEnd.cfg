CONSTANTS
    MapSize = 5
    DiskSize = 6
    TableSize = 3
    ClusterSize = 2
    RootName = root
    Names = {root, a}
    NoExt = noext
    Exts = {noext, x}
    NoName = noname
    Noise = noise
    Payloads = {p1}
    NoData = nodata
    Sizes = {0, 2, 3}
    MaxOutages = 0

SPECIFICATION Spec
INVARIANT ChainsEnd
CHECK_DEADLOCK FALSE
