CONSTANTS
    MapSize = 5
    DiskSize = 6
    TableSize = 3
    ClusterSize = 2
    RootName = root
    Names = {root, a}
    NoExt = noext
    Exts = {noext, x}
    NoName = noname
    Noise = noise
    Payloads = {p1}
    NoData = nodata
    Sizes = {0, 2, 3}
    MaxOutages = 1

SPECIFICATION Spec
INVARIANTS TypeOK CacheCoherent ReservedKept ChainsDisjoint CommittedIntact Readable NamesUnique
CHECK_DEADLOCK FALSE
