CONSTANTS
    MapSize = 6
    DiskSize = 7
    TableSize = 3
    ClusterSize = 2
    RootName = root
    Names = {root, a}
    NoExt = noext
    Exts = {noext}
    NoName = noname
    Noise = noise
    Payloads = {"x", "y"}
    NoData = nodata
    Sizes = {0, 3, 5}
    MaxOutages = 1

SPECIFICATION InserterSpec
INVARIANTS KeepsSaved ChainsDisjoint CommittedIntact
