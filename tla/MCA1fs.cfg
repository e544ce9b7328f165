\* An image too small, one with a single data block, and one with five.
CONSTANTS
    Names = {"a", "b"}
    Data = {"x"}
    ImageSizes = {10, 13, 17}
    NInodes = 7
    EntriesPerBlock = 5
    InodesPerBlock = 8
    BitsPerByte = 8
    BitsPerWord = 8
    OldNames = {"", "b"}
    CountMod = 10
    MkdirPaths <- Mkdirs
    CreatePaths <- Creates
    RmdirPaths <- Mkdirs
    UnlinkPaths <- InRoot
    WriteCalls <- Writes
    TruncateCalls = {}
    MaxAfter = 2
SPECIFICATION FilesSpec
INVARIANTS TypeOK TreeSound BlocksSound LinksTellEmptiness NoOvercommit FirstWritesKept DirectoriesKept ListingMatchesLookup
PROPERTY ImplementsTree
CHECK_DEADLOCK FALSE
