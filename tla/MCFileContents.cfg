\* A file in the root written in two calls, a file below truncated and removed.
CONSTANTS
    Names = {"a", "b"}
    Data = {"x"}
    ImageSizes = {18}
    NInodes = 7
    EntriesPerBlock = 5
    InodesPerBlock = 8
    BitsPerByte = 8
    BitsPerWord = 8
    OldNames = {""}
    CountMod = 16
    MkdirPaths <- InRoot
    CreatePaths <- Creates
    RmdirPaths = {}
    UnlinkPaths <- InDirectory
    WriteCalls <- Appends
    TruncateCalls <- Truncates
    MaxAfter = 3
SPECIFICATION AllSpec
INVARIANT FilesKeepContents
CHECK_DEADLOCK FALSE
