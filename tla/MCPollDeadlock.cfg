\* A poll of two entries against reads and writes.
CONSTANTS
    None = None
    t1 = t1
    t2 = t2
    t3 = t3
    q1 = q1
    s1 = s1
    s2 = s2
    s3 = s3
    Threads = {t1, t2, t3}
    Queues = {q1}
    Slots = {s1, s2, s3}
    SlotOwner <- Owner
    SizeT = 1
    SizeMod = 16
    CreateCalls <- Creates
    OpenCalls <- Opens
    CloseCalls = {}
    ReadCalls <- Reads
    WriteCalls <- Writes
    PollCalls <- TwicePolls
    UninitEvents <- NoEvents
    GarbageSizes = {}
    MaxWrites = 1
    Spurious = FALSE
SPECIFICATION PollFairSpec
PROPERTY NonblockReadsEnd
CHECK_DEADLOCK FALSE
