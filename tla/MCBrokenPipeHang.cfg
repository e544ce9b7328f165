\* A writer asleep when the last reader goes.
CONSTANTS
    None = None
    t1 = t1
    t2 = t2
    t3 = t3
    q1 = q1
    s1 = s1
    s2 = s2
    s3 = s3
    Threads = {t1, t2, t3}
    Queues = {q1}
    Slots = {s1, s2, s3}
    SlotOwner <- Owner
    SizeT = 1
    SizeMod = 16
    CreateCalls <- ReaderCreate
    OpenCalls <- WriterOpens
    CloseCalls <- All
    ReadCalls <- BodyReads
    WriteCalls <- BodyWrites
    UninitEvents <- NoEvents
    GarbageSizes = {}
    MaxWrites = 2
    Spurious = FALSE
SPECIFICATION FairSpec
PROPERTY WritesEndAfterClose
