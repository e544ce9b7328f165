\* Reads on a queue without writers end, and so do polls of a queue with a message.
CONSTANTS
    None = None
    t1 = t1
    t2 = t2
    t3 = t3
    q1 = q1
    s1 = s1
    s2 = s2
    s3 = s3
    Threads = {t1, t2, t3}
    Queues = {q1}
    Slots = {s1, s2, s3}
    SlotOwner <- Owner
    SizeT = 1
    SizeMod = 16
    CreateCalls <- Creates
    OpenCalls <- LiveOpens
    CloseCalls <- WriterOnly
    ReadCalls <- Reads
    WriteCalls <- Writes
    PollCalls <- ReadablePolls
    UninitEvents <- NoEvents
    GarbageSizes = {}
    MaxWrites = 2
    Spurious = TRUE
SPECIFICATION PollFairSpec
PROPERTIES ReadsEndAfterClose PollsEndOnMessage
