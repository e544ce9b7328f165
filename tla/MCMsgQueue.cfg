\* Readers and writers of messages of one and two bytes, in four bytes of ring buffer.
CONSTANTS
    None = None
    t1 = t1
    t2 = t2
    t3 = t3
    q1 = q1
    s1 = s1
    s2 = s2
    s3 = s3
    Threads = {t1, t2, t3}
    Queues = {q1}
    Slots = {s1, s2, s3}
    SlotOwner <- Owner
    SizeT = 1
    SizeMod = 16
    CreateCalls <- Creates
    OpenCalls <- Opens
    CloseCalls <- All
    ReadCalls <- Reads
    WriteCalls <- Writes
    UninitEvents <- NoEvents
    GarbageSizes = {}
    MaxWrites = 3
    Spurious = TRUE
SPECIFICATION Spec
INVARIANTS TypeOK LockDiscipline HandleCounts NoUseAfterFree WholeMessages NoStrandedReader NoMutualWait
PROPERTY ImplementsChannel
