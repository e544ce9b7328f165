\* Polls by a reader and a writer, with one entry or two, while a third thread may steal messages.
CONSTANTS
    None = None
    t1 = t1
    t2 = t2
    t3 = t3
    q1 = q1
    s1 = s1
    s2 = s2
    s3 = s3
    Threads = {t1, t2, t3}
    Queues = {q1}
    Slots = {s1, s2, s3}
    SlotOwner <- Owner
    SizeT = 1
    SizeMod = 16
    CreateCalls <- Creates
    OpenCalls <- Opens
    CloseCalls <- WriterOnly
    ReadCalls <- Reads
    WriteCalls <- Writes
    PollCalls <- PollMenu
    UninitEvents <- SomeEvents
    GarbageSizes = {}
    MaxWrites = 2
    Spurious = TRUE
SPECIFICATION PollSpec
INVARIANTS PollNodesLive PolledQueuesLive PollerSeesMessages
CHECK_DEADLOCK FALSE
