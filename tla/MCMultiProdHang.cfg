\* Two producers with one message each, without spurious wakeups.
CONSTANTS
    None = None
    p1 = p1
    p2 = p2
    q1 = q1
    q2 = q2
    m1 = m1
    m2 = m2
    c1 = c1
    c2 = c2
    w1 = w1
    w2 = w2
    MainThread = MainThread
    ConsumerThread = ConsumerThread
    ProducerThreads <- ProducerSeq
    QueueOf <- QueueSeq
    MainMq <- MainSeq
    ConsumerMq <- ConsumerSeq
    ProducerMq <- WriterSeq
    Threads = {MainThread, ConsumerThread, p1, p2}
    Queues = {q1, q2}
    Slots = {m1, m2, c1, c2, w1, w2}
    SlotOwner <- Owner
    SizeT = 1
    SizeMod = 16
    MessageSize = 1
    Arguments <- OneEach
    CreateCalls <- Creates
    OpenCalls <- Opens
    CloseCalls <- Closes
    ReadCalls <- Reads
    WriteCalls <- Writes
    PollCalls <- Polls
    UninitEvents <- NoEvents
    GarbageSizes = {}
    MaxWrites = 3
    Spurious = FALSE
SPECIFICATION MultiProdFairSpec
PROPERTY SentIsReceived
CHECK_DEADLOCK FALSE
