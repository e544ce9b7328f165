\* Ints of one byte after a size of two; at most four messages in all.
CONSTANTS
    None = None
    q1 = q1
    MainThread = MainThread
    ProducerThread = ProducerThread
    MainQueue = MainQueue
    ContextQueue = ContextQueue
    TheQueue = q1
    Threads = {MainThread, ProducerThread}
    Queues = {q1}
    Slots = {MainQueue, ContextQueue}
    SlotOwner <- Owner
    SizeT = 2
    SizeMod = 16
    IntSize = 1
    Capacities = {2, 3, 4, 7}
    Counts <- SomeCounts
    Numbers = {0, 1}
    CreateCalls <- Creates
    OpenCalls <- Opens
    CloseCalls = {MainQueue, ContextQueue}
    ReadCalls <- Reads
    WriteCalls <- Writes
    UninitEvents <- NoEvents
    GarbageSizes = {}
    MaxWrites = 5
    Spurious = TRUE
SPECIFICATION ProdConSpec
INVARIANTS AssertsHold NoBrokenPipe CleanExit
PROPERTY ProgramEnds
CHECK_DEADLOCK FALSE
