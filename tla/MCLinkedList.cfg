\* Three entries: insertion and deletion at either end and in the middle; a crash stops all.
CONSTANTS
    None = None
    HeadEntry = HeadEntry
    t1 = t1
    t2 = t2
    t3 = t3
    e1 = e1
    e2 = e2
    e3 = e3
    Threads = {t1, t2, t3}
    Entries = {e1, e2, e3}
    EntryOwner <- Owners
    Careless = {t3}
SPECIFICATION ListSpec
INVARIANTS ListTypeOK BothWays ValidatorExact IterationSound
PROPERTY ImplementsSequence
CHECK_DEADLOCK FALSE
