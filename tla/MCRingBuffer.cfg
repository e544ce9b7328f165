\* Four bytes of buffer, transfers of up to the whole buffer: every position of head
\* and tail, split copies on both ends, full and empty with head = tail.
CONSTANTS
    Size = 4
    Byte = {0, 1, 2}
    Poison = 0
    MaxLen = 4
SPECIFICATION RBSpec
INVARIANTS RBTypeOK FreeIsPoisoned NeverAborts
PROPERTY ImplementsFifo
