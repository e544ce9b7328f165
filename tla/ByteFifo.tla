------------------------------ MODULE ByteFifo ------------------------------
(***************************************************************************)
(* What ring_buffer.h promises: a bounded first-in first-out store of      *)
(* bytes.  An operation that does not fit (ring_buffer.h: "false if there  *)
(* was not enough data", "... not enough free space") reports failure and  *)
(* changes nothing.                                                        *)
(***************************************************************************)
EXTENDS Integers, Sequences

CONSTANTS Size,   \* capacity in bytes
          Byte,   \* the byte values
          MaxLen  \* longest single transfer considered

VARIABLES contents,  \* the stored bytes, oldest first
          out        \* result of the latest call: [ok |-> ..., data |-> ...]

fifoVars == <<contents, out>>

Chunks == UNION {[1..n -> Byte] : n \in 1..MaxLen}

Failed == [ok |-> FALSE, data |-> <<>>]

FifoInit == contents = <<>> /\ out = Failed

FifoWrite(data) ==
    IF Len(contents) + Len(data) <= Size
    THEN contents' = contents \o data /\ out' = [ok |-> TRUE, data |-> <<>>]
    ELSE out' = Failed /\ UNCHANGED contents

FifoTransfer(n, remove) ==
    IF n <= Len(contents)
    THEN /\ out' = [ok |-> TRUE, data |-> SubSeq(contents, 1, n)]
         /\ contents' = IF remove THEN SubSeq(contents, n + 1, Len(contents))
                                  ELSE contents
    ELSE out' = Failed /\ UNCHANGED contents

FifoNext == \/ \E data \in Chunks : FifoWrite(data)
            \/ \E n \in 1..MaxLen, remove \in BOOLEAN : FifoTransfer(n, remove)

FifoSpec == FifoInit /\ [][FifoNext]_fifoVars

=============================================================================
