----------------------------- MODULE RingBuffer -----------------------------
(***************************************************************************)
(* The ring buffer of ring_buffer.c as its debug build runs it: an array   *)
(* of Size bytes, the read index head, the write index tail and the flag   *)
(* full that tells a full buffer from an empty one when head = tail.  Freed*)
(* bytes are poisoned by mark_free and every write first asserts, through  *)
(* check_free, that it lands on poisoned bytes only.                       *)
(***************************************************************************)
EXTENDS Integers, Sequences

CONSTANTS Size,    \* rb->size
          Byte,    \* the byte values
          Poison,  \* 0xDD, a byte value like any other
          MaxLen   \* longest single transfer considered

ASSUME SizeAssumption == Size \in Nat \ {0}
ASSUME ByteAssumption == Poison \in Byte
ASSUME MaxLenAssumption == MaxLen \in Nat

VARIABLES buffer, head, tail, full,
          aborted,  \* an assert() of check_free has failed
          out       \* result of the latest call, as in ByteFifo

rbVars == <<buffer, head, tail, full, aborted, out>>

Index == 0..(Size - 1)
Chunks == UNION {[1..n -> Byte] : n \in 1..MaxLen}
Failed == [ok |-> FALSE, data |-> <<>>]

(* ring_buffer_init *)
RBInit == /\ buffer = [i \in Index |-> Poison]
          /\ head = 0 /\ tail = 0 /\ full = FALSE
          /\ aborted = FALSE
          /\ out = Failed

(* __ring_buffer_used, __ring_buffer_free *)
Used == IF full THEN Size
        ELSE IF tail >= head THEN tail - head ELSE Size + tail - head
Free == Size - Used

(* A transfer of n bytes at index p runs to the end of the array and, when *)
(* it does not fit there, continues at 0 ("Copy split into two parts").    *)
Spans(p, n, i) == \/ p <= i /\ i < p + n
                  \/ p + n > Size /\ i < p + n - Size
(* Mutant: the "Filled right up to the end, wrap around" test is missing.  *)
MutantNoWrap(p, n) == IF p + n <= Size THEN p + n ELSE p + n - Size
Advance(p, n) == IF p + n < Size THEN p + n ELSE p + n - Size
Offset(p, i) == IF i >= p THEN i - p ELSE Size - p + i

(* ring_buffer_read_common with the n bytes it copies into the caller's    *)
(* buffer; ring_buffer_read removes them, ring_buffer_peek does not.       *)
Copied(n) == [k \in 1..n |-> buffer[Advance(head, k - 1)]]

(* Mutants: rb->full survives a read; the second part is not marked free.  *)
MutantKeepsFull(n) ==
    /\ buffer' = [i \in Index |-> IF Spans(head, n, i) THEN Poison ELSE buffer[i]]
    /\ head' = Advance(head, n)
    /\ full' = full
MutantHalfPoisoned(n) ==
    /\ buffer' = [i \in Index |-> IF head <= i /\ i < head + n THEN Poison ELSE buffer[i]]
    /\ head' = Advance(head, n)
    /\ full' = FALSE

Take(n) ==
    /\ buffer' = [i \in Index |-> IF Spans(head, n, i) THEN Poison ELSE buffer[i]]
    /\ head' = Advance(head, n)
    /\ full' = FALSE

RBRead(n) ==
    /\ ~aborted
    /\ IF n > Used
       THEN out' = Failed /\ UNCHANGED <<buffer, head, full>>
       ELSE out' = [ok |-> TRUE, data |-> Copied(n)] /\ Take(n)
    /\ UNCHANGED <<tail, aborted>>

RBPeek(n) ==
    /\ ~aborted
    /\ out' = IF n > Used THEN Failed ELSE [ok |-> TRUE, data |-> Copied(n)]
    /\ UNCHANGED <<buffer, head, tail, full, aborted>>

(* ring_buffer_write: check_free and memcpy, in one part or in two.        *)
CheckFree(n) == \A i \in Index : Spans(tail, n, i) => buffer[i] = Poison

Store(data) ==
    /\ buffer' = [i \in Index |-> IF Spans(tail, Len(data), i)
                                  THEN data[Offset(tail, i) + 1] ELSE buffer[i]]
    /\ tail' = Advance(tail, Len(data))
    /\ full' = IF head = Advance(tail, Len(data)) THEN TRUE ELSE full

RBWrite(data) ==
    /\ ~aborted
    /\ IF Len(data) > Free
       THEN out' = Failed /\ UNCHANGED <<buffer, tail, full, aborted>>
       ELSE IF CheckFree(Len(data))
       THEN /\ out' = [ok |-> TRUE, data |-> <<>>]
            /\ Store(data)
            /\ UNCHANGED aborted
       ELSE aborted' = TRUE /\ UNCHANGED <<buffer, tail, full, out>>
    /\ UNCHANGED head

RBNext == \/ \E n \in 1..MaxLen : RBRead(n)
          \/ \E n \in 1..MaxLen : RBPeek(n)
          \/ \E data \in Chunks : RBWrite(data)

RBSpec == RBInit /\ [][RBNext]_rbVars

-----------------------------------------------------------------------------
(* Type invariant: the indices never leave the array, whatever the wraps.  *)
RBTypeOK == /\ buffer \in [Index -> Byte]
            /\ head \in Index /\ tail \in Index
            /\ full \in BOOLEAN /\ aborted \in BOOLEAN

(* The bytes between head and tail, as __ring_buffer_used counts them.     *)
InUse(i) == \/ full
            \/ head <= tail /\ head <= i /\ i < tail
            \/ tail < head /\ (head <= i \/ i < tail)

(* Every byte outside the used range is poisoned and the full flag is only *)
(* set where it disambiguates: what mark_free, check_free and the comment  *)
(* "if head == tail, it must be full" rely on together.                    *)
FreeIsPoisoned == /\ full => head = tail
                  /\ \A i \in Index : ~InUse(i) => buffer[i] = Poison

(* No sequence of reads, peeks and writes makes check_free's assert fail:  *)
(* ring_buffer_write never lands on bytes still to be read.                *)
NeverAborts == ~aborted

(* The ring buffer implements the bounded byte FIFO.                       *)
Contents == [k \in 1..Used |-> buffer[Advance(head, k - 1)]]
Fifo == INSTANCE ByteFifo WITH contents <- Contents
ImplementsFifo == Fifo!FifoSpec

=============================================================================
