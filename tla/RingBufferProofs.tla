-------------------------- MODULE RingBufferProofs --------------------------
(***************************************************************************)
(* For every size of the buffer, every set of byte values and every length *)
(* of transfer: the indices stay inside the array, the bytes that are not  *)
(* in use are poisoned, and the assert of check_free never fails.          *)
(***************************************************************************)
EXTENDS RingBuffer, SequenceTheorems, TLAPS

(* The inductive invariant.  FreeIsPoisoned is what lets check_free pass,  *)
(* and the types are what makes the index arithmetic meaningful.           *)
RBInv == RBTypeOK /\ FreeIsPoisoned /\ NeverAborts

(* A chunk is a sequence of bytes of a length between 1 and MaxLen.        *)
LEMMA ChunkType == ASSUME NEW data \in Chunks
                   PROVE  /\ Len(data) \in 1..MaxLen
                          /\ \A k \in 1..Len(data) : data[k] \in Byte
  <1>1. PICK n \in 1..MaxLen : data \in [1..n -> Byte]
    BY DEF Chunks
  <1>2. n \in Nat
    BY <1>1, MaxLenAssumption
  <1>3. data \in Seq(Byte) /\ Len(data) = n
    BY <1>1, <1>2
  <1> QED BY <1>1, <1>3

(* Advance stays inside the array for transfers no longer than the array.  *)
LEMMA AdvanceInIndex == ASSUME NEW p \in Index, NEW n \in 0..Size
                        PROVE  Advance(p, n) \in Index
  BY SizeAssumption DEF Index, Advance

(* Used lies between 0 and Size.                                           *)
LEMMA UsedBound == RBTypeOK => Used \in 0..Size /\ Free \in 0..Size
  BY SizeAssumption DEF RBTypeOK, Index, Used, Free

(* Removing n <= Used bytes keeps the invariant: what it frees is poisoned *)
(* and nothing else stops being in use.                                    *)
LEMMA TakeInv == ASSUME RBInv, NEW n \in Nat \ {0}, n <= Used, Take(n), UNCHANGED <<tail, aborted>>
                 PROVE  RBInv'
  <1> USE SizeAssumption, ByteAssumption DEF RBInv, RBTypeOK, Index, Used
  <1>1. n \in 0..Size
    BY UsedBound
  <1>2. head' \in Index /\ head' = Advance(head, n) /\ full' = FALSE
    BY <1>1, AdvanceInIndex DEF Take
  <1>3. buffer' \in [Index -> Byte]
    BY DEF Take
  <1>4. RBTypeOK'
    BY <1>2, <1>3
  <1>5. ASSUME NEW i \in Index, ~InUse(i)' PROVE buffer'[i] = Poison
    <2>1. buffer'[i] = IF Spans(head, n, i) THEN Poison ELSE buffer[i]
      BY DEF Take
    <2>2. CASE Spans(head, n, i)
      BY <2>1, <2>2
    <2>3. CASE ~Spans(head, n, i)
      <3>1. ~InUse(i)
        BY <1>2, <1>5, <2>3 DEF InUse, Spans, Advance, FreeIsPoisoned
      <3> QED BY <2>1, <2>3, <3>1 DEF FreeIsPoisoned
    <2> QED BY <2>2, <2>3
  <1> QED BY <1>2, <1>4, <1>5 DEF FreeIsPoisoned, NeverAborts

(* A write that fits lands on bytes that are not in use, hence poisoned.   *)
LEMMA FitsIsFree == ASSUME RBInv, NEW n \in Nat \ {0}, n <= Free
                    PROVE  CheckFree(n)
  <1> SUFFICES ASSUME NEW i \in Index, Spans(tail, n, i) PROVE ~InUse(i)
    BY DEF CheckFree, RBInv, FreeIsPoisoned
  <1> QED BY SizeAssumption DEF RBInv, RBTypeOK, FreeIsPoisoned, Index, Used, Free, Spans, InUse

(* Storing n <= Free bytes keeps the invariant.                            *)
LEMMA StoreInv == ASSUME RBInv, NEW data \in Chunks, Len(data) <= Free, Store(data),
                         UNCHANGED <<head, aborted>>
                  PROVE  RBInv'
  <1> USE SizeAssumption DEF RBInv, RBTypeOK, Index
  <1> DEFINE n == Len(data)
  <1>1. n \in Nat \ {0} /\ n \in 0..Size /\ \A k \in 1..n : data[k] \in Byte
    BY ChunkType, UsedBound, MaxLenAssumption
  <1> HIDE DEF n
  <1>2. tail' = Advance(tail, n) /\ tail' \in Index
    BY <1>1, AdvanceInIndex DEF Store, n
  <1>3. full' = IF head = Advance(tail, n) THEN TRUE ELSE full
    BY DEF Store, n
  <1>4. ASSUME NEW i \in Index, Spans(tail, n, i) PROVE Offset(tail, i) + 1 \in 1..n
    BY <1>1, <1>4 DEF Spans, Offset
  <1>5. \A i \in Index : buffer'[i] = IF Spans(tail, n, i) THEN data[Offset(tail, i) + 1] ELSE buffer[i]
    BY DEF Store, n
  <1>6. buffer' \in [Index -> Byte]
    <2>1. \A i \in Index : buffer'[i] \in Byte
      BY <1>1, <1>4, <1>5
    <2> QED BY <2>1 DEF Store
  <1>7. ASSUME NEW i \in Index, ~InUse(i)' PROVE buffer'[i] = Poison
    <2>1. ~InUse(i) /\ ~Spans(tail, n, i)
      BY <1>1, <1>2, <1>3, <1>7 DEF InUse, Spans, Advance, Free, Used, FreeIsPoisoned, n
    <2> QED BY <1>5, <2>1 DEF FreeIsPoisoned
  <1>8. full' => head' = tail'
    BY <1>1, <1>2, <1>3 DEF Free, Used, n, FreeIsPoisoned
  <1> QED BY <1>2, <1>3, <1>6, <1>7, <1>8 DEF FreeIsPoisoned, NeverAborts

(* Every step of ring_buffer.c keeps the invariant.                        *)
LEMMA RBInvStep == RBInv /\ [RBNext]_rbVars => RBInv'
  <1> SUFFICES ASSUME RBInv, [RBNext]_rbVars PROVE RBInv'
    OBVIOUS
  <1>1. ASSUME NEW n \in 1..MaxLen, RBRead(n) PROVE RBInv'
    <2>1. CASE n > Used
      BY <1>1, <2>1 DEF RBRead, RBInv, RBTypeOK, FreeIsPoisoned, InUse, NeverAborts
    <2>2. CASE ~(n > Used)
      <3>1. n \in Nat \ {0} /\ n <= Used
        BY <2>2, MaxLenAssumption, UsedBound DEF RBInv
      <3> QED BY <1>1, <2>2, <3>1, TakeInv DEF RBRead
    <2> QED BY <2>1, <2>2
  <1>2. ASSUME NEW n \in 1..MaxLen, RBPeek(n) PROVE RBInv'
    BY <1>2 DEF RBPeek, RBInv, RBTypeOK, FreeIsPoisoned, InUse, NeverAborts
  <1>3. ASSUME NEW data \in Chunks, RBWrite(data) PROVE RBInv'
    <2>1. CASE Len(data) > Free
      BY <1>3, <2>1 DEF RBWrite, RBInv, RBTypeOK, FreeIsPoisoned, InUse, NeverAborts
    <2>2. CASE ~(Len(data) > Free)
      <3>1. Len(data) \in Nat \ {0} /\ Len(data) <= Free
        BY <2>2, ChunkType, MaxLenAssumption, UsedBound DEF RBInv
      <3>2. CheckFree(Len(data))
        BY <3>1, FitsIsFree
      <3> QED BY <1>3, <2>2, <3>1, <3>2, StoreInv DEF RBWrite
    <2> QED BY <2>1, <2>2
  <1>4. CASE UNCHANGED rbVars
    BY <1>4 DEF rbVars, RBInv, RBTypeOK, FreeIsPoisoned, InUse, NeverAborts
  <1> QED BY <1>1, <1>2, <1>3, <1>4 DEF RBNext

(* The ring buffer keeps its types, its indices stay in the array, unused  *)
(* bytes stay poisoned and no assert of check_free fails, in every         *)
(* reachable state.                                                        *)
THEOREM RingBufferCorrect == RBSpec => [](RBTypeOK /\ FreeIsPoisoned /\ NeverAborts)
  <1>1. RBInit => RBInv
    <2> SUFFICES ASSUME RBInit PROVE RBInv
      OBVIOUS
    <2>1. head \in Index /\ tail \in Index /\ buffer \in [Index -> Byte]
      BY SizeAssumption, ByteAssumption DEF RBInit, Index
    <2>2. \A i \in Index : buffer[i] = Poison
      BY DEF RBInit
    <2>3. full = FALSE /\ aborted = FALSE
      BY DEF RBInit
    <2> QED BY <2>1, <2>2, <2>3 DEF RBInv, RBTypeOK, FreeIsPoisoned, NeverAborts
  <1> QED BY <1>1, RBInvStep, PTL DEF RBSpec, RBInv

-----------------------------------------------------------------------------
(* The refinement of ByteFifo.  Contents is a sequence of Used bytes, the  *)
(* k-th of which is k - 1 places after head.                               *)
ContentsListed ==
    /\ Contents \in Seq(Byte)
    /\ Len(Contents) = Used /\ Used \in 0..Size
    /\ \A k \in 1..Used : Contents[k] = buffer[Advance(head, k - 1)]

(* The types are enough for that, in a state and in its successor.         *)
LEMMA ContentsSeq == RBTypeOK => ContentsListed
  <1> SUFFICES ASSUME RBTypeOK PROVE ContentsListed
    OBVIOUS
  <1>1. Used \in 0..Size /\ Used \in Nat
    BY UsedBound, SizeAssumption
  <1>2. \A k \in 1..Used : buffer[Advance(head, k - 1)] \in Byte
    <2> SUFFICES ASSUME NEW k \in 1..Used PROVE Advance(head, k - 1) \in Index
      BY DEF RBTypeOK
    <2>1. k - 1 \in 0..Size
      BY <1>1, SizeAssumption
    <2> QED BY <2>1, AdvanceInIndex DEF RBTypeOK
  <1> DEFINE m == Used
  <1>3. m \in Nat /\ \A k \in 1..m : buffer[Advance(head, k - 1)] \in Byte
    BY <1>1, <1>2
  <1> HIDE DEF m
  <1>4. [k \in 1..m |-> buffer[Advance(head, k - 1)]] \in Seq(Byte)
    BY <1>3, IsASeq
  <1>5. Contents = [k \in 1..m |-> buffer[Advance(head, k - 1)]]
    BY DEF Contents, m
  <1>6. Contents \in [1..m -> Byte]
    BY <1>3, <1>5
  <1>7. Len(Contents) = m
    BY <1>3, <1>4, <1>5, <1>6
  <1> QED BY <1>1, <1>3, <1>4, <1>5, <1>7 DEF m, ContentsListed

(* Two transfers one after the other start where one transfer would.       *)
LEMMA AdvanceAdds ==
  ASSUME NEW p \in Index, NEW n \in 0..Size, NEW m \in 0..Size, n + m <= Size
  PROVE  Advance(Advance(p, n), m) = Advance(p, n + m)
  BY SizeAssumption DEF Index, Advance

(* Where a transfer of n bytes at p puts or takes its k-th byte, and where *)
(* it does not.                                                            *)
LEMMA SpansExactly ==
  ASSUME NEW p \in Index, NEW n \in 0..Size, NEW k \in 0..(Size - 1)
  PROVE  /\ Spans(p, n, Advance(p, k)) <=> k < n
         /\ Offset(p, Advance(p, k)) = k
  BY SizeAssumption DEF Index, Advance, Spans, Offset

(* What ring_buffer_read_common copies out is the front of the contents.   *)
LEMMA CopiedIsPrefix ==
  ASSUME RBTypeOK, NEW n \in Nat, n <= Used
  PROVE  Copied(n) = SubSeq(Contents, 1, n)
  <1>1. /\ Contents \in Seq(Byte) /\ Len(Contents) = Used /\ Used \in Nat
        /\ \A k \in 1..Used : Contents[k] = buffer[Advance(head, k - 1)]
    BY ContentsSeq, SizeAssumption DEF ContentsListed
  <1> DEFINE m == Used
  <1>2. m \in Nat /\ n <= m /\ \A k \in 1..m : Contents[k] = buffer[Advance(head, k - 1)]
    BY <1>1
  <1> HIDE DEF m
  <1>3. SubSeq(Contents, 1, n) = [k \in 1..n |-> Contents[k]]
    BY <1>1
  <1>4. \A k \in 1..n : Contents[k] = buffer[Advance(head, k - 1)]
    BY <1>2
  <1> QED BY <1>3, <1>4 DEF Copied

(* A read removes the front n bytes from the contents and no other.        *)
LEMMA TakeIsSuffix ==
  ASSUME RBInv, RBInv', NEW n \in Nat \ {0}, n <= Used, Take(n), UNCHANGED tail
  PROVE  Contents' = SubSeq(Contents, n + 1, Len(Contents))
  <1>1. /\ Contents \in Seq(Byte) /\ Len(Contents) = Used /\ Used \in 0..Size
        /\ \A k \in 1..Used : Contents[k] = buffer[Advance(head, k - 1)]
    BY ContentsSeq DEF RBInv, ContentsListed
  <1>2. /\ Contents' \in Seq(Byte) /\ Len(Contents') = Used'
        /\ \A k \in 1..Used' : Contents'[k] = buffer'[Advance(head', k - 1)]
    <2>1. RBTypeOK'
      BY DEF RBInv
    <2>2. ContentsListed'
      BY <2>1, ContentsSeq, PTL
    <2> QED BY <2>2 DEF ContentsListed
  <1>3. Used' = Used - n
    BY SizeAssumption DEF RBInv, RBTypeOK, FreeIsPoisoned, Index, Used, Take, Advance
  <1>4. n \in 0..Size /\ head \in Index /\ head' = Advance(head, n)
    BY <1>1, SizeAssumption DEF RBInv, RBTypeOK, Take
  <1>5. ASSUME NEW k \in 1..Used' PROVE Contents'[k] = Contents[n + k]
    <2>1. k - 1 \in 0..Size /\ n + (k - 1) \in 0..(Size - 1) /\ n + (k - 1) <= Size
          /\ n + k \in 1..Used /\ (n + k) - 1 = n + (k - 1)
      BY <1>1, <1>3, <1>4, <1>5, SizeAssumption
    <2>2. Advance(head', k - 1) = Advance(head, n + (k - 1))
      BY <1>4, <2>1, AdvanceAdds
    <2>3. Advance(head, n + (k - 1)) \in Index
      BY <1>4, <2>1, AdvanceInIndex, SizeAssumption
    <2>4. ~Spans(head, n, Advance(head, n + (k - 1)))
      BY <1>4, <2>1, SpansExactly
    <2>5. buffer'[Advance(head, n + (k - 1))] = buffer[Advance(head, n + (k - 1))]
      BY <2>3, <2>4 DEF Take
    <2> QED BY <1>1, <1>2, <1>5, <2>1, <2>2, <2>5
  <1> DEFINE c == Contents d == Contents' m == Used
  <1>6. /\ c \in Seq(Byte) /\ d \in Seq(Byte) /\ m \in Nat /\ n <= m
        /\ Len(c) = m /\ Len(d) = m - n /\ \A k \in 1..(m - n) : d[k] = c[n + k]
    BY <1>1, <1>2, <1>3, <1>5, SizeAssumption
  <1> HIDE DEF c, d, m
  <1>7. d = SubSeq(c, n + 1, Len(c))
    <2>1. \A k \in (n + 1)..m : c[k] \in Byte
      BY <1>6
    <2>2. /\ SubSeq(c, n + 1, m) \in Seq(Byte)
          /\ Len(SubSeq(c, n + 1, m)) = m - n
          /\ \A k \in 1..(m - n) : SubSeq(c, n + 1, m)[k] = c[n + k]
      BY <1>6, <2>1, SubSeqProperties
    <2> QED BY <1>6, <2>2, SeqEqual
  <1> QED BY <1>7 DEF c, d

(* A write appends its bytes to the contents.                              *)
LEMMA StoreIsAppend ==
  ASSUME RBInv, RBInv', NEW data \in Chunks, Len(data) <= Free, Store(data), UNCHANGED head
  PROVE  Contents' = Contents \o data
  <1> DEFINE n == Len(data) m == Used
  <1>1. n \in Nat \ {0} /\ data \in Seq(Byte)
    <2>1. PICK l \in 1..MaxLen : data \in [1..l -> Byte]
      BY DEF Chunks
    <2> QED BY <2>1, MaxLenAssumption
  <1>2. ContentsListed /\ ContentsListed'
    BY ContentsSeq, PTL DEF RBInv
  <1>3. m \in Nat /\ n + m <= Size /\ Len(Contents) = m /\ Contents \in Seq(Byte)
    BY <1>1, <1>2, SizeAssumption DEF Free, ContentsListed
  <1>4. Used' = m + n
    <2>1. /\ head \in Index /\ tail \in Index /\ full \in BOOLEAN /\ head' = head
          /\ full => head = tail
      BY DEF RBInv, RBTypeOK, FreeIsPoisoned
    <2>2. tail' = Advance(tail, n) /\ full' = IF head = Advance(tail, n) THEN TRUE ELSE full
      BY DEF Store
    <2>3. n \in Nat \ {0} /\ n <= Size - Used
      BY <1>1 DEF Free
    <2> HIDE DEF n
    <2>4. ~full
      BY <2>1, <2>3, SizeAssumption DEF Used
    <2>5. full' = (head = Advance(tail, n))
      BY <2>2, <2>4, <2>1
    <2> QED BY <2>1, <2>2, <2>3, <2>4, <2>5, SizeAssumption DEF Index, Used, Advance
  <1>5. tail = Advance(head, m)
    BY SizeAssumption, <1>1, <1>3 DEF RBInv, RBTypeOK, FreeIsPoisoned, Index, Used, Advance
  <1>6. head \in Index /\ tail \in Index
    BY DEF RBInv, RBTypeOK
  <1> HIDE DEF n, m
  <1>7. \A i \in Index : buffer'[i] = IF Spans(tail, n, i) THEN data[Offset(tail, i) + 1] ELSE buffer[i]
    BY DEF Store, n
  <1>8. ASSUME NEW k \in 1..m PROVE Contents'[k] = Contents[k]
    <2>1. k \in 1..Used' /\ k \in 1..Used /\ k - 1 \in 0..(Size - 1) /\ k - 1 \in 0..Size
      BY <1>1, <1>3, <1>4, <1>8, SizeAssumption DEF m, n
    <2>2. Advance(head, k - 1) \in Index
      BY <1>6, <2>1, AdvanceInIndex
    <2>3. ~Spans(tail, n, Advance(head, k - 1))
      BY <1>1, <1>3, <1>5, <1>6, <1>8, SizeAssumption DEF Spans, Advance, Index, n
    <2> QED BY <1>2, <1>7, <2>1, <2>2, <2>3 DEF ContentsListed
  <1>9. ASSUME NEW k \in 1..n PROVE Contents'[m + k] = data[k]
    <2>1. /\ m + k \in 1..Used' /\ (m + k) - 1 = m + (k - 1) /\ k - 1 \in 0..(Size - 1)
          /\ m \in 0..Size /\ n \in 0..Size /\ k - 1 \in 0..Size /\ m + (k - 1) <= Size
          /\ k - 1 < n /\ (k - 1) + 1 = k
      BY <1>1, <1>3, <1>4, <1>9, SizeAssumption DEF n
    <2>2. Advance(head, m + (k - 1)) = Advance(tail, k - 1)
      BY <1>5, <1>6, <2>1, AdvanceAdds
    <2>3. Advance(tail, k - 1) \in Index
      BY <1>6, <2>1, AdvanceInIndex
    <2>4. Spans(tail, n, Advance(tail, k - 1)) /\ Offset(tail, Advance(tail, k - 1)) = k - 1
      BY <1>6, <2>1, SpansExactly
    <2>5. Contents'[m + k] = buffer'[Advance(head, m + (k - 1))]
      BY <1>2, <2>1 DEF ContentsListed
    <2> QED BY <1>7, <2>1, <2>2, <2>3, <2>4, <2>5
  <1> DEFINE c == Contents d == Contents'
  <1>10. /\ c \in Seq(Byte) /\ Len(c) = m /\ Len(data) = n /\ n \in Nat
         /\ d \in Seq(Byte) /\ Len(d) = m + n
         /\ \A k \in 1..m : d[k] = c[k]
         /\ \A k \in 1..n : d[m + k] = data[k]
    BY <1>1, <1>2, <1>3, <1>4, <1>8, <1>9 DEF ContentsListed, n
  <1> HIDE DEF c, d
  <1>11. d = c \o data
    <2>1. /\ c \o data \in Seq(Byte) /\ Len(c \o data) = m + n
          /\ \A k \in 1..(m + n) : (c \o data)[k] = IF k <= m THEN c[k] ELSE data[k - m]
      BY <1>1, <1>10, ConcatProperties
    <2>2. ASSUME NEW k \in 1..(m + n) PROVE d[k] = (c \o data)[k]
      <3>1. CASE k <= m
        BY <1>3, <1>10, <2>1, <2>2, <3>1
      <3>2. CASE k > m
        <4>1. k - m \in 1..n /\ m + (k - m) = k /\ ~(k <= m)
          BY <1>3, <1>10, <2>2, <3>2
        <4>2. d[m + (k - m)] = data[k - m]
          BY <1>10, <4>1
        <4> QED BY <2>1, <2>2, <4>1, <4>2
      <3> QED BY <1>3, <1>10, <2>2, <3>1, <3>2
    <2> QED BY <1>10, <2>1, <2>2, SeqEqual
  <1> QED BY <1>11 DEF c, d

(* Every step of the ring buffer is a step of the FIFO or leaves it alone. *)
LEMMA FifoStep == RBInv /\ RBInv' /\ [RBNext]_rbVars => [Fifo!FifoNext]_(Fifo!fifoVars)
  <1> SUFFICES ASSUME RBInv, RBInv', [RBNext]_rbVars
               PROVE  [Fifo!FifoNext]_(Fifo!fifoVars)
    OBVIOUS
  <1>1. /\ Len(Contents) = Used /\ Used \in Nat /\ Free = Size - Used /\ Size \in Nat
    BY ContentsSeq, SizeAssumption DEF RBInv, ContentsListed, Free
  <1>2. ASSUME UNCHANGED <<buffer, head, tail, full>> PROVE Contents' = Contents
    BY <1>2 DEF Contents, Used, Advance
  <1>3. ASSUME NEW n \in 1..MaxLen, RBRead(n) PROVE Fifo!FifoTransfer(n, TRUE)
    <2>1. n \in Nat \ {0}
      BY MaxLenAssumption
    <2>2. CASE n > Used
      <3>1. ~(n <= Len(Contents)) /\ Contents' = Contents /\ out' = Failed
        BY <1>1, <1>2, <1>3, <2>1, <2>2 DEF RBRead
      <3> QED BY <3>1 DEF Fifo!FifoTransfer, Fifo!Failed, Failed
    <2>3. CASE ~(n > Used)
      <3>1. n <= Used /\ n <= Len(Contents) /\ Take(n) /\ UNCHANGED tail
            /\ out' = [ok |-> TRUE, data |-> Copied(n)]
        BY <1>1, <1>3, <2>1, <2>3 DEF RBRead
      <3>2. Copied(n) = SubSeq(Contents, 1, n)
        BY <2>1, <3>1, CopiedIsPrefix DEF RBInv
      <3>3. Contents' = SubSeq(Contents, n + 1, Len(Contents))
        BY <2>1, <3>1, TakeIsSuffix
      <3> QED BY <3>1, <3>2, <3>3 DEF Fifo!FifoTransfer
    <2> QED BY <2>2, <2>3
  <1>4. ASSUME NEW n \in 1..MaxLen, RBPeek(n) PROVE Fifo!FifoTransfer(n, FALSE)
    <2>1. n \in Nat /\ Contents' = Contents
      BY <1>2, <1>4, MaxLenAssumption DEF RBPeek
    <2>2. CASE n > Used
      <3>1. ~(n <= Len(Contents)) /\ out' = Failed
        BY <1>1, <1>4, <2>1, <2>2 DEF RBPeek
      <3> QED BY <2>1, <3>1 DEF Fifo!FifoTransfer, Fifo!Failed, Failed
    <2>3. CASE ~(n > Used)
      <3>1. n <= Used /\ n <= Len(Contents) /\ out' = [ok |-> TRUE, data |-> Copied(n)]
        BY <1>1, <1>4, <2>1, <2>3 DEF RBPeek
      <3>2. Copied(n) = SubSeq(Contents, 1, n)
        BY <2>1, <3>1, CopiedIsPrefix DEF RBInv
      <3> QED BY <2>1, <3>1, <3>2 DEF Fifo!FifoTransfer
    <2> QED BY <2>2, <2>3
  <1>5. ASSUME NEW data \in Chunks, RBWrite(data) PROVE Fifo!FifoWrite(data)
    <2>1. Len(data) \in Nat \ {0}
      BY ChunkType, MaxLenAssumption
    <2>2. CASE Len(data) > Free
      <3>1. ~(Len(Contents) + Len(data) <= Size)
        BY <1>1, <2>1, <2>2
      <3>2. Contents' = Contents /\ out' = Failed
        BY <1>2, <1>5, <2>2 DEF RBWrite
      <3> QED BY <3>1, <3>2 DEF Fifo!FifoWrite, Fifo!Failed, Failed
    <2>3. CASE ~(Len(data) > Free)
      <3>1. Len(data) <= Free /\ Len(Contents) + Len(data) <= Size
        BY <1>1, <2>1, <2>3
      <3>2. CheckFree(Len(data))
        BY <2>1, <3>1, FitsIsFree
      <3>3. Store(data) /\ UNCHANGED head /\ out' = [ok |-> TRUE, data |-> <<>>]
        BY <1>5, <2>3, <3>2 DEF RBWrite
      <3>4. Contents' = Contents \o data
        BY <3>1, <3>3, StoreIsAppend
      <3> QED BY <3>1, <3>3, <3>4 DEF Fifo!FifoWrite
    <2> QED BY <2>2, <2>3
  <1>6. CASE UNCHANGED rbVars
    <2>1. Contents' = Contents /\ out' = out
      BY <1>2, <1>6 DEF rbVars
    <2> QED BY <2>1 DEF Fifo!fifoVars
  <1>7. CASE RBNext
    <2>1. CASE \E n \in 1..MaxLen : RBRead(n)
      BY <1>3, <2>1 DEF Fifo!FifoNext
    <2>2. CASE \E n \in 1..MaxLen : RBPeek(n)
      BY <1>4, <2>2 DEF Fifo!FifoNext
    <2>3. CASE \E data \in Chunks : RBWrite(data)
      <3>1. Fifo!Chunks = Chunks
        BY DEF Fifo!Chunks, Chunks
      <3> QED BY <1>5, <2>3, <3>1 DEF Fifo!FifoNext
    <2> QED BY <1>7, <2>1, <2>2, <2>3 DEF RBNext
  <1> QED BY <1>6, <1>7

(* The ring buffer implements the bounded byte FIFO that ring_buffer.h     *)
(* promises, whatever the size of the buffer and wherever the two parts of *)
(* a transfer meet: reads and peeks return the oldest bytes in the order   *)
(* of the writes, reads remove exactly those, and a call that does not fit *)
(* changes nothing.                                                        *)
THEOREM RingBufferRefinesFifo == RBSpec => ImplementsFifo
  <1>1. RBInit => Fifo!FifoInit
    <2> SUFFICES ASSUME RBInit PROVE Fifo!FifoInit
      OBVIOUS
    <2>1. Used = 0
      BY DEF RBInit, Used
    <2>2. Contents = <<>>
      BY <2>1 DEF Contents
    <2> QED BY <2>2 DEF Fifo!FifoInit, RBInit, Fifo!Failed, Failed
  <1>2. RBSpec => []RBInv
    BY RingBufferCorrect DEF RBInv
  <1>3. RBInv /\ RBInv' /\ [RBNext]_rbVars => [Fifo!FifoNext]_(Fifo!fifoVars)
    BY FifoStep
  <1> QED BY <1>1, <1>2, <1>3, PTL DEF RBSpec, ImplementsFifo, Fifo!FifoSpec

=============================================================================
