------------------------ MODULE MultiProdEventProofs ------------------------
(***************************************************************************)
(* What multiprod.c makes of the events of its polls, for any number of    *)
(* producers and messages: the event flags of a queue, which polls read    *)
(* without its mutex, tell the truth; what they have told the consumer     *)
(* stays true until it acts on it; no assert of the program fails, and the *)
(* consumer never sleeps in a read.                                        *)
(***************************************************************************)
EXTENDS MultiProdProofs

-----------------------------------------------------------------------------
(* The event flags, when the memory of a new queue raises none that a      *)
(* poller of the program could take for a message or for the end of a side.*)
FreshEvents == \A e \in UninitEvents : e \subseteq {"WRITABLE"}

(* What the flags of a queue in use tell, and that a side of it has gone   *)
(* when its thread has closed.                                             *)
InUse(b) == b.status = "live" /\ b.refs # 0
Raised(b) ==
    /\ "NOREADERS" \in b.queue_event <=> b.no_readers
    /\ "NOWRITERS" \in b.queue_event <=> b.no_writers
    /\ "READABLE" \in b.queue_event <=> b.buf # <<>> \/ b.no_writers
Shown(i) == LET b == mq[QueueOf[i]] IN
    InUse(b) => /\ Raised(b)
                /\ ConsGone(i) => b.no_readers
                /\ ProdGone(i) => b.no_writers

(* A read of the i-th queue would find something; what polls have told the *)
(* consumer of it stays true until it reads.                               *)
ReadyIn(i) == mq[QueueOf[i]].no_writers \/ Got(i) < stored[QueueOf[i]]
Readable(i) == ~ConsGone(i) /\ ReadyIn(i)
Answer(i, e) == Expected(e) /\ (e # {} => Readable(i))
Ahead(i) == \/ cons.at = "scan" /\ i >= cons.i
            \/ cons.at \in {"got", "verify", "verified", "close", "closed"} /\ i > cons.i
ConsAnswers == \A i \in Entries : Ahead(i) => Answer(i, cons.revents[i])
ConsReads == cons.at = "got" => ConsOpen /\ (At(ConsumerThread) = "reading" => ReadyIn(cons.i))

(* A poll call in progress or returned, from its label, result and record. *)
Fds(I, handles, events) == [i \in I |-> [queue |-> handles[i], events |-> events]]
Finished(label, r) == label \in {"poll_unlock", "poll_del", "poll_finish"} \/ (label = "idle" /\ r = "OK")
Asks(label, r, p, fds) ==
    /\ p.fds = fds /\ DOMAIN p.revents = DOMAIN fds
    /\ label \in PollLabels \/ (label = "idle" /\ r \in {"OK", "ENOMEM"})

(* The consumer's: a signal comes from its first queue only.               *)
ConsHandles == [i \in Entries |-> IF ConsGone(i) THEN NullHandle ELSE [q |-> QueueOf[i], flags |-> {"READER"}]]
ConsFds == Fds(Entries, ConsHandles, {"READABLE"})
Looks(label, r, p) ==
    /\ \A i \in Entries : Answer(i, p.revents[i])
    /\ Finished(label, r) => spurious \/ p.ready > 0
    /\ label = "poll_wake" => spurious \/ Readable(1)
    /\ label = "poll_recount" => spurious \/ p.ready > 0 \/ (1 \in p.todo /\ Readable(1))
ConsPolls == LET t == ConsumerThread IN
    cons.at = "polled" => Asks(pc[t], ret[t], poll[t], ConsFds) /\ Looks(pc[t], ret[t], poll[t])

(* A poll call that need not sleep: each entry will have the same events.  *)
Sure(label, r, p, fds, want) == LET done == DOMAIN fds \ p.todo IN
    /\ Asks(label, r, p, fds) /\ label \notin {"poll_sleep", "poll_wait", "poll_wake", "poll_recount"}
    /\ label = "poll_count" => p.ready = Cardinality(done) /\ \A i \in done : p.revents[i] = want
    /\ Finished(label, r) => p.ready = Cardinality(DOMAIN fds) /\ \A i \in DOMAIN fds : p.revents[i] = want
SurePoll(t, fds, want) == Sure(pc[t], ret[t], poll[t], fds, want)
EofFds == Fds({1}, <<[q |-> QueueOf[cons.i], flags |-> {"READER"}]>>, {"NOWRITERS"})
ConsVerifies == cons.at = "verified" => SurePoll(ConsumerThread, EofFds, {"NOWRITERS"})
CheckFds == Fds(Entries, [i \in Entries |-> [q |-> QueueOf[i], flags |-> {}]], {"NOREADERS", "NOWRITERS"})
MainPolls == main.at = "polled" => SurePoll(MainThread, CheckFds, {"NOREADERS", "NOWRITERS"})

EventsInv ==
    /\ \A i \in Entries : Shown(i)
    /\ ConsAnswers /\ ConsReads /\ ConsPolls /\ ConsVerifies /\ MainPolls
SizesInv == \A q \in Queues : \A k \in 1..Len(rcvd[q]) : rcvd[q][k].len = MessageSize

-----------------------------------------------------------------------------
(* Every step of a call leaves the flags telling the truth.                *)
LEMMA RaisedSame ==
    ASSUME NEW b, NEW c, Raised(b), c.no_readers = b.no_readers, c.no_writers = b.no_writers,
           c.queue_event = b.queue_event, c.buf # <<>> <=> b.buf # <<>>
    PROVE  Raised(c)
  BY DEF Raised

LEMMA RaisedOf ==
    ASSUME NEW b \in Backend, Raised(b)
    PROVE  /\ \A u : Raised([b EXCEPT !.mutex = u])
           /\ Raised(mutex_unlock(b))
           /\ b.no_writers => Raised([b EXCEPT !.queue_event = @ \cup {"NOWRITERS"}])
           /\ \A flags \in SUBSET Flag :
                 ("READER" \in flags => ~b.no_readers) /\ ("WRITER" \in flags => ~b.no_writers) =>
                    Raised(mutex_unlock(mq_open(b, flags)))
           /\ \A flags \in SUBSET Flag : LET d == mq_close(b, flags) IN
                 Raised(mutex_unlock([d EXCEPT !.queue_event = @ \cup CloseEvents(d)]))
           /\ \A c \in Backend : c.no_readers = b.no_readers /\ c.no_writers = b.no_writers
                                    /\ c.queue_event = b.queue_event =>
                 /\ b.buf # <<>> => Raised([c EXCEPT !.queue_event = ReadEvents(c)])
                 /\ c.buf # <<>> => Raised([c EXCEPT !.queue_event = WriteEvents(c)])
  <1>1. /\ \A u : Raised([b EXCEPT !.mutex = u])
        /\ Raised(mutex_unlock(b))
    BY DEF Raised, mutex_unlock, Backend
  <1>2. b.no_writers => Raised([b EXCEPT !.queue_event = @ \cup {"NOWRITERS"}])
    BY DEF Raised, Backend
  <1>3. ASSUME NEW flags \in SUBSET Flag, "READER" \in flags => ~b.no_readers, "WRITER" \in flags => ~b.no_writers
        PROVE  Raised(mutex_unlock(mq_open(b, flags)))
    BY <1>3 DEF Raised, mutex_unlock, mq_open, Backend
  <1>4. ASSUME NEW flags \in SUBSET Flag
        PROVE  LET d == mq_close(b, flags) IN
               Raised(mutex_unlock([d EXCEPT !.queue_event = @ \cup CloseEvents(d)]))
    <2> DEFINE d == mq_close(b, flags)
               e == [d EXCEPT !.queue_event = @ \cup CloseEvents(d)]
    <2>1. /\ d.no_readers = (b.no_readers \/ ("READER" \in flags /\ b.readers = 1))
          /\ d.no_writers = (b.no_writers \/ ("WRITER" \in flags /\ b.writers = 1))
          /\ d.queue_event = b.queue_event /\ d.buf = b.buf
      BY DEF mq_close, Backend
    <2>2. /\ mutex_unlock(e).no_readers = d.no_readers /\ mutex_unlock(e).no_writers = d.no_writers
          /\ mutex_unlock(e).buf = d.buf /\ mutex_unlock(e).queue_event = d.queue_event \cup CloseEvents(d)
      BY DEF mutex_unlock, mq_close, Backend
    <2> HIDE DEF d, e
    <2>3. Raised(mutex_unlock(e))
      BY <2>1, <2>2 DEF Raised, CloseEvents
    <2> QED BY <2>3 DEF d, e
  <1>5. ASSUME NEW c \in Backend, c.no_readers = b.no_readers, c.no_writers = b.no_writers,
               c.queue_event = b.queue_event
        PROVE  /\ b.buf # <<>> => Raised([c EXCEPT !.queue_event = ReadEvents(c)])
               /\ c.buf # <<>> => Raised([c EXCEPT !.queue_event = WriteEvents(c)])
    <2>1. ring_buffer_used(c) = 0 <=> c.buf = <<>>
      <3>1. c.buf \in Seq(Cell)
        BY DEF Backend
      <3> QED BY <3>1, EmptySeq DEF ring_buffer_used
    <2> QED BY <1>5, <2>1 DEF Raised, ReadEvents, WriteEvents, Backend
  <1> QED BY <1>1, <1>2, <1>3, <1>4, <1>5

LEMMA CallRaises ==
    ASSUME QInv, QInv', NEW t \in Threads, Patient(t), Lock(t) \/ Progress(t) \/ SpuriousWakeup(t) \/ PollFrame,
           pc[t] = "open" => /\ "READER" \in arg[t].flags => ~mq[arg[t].q].no_readers
                             /\ "WRITER" \in arg[t].flags => ~mq[arg[t].q].no_writers,
           NEW q \in Queues, InUse(mq[q]) => Raised(mq[q])
    PROVE  InUse(mq'[q]) => Raised(mq'[q])
  <1> USE DEF QInv, QueueInv
  <1> DEFINE b == mq[q]
  <1>1. mq \in [Queues -> Backend] /\ b \in Backend /\ b.buf \in Seq(Cell) /\ mq' \in [Queues -> Backend]
    BY DEF MemoryInv, TypeOK, Backend
  <1>2. ASSUME mq' = mq PROVE InUse(mq'[q]) => Raised(mq'[q])
    BY <1>2
  <1>3. CASE PollFrame
    <2>1. /\ b.status = mq'[q].status /\ b.refs = mq'[q].refs /\ b.no_readers = mq'[q].no_readers
          /\ b.no_writers = mq'[q].no_writers /\ b.queue_event = mq'[q].queue_event /\ b.buf = mq'[q].buf
      BY <1>3 DEF PollFrame, OnlyList, SameCounters
    <2> QED BY <2>1, RaisedSame DEF InUse
  <1>4. ASSUME Lock(t) \/ Progress(t) PROVE pc[t] \notin {"idle"} \cup PollLabels
    BY <1>4 DEF Lock, Progress, LockLabels, PollLabels, OpenBody, CloseBody, Destroy, EndWakeup, ReadEof, ReadEmpty,
                ReadPeek, ReadHeader, ReadBody, WriteReject, WriteWait, WritePut, Accepted
  <1>5. CASE Destroy(t)
    <2>1. arg[t].q = q => mq'[q].status # "live"
      BY <1>1, <1>5 DEF Destroy
    <2>2. arg[t].q # q => mq'[q] = b
      BY <1>1, <1>5 DEF Destroy
    <2> QED BY <2>1, <2>2 DEF InUse
  <1>6. ASSUME Lock(t) \/ (Progress(t) /\ ~Destroy(t)), arg[t].q # q PROVE mq'[q] = b
    <2>1. arg[t].q \in Queues
      BY <1>4, <1>6, InCall
    <2>2. CASE Lock(t) \/ OpenBody(t) \/ CloseBody(t) \/ EndWakeup(t) \/ ReadEmpty(t) \/ ReadPeek(t) \/ ReadHeader(t)
               \/ WriteReject(t) \/ WriteWait(t)
      BY <1>1, <1>6, <2>2 DEF Lock, OpenBody, CloseBody, EndWakeup, ReadEmpty, ReadPeek, ReadHeader, WriteReject, WriteWait
    <2>3. CASE ReadEof(t) \/ ReadBody(t) \/ WritePut(t)
      BY <1>1, <1>6, <2>3 DEF ReadEof, ReadBody, WritePut, BeginWakeup
    <2> QED BY <1>6, <2>2, <2>3 DEF Progress
  <1>7. ASSUME Lock(t) \/ (Progress(t) /\ ~Destroy(t)), arg[t].q = q
        PROVE  InUse(mq'[q]) => Raised(mq'[q])
    <2>1. Raised(b) /\ arg[t].flags \in SUBSET Flag
      <3>1. pc[t] \notin {"idle", "destroy"} \cup PollLabels
        BY <1>4, <1>7 DEF Lock, LockLabels, Progress, Destroy, OpenBody, CloseBody, EndWakeup, ReadEof, ReadEmpty,
                ReadPeek, ReadHeader, ReadBody, WriteReject, WriteWait, WritePut, Accepted
      <3> QED BY <1>7, <3>1, InCallRefs, InCall DEF InUse
    <2>2. CASE Lock(t)
      <3>1. mq'[q] = [b EXCEPT !.mutex = t]
        BY <1>1, <1>7, <2>2 DEF Lock
      <3>2. Raised([b EXCEPT !.mutex = t])
        BY <1>1, <2>1, RaisedOf
      <3> QED BY <3>1, <3>2
    <2>3. CASE EndWakeup(t) \/ ReadEmpty(t) \/ WriteReject(t) \/ WriteWait(t)
      <3>1. mq'[q] = mutex_unlock(b)
        BY <1>1, <1>7, <2>3 DEF EndWakeup, ReadEmpty, WriteReject, WriteWait
      <3> QED BY <1>1, <2>1, <3>1, RaisedOf
    <2>4. CASE ReadPeek(t)
      <3>1. mq' = mq
        BY <2>4, PeekChannel, KeepsPart
      <3> QED BY <1>2, <3>1
    <2>5. CASE ReadHeader(t)
      <3>1. b.buf # <<>> /\ mq'[q].buf # <<>>
        BY <1>7, <2>5, HeaderChannel
      <3>2. mq'[q] = ring_buffer_read(b, SizeT)
        BY <1>1, <1>7, <2>5 DEF ReadHeader
      <3>3. /\ mq'[q].no_readers = b.no_readers /\ mq'[q].no_writers = b.no_writers
            /\ mq'[q].queue_event = b.queue_event
        BY <1>1, <3>2 DEF ring_buffer_read, Backend
      <3> QED BY <2>1, <3>1, <3>3, RaisedSame
    <2>6. CASE ReadEof(t)
      <3>1. mq'[q] = [b EXCEPT !.queue_event = @ \cup {"NOWRITERS"}] /\ b.no_writers
        BY <1>1, <1>7, <2>6 DEF ReadEof, BeginWakeup
      <3> QED BY <1>1, <2>1, <3>1, RaisedOf
    <2>7. CASE ReadBody(t)
      <3> DEFINE c == ring_buffer_read(b, arg[t].head)
      <3>1. mq'[q] = [c EXCEPT !.queue_event = ReadEvents(c)]
        BY <1>1, <1>7, <2>7 DEF ReadBody, BeginWakeup
      <3>2. c \in Backend
        BY <1>1, <1>4, <1>7, InCall, BufferTypes
      <3>3. b.buf # <<>>
        BY <1>7, <2>7, BodyChannel
      <3>4. c.no_readers = b.no_readers /\ c.no_writers = b.no_writers /\ c.queue_event = b.queue_event
        BY <1>1 DEF ring_buffer_read, Backend
      <3> HIDE DEF c
      <3> QED BY <1>1, <2>1, <3>1, <3>2, <3>3, <3>4, RaisedOf
    <2>8. CASE WritePut(t)
      <3> DEFINE m == [id |-> stored[q] + 1, len |-> arg[t].len]
                 c == ring_buffer_write(ring_buffer_write(b, HeaderOf(m)), BodyOf(m))
      <3>1. "NONBLOCK" \notin arg[t].flags
        BY <2>8 DEF WritePut, Accepted, Patient
      <3>2. mq'[q] = [c EXCEPT !.queue_event = WriteEvents(c)]
        BY <1>1, <1>7, <2>8, <3>1 DEF WritePut, BeginWakeup
      <3>3. m \in Msg /\ c \in Backend
        <4>1. m \in Msg
          BY <1>7, <2>8, PutChannel, KeepsPart
        <4> QED BY <1>1, <4>1, MessageTypes, BufferTypes
      <3>4. mq'[q].buf = Extended(b.buf, m) /\ mq'[q].buf = c.buf
        BY <1>7, <2>8, <3>2, <3>3, PutChannel, KeepsPart DEF Backend
      <3>5. c.buf # <<>>
        <4>1. stored[q] \in Nat /\ Whole(b.buf, stored[q], 1) /\ m.len > 0 /\ m.id = stored[q] + 1
          BY <1>7, <2>8, PutChannel, KeepsPart DEF MemoryInv, TypeOK
        <4> QED BY <1>1, <3>3, <3>4, <4>1, AppendMessage
      <3>6. c.no_readers = b.no_readers /\ c.no_writers = b.no_writers /\ c.queue_event = b.queue_event
        BY <1>1 DEF ring_buffer_write, Backend
      <3> HIDE DEF c
      <3> QED BY <1>1, <2>1, <3>2, <3>3, <3>5, <3>6, RaisedOf
    <2>9. CASE OpenBody(t)
      <3>1. mq'[q] = mutex_unlock(mq_open(b, arg[t].flags)) /\ pc[t] = "open"
        BY <1>1, <1>7, <2>9 DEF OpenBody
      <3> QED BY <1>1, <1>7, <2>1, <3>1, RaisedOf
    <2>10. CASE CloseBody(t)
      <3> DEFINE d == mq_close(b, arg[t].flags)
      <3>1. CASE LastHandle(d)
        <4>1. mq'[q] = mutex_unlock(d) /\ d.refs = 0
          BY <1>1, <1>7, <2>10, <3>1 DEF CloseBody, LastHandle
        <4>2. mq'[q].refs = 0
          BY <4>1 DEF mutex_unlock, mq_close
        <4> QED BY <4>2 DEF InUse
      <3>2. CASE ~LastHandle(d)
        <4>1. mq'[q] = mutex_unlock([d EXCEPT !.queue_event = @ \cup CloseEvents(d)])
          BY <1>1, <1>7, <2>10, <3>2 DEF CloseBody
        <4> QED BY <1>1, <2>1, <4>1, RaisedOf
      <3> QED BY <3>1, <3>2
    <2> QED BY <1>7, <2>2, <2>3, <2>4, <2>5, <2>6, <2>7, <2>8, <2>9, <2>10 DEF Progress
  <1>8. CASE SpuriousWakeup(t)
    BY <1>2, <1>8 DEF SpuriousWakeup
  <1> QED BY <1>3, <1>5, <1>6, <1>7, <1>8

(* A queue is READABLE when a read of it would find something.             *)
LEMMA ReadyTells ==
    ASSUME QInv, NEW i \in Producers
    PROVE  /\ Got(i) \in Nat /\ stored[QueueOf[i]] \in Nat
           /\ Got(i) < stored[QueueOf[i]] <=> mq[QueueOf[i]].buf # <<>>
           /\ Raised(mq[QueueOf[i]]) => ("READABLE" \in mq[QueueOf[i]].queue_event <=> ReadyIn(i))
  <1> DEFINE q == QueueOf[i]  buf == mq[q].buf  last == stored[q]
  <1>1. q \in Queues
    BY Constants
  <1>2. last \in Nat /\ buf \in Seq(Cell) /\ rcvd[q] \in Seq(Msg) /\ Ids(buf, last) /\ First(buf, last) = Got(i) + 1
    BY <1>1 DEF QInv, QueueInv, MemoryInv, TypeOK, Backend, IdsInv, NumbersInv, Got
  <1>3. Got(i) \in Nat
    BY <1>2, LenProperties DEF Got
  <1>4. buf = <<>> => Got(i) = last
    BY <1>2, <1>3 DEF First
  <1>5. buf # <<>> => Got(i) < last
    <2>1. SUFFICES ASSUME buf # <<>> PROVE Got(i) < last
      OBVIOUS
    <2>2. Len(buf) \in Nat \ {0}
      BY <1>2, <2>1, EmptySeq
    <2>3. buf[1].msg \in Msgs(buf) /\ First(buf, last) = buf[1].msg.id
      BY <2>1, <2>2 DEF Msgs, First
    <2>4. buf[1].msg.id \in First(buf, last)..last /\ First(buf, last) \in 1..(last + 1)
      BY <1>2, <2>3 DEF Ids, Listed
    <2> QED BY <1>2, <1>3, <2>3, <2>4
  <1> QED BY <1>2, <1>3, <1>4, <1>5 DEF Raised, ReadyIn

(* A non-empty buffer of whole messages holds the last byte of its first.  *)
LEMMA FrontEnds ==
    ASSUME NEW buf \in Seq(Cell), buf # <<>>, NEW last, Whole(buf, last, 1)
    PROVE  Lasts(buf) # {}
  <1> DEFINE len == buf[1].msg.len  off == buf[1].off  n == SizeT + len - off  j == 1 + n
  <1>1. Len(buf) \in Nat \ {0} /\ 1 \in 1..Len(buf)
    BY EmptySeq
  <1>2. len \in Nat /\ off \in Nat
    BY <1>1, CellParts
  <1>3. SizeT \in Nat /\ off <= SizeT + len
    BY <1>1, Constants DEF Whole
  <1> HIDE DEF len, off
  <1>4. n \in Nat /\ j \in 1..(1 + n) /\ j \in Nat /\ j >= 1 /\ off + (j - 1) = SizeT + len
    BY <1>2, <1>3
  <1>5. \A k \in 1..(1 + n) : k <= Len(buf) /\ buf[k].msg = buf[1].msg /\ buf[k].off = off + (k - 1)
    BY <1>1 DEF Whole, len, off
  <1> HIDE DEF n, j
  <1>6. j <= Len(buf) /\ buf[j].msg.len = len /\ buf[j].off = SizeT + len
    BY <1>4, <1>5 DEF len
  <1>7. j \in 1..Len(buf)
    BY <1>1, <1>4, <1>6
  <1> QED BY <1>6, <1>7 DEF Lasts, LastCell

(* A read of a queue that was reported as readable does not sleep: there   *)
(* is no other reader that could have taken the message.                   *)
LEMMA ReadGoesOn ==
    ASSUME QInv, Running, ProgInv, ConsReads
    PROVE  PolledReadsDontBlock
  <1> DEFINE t == ConsumerThread  q == QueueOf[cons.i]  buf == mq[q].buf
  <1> USE DEF QInv, QueueInv
  <1>1. SUFFICES ASSUME pc[t] = "read_wait" PROVE FALSE
    BY DEF PolledReadsDontBlock
  <1>2. t \in Threads /\ At(t) = "reading"
    BY <1>1, Constants, PhaseIs DEF At
  <1>3. cons.at = "got" /\ cons.i \in Entries /\ cons.i \in Producers
    BY <1>2, ConsLabels, ConsumerIs
  <1>4. ReadyIn(cons.i)
    BY <1>2, <1>3 DEF ConsReads
  <1>5. ConsOpen /\ arg[t].slot = ConsumerMq[cons.i]
    BY <1>2, <1>3 DEF ProgInv, ConsPlace
  <1>6. arg[t].q = q /\ q \in Queues
    <2>1. handle[ConsumerMq[cons.i]] = [q |-> q, flags |-> {"READER"}]
      BY <1>5, ConsumerIs
    <2>2. arg[t].q # None /\ pc[t] # "destroy"
      BY <1>1, <1>2, AtTells
    <2> QED BY <1>2, <1>3, <1>5, <2>1, <2>2, CallSlot, Constants
  <1>7. /\ ~mq[q].no_writers /\ Cardinality(Lasts(buf)) <= Cardinality(Readers(q))
    <2>1. Waiting(q, "read_wait") # {}
      BY <1>1, <1>2, <1>6 DEF Waiting
    <2> QED BY <1>6, <2>1 DEF WaitInv, ReaderOK
  <1>8. buf # <<>>
    BY <1>3, <1>4, <1>7, ReadyTells DEF ReadyIn
  <1>9. Readers(q) = {}
    <2>1. SUFFICES ASSUME NEW u \in Threads, arg[u].q = q, pc[u] \in ReadLabels PROVE FALSE
      BY DEF Readers
    <2>2. u # t /\ At(u) = "reading"
      BY <1>1, <2>1, PhaseIs DEF ReadLabels, At
    <2>3. u # MainThread
      BY <2>2, MainLabels
    <2>4. PICK i \in Producers : u = ProducerThreads[i]
      BY <2>2, <2>3, Constants
    <2> QED BY <2>2, <2>4, ProdLabels
  <1>10. Lasts(buf) = {}
    <2>1. buf \in Seq(Cell) /\ IsFiniteSet(Lasts(buf)) /\ Cardinality(Lasts(buf)) \in Nat
      BY <1>6, LastsFinite DEF MemoryInv, TypeOK, Backend
    <2>2. Cardinality(Lasts(buf)) = 0
      BY <1>7, <1>9, <2>1, FS_EmptySet
    <2> QED BY <2>1, <2>2, FS_EmptySet
  <1>11. Waiting(q, "take_body") = {}
    BY <1>9 DEF Readers, Waiting, ReadLabels
  <1>12. Whole(buf, stored[q], 1)
    BY <1>6, <1>11 DEF ChannelInv, WholeMessages
  <1>13. buf \in Seq(Cell)
    BY <1>6 DEF MemoryInv, TypeOK, Backend
  <1> QED BY <1>6, <1>8, <1>10, <1>12, <1>13, FrontEnds DEF MemoryInv, TypeOK

-----------------------------------------------------------------------------
(* How the poll call of a thread moves on in a step of any thread.         *)
SameAnswers(p, r) == r.fds = p.fds /\ r.revents = p.revents /\ r.ready = p.ready
Occurred(fd) == fd.events \cap mq[fd.queue.q].queue_event # {}
Signalled(u) == 1 \in LiveFds(poll[u].fds) /\ Occurred(poll[u].fds[1])
CountEnds(label, p) == IF p.ready = 0 /\ label = "poll_count" THEN "poll_sleep" ELSE "poll_unlock"
Stays(u) == pc'[u] = pc[u] /\ poll'[u] = poll[u] /\ ret'[u] = ret[u]
Moves(u) == LET p == poll[u]  r == poll'[u]  l == pc[u]  m == pc'[u]  c == helper_count(u) IN
    \/ Stays(u)
    \/ l = "poll_add" /\ m = "poll_add" /\ SameAnswers(p, r)
    \/ l = "poll_add" /\ m = "poll_count" /\ r = Restarted(u)
    \/ l \in {"poll_count", "poll_recount"} /\ m = l /\ r = c /\ ~EndOfLoop(u)
    \/ /\ l \in {"poll_count", "poll_recount"} /\ m = CountEnds(l, c) /\ EndOfLoop(u)
       /\ r = [c EXCEPT !.todo = LiveFds(c.fds)]
    \/ l = "poll_sleep" /\ m = "poll_wait" /\ r = p
    \/ l = "poll_wait" /\ m = "poll_wake" /\ r = p /\ (spurious' \/ Signalled(u))
    \/ l = "poll_wake" /\ m = "poll_recount" /\ r = Restarted(u)
    \/ l = "poll_unlock" /\ m = "poll_del" /\ r = p
    \/ l = "poll_del" /\ m \in {"poll_del", "poll_finish"} /\ SameAnswers(p, r)
    \/ l = "poll_finish" /\ m = "idle" /\ ret'[u] = "OK" /\ r = p

LEMMA OwnPollMoves ==
    ASSUME QInv, NEW u \in Threads, PollLock(u) \/ PollStep(u) \/ (PollSpurious(u) /\ spurious')
    PROVE  Moves(u)
  <1> USE DEF QInv, QueueInv
  <1>1. pc \in [Threads -> Label] /\ ret \in [Threads -> Result] /\ poll \in [Threads -> PollRec] /\ poll[u] \in PollRec
    BY DEF MemoryInv, TypeOK, PollInv
  <1>2. SameAnswers(poll[u], Advanced(u))
    BY <1>1 DEF SameAnswers, Advanced, PollRec
  <1>3. CASE PollAdd(u)
    BY <1>1, <1>2, <1>3 DEF PollAdd, Moves
  <1>4. CASE PollWake(u) \/ PollRelease(u) \/ (PollSpurious(u) /\ spurious') \/ PollFinish(u)
    BY <1>1, <1>4 DEF PollWake, PollRelease, PollSpurious, PollFinish, Moves
  <1>5. CASE PollDel(u)
    BY <1>1, <1>2, <1>5 DEF PollDel, Moves
  <1>6. CASE PollCount(u)
    BY <1>1, <1>6 DEF PollCount, Moves, CountEnds
  <1> QED BY <1>3, <1>4, <1>5, <1>6 DEF PollLock, PollStep

(* helper_wakeup signals a sleeper whose first node it visits.             *)
LEMMA WakeMoves ==
    ASSUME QInv, NEW t \in Threads, WakeNode(t), NEW u \in Threads, pc[u] \in {"idle"} \cup PollLabels
    PROVE  Moves(u)
  <1> USE DEF QInv, QueueInv
  <1>1. WakeEffect(t)
    BY WakeShape
  <1>2. poll' = poll /\ ret' = ret /\ pc[t] = "wakeup" /\ scan[t] # <<>> /\ u # t
    BY <1>1 DEF WakeEffect, PollLabels
  <1>3. CASE pc'[u] = pc[u]
    BY <1>2, <1>3 DEF Moves, Stays
  <1>4. CASE pc'[u] # pc[u]
    <2> DEFINE node == Head(scan[t])  q == arg[t].q
    <2>1. pc[u] = "poll_wait" /\ pc'[u] = "poll_wake"
      BY <1>1, <1>2, <1>4 DEF WakeEffect
    <2>2. /\ node.events \cap mq[q].queue_event # {} /\ node.i = 1
          /\ pc' \in cond_signal(pc, {p \in {node.p} : pc[p] = "poll_wait"}, "poll_wake")
      <3>1. pc \in [Threads -> Label] /\ pc' # pc /\ pc' # [pc EXCEPT ![t] = "hung"]
        BY <1>2, <1>4 DEF MemoryInv, TypeOK
      <3> QED BY <3>1 DEF WakeNode
    <2>3. u = node.p
      <3>1. \/ pc' = pc
            \/ \E p \in {x \in {node.p} : pc[x] = "poll_wait"} : pc' = [pc EXCEPT ![p] = "poll_wake"]
        BY <2>2 DEF cond_signal
      <3>2. pc \in [Threads -> Label]
        BY DEF MemoryInv, TypeOK
      <3> QED BY <1>4, <3>1, <3>2
    <2>4. node \in NodesOf(q)
      <3>1. scan[t] \in Seq(Node) /\ q \in Queues
        <4>1. pc[t] \notin {"idle", "destroy"} \cup PollLabels
          BY <1>2 DEF PollLabels
        <4> QED BY <4>1, InCall DEF MemoryInv, TypeOK
      <3>2. node \in Elements(scan[t])
        <4>1. Len(scan[t]) \in Nat \ {0} /\ node = scan[t][1] /\ 1 \in DOMAIN scan[t]
          BY <1>2, <3>1, EmptySeq
        <4> QED BY <4>1 DEF Elements
      <3>3. ScanOK(t) /\ ListOK(q)
        BY <3>1 DEF PollInv
      <3> QED BY <1>2, <3>2, <3>3 DEF ScanOK, ListOK
    <2>5. PICK v \in Threads : \E i \in Registered(v) : poll[v].fds[i].queue.q = q /\ node = NodeOf(v, i)
      BY <2>4, NodeMembers
    <2>6. v = u /\ 1 \in Registered(u) /\ poll[u].fds[1].queue.q = q /\ node.events = poll[u].fds[1].events
      BY <2>2, <2>3, <2>5 DEF NodeOf
    <2>7. Registered(u) = LiveFds(poll[u].fds)
      BY <2>1, RegisteredIs, RegCases
    <2>8. Signalled(u)
      BY <2>2, <2>6, <2>7 DEF Signalled, Occurred
    <2> QED BY <1>2, <2>1, <2>8 DEF Moves
  <1> QED BY <1>3, <1>4

LEMMA PollMoves ==
    ASSUME QInv, QInv', NEW t \in Threads, Patient(t), CallLock(t) \/ CallStep(t) \/ CallSpurious(t),
           NEW u \in Threads, pc[u] \in {"idle"} \cup PollLabels
    PROVE  Moves(u)
  <1> USE DEF QInv, QueueInv
  <1>1. CASE WakeNode(t)
    BY <1>1, WakeMoves
  <1>2. CASE (PollLock(t) \/ PollStep(t) \/ (PollSpurious(t) /\ spurious')) /\ t = u
    BY <1>2, OwnPollMoves
  <1>3. CASE (PollLock(t) \/ PollStep(t) \/ PollSpurious(t)) /\ t # u
    <2>1. UNCHANGED ret \/ ret' = [ret EXCEPT ![t] = "OK"]
      BY <1>3 DEF PollLock, PollStep, PollSpurious, PollAdd, PollWake, PollDel, PollCount, PollRelease, PollFinish
    <2>2. UNCHANGED pc \/ \E l : pc' = [pc EXCEPT ![t] = l]
      BY <1>3 DEF PollLock, PollStep, PollSpurious, PollAdd, PollWake, PollDel, PollCount, PollRelease, PollFinish
    <2>3. UNCHANGED poll \/ \E l : poll' = [poll EXCEPT ![t] = l]
      BY <1>3 DEF PollLock, PollStep, PollSpurious, PollAdd, PollWake, PollDel, PollCount, PollRelease, PollFinish
    <2>4. pc \in [Threads -> Label] /\ ret \in [Threads -> Result] /\ poll \in [Threads -> PollRec]
      BY DEF MemoryInv, TypeOK, PollInv
    <2> QED BY <1>3, <2>1, <2>2, <2>3, <2>4 DEF Moves, Stays
  <1>4. CASE (Lock(t) \/ Progress(t) \/ SpuriousWakeup(t)) /\ UNCHANGED poll
    <2>1. NextFrame
      BY <1>4, StepFrame
    <2>2. pc[t] \notin {"idle"} \cup PollLabels
      BY <1>4 DEF Lock, Progress, SpuriousWakeup, LockLabels, PollLabels, OpenBody, CloseBody, Destroy, EndWakeup,
                  ReadEof, ReadEmpty, ReadPeek, ReadHeader, ReadBody, WriteReject, WriteWait, WritePut, Accepted
    <2>3. Effect(t)
      BY StepEffects
    <2>4. SamePlace(u)
      BY <2>2, <2>3 DEF Effect, DoesNothing, DoesOpen, DoesClose, DoesDestroy, DoesTake, DoesEof, DoesPut, DoesReject,
                        DoesReturn, RestStays
    <2>5. pc'[u] = pc[u]
      <3>1. CASE pc[u] \in PollLabels
        BY <2>1, <3>1 DEF NextFrame
      <3>2. CASE pc[u] = "idle"
        <4>1. At(u) = "idle" /\ At(u)' = "idle"
          BY <2>4, <3>2, PhaseIs DEF At, SamePlace
        <4>2. pc'[u] \in Label
          BY DEF MemoryInv, TypeOK
        <4> QED BY <3>2, <4>1, <4>2, PhaseTells DEF At
      <3> QED BY <3>1, <3>2
    <2> QED BY <1>4, <2>4, <2>5 DEF Moves, Stays, SamePlace
  <1> QED BY <1>1, <1>2, <1>3, <1>4 DEF CallLock, CallStep, CallSpurious

(* One iteration of helper_count.                                          *)
LEMMA CountIs ==
    ASSUME QInv, NEW t \in Threads, pc[t] \in {"poll_count", "poll_recount"}
    PROVE  LET p == poll[t]  c == helper_count(t)  i == Current(t)  fd == p.fds[i]
               y == [c EXCEPT !.todo = LiveFds(c.fds)] IN
           /\ p \in PollRec /\ p.ready \in Nat
           /\ i \in p.todo /\ i \in LiveFds(p.fds) /\ p.todo \subseteq LiveFds(p.fds) /\ \A j \in p.todo : i <= j /\ j \in Nat
           /\ c.fds = p.fds /\ c.todo = p.todo \ {i} /\ DOMAIN c.revents = DOMAIN p.revents
           /\ \A j \in DOMAIN p.revents :
                 c.revents[j] = IF j = i THEN Revents(fd.queue, fd.events, mq[fd.queue.q].queue_event) ELSE p.revents[j]
           /\ c.ready = IF Occurred(fd) THEN p.ready + 1 ELSE p.ready
           /\ y.fds = p.fds /\ y.revents = c.revents /\ y.ready = c.ready /\ y.todo = LiveFds(p.fds)
  <1> USE DEF QInv, QueueInv
  <1> DEFINE p == poll[t]  c == helper_count(t)  i == Current(t)  fd == p.fds[i]
             y == [c EXCEPT !.todo = LiveFds(c.fds)]
             a == Advanced(t)  e == Revents(fd.queue, fd.events, mq[fd.queue.q].queue_event)
  <1>1. pc[t] \in PollLabels \ {"poll_finish"}
    BY DEF PollLabels
  <1>2. p \in PollRec /\ i \in p.todo /\ i \in LiveFds(p.fds)
    BY <1>1, CurrentEntry
  <1>3. p.ready \in Nat /\ p.todo \in SUBSET Nat
    BY <1>2 DEF PollRec
  <1>4. p.todo \subseteq LiveFds(p.fds)
    BY <1>1 DEF PollInv, PollOK
  <1>5. \A j \in p.todo : i <= j
    <2>1. \E k \in p.todo : \A j \in p.todo : k <= j
      BY <1>2, <1>3, LeastEntry
    <2> QED BY <2>1 DEF Current
  <1>6. /\ c \in PollRec /\ c.fds = p.fds /\ c.todo = p.todo \ {i}
        /\ y \in PollRec /\ y.fds = p.fds /\ y.todo = LiveFds(p.fds) /\ y.ready = c.ready
    BY <1>1, RecordUpdates
  <1>7. y.revents = c.revents
    BY <1>6 DEF PollRec
  <1>8. a \in PollRec /\ a.revents = p.revents /\ a.ready = p.ready
    <2>1. a \in PollRec
      BY <1>1, RecordUpdates
    <2> QED BY <1>2, <2>1 DEF Advanced, PollRec
  <1>9. c.revents = [p.revents EXCEPT ![i] = e] /\ c.ready = IF Occurred(fd) THEN p.ready + 1 ELSE p.ready
    <2> HIDE DEF a, e
    <2>1. c = [a EXCEPT !.revents = [a.revents EXCEPT ![i] = e], !.ready = IF Occurred(fd) THEN a.ready + 1 ELSE a.ready]
      BY DEF helper_count, Occurred, a, e
    <2> QED BY <1>8, <2>1 DEF PollRec
  <1> HIDE DEF e, y, c
  <1>10. /\ DOMAIN c.revents = DOMAIN p.revents
         /\ \A j \in DOMAIN p.revents : c.revents[j] = IF j = i THEN e ELSE p.revents[j]
    BY <1>9
  <1> QED BY <1>2, <1>3, <1>4, <1>5, <1>6, <1>7, <1>9, <1>10 DEF e, y, c

(* A poll call all of whose entries have events returns them without       *)
(* sleeping.                                                               *)
LEMMA SureMoves ==
    ASSUME QInv, NEW t \in Threads, Moves(t), NEW fds, NEW want, SurePoll(t, fds, want),
           IsFiniteSet(DOMAIN fds), DOMAIN fds # {},
           \A i \in DOMAIN fds : /\ fds[i].queue # NullHandle /\ Occurred(fds[i])
                                 /\ Revents(fds[i].queue, fds[i].events, mq[fds[i].queue.q].queue_event) = want
    PROVE  Sure(pc'[t], ret'[t], poll'[t], fds, want)
  <1> USE DEF QInv, QueueInv
  <1> DEFINE p == poll[t]  r == poll'[t]  l == pc[t]  m == pc'[t]  c == helper_count(t)  D == DOMAIN fds
             S == Sure(m, ret'[t], r, fds, want)
  <1>1. /\ p.fds = fds /\ DOMAIN p.revents = D /\ LiveFds(fds) = D
        /\ l \notin {"poll_sleep", "poll_wait", "poll_wake", "poll_recount"}
        /\ l = "poll_count" => p.ready = Cardinality(D \ p.todo) /\ \A i \in D \ p.todo : p.revents[i] = want
        /\ Finished(l, ret[t]) => p.ready = Cardinality(D) /\ \A i \in D : p.revents[i] = want
    BY DEF SurePoll, Sure, Asks, LiveFds
  <1>2. p \in PollRec
    BY DEF PollInv
  <1>3. CASE Stays(t)
    BY <1>3 DEF Stays, SurePoll
  <1>4. CASE l = "poll_add" /\ m = "poll_add" /\ SameAnswers(p, r)
    BY <1>1, <1>4 DEF SameAnswers, Sure, Asks, Finished, PollLabels
  <1>5. CASE l = "poll_add" /\ m = "poll_count" /\ r = Restarted(t)
    <2>1. r.fds = fds /\ r.revents = p.revents /\ r.ready = 0 /\ r.todo = D
      BY <1>1, <1>2, <1>5 DEF Restarted, PollRec
    <2>2. D \ r.todo = {} /\ Cardinality(D \ r.todo) = 0
      BY <2>1, FS_EmptySet
    <2> QED BY <1>1, <1>5, <2>1, <2>2 DEF Sure, Asks, Finished, PollLabels
  <1>6. CASE l = "poll_count" /\ (m = l \/ m = CountEnds(l, c))
             /\ ((r = c /\ m = l /\ ~EndOfLoop(t)) \/ (r = [c EXCEPT !.todo = LiveFds(c.fds)] /\ m = CountEnds(l, c) /\ EndOfLoop(t)))
    <2> DEFINE i == Current(t)  done == D \ p.todo
    <2>1. /\ i \in p.todo /\ i \in D /\ p.todo \subseteq D /\ p.ready \in Nat
          /\ c.fds = fds /\ c.todo = p.todo \ {i} /\ DOMAIN c.revents = D
          /\ \A j \in D : c.revents[j] = IF j = i THEN want ELSE p.revents[j]
          /\ c.ready = p.ready + 1
          /\ r.fds = fds /\ r.revents = c.revents /\ r.ready = c.ready
          /\ m = l => r.todo = c.todo
      BY <1>1, <1>6, CountIs DEF CountEnds
    <2>2. D \ c.todo = done \cup {i} /\ i \notin done
      BY <2>1
    <2>3. IsFiniteSet(done) /\ Cardinality(done \cup {i}) = Cardinality(done) + 1
      <3>1. IsFiniteSet(done)
        BY FS_Subset
      <3> QED BY <2>2, <3>1, FS_AddElement
    <2>4. c.ready = Cardinality(D \ c.todo) /\ \A j \in D \ c.todo : c.revents[j] = want
      BY <1>1, <1>6, <2>1, <2>2, <2>3
    <2>5. CASE m = l
      BY <1>6, <2>1, <2>4, <2>5 DEF Sure, Asks, Finished, PollLabels
    <2>6. CASE m = CountEnds(l, c) /\ EndOfLoop(t)
      <3>1. c.todo = {}
        BY <2>1, <2>6 DEF EndOfLoop
      <3>2. c.ready = Cardinality(D) /\ \A j \in D : c.revents[j] = want
        BY <2>4, <3>1
      <3>3. c.ready # 0
        BY <2>1
      <3>4. m = "poll_unlock"
        BY <2>6, <3>3 DEF CountEnds
      <3> QED BY <2>1, <3>2, <3>4 DEF Sure, Asks, Finished, PollLabels
    <2> QED BY <1>6, <2>5, <2>6
  <1>7. CASE l = "poll_unlock" /\ m = "poll_del" /\ r = p
    BY <1>1, <1>7 DEF Sure, Asks, Finished, PollLabels
  <1>8. CASE l = "poll_del" /\ m \in {"poll_del", "poll_finish"} /\ SameAnswers(p, r)
    BY <1>1, <1>8 DEF SameAnswers, Sure, Asks, Finished, PollLabels
  <1>9. CASE l = "poll_finish" /\ m = "idle" /\ ret'[t] = "OK" /\ r = p
    BY <1>1, <1>9 DEF Sure, Asks, Finished, PollLabels
  <1> QED BY <1>1, <1>3, <1>4, <1>5, <1>6, <1>7, <1>8, <1>9 DEF Moves

-----------------------------------------------------------------------------
(* The queue of an open handle is in use, and each side has one handle.    *)
LEMMA HandleUses ==
    ASSUME QInv, ProgInv, NEW i \in Entries
    PROVE  LET b == mq[QueueOf[i]] IN
           /\ handle[MainMq[i]] # NullHandle => InUse(b)
           /\ handle[ConsumerMq[i]] # NullHandle => InUse(b) /\ b.readers = 1
           /\ handle[ProducerMq[i]] # NullHandle => InUse(b) /\ b.writers = 1
  <1> USE DEF QInv, QueueInv
  <1> DEFINE q == QueueOf[i]  b == mq[q]
  <1>1. /\ i \in Producers /\ q \in Queues /\ q # None /\ MainMq[i] \in Slots /\ ConsumerMq[i] \in Slots
        /\ ProducerMq[i] \in Slots
    BY Constants, EntriesAre DEF ProgInv
  <1>2. HandlesHeld /\ NoUseAfterFree /\ HandleCounts
    BY DEF ProgInv, MemoryInv
  <1>3. ASSUME NEW s \in Slots, handle[s].q = q PROVE InUse(b)
    <2>1. handle[s] # NullHandle
      BY <1>1, <1>3 DEF NullHandle
    <2>2. b.status = "live"
      BY <1>2, <1>3, <2>1 DEF NoUseAfterFree
    <2>3. b.refs = Cardinality(Open(q)) /\ IsFiniteSet(Open(q)) /\ s \in Open(q)
      BY <1>1, <1>2, <1>3, <2>2, OpenFinite DEF HandleCounts, Open
    <2> QED BY <2>2, <2>3, FS_EmptySet DEF InUse
  <1>4. ASSUME NEW s \in Slots, NEW j \in Producers, handle[s] # NullHandle, handle[s].q = q,
               s \in {MainMq[j], ConsumerMq[j], ProducerMq[j]}
        PROVE  j = i /\ handle[s].flags = IF s = MainMq[i] THEN {} ELSE IF s = ConsumerMq[i] THEN {"READER"} ELSE {"WRITER"}
    <2>1. CASE s = MainMq[j]
      <3>1. handle[s] = [q |-> QueueOf[j], flags |-> {}]
        BY <1>2, <1>4, <2>1 DEF HandlesHeld, Held
      <3> QED BY <1>1, <1>4, <2>1, <3>1, Distinctness
    <2>2. CASE s = ConsumerMq[j]
      <3>1. handle[s] = [q |-> QueueOf[j], flags |-> {"READER"}]
        BY <1>2, <1>4, <2>2 DEF HandlesHeld
      <3> QED BY <1>1, <1>4, <2>2, <3>1, Distinctness
    <2>3. CASE s = ProducerMq[j]
      <3>1. handle[s] = [q |-> QueueOf[j], flags |-> {"WRITER"}]
        BY <1>2, <1>4, <2>3 DEF HandlesHeld, Held
      <3> QED BY <1>1, <1>4, <2>3, <3>1, Distinctness
    <2> QED BY <1>4, <2>1, <2>2, <2>3
  <1>5. ASSUME NEW s \in Open(q)
        PROVE  s \in Slots /\ handle[s] # NullHandle /\ handle[s].q = q /\ s \in {MainMq[i], ConsumerMq[i], ProducerMq[i]}
               /\ handle[s].flags = IF s = MainMq[i] THEN {} ELSE IF s = ConsumerMq[i] THEN {"READER"} ELSE {"WRITER"}
    <2>1. s \in Slots /\ handle[s].q = q /\ handle[s] # NullHandle
      BY <1>1, <1>5 DEF Open, NullHandle
    <2>2. PICK j \in Producers : s \in {MainMq[j], ConsumerMq[j], ProducerMq[j]}
      BY <1>2, <2>1 DEF HandlesHeld
    <2> QED BY <1>4, <2>1, <2>2
  <1>6. ASSUME handle[MainMq[i]] # NullHandle PROVE InUse(b)
    <2>1. handle[MainMq[i]] = [q |-> q, flags |-> {}]
      BY <1>1, <1>2, <1>6 DEF HandlesHeld, Held
    <2> QED BY <1>1, <1>3, <2>1
  <1>7. ASSUME handle[ConsumerMq[i]] # NullHandle PROVE InUse(b) /\ b.readers = 1
    <2>1. handle[ConsumerMq[i]] = [q |-> q, flags |-> {"READER"}]
      BY <1>1, <1>2, <1>7 DEF HandlesHeld
    <2>2. InUse(b)
      BY <1>1, <1>3, <2>1
    <2>3. OpenFor(q, "READER") = {ConsumerMq[i]}
      BY <1>1, <1>5, <2>1 DEF OpenFor, Open
    <2>4. b.readers = Cardinality(OpenFor(q, "READER"))
      BY <1>1, <1>2, <2>2 DEF HandleCounts, InUse
    <2> QED BY <2>2, <2>3, <2>4, FS_Singleton
  <1>8. ASSUME handle[ProducerMq[i]] # NullHandle PROVE InUse(b) /\ b.writers = 1
    <2>1. handle[ProducerMq[i]] = [q |-> q, flags |-> {"WRITER"}]
      BY <1>1, <1>2, <1>8 DEF HandlesHeld, Held
    <2>2. InUse(b)
      BY <1>1, <1>3, <2>1
    <2>3. OpenFor(q, "WRITER") = {ProducerMq[i]}
      BY <1>1, <1>5, <2>1 DEF OpenFor, Open
    <2>4. b.writers = Cardinality(OpenFor(q, "WRITER"))
      BY <1>1, <1>2, <2>2 DEF HandleCounts, InUse
    <2> QED BY <2>2, <2>3, <2>4, FS_Singleton
  <1> QED BY <1>6, <1>7, <1>8

(* A handle is opened before its side could have gone.                     *)
LEMMA OpensFresh ==
    ASSUME QInv, Running, ProgInv, NEW t \in Threads, At(t) = "opening"
    PROVE  /\ t = MainThread /\ main.i \in Nat
           /\ \E j \in Entries : /\ arg[t].q = QueueOf[j]
                                 /\ \/ cons.at = "none" /\ arg[t].flags = {"READER"} /\ arg[t].dst = ConsumerMq[j]
                                    \/ prod[j].at = "none" /\ arg[t].flags = {"WRITER"} /\ arg[t].dst = ProducerMq[j]
           /\ "READER" \in arg[t].flags => ~mq[arg[t].q].no_readers
           /\ "WRITER" \in arg[t].flags => ~mq[arg[t].q].no_writers
  <1>1. t = MainThread /\ main.at \in {"open_reader", "start"}
    <2>1. t # ConsumerThread
      BY ConsLabels
    <2>2. \A i \in Producers : t # ProducerThreads[i]
      BY ProdLabels
    <2> QED BY <2>1, <2>2, Constants, MainLabels
  <1>2. /\ main.i \in Nat /\ Entries = 1..argv.nprod /\ argv.nprod \in Nat /\ Entries \subseteq Producers
        /\ main.i <= argv.nprod + 1
    BY EntriesAre DEF ProgInv
  <1>3. PICK j \in Entries : arg[t].q = QueueOf[j] /\ arg[t].slot = MainMq[j]
    <2>1. t # ConsumerThread /\ \A k \in Entries : t # ProducerThreads[k]
      BY <1>1, <1>2, Constants
    <2> QED BY <2>1, CallOf
  <1>4. \/ cons.at = "none" /\ arg[t].flags = {"READER"} /\ arg[t].dst = ConsumerMq[j]
        \/ prod[j].at = "none" /\ arg[t].flags = {"WRITER"} /\ arg[t].dst = ProducerMq[j]
    <2>1. CASE main.at = "open_reader"
      <3>1. main.i > 1 /\ Opening(t, MainMq[main.i - 1], ConsumerMq[main.i - 1], "READER") /\ cons.at = "none"
        BY <1>1, <2>1 DEF ProgInv, MainPlace, Started
      <3>2. main.i - 1 \in Entries
        BY <1>2, <3>1
      <3>3. main.i - 1 = j
        BY <1>2, <1>3, <3>1, <3>2, Distinctness DEF Opening
      <3> QED BY <3>1, <3>3 DEF Opening
    <2>2. CASE main.at = "start"
      <3>1. main.i \in Entries /\ Opening(t, MainMq[main.i], ProducerMq[main.i], "WRITER")
        BY <1>1, <2>2 DEF ProgInv, MainPlace
      <3>2. main.i = j
        BY <1>2, <1>3, <3>1, Distinctness DEF Opening
      <3>3. Waits(j)
        BY <1>2, <2>2, <3>2 DEF Waits
      <3> QED BY <3>1, <3>2, <3>3 DEF Opening, ProgInv, Started
    <2> QED BY <1>1, <2>1, <2>2
  <1>5. QueueKnown(j)
    BY <1>2 DEF ProgInv
  <1> QED BY <1>1, <1>2, <1>3, <1>4, <1>5 DEF QueueKnown, ConsGone, ProdGone

-----------------------------------------------------------------------------
(* What a step of a call shows of the queues.                              *)
LEMMA CloserOf ==
    ASSUME QInv, NEW t \in Threads, Effect(t), NEW s \in Slots, handle[s] # NullHandle, handle'[s] = NullHandle
    PROVE  DoesClose(t) /\ s = arg[t].slot
  <1>1. handle \in [Slots -> Handle]
    BY DEF QInv, QueueInv, MemoryInv, TypeOK
  <1>2. ~DoesOpen(t)
    <2>1. SUFFICES ASSUME DoesOpen(t) PROVE FALSE
      OBVIOUS
    <2>2. arg[t].q # None
      BY <2>1, AtTells DEF DoesOpen, QInv, QueueInv
    <2>3. [q |-> arg[t].q, flags |-> arg[t].flags] # NullHandle
      BY <2>2 DEF NullHandle
    <2> QED BY <1>1, <2>1, <2>3 DEF DoesOpen
  <1>3. handle' # handle
    OBVIOUS
  <1>4. DoesClose(t)
    BY <1>2, <1>3 DEF Effect, DoesNothing, DoesDestroy, DoesTake, DoesEof, DoesPut, DoesReject, DoesReturn
  <1> QED BY <1>1, <1>4 DEF DoesClose

(* A queue in use was so before, and its sides come and go with the        *)
(* handles that have been closed.                                          *)
LEMMA SidesGo ==
    ASSUME QInv, Running, ProgInv, UNCHANGED <<argv, main, cons, prod>>, NEW t \in Threads, Effect(t), NEW i \in Entries,
           InUse(mq'[QueueOf[i]])
    PROVE  LET b == mq[QueueOf[i]]  c == mq'[QueueOf[i]] IN
           /\ InUse(b)
           /\ b.no_readers /\ ConsGone(i) => c.no_readers
           /\ b.no_writers /\ ProdGone(i) => c.no_writers
           /\ handle[ConsumerMq[i]] # NullHandle /\ handle'[ConsumerMq[i]] = NullHandle => c.no_readers
           /\ handle[ProducerMq[i]] # NullHandle /\ handle'[ProducerMq[i]] = NullHandle => c.no_writers
  <1> USE DEF QInv, QueueInv
  <1> DEFINE q == QueueOf[i]  b == mq[q]  c == mq'[q]  u == arg[t].q
  <1>1. /\ Entries \subseteq Producers /\ i \in Producers /\ q \in Queues /\ ConsumerMq[i] \in Slots /\ ProducerMq[i] \in Slots
        /\ mq \in [Queues -> Backend] /\ b \in Backend
    BY Constants, EntriesAre DEF ProgInv, MemoryInv, TypeOK
  <1>2. ASSUME DoesOpen(t) \/ DoesClose(t) PROVE u \in Queues /\ InUse(mq[u])
    <2>1. At(t) \in {"opening", "closing"}
      BY <1>2 DEF DoesOpen, DoesClose
    <2>2. pc[t] \in {"open_lock", "open", "close_lock", "close"}
      BY <2>1, AtTells
    <2>3. pc[t] \notin {"idle", "destroy"} \cup PollLabels
      BY <2>2 DEF PollLabels
    <2> QED BY <2>3, InCallRefs, InCall DEF InUse
  <1>3. CASE ~DoesClose(t)
    <2>1. /\ handle[ConsumerMq[i]] # NullHandle => handle'[ConsumerMq[i]] # NullHandle
          /\ handle[ProducerMq[i]] # NullHandle => handle'[ProducerMq[i]] # NullHandle
      BY <1>1, <1>3, CloserOf
    <2>2. ASSUME c.status = b.status, c.refs = b.refs, c.no_readers = b.no_readers, c.no_writers = b.no_writers
          PROVE  InUse(b) /\ (b.no_readers => c.no_readers) /\ (b.no_writers => c.no_writers)
      BY <2>2 DEF InUse
    <2>3. CASE SameQueues
      <3>1. SameCounters(b, c)
        BY <1>1, <2>3 DEF SameQueues
      <3> QED BY <2>1, <2>2, <3>1 DEF SameCounters
    <2>4. CASE DoesDestroy(t)
      <3>1. u = q => c.status = "freed"
        BY <1>1, <2>4 DEF DoesDestroy
      <3>2. u # q => c = b
        BY <1>1, <2>4 DEF DoesDestroy
      <3>3. c = b
        BY <3>1, <3>2 DEF InUse
      <3> QED BY <2>1, <2>2, <3>3
    <2>5. CASE DoesOpen(t)
      <3>1. u # q => c = b
        BY <1>1, <2>5 DEF DoesOpen
      <3>2. CASE u = q
        <4>1. InUse(b)
          BY <1>2, <2>5, <3>2
        <4>2. c = mutex_unlock(mq_open(b, arg[t].flags))
          BY <1>1, <2>5, <3>2 DEF DoesOpen
        <4>3. PICK j \in Entries : /\ u = QueueOf[j]
                                   /\ \/ cons.at = "none" /\ arg[t].flags = {"READER"}
                                      \/ prod[j].at = "none" /\ arg[t].flags = {"WRITER"}
          BY <2>5, OpensFresh DEF DoesOpen
        <4>4. j = i
          BY <1>1, <3>2, <4>3, Distinctness
        <4>5. ("READER" \in arg[t].flags => ~ConsGone(i)) /\ ("WRITER" \in arg[t].flags => ~ProdGone(i))
          BY <4>3, <4>4 DEF ConsGone, ProdGone
        <4>6. /\ b.no_readers /\ "READER" \notin arg[t].flags => c.no_readers
              /\ b.no_writers /\ "WRITER" \notin arg[t].flags => c.no_writers
          BY <1>1, <4>2 DEF mutex_unlock, mq_open, Backend
        <4> QED BY <2>1, <4>1, <4>5, <4>6
      <3> QED BY <2>1, <2>2, <3>1, <3>2
    <2> QED BY <1>3, <2>3, <2>4, <2>5 DEF Effect, DoesNothing, DoesTake, DoesEof, DoesPut, DoesReject, DoesReturn
  <1>4. CASE DoesClose(t)
    <2>1. u # q => c = b
      BY <1>1, <1>4 DEF DoesClose
    <2>2. InUse(b)
      BY <1>2, <1>4, <2>1
    <2>3. (b.no_readers => c.no_readers) /\ (b.no_writers => c.no_writers)
      BY <1>4, <2>1 DEF DoesClose
    <2>4. PICK j \in Entries :
              /\ u = QueueOf[j]
              /\ \/ t = MainThread /\ arg[t].slot = MainMq[j]
                 \/ t = ConsumerThread /\ arg[t].slot = ConsumerMq[j]
                 \/ t = ProducerThreads[j] /\ arg[t].slot = ProducerMq[j]
              /\ arg[t].flags = IF t = MainThread THEN {} ELSE IF t = ConsumerThread THEN {"READER"} ELSE {"WRITER"}
      BY <1>4, CallOf DEF DoesClose
    <2>5. ASSUME handle[ConsumerMq[i]] # NullHandle, handle'[ConsumerMq[i]] = NullHandle PROVE c.no_readers
      <3>1. arg[t].slot = ConsumerMq[i]
        BY <1>1, <2>5, CloserOf
      <3>2. j = i /\ "READER" \in arg[t].flags
        BY <1>1, <2>4, <3>1, Distinctness, Constants
      <3>3. b.readers = 1
        BY <2>5, HandleUses
      <3> QED BY <1>4, <2>4, <3>2, <3>3 DEF DoesClose
    <2>6. ASSUME handle[ProducerMq[i]] # NullHandle, handle'[ProducerMq[i]] = NullHandle PROVE c.no_writers
      <3>1. arg[t].slot = ProducerMq[i]
        BY <1>1, <2>6, CloserOf
      <3>2. j = i /\ "WRITER" \in arg[t].flags
        BY <1>1, <2>4, <3>1, Distinctness, Constants
      <3>3. b.writers = 1
        BY <2>6, HandleUses
      <3> QED BY <1>4, <2>4, <3>2, <3>3 DEF DoesClose
    <2> QED BY <2>2, <2>3, <2>5, <2>6
  <1> QED BY <1>3, <1>4

LEMMA CallRaised ==
    ASSUME QInv, QInv', Running, ProgInv, NEW t \in Threads, CallLock(t) \/ CallStep(t) \/ CallSpurious(t),
           NEW q \in Queues, InUse(mq[q]) => Raised(mq[q])
    PROVE  InUse(mq'[q]) => Raised(mq'[q])
  <1> USE DEF QInv, QueueInv
  <1>1. Patient(t)
    <2>1. SUFFICES ASSUME pc[t] \in {"read", "write", "write_loop"} PROVE "NONBLOCK" \notin arg[t].flags
      BY DEF Patient
    <2>2. At(t) \in {"reading", "writing"}
      BY <2>1, PhaseIs DEF At
    <2> QED BY <2>2, CallOf
  <1>2. pc[t] = "open" => /\ "READER" \in arg[t].flags => ~mq[arg[t].q].no_readers
                          /\ "WRITER" \in arg[t].flags => ~mq[arg[t].q].no_writers
    <2>1. pc[t] = "open" => At(t) = "opening"
      BY PhaseIs DEF At
    <2> QED BY <2>1, OpensFresh
  <1>3. Lock(t) \/ Progress(t) \/ SpuriousWakeup(t) \/ PollFrame
    BY AddPoll, DelPoll, CountPoll, PlainPoll, WakeShape, WakePoll DEF CallLock, CallStep, CallSpurious, PollLock, PollStep
  <1> QED BY <1>1, <1>2, <1>3, CallRaises

LEMMA CallShows ==
    ASSUME QInv, QInv', Running, ProgInv, ProgInv', NEW t \in Threads, CallLock(t) \/ CallStep(t) \/ CallSpurious(t),
           NEW i \in Entries, Shown(i)
    PROVE  Shown(i)'
  <1> DEFINE b == mq[QueueOf[i]]  c == mq'[QueueOf[i]]
  <1>1. Effect(t) /\ UNCHANGED <<argv, main, cons, prod>>
    BY ProgramEffect
  <1>2. i \in Producers /\ QueueOf[i] \in Queues
    BY Constants, EntriesAre DEF ProgInv
  <1>3. SUFFICES ASSUME InUse(c) PROVE Raised(c) /\ (ConsGone(i)' => c.no_readers) /\ (ProdGone(i)' => c.no_writers)
    BY DEF Shown
  <1>4. InUse(b) /\ Raised(b) /\ (ConsGone(i) => b.no_readers) /\ (ProdGone(i) => b.no_writers)
    BY <1>1, <1>3, SidesGo DEF Shown
  <1>5. Raised(c)
    BY <1>2, <1>3, <1>4, CallRaised
  <1>6. ConsGone(i)' => ConsGone(i) \/ (handle[ConsumerMq[i]] # NullHandle /\ handle'[ConsumerMq[i]] = NullHandle)
    BY <1>1 DEF ConsGone
  <1>7. ProdGone(i)' => ProdGone(i) \/ (handle[ProducerMq[i]] # NullHandle /\ handle'[ProducerMq[i]] = NullHandle)
    <2>1. SUFFICES ASSUME ProdGone(i)', ProdHolds(i)
                   PROVE  handle[ProducerMq[i]] # NullHandle /\ handle'[ProducerMq[i]] = NullHandle
      BY <1>1 DEF ProdGone
    <2>2. ~ProdHolds(i)'
      BY <2>1 DEF ProdGone
    <2>3. handle[ProducerMq[i]] = [q |-> QueueOf[i], flags |-> {"WRITER"}]
      BY <1>2, <2>1 DEF ProgInv, HandlesHeld, Held
    <2>4. handle'[ProducerMq[i]] = NullHandle
      BY <1>2, <2>2 DEF ProgInv, HandlesHeld, Held
    <2> QED BY <1>2, <2>3, <2>4, Constants DEF NullHandle
  <1> QED BY <1>1, <1>3, <1>4, <1>5, <1>6, <1>7, SidesGo

-----------------------------------------------------------------------------
(* What another thread, or a call of its own, leaves of what the consumer  *)
(* has seen.                                                               *)
ConsSees ==
    /\ \A i \in Entries : ConsGone(i)' # ConsGone(i) => i = cons.i /\ cons.at = "closed"
    /\ \A i \in Entries : Readable(i) =>
          \/ Readable(i)'
          \/ i = cons.i /\ (cons.at = "closed" \/ (cons.at = "got" /\ At(ConsumerThread)' # "reading"))
    /\ At(ConsumerThread)' = "reading" => At(ConsumerThread) = "reading"
    /\ spurious => spurious'

ReaderUses == \A i \in Entries : handle[ConsumerMq[i]] # NullHandle => InUse(mq[QueueOf[i]])
LEMMA ReadersUse == QInv /\ ProgInv => ReaderUses
  BY HandleUses DEF ReaderUses

LEMMA ReadyStays ==
    ASSUME QInv, QInv', Running, ProgInv, ProgInv', NEW t \in Threads, CallLock(t) \/ CallStep(t) \/ CallSpurious(t),
           cons.at # "none", NEW i \in Entries, Readable(i), ~ConsGone(i)'
    PROVE  ReadyIn(i)' \/ (i = cons.i /\ cons.at = "got" /\ At(ConsumerThread)' # "reading")
  <1> DEFINE q == QueueOf[i]  b == mq[q]  c == mq'[q]
  <1>1. Effect(t) /\ UNCHANGED <<argv, main, cons, prod>>
    BY ProgramEffect
  <1>2. i \in Producers /\ q \in Queues /\ Entries' = Entries
    BY <1>1, Constants, EntriesAre DEF ProgInv, Entries
  <1>3. CASE b.no_writers
    <2>1. ProdGone(i)
      BY <1>2, <1>3 DEF ProgInv, QueueKnown
    <2>2. handle'[ConsumerMq[i]] # NullHandle
      BY <1>1 DEF ConsGone
    <2>3. InUse(c)
      <3>1. (QInv /\ ProgInv => ReaderUses)'
        BY ReadersUse, PTL
      <3> QED BY <1>2, <2>2, <3>1 DEF ReaderUses
    <2>4. c.no_writers
      BY <1>1, <1>3, <2>1, <2>3, SidesGo
    <2> QED BY <2>4 DEF ReadyIn
  <1>4. CASE Got(i) < stored[q]
    <2>1. /\ Got(i) \in Nat /\ stored[q] \in Nat
          /\ rcvd \in [Queues -> Seq(Msg \cup {None})] /\ stored \in [Queues -> Nat]
      BY <1>2, ReadyTells DEF QInv, QueueInv, MemoryInv, TypeOK
    <2>2. CASE DoesTake(t)
      <3>1. t = ConsumerThread /\ arg[t].q = QueueOf[cons.i] /\ cons.at = "got" /\ cons.i \in Entries
        BY <1>1, <2>2, Receives
      <3>2. At(ConsumerThread)' # "reading"
        BY <2>2, <3>1 DEF DoesTake
      <3>3. CASE i # cons.i
        <4>1. QueueOf[cons.i] # q
          BY <1>2, <3>1, <3>3, Distinctness, EntriesAre DEF ProgInv
        <4>2. rcvd'[q] = rcvd[q] /\ stored'[q] = stored[q]
          BY <1>2, <2>1, <2>2, <3>1, <4>1 DEF DoesTake
        <4> QED BY <1>4, <4>2 DEF ReadyIn, Got
      <3> QED BY <3>1, <3>2, <3>3
    <2>3. CASE DoesPut(t)
      <3>1. rcvd'[q] = rcvd[q] /\ stored'[q] \in {stored[q], stored[q] + 1}
        BY <1>2, <2>1, <2>3 DEF DoesPut
      <3> QED BY <1>4, <2>1, <3>1 DEF ReadyIn, Got
    <2>4. CASE UNCHANGED <<stored, rcvd>>
      BY <1>4, <2>4 DEF ReadyIn, Got
    <2> QED BY <1>1, <2>2, <2>3, <2>4 DEF Effect, DoesNothing, DoesOpen, DoesClose, DoesDestroy, DoesEof, DoesReject, DoesReturn
  <1> QED BY <1>3, <1>4 DEF Readable, ReadyIn

LEMMA CallSees ==
    ASSUME QInv, QInv', Running, ProgInv, ProgInv', NEW t \in Threads, CallLock(t) \/ CallStep(t) \/ CallSpurious(t),
           cons.at # "none"
    PROVE  ConsSees
  <1>1. Effect(t) /\ UNCHANGED <<argv, main, cons, prod>>
    BY ProgramEffect
  <1>2. /\ Entries' = Entries /\ Entries \subseteq Producers /\ cons.i \in Entries
        /\ \A i \in Entries : ConsumerMq[i] \in Slots
        /\ handle \in [Slots -> Handle]
    BY <1>1, Constants, EntriesAre DEF ProgInv, ProgTypes, Entries, QInv, QueueInv, MemoryInv, TypeOK
  <1>3. ASSUME NEW i \in Entries, ConsGone(i), ~ConsGone(i)' PROVE FALSE
    <2>1. handle[ConsumerMq[i]] = NullHandle /\ handle'[ConsumerMq[i]] # NullHandle
      BY <1>1, <1>3 DEF ConsGone
    <2>2. DoesOpen(t)
      BY <1>1, <1>2, <2>1 DEF Effect, DoesNothing, DoesClose, DoesDestroy, DoesTake, DoesEof, DoesPut, DoesReject, DoesReturn
    <2>3. PICK j \in Entries : cons.at = "none" \/ arg[t].dst = ProducerMq[j]
      BY <2>2, OpensFresh DEF DoesOpen
    <2>4. arg[t].dst = ConsumerMq[i]
      BY <1>2, <2>1, <2>2 DEF DoesOpen
    <2> QED BY <1>2, <2>3, <2>4, Distinctness
  <1>4. ASSUME NEW i \in Entries, ~ConsGone(i), ConsGone(i)' PROVE i = cons.i /\ cons.at = "closed"
    <2>1. handle[ConsumerMq[i]] # NullHandle /\ handle'[ConsumerMq[i]] = NullHandle
      BY <1>1, <1>4 DEF ConsGone
    <2>2. DoesClose(t) /\ arg[t].slot = ConsumerMq[i]
      BY <1>1, <1>2, <2>1, CloserOf
    <2>3. PICK j \in Entries : \/ t = MainThread /\ arg[t].slot = MainMq[j]
                               \/ t = ConsumerThread /\ arg[t].slot = ConsumerMq[j]
                               \/ t = ProducerThreads[j] /\ arg[t].slot = ProducerMq[j]
      BY <2>2, CallOf DEF DoesClose
    <2>4. t = ConsumerThread
      BY <1>2, <2>2, <2>3, Distinctness
    <2>5. cons.at = "closed"
      BY <2>2, <2>4, ConsLabels DEF DoesClose
    <2>6. arg[t].slot = ConsumerMq[cons.i]
      BY <2>2, <2>4, <2>5 DEF ProgInv, ConsPlace, DoesClose
    <2> QED BY <1>2, <2>2, <2>5, <2>6, Distinctness
  <1>5. At(ConsumerThread)' = "reading" => At(ConsumerThread) = "reading"
    BY <1>1, Constants DEF Effect, DoesNothing, DoesOpen, DoesClose, DoesDestroy, DoesTake, DoesEof, DoesPut, DoesReject,
                           DoesReturn, RestStays, SamePlace
  <1>6. spurious => spurious'
    BY DEF CallLock, CallStep, CallSpurious, progVars
  <1>7. \A i \in Entries : ConsGone(i)' # ConsGone(i) => i = cons.i /\ cons.at = "closed"
    BY <1>3, <1>4 DEF ConsGone
  <1>8. ASSUME NEW i \in Entries, Readable(i)
        PROVE  Readable(i)' \/ (i = cons.i /\ (cons.at = "closed" \/ (cons.at = "got" /\ At(ConsumerThread)' # "reading")))
    <2>1. CASE ConsGone(i)'
      BY <1>4, <1>8, <2>1 DEF Readable
    <2>2. CASE ~ConsGone(i)'
      BY <1>8, <2>2, ReadyStays DEF Readable
    <2> QED BY <2>1, <2>2
  <1> QED BY <1>5, <1>6, <1>7, <1>8 DEF ConsSees

(* What a poll finds of an open queue.                                     *)
LEMMA SeenBy ==
    ASSUME QInv, ProgInv, NEW i \in Entries, Shown(i), cons.at # "none", ~ConsGone(i)
    PROVE  LET q == QueueOf[i]  h == [q |-> q, flags |-> {"READER"}]  e == mq[q].queue_event IN
           /\ "READABLE" \in e <=> ReadyIn(i)
           /\ "NOREADERS" \notin e /\ ("NOWRITERS" \in e <=> mq[q].no_writers)
           /\ ProdGone(i) => "NOWRITERS" \in e
           /\ Answer(i, Revents(h, {"READABLE"}, e))
  <1> DEFINE q == QueueOf[i]  h == [q |-> q, flags |-> {"READER"}]  e == mq[q].queue_event
  <1>1. i \in Producers
    BY EntriesAre DEF ProgInv
  <1>2. InUse(mq[q])
    BY HandleUses DEF ConsGone
  <1>3. Raised(mq[q]) /\ (ProdGone(i) => mq[q].no_writers)
    BY <1>2 DEF Shown
  <1>4. "READABLE" \in e <=> ReadyIn(i)
    BY <1>1, <1>3, ReadyTells
  <1>5. ~mq[q].no_readers
    BY <1>1 DEF ProgInv, QueueKnown
  <1>6. "NOREADERS" \notin e /\ ("NOWRITERS" \in e <=> mq[q].no_writers) /\ ("NOWRITERS" \in e => "READABLE" \in e)
    BY <1>3, <1>5 DEF Raised
  <1>7. Revents(h, {"READABLE"}, e) = e \cap {"READABLE", "NOWRITERS"}
    BY <1>6 DEF Revents
  <1>8. Expected(Revents(h, {"READABLE"}, e)) /\ (Revents(h, {"READABLE"}, e) # {} => "READABLE" \in e)
    BY <1>6, <1>7 DEF Expected
  <1> QED BY <1>3, <1>4, <1>6, <1>8 DEF Answer, Readable

LEMMA ConsFdsAre ==
    ASSUME ProgInv
    PROVE  /\ DOMAIN ConsFds = Entries
           /\ \A i \in Entries : /\ ConsFds[i].events = {"READABLE"} /\ ConsFds[i].queue = ConsHandles[i]
                                 /\ ~ConsGone(i) => ConsFds[i].queue = [q |-> QueueOf[i], flags |-> {"READER"}]
           /\ LiveFds(ConsFds) = {i \in Entries : ~ConsGone(i)}
  <1>1. \A i \in Entries : QueueOf[i] # None
    BY Constants, EntriesAre DEF ProgInv
  <1> QED BY <1>1 DEF ConsFds, Fds, ConsHandles, LiveFds, NullHandle

(* The poll of the consumer for messages.                                  *)
LEMMA LooksOn ==
    ASSUME QInv, Running, ProgInv, UNCHANGED <<argv, cons>>, ConsSees, \A i \in Entries : Shown(i),
           cons.at = "polled", Moves(ConsumerThread), ConsPolls
    PROVE  ConsPolls'
  <1> DEFINE t == ConsumerThread  p == poll[t]  r == poll'[t]  l == pc[t]  m == pc'[t]  c == helper_count(t)
             Near == \A i \in Entries : Answer(i, r.revents[i])
             Sig == spurious \/ Readable(1)
             Goes == /\ r.fds = ConsFds /\ DOMAIN r.revents = Entries
                     /\ m \in PollLabels \/ (m = "idle" /\ ret'[t] \in {"OK", "ENOMEM"})
                     /\ Near
                     /\ Finished(m, ret'[t]) => spurious \/ r.ready > 0
                     /\ m = "poll_wake" => spurious' \/ Readable(1)
                     /\ m = "poll_recount" => spurious \/ r.ready > 0 \/ (1 \in r.todo /\ Readable(1))
  <1>1. /\ DOMAIN ConsFds = Entries /\ LiveFds(ConsFds) = {i \in Entries : ~ConsGone(i)} /\ 1 \in Entries
        /\ \A i \in Entries : ConsFds[i].events = {"READABLE"}
        /\ \A i \in Entries : ~ConsGone(i) => ConsFds[i].queue = [q |-> QueueOf[i], flags |-> {"READER"}]
    <2>1. 1 \in Entries
      BY Constants, EntriesAre DEF ProgInv
    <2> QED BY <2>1, ConsFdsAre
  <1>2. /\ p.fds = ConsFds /\ DOMAIN p.revents = Entries
        /\ l \in PollLabels \/ (l = "idle" /\ ret[t] \in {"OK", "ENOMEM"})
        /\ \A i \in Entries : Answer(i, p.revents[i])
        /\ Finished(l, ret[t]) => spurious \/ p.ready > 0
        /\ l = "poll_wake" => spurious \/ Readable(1)
        /\ l = "poll_recount" => spurious \/ p.ready > 0 \/ (1 \in p.todo /\ Readable(1))
    BY <1>1 DEF ConsPolls, Asks, Looks
  <1>3. ASSUME NEW i \in Entries, ~ConsGone(i)
        PROVE  /\ Occurred(ConsFds[i]) <=> Readable(i)
               /\ Answer(i, Revents(ConsFds[i].queue, ConsFds[i].events, mq[ConsFds[i].queue.q].queue_event))
    <2>1. ConsFds[i].events = {"READABLE"} /\ ConsFds[i].queue = [q |-> QueueOf[i], flags |-> {"READER"}]
      BY <1>1, <1>3
    <2>2. /\ "READABLE" \in mq[QueueOf[i]].queue_event <=> ReadyIn(i)
          /\ Answer(i, Revents([q |-> QueueOf[i], flags |-> {"READER"}], {"READABLE"}, mq[QueueOf[i]].queue_event))
      BY <1>3, SeenBy
    <2>3. Occurred(ConsFds[i]) <=> "READABLE" \in mq[QueueOf[i]].queue_event
      BY <2>1 DEF Occurred
    <2> QED BY <1>3, <2>1, <2>2, <2>3 DEF Readable
  <1>4. t \in Threads /\ p \in PollRec
    BY Constants DEF QInv, PollInv
  <1>5. Goes
    <2>1. CASE Stays(t)
      <3>1. spurious => spurious'
        BY DEF ConsSees
      <3> QED BY <1>2, <2>1, <3>1 DEF Stays
    <2>2. CASE l = "poll_add" /\ m = "poll_add" /\ SameAnswers(p, r)
      BY <1>2, <2>2 DEF SameAnswers, Finished, PollLabels
    <2>3. CASE l = "poll_add" /\ m = "poll_count" /\ r = Restarted(t)
      <3>1. r.fds = p.fds /\ r.revents = p.revents
        BY <1>4, <2>3 DEF Restarted, PollRec
      <3> QED BY <1>2, <2>3, <3>1 DEF Finished, PollLabels
    <2>4. CASE l = "poll_wake" /\ m = "poll_recount" /\ r = Restarted(t)
      <3>1. r.fds = p.fds /\ r.revents = p.revents /\ r.todo = LiveFds(p.fds)
        BY <1>4, <2>4 DEF Restarted, PollRec
      <3>2. Readable(1) => 1 \in r.todo
        BY <1>1, <1>2, <3>1 DEF Readable
      <3> QED BY <1>2, <2>4, <3>1, <3>2 DEF Finished, PollLabels
    <2>5. CASE l \in {"poll_count", "poll_recount"} /\ (m = l \/ m = CountEnds(l, c))
               /\ ((r = c /\ m = l /\ ~EndOfLoop(t)) \/ (r = [c EXCEPT !.todo = LiveFds(c.fds)] /\ m = CountEnds(l, c) /\ EndOfLoop(t)))
      <3> DEFINE i == Current(t)
      <3>1. /\ i \in p.todo /\ i \in Entries /\ ~ConsGone(i) /\ p.ready \in Nat
            /\ r.fds = ConsFds /\ DOMAIN r.revents = Entries /\ r.ready = c.ready
            /\ \A j \in Entries :
                  r.revents[j] = IF j = i THEN Revents(ConsFds[i].queue, ConsFds[i].events, mq[ConsFds[i].queue.q].queue_event)
                                 ELSE p.revents[j]
            /\ c.ready = IF Occurred(ConsFds[i]) THEN p.ready + 1 ELSE p.ready
            /\ c.todo = p.todo \ {i}
        <4> DEFINE fd == p.fds[i]  y == [c EXCEPT !.todo = LiveFds(c.fds)]
        <4>1. /\ i \in p.todo /\ i \in LiveFds(p.fds) /\ p.ready \in Nat
              /\ c.fds = p.fds /\ c.todo = p.todo \ {i} /\ DOMAIN c.revents = DOMAIN p.revents
              /\ \A j \in DOMAIN p.revents :
                    c.revents[j] = IF j = i THEN Revents(fd.queue, fd.events, mq[fd.queue.q].queue_event) ELSE p.revents[j]
              /\ c.ready = IF Occurred(fd) THEN p.ready + 1 ELSE p.ready
              /\ y.fds = p.fds /\ y.revents = c.revents /\ y.ready = c.ready
          BY <1>4, <2>5, CountIs
        <4>2. r = c \/ r = y
          BY <2>5
        <4> HIDE DEF c, i, y
        <4> QED BY <1>1, <1>2, <4>1, <4>2
      <3>2. Near
        BY <1>2, <1>3, <3>1
      <3>3. c.ready \in Nat /\ c.ready >= p.ready
        BY <3>1
      <3>4. l = "poll_recount" => spurious \/ c.ready > 0 \/ (1 \in p.todo \ {i} /\ Readable(1))
        <4>1. i = 1 /\ Readable(1) => c.ready > 0
          BY <1>3, <3>1
        <4> QED BY <1>2, <3>1, <3>3, <4>1
      <3>5. CASE m = l /\ r = c /\ ~EndOfLoop(t)
        <4>1. r.todo = p.todo \ {i}
          BY <3>1, <3>5
        <4> QED BY <2>5, <3>1, <3>2, <3>4, <3>5, <4>1 DEF Finished, PollLabels
      <3>6. CASE m = CountEnds(l, c) /\ EndOfLoop(t)
        <4>1. p.todo \ {i} = {}
          BY <3>6 DEF EndOfLoop
        <4>2. m \in {"poll_sleep", "poll_unlock"} /\ (m = "poll_unlock" => l = "poll_recount" \/ c.ready # 0)
          BY <2>5, <3>6 DEF CountEnds
        <4>3. m = "poll_unlock" => spurious \/ c.ready > 0
          BY <2>5, <3>3, <3>4, <4>1, <4>2
        <4> QED BY <3>1, <3>2, <4>2, <4>3 DEF Finished, PollLabels
      <3> QED BY <2>5, <3>5, <3>6
    <2>6. CASE l = "poll_sleep" /\ m = "poll_wait" /\ r = p
      BY <1>2, <2>6 DEF Finished, PollLabels
    <2>7. CASE l = "poll_wait" /\ m = "poll_wake" /\ r = p /\ (spurious' \/ Signalled(t))
      <3>1. Signalled(t) => Readable(1)
        BY <1>1, <1>2, <1>3 DEF Signalled
      <3> QED BY <1>2, <2>7, <3>1 DEF Finished, PollLabels
    <2>8. CASE l = "poll_unlock" /\ m = "poll_del" /\ r = p
      BY <1>2, <2>8 DEF Finished, PollLabels
    <2>9. CASE l = "poll_del" /\ m \in {"poll_del", "poll_finish"} /\ SameAnswers(p, r)
      BY <1>2, <2>9 DEF SameAnswers, Finished, PollLabels
    <2>10. CASE l = "poll_finish" /\ m = "idle" /\ ret'[t] = "OK" /\ r = p
      BY <1>2, <2>10 DEF Finished, PollLabels
    <2> QED BY <2>1, <2>2, <2>3, <2>4, <2>5, <2>6, <2>7, <2>8, <2>9, <2>10 DEF Moves
  <1>6. Entries' = Entries /\ \A i \in Entries : ConsGone(i)' <=> ConsGone(i)
    <2>1. Entries' = Entries /\ cons.at # "closed"
      BY DEF Entries
    <2> QED BY <2>1 DEF ConsSees, ConsGone
  <1>7. (spurious => spurious') /\ \A i \in Entries : Readable(i) => Readable(i)'
    BY DEF ConsSees
  <1>8. ConsFds' = ConsFds
    BY <1>6 DEF ConsFds, Fds, ConsHandles
  <1>9. \A i \in Entries : Expected(r.revents[i]) /\ (r.revents[i] # {} => Readable(i)')
    BY <1>5, <1>7 DEF Answer
  <1>10. (\A i \in Entries : Answer(i, poll[t].revents[i]))'
    BY <1>6, <1>9 DEF Answer, Expected
  <1>11. Asks(pc[t], ret[t], poll[t], ConsFds)'
    BY <1>1, <1>5, <1>6, <1>8 DEF Asks
  <1>12. Looks(pc[t], ret[t], poll[t])'
    BY <1>5, <1>7, <1>10, <1>1 DEF Looks, Finished
  <1> QED BY <1>11, <1>12 DEF ConsPolls

(* Its poll for the end of file, and the check of main.                    *)
LEMMA VerifyOn ==
    ASSUME QInv, Running, ProgInv, UNCHANGED cons, \A i \in Entries : Shown(i), cons.at = "verified",
           Moves(ConsumerThread), ConsVerifies
    PROVE  ConsVerifies'
  <1> DEFINE i == cons.i  q == QueueOf[i]  e == mq[q].queue_event  h == [q |-> q, flags |-> {"READER"}]
  <1>1. ConsumerThread \in Threads /\ i \in Entries /\ i \in Producers /\ Counted(i) /\ q # None
    BY ConsumerIs, Constants DEF ProgInv
  <1>2. ~ConsGone(i) /\ ProdGone(i)
    BY <1>1 DEF ProgInv, ConsPlace, ConsOpen, ConsGone, Counted, SawEof, Drained
  <1>3. "NOREADERS" \notin e /\ "NOWRITERS" \in e
    BY <1>1, <1>2, SeenBy
  <1>4. Revents(h, {"NOWRITERS"}, e) = {"NOWRITERS"}
    BY <1>3 DEF Revents
  <1>5. DOMAIN EofFds = {1} /\ EofFds[1] = [queue |-> h, events |-> {"NOWRITERS"}]
    BY DEF EofFds, Fds
  <1>6. IsFiniteSet({1})
    BY FS_Singleton
  <1>7. Occurred(EofFds[1])
    BY <1>3, <1>5 DEF Occurred
  <1>8. h # NullHandle
    BY <1>1 DEF NullHandle
  <1>9. \A j \in DOMAIN EofFds : /\ EofFds[j].queue # NullHandle /\ Occurred(EofFds[j])
                                 /\ Revents(EofFds[j].queue, EofFds[j].events, mq[EofFds[j].queue.q].queue_event)
                                       = {"NOWRITERS"}
    BY <1>4, <1>5, <1>7, <1>8
  <1>10. SurePoll(ConsumerThread, EofFds, {"NOWRITERS"})
    BY DEF ConsVerifies
  <1> DEFINE t == ConsumerThread
  <1>11. Sure(pc'[t], ret'[t], poll'[t], EofFds, {"NOWRITERS"})
    BY <1>1, <1>5, <1>6, <1>9, <1>10, SureMoves
  <1>12. EofFds' = EofFds
    BY DEF EofFds
  <1>13. SurePoll(t, EofFds, {"NOWRITERS"})'
    BY <1>11, <1>12 DEF SurePoll
  <1> QED BY <1>13 DEF ConsVerifies

LEMMA CheckOn ==
    ASSUME QInv, Running, ProgInv, UNCHANGED <<argv, main>>, \A i \in Entries : Shown(i), main.at = "polled",
           Moves(MainThread), MainPolls
    PROVE  MainPolls'
  <1> DEFINE both == {"NOREADERS", "NOWRITERS"}  t == MainThread
  <1>1. t \in Threads /\ Entries \subseteq Producers /\ IsFiniteSet(Entries) /\ Entries # {} /\ Entries' = Entries
    <2>1. 1 \in Entries
      BY Constants, EntriesAre DEF ProgInv
    <2> QED BY <2>1, Constants, EntriesAre DEF ProgInv, Entries
  <1>2. ASSUME NEW i \in Entries PROVE both \subseteq mq[QueueOf[i]].queue_event /\ QueueOf[i] # None
    <2>1. MainHolds(i) /\ cons.at = "done" /\ prod[i].at = "done"
      BY <1>2 DEF MainHolds, ProgInv, Started
    <2>2. handle[MainMq[i]] = [q |-> QueueOf[i], flags |-> {}] /\ QueueOf[i] # None
      BY <1>1, <2>1, Constants DEF ProgInv, HandlesHeld, Held
    <2>3. InUse(mq[QueueOf[i]])
      BY <2>2, HandleUses DEF NullHandle
    <2>4. ConsGone(i)
      BY <2>1 DEF ProgInv, Closed, AllGone
    <2>5. ProdGone(i)
      BY <2>1 DEF ProdGone, ProdHolds
    <2>6. Raised(mq[QueueOf[i]]) /\ mq[QueueOf[i]].no_readers /\ mq[QueueOf[i]].no_writers
      BY <2>3, <2>4, <2>5 DEF Shown
    <2> QED BY <2>2, <2>6 DEF Raised
  <1>3. DOMAIN CheckFds = Entries
        /\ \A i \in Entries : CheckFds[i] = [queue |-> [q |-> QueueOf[i], flags |-> {}], events |-> both]
    BY DEF CheckFds, Fds
  <1>4. ASSUME NEW i \in Entries
        PROVE  /\ CheckFds[i].queue # NullHandle /\ Occurred(CheckFds[i])
               /\ Revents(CheckFds[i].queue, CheckFds[i].events, mq[CheckFds[i].queue.q].queue_event) = both
    <2>1. Occurred(CheckFds[i])
      BY <1>2, <1>3 DEF Occurred
    <2>2. Revents([q |-> QueueOf[i], flags |-> {}], both, mq[QueueOf[i]].queue_event) = both
      BY <1>2 DEF Revents
    <2>3. CheckFds[i].queue = [q |-> QueueOf[i], flags |-> {}] /\ CheckFds[i].events = both
      BY <1>3
    <2>4. CheckFds[i].queue # NullHandle
      BY <1>2, <2>3 DEF NullHandle
    <2> HIDE DEF both
    <2> QED BY <2>1, <2>2, <2>3, <2>4
  <1>5. SurePoll(t, CheckFds, both)
    BY DEF MainPolls
  <1> HIDE DEF both
  <1>6. Sure(pc'[t], ret'[t], poll'[t], CheckFds, both)
    BY <1>1, <1>3, <1>4, <1>5, SureMoves
  <1>7. CheckFds' = CheckFds
    BY <1>1 DEF CheckFds
  <1>8. SurePoll(t, CheckFds, both)'
    BY <1>6, <1>7 DEF SurePoll, both
  <1> QED BY <1>8 DEF MainPolls, both

LEMMA ConsOn ==
    ASSUME QInv, Running, ProgInv, UNCHANGED <<argv, cons>>, cons.at # "none" => ConsSees, EventsInv,
           cons.at \in {"polled", "verified"} => Moves(ConsumerThread)
    PROVE  ConsAnswers' /\ ConsReads' /\ ConsPolls' /\ ConsVerifies'
  <1>1. CASE cons.at = "none"
    BY <1>1 DEF ConsAnswers, Ahead, ConsReads, ConsPolls, ConsVerifies
  <1>2. CASE cons.at # "none"
    <2>1. Entries' = Entries /\ cons.i \in Entries /\ cons.i \in Nat /\ Entries \subseteq Nat
      BY ConsumerIs, EntriesAre DEF ProgInv, Entries
    <2>2. ConsAnswers'
      <3>1. ASSUME NEW i \in Entries, Ahead(i), cons.revents[i] # {}, Readable(i) PROVE Readable(i)'
        <4>1. i # cons.i \/ cons.at \notin {"got", "closed"}
          BY <2>1, <3>1 DEF Ahead
        <4> QED BY <1>2, <3>1, <4>1 DEF ConsSees
      <3> QED BY <2>1, <3>1 DEF EventsInv, ConsAnswers, Answer, Ahead, Expected
    <2>3. ConsReads'
      <3>1. SUFFICES ASSUME cons.at = "got" PROVE ConsOpen' /\ (At(ConsumerThread)' = "reading" => ReadyIn(cons.i)')
        BY DEF ConsReads
      <3>2. ~ConsGone(cons.i)
        BY <1>2, <3>1 DEF EventsInv, ConsReads, ConsOpen, ConsGone
      <3>3. ~ConsGone(cons.i)'
        BY <1>2, <2>1, <3>1, <3>2 DEF ConsSees, ConsGone
      <3>4. ConsOpen'
        BY <1>2, <3>3 DEF ConsOpen, ConsGone
      <3>5. ASSUME At(ConsumerThread)' = "reading" PROVE ReadyIn(cons.i)'
        <4>1. Readable(cons.i)
          BY <1>2, <3>1, <3>2, <3>5 DEF EventsInv, ConsReads, ConsSees, Readable
        <4> QED BY <1>2, <2>1, <3>1, <3>5, <4>1 DEF ConsSees, Readable
      <3> QED BY <3>4, <3>5
    <2>4. ConsPolls'
      BY <1>2, LooksOn DEF EventsInv, ConsPolls
    <2>5. ConsVerifies'
      BY VerifyOn DEF EventsInv, ConsVerifies
    <2> QED BY <2>2, <2>3, <2>4, <2>5
  <1> QED BY <1>1, <1>2

LEMMA CallEvents ==
    ASSUME QInv, QInv', Running, ProgInv, ProgInv', NEW t \in Threads, CallLock(t) \/ CallStep(t) \/ CallSpurious(t),
           EventsInv
    PROVE  EventsInv'
  <1>1. Patient(t)
    <2>1. SUFFICES ASSUME pc[t] \in {"read", "write", "write_loop"} PROVE "NONBLOCK" \notin arg[t].flags
      BY DEF Patient
    <2>2. At(t) \in {"reading", "writing"}
      BY <2>1, PhaseIs DEF At
    <2> QED BY <2>2, CallOf
  <1>2. UNCHANGED <<argv, main, cons, prod>> /\ Entries' = Entries
    BY ProgramEffect DEF Entries
  <1>3. \A i \in Entries : Shown(i)'
    BY CallShows DEF EventsInv
  <1>4. \A u \in Threads : pc[u] \in {"idle"} \cup PollLabels => Moves(u)
    BY <1>1, PollMoves
  <1>5. cons.at \in {"polled", "verified"} => Moves(ConsumerThread)
    BY <1>4, Constants, AtTells DEF ProgInv, ConsPlace, QInv, QueueInv
  <1>6. main.at = "polled" => Moves(MainThread)
    BY <1>4, Constants, AtTells DEF ProgInv, MainPlace, QInv, QueueInv
  <1>7. ConsAnswers' /\ ConsReads' /\ ConsPolls' /\ ConsVerifies'
    BY <1>2, <1>5, CallSees, ConsOn
  <1>8. MainPolls'
    BY <1>2, <1>6, CheckOn DEF EventsInv, MainPolls
  <1> QED BY <1>2, <1>3, <1>7, <1>8 DEF EventsInv

-----------------------------------------------------------------------------
(* The statements of a thread between its calls leave the queues and the   *)
(* calls of the other threads as they are.                                 *)
Calls(t) ==
    \/ UNCHANGED pollVars
    \/ poll' = poll /\ ((\E label, a : Enter(t, label, a)) \/ (\E e : Refuse(t, e)))
    \/ \E c : c.t = t /\ msg_queue_poll(c)

LEMMA PollPart ==
    ASSUME QInv, NEW c, c.t \in Threads, msg_queue_poll(c)
    PROVE  LET t == c.t  fds == Resolved(c.fds)  p == poll'[t] IN
           /\ \A u \in Threads \ {t} : Stays(u)
           /\ p = [fds |-> fds, todo |-> LiveFds(fds), revents |-> Cleared(t, fds), ready |-> 0]
           /\ \/ ~ValidFds(fds)
              \/ pc'[t] = "idle" /\ ret'[t] = "ENOMEM"
              \/ pc'[t] = "poll_add"
  <1> DEFINE t == c.t  fds == Resolved(c.fds)
  <1>1. pc \in [Threads -> Label] /\ ret \in [Threads -> Result] /\ poll \in [Threads -> PollRec]
    BY DEF QInv, QueueInv, MemoryInv, TypeOK, PollInv
  <1>2. /\ pc[t] = "idle"
        /\ poll' = [poll EXCEPT ![t] = [fds |-> fds, todo |-> LiveFds(fds),
                                        revents |-> Cleared(t, fds), ready |-> 0]]
        /\ \/ ~ValidFds(fds) /\ Refuse(t, "EINVAL")
           \/ ValidFds(fds) /\ Refuse(t, "ENOMEM")
           \/ pc' = [pc EXCEPT ![t] = "poll_add"] /\ ret' = [ret EXCEPT ![t] = "none"]
    BY DEF msg_queue_poll
  <1> HIDE DEF fds
  <1>3. \A u \in Threads \ {t} : Stays(u)
    BY <1>1, <1>2 DEF Stays, Refuse
  <1>4. poll'[t] = [fds |-> fds, todo |-> LiveFds(fds), revents |-> Cleared(t, fds), ready |-> 0]
    BY <1>1, <1>2
  <1>5. \/ ~ValidFds(fds)
        \/ pc'[t] = "idle" /\ ret'[t] = "ENOMEM"
        \/ pc'[t] = "poll_add"
    BY <1>1, <1>2 DEF Refuse
  <1> QED BY <1>3, <1>4, <1>5 DEF fds

LEMMA CallsPart ==
    ASSUME QInv, NEW t \in Threads, Calls(t)
    PROVE  UNCHANGED <<mq, handle, stored, rcvd>> /\ \A u \in Threads \ {t} : Stays(u) /\ SamePlace(u)
  <1>1. pc \in [Threads -> Label] /\ ret \in [Threads -> Result]
    BY DEF QInv, QueueInv, MemoryInv, TypeOK
  <1>2. CASE UNCHANGED pollVars
    BY <1>2, Pauses DEF Stays
  <1>3. ASSUME poll' = poll, NEW label, NEW a, Enter(t, label, a)
        PROVE  UNCHANGED <<mq, handle, stored, rcvd>> /\ \A u \in Threads \ {t} : Stays(u) /\ SamePlace(u)
    <2>1. RestStays(t) /\ UNCHANGED <<mq, handle, stored, rcvd>>
      BY <1>3, Begins
    <2> QED BY <1>1, <1>3, <2>1 DEF RestStays, Stays, Enter
  <1>4. ASSUME poll' = poll, NEW e, Refuse(t, e)
        PROVE  UNCHANGED <<mq, handle, stored, rcvd>> /\ \A u \in Threads \ {t} : Stays(u) /\ SamePlace(u)
    <2>1. RestStays(t) /\ UNCHANGED <<mq, handle, stored, rcvd>>
      BY <1>4, IsRefused
    <2> QED BY <1>1, <1>4, <2>1 DEF RestStays, Stays, Refuse
  <1>5. ASSUME NEW c, c.t = t, msg_queue_poll(c)
        PROVE  UNCHANGED <<mq, handle, stored, rcvd>> /\ \A u \in Threads \ {t} : Stays(u) /\ SamePlace(u)
    BY <1>5, PollBegun, PollPart DEF RestStays
  <1> QED BY <1>2, <1>3, <1>4, <1>5 DEF Calls

LEMMA ConsCalls ==
    ASSUME QInv, Running, ProgInv, ConsStep
    PROVE  Calls(ConsumerThread) /\ UNCHANGED <<argv, spurious, main, prod>>
  <1>1. SlotOwner[ConsumerMq[cons.i]] = ConsumerThread
    BY ConsumerIs, Constants
  <1>2. CASE ConsPoll \/ ConsVerify
    BY <1>2 DEF ConsPoll, ConsVerify, ConsumerPoll, EofPoll, PollAll, Calls
  <1>3. CASE ConsRead
    BY <1>1, <1>3 DEF ConsRead, msg_queue_read, Transfer, Calls
  <1>4. CASE ConsClose
    BY <1>1, <1>4 DEF ConsClose, msg_queue_close, Calls
  <1>5. CASE ConsEnd \/ ConsPolled \/ ConsSkip \/ ConsGot \/ ConsVerified \/ ConsClosed
    BY <1>5 DEF ConsEnd, ConsPolled, ConsSkip, ConsGot, ConsVerified, ConsClosed, Calls
  <1> QED BY <1>2, <1>3, <1>4, <1>5 DEF ConsStep, ConsPoll, ConsVerify, ConsRead, ConsClose, ConsEnd, ConsPolled,
                                        ConsSkip, ConsGot, ConsVerified, ConsClosed

LEMMA ProdCalls ==
    ASSUME ProgInv, NEW i \in Entries, ProdStep(i)
    PROVE  /\ Calls(ProducerThreads[i]) /\ UNCHANGED <<argv, spurious, main, cons>>
           /\ prod[i].at # "none" /\ \A j \in Entries \ {i} : prod'[j] = prod[j]
  <1>1. SlotOwner[ProducerMq[i]] = ProducerThreads[i]
    BY ProducerIs, Constants
  <1>2. UNCHANGED <<argv, spurious, main, cons>> /\ prod[i].at # "none" /\ \A j \in Entries \ {i} : prod'[j] = prod[j]
    BY DEF ProdStep, ProdWrite, ProdWrote, ProdClose, ProdClosed, ProgInv, ProgTypes
  <1>3. CASE ProdWrite(i)
    BY <1>1, <1>3, <1>2 DEF ProdWrite, msg_queue_write, Transfer, Calls
  <1>4. CASE ProdClose(i)
    BY <1>1, <1>4, <1>2 DEF ProdClose, msg_queue_close, Calls
  <1>5. CASE ProdWrote(i) \/ ProdClosed(i)
    <2>1. UNCHANGED pollVars
      BY <1>5 DEF ProdWrote, ProdClosed
    <2> QED BY <1>2, <2>1 DEF Calls
  <1> QED BY <1>3, <1>4, <1>5, <1>2 DEF ProdStep

LEMMA MainCalls ==
    ASSUME ProgInv, MainStep, ~MainCreate
    PROVE  Calls(MainThread) /\ UNCHANGED <<argv, spurious>>
  <1>1. \A i \in Entries : SlotOwner[MainMq[i]] = MainThread
    BY MainIs, Constants
  <1>2. CASE MainOpenReader
    BY <1>1, <1>2 DEF MainOpenReader, msg_queue_open, ReaderOpen, Calls
  <1>3. CASE MainOpenWriter
    BY <1>1, <1>3 DEF MainOpenWriter, msg_queue_open, WriterOpen, Calls
  <1>4. CASE MainClose
    BY <1>1, <1>4 DEF MainClose, msg_queue_close, Calls
  <1>5. CASE MainPoll
    BY <1>5 DEF MainPoll, CheckPoll, PollAll, Calls
  <1>6. CASE MainOpenReaders \/ StartConsumer \/ StartProducer \/ MainPolled \/ MainClosed \/ MainExit
    BY <1>6 DEF MainOpenReaders, StartConsumer, StartProducer, MainPolled, MainClosed, MainExit, Calls
  <1> QED BY <1>2, <1>3, <1>4, <1>5, <1>6 DEF MainStep, MainOpenReader, MainOpenWriter, MainClose, MainPoll

(* What the flags tell is not changed by these statements.                 *)
LEMMA ShownOn ==
    ASSUME Running, ProgInv, ProgInv', UNCHANGED <<argv, mq, handle>>, NEW i \in Entries, Shown(i),
           ConsGone(i)' => ConsGone(i), prod'[i].at \in {"closed", "done"} => prod[i].at # "none"
    PROVE  Shown(i)'
  <1>1. i \in Producers /\ QueueOf[i] # None
    BY EntriesAre, Constants DEF ProgInv
  <1>2. ASSUME ProdGone(i)' PROVE ProdGone(i)
    <2>1. prod'[i].at \in {"closed", "done"} /\ ~ProdHolds(i)'
      BY <1>2 DEF ProdGone
    <2>2. /\ handle[ProducerMq[i]] = Held(i, ProdHolds(i), {"WRITER"})
          /\ handle'[ProducerMq[i]] = Held(i, ProdHolds(i)', {"WRITER"})
      BY <1>1 DEF ProgInv, HandlesHeld, Held
    <2>3. ~ProdHolds(i)
      BY <1>1, <2>1, <2>2 DEF Held, NullHandle
    <2>4. prod[i].at \in ProdLabel \ {"aborted", "nomem", "none", "loop", "wrote"}
      <3>1. prod[i].at \in ProdLabel
        BY ProducerIs
      <3>2. prod[i].at \notin {"loop", "wrote"}
        BY <2>3 DEF ProdHolds
      <3>3. prod[i].at \in Ends
        BY DEF Ends, ProgInv, ProgTypes
      <3> QED BY <2>1, <3>1, <3>2, <3>3 DEF Running
    <2> QED BY <2>3, <2>4 DEF ProdGone, ProdLabel
  <1>3. (ConsGone(i))' => ConsGone(i)
    OBVIOUS
  <1> QED BY <1>2, <1>3 DEF Shown

LEMMA SeesSame ==
    ASSUME UNCHANGED <<argv, cons, mq, handle, stored, rcvd, spurious>>, At(ConsumerThread)' = At(ConsumerThread)
    PROVE  ConsSees
  <1>1. \A i : ConsGone(i)' = ConsGone(i) /\ ReadyIn(i)' = ReadyIn(i)
    BY DEF ConsGone, ReadyIn, Got
  <1>2. \A i : ConsGone(i)' = ConsGone(i) /\ Readable(i)' = Readable(i)
    BY <1>1 DEF Readable
  <1> QED BY <1>2 DEF ConsSees

LEMMA OthersOn ==
    ASSUME QInv, Running, ProgInv, EventsInv, UNCHANGED <<argv, cons, spurious>>,
           NEW t \in Threads, t # ConsumerThread, Calls(t)
    PROVE  ConsAnswers' /\ ConsReads' /\ ConsPolls' /\ ConsVerifies'
  <1>1. UNCHANGED <<mq, handle, stored, rcvd>> /\ Stays(ConsumerThread) /\ SamePlace(ConsumerThread)
    BY CallsPart, Constants
  <1>2. ConsSees
    BY <1>1, SeesSame DEF SamePlace
  <1>3. Moves(ConsumerThread)
    BY <1>1 DEF Moves
  <1> QED BY <1>2, <1>3, ConsOn

LEMMA CheckStays ==
    ASSUME QInv, Running, ProgInv, EventsInv, UNCHANGED <<argv, main>>,
           NEW t \in Threads, t # MainThread, Calls(t)
    PROVE  MainPolls'
  <1>1. Moves(MainThread)
    BY CallsPart, Constants DEF Moves
  <1>2. CASE main.at = "polled"
    BY <1>1, <1>2, CheckOn DEF EventsInv
  <1>3. CASE main.at # "polled"
    BY <1>3 DEF MainPolls
  <1> QED BY <1>2, <1>3

(* The statements of a producer.                                           *)
LEMMA ProdEvents ==
    ASSUME QInv, Running, ProgInv, NEW i \in Entries, ProdStep(i), EventsInv, Running'
    PROVE  EventsInv'
  <1> DEFINE t == ProducerThreads[i]
  <1>1. /\ Calls(t) /\ UNCHANGED <<argv, spurious, main, cons>> /\ ProgInv' /\ Entries' = Entries
        /\ prod[i].at # "none" /\ \A j \in Entries \ {i} : prod'[j] = prod[j]
    BY ProdCalls, ProdKeeps DEF Entries
  <1>2. t \in Threads /\ t # ConsumerThread /\ t # MainThread
    BY OnlyProducer
  <1>3. UNCHANGED <<mq, handle>>
    BY <1>1, <1>2, CallsPart
  <1>4. ASSUME NEW j \in Entries PROVE Shown(j)'
    <2>1. prod'[j].at \in {"closed", "done"} => prod[j].at # "none"
      BY <1>1
    <2>2. ConsGone(j)' => ConsGone(j)
      BY <1>1, <1>3 DEF ConsGone
    <2>3. Shown(j)
      BY DEF EventsInv
    <2> QED BY <1>1, <1>3, <2>1, <2>2, <2>3, ShownOn
  <1>5. ConsAnswers' /\ ConsReads' /\ ConsPolls' /\ ConsVerifies'
    BY <1>1, <1>2, OthersOn
  <1>6. MainPolls'
    BY <1>1, <1>2, CheckStays
  <1> QED BY <1>1, <1>4, <1>5, <1>6 DEF EventsInv

(* No assert of one fails.                                                 *)
Spared == argv.size >= 2 /\ ~spurious

LEMMA ProdSpared ==
    ASSUME QInv, Running, ProgInv, NEW i \in Entries, ProdStep(i), Spared
    PROVE  "aborted" \notin Ends'
  <1> DEFINE t == ProducerThreads[i]
  <1>1. UNCHANGED <<argv, main, cons>> /\ "aborted" \notin Ends
    BY DEF Running, ProdStep, ProdWrite, ProdWrote, ProdClose, ProdClosed
  <1>2. prod \in [Entries -> [at : ProdLabel, sent : 0..argv.nmsgs]]
    BY DEF ProgInv, ProgTypes
  <1>3. ASSUME NEW c, prod' = [prod EXCEPT ![i] = c], c.at # "aborted"
        PROVE  "aborted" \notin Ends'
    <2>1. \A j \in DOMAIN prod' : prod'[j].at # "aborted"
      BY <1>1, <1>2, <1>3 DEF Ends
    <2> QED BY <1>1, <2>1 DEF Ends
  <1>4. CASE ProdWrite(i)
    <2>1. [prod[i] EXCEPT !.at = "wrote"].at # "aborted"
      BY <1>2
    <2>2. prod' = [prod EXCEPT ![i] = [prod[i] EXCEPT !.at = "wrote"]]
      BY <1>4 DEF ProdWrite
    <2> QED BY <1>3, <2>1, <2>2
  <1>5. CASE ProdClose(i)
    <2>1. [prod[i] EXCEPT !.at = "closed"].at # "aborted"
      BY <1>2
    <2>2. prod' = [prod EXCEPT ![i] = [prod[i] EXCEPT !.at = "closed"]]
      BY <1>5 DEF ProdClose
    <2> QED BY <1>3, <2>1, <2>2
  <1>6. CASE ProdWrote(i)
    <2>1. At(t) = "idle" /\ prod[i].at = "wrote"
      BY <1>6, PhaseIs DEF ProdWrote, Returned, At
    <2>2. ret[t] = "OK"
      <3>1. argv.size \in Nat /\ ~(argv.size < 2)
        BY EntriesAre DEF ProgInv, Spared
      <3> QED BY <2>1, <3>1 DEF ProgInv, ProdPlace
    <2>3. prod' = [prod EXCEPT ![i] = [at |-> "loop", sent |-> prod[i].sent + 1]]
      BY <1>6, <2>2 DEF ProdWrote, Asserted
    <2>4. [at |-> "loop", sent |-> prod[i].sent + 1].at # "aborted"
      OBVIOUS
    <2> QED BY <1>3, <2>3, <2>4
  <1>7. CASE ProdClosed(i)
    <2>1. At(t) = "idle" /\ prod[i].at = "closed"
      BY <1>7, PhaseIs DEF ProdClosed, Returned, At
    <2>2. ret[t] = "OK"
      BY <2>1 DEF ProgInv, ProdPlace
    <2>3. prod' = [prod EXCEPT ![i] = [prod[i] EXCEPT !.at = "done"]]
      BY <1>7, <2>2 DEF ProdClosed, Asserted
    <2>4. [prod[i] EXCEPT !.at = "done"].at # "aborted"
      BY <1>2
    <2> QED BY <1>3, <2>3, <2>4
  <1> QED BY <1>4, <1>5, <1>6, <1>7 DEF ProdStep

(* A poll gets the values of the handles.                                  *)
LEMMA ResolvedIs ==
    ASSUME NEW I, NEW slots, NEW handles, NEW events, NEW f, DOMAIN f = I,
           \A i \in I : f[i].slot = slots[i] /\ f[i].events = events /\ slots[i] # None /\ handles[i] = handle[slots[i]]
    PROVE  Resolved(f) = Fds(I, handles, events)
  <1>1. Resolved(f) = [i \in I |-> [queue |-> IF f[i].slot = None THEN NullHandle ELSE handle[f[i].slot],
                                   events |-> f[i].events]]
    BY DEF Resolved
  <1>2. \A i \in I : [queue |-> IF f[i].slot = None THEN NullHandle ELSE handle[f[i].slot], events |-> f[i].events]
                      = [queue |-> handles[i], events |-> events]
    OBVIOUS
  <1>3. Resolved(f) = [i \in I |-> [queue |-> handles[i], events |-> events]]
    BY <1>1, <1>2
  <1> QED BY <1>3 DEF Fds

(* A poll of valid entries has found nothing when it starts.               *)
LEMMA PollAsks ==
    ASSUME QInv, NEW c, c.t \in Threads, msg_queue_poll(c), NEW fds, Resolved(c.fds) = fds, LiveFds(fds) # {},
           \A i \in DOMAIN fds : ValidFd(fds[i])
    PROVE  LET t == c.t IN
           /\ Asks(pc'[t], ret'[t], poll'[t], fds) /\ poll'[t].revents = [i \in DOMAIN fds |-> {}]
           /\ pc'[t] = "poll_add" \/ (pc'[t] = "idle" /\ ret'[t] = "ENOMEM")
           /\ \A want : Sure(pc'[t], ret'[t], poll'[t], fds, want)
  <1> DEFINE t == c.t
  <1>1. poll'[t].fds = fds /\ poll'[t].revents = [i \in DOMAIN fds |-> {}]
    <2>1. poll'[t] = [fds |-> fds, todo |-> LiveFds(fds), revents |-> Cleared(t, fds), ready |-> 0]
      BY PollPart, Zenon
    <2>2. Cleared(t, fds) = [i \in DOMAIN fds |-> {}]
      BY DEF Cleared
    <2> QED BY <2>1, <2>2
  <1>2. pc'[t] = "poll_add" \/ (pc'[t] = "idle" /\ ret'[t] = "ENOMEM")
    BY PollPart DEF ValidFds
  <1>3. Asks(pc'[t], ret'[t], poll'[t], fds)
    BY <1>1, <1>2 DEF Asks, PollLabels
  <1>4. \A want : Sure(pc'[t], ret'[t], poll'[t], fds, want)
    BY <1>2, <1>3 DEF Sure, Finished
  <1> QED BY <1>1, <1>2, <1>3, <1>4

(* The statements of main: it starts the other threads with open handles,  *)
(* and its check comes when all of theirs are closed.                      *)
LEMMA MainPollEvents ==
    ASSUME QInv, Running, ProgInv, MainPoll
    PROVE  MainPolls'
  <1> DEFINE t == MainThread  c == CheckPoll(argv.nprod)
  <1>1. msg_queue_poll(c) /\ c.t = t /\ t \in Threads /\ UNCHANGED argv /\ main.at = "open_writer"
    BY Constants DEF MainPoll, CheckPoll, PollAll
  <1>2. \A i \in Entries : MainMq[i] # None /\ handle[MainMq[i]] = [q |-> QueueOf[i], flags |-> {}] /\ QueueOf[i] # None
    <2>1. ASSUME NEW i \in Entries PROVE MainHolds(i)
      BY <1>1, <2>1 DEF MainHolds
    <2> QED BY <2>1, MainIs, Constants
  <1>3. Resolved(c.fds) = CheckFds /\ 1 \in Entries
    <2>1. c.fds = [i \in Entries |-> [slot |-> MainMq[i], events |-> {"NOREADERS", "NOWRITERS"}]]
      BY DEF CheckPoll, PollAll, Entries
    <2> DEFINE h == [i \in Entries |-> [q |-> QueueOf[i], flags |-> {}]]
    <2>2. DOMAIN c.fds = Entries
      BY <2>1
    <2>3. ASSUME NEW i \in Entries
          PROVE  /\ c.fds[i].slot = MainMq[i] /\ c.fds[i].events = {"NOREADERS", "NOWRITERS"}
                 /\ MainMq[i] # None /\ h[i] = handle[MainMq[i]]
      BY <1>2, <2>1
    <2>4. Resolved(c.fds) = Fds(Entries, h, {"NOREADERS", "NOWRITERS"})
      <3>1. PICK f, g, ev : f = c.fds /\ g = h /\ ev = {"NOREADERS", "NOWRITERS"}
        OBVIOUS
      <3>2. DOMAIN f = Entries /\ \A i \in Entries : /\ f[i].slot = MainMq[i] /\ f[i].events = ev
                                                     /\ MainMq[i] # None /\ g[i] = handle[MainMq[i]]
        BY <2>2, <2>3, <3>1
      <3>3. Resolved(f) = Fds(Entries, g, ev)
        BY <3>2, ResolvedIs
      <3> QED BY <3>1, <3>3
    <2>5. CheckFds = Fds(Entries, h, {"NOREADERS", "NOWRITERS"})
      BY DEF CheckFds
    <2>6. 1 \in Entries
      BY MainIs
    <2> QED BY <2>4, <2>5, <2>6
  <1>4. DOMAIN CheckFds = Entries
        /\ \A i \in Entries : CheckFds[i] = [queue |-> [q |-> QueueOf[i], flags |-> {}],
                                             events |-> {"NOREADERS", "NOWRITERS"}]
    BY DEF CheckFds, Fds
  <1>5. LiveFds(CheckFds) # {} /\ \A i \in DOMAIN CheckFds : ValidFd(CheckFds[i])
    <2>1. CheckFds[1].queue # NullHandle
      BY <1>2, <1>3, <1>4 DEF NullHandle
    <2> QED BY <1>3, <1>4, <2>1 DEF LiveFds, ValidFd
  <1> HIDE DEF c
  <1>6. Sure(pc'[t], ret'[t], poll'[t], CheckFds, {"NOREADERS", "NOWRITERS"})
    BY <1>1, <1>3, <1>5, PollAsks
  <1>7. CheckFds' = CheckFds
    BY <1>1 DEF CheckFds, Entries
  <1>8. SurePoll(t, CheckFds, {"NOREADERS", "NOWRITERS"})'
    BY <1>6, <1>7 DEF SurePoll
  <1> QED BY <1>8 DEF MainPolls

LEMMA MainEvents ==
    ASSUME QInv, QInv', Running, ProgInv, MainStep, ~MainCreate, EventsInv, Running'
    PROVE  EventsInv'
  <1> DEFINE t == MainThread
  <1>1. Calls(t) /\ UNCHANGED <<argv, spurious>> /\ ProgInv' /\ Entries' = Entries
    BY MainCalls, MainKeeps DEF Entries
  <1>2. t \in Threads /\ t # ConsumerThread /\ UNCHANGED <<mq, handle>>
    BY <1>1, CallsPart, Constants
  <1>3. \/ UNCHANGED cons
        \/ /\ main.at = "open_reader" /\ main.i \notin Entries /\ At(t) = "idle"
           /\ cons.at = "none" /\ cons'.at = "loop"
    <2>1. CASE StartConsumer
      <3>1. main.at = "open_reader" /\ main.i \notin Entries /\ At(t) = "idle"
        BY <2>1, PhaseIs DEF StartConsumer, Returned, At
      <3>2. cons.at = "none"
        BY <3>1 DEF ProgInv, Started
      <3>3. UNCHANGED cons \/ cons'.at = "loop"
        BY <2>1, ConsumerIs DEF StartConsumer
      <3> QED BY <3>1, <3>2, <3>3
    <2>2. CASE ~StartConsumer
      BY <2>2 DEF MainStep, MainOpenReaders, MainOpenReader, MainOpenWriter, StartProducer, MainPoll, MainPolled,
                  MainClose, MainClosed, MainExit
    <2> QED BY <2>1, <2>2
  <1>4. ASSUME NEW j \in Entries PROVE Shown(j)'
    <2>1. prod'[j].at \in {"closed", "done"} => prod[j].at # "none"
      <3>1. CASE StartProducer
        <4>1. prod' = prod \/ prod' = [prod EXCEPT ![main.i].at = "loop"]
          BY <3>1 DEF StartProducer
        <4>2. prod \in [Entries -> [at : ProdLabel, sent : 0..argv.nmsgs]]
          BY DEF ProgInv, ProgTypes
        <4> QED BY <4>1, <4>2
      <3>2. CASE ~StartProducer
        <4>1. prod' = prod
          BY <3>2 DEF MainStep, MainOpenReaders, MainOpenReader, MainOpenWriter, StartConsumer, MainPoll, MainPolled,
                      MainClose, MainClosed, MainExit
        <4> QED BY <4>1
      <3> QED BY <3>1, <3>2
    <2>2. ConsGone(j)' => ConsGone(j)
      <3>1. CASE UNCHANGED cons
        BY <1>2, <3>1 DEF ConsGone
      <3>2. CASE main.at = "open_reader" /\ main.i \notin Entries /\ At(t) = "idle" /\ cons.at = "none"
        <4>1. main.i = argv.nprod + 1 /\ j \in Nat /\ j <= argv.nprod /\ argv.nprod \in Nat /\ j \in Producers
          BY <3>2, EntriesAre, MainIs DEF ProgInv
        <4>2. ConsMayHold(j)
          BY <3>2, <4>1 DEF ConsMayHold
        <4>3. handle[ConsumerMq[j]] # NullHandle
          BY <3>2, <4>1, <4>2 DEF ProgInv, HandlesHeld
        <4> QED BY <1>2, <4>3 DEF ConsGone
      <3> QED BY <1>3, <3>1, <3>2
    <2>3. Shown(j)
      BY DEF EventsInv
    <2> QED BY <1>1, <1>2, <2>1, <2>2, <2>3, ShownOn
  <1>5. ConsAnswers' /\ ConsReads' /\ ConsPolls' /\ ConsVerifies'
    <2>1. CASE UNCHANGED cons
      BY <1>1, <1>2, <2>1, OthersOn
    <2>2. CASE cons'.at = "loop"
      BY <2>2 DEF ConsAnswers, Ahead, ConsReads, ConsPolls, ConsVerifies
    <2> QED BY <1>3, <2>1, <2>2
  <1>6. MainPolls'
    <2>1. CASE MainPoll
      BY <2>1, MainPollEvents
    <2>2. CASE ~MainPoll
      <3>1. main'.at # "polled"
        BY <2>2, MainIs DEF MainStep, MainOpenReaders, MainOpenReader, MainOpenWriter, StartConsumer, StartProducer,
                      MainPolled, MainClose, MainClosed, MainExit, Asserted
      <3> QED BY <3>1 DEF MainPolls
    <2> QED BY <2>1, <2>2
  <1> QED BY <1>1, <1>4, <1>5, <1>6 DEF EventsInv

(* A new queue has no flag that tells of messages or of an end.            *)
LEMMA CreateEvents ==
    ASSUME FreshEvents, QInv, Running, ProgInv, MainCreate, EventsInv, Running'
    PROVE  EventsInv'
  <1> DEFINE t == MainThread  i == main.i  q == QueueOf[i]  c == Creation(i, argv.size)
  <1>1. /\ main.at = "create" /\ i \in Entries /\ msg_queue_create(c) /\ UNCHANGED <<argv, cons, prod>>
        /\ i \in Producers /\ q \in Queues /\ t \in Threads /\ SlotOwner[c.slot] = t
        /\ c.queue = q /\ c.flags = {}
    BY MainIs, Constants DEF MainCreate, Creation
  <1> HIDE DEF c
  <1>2. main'.at = "create" /\ ret'[t] = "OK"
    <2>1. main'.at \in Ends'
      BY DEF Ends
    <2>2. CASE ret'[t] = "OK"
      BY <1>1, <2>2, MainIs DEF MainCreate
    <2>3. CASE ret'[t] # "OK"
      <3>1. main'.at \in {"nomem", "aborted"}
        BY <2>3, MainIs DEF MainCreate
      <3> QED BY <2>1, <3>1 DEF Running
    <2> QED BY <2>2, <2>3
  <1>3. PICK event \in UninitEvents : mq' = [mq EXCEPT ![q] = mq_open(mq_init(c.capacity, event), {})]
    <2>1. ~Refuse(t, "EINVAL") /\ ~Refuse(t, "ENOMEM")
      BY <1>1, <1>2, IsRefused
    <2> QED BY <1>1, <2>1 DEF msg_queue_create
  <1>4. cons.at = "none" /\ \A j \in Entries : prod[j].at = "none"
    BY <1>1 DEF ProgInv, Started, Waits
  <1>5. mq \in [Queues -> Backend] /\ Entries' = Entries /\ Entries \subseteq Producers
    BY <1>1, MainIs DEF QInv, QueueInv, MemoryInv, TypeOK, Entries
  <1>6. ASSUME NEW j \in Entries PROVE Shown(j)'
    <2>1. ~ConsGone(j)' /\ ~ProdGone(j)'
      BY <1>1, <1>4 DEF ConsGone, ProdGone
    <2>2. SUFFICES ASSUME InUse(mq'[QueueOf[j]]) PROVE Raised(mq'[QueueOf[j]])
      BY <2>1 DEF Shown
    <2>3. CASE j = i
      <3>1. mq'[q] = mq_open(mq_init(c.capacity, event), {})
        BY <1>1, <1>3, <1>5
      <3>2. /\ mq'[q].queue_event = event /\ mq'[q].no_readers = FALSE /\ mq'[q].no_writers = FALSE
            /\ mq'[q].buf = <<>>
        BY <3>1 DEF mq_open, mq_init
      <3>3. event \subseteq {"WRITABLE"}
        BY DEF FreshEvents
      <3> QED BY <2>3, <3>2, <3>3 DEF Raised
    <2>4. CASE j # i
      <3>1. QueueOf[j] \in Queues \ {q}
        BY <1>1, <1>5, <2>4, Constants, Distinctness
      <3>2. mq'[QueueOf[j]] = mq[QueueOf[j]]
        BY <1>3, <1>5, <3>1
      <3> QED BY <2>2, <3>2 DEF EventsInv, Shown
    <2> QED BY <2>3, <2>4
  <1>7. ConsAnswers' /\ ConsReads' /\ ConsPolls' /\ ConsVerifies' /\ MainPolls'
    BY <1>1, <1>2, <1>4 DEF ConsAnswers, Ahead, ConsReads, ConsPolls, ConsVerifies, MainPolls
  <1> QED BY <1>5, <1>6, <1>7 DEF EventsInv

LEMMA MainSpared ==
    ASSUME QInv, Running, ProgInv, MainStep, EventsInv, Spared
    PROVE  "aborted" \notin Ends'
  <1> DEFINE t == MainThread
  <1>1. main.at # "aborted" /\ cons.at # "aborted" /\ \A j \in Entries : prod[j].at # "aborted"
    BY DEF Running, Ends, ProgInv, ProgTypes
  <1>2. /\ prod \in [Entries -> [at : ProdLabel, sent : 0..argv.nmsgs]]
        /\ main \in [at : MainLabel, i : 1..(argv.nprod + 1)]
        /\ cons \in [at : ConsLabel, i : Entries, ready : Int, revents : Seq(SUBSET Event),
                     done : Nat, sum : SUBSET [q : Queues, id : Nat]]
    BY DEF ProgInv, ProgTypes
  <1>3. cons'.at # "aborted" /\ \A j \in DOMAIN prod' : prod'[j].at # "aborted"
    <2>1. prod' = prod \/ prod' = [prod EXCEPT ![main.i].at = "loop"]
      BY DEF MainStep, MainCreate, MainOpenReaders, MainOpenReader, MainOpenWriter, StartConsumer, StartProducer, MainPoll,
             MainPolled, MainClose, MainClosed, MainExit
    <2>2. cons' = cons \/ cons' = [cons EXCEPT !.at = "loop"]
      BY DEF MainStep, MainCreate, MainOpenReaders, MainOpenReader, MainOpenWriter, StartConsumer, StartProducer, MainPoll,
             MainPolled, MainClose, MainClosed, MainExit
    <2>3. cons'.at # "aborted"
      BY <1>1, <1>2, <2>2
    <2>4. ASSUME NEW j \in DOMAIN prod' PROVE prod'[j].at # "aborted"
      <3>1. j \in Entries
        BY <1>2, <2>1
      <3>2. prod'[j] = prod[j] \/ prod'[j] = [prod[j] EXCEPT !.at = "loop"]
        BY <1>2, <2>1, <3>1
      <3>3. prod[j] \in [at : ProdLabel, sent : 0..argv.nmsgs]
        BY <1>2, <3>1
      <3> QED BY <1>1, <3>1, <3>2, <3>3
    <2> QED BY <2>3, <2>4
  <1>4. main'.at # "aborted"
    <2>1. CASE MainCreate
      <3> DEFINE i == main.i  c == Creation(i, argv.size)
      <3>1. /\ i \in Entries /\ msg_queue_create(c) /\ SlotOwner[c.slot] = t /\ t \in Threads
            /\ c.flags = {} /\ c.capacity = argv.size * (MessageSize + SizeT)
        BY <2>1, MainIs, Constants DEF MainCreate, Creation
      <3>2. c.capacity >= SizeT + 1
        <4>1. argv.size \in Nat /\ argv.size >= 2 /\ MessageSize + SizeT \in Nat /\ MessageSize + SizeT # 0
              /\ MessageSize + SizeT >= SizeT + 1
          BY EntriesAre, Constants DEF ProgInv, Spared
        <4>2. argv.size * (MessageSize + SizeT) > MessageSize + SizeT
          BY <4>1, LargeEnough
        <4>3. argv.size * (MessageSize + SizeT) \in Nat
          BY <4>1
        <4> QED BY <3>1, <4>1, <4>2, <4>3, Constants
      <3>3. ret'[t] \in {"OK", "ENOMEM"}
        <4> HIDE DEF c
        <4>1. Refuse(t, "ENOMEM") \/ ret' = [ret EXCEPT ![t] = "OK"]
          BY <3>1, <3>2 DEF msg_queue_create
        <4>2. ret \in [Threads -> Result]
          BY DEF QInv, QueueInv, MemoryInv, TypeOK
        <4> QED BY <3>1, <4>1, <4>2, IsRefused
      <3> QED BY <1>1, <1>2, <2>1, <3>3 DEF MainCreate
    <2>2. CASE MainPolled
      <3>1. main.at = "polled" /\ pc[t] = "idle"
        BY <2>2 DEF MainPolled, Returned
      <3>2. SurePoll(t, CheckFds, {"NOREADERS", "NOWRITERS"})
        BY <3>1 DEF EventsInv, MainPolls
      <3>3. DOMAIN CheckFds = Entries /\ Cardinality(Entries) = argv.nprod
        BY EntriesAre DEF CheckFds, Fds, ProgInv
      <3>4. ret[t] \in {"OK", "ENOMEM"}
        BY <3>1, <3>2 DEF SurePoll, Sure, Asks, PollLabels
      <3>5. ret[t] = "OK" => /\ poll[t].ready = argv.nprod
                             /\ \A i \in Entries : poll[t].revents[i] = {"NOREADERS", "NOWRITERS"}
        BY <3>1, <3>2, <3>3 DEF SurePoll, Sure, Finished
      <3>6. main' = [at |-> Asserted(t, ret[t] = "OK", "close"), i |-> 1]
        BY <2>2, <3>5 DEF MainPolled
      <3> QED BY <3>4, <3>6 DEF Asserted
    <2>3. CASE MainClosed
      <3>1. main.at = "closed" /\ At(t) = "idle"
        BY <2>3, PhaseIs DEF MainClosed, Returned, At
      <3>2. ret[t] = "OK" /\ main.i \in Entries
        BY <3>1 DEF ProgInv, MainPlace
      <3>3. ~MainHolds(main.i)
        BY <3>1, <3>2, MainIs DEF MainHolds
      <3>4. handle[MainMq[main.i]] = NullHandle
        BY <3>2, <3>3, MainIs DEF ProgInv, HandlesHeld, Held
      <3>5. main' = [at |-> "close", i |-> main.i + 1]
        BY <2>3, <3>2, <3>4 DEF MainClosed, Asserted
      <3> QED BY <3>5
    <2>4. CASE MainOpenReaders \/ MainOpenReader \/ MainOpenWriter \/ MainPoll \/ MainClose \/ MainExit
      BY <1>1, <1>2, <2>4 DEF MainOpenReaders, MainOpenReader, MainOpenWriter, MainPoll, MainClose, MainExit
    <2>5. CASE StartConsumer \/ StartProducer
      BY <1>1, <1>2, <2>5 DEF StartConsumer, StartProducer
    <2> QED BY <2>1, <2>2, <2>3, <2>4, <2>5 DEF MainStep
  <1> QED BY <1>3, <1>4 DEF Ends

(* The statements of the consumer: what polls have told of the entries     *)
(* that it has still to visit stays.                                       *)
LEMMA ConsUnseen ==
    ASSUME QInv, Running, ProgInv, ConsStep, EventsInv, Running'
    PROVE  /\ UNCHANGED <<argv, main, prod, spurious, mq, handle, stored, rcvd>> /\ Entries' = Entries
           /\ cons.at # "none" /\ cons'.at # "none"
           /\ \A j \in Entries : /\ ConsGone(j)' <=> ConsGone(j)
                                 /\ \A e : Answer(j, e)' <=> Answer(j, e)
                                 /\ ReadyIn(j)' <=> ReadyIn(j)
                                 /\ Shown(j)'
           /\ MainPolls'
  <1> DEFINE t == ConsumerThread
  <1>1. Calls(t) /\ UNCHANGED <<argv, main, prod, spurious>> /\ ProgInv' /\ Entries' = Entries
    BY ConsCalls, ConsKeeps DEF Entries
  <1>2. t \in Threads /\ t # MainThread /\ UNCHANGED <<mq, handle, stored, rcvd>>
    BY <1>1, CallsPart, Constants
  <1>3. cons.at # "none"
    BY DEF ConsStep, ConsPoll, ConsEnd, ConsPolled, ConsSkip, ConsRead, ConsGot, ConsVerify, ConsVerified, ConsClose, ConsClosed
  <1>4. cons'.at # "none"
    BY <1>1, <1>3 DEF ProgInv, Started
  <1>5. \A j : (ConsGone(j)' <=> ConsGone(j)) /\ (ReadyIn(j)' <=> ReadyIn(j))
    BY <1>2, <1>3, <1>4 DEF ConsGone, ReadyIn, Got
  <1>6. \A j, e : Answer(j, e)' <=> Answer(j, e)
    BY <1>5 DEF Answer, Readable, Expected
  <1>7. ASSUME NEW j \in Entries PROVE Shown(j)'
    <2>1. Shown(j) /\ (ConsGone(j)' => ConsGone(j))
      BY <1>5 DEF EventsInv
    <2>2. prod'[j].at \in {"closed", "done"} => prod[j].at # "none"
      BY <1>1
    <2> QED BY <1>1, <1>2, <2>1, <2>2, ShownOn
  <1>8. MainPolls'
    BY <1>1, <1>2, CheckStays
  <1> QED BY <1>1, <1>2, <1>3, <1>4, <1>5, <1>6, <1>7, <1>8

LEMMA EntryAfter ==
    ASSUME ProgInv, NEW c, c \in [at : ConsLabel, i : Entries, ready : Int, revents : Seq(SUBSET Event),
                                  done : Nat, sum : SUBSET [q : Queues, id : Nat]]
    PROVE  \A d \in {Following(c), NextEntry(c)} :
              /\ d.revents = c.revents /\ d.at \in {"loop", "scan"} /\ (d.at = "scan" => d.i = c.i + 1)
  <1> DEFINE Typed == [at : ConsLabel, i : Entries, ready : Int, revents : Seq(SUBSET Event),
                       done : Nat, sum : SUBSET [q : Queues, id : Nat]]
  <1>1. ASSUME NEW b \in Typed, b.revents = c.revents, b.i = c.i
        PROVE  LET d == Following(b) IN
               /\ d.revents = c.revents /\ d.at \in {"loop", "scan"} /\ (d.at = "scan" => d.i = c.i + 1)
    BY <1>1 DEF Following
  <1>2. [c EXCEPT !.ready = @ - 1] \in Typed /\ [c EXCEPT !.ready = @ - 1].revents = c.revents
        /\ [c EXCEPT !.ready = @ - 1].i = c.i
    OBVIOUS
  <1>3. LET d == Following([c EXCEPT !.ready = @ - 1]) IN
        /\ d.revents = c.revents /\ d.at \in {"loop", "scan"} /\ (d.at = "scan" => d.i = c.i + 1)
    BY <1>1, <1>2
  <1>4. LET d == [c EXCEPT !.at = "loop"] IN d.revents = c.revents /\ d.at = "loop"
    OBVIOUS
  <1>5. LET d == NextEntry(c) IN
        /\ d.revents = c.revents /\ d.at \in {"loop", "scan"} /\ (d.at = "scan" => d.i = c.i + 1)
    <2>1. NextEntry(c) = [c EXCEPT !.at = "loop"] \/ NextEntry(c) = Following([c EXCEPT !.ready = @ - 1])
      BY DEF NextEntry
    <2> QED BY <1>3, <1>4, <2>1
  <1>6. LET d == Following(c) IN
        /\ d.revents = c.revents /\ d.at \in {"loop", "scan"} /\ (d.at = "scan" => d.i = c.i + 1)
    BY <1>1
  <1> QED BY <1>5, <1>6

LEMMA AnswersOn ==
    ASSUME QInv, Running, ProgInv, ConsStep, EventsInv, Running', cons'.revents = cons.revents,
           \A i \in Entries : Ahead(i)' => Ahead(i)
    PROVE  ConsAnswers'
  <1>1. Entries' = Entries /\ \A j \in Entries : \A e : Answer(j, e)' <=> Answer(j, e)
    BY ConsUnseen
  <1>2. ASSUME NEW i \in Entries, Ahead(i)' PROVE Answer(i, cons.revents[i])'
    <2>1. Answer(i, cons.revents[i])
      BY <1>2 DEF EventsInv, ConsAnswers
    <2>2. PICK e : e = cons.revents[i]
      OBVIOUS
    <2>3. Answer(i, e)'
      BY <1>1, <2>1, <2>2
    <2>4. e = cons'.revents[i]
      BY <2>2
    <2> QED BY <2>3, <2>4 DEF Answer
  <1> QED BY <1>1, <1>2 DEF ConsAnswers

(* Its polls are valid: one entry at least is open.                        *)
LEMMA ConsPollEvents ==
    ASSUME QInv, Running, ProgInv, ConsPoll, EventsInv, Running'
    PROVE  ConsPolls'
  <1> DEFINE t == ConsumerThread  c == ConsumerPoll(argv.nprod)
  <1>1. /\ UNCHANGED argv /\ Entries' = Entries /\ cons.at # "none" /\ cons'.at # "none"
        /\ \A j \in Entries : ConsGone(j)' <=> ConsGone(j)
    BY ConsUnseen DEF ConsStep
  <1>2. msg_queue_poll(c) /\ c.t = t /\ t \in Threads /\ cons.at = "loop" /\ cons.done < argv.nprod
    BY Constants DEF ConsPoll, ConsumerPoll, PollAll
  <1>3. \A i \in Entries : ConsumerMq[i] # None /\ ConsHandles[i] = handle[ConsumerMq[i]]
    <2>1. ASSUME NEW i \in Entries
          PROVE  /\ ConsumerMq[i] # None
                 /\ ConsGone(i) <=> handle[ConsumerMq[i]] = NullHandle
                 /\ handle[ConsumerMq[i]] \in {NullHandle, [q |-> QueueOf[i], flags |-> {"READER"}]}
      <3>1. i \in Producers
        BY MainIs
      <3> QED BY <1>1, <3>1, Constants DEF ConsGone, ProgInv, HandlesHeld
    <2> QED BY <2>1 DEF ConsHandles
  <1>4. Resolved(c.fds) = ConsFds
    <2>1. c.fds = [i \in Entries |-> [slot |-> ConsumerMq[i], events |-> {"READABLE"}]]
      BY DEF ConsumerPoll, PollAll, Entries
    <2>2. PICK f, g, ev : f = c.fds /\ g = ConsHandles /\ ev = {"READABLE"}
      OBVIOUS
    <2>3. DOMAIN f = Entries /\ \A i \in Entries : /\ f[i].slot = ConsumerMq[i] /\ f[i].events = ev
                                                  /\ ConsumerMq[i] # None /\ g[i] = handle[ConsumerMq[i]]
      BY <1>3, <2>1, <2>2
    <2>4. Resolved(f) = Fds(Entries, g, ev)
      BY <2>3, ResolvedIs
    <2> QED BY <2>2, <2>4 DEF ConsFds
  <1>5. LiveFds(ConsFds) # {}
    <2>1. SUFFICES ASSUME LiveFds(ConsFds) = {} PROVE FALSE
      OBVIOUS
    <2>2. AllGone = Entries
      BY <2>1, ConsFdsAre DEF AllGone
    <2>3. cons.done = argv.nprod + 0 /\ argv.nprod \in Nat
      BY <1>2, <2>2, EntriesAre DEF ProgInv, Closed
    <2> QED BY <1>2, <2>3
  <1>6. \A i \in DOMAIN ConsFds : ValidFd(ConsFds[i])
    <2>1. ASSUME NEW i \in Entries PROVE ValidFd(ConsFds[i])
      <3>1. ConsFds[i].events = {"READABLE"} /\ ConsFds[i].queue \in {NullHandle, [q |-> QueueOf[i], flags |-> {"READER"}]}
        BY ConsFdsAre DEF ConsHandles
      <3> QED BY <3>1 DEF ValidFd
    <2> QED BY <2>1, ConsFdsAre
  <1> HIDE DEF c
  <1>7. /\ Asks(pc'[t], ret'[t], poll'[t], ConsFds) /\ poll'[t].revents = [i \in DOMAIN ConsFds |-> {}]
        /\ pc'[t] = "poll_add" \/ (pc'[t] = "idle" /\ ret'[t] = "ENOMEM")
    BY <1>2, <1>4, <1>5, <1>6, PollAsks
  <1>8. ConsFds' = ConsFds
    BY <1>1 DEF ConsFds, Fds, ConsHandles
  <1>9. Asks(pc[t], ret[t], poll[t], ConsFds)'
    BY <1>7, <1>8 DEF Asks
  <1>10. \A i \in Entries : poll'[t].revents[i] = {}
    BY <1>7, ConsFdsAre
  <1>11. (\A i \in Entries : Answer(i, poll[t].revents[i]))'
    BY <1>1, <1>10 DEF Answer, Expected
  <1>12. Looks(pc[t], ret[t], poll[t])'
    BY <1>7, <1>11 DEF Looks, Finished
  <1> QED BY <1>9, <1>12 DEF ConsPolls

LEMMA ConsVerifyEvents ==
    ASSUME QInv, Running, ProgInv, ConsVerify
    PROVE  ConsVerifies'
  <1> DEFINE t == ConsumerThread  i == cons.i  c == EofPoll(i)  h == [q |-> QueueOf[i], flags |-> {"READER"}]
  <1>1. /\ msg_queue_poll(c) /\ c.t = t /\ t \in Threads /\ cons.at = "verify" /\ cons'.i = i
        /\ i \in Producers
    BY ConsumerIs DEF ConsVerify, EofPoll, PollAll
  <1>2. handle[ConsumerMq[i]] = h /\ ConsumerMq[i] # None /\ h # NullHandle
    BY <1>1, ConsumerIs, Constants DEF ProgInv, ConsPlace, NullHandle
  <1>3. Resolved(c.fds) = EofFds
    <2>1. c.fds = [k \in {1} |-> [slot |-> <<ConsumerMq[i]>>[k], events |-> {"NOWRITERS"}]]
      BY DEF EofPoll, PollAll
    <2>2. PICK f, g, s, ev : f = c.fds /\ g = <<h>> /\ s = <<ConsumerMq[i]>> /\ ev = {"NOWRITERS"}
      OBVIOUS
    <2>3. DOMAIN f = {1} /\ \A k \in {1} : /\ f[k].slot = s[k] /\ f[k].events = ev
                                           /\ s[k] # None /\ g[k] = handle[s[k]]
      BY <1>2, <2>1, <2>2
    <2>4. Resolved(f) = Fds({1}, g, ev)
      BY <2>3, ResolvedIs
    <2> QED BY <2>2, <2>4 DEF EofFds
  <1>4. DOMAIN EofFds = {1} /\ EofFds[1] = [queue |-> h, events |-> {"NOWRITERS"}]
    BY DEF EofFds, Fds
  <1>5. LiveFds(EofFds) # {} /\ \A k \in DOMAIN EofFds : ValidFd(EofFds[k])
    BY <1>2, <1>4 DEF LiveFds, ValidFd
  <1> HIDE DEF c
  <1>6. Sure(pc'[t], ret'[t], poll'[t], EofFds, {"NOWRITERS"})
    BY <1>1, <1>3, <1>5, PollAsks
  <1>7. EofFds' = EofFds
    BY <1>1 DEF EofFds
  <1>8. SurePoll(t, EofFds, {"NOWRITERS"})'
    BY <1>6, <1>7 DEF SurePoll
  <1> QED BY <1>8 DEF ConsVerifies

(* Its read follows a poll that has told of a message or of the end.       *)
LEMMA ConsReadEvents ==
    ASSUME QInv, Running, ProgInv, ConsRead, EventsInv, Running'
    PROVE  ConsReads'
  <1> DEFINE i == cons.i
  <1>1. cons.at = "scan" /\ "READABLE" \in cons.revents[i] /\ i \in Entries /\ i \in Nat
    BY ConsumerIs DEF ConsRead
  <1>2. cons'.i = i
    <2>1. cons' = [cons EXCEPT !.at = "got"] \/ cons' = [cons EXCEPT !.at = "aborted"]
      BY DEF ConsRead
    <2> QED BY <2>1, ConsumerIs
  <1>3. Readable(i)
    BY <1>1 DEF EventsInv, ConsAnswers, Ahead, Answer
  <1>4. /\ UNCHANGED <<mq, handle, stored, rcvd>> /\ cons.at # "none"
    BY ConsUnseen DEF ConsStep
  <1>5. ConsOpen' /\ ReadyIn(cons.i)'
    BY <1>2, <1>3, <1>4 DEF ConsOpen, Readable, ConsGone, ReadyIn, Got
  <1> QED BY <1>5 DEF ConsReads

LEMMA ConsEvents ==
    ASSUME QInv, Running, ProgInv, ConsStep, EventsInv, Running'
    PROVE  EventsInv'
  <1> DEFINE Typed == [at : ConsLabel, i : Entries, ready : Int, revents : Seq(SUBSET Event),
                       done : Nat, sum : SUBSET [q : Queues, id : Nat]]
  <1>1. /\ Entries' = Entries /\ (\A j \in Entries : Shown(j)') /\ MainPolls' /\ UNCHANGED <<argv, spurious>>
        /\ \A j \in Entries : \A e : Answer(j, e)' <=> Answer(j, e)
    BY ConsUnseen
  <1>2. cons \in Typed /\ cons.i \in Entries /\ cons.i \in Nat /\ cons'.at # "aborted" /\ Entries \subseteq Nat
    BY ConsumerIs, MainIs DEF Running, Ends
  <1>3. ASSUME NEW d \in Typed, d.i = cons.i, d.revents = cons.revents, cons' \in {Following(d), NextEntry(d)},
               cons.at \in {"scan", "got", "closed"}
        PROVE  EventsInv'
    <2>1. cons'.revents = cons.revents /\ cons'.at \in {"loop", "scan"} /\ (cons'.at = "scan" => cons'.i = cons.i + 1)
      BY <1>3, EntryAfter
    <2>2. \A i \in Entries : Ahead(i)' => Ahead(i)
      BY <1>2, <1>3, <2>1 DEF Ahead
    <2>3. ConsAnswers'
      BY <2>1, <2>2, AnswersOn
    <2> QED BY <1>1, <2>1, <2>3 DEF EventsInv, ConsReads, ConsPolls, ConsVerifies
  <1>4. ASSUME NEW a, cons' = [cons EXCEPT !.at = a], a \in {"got", "verify", "verified", "close"},
               cons.at \in {"scan", "got", "verify", "verified"}
        PROVE  ConsAnswers' /\ cons'.at = a
    <2>1. cons'.revents = cons.revents /\ cons'.i = cons.i /\ cons'.at = a
      BY <1>2, <1>4
    <2>2. \A i \in Entries : Ahead(i)' => Ahead(i)
      BY <1>2, <1>4, <2>1 DEF Ahead
    <2> QED BY <2>1, <2>2, AnswersOn
  <1>5. CASE ConsPoll
    <2>1. cons'.at = "polled"
      BY <1>2, <1>5 DEF ConsPoll
    <2> QED BY <1>1, <1>5, <2>1, ConsPollEvents DEF EventsInv, ConsAnswers, Ahead, ConsReads, ConsVerifies
  <1>6. CASE ConsEnd
    <2>1. cons'.at = "done"
      BY <1>2, <1>6 DEF ConsEnd
    <2> QED BY <1>1, <2>1 DEF EventsInv, ConsAnswers, Ahead, ConsReads, ConsPolls, ConsVerifies
  <1>7. CASE ConsPolled
    <2> DEFINE p == poll[ConsumerThread]
    <2>1. /\ cons.at = "polled" /\ cons'.revents = p.revents
          /\ cons'.at \in {"scan", "nomem", "aborted"}
      BY <1>2, <1>7 DEF ConsPolled, Asserted
    <2>2. cons'.at = "scan"
      BY <2>1 DEF Running, Ends
    <2>3. \A i \in Entries : Answer(i, p.revents[i])
      BY <2>1 DEF EventsInv, ConsPolls, Looks
    <2>4. ASSUME NEW i \in Entries PROVE Answer(i, cons.revents[i])'
      <3>1. PICK e : e = p.revents[i]
        OBVIOUS
      <3>2. Answer(i, e)' /\ e = cons'.revents[i]
        BY <1>1, <2>1, <2>3, <3>1
      <3> QED BY <3>2 DEF Answer
    <2>5. ConsAnswers'
      BY <1>1, <2>4 DEF ConsAnswers
    <2> QED BY <1>1, <2>2, <2>5 DEF EventsInv, ConsReads, ConsPolls, ConsVerifies
  <1>8. CASE ConsSkip
    <2>1. cons.at = "scan" /\ cons' = Following(cons)
      BY <1>2, <1>8 DEF ConsSkip
    <2> QED BY <1>2, <1>3, <2>1
  <1>9. CASE ConsRead
    <2>1. cons.at = "scan" /\ cons' = [cons EXCEPT !.at = "got"]
      BY <1>2, <1>9 DEF ConsRead
    <2>2. ConsAnswers' /\ cons'.at = "got"
      BY <1>4, <2>1
    <2> QED BY <1>1, <1>9, <2>2, ConsReadEvents DEF EventsInv, ConsPolls, ConsVerifies
  <1>10. CASE ConsGot
    <2> DEFINE d == [cons EXCEPT !.sum = @ \cup {[q |-> QueueOf[cons.i], id |-> ReadResult.id]}]
    <2>1. cons.at = "got" /\ At(ConsumerThread) = "idle"
      BY <1>10, PhaseIs DEF ConsGot, Returned, At
    <2>2. CASE ret[ConsumerThread] = "EOF"
      <3>1. cons' = [cons EXCEPT !.at = "verify"]
        BY <1>10, <2>2 DEF ConsGot, AtEof
      <3>2. ConsAnswers' /\ cons'.at = "verify"
        BY <1>4, <2>1, <3>1
      <3> QED BY <1>1, <3>2 DEF EventsInv, ConsReads, ConsPolls, ConsVerifies
    <2>3. CASE ret[ConsumerThread] = "MSG"
      <3>1. cons' = NextEntry(d)
        BY <1>2, <1>10, <2>3 DEF ConsGot, AtEof
      <3>2. d \in Typed /\ d.i = cons.i /\ d.revents = cons.revents
        <4>1. Pending(cons.i) = 1
          BY <2>1, <2>3 DEF Pending, Returning
        <4>2. ReadResult.id \in Nat /\ QueueOf[cons.i] \in Queues
          BY <4>1, ResultIs, ConsumerIs, Constants
        <4>3. cons.sum \cup {[q |-> QueueOf[cons.i], id |-> ReadResult.id]} \in SUBSET [q : Queues, id : Nat]
          BY <1>2, <4>2
        <4> QED BY <1>2, <4>3
      <3> HIDE DEF d
      <3> QED BY <1>3, <2>1, <3>1, <3>2
    <2>4. CASE ret[ConsumerThread] = "EBADF"
      BY <1>2, <1>10, <2>4 DEF ConsGot, AtEof
    <2> QED BY <2>1, <2>2, <2>3, <2>4 DEF ProgInv, ConsPlace
  <1>11. CASE ConsVerify
    <2>1. cons.at = "verify" /\ cons' = [cons EXCEPT !.at = "verified"]
      BY <1>11 DEF ConsVerify
    <2>2. ConsAnswers' /\ cons'.at = "verified"
      BY <1>4, <2>1
    <2> QED BY <1>1, <1>11, <2>2, ConsVerifyEvents DEF EventsInv, ConsReads, ConsPolls
  <1>12. CASE ConsVerified
    <2>1. /\ cons.at = "verified" /\ \E a \in {"close", "nomem", "aborted"} : cons' = [cons EXCEPT !.at = a]
      BY <1>12 DEF ConsVerified, Asserted
    <2>2. cons'.at \notin {"nomem", "aborted"}
      BY DEF Running, Ends
    <2>3. cons' = [cons EXCEPT !.at = "close"]
      BY <1>2, <2>1, <2>2
    <2>4. ConsAnswers' /\ cons'.at = "close"
      BY <1>4, <2>1, <2>3
    <2> QED BY <1>1, <2>4 DEF EventsInv, ConsReads, ConsPolls, ConsVerifies
  <1>13. CASE ConsClose
    <2>1. cons.at = "close" /\ cons' = [cons EXCEPT !.at = "closed", !.done = @ + 1]
      BY <1>13 DEF ConsClose
    <2>2. cons'.revents = cons.revents /\ cons'.i = cons.i /\ cons'.at = "closed"
      BY <1>2, <2>1
    <2>3. \A i \in Entries : Ahead(i)' => Ahead(i)
      BY <2>1, <2>2 DEF Ahead
    <2>4. ConsAnswers'
      BY <2>2, <2>3, AnswersOn
    <2> QED BY <1>1, <2>2, <2>4 DEF EventsInv, ConsReads, ConsPolls, ConsVerifies
  <1>14. CASE ConsClosed
    <2>1. cons.at = "closed" /\ cons' = NextEntry(cons)
      BY <1>2, <1>14 DEF ConsClosed
    <2> QED BY <1>2, <1>3, <2>1
  <1> QED BY <1>5, <1>6, <1>7, <1>8, <1>9, <1>10, <1>11, <1>12, <1>13, <1>14 DEF ConsStep

(* No assert of the consumer fails: what its polls find is as expected,    *)
(* and its reads return a message of the program or the end of the file.   *)
LEMMA GotSpared ==
    ASSUME QInv, Running, ProgInv, SizesInv, ConsGot, EventsInv
    PROVE  cons'.at # "aborted"
  <1> DEFINE t == ConsumerThread  i == cons.i
             Typed == [at : ConsLabel, i : Entries, ready : Int, revents : Seq(SUBSET Event),
                       done : Nat, sum : SUBSET [q : Queues, id : Nat]]
             d == [cons EXCEPT !.sum = @ \cup {[q |-> QueueOf[i], id |-> ReadResult.id]}]
  <1>1. cons.at = "got" /\ At(t) = "idle"
    BY PhaseIs DEF ConsGot, Returned, At
  <1>2. cons \in Typed /\ i \in Producers
    BY ConsumerIs
  <1>3. ret[t] \in {"MSG", "EOF"}
    BY <1>1 DEF EventsInv, ConsReads, ProgInv, ConsPlace
  <1>4. CASE ret[t] = "EOF"
    <2>1. cons' = [cons EXCEPT !.at = "verify"]
      BY <1>4 DEF ConsGot, AtEof
    <2> QED BY <1>2, <2>1
  <1>5. CASE ret[t] = "MSG"
    <2>1. Pending(i) = 1
      BY <1>1, <1>5 DEF Pending, Returning
    <2>2. ReadResult \in Msg /\ ReadResult.id \in Nat /\ Got(i) \in Nat /\ Got(i) >= 1
      BY <2>1, ResultIs
    <2>3. ReadResult # None
      BY <2>2, MultiProdAssumption
    <2>4. ReadResult.len = MessageSize
      <3>1. QueueOf[i] \in Queues /\ Len(rcvd[QueueOf[i]]) \in 1..Len(rcvd[QueueOf[i]])
        BY <1>2, <2>2, Constants DEF Got
      <3> QED BY <3>1 DEF SizesInv, ReadResult
    <2>5. cons' = NextEntry(d)
      BY <1>5, <2>3, <2>4 DEF ConsGot, AtEof
    <2>6. d \in Typed
      <3>1. QueueOf[i] \in Queues
        BY <1>2, Constants
      <3>2. cons.sum \cup {[q |-> QueueOf[i], id |-> ReadResult.id]} \in SUBSET [q : Queues, id : Nat]
        BY <1>2, <2>2, <3>1
      <3> QED BY <1>2, <3>2
    <2> HIDE DEF d
    <2> QED BY <2>5, <2>6, EntryFollows
  <1> QED BY <1>3, <1>4, <1>5

LEMMA ConsSpared ==
    ASSUME QInv, Running, ProgInv, SizesInv, ConsStep, EventsInv, Spared
    PROVE  "aborted" \notin Ends'
  <1> DEFINE t == ConsumerThread  i == cons.i  p == poll[ConsumerThread]
             Typed == [at : ConsLabel, i : Entries, ready : Int, revents : Seq(SUBSET Event),
                       done : Nat, sum : SUBSET [q : Queues, id : Nat]]
  <1>1. main.at # "aborted" /\ cons.at # "aborted" /\ \A j \in DOMAIN prod : prod[j].at # "aborted"
    BY DEF Running, Ends
  <1>2. main' = main /\ prod' = prod
    BY ConsCalls
  <1>3. cons \in Typed /\ i \in Entries /\ i \in Nat
    BY ConsumerIs
  <1>4. cons'.at # "aborted"
    <2>1. CASE ConsPoll \/ ConsEnd \/ ConsVerify \/ ConsClose
      BY <1>3, <2>1 DEF ConsPoll, ConsEnd, ConsVerify, ConsClose
    <2>2. CASE ConsPolled
      <3>1. cons.at = "polled" /\ pc[t] = "idle"
        BY <2>2 DEF ConsPolled, Returned
      <3>2. Asks(pc[t], ret[t], p, ConsFds) /\ Looks(pc[t], ret[t], p)
        BY <3>1 DEF EventsInv, ConsPolls
      <3>3. ret[t] \in {"OK", "ENOMEM"}
        BY <3>1, <3>2 DEF Asks, PollLabels
      <3>4. ret[t] = "OK" => p.ready > 0
        BY <3>1, <3>2 DEF Looks, Finished, Spared
      <3>5. cons'.at = Asserted(t, ret[t] = "OK" /\ p.ready > 0, "scan")
        BY <1>3, <2>2 DEF ConsPolled
      <3> QED BY <3>3, <3>4, <3>5 DEF Asserted
    <2>3. ASSUME cons.at = "scan" PROVE Expected(cons.revents[i])
      BY <1>3, <2>3 DEF EventsInv, ConsAnswers, Ahead, Answer
    <2>4. CASE ConsSkip
      BY <1>3, <2>3, <2>4, EntryFollows DEF ConsSkip
    <2>5. CASE ConsRead
      BY <1>3, <2>3, <2>5 DEF ConsRead
    <2>6. CASE ConsGot
      BY <2>6, GotSpared
    <2>7. CASE ConsVerified
      <3>1. cons.at = "verified" /\ pc[t] = "idle"
        BY <2>7 DEF ConsVerified, Returned
      <3>2. Sure(pc[t], ret[t], p, EofFds, {"NOWRITERS"})
        BY <3>1 DEF EventsInv, ConsVerifies, SurePoll
      <3>3. DOMAIN EofFds = {1} /\ Cardinality({1}) = 1
        BY FS_Singleton DEF EofFds, Fds
      <3>4. ret[t] \in {"OK", "ENOMEM"}
        BY <3>1, <3>2 DEF Sure, Asks, PollLabels
      <3>5. ret[t] = "OK" => p.ready = 1 /\ p.revents[1] = {"NOWRITERS"}
        BY <3>1, <3>2, <3>3 DEF Sure, Finished
      <3>6. cons'.at = Asserted(t, ret[t] = "OK", "close")
        BY <1>3, <2>7, <3>5 DEF ConsVerified
      <3> QED BY <3>4, <3>6 DEF Asserted
    <2>8. CASE ConsClosed
      <3>1. cons.at = "closed" /\ At(t) = "idle"
        BY <2>8, PhaseIs DEF ConsClosed, Returned, At
      <3>2. ~ConsOpen /\ ret[t] = "OK"
        BY <3>1 DEF ProgInv, ConsPlace
      <3>3. cons' = NextEntry(cons)
        BY <2>8, <3>2 DEF ConsClosed, ConsOpen
      <3> QED BY <1>3, <3>3, EntryFollows
    <2> QED BY <2>1, <2>2, <2>4, <2>5, <2>6, <2>7, <2>8 DEF ConsStep
  <1> QED BY <1>1, <1>2, <1>4 DEF Ends

-----------------------------------------------------------------------------
(* What is received are messages of the program, by their size.            *)
LEMMA SizesKept ==
    ASSUME QInv, SizesInv, rcvd' = rcvd \/ \E t \in Threads : arg[t].q \in Queues /\ DoesTake(t)
    PROVE  SizesInv'
  <1>1. rcvd \in [Queues -> Seq(Msg \cup {None})]
    BY DEF QInv, QueueInv, MemoryInv, TypeOK
  <1>2. CASE rcvd' = rcvd
    BY <1>2 DEF SizesInv
  <1>3. ASSUME NEW t \in Threads, arg[t].q \in Queues, DoesTake(t) PROVE SizesInv'
    <2> DEFINE y == arg[t].q
    <2>1. PICK m \in Msg : m.len = MessageSize /\ rcvd' = [rcvd EXCEPT ![y] = Append(@, m)]
      BY <1>3 DEF DoesTake
    <2>2. ASSUME NEW q \in Queues, NEW k \in 1..Len(rcvd'[q]) PROVE rcvd'[q][k].len = MessageSize
      <3> DEFINE s == rcvd[y]
      <3>1. s \in Seq(Msg \cup {None}) /\ m \in Msg \cup {None}
        BY <1>1, <1>3
      <3>2. CASE q # y
        BY <1>1, <2>1, <2>2, <3>2 DEF SizesInv
      <3>3. CASE q = y
        <4>1. rcvd'[q] = Append(s, m)
          BY <1>1, <1>3, <2>1, <3>3
        <4>2. k \in 1..Len(Append(s, m)) /\ Len(s) \in Nat
          BY <2>2, <3>1, <4>1, LenProperties
        <4>3. /\ Len(Append(s, m)) = Len(s) + 1 /\ Append(s, m)[Len(s) + 1] = m
              /\ \A j \in 1..Len(s) : Append(s, m)[j] = s[j]
          BY <3>1, AppendProperties
        <4>4. CASE k = Len(s) + 1
          BY <2>1, <4>1, <4>3, <4>4
        <4>5. CASE k \in 1..Len(s)
          BY <1>3, <4>1, <4>3, <4>5 DEF SizesInv
        <4> QED BY <4>2, <4>3, <4>4, <4>5
      <3> QED BY <3>2, <3>3
    <2> QED BY <2>2 DEF SizesInv
  <1> QED BY <1>2, <1>3

(* The steps of the calls.                                                 *)
ReadsSurely == QInv /\ Running /\ ProgInv /\ ConsReads
LEMMA SureReads == ReadsSurely => PolledReadsDontBlock
  BY ReadGoesOn DEF ReadsSurely

ProgramInv ==
    /\ MultiProdInv /\ SizesInv /\ (Running => EventsInv)
    /\ ProgramAssertsHold /\ PolledReadsDontBlock

LEMMA CallsHold ==
    ASSUME ProgramInv, MultiProdInv', Running, NEW t \in Threads, CallLock(t) \/ CallStep(t) \/ CallSpurious(t)
    PROVE  ProgramInv'
  <1>1. QInv /\ QInv' /\ ProgInv /\ SizesInv /\ EventsInv
    BY DEF ProgramInv, MultiProdInv
  <1>2. Running' /\ ProgInv' /\ Effect(t) /\ UNCHANGED <<argv, main, cons, prod>>
    BY <1>1, CallKeeps, ProgramEffect
  <1>3. EventsInv'
    BY <1>1, <1>2, CallEvents
  <1>4. SizesInv'
    <2>1. CASE DoesTake(t)
      <3>1. arg[t].q = QueueOf[cons.i] /\ cons.i \in Producers
        BY <1>1, <1>2, <2>1, Receives, ConsumerIs
      <3> QED BY <1>1, <2>1, <3>1, SizesKept, Constants
    <2>2. CASE ~DoesTake(t)
      <3>1. rcvd' = rcvd
        BY <1>2, <2>2 DEF Effect, DoesNothing, DoesOpen, DoesClose, DoesDestroy, DoesEof, DoesPut, DoesReject, DoesReturn
      <3> QED BY <1>1, <3>1, SizesKept
    <2> QED BY <2>1, <2>2
  <1>5. ProgramAssertsHold'
    BY <1>2 DEF Running, ProgramAssertsHold
  <1>6. PolledReadsDontBlock'
    <2>1. ReadsSurely'
      BY <1>1, <1>2, <1>3 DEF ReadsSurely, EventsInv
    <2> QED BY <2>1, SureReads, PTL
  <1> QED BY <1>2, <1>3, <1>4, <1>5, <1>6 DEF ProgramInv

(* The statements of the threads between the calls.                        *)
LEMMA PlaceStays ==
    ASSUME QInv, Running, ProgInv, ~Running', MainStep \/ ConsStep \/ \E i \in Entries : ProdStep(i)
    PROVE  pc'[ConsumerThread] = pc[ConsumerThread]
  <1> DEFINE t == ConsumerThread
  <1>1. t \in Threads /\ t # MainThread /\ \A i \in Producers : ProducerThreads[i] \in Threads /\ ProducerThreads[i] # t
    BY Constants
  <1>2. CASE \E i \in Entries : ProdStep(i)
    <2>1. PICK i \in Entries : ProdStep(i)
      BY <1>2
    <2>2. i \in Producers /\ Calls(ProducerThreads[i])
      BY <2>1, ProdCalls, EntriesAre DEF ProgInv
    <2> QED BY <1>1, <2>2, CallsPart DEF Stays
  <1>3. CASE MainStep /\ ~MainCreate
    <2>1. Calls(MainThread)
      BY <1>3, MainCalls
    <2> QED BY <1>1, <2>1, Constants, CallsPart DEF Stays
  <1>4. CASE MainCreate
    <2>1. msg_queue_create(Creation(main.i, argv.size))
      BY <1>4 DEF MainCreate
    <2> QED BY <2>1 DEF msg_queue_create, Refuse
  <1>5. CASE ConsStep
    <2>1. main' = main /\ prod' = prod
      BY <1>5, ConsCalls
    <2>2. cons'.at \in {"exit0", "exit1", "aborted", "nomem"}
      BY <2>1 DEF Running, Ends
    <2>3. CASE ConsPoll \/ ConsVerify \/ ConsClose
      BY <2>2, <2>3, ConsumerIs DEF ConsPoll, ConsVerify, ConsClose
    <2>4. CASE ConsRead
      BY <2>2, <2>4, ConsumerIs DEF ConsRead, pollVars, vars
    <2>5. CASE ConsEnd \/ ConsPolled \/ ConsSkip \/ ConsGot \/ ConsVerified \/ ConsClosed
      BY <2>5 DEF ConsEnd, ConsPolled, ConsSkip, ConsGot, ConsVerified, ConsClosed, pollVars, vars
    <2> QED BY <1>5, <2>3, <2>4, <2>5 DEF ConsStep
  <1> QED BY <1>2, <1>3, <1>4, <1>5

LEMMA StatementsHold ==
    ASSUME FreshEvents, ProgramInv, MultiProdInv', Running, MainStep \/ ConsStep \/ \E i \in Entries : ProdStep(i)
    PROVE  ProgramInv'
  <1>1. QInv /\ QInv' /\ ProgInv /\ SizesInv /\ EventsInv
    BY DEF ProgramInv, MultiProdInv
  <1>2. Running' => EventsInv'
    BY <1>1, MainEvents, CreateEvents, ConsEvents, ProdEvents
  <1>3. rcvd' = rcvd /\ UNCHANGED <<argv, spurious>>
    <2>1. CASE ConsStep
      BY <1>1, <2>1, ConsCalls, CallsPart, Constants
    <2>2. CASE MainStep /\ ~MainCreate
      BY <1>1, <2>2, MainCalls, CallsPart, Constants
    <2>3. CASE MainCreate
      <3>1. msg_queue_create(Creation(main.i, argv.size)) /\ UNCHANGED <<argv, spurious>>
        BY <2>3 DEF MainCreate
      <3> QED BY <3>1 DEF msg_queue_create, Refuse
    <2>4. CASE \E i \in Entries : ProdStep(i)
      <3>1. PICK i \in Entries : ProdStep(i)
        BY <2>4
      <3>2. i \in Producers /\ Calls(ProducerThreads[i]) /\ UNCHANGED <<argv, spurious>>
        BY <1>1, <3>1, ProdCalls, EntriesAre DEF ProgInv
      <3> QED BY <1>1, <3>2, CallsPart, Constants
    <2> QED BY <2>1, <2>2, <2>3, <2>4
  <1>4. SizesInv'
    BY <1>1, <1>3, SizesKept
  <1>5. ProgramAssertsHold'
    <2>1. Spared' => Spared
      BY <1>3 DEF Spared
    <2>2. Spared => "aborted" \notin Ends'
      BY <1>1, MainSpared, ConsSpared, ProdSpared
    <2> QED BY <2>1, <2>2 DEF ProgramAssertsHold, Spared
  <1>6. PolledReadsDontBlock'
    <2>1. CASE Running'
      <3>1. ReadsSurely'
        BY <1>1, <1>2, <2>1 DEF ReadsSurely, EventsInv, MultiProdInv
      <3> QED BY <3>1, SureReads, PTL
    <2>2. CASE ~Running'
      BY <1>1, <2>2, PlaceStays DEF ProgramInv, PolledReadsDontBlock
    <2> QED BY <2>1, <2>2
  <1> QED BY <1>2, <1>4, <1>5, <1>6 DEF ProgramInv

LEMMA ProgramBegins == MultiProdInit => ProgramInv
  <1> SUFFICES ASSUME MultiProdInit PROVE ProgramInv
    OBVIOUS
  <1>1. MultiProdInv
    BY MultiProdBegins
  <1>2. /\ main.at = "create" /\ cons.at = "none" /\ prod = [i \in Entries |-> [at |-> "none", sent |-> 0]]
        /\ argv \in Arguments /\ Init
    BY DEF MultiProdInit, PollInit
  <1>3. /\ \A q \in Queues : mq[q].status = "unborn" /\ rcvd[q] = <<>>
        /\ pc[ConsumerThread] = "idle"
    BY <1>2, Constants DEF Init, Unborn, mq_init
  <1>4. EventsInv
    <2>1. ASSUME NEW i \in Entries PROVE Shown(i)
      <3>1. argv.nprod \in Producers
        BY <1>2, MultiProdAssumption
      <3>2. i \in Producers
        BY <3>1, Constants DEF Entries
      <3> QED BY <1>3, <3>2, Constants DEF Shown, InUse
    <2> QED BY <1>2, <2>1 DEF EventsInv, ConsAnswers, Ahead, ConsReads, ConsPolls, ConsVerifies, MainPolls
  <1>5. SizesInv
    <2>1. Len(<<>>) = 0
      OBVIOUS
    <2> QED BY <1>3, <2>1 DEF SizesInv
  <1>6. ProgramAssertsHold
    BY <1>2 DEF ProgramAssertsHold, Ends
  <1>7. PolledReadsDontBlock
    BY <1>3 DEF PolledReadsDontBlock
  <1> QED BY <1>1, <1>4, <1>5, <1>6, <1>7 DEF ProgramInv

LEMMA ProgramKeeps ==
    ASSUME FreshEvents
    PROVE  ProgramInv /\ [MultiProdNext]_allVars => ProgramInv'
  <1> SUFFICES ASSUME ProgramInv, [MultiProdNext]_allVars PROVE ProgramInv'
    OBVIOUS
  <1>1. MultiProdInv'
    BY MultiProdKeeps DEF ProgramInv
  <1>2. CASE UNCHANGED allVars
    <2>1. UNCHANGED <<pollVars, mq, handle, pc, arg, ret, stored, rcvd, poll, argv, main, cons, prod, spurious>>
      BY <1>2 DEF allVars, pollVars, vars, progVars
    <2>2. Entries' = Entries /\ (Running' <=> Running) /\ Ends' = Ends
      BY <2>1 DEF Entries, Running, Ends
    <2>3. \A i \in Entries : /\ (ConsGone(i)' <=> ConsGone(i)) /\ (ReadyIn(i)' <=> ReadyIn(i)) /\ (Ahead(i)' <=> Ahead(i))
                             /\ (ProdGone(i)' <=> ProdGone(i))
      BY <2>1, <2>2 DEF ConsGone, ReadyIn, Ahead, ProdGone, Got, ProdHolds, At
    <2>4. ConsFds' = ConsFds /\ CheckFds' = CheckFds /\ EofFds' = EofFds
      BY <2>1, <2>2, <2>3 DEF ConsFds, CheckFds, EofFds, ConsHandles, Fds
    <2>5. EventsInv => EventsInv'
      <3>1. SUFFICES ASSUME EventsInv PROVE EventsInv'
        OBVIOUS
      <3>2. \A i \in Entries : Shown(i)'
        BY <2>1, <2>2, <2>3, <3>1 DEF EventsInv, Shown
      <3>3. ConsAnswers'
        BY <2>1, <2>2, <2>3, <3>1 DEF EventsInv, ConsAnswers, Answer, Readable, Expected
      <3>4. ConsReads'
        BY <2>1, <3>1 DEF EventsInv, ConsReads, ConsOpen, At, ReadyIn, Got
      <3>5. ConsPolls'
        BY <2>1, <2>2, <2>3, <2>4, <3>1 DEF EventsInv, ConsPolls, Asks, Looks, Answer, Readable, Expected, ConsGone, ReadyIn, Got
      <3>6. ConsVerifies'
        BY <2>1, <2>4, <3>1 DEF EventsInv, ConsVerifies, SurePoll, Sure, Asks
      <3>7. MainPolls'
        BY <2>1, <2>4, <3>1 DEF EventsInv, MainPolls, SurePoll, Sure, Asks
      <3> QED BY <2>2, <3>2, <3>3, <3>4, <3>5, <3>6, <3>7 DEF EventsInv
    <2>6. SizesInv' /\ ProgramAssertsHold' /\ PolledReadsDontBlock'
      BY <2>1, <2>2 DEF ProgramInv, SizesInv, ProgramAssertsHold, PolledReadsDontBlock
    <2> QED BY <1>1, <2>2, <2>5, <2>6 DEF ProgramInv
  <1>3. CASE MultiProdNext
    <2>1. Running
      BY <1>3 DEF MultiProdNext
    <2>2. CASE MainStep \/ ConsStep \/ \E i \in Entries : ProdStep(i)
      BY <1>1, <2>1, <2>2, StatementsHold
    <2>3. CASE \E t \in Threads : CallLock(t) \/ CallStep(t) \/ CallSpurious(t)
      BY <1>1, <2>1, <2>3, CallsHold
    <2> QED BY <1>3, <2>2, <2>3 DEF MultiProdNext
  <1> QED BY <1>2, <1>3

(* The asserts of multiprod.c hold, and the consumer never sleeps in a     *)
(* read of a queue that poll has reported: whatever the number of          *)
(* producers and messages, and whatever the other threads do in between,   *)
(* when new queues start without an event that poll would report.          *)
THEOREM EventsAreTrue ==
    ASSUME FreshEvents
    PROVE  MultiProdSpec => [](ProgramAssertsHold /\ PolledReadsDontBlock)
  <1>1. ProgramInv => ProgramAssertsHold /\ PolledReadsDontBlock
    BY DEF ProgramInv
  <1>2. ProgramInv /\ [MultiProdNext]_allVars => ProgramInv'
    BY ProgramKeeps
  <1> QED BY <1>1, <1>2, ProgramBegins, PTL DEF MultiProdSpec
=============================================================================
