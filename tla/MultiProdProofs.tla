-------------------------- MODULE MultiProdProofs ---------------------------
(***************************************************************************)
(* The program multiprod.c for any number of producers and messages: a     *)
(* successful end has lost no message and leaves no queue behind.  If the  *)
(* memory of new queues does not claim that a side has gone, no read of    *)
(* the consumer blocks and no assert fails.                                *)
(***************************************************************************)
EXTENDS MultiProd, MsgQueuePollProofs

-----------------------------------------------------------------------------
(* The part of a call a thread is in, and what the program can tell of it. *)
InRead == ReadLabels \cup {"read_wait"}
PhaseOf(label) ==
    CASE label \in {"open_lock", "open"} -> "opening"
      [] label \in {"close_lock", "close"} -> "closing"
      [] label \in InRead -> "reading"
      [] label \in WriteLabels -> "writing"
      [] label \in {"wakeup", "hung"} -> "ending"
      [] label \in PollLabels -> "polling"
      [] OTHER -> label
At(t) == PhaseOf(pc[t])
Phase == {"opening", "closing", "reading", "writing", "ending", "polling", "idle", "destroy"}

SamePlace(t) ==
    /\ At(t)' = At(t) /\ ret'[t] = ret[t]
    /\ arg'[t].slot = arg[t].slot /\ arg'[t].dst = arg[t].dst /\ arg'[t].q = arg[t].q
    /\ arg'[t].flags = arg[t].flags /\ arg'[t].rv = arg[t].rv

-----------------------------------------------------------------------------
(* Where the threads are in their calls.                                   *)
MainLabel == {"create", "open_reader", "open_writer", "start", "polled", "close", "closed",
              "exit0", "exit1", "aborted", "nomem"}
ConsLabel == {"none", "loop", "polled", "scan", "got", "verify", "verified", "close", "closed", "done",
              "aborted", "nomem"}
ProdLabel == {"none", "loop", "wrote", "closed", "done", "aborted", "nomem"}
ProgTypes ==
    /\ argv \in Arguments
    /\ main \in [at : MainLabel, i : 1..(argv.nprod + 1)]
    /\ cons \in [at : ConsLabel, i : Entries, ready : Int, revents : Seq(SUBSET Event),
                 done : Nat, sum : SUBSET [q : Queues, id : Nat]]
    /\ prod \in [Entries -> [at : ProdLabel, sent : 0..argv.nmsgs]]

Opening(t, s, d, flag) ==
    At(t) = "opening" /\ arg[t].slot = s /\ arg[t].dst = d /\ arg[t].flags = {flag}
MainPlace == LET t == MainThread  i == main.i IN
    /\ main.at \in {"create", "open_writer", "close"} => At(t) = "idle"
    /\ main.at = "open_reader" =>
          \/ At(t) = "idle"
          \/ i > 1 /\ Opening(t, MainMq[i - 1], ConsumerMq[i - 1], "READER")
    /\ main.at = "start" => i \in Entries /\ (At(t) = "idle" \/ Opening(t, MainMq[i], ProducerMq[i], "WRITER"))
    /\ main.at = "polled" => At(t) \in {"idle", "polling"}
    /\ main.at = "closed" => /\ i \in Entries
                             /\ \/ At(t) = "closing" /\ arg[t].slot = MainMq[i]
                                \/ At(t) = "destroy"
                                \/ At(t) = "idle" /\ ret[t] = "OK"

ConsOpen == handle[ConsumerMq[cons.i]] # NullHandle
ConsPlace == LET t == ConsumerThread  using == arg[ConsumerThread].slot = ConsumerMq[cons.i] IN
    /\ cons.at \in {"none", "loop", "scan", "verify", "close", "done"} => At(t) = "idle"
    /\ cons.at \in {"polled", "verified"} => At(t) \in {"idle", "polling"}
    /\ cons.at \in {"verify", "verified", "close"} => ConsOpen
    /\ cons.at = "got" =>
          \/ ConsOpen /\ \/ At(t) = "reading" /\ using
                         \/ At(t) = "ending" /\ using /\ arg[t].rv \in {"MSG", "EOF"}
                         \/ At(t) = "idle" /\ ret[t] \in {"MSG", "EOF"}
          \/ ~ConsOpen /\ At(t) = "idle" /\ ret[t] = "EBADF"
    /\ cons.at = "closed" =>
          \/ ConsOpen /\ At(t) = "closing" /\ using
          \/ ~ConsOpen /\ (At(t) = "destroy" \/ (At(t) = "idle" /\ ret[t] = "OK"))

ProdPlace(i) == LET t == ProducerThreads[i] IN
    /\ prod[i].at \in {"none", "loop", "done"} => At(t) = "idle"
    /\ prod[i].at = "wrote" => \/ At(t) = "writing"
                               \/ At(t) = "ending" /\ arg[t].rv = "OK"
                               \/ At(t) = "idle" /\ (ret[t] = "OK" \/ (ret[t] = "EMSGSIZE" /\ argv.size < 2))
    /\ prod[i].at = "closed" => \/ At(t) \in {"closing", "destroy"}
                                \/ At(t) = "idle" /\ ret[t] = "OK"

(* Who has been started.                                                   *)
Waits(i) == main.at \in {"create", "open_reader"} \/ (main.at \in {"open_writer", "start"} /\ i >= main.i)
Started ==
    /\ cons.at = "none" <=> main.at \in {"create", "open_reader"}
    /\ \A i \in Entries : prod[i].at = "none" <=> Waits(i)
    /\ \A i \in Producers \ Entries : At(ProducerThreads[i]) = "idle"
    /\ main.at \in {"polled", "close", "closed"} => cons.at = "done" /\ \A i \in Entries : prod[i].at = "done"

(* Who has a handle.                                                       *)
MainHolds(i) == i \in Entries /\
    \/ main.at = "create" /\ i < main.i
    \/ main.at \in {"open_reader", "open_writer", "start", "polled"}
    \/ main.at \in {"close", "closed"} /\ i > main.i
    \/ i = main.i /\ (main.at = "close" \/ (main.at = "closed" /\ At(MainThread) = "closing"))
ProdHolds(i) == i \in Entries /\
    \/ prod[i].at \in {"loop", "wrote"}
    \/ prod[i].at = "closed" /\ At(ProducerThreads[i]) = "closing"
    \/ main.at = "start" /\ main.i = i /\ At(MainThread) = "idle"
ConsMayHold(i) == i \in Entries /\ main.at # "create" /\
    (main.at = "open_reader" => i < main.i - 1 \/ (i = main.i - 1 /\ At(MainThread) = "idle"))
Held(i, holds, flags) == IF holds THEN [q |-> QueueOf[i], flags |-> flags] ELSE NullHandle
HandlesHeld ==
    /\ \A i \in Producers :
          /\ handle[MainMq[i]] = Held(i, MainHolds(i), {})
          /\ handle[ProducerMq[i]] = Held(i, ProdHolds(i), {"WRITER"})
          /\ handle[ConsumerMq[i]] \in {NullHandle, [q |-> QueueOf[i], flags |-> {"READER"}]}
          /\ handle[ConsumerMq[i]] # NullHandle => ConsMayHold(i)
          /\ cons.at = "none" /\ ConsMayHold(i) => handle[ConsumerMq[i]] # NullHandle
    /\ \A s \in Slots : handle[s] # NullHandle =>
          \E i \in Producers : s \in {MainMq[i], ConsumerMq[i], ProducerMq[i]}

(* The queues behind the handles: a side has only gone when its thread has *)
(* closed.                                                                 *)
ConsGone(i) == cons.at # "none" /\ handle[ConsumerMq[i]] = NullHandle
ProdGone(i) == prod[i].at \in {"closed", "done"} /\ ~ProdHolds(i)
QueueKnown(i) == LET b == mq[QueueOf[i]] IN
    /\ b.status = "unborn" <=> i \notin Entries \/ (main.at = "create" /\ i >= main.i)
    /\ b.status # "unborn" => b.size = argv.size * (MessageSize + SizeT)
    /\ b.status = "live" => b.refs # 0 \/ \E t \in Threads : At(t) = "destroy" /\ arg[t].q = QueueOf[i]
    /\ b.no_readers => i \in Entries /\ ConsGone(i)
    /\ b.no_writers => i \in Entries /\ ProdGone(i)

(* How many messages have been sent, received and added up, and which      *)
(* queues have been read to their end.                                     *)
Got(i) == Len(rcvd[QueueOf[i]])
Returning(t, r) == (At(t) = "ending" /\ arg[t].rv = r) \/ (At(t) = "idle" /\ ret[t] = r)
Put(i) == IF prod[i].at = "wrote" /\ Returning(ProducerThreads[i], "OK") THEN 1 ELSE 0
Pending(i) == IF cons.at = "got" /\ cons.i = i /\ Returning(ConsumerThread, "MSG") THEN 1 ELSE 0
SawEof(i) == cons.i = i /\ \/ cons.at \in {"verify", "verified", "close", "closed"}
                           \/ cons.at = "got" /\ Returning(ConsumerThread, "EOF")
Drained(i) == ProdGone(i) /\ Got(i) = stored[QueueOf[i]]
Counted(i) ==
    /\ stored[QueueOf[i]] = prod[i].sent + Put(i)
    /\ prod[i].at = "none" => prod[i].sent = 0
    /\ prod[i].at = "wrote" => prod[i].sent < argv.nmsgs
    /\ prod[i].at \in {"closed", "done"} => prod[i].sent = argv.nmsgs
    /\ Pending(i) <= Got(i)
    /\ ConsGone(i) \/ SawEof(i) => Drained(i)
Numbers(i, n) == {[q |-> QueueOf[i], id |-> k] : k \in 1..n}
Added == cons.sum = UNION {Numbers(i, Got(i) - Pending(i)) : i \in Entries}
AllGone == {i \in Entries : ConsGone(i)}
Closed ==
    /\ cons.done = Cardinality(AllGone) + (IF cons.at = "closed" /\ At(ConsumerThread) = "closing" THEN 1 ELSE 0)
    /\ cons.at = "done" => AllGone = Entries

ProgInv ==
    /\ ProgTypes /\ MainPlace /\ ConsPlace /\ \A i \in Entries : ProdPlace(i)
    /\ Started /\ HandlesHeld
    /\ \A i \in Producers : QueueKnown(i)
    /\ \A i \in Entries : Counted(i)
    /\ Added /\ Closed

-----------------------------------------------------------------------------
(* The program keeps the part of a caller of the queues.                   *)
QInv == QueueInv /\ PollInv /\ IdsInv /\ NumbersInv

LEMMA Constants ==
    /\ Producers = 1..Len(ProducerThreads) /\ Len(ProducerThreads) \in Nat
    /\ MainThread \in Threads /\ ConsumerThread \in Threads /\ MainThread # ConsumerThread
    /\ \A i \in Producers :
          /\ i \in Nat /\ i > 0 /\ QueueOf[i] \in Queues /\ QueueOf[i] # None
          /\ ProducerThreads[i] \in Threads /\ ProducerThreads[i] # MainThread /\ ProducerThreads[i] # ConsumerThread
          /\ MainMq[i] \in Slots /\ ConsumerMq[i] \in Slots /\ ProducerMq[i] \in Slots
          /\ MainMq[i] # None /\ ConsumerMq[i] # None /\ ProducerMq[i] # None
          /\ SlotOwner[MainMq[i]] = MainThread /\ SlotOwner[ConsumerMq[i]] = ConsumerThread
          /\ SlotOwner[ProducerMq[i]] = ProducerThreads[i]
    /\ \A t \in Threads : t # MainThread /\ t # ConsumerThread => \E i \in Producers : t = ProducerThreads[i]
    /\ MessageSize \in Nat /\ MessageSize # 0 /\ SizeT \in Nat /\ SizeT # 0
  <1>1. Producers = 1..Len(ProducerThreads) /\ Len(ProducerThreads) \in Nat
    BY MultiProdAssumption, LenProperties DEF Producers
  <1>2. ASSUME NEW i \in Producers
        PROVE  /\ i \in Nat /\ i > 0 /\ QueueOf[i] \in Queues /\ QueueOf[i] # None
               /\ ProducerThreads[i] \in Threads /\ ProducerThreads[i] # MainThread /\ ProducerThreads[i] # ConsumerThread
               /\ MainMq[i] \in Slots /\ ConsumerMq[i] \in Slots /\ ProducerMq[i] \in Slots
               /\ MainMq[i] # None /\ ConsumerMq[i] # None /\ ProducerMq[i] # None
               /\ SlotOwner[MainMq[i]] = MainThread /\ SlotOwner[ConsumerMq[i]] = ConsumerThread
               /\ SlotOwner[ProducerMq[i]] = ProducerThreads[i]
    <2>1. i \in Nat /\ i > 0
      BY <1>1
    <2>2. /\ MainMq[i] \in Slots /\ ConsumerMq[i] \in Slots /\ ProducerMq[i] \in Slots /\ QueueOf[i] \in Queues
          /\ SlotOwner[MainMq[i]] = MainThread /\ SlotOwner[ConsumerMq[i]] = ConsumerThread
          /\ SlotOwner[ProducerMq[i]] = ProducerThreads[i]
      BY MultiProdAssumption
    <2>3. ProducerThreads[i] \in Threads /\ ProducerThreads[i] # MainThread /\ ProducerThreads[i] # ConsumerThread
      <3> DEFINE all == {ProducerThreads[k] : k \in Producers}
      <3>1. ProducerThreads[i] \in all
        OBVIOUS
      <3>2. {MainThread, ConsumerThread} \cap all = {} /\ all \subseteq Threads
        BY MultiProdAssumption
      <3> HIDE DEF all
      <3> QED BY <3>1, <3>2
    <2> QED BY <2>1, <2>2, <2>3, NoneAssumption
  <1>3. MainThread \in Threads /\ ConsumerThread \in Threads /\ MainThread # ConsumerThread
    BY MultiProdAssumption
  <1>4. \A t \in Threads : t # MainThread /\ t # ConsumerThread => \E i \in Producers : t = ProducerThreads[i]
    BY MultiProdAssumption
  <1>5. MessageSize \in Nat /\ MessageSize # 0 /\ SizeT \in Nat /\ SizeT # 0
    BY MultiProdAssumption, SizeAssumption
  <1> QED BY <1>1, <1>2, <1>3, <1>4, <1>5

(* Nothing is shared between the producers or between the three families   *)
(* of variables.                                                           *)
LEMMA Distinctness ==
    ASSUME NEW i \in Producers, NEW j \in Producers
    PROVE  /\ MainMq[i] # ConsumerMq[j] /\ MainMq[i] # ProducerMq[j] /\ ConsumerMq[i] # ProducerMq[j]
           /\ i # j => /\ MainMq[i] # MainMq[j] /\ ConsumerMq[i] # ConsumerMq[j] /\ ProducerMq[i] # ProducerMq[j]
                       /\ ProducerThreads[i] # ProducerThreads[j] /\ QueueOf[i] # QueueOf[j]
  <1>1. MainMq[i] # ConsumerMq[j] /\ MainMq[i] # ProducerMq[j] /\ ConsumerMq[i] # ProducerMq[j]
    BY Constants
  <1> QED BY <1>1, MultiProdAssumption DEF EachOwn

LEMMA KeepsPart ==
    /\ ReadersHaveRoom /\ LengthsDontWrap /\ WritersBlock
    /\ WriteLens \subseteq {MessageSize} /\ Needed(MessageSize) = SizeT + MessageSize
  <1>1. /\ \A c \in WriteCalls \cup ReadCalls : c.len = MessageSize
        /\ \A c \in CreateCalls \cup OpenCalls : c.flags \in {{}, {"READER"}, {"WRITER"}}
    BY MultiProdCalls DEF Transfer, Creation, ReaderOpen, WriterOpen
  <1>2. WriteLens \subseteq {MessageSize}
    BY <1>1 DEF WriteLens
  <1>3. Needed(MessageSize) = SizeT + MessageSize
    <2>1. MessageSize \in Nat /\ SizeT \in Nat /\ SizeMod \in Nat \ {0} /\ MessageSize + SizeT < SizeMod
      BY MultiProdAssumption, SizeAssumption
    <2> QED BY <2>1 DEF Needed
  <1>4. LengthsDontWrap
    BY <1>1, Constants, MultiProdAssumption, SizeAssumption DEF LengthsDontWrap
  <1>5. ReadersHaveRoom
    BY <1>1, Constants DEF ReadersHaveRoom
  <1>6. WritersBlock
    BY <1>1 DEF WritersBlock
  <1> QED BY <1>2, <1>3, <1>4, <1>5, <1>6

(* Its steps are steps of the queues' clients.                             *)
LEMMA EntriesAre ==
    ASSUME ProgTypes
    PROVE  /\ argv.size \in Nat /\ argv.nmsgs \in Nat /\ argv.nprod \in Nat /\ argv.nprod \in Producers
           /\ Entries \subseteq Producers /\ Entries = 1..argv.nprod
           /\ IsFiniteSet(Entries) /\ Cardinality(Entries) = argv.nprod
           /\ main.i \in Nat /\ main.i >= 1 /\ main.i <= argv.nprod + 1
           /\ main.i \notin Entries => main.i = argv.nprod + 1
  <1>1. argv.size \in Nat /\ argv.nmsgs \in Nat /\ argv.nprod \in Producers
    BY MultiProdAssumption DEF ProgTypes
  <1>2. argv.nprod \in Nat
    BY <1>1, Constants
  <1>3. Entries \subseteq Producers /\ Entries = 1..argv.nprod
    BY <1>1, <1>2, Constants DEF Entries
  <1>4. IsFiniteSet(Entries) /\ Cardinality(Entries) = argv.nprod
    BY <1>2, <1>3, FS_Interval
  <1>5. main.i \in 1..(argv.nprod + 1)
    BY DEF ProgTypes
  <1> QED BY <1>1, <1>2, <1>3, <1>4, <1>5

LEMMA ProgramCalls ==
    ASSUME ProgTypes, MultiProdNext
    PROVE  [PollNext]_pollVars
  <1>1. /\ \A i \in Producers : /\ Creation(i, argv.size) \in CreateCalls
                                /\ ReaderOpen(i) \in OpenCalls /\ WriterOpen(i) \in OpenCalls
                                /\ MainMq[i] \in CloseCalls /\ ConsumerMq[i] \in CloseCalls /\ ProducerMq[i] \in CloseCalls
                                /\ Transfer(ConsumerMq[i]) \in ReadCalls /\ Transfer(ProducerMq[i]) \in WriteCalls
                                /\ ConsumerPoll(i) \in PollCalls /\ CheckPoll(i) \in PollCalls /\ EofPoll(i) \in PollCalls
    BY MultiProdCalls DEF ProgTypes
  <1>2. Entries \subseteq Producers /\ argv.nprod \in Producers /\ cons.i \in Entries
    BY EntriesAre DEF ProgTypes
  <1>3. CASE MainStep
    <2>1. CASE MainCreate \/ MainOpenReader \/ MainOpenWriter \/ MainClose
      <3>1. main.i \in Producers
        BY <1>2, <2>1 DEF MainCreate, MainOpenReader, MainOpenWriter, MainClose, ProgTypes
      <3>2. CASE MainCreate
        BY <1>1, <3>1, <3>2 DEF MainCreate, PollNext, Next, Call
      <3>3. CASE MainOpenReader \/ MainOpenWriter
        BY <1>1, <3>1, <3>3 DEF MainOpenReader, MainOpenWriter, PollNext, Next, Call
      <3>4. CASE MainClose
        BY <1>1, <3>1, <3>4 DEF MainClose, PollNext, Next, Call
      <3> QED BY <2>1, <3>2, <3>3, <3>4
    <2>2. CASE MainPoll
      BY <1>1, <1>2, <2>2 DEF MainPoll, PollNext
    <2>3. CASE MainOpenReaders \/ StartConsumer \/ StartProducer \/ MainPolled \/ MainClosed \/ MainExit
      BY <2>3 DEF MainOpenReaders, StartConsumer, StartProducer, MainPolled, MainClosed, MainExit
    <2> QED BY <1>3, <2>1, <2>2, <2>3 DEF MainStep
  <1>4. CASE ConsStep
    <2>1. CASE ConsPoll \/ ConsVerify
      BY <1>1, <1>2, <2>1 DEF ConsPoll, ConsVerify, PollNext
    <2>2. CASE ConsRead \/ ConsClose
      BY <1>1, <1>2, <2>2 DEF ConsRead, ConsClose, PollNext, Next, Call, pollVars
    <2>3. CASE ConsEnd \/ ConsPolled \/ ConsSkip \/ ConsGot \/ ConsVerified \/ ConsClosed
      BY <2>3 DEF ConsEnd, ConsPolled, ConsSkip, ConsGot, ConsVerified, ConsClosed
    <2> QED BY <1>4, <2>1, <2>2, <2>3 DEF ConsStep
  <1>5. CASE \E i \in Entries : ProdStep(i)
    BY <1>1, <1>2, <1>5 DEF ProdStep, ProdWrite, ProdWrote, ProdClose, ProdClosed, PollNext, Next, Call
  <1>6. CASE \E t \in Threads : CallLock(t) \/ CallStep(t) \/ CallSpurious(t)
    BY <1>6 DEF CallLock, CallStep, CallSpurious, PollNext, Next, PollStep, PollLock
  <1> QED BY <1>3, <1>4, <1>5, <1>6 DEF MultiProdNext

LEMMA QueueStep == ASSUME QInv, [PollNext]_pollVars PROVE QInv'
  <1>1. QueueInv /\ PollInv /\ IdsInv /\ NumbersInv /\ MemoryInv /\ ChannelInv
    BY DEF QInv, QueueInv
  <1>2. QueueInv' /\ PollInv'
    BY <1>1, KeepsPart, PollKeeps
  <1>3. IdsInv' /\ [Channel!ChannelNext]_(Channel!channelVars)
    BY <1>1, KeepsPart, PollFlight
  <1> QED BY <1>1, <1>2, <1>3, NumbersStep DEF QInv

-----------------------------------------------------------------------------
(* The steps of the calls as the program sees them: most change nothing    *)
(* that it can tell; the others are named here.                            *)
SameQueues == \A q \in Queues : SameCounters(mq[q], mq'[q]) /\ mq'[q].size = mq[q].size
RestStays(t) == \A u \in Threads \ {t} : SamePlace(u)
SameCalls(t) == arg'[t].slot = arg[t].slot /\ arg'[t].q = arg[t].q /\ arg'[t].flags = arg[t].flags

DoesNothing == UNCHANGED <<handle, stored, rcvd>> /\ SameQueues /\ \A u \in Threads : SamePlace(u)
DoesOpen(t) ==
    /\ At(t) = "opening" /\ At(t)' = "idle" /\ ret'[t] = "OK" /\ RestStays(t)
    /\ handle' = [handle EXCEPT ![arg[t].dst] = [q |-> arg[t].q, flags |-> arg[t].flags]]
    /\ UNCHANGED <<stored, rcvd>>
    /\ mq' = [mq EXCEPT ![arg[t].q] = mutex_unlock(mq_open(@, arg[t].flags))]
DoesClose(t) ==
    /\ At(t) = "closing" /\ arg[t].q \in Queues /\ RestStays(t) /\ UNCHANGED <<stored, rcvd>>
    /\ handle' = [handle EXCEPT ![arg[t].slot] = NullHandle]
    /\ \A q \in Queues \ {arg[t].q} : mq'[q] = mq[q]
    /\ LET b == mq[arg[t].q]  c == mq'[arg[t].q] IN
       /\ b.status = "live" /\ c.status = "live" /\ c.size = b.size /\ c.buf = b.buf
       /\ c.no_readers = (b.no_readers \/ ("READER" \in arg[t].flags /\ b.readers = 1))
       /\ c.no_writers = (b.no_writers \/ ("WRITER" \in arg[t].flags /\ b.writers = 1))
       /\ \/ At(t)' = "destroy" /\ c.refs = 0 /\ arg'[t].q = arg[t].q
          \/ /\ At(t)' = "idle" /\ ret'[t] = "OK" /\ c.refs # 0
             /\ c.queue_event = b.queue_event \cup CloseEvents(c)
DoesDestroy(t) ==
    /\ At(t) = "destroy" /\ At(t)' = "idle" /\ ret'[t] = "OK" /\ RestStays(t)
    /\ UNCHANGED <<handle, stored, rcvd>>
    /\ mq' = [mq EXCEPT ![arg[t].q].status = "freed"]
DoesTake(t) ==
    /\ At(t) = "reading" /\ At(t)' = "ending" /\ arg'[t].rv = "MSG" /\ ret'[t] = ret[t]
    /\ SameCalls(t) /\ RestStays(t) /\ SameQueues /\ UNCHANGED <<handle, stored>>
    /\ \E m \in Msg : m.len = MessageSize /\ rcvd' = [rcvd EXCEPT ![arg[t].q] = Append(@, m)]
DoesEof(t) ==
    /\ At(t) = "reading" /\ At(t)' = "ending" /\ arg'[t].rv = "EOF" /\ ret'[t] = ret[t]
    /\ SameCalls(t) /\ RestStays(t) /\ SameQueues /\ UNCHANGED <<handle, stored, rcvd>>
    /\ mq[arg[t].q].no_writers /\ mq[arg[t].q].buf = <<>>
DoesPut(t) ==
    /\ At(t) = "writing" /\ At(t)' = "ending" /\ arg'[t].rv = "OK" /\ ret'[t] = ret[t]
    /\ RestStays(t) /\ SameQueues /\ UNCHANGED <<handle, rcvd>>
    /\ stored' = [stored EXCEPT ![arg[t].q] = @ + 1]
DoesReject(t) ==
    /\ At(t) = "writing" /\ At(t)' = "idle" /\ ret'[t] = Rejection(mq[arg[t].q], arg[t].len) /\ ret'[t] # "none"
    /\ RestStays(t) /\ SameQueues /\ UNCHANGED <<handle, stored, rcvd>> /\ arg[t].len \in WriteLens
DoesReturn(t) ==
    /\ At(t)' = "idle" /\ RestStays(t) /\ SameQueues /\ UNCHANGED <<handle, stored, rcvd>>
    /\ \/ At(t) = "ending" /\ ret'[t] = arg[t].rv
       \/ At(t) = "polling" /\ ret'[t] = "OK"
Effect(t) == \/ DoesNothing \/ DoesOpen(t) \/ DoesClose(t) \/ DoesDestroy(t) \/ DoesTake(t)
             \/ DoesEof(t) \/ DoesPut(t) \/ DoesReject(t) \/ DoesReturn(t)

LEMMA PhaseIs ==
    /\ PhaseOf("idle") = "idle" /\ PhaseOf("destroy") = "destroy"
    /\ \A l \in {"open_lock", "open"} : PhaseOf(l) = "opening"
    /\ \A l \in {"close_lock", "close"} : PhaseOf(l) = "closing"
    /\ \A l \in {"read_lock", "read", "take", "take_body", "read_wait"} : PhaseOf(l) = "reading"
    /\ \A l \in {"write_lock", "write", "write_wait", "write_relock", "write_loop"} : PhaseOf(l) = "writing"
    /\ \A l \in {"wakeup", "hung"} : PhaseOf(l) = "ending"
    /\ \A l \in PollLabels : PhaseOf(l) = "polling"
  BY DEF PhaseOf, InRead, ReadLabels, WriteLabels, PollLabels

LEMMA PhaseTells ==
    ASSUME NEW l \in Label
    PROVE  /\ PhaseOf(l) \in Phase
           /\ PhaseOf(l) = "idle" <=> l = "idle"
           /\ PhaseOf(l) = "destroy" <=> l = "destroy"
           /\ PhaseOf(l) = "opening" <=> l \in {"open_lock", "open"}
           /\ PhaseOf(l) = "closing" <=> l \in {"close_lock", "close"}
           /\ PhaseOf(l) = "reading" <=> l \in InRead
           /\ PhaseOf(l) = "writing" <=> l \in WriteLabels
           /\ PhaseOf(l) = "ending" <=> l \in {"wakeup", "hung"}
           /\ PhaseOf(l) = "polling" <=> l \in PollLabels
  BY DEF PhaseOf, InRead, ReadLabels, WriteLabels, PollLabels, Label, LockLabels, Critical, Phase

LEMMA AtTells ==
    ASSUME MemoryInv, NEW t \in Threads
    PROVE  /\ At(t) \in Phase
           /\ At(t) = "idle" <=> pc[t] = "idle"
           /\ At(t) = "destroy" <=> pc[t] = "destroy"
           /\ At(t) = "opening" <=> pc[t] \in {"open_lock", "open"}
           /\ At(t) = "closing" <=> pc[t] \in {"close_lock", "close"}
           /\ At(t) = "reading" <=> pc[t] \in InRead
           /\ At(t) = "writing" <=> pc[t] \in WriteLabels
           /\ At(t) = "ending" <=> pc[t] \in {"wakeup", "hung"}
           /\ At(t) = "polling" <=> pc[t] \in PollLabels
           /\ arg[t].q = None <=> At(t) \in {"idle", "polling"}
  <1>1. pc[t] \in Label
    BY DEF MemoryInv, TypeOK
  <1>2. arg[t].q = None <=> pc[t] \in {"idle"} \cup PollLabels
    BY DEF MemoryInv, CallInv
  <1> QED BY <1>1, <1>2, PhaseTells DEF At

LEMMA WokenPhase == ASSUME NEW l1, NEW l2, Woken(l1, l2) PROVE PhaseOf(l2) = PhaseOf(l1)
  BY PhaseIs DEF Woken

(* Most steps inside a call are quiet: they touch no handle.               *)
LEMMA QuietView ==
    ASSUME MemoryInv, NEW t \in Threads, Quiet(t), \A q \in Queues : mq'[q].size = mq[q].size,
           \A u \in Threads \ {t} : Woken(pc[u], pc'[u]) /\ ret'[u] = ret[u] /\ arg'[u] = arg[u]
    PROVE  handle' = handle /\ SameQueues /\ RestStays(t)
  <1>1. ASSUME NEW u \in Threads \ {t} PROVE SamePlace(u)
    BY WokenPhase DEF SamePlace, At
  <1> QED BY <1>1 DEF Quiet, SameQueues, RestStays

LEMMA CriticalView ==
    ASSUME MemoryInv, NEW t \in Threads, Quiet(t), NEW label, CriticalStep(t, label),
           \A u \in Threads \ {t} : ret'[u] = ret[u]
    PROVE  handle' = handle /\ SameQueues /\ RestStays(t) /\ At(t)' = PhaseOf(label) /\ At(t) = PhaseOf(pc[t])
  <1>1. \A q \in Queues : mq'[q].size = mq[q].size
    BY DEF CriticalStep, Elsewhere
  <1>2. \A u \in Threads \ {t} : Woken(pc[u], pc'[u]) /\ ret'[u] = ret[u] /\ arg'[u] = arg[u]
    BY DEF CriticalStep, Others
  <1>3. pc'[t] = label
    BY DEF CriticalStep
  <1> QED BY <1>1, <1>2, <1>3, QuietView DEF At

(* Locks, waits, spurious wake-ups and the first half of a read.           *)
Patient(t) == pc[t] \in {"read", "write", "write_loop"} => "NONBLOCK" \notin arg[t].flags
LEMMA SilentEffect ==
    ASSUME QInv, QInv', NEW t \in Threads, Patient(t),
           \/ Lock(t) \/ SpuriousWakeup(t)
           \/ ReadEmpty(t) \/ ReadPeek(t) \/ ReadHeader(t) \/ WriteWait(t)
    PROVE  DoesNothing
  <1> USE DEF QInv, QueueInv
  <1>1. Quiet(t)
    BY QuietSteps
  <1>2. UNCHANGED <<handle, stored, rcvd>>
    BY DEF Lock, SpuriousWakeup, ReadEmpty, ReadPeek, ReadHeader, WriteWait
  <1>3. pc \in [Threads -> Label] /\ mq \in [Queues -> Backend] /\ arg \in [Threads -> Arg]
    BY DEF MemoryInv, TypeOK
  <1>4. CASE Lock(t)
    <2>1. arg' = arg /\ ret' = ret /\ pc[t] \in LockLabels /\ pc' = [pc EXCEPT ![t] = Locked(pc[t])]
          /\ mq' = [mq EXCEPT ![arg[t].q].mutex = t]
      BY <1>4 DEF Lock
    <2>2. \A q \in Queues : mq'[q].size = mq[q].size
      BY <1>3, <2>1 DEF Backend
    <2>3. \A u \in Threads \ {t} : pc'[u] = pc[u]
      BY <1>3, <2>1
    <2>4. SameQueues /\ RestStays(t)
      BY <1>1, <2>1, <2>2, <2>3, QuietView DEF Woken
    <2>5. PhaseOf(pc'[t]) = PhaseOf(pc[t])
      BY <1>3, <2>1, PhaseIs DEF LockLabels, Locked
    <2>6. SamePlace(t)
      BY <2>1, <2>5 DEF SamePlace, At
    <2> QED BY <1>2, <2>4, <2>6 DEF DoesNothing, RestStays
  <1>5. CASE SpuriousWakeup(t)
    <2>1. arg' = arg /\ ret' = ret /\ mq' = mq
          /\ \A u \in Threads : Woken(pc[u], pc'[u])
      BY <1>3, <1>5 DEF SpuriousWakeup, Woken
    <2>2. SameQueues /\ RestStays(t)
      BY <1>1, <2>1, QuietView
    <2>3. SamePlace(t)
      BY <2>1, WokenPhase DEF SamePlace, At
    <2> QED BY <1>2, <2>2, <2>3 DEF DoesNothing, RestStays
  <1>6. ASSUME NEW label, CriticalStep(t, label), PhaseOf(label) = PhaseOf(pc[t]), ret' = ret,
               arg' = arg \/ \E n : arg' = [arg EXCEPT ![t].head = n]
        PROVE  DoesNothing
    <2>1. SameQueues /\ RestStays(t) /\ At(t)' = At(t)
      BY <1>1, <1>6, CriticalView
    <2>2. SamePlace(t)
      BY <1>3, <1>6, <2>1 DEF SamePlace, Arg
    <2> QED BY <1>2, <2>1, <2>2 DEF DoesNothing, RestStays
  <1>7. CASE ReadEmpty(t)
    <2>1. pc[t] = "read" /\ ret' = ret /\ arg' = arg /\ pc' = [pc EXCEPT ![t] = "read_wait"]
      BY <1>7 DEF ReadEmpty, Patient
    <2>2. pc'[t] = "read_wait"
      BY <1>3, <2>1
    <2>3. CriticalStep(t, "read_wait")
      BY <1>7, <2>2, EmptyChannel DEF CriticalStep
    <2> QED BY <1>6, <2>1, <2>3, PhaseIs
  <1>8. CASE ReadPeek(t)
    <2>1. pc[t] = "read" /\ ret' = ret /\ \E n : arg' = [arg EXCEPT ![t].head = n]
      BY <1>8 DEF ReadPeek
    <2>2. CriticalStep(t, "take")
      BY <1>8, PeekChannel, KeepsPart
    <2> QED BY <1>6, <2>1, <2>2, PhaseIs
  <1>9. CASE ReadHeader(t)
    <2>1. pc[t] = "take" /\ ret' = ret /\ \E n : arg' = [arg EXCEPT ![t].head = n]
      BY <1>9 DEF ReadHeader
    <2>2. CriticalStep(t, "take_body")
      BY <1>9, HeaderChannel
    <2> QED BY <1>6, <2>1, <2>2, PhaseIs
  <1>10. CASE WriteWait(t)
    <2>1. pc[t] \in {"write", "write_loop"} /\ ret' = ret /\ arg' = arg
      BY <1>10 DEF WriteWait, Accepted
    <2>2. CriticalStep(t, "write_wait")
      BY <1>10, WaitChannel, KeepsPart
    <2> QED BY <1>6, <2>1, <2>2, PhaseIs
  <1> QED BY <1>4, <1>5, <1>7, <1>8, <1>9, <1>10

(* The reads and writes that give a result.                                *)
LEMMA ResultEffect ==
    ASSUME QInv, QInv', NEW t \in Threads, Patient(t),
           ReadBody(t) \/ ReadEof(t) \/ WritePut(t) \/ WriteReject(t) \/ EndWakeup(t)
    PROVE  DoesTake(t) \/ DoesEof(t) \/ DoesPut(t) \/ DoesReject(t) \/ DoesReturn(t)
  <1> USE DEF QInv, QueueInv
  <1>1. Quiet(t)
    BY QuietSteps
  <1>2. pc \in [Threads -> Label] /\ ret \in [Threads -> Result] /\ arg \in [Threads -> Arg] /\ arg[t] \in Arg
    BY DEF MemoryInv, TypeOK
  <1>3. \A r : LET a == [arg[t] EXCEPT !.rv = r] IN
           a.rv = r /\ a.slot = arg[t].slot /\ a.q = arg[t].q /\ a.flags = arg[t].flags
    BY <1>2 DEF Arg
  <1>4. CASE ReadBody(t)
    <2>1. ret' = ret /\ pc[t] = "take_body" /\ arg' = [arg EXCEPT ![t].rv = "MSG"] /\ UNCHANGED <<handle, stored>>
      BY <1>4 DEF ReadBody, BeginWakeup
    <2>2. CriticalStep(t, "wakeup") /\ \E m \in Msg : m.len = MessageSize /\ rcvd' = [rcvd EXCEPT ![arg[t].q] = Append(@, m)]
      <3> DEFINE b == mq[arg[t].q]  m == b.buf[1].msg
      <3>1. CriticalStep(t, "wakeup") /\ m \in Msg /\ b.buf # <<>> /\ rcvd' = [rcvd EXCEPT ![arg[t].q] = Append(@, m)]
        BY <1>4, BodyChannel
      <3>2. b \in Backend /\ b.buf \in Seq(Cell) /\ BackendOK(b)
        BY <2>1, Inside DEF Critical
      <3>3. 1 \in 1..Len(b.buf)
        BY <3>1, <3>2, EmptySeq
      <3>4. m.len = MessageSize
        BY <3>2, <3>3, StoredLengths, KeepsPart
      <3> QED BY <3>1, <3>4
    <2>3. SameQueues /\ RestStays(t) /\ At(t)' = "ending" /\ At(t) = "reading"
      BY <1>1, <2>1, <2>2, CriticalView, PhaseIs
    <2>4. arg'[t].rv = "MSG" /\ SameCalls(t)
      BY <1>2, <1>3, <2>1 DEF SameCalls
    <2> QED BY <2>1, <2>2, <2>3, <2>4 DEF DoesTake
  <1>5. CASE ReadEof(t)
    <2>1. ret' = ret /\ pc[t] = "read" /\ arg' = [arg EXCEPT ![t].rv = "EOF"] /\ UNCHANGED <<handle, stored, rcvd>>
      BY <1>5 DEF ReadEof, BeginWakeup
    <2>2. CriticalStep(t, "wakeup") /\ mq[arg[t].q].buf = <<>> /\ mq[arg[t].q].no_writers
      BY <1>5, EofChannel
    <2>3. SameQueues /\ RestStays(t) /\ At(t)' = "ending" /\ At(t) = "reading"
      BY <1>1, <2>1, <2>2, CriticalView, PhaseIs
    <2>4. arg'[t].rv = "EOF" /\ SameCalls(t)
      BY <1>2, <1>3, <2>1 DEF SameCalls
    <2> QED BY <2>1, <2>2, <2>3, <2>4 DEF DoesEof
  <1>6. CASE WritePut(t)
    <2>1. PICK pcs \in SignalReader(arg[t].q) : pc' = [pcs EXCEPT ![t] = "wakeup"] /\ arg' = [arg EXCEPT ![t].rv = "OK"] /\ ret' = ret
      BY <1>6 DEF WritePut, BeginWakeup, Accepted, Patient
    <2>2. pc'[t] = "wakeup"
      BY <2>1, SignalWakes
    <2>3. CriticalStep(t, "wakeup") /\ pc[t] \in {"write", "write_loop"}
      BY <1>6, <2>2, PutChannel, KeepsPart DEF CriticalStep
    <2>4. SameQueues /\ RestStays(t) /\ At(t)' = "ending" /\ At(t) = "writing"
      BY <1>1, <2>1, <2>3, CriticalView, PhaseIs
    <2>5. arg'[t].rv = "OK"
      BY <1>2, <1>3, <2>1
    <2>6. stored' = [stored EXCEPT ![arg[t].q] = @ + 1] /\ UNCHANGED <<handle, rcvd>>
      BY <1>6 DEF WritePut
    <2> QED BY <2>1, <2>4, <2>5, <2>6 DEF DoesPut
  <1>7. CASE WriteReject(t)
    <2>1. /\ pc[t] = "write" /\ Rejection(mq[arg[t].q], arg[t].len) # "none" /\ UNCHANGED <<handle, stored, rcvd>>
          /\ ret' = [ret EXCEPT ![t] = Rejection(mq[arg[t].q], arg[t].len)]
      BY <1>7 DEF WriteReject, Leave
    <2>2. CriticalStep(t, "idle")
      BY <1>7, EndChannel
    <2>3. SameQueues /\ RestStays(t) /\ At(t)' = "idle" /\ At(t) = "writing"
      BY <1>1, <1>2, <2>1, <2>2, CriticalView, PhaseIs
    <2>4. ret'[t] = Rejection(mq[arg[t].q], arg[t].len)
      BY <1>2, <2>1
    <2>5. arg[t].len \in WriteLens
      <3>1. pc[t] \notin {"idle"} \cup PollLabels /\ pc[t] \in WriteLabels
        BY <2>1 DEF PollLabels, WriteLabels
      <3>2. arg[t].q # None
        BY <3>1 DEF MemoryInv, CallInv
      <3> QED BY <3>1, <3>2 DEF ChannelInv, CallOK
    <2> QED BY <2>1, <2>3, <2>4, <2>5 DEF DoesReject
  <1>8. CASE EndWakeup(t)
    <2>1. pc[t] = "wakeup" /\ UNCHANGED <<handle, stored, rcvd>> /\ ret' = [ret EXCEPT ![t] = arg[t].rv]
      BY <1>8 DEF EndWakeup, Leave
    <2>2. CriticalStep(t, "idle")
      BY <1>8, EndChannel
    <2>3. SameQueues /\ RestStays(t) /\ At(t)' = "idle" /\ At(t) = "ending"
      BY <1>1, <1>2, <2>1, <2>2, CriticalView, PhaseIs
    <2> QED BY <1>2, <2>1, <2>3 DEF DoesReturn
  <1> QED BY <1>4, <1>5, <1>6, <1>7, <1>8

LEMMA OpenEffect ==
    ASSUME QInv, QInv', NEW t \in Threads, OpenBody(t)
    PROVE  DoesOpen(t)
  <1> USE DEF QInv, QueueInv
  <1>1. pc[t] = "open" /\ pc \in [Threads -> Label] /\ ret \in [Threads -> Result]
    BY DEF OpenBody, MemoryInv, TypeOK
  <1>2. CriticalStep(t, "idle") /\ \A u \in Threads \ {t} : pc'[u] = pc[u]
    BY OpenChannel
  <1>3. \A u \in Threads \ {t} : ret'[u] = ret[u] /\ arg'[u] = arg[u]
    BY <1>1, <1>2 DEF OpenBody, Leave, CriticalStep, Others
  <1>4. RestStays(t)
    BY <1>2, <1>3 DEF RestStays, SamePlace, At
  <1>5. At(t) = "opening" /\ At(t)' = "idle" /\ ret'[t] = "OK"
    BY <1>1, PhaseIs DEF At, OpenBody, Leave
  <1> QED BY <1>4, <1>5 DEF OpenBody, DoesOpen

LEMMA CloseEffect ==
    ASSUME QInv, QInv', NEW t \in Threads, CloseBody(t)
    PROVE  DoesClose(t)
  <1> USE DEF QInv, QueueInv
  <1> DEFINE q == arg[t].q
             b == mq_close(mq[q], arg[t].flags)
             d == [b EXCEPT !.queue_event = @ \cup CloseEvents(b)]
  <1>1. pc[t] = "close" /\ UNCHANGED <<stored, rcvd>> /\ handle' = [handle EXCEPT ![arg[t].slot] = NullHandle]
    BY DEF CloseBody
  <1>2. /\ q \in Queues /\ mq[q].status = "live" /\ pc \in [Threads -> Label] /\ ret \in [Threads -> Result]
        /\ mq \in [Queues -> Backend] /\ mq[q] \in Backend
    BY <1>1, CloseCounts DEF MemoryInv, TypeOK
  <1>3. CriticalStep(t, "destroy") \/ CriticalStep(t, "idle")
    BY CloseChannel
  <1>4. \A u \in Threads \ {t} : ret'[u] = ret[u]
    BY <1>2 DEF CloseBody, Leave
  <1>5. RestStays(t) /\ \A x \in Queues \ {q} : mq'[x] = mq[x]
    <2>1. \A u \in Threads \ {t} : SamePlace(u)
      BY <1>3, <1>4, WokenPhase DEF CriticalStep, Others, SamePlace, At
    <2> QED BY <1>3, <2>1 DEF RestStays, CriticalStep, Elsewhere
  <1>6. mq'[q].status = "live" /\ mq'[q].size = mq[q].size /\ mq'[q].buf = mq[q].buf
    <2>1. mq'[q].status = mq[q].status /\ mq'[q].size = mq[q].size
      BY <1>3 DEF CriticalStep
    <2> QED BY <1>2, <2>1, CloseChannel
  <1>7. /\ b.refs = mq[q].refs - 1 /\ b.queue_event = mq[q].queue_event
        /\ b.no_readers = (mq[q].no_readers \/ ("READER" \in arg[t].flags /\ mq[q].readers = 1))
        /\ b.no_writers = (mq[q].no_writers \/ ("WRITER" \in arg[t].flags /\ mq[q].writers = 1))
    BY <1>2 DEF mq_close, Backend
  <1>8. /\ mutex_unlock(b).refs = b.refs /\ mutex_unlock(b).no_readers = b.no_readers
        /\ mutex_unlock(b).no_writers = b.no_writers
        /\ mutex_unlock(d).refs = b.refs /\ mutex_unlock(d).no_readers = b.no_readers
        /\ mutex_unlock(d).no_writers = b.no_writers
        /\ mutex_unlock(d).queue_event = b.queue_event \cup CloseEvents(b)
        /\ CloseEvents(mutex_unlock(d)) = CloseEvents(b)
    BY DEF mutex_unlock, mq_close, CloseEvents
  <1>9. At(t) = "closing"
    BY <1>1, PhaseIs DEF At
  <1> HIDE DEF b, d
  <1>10. CASE LastHandle(b)
    <2>1. pc' = [pc EXCEPT ![t] = "destroy"] /\ arg' = arg /\ mq' = [mq EXCEPT ![q] = mutex_unlock(b)]
      BY <1>10 DEF CloseBody, b
    <2>2. mq'[q] = mutex_unlock(b) /\ b.refs = 0
      BY <1>2, <1>10, <2>1 DEF LastHandle
    <2>3. At(t)' = "destroy" /\ arg'[t].q = arg[t].q
      BY <1>2, <2>1, PhaseIs DEF At
    <2> QED BY <1>1, <1>2, <1>5, <1>6, <1>7, <1>8, <1>9, <2>2, <2>3 DEF DoesClose
  <1>11. CASE ~LastHandle(b)
    <2>1. /\ pc' = [CloseBroadcast(q, b) EXCEPT ![t] = "idle"] /\ ret' = [ret EXCEPT ![t] = "OK"]
          /\ mq' = [mq EXCEPT ![q] = mutex_unlock(d)]
      BY <1>11 DEF CloseBody, Leave, b, d
    <2>2. mq'[q] = mutex_unlock(d) /\ b.refs # 0
      BY <1>2, <1>11, <2>1 DEF LastHandle
    <2>3. pc'[t] = "idle" /\ ret'[t] = "OK"
      BY <1>2, <2>1, BroadcastEffect
    <2>4. At(t)' = "idle"
      BY <2>3, PhaseIs DEF At
    <2>5. mq'[q].queue_event = mq[q].queue_event \cup CloseEvents(mq'[q])
      BY <1>7, <1>8, <2>2
    <2> QED BY <1>1, <1>2, <1>5, <1>6, <1>7, <1>8, <1>9, <2>2, <2>3, <2>4, <2>5 DEF DoesClose
  <1> QED BY <1>10, <1>11

LEMMA DestroyEffect ==
    ASSUME QInv, NEW t \in Threads, Destroy(t)
    PROVE  DoesDestroy(t)
  <1> USE DEF QInv, QueueInv
  <1>1. /\ pc[t] = "destroy" /\ pc' = [pc EXCEPT ![t] = "idle"] /\ arg' = [arg EXCEPT ![t] = NoArg]
        /\ ret' = [ret EXCEPT ![t] = "OK"]
        /\ pc \in [Threads -> Label] /\ ret \in [Threads -> Result] /\ arg \in [Threads -> Arg]
    BY DEF Destroy, Leave, MemoryInv, TypeOK
  <1>2. RestStays(t)
    BY <1>1 DEF RestStays, SamePlace, At
  <1>3. At(t) = "destroy" /\ At(t)' = "idle" /\ ret'[t] = "OK"
    BY <1>1, PhaseIs DEF At
  <1> QED BY <1>2, <1>3 DEF Destroy, DoesDestroy

(* The steps of polls, and those of helper_wakeup.                         *)
LEMMA PollEffect ==
    ASSUME QInv, QInv', NEW t \in Threads,
           PollLock(t) \/ PollStep(t) \/ PollSpurious(t) \/ WakeNode(t)
    PROVE  DoesNothing \/ DoesReturn(t)
  <1> USE DEF QInv, QueueInv
  <1>1. pc \in [Threads -> Label] /\ ret \in [Threads -> Result]
    BY DEF MemoryInv, TypeOK
  <1>2. PollFrame
    BY AddPoll, DelPoll, CountPoll, PlainPoll, WakeShape, WakePoll DEF PollLock, PollStep
  <1>3. UNCHANGED <<handle, stored, rcvd, arg>> /\ SameQueues
    BY <1>2 DEF PollFrame, OnlyList, SameQueues
  <1>4. ASSUME \A u \in Threads : PhaseOf(pc'[u]) = PhaseOf(pc[u]), ret' = ret PROVE DoesNothing
    BY <1>3, <1>4 DEF DoesNothing, SamePlace, At
  <1>5. ASSUME NEW label \in PollLabels, pc[t] \in PollLabels, pc' = [pc EXCEPT ![t] = label]
        PROVE  \A u \in Threads : PhaseOf(pc'[u]) = PhaseOf(pc[u])
    BY <1>1, <1>5, PhaseIs
  <1>6. CASE PollAdd(t)
    BY <1>4, <1>5, <1>6 DEF PollAdd, PollLabels
  <1>7. CASE PollWake(t)
    BY <1>4, <1>5, <1>7 DEF PollWake, PollLabels
  <1>8. CASE PollDel(t)
    BY <1>1, <1>4, <1>5, <1>8 DEF PollDel, PollLabels
  <1>9. CASE PollCount(t)
    <2>1. ret' = ret /\ pc[t] \in PollLabels
      BY <1>9 DEF PollCount, PollLabels
    <2>2. pc' = pc \/ \E label \in PollLabels : pc' = [pc EXCEPT ![t] = label]
      BY <1>1, <1>9 DEF PollCount, PollLabels
    <2> QED BY <1>4, <1>5, <2>1, <2>2
  <1>10. CASE PollRelease(t)
    BY <1>4, <1>5, <1>10 DEF PollRelease, PollLabels
  <1>11. CASE PollSpurious(t)
    BY <1>4, <1>5, <1>11 DEF PollSpurious, PollLabels
  <1>12. CASE WakeNode(t)
    <2>1. WakeEffect(t)
      BY <1>12, WakeShape
    <2>2. ASSUME NEW u \in Threads PROVE PhaseOf(pc'[u]) = PhaseOf(pc[u])
      BY <2>1, PhaseIs DEF WakeEffect, PollLabels
    <2> QED BY <1>4, <2>1, <2>2 DEF WakeEffect
  <1>13. CASE PollFinish(t)
    <2>1. pc[t] = "poll_finish" /\ pc' = [pc EXCEPT ![t] = "idle"] /\ ret' = [ret EXCEPT ![t] = "OK"]
      BY <1>13 DEF PollFinish
    <2>2. RestStays(t)
      BY <1>1, <1>3, <2>1 DEF RestStays, SamePlace, At
    <2>3. At(t) = "polling" /\ At(t)' = "idle" /\ ret'[t] = "OK"
      BY <1>1, <2>1, PhaseIs DEF At, PollLabels
    <2> QED BY <1>3, <2>2, <2>3 DEF DoesReturn
  <1> QED BY <1>6, <1>7, <1>8, <1>9, <1>10, <1>11, <1>12, <1>13 DEF PollLock, PollStep

LEMMA StepEffects ==
    ASSUME QInv, QInv', NEW t \in Threads, Patient(t),
           CallLock(t) \/ CallStep(t) \/ CallSpurious(t)
    PROVE  Effect(t) /\ UNCHANGED <<argv, main, cons, prod>>
  <1>1. UNCHANGED <<argv, main, cons, prod>>
    BY DEF CallLock, CallStep, CallSpurious, progVars
  <1>2. Lock(t) \/ Progress(t) \/ SpuriousWakeup(t) \/ PollLock(t) \/ PollStep(t) \/ PollSpurious(t) \/ WakeNode(t)
    BY DEF CallLock, CallStep, CallSpurious
  <1>3. Effect(t)
    BY <1>2, OpenEffect, CloseEffect, DestroyEffect, PollEffect, SilentEffect, ResultEffect DEF Progress, Effect
  <1> QED BY <1>1, <1>3

-----------------------------------------------------------------------------
(* What the invariant says of the calls in progress.                       *)
LEMMA MainLabels ==
    ASSUME QInv, Running, ProgInv
    PROVE  LET a == At(MainThread) IN
           /\ a \in {"idle", "opening", "closing", "destroy", "polling"}
           /\ main.at \in MainLabel \ {"exit0", "exit1", "aborted", "nomem"}
           /\ a = "opening" => main.at \in {"open_reader", "start"}
           /\ a \in {"closing", "destroy"} => main.at = "closed" /\ main.i \in Entries
           /\ a = "polling" => main.at = "polled"
  <1>1. main.at \in MainLabel \ {"exit0", "exit1", "aborted", "nomem"}
    BY DEF Running, Ends, ProgInv, ProgTypes
  <1>2. MainPlace
    BY DEF ProgInv
  <1> QED BY <1>1, <1>2 DEF MainPlace, MainLabel, Opening

LEMMA ConsLabels ==
    ASSUME QInv, Running, ProgInv
    PROVE  LET a == At(ConsumerThread) IN
           /\ a \in {"idle", "reading", "ending", "closing", "destroy", "polling"}
           /\ cons.at \in ConsLabel \ {"aborted", "nomem"} /\ cons.i \in Entries
           /\ a \in {"reading", "ending"} => cons.at = "got"
           /\ a \in {"closing", "destroy"} => cons.at = "closed"
           /\ a = "polling" => cons.at \in {"polled", "verified"}
  <1>1. cons.at \in ConsLabel \ {"aborted", "nomem"} /\ cons.i \in Entries
    BY DEF Running, Ends, ProgInv, ProgTypes
  <1>2. ConsPlace
    BY DEF ProgInv
  <1> QED BY <1>1, <1>2 DEF ConsPlace, ConsLabel

LEMMA ProdLabels ==
    ASSUME QInv, Running, ProgInv, NEW i \in Producers
    PROVE  LET a == At(ProducerThreads[i]) IN
           /\ a \in {"idle", "writing", "ending", "closing", "destroy"}
           /\ i \in Entries => prod[i].at \in ProdLabel \ {"aborted", "nomem"}
           /\ a # "idle" => i \in Entries
           /\ a \in {"writing", "ending"} => prod[i].at = "wrote"
           /\ a \in {"closing", "destroy"} => prod[i].at = "closed"
  <1>1. CASE i \in Entries
    <2>1. prod[i].at \in ProdLabel /\ i \in DOMAIN prod
      BY <1>1 DEF ProgInv, ProgTypes
    <2>2. prod[i].at \in Ends
      BY <2>1 DEF Ends
    <2>3. prod[i].at \in ProdLabel \ {"aborted", "nomem"}
      BY <2>1, <2>2 DEF Running
    <2>4. ProdPlace(i)
      BY <1>1 DEF ProgInv
    <2> QED BY <1>1, <2>3, <2>4 DEF ProdPlace, ProdLabel
  <1>2. CASE i \notin Entries
    BY <1>2 DEF ProgInv, Started
  <1> QED BY <1>1, <1>2

(* A call works on the queue of a handle of its thread.                    *)
LEMMA CallOf ==
    ASSUME QInv, Running, ProgInv, NEW t \in Threads, At(t) \notin {"idle", "polling", "destroy"}
    PROVE  \E i \in Entries :
              /\ arg[t].q = QueueOf[i]
              /\ \/ t = MainThread /\ arg[t].slot = MainMq[i] /\ MainHolds(i)
                 \/ t = ConsumerThread /\ arg[t].slot = ConsumerMq[i]
                 \/ t = ProducerThreads[i] /\ arg[t].slot = ProducerMq[i] /\ ProdHolds(i)
              /\ At(t) # "opening" =>
                    arg[t].flags = IF t = MainThread THEN {} ELSE IF t = ConsumerThread THEN {"READER"} ELSE {"WRITER"}
  <1> USE DEF QInv, QueueInv
  <1> DEFINE s == arg[t].slot
  <1>1. arg[t].q # None /\ pc[t] # "destroy"
    BY AtTells
  <1>2. /\ s \in Slots /\ SlotOwner[s] = t /\ handle[s].q = arg[t].q
        /\ arg[t].dst = None => handle[s].flags = arg[t].flags
    BY <1>1, CallSlot
  <1>3. At(t) # "opening" => arg[t].dst = None
    BY AtTells DEF MemoryInv, CallInv
  <1>4. handle[s] # NullHandle
    BY <1>1, <1>2 DEF NullHandle
  <1>5. HandlesHeld
    BY DEF ProgInv
  <1>6. PICK i \in Producers : s \in {MainMq[i], ConsumerMq[i], ProducerMq[i]}
    BY <1>2, <1>4, <1>5 DEF HandlesHeld
  <1>7. CASE s = MainMq[i]
    <2>1. t = MainThread
      BY <1>2, <1>7, Constants
    <2>2. MainHolds(i) /\ handle[s] = [q |-> QueueOf[i], flags |-> {}]
      BY <1>4, <1>5, <1>7 DEF HandlesHeld, Held
    <2>3. i \in Entries
      BY <2>2 DEF MainHolds
    <2> QED BY <1>2, <1>3, <1>7, <2>1, <2>2, <2>3
  <1>8. CASE s = ConsumerMq[i]
    <2>1. t = ConsumerThread /\ t # MainThread
      BY <1>2, <1>8, Constants
    <2>2. ConsMayHold(i) /\ handle[s] = [q |-> QueueOf[i], flags |-> {"READER"}]
      BY <1>4, <1>5, <1>8 DEF HandlesHeld
    <2>3. i \in Entries
      BY <2>2 DEF ConsMayHold
    <2> QED BY <1>2, <1>3, <1>8, <2>1, <2>2, <2>3
  <1>9. CASE s = ProducerMq[i]
    <2>1. t = ProducerThreads[i] /\ t # MainThread /\ t # ConsumerThread
      BY <1>2, <1>9, Constants
    <2>2. ProdHolds(i) /\ handle[s] = [q |-> QueueOf[i], flags |-> {"WRITER"}]
      BY <1>4, <1>5, <1>9 DEF HandlesHeld, Held
    <2>3. i \in Entries
      BY <2>2 DEF ProdHolds
    <2> QED BY <1>2, <1>3, <1>9, <2>1, <2>2, <2>3
  <1> QED BY <1>6, <1>7, <1>8, <1>9

LEMMA ProgramEffect ==
    ASSUME QInv, QInv', Running, ProgInv, NEW t \in Threads, CallLock(t) \/ CallStep(t) \/ CallSpurious(t)
    PROVE  Effect(t) /\ UNCHANGED <<argv, main, cons, prod>>
  <1>1. Patient(t)
    <2>1. SUFFICES ASSUME pc[t] \in {"read", "write", "write_loop"} PROVE "NONBLOCK" \notin arg[t].flags
      BY DEF Patient
    <2>2. At(t) \in {"reading", "writing"}
      BY <2>1, PhaseIs DEF At
    <2> QED BY <2>2, CallOf
  <1> QED BY <1>1, StepEffects

-----------------------------------------------------------------------------
(* What stays of the invariant when a thread does.                         *)
LEMMA MainStays ==
    ASSUME ProgInv, UNCHANGED <<argv, main>>, SamePlace(MainThread)
    PROVE  /\ MainPlace'
           /\ \A i : /\ MainHolds(i)' <=> MainHolds(i)
                     /\ ConsMayHold(i)' <=> ConsMayHold(i)
                     /\ Waits(i)' <=> Waits(i)
           /\ Entries' = Entries
  <1>1. Entries' = Entries
    BY DEF Entries
  <1>2. MainPlace'
    BY <1>1 DEF ProgInv, MainPlace, Opening, SamePlace
  <1>3. \A i : (MainHolds(i)' <=> MainHolds(i)) /\ (ConsMayHold(i)' <=> ConsMayHold(i))
    BY <1>1 DEF MainHolds, ConsMayHold, SamePlace
  <1> QED BY <1>1, <1>2, <1>3 DEF Waits

LEMMA ConsStays ==
    ASSUME ProgInv, UNCHANGED <<argv, cons>>, SamePlace(ConsumerThread),
           \A i \in Entries : handle'[ConsumerMq[i]] = handle[ConsumerMq[i]]
    PROVE  /\ ConsPlace' /\ Closed'
           /\ \A i \in Entries : ConsGone(i)' <=> ConsGone(i)
           /\ \A i : (SawEof(i)' <=> SawEof(i)) /\ Pending(i)' = Pending(i)
  <1>1. Entries' = Entries /\ cons.i \in Entries
    BY DEF Entries, ProgInv, ProgTypes
  <1>2. ConsOpen' <=> ConsOpen
    BY <1>1 DEF ConsOpen
  <1>3. ConsPlace'
    BY <1>2 DEF ProgInv, ConsPlace, SamePlace
  <1>4. \A i \in Entries : ConsGone(i)' <=> ConsGone(i)
    BY DEF ConsGone
  <1>5. AllGone' = AllGone
    BY <1>1, <1>4 DEF AllGone
  <1>6. Closed'
    BY <1>1, <1>5 DEF ProgInv, Closed, SamePlace
  <1>7. \A i : (SawEof(i)' <=> SawEof(i)) /\ Pending(i)' = Pending(i)
    BY DEF SawEof, Pending, Returning, SamePlace
  <1> QED BY <1>3, <1>4, <1>6, <1>7

Handing(i) == main.at = "start" /\ main.i = i /\ At(MainThread) = "idle"
LEMMA ProdStays ==
    ASSUME ProgInv, UNCHANGED argv, NEW i \in Entries, prod'[i] = prod[i],
           SamePlace(ProducerThreads[i])
    PROVE  /\ ProdPlace(i)' /\ Put(i)' = Put(i)
           /\ (Handing(i)' <=> Handing(i)) => (ProdHolds(i)' <=> ProdHolds(i)) /\ (ProdGone(i)' <=> ProdGone(i))
  <1>1. Entries' = Entries
    BY DEF Entries
  <1>2. ProdPlace(i)' /\ Put(i)' = Put(i)
    BY DEF ProgInv, ProdPlace, Put, Returning, SamePlace
  <1>3. (Handing(i)' <=> Handing(i)) => (ProdHolds(i)' <=> ProdHolds(i))
    BY <1>1 DEF Handing, ProdHolds, SamePlace
  <1> QED BY <1>2, <1>3 DEF ProdGone

LEMMA HandlesStay ==
    ASSUME ProgInv, UNCHANGED <<handle, cons>>,
           \A i \in Producers : /\ MainHolds(i)' <=> MainHolds(i)
                                /\ ProdHolds(i)' <=> ProdHolds(i)
                                /\ ConsMayHold(i)' <=> ConsMayHold(i)
    PROVE  HandlesHeld'
  <1>1. HandlesHeld
    BY DEF ProgInv
  <1> QED BY <1>1 DEF HandlesHeld, Held

LEMMA QueueStays ==
    ASSUME ProgInv, NEW i \in Producers, UNCHANGED argv, SameCounters(mq[QueueOf[i]], mq'[QueueOf[i]]),
           mq'[QueueOf[i]].size = mq[QueueOf[i]].size,
           i \in Entries => ((main'.at = "create" /\ i >= main'.i) <=> (main.at = "create" /\ i >= main.i)),
           i \in Entries => (ConsGone(i) => ConsGone(i)') /\ (ProdGone(i) => ProdGone(i)'),
           \A t \in Threads : At(t) = "destroy" /\ arg[t].q = QueueOf[i] =>
                                 At(t)' = "destroy" /\ arg'[t].q = QueueOf[i]
    PROVE  QueueKnown(i)'
  <1>1. QueueKnown(i) /\ Entries' = Entries
    BY DEF ProgInv, Entries
  <1>2. (\E t \in Threads : At(t) = "destroy" /\ arg[t].q = QueueOf[i])
            => (\E t \in Threads : At(t)' = "destroy" /\ arg'[t].q = QueueOf[i])
    OBVIOUS
  <1> QED BY <1>1, <1>2 DEF QueueKnown, SameCounters

(* Steps that touch neither handles nor the counters of the queues.        *)
LEMMA QuietKeeps ==
    ASSUME QInv, Running, ProgInv, UNCHANGED <<argv, main, cons, prod, handle>>, SameQueues,
           NEW t \in Threads, RestStays(t),
           \/ SamePlace(t)
           \/ At(t) \in {"reading", "writing", "ending"} /\ At(t)' \in {"idle", "ending"}
           \/ At(t) = "polling" /\ At(t)' = "idle"
    PROVE  /\ Running' /\ ProgTypes' /\ MainPlace' /\ Started' /\ HandlesHeld' /\ Closed'
           /\ \A i \in Producers : QueueKnown(i)'
           /\ \A i \in Entries : (ConsGone(i)' <=> ConsGone(i)) /\ (ProdGone(i)' <=> ProdGone(i))
           /\ t # ConsumerThread \/ SamePlace(t) =>
                 ConsPlace' /\ \A i : (SawEof(i)' <=> SawEof(i)) /\ Pending(i)' = Pending(i)
           /\ \A i \in Entries : t # ProducerThreads[i] \/ SamePlace(t) => ProdPlace(i)' /\ Put(i)' = Put(i)
  <1>1. Entries' = Entries /\ Entries \subseteq Producers /\ Running' /\ ProgTypes'
    BY EntriesAre DEF Entries, Running, Ends, ProgInv, ProgTypes
  <1>2. MainPlace' /\ \A i : /\ MainHolds(i)' <=> MainHolds(i)
                             /\ ConsMayHold(i)' <=> ConsMayHold(i)
                             /\ Handing(i)' <=> Handing(i)
    <2>1. CASE SamePlace(MainThread)
      BY <2>1, MainStays DEF Handing, SamePlace
    <2>2. CASE ~SamePlace(MainThread)
      <3>1. t = MainThread /\ At(t) = "polling" /\ At(t)' = "idle"
        BY <2>2, Constants, MainLabels DEF RestStays
      <3>2. main.at = "polled"
        BY <3>1, MainLabels
      <3> QED BY <1>1, <3>1, <3>2 DEF MainPlace, MainHolds, ConsMayHold, Handing
    <2> QED BY <2>1, <2>2
  <1>3. /\ \A i \in Entries : ConsGone(i)' <=> ConsGone(i)
        /\ t # ConsumerThread \/ SamePlace(t) =>
              ConsPlace' /\ \A i : (SawEof(i)' <=> SawEof(i)) /\ Pending(i)' = Pending(i)
    <2>1. \A i \in Entries : ConsGone(i)' <=> ConsGone(i)
      BY DEF ConsGone
    <2>2. t # ConsumerThread \/ SamePlace(t) => SamePlace(ConsumerThread)
      BY Constants DEF RestStays
    <2> QED BY <2>1, <2>2, ConsStays
  <1>4. Closed'
    <2>1. At(ConsumerThread) = "closing" <=> At(ConsumerThread)' = "closing"
      BY Constants DEF RestStays, SamePlace
    <2>2. AllGone' = AllGone
      BY <1>1, <1>3 DEF AllGone
    <2> QED BY <1>1, <2>1, <2>2 DEF ProgInv, Closed
  <1>5. ASSUME NEW i \in Entries
        PROVE  /\ (ProdHolds(i)' <=> ProdHolds(i)) /\ (ProdGone(i)' <=> ProdGone(i))
               /\ t # ProducerThreads[i] \/ SamePlace(t) => ProdPlace(i)' /\ Put(i)' = Put(i)
    <2>1. t # ProducerThreads[i] \/ SamePlace(t) => SamePlace(ProducerThreads[i])
      BY <1>1, Constants DEF RestStays
    <2>2. At(ProducerThreads[i]) = "closing" <=> At(ProducerThreads[i])' = "closing"
      BY <2>1 DEF SamePlace
    <2>3. (ProdHolds(i)' <=> ProdHolds(i)) /\ (ProdGone(i)' <=> ProdGone(i))
      BY <1>1, <1>2, <2>2 DEF ProdHolds, ProdGone, Handing
    <2> QED BY <2>1, <2>3, ProdStays
  <1>6. HandlesHeld'
    <2>1. \A i \in Producers : ProdHolds(i)' <=> ProdHolds(i)
      BY <1>1, <1>5 DEF ProdHolds
    <2> QED BY <1>2, <2>1, HandlesStay
  <1>7. Started'
    <2>1. ASSUME NEW i \in Producers \ Entries PROVE At(ProducerThreads[i])' = "idle"
      <3>1. At(ProducerThreads[i]) = "idle" /\ ProducerThreads[i] \in Threads
        BY Constants DEF ProgInv, Started
      <3> QED BY <3>1 DEF RestStays, SamePlace
    <2>2. \A i : Waits(i)' <=> Waits(i)
      BY DEF Waits
    <2> QED BY <1>1, <2>1, <2>2 DEF ProgInv, Started
  <1>8. ASSUME NEW i \in Producers PROVE QueueKnown(i)'
    <2>1. \A u \in Threads : At(u) = "destroy" /\ arg[u].q = QueueOf[i] =>
                                At(u)' = "destroy" /\ arg'[u].q = QueueOf[i]
      BY DEF RestStays, SamePlace
    <2> QED BY <1>3, <1>5, <2>1, QueueStays, Constants DEF SameQueues
  <1> QED BY <1>1, <1>2, <1>3, <1>4, <1>5, <1>6, <1>7, <1>8

LEMMA CountStays ==
    ASSUME ProgInv, UNCHANGED argv, NEW i \in Entries, prod'[i] = prod[i],
           stored'[QueueOf[i]] = stored[QueueOf[i]], Got(i)' = Got(i), Put(i)' = Put(i), Pending(i)' = Pending(i),
           ConsGone(i)' \/ SawEof(i)' => ConsGone(i) \/ SawEof(i), ProdGone(i) => ProdGone(i)'
    PROVE  Counted(i)'
  <1>1. Counted(i)
    BY DEF ProgInv
  <1> QED BY <1>1 DEF Counted, Drained

LEMMA SumStays ==
    ASSUME ProgInv, UNCHANGED argv, cons'.sum = cons.sum,
           \A i \in Entries : Got(i)' - Pending(i)' = Got(i) - Pending(i)
    PROVE  Added'
  <1>1. Entries' = Entries /\ Added
    BY DEF Entries, ProgInv
  <1>2. \A i \in Entries : Numbers(i, Got(i) - Pending(i))' = Numbers(i, Got(i) - Pending(i))
    BY DEF Numbers
  <1> QED BY <1>1, <1>2 DEF Added

LEMMA NothingKeeps ==
    ASSUME QInv, Running, ProgInv, UNCHANGED <<argv, main, cons, prod>>, DoesNothing
    PROVE  Running' /\ ProgInv'
  <1>1. MainThread \in Threads /\ RestStays(MainThread) /\ SamePlace(MainThread)
    BY Constants DEF DoesNothing, RestStays
  <1>2. UNCHANGED <<handle, stored, rcvd>> /\ SameQueues
    BY DEF DoesNothing
  <1>3. /\ Running' /\ ProgTypes' /\ MainPlace' /\ Started' /\ HandlesHeld' /\ Closed'
        /\ \A i \in Producers : QueueKnown(i)'
        /\ \A i \in Entries : (ConsGone(i)' <=> ConsGone(i)) /\ (ProdGone(i)' <=> ProdGone(i))
        /\ ConsPlace' /\ \A i : (SawEof(i)' <=> SawEof(i)) /\ Pending(i)' = Pending(i)
        /\ \A i \in Entries : ProdPlace(i)' /\ Put(i)' = Put(i)
    BY <1>1, <1>2, QuietKeeps
  <1>4. \A i : Got(i)' = Got(i)
    BY <1>2 DEF Got
  <1>5. \A i \in Entries : Counted(i)'
    BY <1>2, <1>3, <1>4, CountStays
  <1>6. Added'
    BY <1>3, <1>4, SumStays
  <1>7. Entries' = Entries
    BY DEF Entries
  <1> QED BY <1>3, <1>5, <1>6, <1>7 DEF ProgInv

(* A message or the end of file comes out of a read of the consumer.       *)
LEMMA Receives ==
    ASSUME QInv, Running, ProgInv, UNCHANGED <<argv, main, cons, prod>>, NEW t \in Threads,
           DoesTake(t) \/ DoesEof(t)
    PROVE  LET i == cons.i IN
           /\ t = ConsumerThread /\ i \in Entries /\ arg[t].q = QueueOf[i] /\ cons.at = "got"
           /\ Running' /\ ProgTypes' /\ MainPlace' /\ Started' /\ HandlesHeld' /\ Closed' /\ ConsPlace'
           /\ Entries' = Entries
           /\ \A j \in Producers : QueueKnown(j)'
           /\ \A j \in Entries : /\ ConsGone(j)' <=> ConsGone(j)
                                 /\ ProdGone(j)' <=> ProdGone(j)
                                 /\ ProdPlace(j)' /\ Put(j)' = Put(j)
           /\ ~ConsGone(i) /\ ~SawEof(i) /\ Pending(i) = 0
           /\ \A j : j # i => ~SawEof(j) /\ ~SawEof(j)' /\ Pending(j) = 0 /\ Pending(j)' = 0
  <1> DEFINE i == cons.i
  <1>1. At(t) = "reading" /\ At(t)' = "ending" /\ RestStays(t) /\ SameQueues /\ UNCHANGED <<handle, stored>>
        /\ SameCalls(t) /\ arg'[t].rv \in {"MSG", "EOF"}
    BY DEF DoesTake, DoesEof
  <1>2. t = ConsumerThread
    <2>1. t # MainThread
      BY <1>1, MainLabels
    <2>2. ASSUME t # ConsumerThread PROVE FALSE
      <3>1. PICK j \in Producers : t = ProducerThreads[j]
        BY <2>1, <2>2, Constants
      <3> QED BY <1>1, <3>1, ProdLabels
    <2> QED BY <2>2
  <1>3. i \in Entries /\ cons.at = "got"
    BY <1>1, <1>2, ConsLabels
  <1>4. ConsOpen /\ arg[t].slot = ConsumerMq[i]
    BY <1>1, <1>2, <1>3 DEF ProgInv, ConsPlace
  <1>5. arg[t].q = QueueOf[i]
    <2>1. PICK j \in Entries : arg[t].q = QueueOf[j] /\ arg[t].slot = ConsumerMq[j]
      BY <1>1, <1>2, CallOf, Constants, EntriesAre DEF ProgInv
    <2>2. i \in Producers /\ j \in Producers
      BY <1>3, EntriesAre DEF ProgInv
    <2> QED BY <1>4, <2>1, <2>2, Distinctness
  <1>6. /\ Running' /\ ProgTypes' /\ MainPlace' /\ Started' /\ HandlesHeld' /\ Closed'
        /\ \A j \in Producers : QueueKnown(j)'
        /\ \A j \in Entries : (ConsGone(j)' <=> ConsGone(j)) /\ (ProdGone(j)' <=> ProdGone(j))
    BY <1>1, QuietKeeps
  <1>7. \A j \in Entries : ProdPlace(j)' /\ Put(j)' = Put(j)
    <2>1. ASSUME NEW j \in Entries PROVE t # ProducerThreads[j]
      BY <1>2, Constants, EntriesAre DEF ProgInv
    <2> QED BY <1>1, <2>1, QuietKeeps
  <1>8. ConsPlace'
    <2>1. ConsOpen'
      BY <1>1, <1>4 DEF ConsOpen
    <2>2. arg'[t].slot = ConsumerMq[cons'.i]
      BY <1>1, <1>4 DEF SameCalls
    <2> QED BY <1>1, <1>2, <1>3, <2>1, <2>2 DEF ConsPlace
  <1>9. ~ConsGone(i) /\ ~SawEof(i) /\ Pending(i) = 0
        /\ \A j : j # i => ~SawEof(j) /\ ~SawEof(j)' /\ Pending(j) = 0 /\ Pending(j)' = 0
    BY <1>1, <1>2, <1>3, <1>4 DEF ConsGone, ConsOpen, SawEof, Pending, Returning
  <1>10. Entries' = Entries
    BY DEF Entries
  <1> QED BY <1>2, <1>3, <1>5, <1>6, <1>7, <1>8, <1>9, <1>10

LEMMA TakeKeeps ==
    ASSUME QInv, Running, ProgInv, UNCHANGED <<argv, main, cons, prod>>, NEW t \in Threads, DoesTake(t)
    PROVE  Running' /\ ProgInv'
  <1> DEFINE i == cons.i
  <1>1. /\ t = ConsumerThread /\ i \in Entries /\ arg[t].q = QueueOf[i] /\ cons.at = "got"
        /\ Running' /\ ProgTypes' /\ MainPlace' /\ Started' /\ HandlesHeld' /\ Closed' /\ ConsPlace'
        /\ Entries' = Entries
        /\ \A j \in Producers : QueueKnown(j)'
        /\ \A j \in Entries : /\ ConsGone(j)' <=> ConsGone(j)
                              /\ ProdGone(j)' <=> ProdGone(j)
                              /\ ProdPlace(j)' /\ Put(j)' = Put(j)
        /\ ~ConsGone(i) /\ ~SawEof(i) /\ Pending(i) = 0
        /\ \A j : j # i => ~SawEof(j) /\ ~SawEof(j)' /\ Pending(j) = 0 /\ Pending(j)' = 0
    BY Receives
  <1>2. stored' = stored /\ At(t)' = "ending" /\ arg'[t].rv = "MSG"
    BY DEF DoesTake
  <1>3. PICK m \in Msg : rcvd' = [rcvd EXCEPT ![QueueOf[i]] = Append(@, m)]
    BY <1>1 DEF DoesTake
  <1>4. Pending(i)' = 1 /\ ~SawEof(i)'
    BY <1>1, <1>2 DEF Pending, SawEof, Returning
  <1>5. Entries \subseteq Producers /\ \A j \in Producers : QueueOf[j] \in Queues
    BY EntriesAre, Constants DEF ProgInv
  <1>6. rcvd \in [Queues -> Seq(Msg \cup {None})] /\ rcvd[QueueOf[i]] \in Seq(Msg)
    BY <1>1, <1>5 DEF QInv, QueueInv, MemoryInv, TypeOK, NumbersInv
  <1>7. Got(i)' = Got(i) + 1 /\ Got(i) \in Nat
    <2>1. rcvd'[QueueOf[i]] = Append(rcvd[QueueOf[i]], m)
      BY <1>1, <1>3, <1>5, <1>6
    <2> QED BY <1>6, <2>1, AppendProperties, LenProperties DEF Got
  <1>8. \A j \in Entries : j # i => Got(j)' = Got(j)
    BY <1>1, <1>3, <1>5, <1>6, Distinctness DEF Got
  <1>9. Counted(i)'
    <2>1. Counted(i)
      BY <1>1 DEF ProgInv
    <2> QED BY <1>1, <1>2, <1>4, <1>7, <2>1 DEF Counted, Drained
  <1>10. \A j \in Entries : j # i => Counted(j)'
    BY <1>1, <1>2, <1>8, CountStays
  <1>11. Added'
    BY <1>1, <1>4, <1>7, <1>8, SumStays
  <1> QED BY <1>1, <1>9, <1>10, <1>11 DEF ProgInv

LEMMA EofKeeps ==
    ASSUME QInv, Running, ProgInv, UNCHANGED <<argv, main, cons, prod>>, NEW t \in Threads, DoesEof(t)
    PROVE  Running' /\ ProgInv'
  <1> DEFINE i == cons.i
  <1>1. /\ t = ConsumerThread /\ i \in Entries /\ arg[t].q = QueueOf[i] /\ cons.at = "got"
        /\ Running' /\ ProgTypes' /\ MainPlace' /\ Started' /\ HandlesHeld' /\ Closed' /\ ConsPlace'
        /\ Entries' = Entries
        /\ \A j \in Producers : QueueKnown(j)'
        /\ \A j \in Entries : /\ ConsGone(j)' <=> ConsGone(j)
                              /\ ProdGone(j)' <=> ProdGone(j)
                              /\ ProdPlace(j)' /\ Put(j)' = Put(j)
        /\ ~ConsGone(i) /\ ~SawEof(i) /\ Pending(i) = 0
        /\ \A j : j # i => ~SawEof(j) /\ ~SawEof(j)' /\ Pending(j) = 0 /\ Pending(j)' = 0
    BY Receives
  <1>2. UNCHANGED <<stored, rcvd>> /\ At(t)' = "ending" /\ arg'[t].rv = "EOF"
        /\ mq[QueueOf[i]].no_writers /\ mq[QueueOf[i]].buf = <<>>
    BY <1>1 DEF DoesEof
  <1>3. Pending(i)' = 0 /\ \A j : Got(j)' = Got(j)
    BY <1>1, <1>2 DEF Pending, Returning, Got
  <1>4. i \in Producers /\ QueueOf[i] \in Queues
    BY <1>1, EntriesAre, Constants DEF ProgInv
  <1>5. Drained(i)
    <2>1. ProdGone(i)
      BY <1>2, <1>4 DEF ProgInv, QueueKnown
    <2>2. First(<<>>, stored[QueueOf[i]]) = Got(i) + 1
      BY <1>2, <1>4 DEF QInv, NumbersInv, Got
    <2>3. stored[QueueOf[i]] + 1 = Got(i) + 1 /\ stored[QueueOf[i]] \in Nat /\ Got(i) \in Nat
      <3>1. stored[QueueOf[i]] \in Nat /\ rcvd[QueueOf[i]] \in Seq(Msg)
        BY <1>4 DEF QInv, QueueInv, MemoryInv, TypeOK, NumbersInv
      <3> QED BY <2>2, <3>1, LenProperties DEF First, Got
    <2> QED BY <2>1, <2>3 DEF Drained
  <1>6. Counted(i)'
    <2>1. Counted(i)
      BY <1>1 DEF ProgInv
    <2> QED BY <1>1, <1>2, <1>3, <1>5, <2>1 DEF Counted, Drained
  <1>7. \A j \in Entries : j # i => Counted(j)'
    BY <1>1, <1>2, <1>3, CountStays
  <1>8. Added'
    BY <1>1, <1>3, SumStays
  <1> QED BY <1>1, <1>6, <1>7, <1>8 DEF ProgInv

(* A write of a producer puts its message in, or is refused.               *)
LEMMA Sends ==
    ASSUME QInv, Running, ProgInv, NEW t \in Threads, At(t) = "writing"
    PROVE  \E i \in Entries : t = ProducerThreads[i] /\ arg[t].q = QueueOf[i] /\ prod[i].at = "wrote"
  <1>1. t # MainThread /\ t # ConsumerThread
    BY MainLabels, ConsLabels
  <1>2. PICK i \in Entries : t = ProducerThreads[i] /\ arg[t].q = QueueOf[i]
    BY <1>1, CallOf
  <1>3. i \in Producers
    BY EntriesAre DEF ProgInv
  <1> QED BY <1>2, <1>3, ProdLabels

LEMMA OnlyProducer ==
    ASSUME ProgInv, NEW i \in Entries
    PROVE  /\ i \in Producers /\ ProducerThreads[i] \in Threads /\ QueueOf[i] \in Queues
           /\ ProducerThreads[i] # MainThread /\ ProducerThreads[i] # ConsumerThread
           /\ \A j \in Entries : j # i => ProducerThreads[j] # ProducerThreads[i] /\ QueueOf[j] # QueueOf[i]
  <1>1. Entries \subseteq Producers
    BY EntriesAre DEF ProgInv
  <1> QED BY <1>1, Constants, Distinctness

LEMMA PutKeeps ==
    ASSUME QInv, Running, ProgInv, UNCHANGED <<argv, main, cons, prod>>, NEW t \in Threads, DoesPut(t)
    PROVE  Running' /\ ProgInv'
  <1>1. At(t) = "writing" /\ At(t)' = "ending" /\ RestStays(t) /\ SameQueues /\ UNCHANGED <<handle, rcvd>>
        /\ arg'[t].rv = "OK"
    BY DEF DoesPut
  <1>2. PICK i \in Entries : t = ProducerThreads[i] /\ arg[t].q = QueueOf[i] /\ prod[i].at = "wrote"
    BY <1>1, Sends
  <1>3. /\ i \in Producers /\ QueueOf[i] \in Queues /\ t # MainThread /\ t # ConsumerThread
        /\ \A j \in Entries : j # i => ProducerThreads[j] # t /\ QueueOf[j] # QueueOf[i]
    BY <1>2, OnlyProducer
  <1>4. /\ Running' /\ ProgTypes' /\ MainPlace' /\ Started' /\ HandlesHeld' /\ Closed' /\ ConsPlace'
        /\ \A j \in Producers : QueueKnown(j)'
        /\ \A j \in Entries : (ConsGone(j)' <=> ConsGone(j)) /\ (ProdGone(j)' <=> ProdGone(j))
        /\ \A j : (SawEof(j)' <=> SawEof(j)) /\ Pending(j)' = Pending(j)
        /\ \A j \in Entries : j # i => ProdPlace(j)' /\ Put(j)' = Put(j)
    BY <1>1, <1>3, QuietKeeps
  <1>5. stored' = [stored EXCEPT ![QueueOf[i]] = @ + 1] /\ stored \in [Queues -> Nat]
    BY <1>2 DEF DoesPut, QInv, QueueInv, MemoryInv, TypeOK
  <1>6. \A j : Got(j)' = Got(j)
    BY <1>1 DEF Got
  <1>7. ProdPlace(i)' /\ Put(i) = 0 /\ Put(i)' = 1
    BY <1>1, <1>2 DEF ProdPlace, Put, Returning
  <1>8. Counted(i)'
    <2>1. Counted(i) /\ prod[i].sent \in Nat
      BY <1>2, EntriesAre DEF ProgInv, ProgTypes
    <2>2. ~ProdGone(i)
      BY <1>2 DEF ProdGone
    <2>3. stored'[QueueOf[i]] = stored[QueueOf[i]] + 1
      BY <1>3, <1>5
    <2> QED BY <1>2, <1>4, <1>6, <1>7, <2>1, <2>2, <2>3 DEF Counted, Drained
  <1>9. \A j \in Entries : j # i => Counted(j)'
    <2>1. \A j \in Entries : j # i => stored'[QueueOf[j]] = stored[QueueOf[j]]
      BY <1>3, <1>5, OnlyProducer
    <2> QED BY <1>4, <1>6, <2>1, CountStays
  <1>10. Added' /\ Entries' = Entries
    BY <1>4, <1>6, SumStays DEF Entries
  <1> QED BY <1>4, <1>7, <1>8, <1>9, <1>10 DEF ProgInv

(* The size of the queue counts in messages.                               *)
LEMMA LargeEnough ==
    ASSUME NEW n \in Nat, n >= 2, NEW k \in Nat, k # 0
    PROVE  n * k > k
  <1>1. PICK d \in Nat : n = 2 + d
    <2>1. n - 2 \in Nat /\ n = 2 + (n - 2)
      OBVIOUS
    <2> QED BY <2>1
  <1>2. d * k \in Nat
    OBVIOUS
  <1>3. n * k = 2 * k + d * k
    BY <1>1
  <1> QED BY <1>2, <1>3

LEMMA RejectKeeps ==
    ASSUME QInv, Running, ProgInv, UNCHANGED <<argv, main, cons, prod>>, NEW t \in Threads, DoesReject(t)
    PROVE  Running' /\ ProgInv'
  <1>1. At(t) = "writing" /\ At(t)' = "idle" /\ RestStays(t) /\ SameQueues /\ UNCHANGED <<handle, stored, rcvd>>
        /\ ret'[t] = Rejection(mq[arg[t].q], arg[t].len) /\ ret'[t] # "none" /\ arg[t].len \in WriteLens
    BY DEF DoesReject
  <1>2. PICK i \in Entries : t = ProducerThreads[i] /\ arg[t].q = QueueOf[i] /\ prod[i].at = "wrote"
    BY <1>1, Sends
  <1>3. /\ i \in Producers /\ QueueOf[i] \in Queues /\ t # MainThread /\ t # ConsumerThread
        /\ \A j \in Entries : j # i => ProducerThreads[j] # t
    BY <1>2, OnlyProducer
  <1>4. /\ Running' /\ ProgTypes' /\ MainPlace' /\ Started' /\ HandlesHeld' /\ Closed' /\ ConsPlace'
        /\ \A j \in Producers : QueueKnown(j)'
        /\ \A j \in Entries : (ConsGone(j)' <=> ConsGone(j)) /\ (ProdGone(j)' <=> ProdGone(j))
        /\ \A j : (SawEof(j)' <=> SawEof(j)) /\ Pending(j)' = Pending(j)
        /\ \A j \in Entries : j # i => ProdPlace(j)' /\ Put(j)' = Put(j)
    BY <1>1, <1>3, QuietKeeps
  <1>5. \A j : Got(j)' = Got(j)
    BY <1>1 DEF Got
  <1>6. ret'[t] = "EMSGSIZE" /\ argv.size < 2
    <2> DEFINE b == mq[QueueOf[i]]
    <2>1. ~b.no_readers
      <3>1. ASSUME b.no_readers PROVE FALSE
        <4>1. ConsGone(i)
          BY <1>3, <3>1 DEF ProgInv, QueueKnown
        <4>2. Counted(i)
          BY <1>2 DEF ProgInv
        <4> QED BY <1>2, <4>1, <4>2 DEF Counted, Drained, ProdGone
      <3> QED BY <3>1
    <2>2. Needed(arg[t].len) = SizeT + MessageSize
      BY <1>1, KeepsPart
    <2>3. ret'[t] = "EMSGSIZE" /\ b.size <= SizeT + MessageSize
      BY <1>1, <1>2, <2>1, <2>2 DEF Rejection
    <2>4. b.status # "unborn"
      <3>1. arg[t].q # None
        BY <1>2, <1>3, NoneAssumption
      <3>2. b.status = "live"
        BY <1>2, <3>1 DEF QInv, QueueInv, MemoryInv, NoUseAfterFree
      <3> QED BY <3>2
    <2>5. b.size = argv.size * (MessageSize + SizeT)
      BY <1>3, <2>4 DEF ProgInv, QueueKnown
    <2>6. argv.size \in Nat /\ MessageSize + SizeT \in Nat /\ MessageSize + SizeT # 0
          /\ MessageSize + SizeT = SizeT + MessageSize
      BY EntriesAre, Constants DEF ProgInv
    <2>7. ~(argv.size >= 2)
      <3>1. ASSUME argv.size >= 2 PROVE FALSE
        <4>1. argv.size * (MessageSize + SizeT) > MessageSize + SizeT
          BY <2>6, <3>1, LargeEnough
        <4> HIDE DEF b
        <4> QED BY <2>3, <2>5, <2>6, <4>1
      <3> QED BY <3>1
    <2> QED BY <2>3, <2>6, <2>7
  <1>7. ProdPlace(i)' /\ Put(i)' = Put(i)
    BY <1>1, <1>2, <1>6 DEF ProdPlace, Put, Returning
  <1>8. \A j \in Entries : Counted(j)'
    BY <1>1, <1>4, <1>5, <1>7, CountStays
  <1>9. Added' /\ Entries' = Entries
    BY <1>4, <1>5, SumStays DEF Entries
  <1> QED BY <1>4, <1>7, <1>8, <1>9 DEF ProgInv

LEMMA ReturnKeeps ==
    ASSUME QInv, Running, ProgInv, UNCHANGED <<argv, main, cons, prod>>, NEW t \in Threads, DoesReturn(t)
    PROVE  Running' /\ ProgInv'
  <1>1. At(t)' = "idle" /\ RestStays(t) /\ SameQueues /\ UNCHANGED <<handle, stored, rcvd>>
        /\ \/ At(t) = "ending" /\ ret'[t] = arg[t].rv
           \/ At(t) = "polling" /\ ret'[t] = "OK"
    BY DEF DoesReturn
  <1>2. /\ Running' /\ ProgTypes' /\ MainPlace' /\ Started' /\ HandlesHeld' /\ Closed'
        /\ \A j \in Producers : QueueKnown(j)'
        /\ \A j \in Entries : (ConsGone(j)' <=> ConsGone(j)) /\ (ProdGone(j)' <=> ProdGone(j))
        /\ t # ConsumerThread => ConsPlace' /\ \A i : (SawEof(i)' <=> SawEof(i)) /\ Pending(i)' = Pending(i)
        /\ \A i \in Entries : t # ProducerThreads[i] => ProdPlace(i)' /\ Put(i)' = Put(i)
    BY <1>1, QuietKeeps
  <1>3. \A j : Got(j)' = Got(j)
    BY <1>1 DEF Got
  <1>4. t = ConsumerThread => ConsPlace' /\ \A i : (SawEof(i)' <=> SawEof(i)) /\ Pending(i)' = Pending(i)
    <2>1. ASSUME t = ConsumerThread PROVE ConsPlace' /\ \A i : (SawEof(i)' <=> SawEof(i)) /\ Pending(i)' = Pending(i)
      <3>1. (ConsOpen' <=> ConsOpen) /\ ConsPlace
        BY <1>1 DEF ConsOpen, ProgInv
      <3>2. CASE At(t) = "polling"
        <4>1. cons.at \in {"polled", "verified"}
          BY <2>1, <3>2, ConsLabels
        <4> QED BY <1>1, <2>1, <3>1, <4>1 DEF ConsPlace, SawEof, Pending
      <3>3. CASE At(t) = "ending"
        <4>1. cons.at = "got" /\ ConsOpen /\ arg[t].rv \in {"MSG", "EOF"} /\ ret'[t] = arg[t].rv
          BY <1>1, <2>1, <3>1, <3>3, ConsLabels DEF ConsPlace
        <4> QED BY <1>1, <2>1, <3>1, <3>3, <4>1 DEF ConsPlace, SawEof, Pending, Returning
      <3> QED BY <1>1, <3>2, <3>3
    <2> QED BY <2>1
  <1>5. ASSUME NEW i \in Entries, t = ProducerThreads[i] PROVE ProdPlace(i)' /\ Put(i)' = Put(i)
    <2>1. At(t) = "ending" /\ prod[i].at = "wrote" /\ ret'[t] = arg[t].rv
      BY <1>1, <1>5, ProdLabels, OnlyProducer
    <2>2. arg[t].rv = "OK"
      BY <1>5, <2>1 DEF ProgInv, ProdPlace
    <2> QED BY <1>1, <1>5, <2>1, <2>2 DEF ProdPlace, Put, Returning
  <1>6. \A j \in Entries : ProdPlace(j)' /\ Put(j)' = Put(j)
    BY <1>2, <1>5
  <1>7. ConsPlace' /\ \A i : (SawEof(i)' <=> SawEof(i)) /\ Pending(i)' = Pending(i)
    BY <1>2, <1>4
  <1>8. \A j \in Entries : Counted(j)'
    BY <1>1, <1>2, <1>3, <1>6, <1>7, CountStays
  <1>9. Added' /\ Entries' = Entries
    BY <1>3, <1>7, SumStays DEF Entries
  <1> QED BY <1>2, <1>6, <1>7, <1>8, <1>9 DEF ProgInv

(* The steps of the threads that close: the last one destroys the queue.   *)
LEMMA DestroyKeeps ==
    ASSUME QInv, Running, ProgInv, UNCHANGED <<argv, main, cons, prod>>, NEW t \in Threads, DoesDestroy(t)
    PROVE  Running' /\ ProgInv'
  <1>1. At(t) = "destroy" /\ At(t)' = "idle" /\ ret'[t] = "OK" /\ RestStays(t) /\ UNCHANGED <<handle, stored, rcvd>>
        /\ mq' = [mq EXCEPT ![arg[t].q].status = "freed"]
    BY DEF DoesDestroy
  <1>2. Running' /\ ProgTypes' /\ Entries' = Entries /\ Entries \subseteq Producers
    BY EntriesAre DEF Running, Ends, ProgInv, ProgTypes, Entries
  <1>3. MainPlace' /\ \A i : /\ MainHolds(i)' <=> MainHolds(i)
                             /\ ConsMayHold(i)' <=> ConsMayHold(i)
                             /\ Handing(i)' <=> Handing(i)
    <2>1. CASE t = MainThread
      <3>1. main.at = "closed" /\ main.i \in Entries
        BY <1>1, <2>1, MainLabels
      <3> QED BY <1>1, <1>2, <2>1, <3>1 DEF MainPlace, MainHolds, ConsMayHold, Handing
    <2>2. CASE t # MainThread
      <3>1. SamePlace(MainThread)
        BY <1>1, <2>2, Constants DEF RestStays
      <3> QED BY <3>1, MainStays DEF Handing, SamePlace
    <2> QED BY <2>1, <2>2
  <1>4. /\ ConsPlace' /\ Closed' /\ \A i \in Entries : ConsGone(i)' <=> ConsGone(i)
        /\ \A i : (SawEof(i)' <=> SawEof(i)) /\ Pending(i)' = Pending(i)
    <2>1. CASE t = ConsumerThread
      <3>1. cons.at = "closed" /\ (ConsOpen' <=> ConsOpen)
        BY <1>1, <2>1, ConsLabels DEF ConsOpen
      <3>2. ~ConsOpen
        BY <1>1, <2>1, <3>1 DEF ProgInv, ConsPlace
      <3>3. \A i \in Entries : ConsGone(i)' <=> ConsGone(i)
        BY <1>1 DEF ConsGone
      <3>4. AllGone' = AllGone
        BY <1>2, <3>3 DEF AllGone
      <3>5. Closed'
        BY <1>1, <1>2, <2>1, <3>4 DEF ProgInv, Closed
      <3> QED BY <1>1, <2>1, <3>1, <3>2, <3>3, <3>5 DEF ConsPlace, SawEof, Pending
    <2>2. CASE t # ConsumerThread
      <3>1. SamePlace(ConsumerThread)
        BY <1>1, <2>2, Constants DEF RestStays
      <3> QED BY <1>1, <3>1, ConsStays
    <2> QED BY <2>1, <2>2
  <1>5. ASSUME NEW i \in Entries
        PROVE  ProdPlace(i)' /\ Put(i)' = Put(i) /\ (ProdHolds(i)' <=> ProdHolds(i)) /\ (ProdGone(i)' <=> ProdGone(i))
    <2>1. CASE t = ProducerThreads[i]
      <3>1. prod[i].at = "closed"
        BY <1>1, <2>1, OnlyProducer, ProdLabels
      <3> QED BY <1>1, <1>2, <1>3, <2>1, <3>1 DEF ProdPlace, Put, ProdHolds, ProdGone, Handing
    <2>2. CASE t # ProducerThreads[i]
      <3>1. SamePlace(ProducerThreads[i])
        BY <1>1, <2>2, OnlyProducer DEF RestStays
      <3> QED BY <1>3, <3>1, ProdStays
    <2> QED BY <2>1, <2>2
  <1>6. HandlesHeld'
    <2>1. \A i \in Producers : ProdHolds(i)' <=> ProdHolds(i)
      BY <1>2, <1>5 DEF ProdHolds
    <2> QED BY <1>1, <1>3, <2>1, HandlesStay
  <1>7. Started'
    <2>1. ASSUME NEW i \in Producers \ Entries PROVE At(ProducerThreads[i])' = "idle"
      <3>1. At(ProducerThreads[i]) = "idle" /\ ProducerThreads[i] \in Threads
        BY Constants DEF ProgInv, Started
      <3> QED BY <1>1, <3>1 DEF RestStays, SamePlace
    <2>2. \A i : Waits(i)' <=> Waits(i)
      BY DEF Waits
    <2> QED BY <1>2, <2>1, <2>2 DEF ProgInv, Started
  <1>8. ASSUME NEW i \in Producers PROVE QueueKnown(i)'
    <2> DEFINE q == QueueOf[i]
    <2>1. mq \in [Queues -> Backend] /\ q \in Queues
      BY Constants DEF QInv, QueueInv, MemoryInv, TypeOK
    <2>2. CASE q = arg[t].q
      <3>1. mq[q].status = "live" /\ q # None
        BY <1>1, <2>1, <2>2, AtTells, Constants DEF QInv, QueueInv, MemoryInv, NoUseAfterFree
      <3>2. mq'[q] = [mq[q] EXCEPT !.status = "freed"]
        BY <1>1, <2>1, <2>2
      <3>3. mq'[q].status = "freed" /\ mq'[q].size = mq[q].size /\ mq'[q].no_readers = mq[q].no_readers
            /\ mq'[q].no_writers = mq[q].no_writers
        BY <2>1, <3>2 DEF Backend
      <3>4. QueueKnown(i)
        BY DEF ProgInv
      <3> QED BY <1>2, <1>4, <1>5, <3>1, <3>3, <3>4 DEF QueueKnown
    <2>3. CASE q # arg[t].q
      <3>1. mq'[q] = mq[q]
        BY <1>1, <2>1, <2>3
      <3>2. \A u \in Threads : At(u) = "destroy" /\ arg[u].q = q => At(u)' = "destroy" /\ arg'[u].q = q
        BY <1>1, <2>3 DEF RestStays, SamePlace
      <3> QED BY <1>4, <1>5, <3>1, <3>2, QueueStays DEF SameCounters
    <2> QED BY <2>2, <2>3
  <1>9. \A j : Got(j)' = Got(j)
    BY <1>1 DEF Got
  <1>10. \A i \in Entries : Counted(i)'
    BY <1>1, <1>4, <1>5, <1>9, CountStays
  <1>11. Added'
    BY <1>4, <1>9, SumStays
  <1> QED BY <1>2, <1>3, <1>4, <1>5, <1>6, <1>7, <1>8, <1>10, <1>11 DEF ProgInv

(* The queue of a handle that a thread closes.                             *)
LEMMA CloseQueue ==
    ASSUME QInv, Running, ProgInv, UNCHANGED <<argv, main, cons, prod>>, NEW t \in Threads, DoesClose(t),
           NEW i \in Producers,
           QueueOf[i] = arg[t].q => /\ "READER" \in arg[t].flags => ConsGone(i)'
                                    /\ "WRITER" \in arg[t].flags => ProdGone(i)',
           i \in Entries => (ConsGone(i) => ConsGone(i)') /\ (ProdGone(i) => ProdGone(i)')
    PROVE  QueueKnown(i)'
  <1> DEFINE q == QueueOf[i]  b == mq[q]  c == mq'[q]
  <1>1. QueueKnown(i) /\ Entries' = Entries /\ q \in Queues
    BY Constants DEF ProgInv, Entries
  <1>2. CASE q = arg[t].q
    <2>1. /\ b.status = "live" /\ c.status = "live" /\ c.size = b.size
          /\ c.no_readers = (b.no_readers \/ ("READER" \in arg[t].flags /\ b.readers = 1))
          /\ c.no_writers = (b.no_writers \/ ("WRITER" \in arg[t].flags /\ b.writers = 1))
          /\ \/ At(t)' = "destroy" /\ c.refs = 0 /\ arg'[t].q = arg[t].q
             \/ c.refs # 0
      BY <1>2 DEF DoesClose
    <2>2. i \in Entries
      BY <1>1, <2>1 DEF QueueKnown
    <2>3. c.refs # 0 \/ \E u \in Threads : At(u)' = "destroy" /\ arg'[u].q = q
      BY <1>2, <2>1
    <2>4. c.no_readers => ConsGone(i)'
      BY <1>1, <1>2, <2>1, <2>2 DEF QueueKnown
    <2>5. c.no_writers => ProdGone(i)'
      BY <1>1, <1>2, <2>1, <2>2 DEF QueueKnown
    <2> QED BY <1>1, <2>1, <2>2, <2>3, <2>4, <2>5 DEF QueueKnown
  <1>3. CASE q # arg[t].q
    <2>1. c = b /\ RestStays(t) /\ At(t) = "closing"
      BY <1>1, <1>3 DEF DoesClose
    <2>2. \A u \in Threads : At(u) = "destroy" /\ arg[u].q = q => At(u)' = "destroy" /\ arg'[u].q = q
      BY <2>1 DEF RestStays, SamePlace
    <2> QED BY <2>1, <2>2, QueueStays DEF SameCounters
  <1> QED BY <1>2, <1>3

LEMMA CloseFrame ==
    ASSUME QInv, Running, ProgInv, UNCHANGED <<argv, main, cons, prod>>, NEW t \in Threads, DoesClose(t)
    PROVE  /\ Running' /\ ProgTypes' /\ Entries' = Entries /\ Started'
           /\ At(t) = "closing" /\ At(t)' \in {"destroy", "idle"} /\ (At(t)' = "idle" => ret'[t] = "OK")
           /\ handle' = [handle EXCEPT ![arg[t].slot] = NullHandle] /\ handle \in [Slots -> Handle]
           /\ UNCHANGED <<stored, rcvd>> /\ \A j : Got(j)' = Got(j)
           /\ \A u \in Threads : u # t => SamePlace(u)
  <1>1. /\ At(t) = "closing" /\ At(t)' \in {"destroy", "idle"} /\ (At(t)' = "idle" => ret'[t] = "OK")
        /\ handle' = [handle EXCEPT ![arg[t].slot] = NullHandle]
        /\ UNCHANGED <<stored, rcvd>> /\ RestStays(t)
    BY DEF DoesClose
  <1>2. handle \in [Slots -> Handle]
    BY DEF QInv, QueueInv, MemoryInv, TypeOK
  <1>3. Running' /\ ProgTypes' /\ Entries' = Entries
    BY DEF Running, Ends, ProgInv, ProgTypes, Entries
  <1>4. Started'
    <2>1. ASSUME NEW i \in Producers \ Entries PROVE At(ProducerThreads[i])' = "idle"
      <3>1. At(ProducerThreads[i]) = "idle" /\ ProducerThreads[i] \in Threads
        BY Constants DEF ProgInv, Started
      <3> QED BY <1>1, <3>1 DEF RestStays, SamePlace
    <2>2. \A i : Waits(i)' <=> Waits(i)
      BY DEF Waits
    <2> QED BY <1>3, <2>1, <2>2 DEF ProgInv, Started
  <1> QED BY <1>1, <1>2, <1>3, <1>4 DEF Got, RestStays

LEMMA MainCloses ==
    ASSUME QInv, Running, ProgInv, UNCHANGED <<argv, main, cons, prod>>, DoesClose(MainThread)
    PROVE  Running' /\ ProgInv'
  <1> DEFINE t == MainThread  i == main.i
  <1>1. t \in Threads /\ t # ConsumerThread
    BY Constants
  <1>2. /\ Running' /\ ProgTypes' /\ Entries' = Entries /\ Started'
        /\ At(t) = "closing" /\ At(t)' \in {"destroy", "idle"} /\ (At(t)' = "idle" => ret'[t] = "OK")
        /\ handle' = [handle EXCEPT ![arg[t].slot] = NullHandle] /\ handle \in [Slots -> Handle]
        /\ UNCHANGED <<stored, rcvd>> /\ \A j : Got(j)' = Got(j)
        /\ \A u \in Threads : u # t => SamePlace(u)
    BY <1>1, CloseFrame
  <1>3. main.at = "closed" /\ i \in Entries /\ i \in Producers /\ arg[t].slot = MainMq[i]
    <2>1. main.at = "closed" /\ i \in Entries
      BY <1>2, MainLabels
    <2> QED BY <1>2, <2>1, OnlyProducer DEF ProgInv, MainPlace
  <1>4. arg[t].flags = {}
    BY <1>1, <1>2, CallOf
  <1>5. MainPlace'
    BY <1>2, <1>3 DEF MainPlace
  <1>6. /\ \A j : ConsMayHold(j)' <=> ConsMayHold(j)
        /\ \A j : j # i => (MainHolds(j)' <=> MainHolds(j))
        /\ ~MainHolds(i)' /\ \A j : Handing(j)' <=> Handing(j)
    <2>1. i \in Nat /\ UNCHANGED main
      BY EntriesAre DEF ProgInv
    <2> QED BY <1>2, <1>3, <2>1 DEF MainHolds, ConsMayHold, Handing
  <1>7. \A j \in Producers : /\ handle'[ConsumerMq[j]] = handle[ConsumerMq[j]]
                             /\ handle'[ProducerMq[j]] = handle[ProducerMq[j]]
                             /\ j # i => handle'[MainMq[j]] = handle[MainMq[j]]
                             /\ handle'[MainMq[i]] = NullHandle
    BY <1>2, <1>3, Constants, Distinctness
  <1>8. ConsPlace' /\ Closed' /\ (\A j \in Entries : ConsGone(j)' <=> ConsGone(j))
        /\ \A j : (SawEof(j)' <=> SawEof(j)) /\ Pending(j)' = Pending(j)
    <2>1. SamePlace(ConsumerThread) /\ \A j \in Entries : handle'[ConsumerMq[j]] = handle[ConsumerMq[j]]
      BY <1>1, <1>2, <1>7, OnlyProducer, Constants
    <2> QED BY <2>1, ConsStays
  <1>9. \A j \in Entries : ProdPlace(j)' /\ Put(j)' = Put(j)
                           /\ (ProdHolds(j)' <=> ProdHolds(j)) /\ (ProdGone(j)' <=> ProdGone(j))
    <2>1. ASSUME NEW j \in Entries PROVE SamePlace(ProducerThreads[j])
      BY <1>2, OnlyProducer
    <2> QED BY <1>6, <2>1, ProdStays
  <1>10. HandlesHeld'
    <2>1. HandlesHeld
      BY DEF ProgInv
    <2>2. \A j \in Producers : ProdHolds(j)' <=> ProdHolds(j)
      BY <1>2, <1>9 DEF ProdHolds
    <2>3. \A s \in Slots : handle'[s] # NullHandle => handle[s] # NullHandle
      BY <1>2
    <2> QED BY <1>2, <1>6, <1>7, <2>1, <2>2, <2>3 DEF HandlesHeld, Held
  <1>11. \A j \in Producers : QueueKnown(j)'
    BY <1>1, <1>4, <1>8, <1>9, CloseQueue
  <1>12. \A j \in Entries : Counted(j)'
    BY <1>2, <1>8, <1>9, CountStays
  <1>13. Added'
    BY <1>2, <1>8, SumStays
  <1> QED BY <1>2, <1>5, <1>8, <1>9, <1>10, <1>11, <1>12, <1>13 DEF ProgInv

LEMMA ConsCloses ==
    ASSUME QInv, Running, ProgInv, UNCHANGED <<argv, main, cons, prod>>, DoesClose(ConsumerThread)
    PROVE  Running' /\ ProgInv'
  <1> DEFINE t == ConsumerThread  i == cons.i
  <1>1. t \in Threads /\ t # MainThread
    BY Constants
  <1>2. /\ Running' /\ ProgTypes' /\ Entries' = Entries /\ Started'
        /\ At(t) = "closing" /\ At(t)' \in {"destroy", "idle"} /\ (At(t)' = "idle" => ret'[t] = "OK")
        /\ handle' = [handle EXCEPT ![arg[t].slot] = NullHandle] /\ handle \in [Slots -> Handle]
        /\ UNCHANGED <<stored, rcvd>> /\ \A j : Got(j)' = Got(j)
        /\ \A u \in Threads : u # t => SamePlace(u)
    BY <1>1, CloseFrame
  <1>3. cons.at = "closed" /\ i \in Entries /\ i \in Producers /\ arg[t].slot = ConsumerMq[i] /\ ConsOpen
    <2>1. cons.at = "closed" /\ i \in Entries
      BY <1>2, ConsLabels
    <2> QED BY <1>2, <2>1, OnlyProducer DEF ProgInv, ConsPlace
  <1>4. arg[t].flags = {"READER"} /\ arg[t].q = QueueOf[i]
    <2>1. PICK j \in Entries : arg[t].q = QueueOf[j] /\ arg[t].slot = ConsumerMq[j] /\ arg[t].flags = {"READER"}
      BY <1>1, <1>2, CallOf, OnlyProducer
    <2> QED BY <1>3, <2>1, OnlyProducer, Distinctness
  <1>5. \A j \in Producers : /\ handle'[MainMq[j]] = handle[MainMq[j]]
                             /\ handle'[ProducerMq[j]] = handle[ProducerMq[j]]
                             /\ j # i => handle'[ConsumerMq[j]] = handle[ConsumerMq[j]]
                             /\ handle'[ConsumerMq[i]] = NullHandle
    BY <1>2, <1>3, Constants, Distinctness
  <1>6. ConsPlace' /\ ~ConsOpen'
    <2>1. ~ConsOpen'
      BY <1>3, <1>5 DEF ConsOpen
    <2> QED BY <1>2, <1>3, <2>1 DEF ConsPlace
  <1>7. ConsGone(i)' /\ ~ConsGone(i) /\ \A j \in Entries : j # i => (ConsGone(j)' <=> ConsGone(j))
    BY <1>3, <1>5, OnlyProducer DEF ConsGone, ConsOpen
  <1>8. Closed'
    <2>1. AllGone' = AllGone \cup {i} /\ i \notin AllGone /\ AllGone \subseteq Entries
      BY <1>2, <1>3, <1>7 DEF AllGone
    <2>2. IsFiniteSet(AllGone)
      BY <2>1, EntriesAre, FS_Subset DEF ProgInv
    <2>3. Cardinality(AllGone') = Cardinality(AllGone) + 1 /\ Cardinality(AllGone) \in Nat
      BY <2>1, <2>2, FS_AddElement, FS_CardinalityType
    <2>4. cons.done = Cardinality(AllGone) + 1
      BY <1>2, <1>3 DEF ProgInv, Closed
    <2>5. Cardinality(AllGone)' = Cardinality(AllGone) + 1
      BY <2>3
    <2> QED BY <1>2, <1>3, <2>3, <2>4, <2>5 DEF Closed
  <1>9. \A j : (SawEof(j)' <=> SawEof(j)) /\ Pending(j)' = Pending(j)
    BY <1>3 DEF SawEof, Pending
  <1>10. MainPlace' /\ \A j : /\ MainHolds(j)' <=> MainHolds(j)
                              /\ ConsMayHold(j)' <=> ConsMayHold(j)
                              /\ Handing(j)' <=> Handing(j)
    <2>1. SamePlace(MainThread)
      BY <1>1, <1>2, Constants
    <2> QED BY <2>1, MainStays DEF Handing, SamePlace
  <1>11. \A j \in Entries : ProdPlace(j)' /\ Put(j)' = Put(j)
                            /\ (ProdHolds(j)' <=> ProdHolds(j)) /\ (ProdGone(j)' <=> ProdGone(j))
    <2>1. ASSUME NEW j \in Entries PROVE SamePlace(ProducerThreads[j])
      BY <1>2, OnlyProducer
    <2> QED BY <1>10, <2>1, ProdStays
  <1>12. HandlesHeld'
    <2>1. HandlesHeld
      BY DEF ProgInv
    <2>2. \A j \in Producers : ProdHolds(j)' <=> ProdHolds(j)
      BY <1>2, <1>11 DEF ProdHolds
    <2>3. \A s \in Slots : handle'[s] # NullHandle => handle[s] # NullHandle
      BY <1>2
    <2> QED BY <1>2, <1>3, <1>5, <1>10, <2>1, <2>2, <2>3 DEF HandlesHeld, Held
  <1>13. ASSUME NEW j \in Producers PROVE QueueKnown(j)'
    <2>1. QueueOf[j] = arg[t].q => j = i
      BY <1>3, <1>4, Distinctness
    <2> QED BY <1>1, <1>4, <1>7, <1>11, <2>1, CloseQueue
  <1>14. \A j \in Entries : Counted(j)'
    <2>1. SawEof(i)
      BY <1>3 DEF SawEof
    <2> QED BY <1>2, <1>7, <1>9, <1>11, <2>1, CountStays
  <1>15. Added'
    BY <1>2, <1>9, SumStays
  <1> QED BY <1>2, <1>6, <1>8, <1>10, <1>11, <1>12, <1>13, <1>14, <1>15 DEF ProgInv

LEMMA ProdCloses ==
    ASSUME QInv, Running, ProgInv, UNCHANGED <<argv, main, cons, prod>>, NEW i \in Entries,
           DoesClose(ProducerThreads[i])
    PROVE  Running' /\ ProgInv'
  <1> DEFINE t == ProducerThreads[i]
  <1>1. /\ t \in Threads /\ t # MainThread /\ t # ConsumerThread /\ i \in Producers
        /\ \A j \in Entries : j # i => ProducerThreads[j] # t
    BY OnlyProducer
  <1>2. /\ Running' /\ ProgTypes' /\ Entries' = Entries /\ Started'
        /\ At(t) = "closing" /\ At(t)' \in {"destroy", "idle"} /\ (At(t)' = "idle" => ret'[t] = "OK")
        /\ handle' = [handle EXCEPT ![arg[t].slot] = NullHandle] /\ handle \in [Slots -> Handle]
        /\ UNCHANGED <<stored, rcvd>> /\ \A j : Got(j)' = Got(j)
        /\ \A u \in Threads : u # t => SamePlace(u)
    BY <1>1, CloseFrame
  <1>3. prod[i].at = "closed"
    BY <1>1, <1>2, ProdLabels
  <1>4. arg[t].flags = {"WRITER"} /\ arg[t].q = QueueOf[i] /\ arg[t].slot = ProducerMq[i]
    <2>1. PICK j \in Entries : /\ arg[t].q = QueueOf[j] /\ arg[t].slot = ProducerMq[j] /\ arg[t].flags = {"WRITER"}
                               /\ t = ProducerThreads[j]
      BY <1>1, <1>2, CallOf
    <2> QED BY <1>1, <2>1
  <1>5. \A j \in Producers : /\ handle'[MainMq[j]] = handle[MainMq[j]]
                             /\ handle'[ConsumerMq[j]] = handle[ConsumerMq[j]]
                             /\ j # i => handle'[ProducerMq[j]] = handle[ProducerMq[j]]
                             /\ handle'[ProducerMq[i]] = NullHandle
    BY <1>1, <1>2, <1>4, Constants, Distinctness
  <1>6. ConsPlace' /\ Closed' /\ (\A j \in Entries : ConsGone(j)' <=> ConsGone(j))
        /\ \A j : (SawEof(j)' <=> SawEof(j)) /\ Pending(j)' = Pending(j)
    BY <1>1, <1>2, <1>5, OnlyProducer, Constants, ConsStays
  <1>7. MainPlace' /\ \A j : /\ MainHolds(j)' <=> MainHolds(j)
                             /\ ConsMayHold(j)' <=> ConsMayHold(j)
                             /\ Handing(j)' <=> Handing(j)
    <2>1. SamePlace(MainThread)
      BY <1>1, <1>2, Constants
    <2> QED BY <2>1, MainStays DEF Handing, SamePlace
  <1>8. \A j \in Entries : j # i => ProdPlace(j)' /\ Put(j)' = Put(j)
                           /\ (ProdHolds(j)' <=> ProdHolds(j)) /\ (ProdGone(j)' <=> ProdGone(j))
    <2>1. ASSUME NEW j \in Entries, j # i PROVE SamePlace(ProducerThreads[j])
      BY <1>1, <1>2, <2>1, OnlyProducer
    <2> QED BY <1>7, <2>1, ProdStays
  <1>9. ProdPlace(i)' /\ Put(i)' = Put(i) /\ ~ProdHolds(i)' /\ ProdGone(i)'
    <2>1. ~Handing(i)
      <3>1. main.i \in Nat
        BY EntriesAre DEF ProgInv
      <3> QED BY <1>3, <3>1 DEF ProgInv, Started, Waits, Handing
    <2>2. ~ProdHolds(i)'
      BY <1>2, <1>3, <1>7, <2>1 DEF ProdHolds, Handing
    <2> QED BY <1>2, <1>3, <2>2 DEF ProdPlace, Put, ProdGone
  <1>10. HandlesHeld'
    <2>1. HandlesHeld
      BY DEF ProgInv
    <2>2. \A j \in Producers : j # i => (ProdHolds(j)' <=> ProdHolds(j))
      BY <1>2, <1>8 DEF ProdHolds
    <2>3. \A s \in Slots : handle'[s] # NullHandle => handle[s] # NullHandle
      BY <1>2
    <2> QED BY <1>1, <1>2, <1>5, <1>7, <1>9, <2>1, <2>2, <2>3 DEF HandlesHeld, Held
  <1>11. ASSUME NEW j \in Producers PROVE QueueKnown(j)'
    <2>1. QueueOf[j] = arg[t].q => j = i
      BY <1>1, <1>4, Distinctness
    <2> QED BY <1>1, <1>4, <1>6, <1>8, <1>9, <2>1, CloseQueue
  <1>12. \A j \in Entries : Counted(j)'
    BY <1>2, <1>6, <1>8, <1>9, CountStays
  <1>13. Added'
    BY <1>2, <1>6, SumStays
  <1>14. \A j \in Entries : ProdPlace(j)'
    BY <1>8, <1>9
  <1> QED BY <1>2, <1>6, <1>7, <1>10, <1>11, <1>12, <1>13, <1>14 DEF ProgInv

(* main opens the handles of the other threads before it starts them.      *)
LEMMA OpenKeeps ==
    ASSUME QInv, Running, ProgInv, UNCHANGED <<argv, main, cons, prod>>, NEW t \in Threads, DoesOpen(t)
    PROVE  Running' /\ ProgInv'
  <1> DEFINE dst == arg[t].dst
             new == [q |-> arg[t].q, flags |-> arg[t].flags]
  <1>1. /\ At(t) = "opening" /\ At(t)' = "idle" /\ ret'[t] = "OK" /\ RestStays(t)
        /\ handle' = [handle EXCEPT ![dst] = new]
        /\ UNCHANGED <<stored, rcvd>>
        /\ mq' = [mq EXCEPT ![arg[t].q] = mutex_unlock(mq_open(@, arg[t].flags))]
    BY DEF DoesOpen
  <1>2. t = MainThread /\ main.at \in {"open_reader", "start"}
    <2>1. t # ConsumerThread
      BY <1>1, ConsLabels
    <2>2. \A i \in Producers : t # ProducerThreads[i]
      BY <1>1, ProdLabels
    <2>3. t = MainThread
      BY <2>1, <2>2, Constants
    <2> QED BY <1>1, <2>3, MainLabels
  <1>3. /\ argv.nprod \in Nat /\ main.i \in Nat /\ main.i >= 1 /\ main.i <= argv.nprod + 1
        /\ Entries = 1..argv.nprod /\ Entries \subseteq Producers
    BY EntriesAre DEF ProgInv
  <1>4. PICK j \in Entries :
           /\ arg[t].slot = MainMq[j]
           /\ \/ /\ main.at = "open_reader" /\ main.i = j + 1
                 /\ dst = ConsumerMq[j] /\ arg[t].flags = {"READER"}
              \/ main.at = "start" /\ main.i = j /\ dst = ProducerMq[j] /\ arg[t].flags = {"WRITER"}
    <2>1. CASE main.at = "start"
      <3>1. main.i \in Entries /\ Opening(t, MainMq[main.i], ProducerMq[main.i], "WRITER")
        BY <1>1, <1>2, <2>1 DEF ProgInv, MainPlace
      <3> QED BY <2>1, <3>1 DEF Opening
    <2>2. CASE main.at = "open_reader"
      <3>1. main.i > 1 /\ Opening(t, MainMq[main.i - 1], ConsumerMq[main.i - 1], "READER")
        BY <1>1, <1>2, <2>2 DEF ProgInv, MainPlace
      <3>2. main.i - 1 \in Entries /\ main.i = (main.i - 1) + 1
        BY <1>3, <3>1
      <3> QED BY <2>2, <3>1, <3>2 DEF Opening
    <2> QED BY <1>2, <2>1, <2>2
  <1>5. arg[t].q = QueueOf[j] /\ j \in Producers
    <2>1. PICK k \in Entries : arg[t].q = QueueOf[k] /\ arg[t].slot = MainMq[k]
      <3>1. t # ConsumerThread /\ \A k \in Entries : t # ProducerThreads[k]
        BY <1>2, <1>3, Constants
      <3> QED BY <1>1, <3>1, CallOf
    <2> QED BY <1>3, <1>4, <2>1, Distinctness
  <1>6. Running' /\ ProgTypes' /\ Entries' = Entries
    BY DEF Running, Ends, ProgInv, ProgTypes, Entries
  <1>7. MainPlace'
    BY <1>1, <1>2, <1>4, <1>6 DEF MainPlace
  <1>8. /\ \A i : MainHolds(i)' <=> MainHolds(i)
        /\ \A i \in Entries : i # j => (ConsMayHold(i)' <=> ConsMayHold(i)) /\ (Handing(i)' <=> Handing(i))
        /\ ConsMayHold(j)' /\ (main.at = "start" => ConsMayHold(j))
        /\ (main.at = "open_reader" => (Handing(j)' <=> Handing(j))) /\ (main.at = "start" => Handing(j)')
    <2>1. UNCHANGED main /\ At(MainThread)' = "idle" /\ At(MainThread) = "opening"
      BY <1>1, <1>2
    <2>2. \A i : MainHolds(i)' <=> MainHolds(i)
      BY <1>2, <1>6, <2>1 DEF MainHolds
    <2>3. /\ \A i \in Entries : i # j => (ConsMayHold(i)' <=> ConsMayHold(i))
          /\ ConsMayHold(j)' /\ (main.at = "start" => ConsMayHold(j))
      <3>1. CASE main.at = "start"
        BY <1>6, <2>1, <3>1 DEF ConsMayHold
      <3>2. CASE main.at = "open_reader"
        <4>1. main.i = j + 1 /\ main.i - 1 = j /\ \A i \in Entries : i \in Int
          BY <1>3, <1>4, <3>2
        <4> QED BY <1>6, <2>1, <3>2, <4>1 DEF ConsMayHold
      <3> QED BY <1>2, <3>1, <3>2
    <2>4. /\ \A i \in Entries : i # j => (Handing(i)' <=> Handing(i))
          /\ (main.at = "open_reader" => (Handing(j)' <=> Handing(j))) /\ (main.at = "start" => Handing(j)')
      BY <1>2, <1>4, <2>1 DEF Handing
    <2> QED BY <2>2, <2>3, <2>4
  <1>9. handle \in [Slots -> Handle] /\ \A i \in Producers :
           /\ handle'[MainMq[i]] = handle[MainMq[i]]
           /\ i # j \/ main.at = "start" => handle'[ConsumerMq[i]] = handle[ConsumerMq[i]]
           /\ i # j \/ main.at = "open_reader" => handle'[ProducerMq[i]] = handle[ProducerMq[i]]
           /\ main.at = "open_reader" => handle'[ConsumerMq[j]] = [q |-> QueueOf[j], flags |-> {"READER"}]
           /\ main.at = "start" => handle'[ProducerMq[j]] = [q |-> QueueOf[j], flags |-> {"WRITER"}]
    <2>1. handle \in [Slots -> Handle]
      BY DEF QInv, QueueInv, MemoryInv, TypeOK
    <2>2. dst \in Slots /\ \A i \in Producers : MainMq[i] \in Slots /\ ConsumerMq[i] \in Slots /\ ProducerMq[i] \in Slots
      BY <1>4, <1>5, Constants
    <2> QED BY <1>1, <1>4, <1>5, <2>1, <2>2, Distinctness
  <1>10. ConsPlace' /\ Closed' /\ (\A i \in Entries : ConsGone(i)' <=> ConsGone(i))
         /\ \A i : (SawEof(i)' <=> SawEof(i)) /\ Pending(i)' = Pending(i)
    <2>1. SamePlace(ConsumerThread)
      BY <1>1, <1>2, Constants DEF RestStays
    <2>2. CASE main.at = "start"
      BY <1>3, <1>9, <2>1, <2>2, ConsStays
    <2>3. CASE main.at = "open_reader"
      <3>1. cons.at = "none"
        BY <2>3 DEF ProgInv, Started
      <3>2. \A i \in Entries : ~ConsGone(i) /\ ~ConsGone(i)'
        BY <3>1 DEF ConsGone
      <3>3. AllGone' = AllGone
        BY <1>6, <3>2 DEF AllGone
      <3>4. Closed'
        BY <1>6, <3>1, <3>3 DEF ProgInv, Closed
      <3>5. ConsPlace'
        BY <2>1, <3>1 DEF ProgInv, ConsPlace, SamePlace
      <3> QED BY <3>1, <3>2, <3>4, <3>5 DEF SawEof, Pending
    <2> QED BY <1>2, <2>2, <2>3
  <1>11. \A i \in Entries : ProdPlace(i)' /\ Put(i)' = Put(i)
            /\ (main.at = "open_reader" \/ i # j => (ProdHolds(i)' <=> ProdHolds(i)))
            /\ (ProdGone(i)' <=> ProdGone(i)) /\ (main.at = "start" => ProdHolds(j)')
    <2>1. ASSUME NEW i \in Entries PROVE SamePlace(ProducerThreads[i])
      BY <1>1, <1>2, OnlyProducer DEF RestStays
    <2>2. \A i \in Entries : main.at = "open_reader" \/ i # j =>
                                (ProdHolds(i)' <=> ProdHolds(i)) /\ (ProdGone(i)' <=> ProdGone(i))
      BY <1>8, <2>1, ProdStays
    <2>3. main.at = "start" => ProdHolds(j)' /\ ~ProdGone(j) /\ ~ProdGone(j)'
      <3>1. main.at = "start" => Waits(j)
        BY <1>3, <1>4 DEF Waits
      <3>2. main.at = "start" => prod[j].at = "none"
        BY <1>4, <3>1 DEF ProgInv, Started
      <3> QED BY <1>4, <1>6, <1>8, <3>2 DEF ProdHolds, ProdGone, Handing
    <2> QED BY <1>2, <2>1, <2>2, <2>3, ProdStays
  <1>12. HandlesHeld'
    <2>1. HandlesHeld
      BY DEF ProgInv
    <2>2. \A s \in Slots : handle'[s] # NullHandle => handle[s] # NullHandle \/ s = dst
      BY <1>1, <1>9
    <2>3. \A s \in Slots : handle'[s] # NullHandle =>
             \E i \in Producers : s \in {MainMq[i], ConsumerMq[i], ProducerMq[i]}
      <3>1. dst \in {MainMq[j], ConsumerMq[j], ProducerMq[j]}
        BY <1>4
      <3> QED BY <1>5, <2>1, <2>2, <3>1 DEF HandlesHeld
    <2>4. ASSUME NEW i \in Producers
          PROVE  /\ handle'[MainMq[i]] = Held(i, MainHolds(i)', {})
                 /\ handle'[ProducerMq[i]] = Held(i, ProdHolds(i)', {"WRITER"})
                 /\ handle'[ConsumerMq[i]] \in {NullHandle, [q |-> QueueOf[i], flags |-> {"READER"}]}
                 /\ handle'[ConsumerMq[i]] # NullHandle => ConsMayHold(i)'
                 /\ cons'.at = "none" /\ ConsMayHold(i)' => handle'[ConsumerMq[i]] # NullHandle
      <3>1. handle'[MainMq[i]] = Held(i, MainHolds(i)', {})
        BY <1>8, <1>9, <2>1 DEF HandlesHeld, Held
      <3>2. i \notin Entries => ~ProdHolds(i) /\ ~ProdHolds(i)' /\ ~ConsMayHold(i) /\ ~ConsMayHold(i)' /\ i # j
        BY <1>4, <1>6 DEF ProdHolds, ConsMayHold
      <3>3. handle'[ProducerMq[i]] = Held(i, ProdHolds(i)', {"WRITER"})
        BY <1>2, <1>4, <1>9, <1>11, <2>1, <3>2 DEF HandlesHeld, Held
      <3>4. QueueOf[j] # None
        BY <1>5, Constants
      <3>5. /\ handle'[ConsumerMq[i]] \in {NullHandle, [q |-> QueueOf[i], flags |-> {"READER"}]}
            /\ handle'[ConsumerMq[i]] # NullHandle => ConsMayHold(i)'
            /\ cons'.at = "none" /\ ConsMayHold(i)' => handle'[ConsumerMq[i]] # NullHandle
        <4>1. CASE i = j /\ main.at = "open_reader"
          BY <1>8, <1>9, <3>4, <4>1 DEF NullHandle
        <4>2. CASE i # j \/ main.at = "start"
          <5>1. handle'[ConsumerMq[i]] = handle[ConsumerMq[i]] /\ (ConsMayHold(i)' <=> ConsMayHold(i))
            BY <1>8, <1>9, <3>2, <4>2
          <5> QED BY <2>1, <5>1 DEF HandlesHeld
        <4> QED BY <1>2, <4>1, <4>2
      <3> QED BY <3>1, <3>3, <3>5
    <2> QED BY <2>3, <2>4 DEF HandlesHeld, Held
  <1>13. Started'
    <2>1. ASSUME NEW i \in Producers \ Entries PROVE At(ProducerThreads[i])' = "idle"
      <3>1. At(ProducerThreads[i]) = "idle" /\ ProducerThreads[i] \in Threads /\ ProducerThreads[i] # t
        BY <1>2, Constants DEF ProgInv, Started
      <3> QED BY <1>1, <3>1 DEF RestStays, SamePlace
    <2>2. \A i : Waits(i)' <=> Waits(i)
      BY DEF Waits
    <2> QED BY <1>6, <2>1, <2>2 DEF ProgInv, Started
  <1>14. ASSUME NEW i \in Producers PROVE QueueKnown(i)'
    <2> DEFINE q == QueueOf[i]
    <2>1. mq \in [Queues -> Backend] /\ q \in Queues /\ mq[q] \in Backend /\ q # None
      BY Constants DEF QInv, QueueInv, MemoryInv, TypeOK
    <2>2. CASE q = arg[t].q
      <3>1. mq[q].status = "live"
        BY <1>1, <1>2, <2>1, <2>2, Constants DEF QInv, QueueInv, MemoryInv, NoUseAfterFree
      <3>2. mq'[q] = mutex_unlock(mq_open(mq[q], arg[t].flags))
        BY <1>1, <2>1, <2>2
      <3>3. mq'[q].status = "live" /\ mq'[q].size = mq[q].size /\ mq'[q].refs = mq[q].refs + 1
            /\ (mq'[q].no_readers => mq[q].no_readers) /\ (mq'[q].no_writers => mq[q].no_writers)
        BY <2>1, <3>1, <3>2 DEF Backend, mutex_unlock, mq_open
      <3>4. mq[q].refs \in Nat
        BY <2>1 DEF Backend
      <3>5. QueueKnown(i)
        BY DEF ProgInv
      <3> QED BY <1>6, <1>10, <1>11, <3>1, <3>3, <3>4, <3>5 DEF QueueKnown
    <2>3. CASE q # arg[t].q
      <3>1. mq'[q] = mq[q]
        BY <1>1, <2>1, <2>3
      <3>2. \A u \in Threads : At(u) = "destroy" /\ arg[u].q = q => At(u)' = "destroy" /\ arg'[u].q = q
        BY <1>1, <2>3 DEF RestStays, SamePlace
      <3> QED BY <1>10, <1>11, <3>1, <3>2, QueueStays DEF SameCounters
    <2> QED BY <2>2, <2>3
  <1>15. \A i : Got(i)' = Got(i)
    BY <1>1 DEF Got
  <1>16. \A i \in Entries : Counted(i)'
    BY <1>1, <1>10, <1>11, <1>15, CountStays
  <1>17. Added'
    BY <1>10, <1>15, SumStays
  <1> QED BY <1>6, <1>7, <1>10, <1>11, <1>12, <1>13, <1>14, <1>16, <1>17 DEF ProgInv

LEMMA CloseKeeps ==
    ASSUME QInv, Running, ProgInv, UNCHANGED <<argv, main, cons, prod>>, NEW t \in Threads, DoesClose(t)
    PROVE  Running' /\ ProgInv'
  <1>1. CASE t \in {MainThread, ConsumerThread}
    BY <1>1, MainCloses, ConsCloses
  <1>2. CASE t \notin {MainThread, ConsumerThread}
    <2>1. PICK i \in Producers : t = ProducerThreads[i]
      BY <1>2, Constants
    <2>2. At(t) = "closing"
      BY DEF DoesClose
    <2>3. i \in Entries
      BY <2>1, <2>2, ProdLabels
    <2> QED BY <2>1, <2>3, ProdCloses
  <1> QED BY <1>1, <1>2

LEMMA CallKeeps ==
    ASSUME QInv, QInv', Running, ProgInv, NEW t \in Threads, CallLock(t) \/ CallStep(t) \/ CallSpurious(t)
    PROVE  Running' /\ ProgInv'
  <1>1. Effect(t) /\ UNCHANGED <<argv, main, cons, prod>>
    BY ProgramEffect
  <1> QED BY <1>1, NothingKeeps, OpenKeeps, CloseKeeps, DestroyKeeps, TakeKeeps, EofKeeps, PutKeeps,
             RejectKeeps, ReturnKeeps DEF Effect

-----------------------------------------------------------------------------
(* The steps of the program: the calls it makes.                           *)
LEMMA Begins ==
    ASSUME QInv, NEW t \in Threads, NEW label, NEW a, Enter(t, label, a)
    PROVE  /\ At(t)' = PhaseOf(label) /\ arg'[t] = a /\ ret'[t] = "none" /\ RestStays(t)
           /\ UNCHANGED <<mq, handle, stored, rcvd>>
  <1>1. pc \in [Threads -> Label] /\ ret \in [Threads -> Result] /\ DOMAIN arg = Threads
    BY DEF QInv, QueueInv, MemoryInv, TypeOK
  <1>2. pc'[t] = label /\ arg'[t] = a /\ ret'[t] = "none" /\ UNCHANGED <<mq, handle, stored, rcvd>>
    BY <1>1 DEF Enter
  <1>3. \A u \in Threads \ {t} : pc'[u] = pc[u] /\ arg'[u] = arg[u] /\ ret'[u] = ret[u]
    BY <1>1 DEF Enter
  <1> QED BY <1>2, <1>3 DEF At, RestStays, SamePlace

LEMMA IsRefused ==
    ASSUME QInv, NEW t \in Threads, NEW e, Refuse(t, e)
    PROVE  /\ At(t)' = At(t) /\ arg'[t] = arg[t] /\ ret'[t] = e /\ RestStays(t)
           /\ UNCHANGED <<mq, handle, stored, rcvd>>
  <1>1. ret \in [Threads -> Result]
    BY DEF QInv, QueueInv, MemoryInv, TypeOK
  <1>2. pc' = pc /\ arg' = arg /\ ret'[t] = e /\ \A u \in Threads \ {t} : ret'[u] = ret[u]
    BY <1>1 DEF Refuse
  <1> QED BY <1>2 DEF At, RestStays, SamePlace, Refuse

LEMMA PollBegun ==
    ASSUME QInv, NEW c, c.t \in Threads, msg_queue_poll(c)
    PROVE  /\ At(c.t) = "idle" /\ arg' = arg /\ RestStays(c.t)
           /\ UNCHANGED <<mq, handle, stored, rcvd>>
           /\ \/ At(c.t)' = "idle" /\ ret'[c.t] \in {"EINVAL", "ENOMEM"}
              \/ At(c.t)' = "polling"
  <1> DEFINE t == c.t
  <1>1. pc[t] = "idle"
    BY DEF msg_queue_poll
  <1>2. At(t) = "idle"
    BY <1>1, PhaseIs DEF At
  <1>3. CASE Refuse(t, "EINVAL") \/ Refuse(t, "ENOMEM")
    BY <1>2, <1>3, IsRefused DEF Refuse
  <1>4. CASE /\ pc' = [pc EXCEPT ![t] = "poll_add"] /\ ret' = [ret EXCEPT ![t] = "none"]
             /\ UNCHANGED <<mq, handle, arg, scan, stored, rcvd>>
    <2>1. pc \in [Threads -> Label] /\ ret \in [Threads -> Result]
      BY DEF QInv, QueueInv, MemoryInv, TypeOK
    <2>2. pc'[t] = "poll_add" /\ \A u \in Threads \ {t} : pc'[u] = pc[u] /\ ret'[u] = ret[u]
      BY <1>4, <2>1
    <2>3. At(t)' = "polling"
      BY <2>2, PhaseIs DEF At, PollLabels
    <2> QED BY <1>2, <1>4, <2>2, <2>3 DEF At, RestStays, SamePlace
  <1> QED BY <1>3, <1>4 DEF msg_queue_poll

LEMMA Pauses ==
    ASSUME UNCHANGED pollVars
    PROVE  UNCHANGED <<mq, handle, pc, arg, ret, stored, rcvd, poll>> /\ \A t : SamePlace(t)
  <1>1. UNCHANGED <<mq, handle, pc, arg, ret, stored, rcvd, poll>>
    BY DEF pollVars, vars
  <1> QED BY <1>1 DEF SamePlace, At

(* A producer between its calls.                                           *)
LEMMA ProdFrame ==
    ASSUME Running, ProgInv, UNCHANGED <<argv, main, cons, mq, handle, stored, rcvd>>,
           NEW i \in Entries, RestStays(ProducerThreads[i]),
           At(ProducerThreads[i]) = "idle", At(ProducerThreads[i])' # "destroy",
           NEW c \in [at : ProdLabel, sent : 0..argv.nmsgs], prod' = [prod EXCEPT ![i] = c],
           prod[i].at \notin {"none", "done"}, c.at # "none",
           ProdPlace(i)', ProdHolds(i)' <=> ProdHolds(i), ProdGone(i) => ProdGone(i)',
           c.sent + Put(i)' = prod[i].sent + Put(i),
           c.at = "wrote" => c.sent < argv.nmsgs,
           c.at \in {"closed", "done"} => c.sent = argv.nmsgs
    PROVE  ProgInv'
  <1> DEFINE t == ProducerThreads[i]
  <1>1. /\ t \in Threads /\ t # MainThread /\ t # ConsumerThread /\ i \in Producers
        /\ \A j \in Entries : j # i => ProducerThreads[j] # t
    BY OnlyProducer
  <1>2. Entries' = Entries /\ Entries \subseteq Producers /\ \A j : Got(j)' = Got(j)
    BY EntriesAre DEF Entries, Got, ProgInv
  <1>3. prod \in [Entries -> [at : ProdLabel, sent : 0..argv.nmsgs]]
    BY DEF ProgInv, ProgTypes
  <1>4. prod'[i] = c /\ \A j \in Entries : j # i => prod'[j] = prod[j]
    BY <1>3
  <1>5. ProgTypes'
    BY <1>2, <1>3 DEF ProgInv, ProgTypes
  <1>6. \A u \in Threads : u # t => SamePlace(u)
    BY DEF RestStays
  <1>7. MainPlace' /\ \A j : /\ MainHolds(j)' <=> MainHolds(j)
                             /\ ConsMayHold(j)' <=> ConsMayHold(j)
                             /\ Handing(j)' <=> Handing(j)
                             /\ Waits(j)' <=> Waits(j)
    <2>1. SamePlace(MainThread)
      BY <1>1, <1>6, Constants
    <2> QED BY <2>1, MainStays DEF Handing, SamePlace
  <1>8. ConsPlace' /\ Closed' /\ (\A j \in Entries : ConsGone(j)' <=> ConsGone(j))
        /\ \A j : (SawEof(j)' <=> SawEof(j)) /\ Pending(j)' = Pending(j)
    BY <1>1, <1>6, Constants, ConsStays
  <1>9. \A j \in Entries : j # i => ProdPlace(j)' /\ Put(j)' = Put(j)
                           /\ (ProdHolds(j)' <=> ProdHolds(j)) /\ (ProdGone(j)' <=> ProdGone(j))
    <2>1. ASSUME NEW j \in Entries, j # i PROVE SamePlace(ProducerThreads[j]) /\ prod'[j] = prod[j]
      BY <1>1, <1>4, <1>6, <2>1, OnlyProducer
    <2> QED BY <1>7, <2>1, ProdStays
  <1>10. HandlesHeld'
    <2>1. \A j \in Producers : ProdHolds(j)' <=> ProdHolds(j)
      BY <1>2, <1>9 DEF ProdHolds
    <2> QED BY <1>7, <2>1, HandlesStay
  <1>11. Started'
    <2>1. ASSUME NEW j \in Producers \ Entries PROVE At(ProducerThreads[j])' = "idle"
      <3>1. ProducerThreads[j] \in Threads /\ ProducerThreads[j] # t
        BY <1>1, Constants, Distinctness
      <3> QED BY <1>6, <3>1 DEF ProgInv, Started, SamePlace
    <2>2. main.at \notin {"polled", "close", "closed"}
      BY DEF ProgInv, Started
    <2> QED BY <1>2, <1>4, <1>7, <2>1, <2>2 DEF ProgInv, Started
  <1>12. ASSUME NEW j \in Producers PROVE QueueKnown(j)'
    <2>1. \A u \in Threads : At(u) = "destroy" /\ arg[u].q = QueueOf[j] => At(u)' = "destroy" /\ arg'[u].q = QueueOf[j]
      BY <1>6 DEF SamePlace
    <2> QED BY <1>8, <1>9, <2>1, QueueStays DEF SameCounters
  <1>13. Counted(i)'
    BY <1>2, <1>4, <1>8 DEF ProgInv, Counted, Drained
  <1>14. \A j \in Entries : j # i => Counted(j)'
    BY <1>2, <1>4, <1>8, <1>9, CountStays
  <1>15. Added'
    BY <1>2, <1>8, SumStays
  <1> QED BY <1>2, <1>5, <1>7, <1>8, <1>9, <1>10, <1>11, <1>12, <1>13, <1>14, <1>15 DEF ProgInv

LEMMA ProducerIs ==
    ASSUME ProgInv, NEW i \in Entries
    PROVE  /\ ProducerThreads[i] \in Threads /\ i \in Producers /\ argv.nmsgs \in Nat
           /\ prod[i] \in [at : ProdLabel, sent : 0..argv.nmsgs] /\ prod[i].sent \in Nat
           /\ prod[i].at # "none" => ~Handing(i)
           /\ prod[i].at \in {"loop", "wrote"} =>
                 ProdHolds(i) /\ ~ProdGone(i) /\ handle[ProducerMq[i]] = [q |-> QueueOf[i], flags |-> {"WRITER"}]
  <1>1. ProducerThreads[i] \in Threads /\ i \in Producers /\ argv.nmsgs \in Nat /\ main.i \in Nat
    BY EntriesAre, Constants DEF ProgInv
  <1>2. prod[i] \in [at : ProdLabel, sent : 0..argv.nmsgs] /\ prod[i].sent \in Nat
    BY <1>1 DEF ProgInv, ProgTypes
  <1>3. prod[i].at # "none" => ~Handing(i)
    BY <1>1 DEF ProgInv, Started, Waits, Handing
  <1>4. prod[i].at \in {"loop", "wrote"} => ProdHolds(i) /\ ~ProdGone(i)
    BY DEF ProdHolds, ProdGone
  <1>5. handle[ProducerMq[i]] = Held(i, ProdHolds(i), {"WRITER"})
    BY <1>1 DEF ProgInv, HandlesHeld
  <1>6. ProdHolds(i) => handle[ProducerMq[i]] = [q |-> QueueOf[i], flags |-> {"WRITER"}]
    BY <1>5 DEF Held
  <1> QED BY <1>1, <1>2, <1>3, <1>4, <1>6

LEMMA ProdWriteKeeps ==
    ASSUME QInv, Running, ProgInv, NEW i \in Entries, ProdWrite(i)
    PROVE  ProgInv'
  <1> DEFINE t == ProducerThreads[i]  s == ProducerMq[i]
             c == [prod[i] EXCEPT !.at = "wrote"]
             a == [WithHandle(s) EXCEPT !.len = MessageSize]
  <1>1. /\ prod[i].at = "loop" /\ prod[i].sent < argv.nmsgs /\ prod' = [prod EXCEPT ![i] = c]
        /\ UNCHANGED <<argv, main, cons>> /\ msg_queue_write(Transfer(s))
    BY DEF ProdWrite
  <1>2. /\ t \in Threads /\ i \in Producers /\ ProdHolds(i) /\ ~ProdGone(i) /\ SlotOwner[s] = t
        /\ prod[i] \in [at : ProdLabel, sent : 0..argv.nmsgs] /\ MessageSize # 0
    BY <1>1, ProducerIs, Constants
  <1>3. At(t) = "idle"
    BY <1>1 DEF ProgInv, ProdPlace
  <1>4. handle[s].flags = {"WRITER"}
    <2>1. handle[s] = [q |-> QueueOf[i], flags |-> {"WRITER"}]
      BY <1>1, ProducerIs
    <2> QED BY <2>1
  <1>5. Enter(t, "write_lock", a)
    BY <1>1, <1>2, <1>4 DEF msg_queue_write, Transfer
  <1> HIDE DEF a
  <1>6. At(t)' = "writing" /\ ret'[t] = "none" /\ RestStays(t) /\ UNCHANGED <<mq, handle, stored, rcvd>>
    BY <1>2, <1>5, Begins, PhaseIs
  <1>7. c \in [at : ProdLabel, sent : 0..argv.nmsgs] /\ c.at = "wrote" /\ c.sent = prod[i].sent
    BY <1>2 DEF ProdLabel
  <1> HIDE DEF c
  <1>8. prod'[i] = c /\ Entries' = Entries
    BY <1>1 DEF ProgInv, ProgTypes, Entries
  <1>9. ProdPlace(i)' /\ ProdHolds(i)' /\ Put(i) = 0 /\ Put(i)' = 0
    BY <1>1, <1>6, <1>7, <1>8 DEF ProdPlace, ProdHolds, Put, Returning
  <1> QED BY <1>1, <1>2, <1>3, <1>6, <1>7, <1>9, ProdFrame

LEMMA ProdWroteKeeps ==
    ASSUME QInv, Running, ProgInv, NEW i \in Entries, ProdWrote(i), Running'
    PROVE  ProgInv'
  <1> DEFINE t == ProducerThreads[i]
             c == [at |-> "loop", sent |-> prod[i].sent + 1]
  <1>1. /\ prod[i].at = "wrote" /\ Returned(t) /\ UNCHANGED <<argv, main, cons, mq, handle, stored, rcvd>>
        /\ prod' = [prod EXCEPT ![i] = [at |-> Asserted(t, ret[t] = "OK", "loop"), sent |-> @.sent + 1]]
        /\ \A u : SamePlace(u)
    BY Pauses DEF ProdWrote
  <1>2. /\ t \in Threads /\ i \in Producers /\ ProdHolds(i) /\ ~ProdGone(i)
        /\ prod[i] \in [at : ProdLabel, sent : 0..argv.nmsgs] /\ argv.nmsgs \in Nat /\ prod[i].sent \in Nat
        /\ ~Handing(i)
    BY <1>1, ProducerIs
  <1>3. At(t) = "idle" /\ At(t)' = "idle"
    BY <1>1, PhaseIs DEF Returned, At, SamePlace
  <1>4. Entries' = Entries /\ prod \in [Entries -> [at : ProdLabel, sent : 0..argv.nmsgs]]
    BY <1>1 DEF ProgInv, ProgTypes, Entries
  <1>5. ret[t] = "OK"
    <2>1. prod'[i].at = Asserted(t, ret[t] = "OK", "loop")
      BY <1>1, <1>4
    <2>2. prod'[i].at \in Ends'
      BY <1>4, <1>1 DEF Ends
    <2> QED BY <2>1, <2>2 DEF Running, Asserted
  <1>6. prod' = [prod EXCEPT ![i] = c]
    BY <1>1, <1>4, <1>5 DEF Asserted
  <1>7. prod[i].sent < argv.nmsgs
    BY <1>1 DEF ProgInv, Counted
  <1>8. c \in [at : ProdLabel, sent : 0..argv.nmsgs] /\ c.at = "loop" /\ c.sent = prod[i].sent + 1
    BY <1>2, <1>7 DEF ProdLabel
  <1> HIDE DEF c
  <1>9. prod'[i] = c
    BY <1>4, <1>6
  <1>10. ProdPlace(i)' /\ ProdHolds(i)' /\ Put(i) = 1 /\ Put(i)' = 0
    BY <1>1, <1>3, <1>4, <1>5, <1>8, <1>9 DEF ProdPlace, ProdHolds, Put, Returning
  <1>11. RestStays(t)
    BY <1>1 DEF RestStays
  <1>12. c.sent + Put(i)' = prod[i].sent + Put(i) /\ prod[i].at \notin {"none", "done"}
    BY <1>1, <1>2, <1>8, <1>10
  <1>13. UNCHANGED <<argv, main, cons, mq, handle, stored, rcvd>> /\ (ProdGone(i) => ProdGone(i)')
    BY <1>1, <1>2
  <1> QED BY <1>2, <1>3, <1>6, <1>8, <1>10, <1>11, <1>12, <1>13, ProdFrame

LEMMA ProdCloseKeeps ==
    ASSUME QInv, Running, ProgInv, NEW i \in Entries, ProdClose(i)
    PROVE  ProgInv'
  <1> DEFINE t == ProducerThreads[i]  s == ProducerMq[i]
             c == [prod[i] EXCEPT !.at = "closed"]
             a == WithHandle(s)
  <1>1. /\ prod[i].at = "loop" /\ prod[i].sent = argv.nmsgs /\ prod' = [prod EXCEPT ![i] = c]
        /\ UNCHANGED <<argv, main, cons>> /\ msg_queue_close(s)
    BY DEF ProdClose
  <1>2. /\ t \in Threads /\ i \in Producers /\ ProdHolds(i) /\ ~ProdGone(i) /\ SlotOwner[s] = t
        /\ prod[i] \in [at : ProdLabel, sent : 0..argv.nmsgs] /\ QueueOf[i] # None
    BY <1>1, ProducerIs, Constants
  <1>3. At(t) = "idle"
    BY <1>1 DEF ProgInv, ProdPlace
  <1>4. handle[s] # NullHandle
    <2>1. handle[s] = [q |-> QueueOf[i], flags |-> {"WRITER"}]
      BY <1>1, ProducerIs
    <2> QED BY <1>2, <2>1 DEF NullHandle
  <1>5. Enter(t, "close_lock", a)
    BY <1>1, <1>2, <1>4 DEF msg_queue_close
  <1> HIDE DEF a
  <1>6. At(t)' = "closing" /\ ret'[t] = "none" /\ RestStays(t) /\ UNCHANGED <<mq, handle, stored, rcvd>>
    BY <1>2, <1>5, Begins, PhaseIs
  <1>7. c \in [at : ProdLabel, sent : 0..argv.nmsgs] /\ c.at = "closed" /\ c.sent = prod[i].sent
    BY <1>2 DEF ProdLabel
  <1> HIDE DEF c
  <1>8. prod'[i] = c /\ Entries' = Entries
    BY <1>1 DEF ProgInv, ProgTypes, Entries
  <1>9. ProdPlace(i)' /\ ProdHolds(i)' /\ Put(i) = 0 /\ Put(i)' = 0
    BY <1>1, <1>6, <1>7, <1>8 DEF ProdPlace, ProdHolds, Put, Returning
  <1> QED BY <1>1, <1>2, <1>3, <1>6, <1>7, <1>9, ProdFrame

LEMMA ProdClosedKeeps ==
    ASSUME QInv, Running, ProgInv, NEW i \in Entries, ProdClosed(i), Running'
    PROVE  ProgInv'
  <1> DEFINE t == ProducerThreads[i]
             c == [prod[i] EXCEPT !.at = "done"]
  <1>1. /\ prod[i].at = "closed" /\ Returned(t) /\ UNCHANGED <<argv, main, cons, mq, handle, stored, rcvd>>
        /\ prod' = [prod EXCEPT ![i].at = Asserted(t, ret[t] = "OK", "done")]
        /\ \A u : SamePlace(u)
    BY Pauses DEF ProdClosed
  <1>2. /\ t \in Threads /\ i \in Producers
        /\ prod[i] \in [at : ProdLabel, sent : 0..argv.nmsgs] /\ ~Handing(i)
    BY <1>1, ProducerIs
  <1>3. At(t) = "idle" /\ At(t)' = "idle"
    BY <1>1, PhaseIs DEF Returned, At, SamePlace
  <1>4. Entries' = Entries /\ ret[t] = "OK" /\ prod[i].sent = argv.nmsgs
    BY <1>1, <1>3 DEF ProgInv, ProdPlace, Counted, Entries
  <1>5. prod' = [prod EXCEPT ![i] = c]
    BY <1>1, <1>4 DEF Asserted
  <1>6. c \in [at : ProdLabel, sent : 0..argv.nmsgs] /\ c.at = "done" /\ c.sent = prod[i].sent
    BY <1>2 DEF ProdLabel
  <1> HIDE DEF c
  <1>7. prod'[i] = c
    BY <1>5 DEF ProgInv, ProgTypes
  <1>8. ~Handing(i)'
    BY <1>1, <1>2 DEF Handing, SamePlace
  <1>9. ProdPlace(i)' /\ ~ProdHolds(i) /\ ~ProdHolds(i)' /\ ProdGone(i)' /\ Put(i) = 0 /\ Put(i)' = 0
    BY <1>1, <1>2, <1>3, <1>4, <1>6, <1>7, <1>8 DEF ProdPlace, ProdHolds, ProdGone, Put, Handing
  <1>10. RestStays(t)
    BY <1>1 DEF RestStays
  <1> QED BY <1>1, <1>2, <1>3, <1>4, <1>5, <1>6, <1>9, <1>10, ProdFrame

LEMMA ProdKeeps ==
    ASSUME QInv, Running, ProgInv, NEW i \in Entries, ProdStep(i)
    PROVE  (Running' => ProgInv') /\ main' = main
  <1>1. main' = main
    BY DEF ProdStep, ProdWrite, ProdWrote, ProdClose, ProdClosed
  <1> QED BY <1>1, ProdWriteKeeps, ProdWroteKeeps, ProdCloseKeeps, ProdClosedKeeps DEF ProdStep

(* The consumer between its calls.                                         *)
LEMMA ConsFrame ==
    ASSUME Running, ProgInv, UNCHANGED <<argv, main, prod, mq, handle, stored, rcvd>>,
           RestStays(ConsumerThread), At(ConsumerThread) = "idle", At(ConsumerThread)' # "destroy",
           cons.at \notin {"none", "done"}, cons'.at # "none", ProgTypes', ConsPlace', Closed', Added',
           \A j \in Entries : Pending(j)' <= Got(j) /\ (SawEof(j)' => SawEof(j) \/ ConsGone(j))
    PROVE  ProgInv'
  <1> DEFINE t == ConsumerThread
  <1>1. Entries' = Entries /\ Entries \subseteq Producers /\ \A j : Got(j)' = Got(j)
    BY EntriesAre DEF Entries, Got, ProgInv
  <1>2. \A u \in Threads : u # t => SamePlace(u)
    BY DEF RestStays
  <1>3. MainPlace' /\ \A j : /\ MainHolds(j)' <=> MainHolds(j)
                             /\ ConsMayHold(j)' <=> ConsMayHold(j)
                             /\ Handing(j)' <=> Handing(j)
                             /\ Waits(j)' <=> Waits(j)
    <2>1. SamePlace(MainThread)
      BY <1>2, Constants
    <2> QED BY <2>1, MainStays DEF Handing, SamePlace
  <1>4. \A j \in Entries : ProdPlace(j)' /\ Put(j)' = Put(j)
                           /\ (ProdHolds(j)' <=> ProdHolds(j)) /\ (ProdGone(j)' <=> ProdGone(j))
    <2>1. ASSUME NEW j \in Entries PROVE SamePlace(ProducerThreads[j])
      BY <1>2, OnlyProducer
    <2> QED BY <1>3, <2>1, ProdStays
  <1>5. \A j \in Entries : ConsGone(j)' <=> ConsGone(j)
    BY DEF ConsGone
  <1>6. HandlesHeld'
    <2>1. \A j \in Producers : ProdHolds(j)' <=> ProdHolds(j)
      BY <1>1, <1>4 DEF ProdHolds
    <2>2. HandlesHeld
      BY DEF ProgInv
    <2> QED BY <1>3, <2>1, <2>2 DEF HandlesHeld, Held
  <1>7. Started'
    <2>1. ASSUME NEW j \in Producers \ Entries PROVE At(ProducerThreads[j])' = "idle"
      <3>1. ProducerThreads[j] \in Threads /\ ProducerThreads[j] # t
        BY Constants
      <3> QED BY <1>2, <3>1 DEF ProgInv, Started, SamePlace
    <2>2. main.at \notin {"polled", "close", "closed", "create", "open_reader"}
      BY DEF ProgInv, Started
    <2> QED BY <1>1, <1>3, <2>1, <2>2 DEF ProgInv, Started
  <1>8. ASSUME NEW j \in Producers PROVE QueueKnown(j)'
    <2>1. \A u \in Threads : At(u) = "destroy" /\ arg[u].q = QueueOf[j] => At(u)' = "destroy" /\ arg'[u].q = QueueOf[j]
      BY <1>2 DEF SamePlace
    <2> QED BY <1>4, <1>5, <2>1, QueueStays DEF SameCounters
  <1>9. ASSUME NEW j \in Entries PROVE Counted(j)'
    BY <1>1, <1>4, <1>5 DEF ProgInv, Counted, Drained
  <1> QED BY <1>1, <1>3, <1>4, <1>6, <1>7, <1>8, <1>9 DEF ProgInv

(* What the frame needs of a step that takes no message and sees no end.   *)
LEMMA ConsumerIs ==
    ASSUME QInv, Running, ProgInv
    PROVE  /\ ConsumerThread \in Threads /\ cons.i \in Entries /\ cons.i \in Producers /\ cons.i \in Nat
           /\ cons \in [at : ConsLabel, i : Entries, ready : Int, revents : Seq(SUBSET Event),
                        done : Nat, sum : SUBSET [q : Queues, id : Nat]]
           /\ ConsOpen => handle[ConsumerMq[cons.i]] = [q |-> QueueOf[cons.i], flags |-> {"READER"}]
           /\ \A j : Pending(j) \in {0, 1}
           /\ \A j \in Entries : Got(j) \in Nat /\ Pending(j) <= Got(j)
  <1>1. ConsumerThread \in Threads /\ cons.i \in Entries /\ cons.i \in Producers /\ cons.i \in Nat
    BY EntriesAre, Constants DEF ProgInv, ProgTypes
  <1>2. handle[ConsumerMq[cons.i]] \in {NullHandle, [q |-> QueueOf[cons.i], flags |-> {"READER"}]}
    BY <1>1 DEF ProgInv, HandlesHeld
  <1>3. ASSUME NEW j \in Entries PROVE Got(j) \in Nat
    <2>1. QueueOf[j] \in Queues
      BY EntriesAre, Constants DEF ProgInv
    <2>2. rcvd[QueueOf[j]] \in Seq(Msg \cup {None})
      BY <2>1 DEF QInv, QueueInv, MemoryInv, TypeOK
    <2> QED BY <2>2, LenProperties DEF Got
  <1> QED BY <1>1, <1>2, <1>3 DEF ProgInv, ProgTypes, ConsOpen, Pending, Counted

LEMMA ConsQuiet ==
    ASSUME QInv, Running, ProgInv, UNCHANGED <<argv, main, prod, mq, handle, stored, rcvd>>,
           RestStays(ConsumerThread), At(ConsumerThread) = "idle", At(ConsumerThread)' \notin {"destroy", "closing"},
           cons.at \notin {"none", "done", "closed"}, cons'.at \notin {"none", "done"}, ProgTypes', ConsPlace',
           cons'.done = cons.done, cons'.sum = cons.sum,
           \A j \in Entries : Pending(j) = 0 /\ Pending(j)' = 0 /\ (SawEof(j)' => SawEof(j) \/ ConsGone(j))
    PROVE  ProgInv'
  <1>1. Entries' = Entries /\ \A j : Got(j)' = Got(j)
    BY DEF Entries, Got
  <1>2. Closed'
    <2>1. \A j \in Entries : ConsGone(j)' <=> ConsGone(j)
      BY DEF ConsGone
    <2>2. AllGone' = AllGone
      BY <1>1, <2>1 DEF AllGone
    <2> QED BY <1>1, <2>2 DEF ProgInv, Closed
  <1>3. Added'
    BY <1>1, SumStays
  <1>4. \A j \in Entries : Pending(j)' <= Got(j)
    BY ConsumerIs
  <1> QED BY <1>2, <1>3, <1>4, ConsFrame

LEMMA ConsPauses ==
    ASSUME QInv, Running, ProgInv, UNCHANGED <<argv, main, prod, pollVars>>, At(ConsumerThread) = "idle",
           cons.at \notin {"none", "done", "closed"}, cons'.at \notin {"none", "done"}, ProgTypes', ConsPlace',
           cons'.done = cons.done, cons'.sum = cons.sum,
           \A j \in Entries : Pending(j) = 0 /\ Pending(j)' = 0 /\ (SawEof(j)' => SawEof(j) \/ ConsGone(j))
    PROVE  ProgInv'
  <1>1. UNCHANGED <<mq, handle, stored, rcvd>> /\ \A u : SamePlace(u)
    BY Pauses
  <1>2. At(ConsumerThread)' = "idle" /\ RestStays(ConsumerThread)
    BY <1>1 DEF SamePlace, RestStays
  <1> QED BY <1>1, <1>2, ConsQuiet

(* The loop over the entries leaves them all alike.                        *)
LEMMA EntryFollows ==
    ASSUME ProgInv, NEW c, c \in [at : ConsLabel, i : Entries, ready : Int, revents : Seq(SUBSET Event),
                                  done : Nat, sum : SUBSET [q : Queues, id : Nat]]
    PROVE  \A d \in {Following(c), NextEntry(c)} :
              /\ d \in [at : ConsLabel, i : Entries, ready : Int, revents : Seq(SUBSET Event),
                        done : Nat, sum : SUBSET [q : Queues, id : Nat]]
              /\ d.at \in {"loop", "scan"} /\ d.done = c.done /\ d.sum = c.sum
  <1> DEFINE Typed == [at : ConsLabel, i : Entries, ready : Int, revents : Seq(SUBSET Event),
                       done : Nat, sum : SUBSET [q : Queues, id : Nat]]
             Follows(b, d) == d \in Typed /\ d.at \in {"loop", "scan"} /\ d.done = b.done /\ d.sum = b.sum
  <1>1. ASSUME NEW b \in Typed PROVE Follows(b, Following(b))
    <2>1. Entries = 1..argv.nprod /\ argv.nprod \in Nat /\ b.i \in Entries
      BY EntriesAre DEF ProgInv
    <2>2. b.i # argv.nprod => b.i + 1 \in Entries
      BY <2>1
    <2>3. CASE b.i = argv.nprod
      BY <2>3 DEF Following, ConsLabel
    <2>4. CASE b.i # argv.nprod
      <3>1. Following(b) = [b EXCEPT !.at = "scan", !.i = b.i + 1]
        BY <2>4 DEF Following
      <3> QED BY <2>2, <2>4, <3>1 DEF ConsLabel
    <2> QED BY <2>3, <2>4
  <1>2. Follows(c, NextEntry(c))
    <2>1. CASE c.ready = 1
      BY <2>1 DEF NextEntry, ConsLabel
    <2>2. CASE c.ready # 1
      <3> DEFINE b == [c EXCEPT !.ready = c.ready - 1]
      <3>1. b \in Typed /\ b.done = c.done /\ b.sum = c.sum
        OBVIOUS
      <3>2. NextEntry(c) = Following(b)
        BY <2>2 DEF NextEntry
      <3> HIDE DEF b, Typed
      <3> QED BY <1>1, <3>1, <3>2
    <2> QED BY <2>1, <2>2
  <1> QED BY <1>1, <1>2

(* Its polls.                                                              *)
LEMMA ConsPollKeeps ==
    ASSUME QInv, Running, ProgInv, ConsPoll \/ ConsVerify
    PROVE  ProgInv'
  <1> DEFINE t == ConsumerThread
  <1>1. PICK c : /\ c.t = t /\ msg_queue_poll(c) /\ UNCHANGED <<argv, main, prod>>
                 /\ \/ cons.at = "loop" /\ cons' = [cons EXCEPT !.at = "polled"]
                    \/ cons.at = "verify" /\ cons' = [cons EXCEPT !.at = "verified"]
    BY DEF ConsPoll, ConsVerify, ConsumerPoll, EofPoll, PollAll
  <1>2. /\ At(t) = "idle" /\ RestStays(t) /\ UNCHANGED <<mq, handle, stored, rcvd>>
        /\ At(t)' \in {"idle", "polling"}
    BY <1>1, PollBegun, Constants
  <1>3. /\ cons' \in [at : ConsLabel, i : Entries, ready : Int, revents : Seq(SUBSET Event),
                      done : Nat, sum : SUBSET [q : Queues, id : Nat]]
        /\ cons'.i = cons.i /\ cons'.done = cons.done /\ cons'.sum = cons.sum
        /\ \/ cons.at = "loop" /\ cons'.at = "polled"
           \/ cons.at = "verify" /\ cons'.at = "verified"
    BY <1>1, ConsumerIs DEF ConsLabel
  <1>4. ProgTypes'
    BY <1>1, <1>3 DEF ProgInv, ProgTypes, Entries
  <1>5. ConsOpen' <=> ConsOpen
    BY <1>2, <1>3 DEF ConsOpen
  <1>6. ConsPlace'
    BY <1>2, <1>3, <1>5 DEF ProgInv, ConsPlace
  <1>7. \A j \in Entries : Pending(j) = 0 /\ Pending(j)' = 0 /\ (SawEof(j)' => SawEof(j))
    BY <1>3 DEF Pending, SawEof
  <1> QED BY <1>1, <1>2, <1>3, <1>4, <1>6, <1>7, ConsQuiet

LEMMA ConsPolledKeeps ==
    ASSUME QInv, Running, ProgInv, ConsPolled \/ ConsVerified, Running'
    PROVE  ProgInv'
  <1> DEFINE t == ConsumerThread
  <1>1. /\ cons.at \in {"polled", "verified"} /\ Returned(t) /\ UNCHANGED <<argv, main, prod, pollVars>>
        /\ At(t) = "idle"
    BY PhaseIs DEF ConsPolled, ConsVerified, Returned, At
  <1>2. UNCHANGED handle /\ At(t)' = "idle"
    BY <1>1, Pauses DEF SamePlace
  <1>3. /\ poll[t].ready \in Int /\ poll[t].revents \in Seq(SUBSET Event) /\ 1 \in Entries
    BY ConsumerIs, EntriesAre DEF QInv, PollInv, PollRec, ProgInv
  <1>4. /\ cons' \in [at : ConsLabel, i : Entries, ready : Int, revents : Seq(SUBSET Event),
                      done : Nat, sum : SUBSET [q : Queues, id : Nat]]
        /\ cons'.done = cons.done /\ cons'.sum = cons.sum
        /\ \/ cons.at = "polled" /\ cons'.at = "scan"
           \/ cons.at = "verified" /\ cons'.at = "close" /\ cons'.i = cons.i
    <2>1. cons'.at \in Ends'
      BY DEF Ends
    <2>2. CASE ConsPolled
      <3>1. cons'.at = "scan" /\ cons.at = "polled"
        BY <2>1, <2>2, ConsumerIs DEF ConsPolled, Asserted, Running
      <3>2. cons' = [cons EXCEPT !.at = "scan", !.i = 1, !.ready = poll[t].ready, !.revents = poll[t].revents]
        BY <2>2, <3>1, ConsumerIs DEF ConsPolled
      <3> QED BY <1>3, <3>1, <3>2, ConsumerIs DEF ConsLabel
    <2>3. CASE ConsVerified
      <3>1. cons'.at = "close" /\ cons.at = "verified"
        BY <2>1, <2>3, ConsumerIs DEF ConsVerified, Asserted, Running
      <3>2. cons' = [cons EXCEPT !.at = "close"]
        BY <2>3, <3>1, ConsumerIs DEF ConsVerified
      <3> QED BY <3>1, <3>2, ConsumerIs DEF ConsLabel
    <2> QED BY <2>2, <2>3
  <1>5. ProgTypes'
    BY <1>1, <1>4 DEF ProgInv, ProgTypes, Entries
  <1>6. cons'.at = "close" => ConsOpen'
    BY <1>2, <1>4 DEF ProgInv, ConsPlace, ConsOpen
  <1>7. ConsPlace'
    BY <1>2, <1>4, <1>6 DEF ConsPlace
  <1>8. \A j \in Entries : Pending(j) = 0 /\ Pending(j)' = 0 /\ (SawEof(j)' => SawEof(j))
    BY <1>4 DEF Pending, SawEof
  <1> QED BY <1>1, <1>4, <1>5, <1>7, <1>8, ConsPauses

LEMMA ConsSkipKeeps ==
    ASSUME QInv, Running, ProgInv, ConsSkip, Running'
    PROVE  ProgInv'
  <1> DEFINE t == ConsumerThread
  <1>1. /\ cons.at = "scan" /\ UNCHANGED <<argv, main, prod, pollVars>> /\ At(t) = "idle"
    BY DEF ConsSkip, ProgInv, ConsPlace
  <1>2. UNCHANGED handle /\ At(t)' = "idle"
    BY <1>1, Pauses DEF SamePlace
  <1>3. cons' = Following(cons)
    <2>1. cons'.at \in Ends' /\ [cons EXCEPT !.at = "aborted"].at = "aborted"
      BY ConsumerIs DEF Ends
    <2> QED BY <2>1 DEF ConsSkip, Running
  <1>4. /\ cons' \in [at : ConsLabel, i : Entries, ready : Int, revents : Seq(SUBSET Event),
                      done : Nat, sum : SUBSET [q : Queues, id : Nat]]
        /\ cons'.done = cons.done /\ cons'.sum = cons.sum /\ cons'.at \in {"loop", "scan"}
    BY <1>3, ConsumerIs, EntryFollows
  <1>5. ProgTypes'
    BY <1>1, <1>4 DEF ProgInv, ProgTypes, Entries
  <1>6. ConsPlace'
    BY <1>2, <1>4 DEF ConsPlace
  <1>7. \A j \in Entries : Pending(j) = 0 /\ Pending(j)' = 0 /\ ~SawEof(j)'
    BY <1>1, <1>4 DEF Pending, SawEof
  <1> QED BY <1>1, <1>4, <1>5, <1>6, <1>7, ConsPauses

LEMMA ConsEndKeeps ==
    ASSUME QInv, Running, ProgInv, ConsEnd
    PROVE  ProgInv'
  <1> DEFINE t == ConsumerThread
  <1>1. /\ cons.at = "loop" /\ cons.done = argv.nprod /\ cons' = [cons EXCEPT !.at = "done"]
        /\ UNCHANGED <<argv, main, prod, pollVars>> /\ At(t) = "idle"
    BY DEF ConsEnd, ProgInv, ConsPlace
  <1>2. UNCHANGED <<mq, handle, stored, rcvd>> /\ At(t)' = "idle" /\ RestStays(t)
    BY <1>1, Pauses DEF SamePlace, RestStays
  <1>3. /\ cons' \in [at : ConsLabel, i : Entries, ready : Int, revents : Seq(SUBSET Event),
                      done : Nat, sum : SUBSET [q : Queues, id : Nat]]
        /\ cons'.i = cons.i /\ cons'.done = cons.done /\ cons'.sum = cons.sum /\ cons'.at = "done"
    BY <1>1, ConsumerIs DEF ConsLabel
  <1>4. ProgTypes' /\ Entries' = Entries /\ \A j : Got(j)' = Got(j)
    BY <1>1, <1>2, <1>3 DEF ProgInv, ProgTypes, Entries, Got
  <1>5. ConsPlace'
    BY <1>2, <1>3 DEF ConsPlace
  <1>6. \A j \in Entries : Pending(j) = 0 /\ Pending(j)' = 0 /\ ~SawEof(j)'
    BY <1>1, <1>3 DEF Pending, SawEof
  <1>7. Closed'
    <2>1. IsFiniteSet(Entries) /\ Cardinality(Entries) = argv.nprod /\ AllGone \subseteq Entries
      BY EntriesAre DEF ProgInv, AllGone
    <2>2. Cardinality(AllGone) = cons.done
      <3>1. Cardinality(AllGone) \in Nat
        BY <2>1, FS_Subset, FS_CardinalityType
      <3> QED BY <1>1, <3>1 DEF ProgInv, Closed
    <2>3. AllGone = Entries
      BY <1>1, <2>1, <2>2, FS_Subset
    <2>4. AllGone' = AllGone
      BY <1>1, <1>2, <1>3, <1>4 DEF AllGone, ConsGone
    <2> QED BY <1>2, <1>3, <1>4, <2>1, <2>2, <2>3, <2>4 DEF Closed
  <1>8. Added'
    BY <1>1, <1>3, <1>4, <1>6, SumStays
  <1>9. \A j \in Entries : Pending(j)' <= Got(j)
    BY <1>6, ConsumerIs
  <1> QED BY <1>1, <1>2, <1>3, <1>4, <1>5, <1>6, <1>7, <1>8, <1>9, ConsFrame

(* Its read: the handle is open unless an entry that had been closed was   *)
(* reported again.                                                         *)
LEMMA ConsReadKeeps ==
    ASSUME QInv, Running, ProgInv, ConsRead, Running'
    PROVE  ProgInv'
  <1> DEFINE t == ConsumerThread  s == ConsumerMq[cons.i]
             a == [WithHandle(s) EXCEPT !.len = MessageSize]
  <1>1. cons.at = "scan" /\ UNCHANGED <<argv, main, prod>> /\ At(t) = "idle"
    BY DEF ConsRead, ProgInv, ConsPlace
  <1>2. msg_queue_read(Transfer(s)) /\ cons' = [cons EXCEPT !.at = "got"]
    <2>1. cons'.at \in Ends' /\ [cons EXCEPT !.at = "aborted"].at = "aborted"
      BY ConsumerIs DEF Ends
    <2> QED BY <2>1 DEF ConsRead, Running
  <1>3. /\ cons' \in [at : ConsLabel, i : Entries, ready : Int, revents : Seq(SUBSET Event),
                      done : Nat, sum : SUBSET [q : Queues, id : Nat]]
        /\ cons'.i = cons.i /\ cons'.done = cons.done /\ cons'.sum = cons.sum /\ cons'.at = "got"
    BY <1>2, ConsumerIs DEF ConsLabel
  <1>4. t \in Threads /\ SlotOwner[s] = t
    BY ConsumerIs, Constants
  <1>5. a.slot = s
    BY DEF WithHandle, NoArg
  <1> HIDE DEF a
  <1>6. /\ UNCHANGED <<mq, handle, stored, rcvd>> /\ RestStays(t)
        /\ \/ ConsOpen /\ At(t)' = "reading" /\ arg'[t].slot = s
           \/ ~ConsOpen /\ At(t)' = "idle" /\ ret'[t] = "EBADF"
    <2>1. CASE ConsOpen
      <3>1. handle[s].flags = {"READER"}
        <4>1. handle[s] = [q |-> QueueOf[cons.i], flags |-> {"READER"}]
          BY <2>1, ConsumerIs
        <4> QED BY <4>1
      <3>2. Enter(t, "read_lock", a)
        BY <1>2, <1>4, <3>1 DEF msg_queue_read, Transfer, a
      <3> QED BY <1>4, <1>5, <2>1, <3>2, Begins, PhaseIs
    <2>2. CASE ~ConsOpen
      <3>1. handle[s].flags = {}
        BY <2>2 DEF ConsOpen, NullHandle
      <3>2. Refuse(t, "EBADF")
        BY <1>2, <1>4, <3>1 DEF msg_queue_read, Transfer
      <3> QED BY <1>1, <1>4, <2>2, <3>2, IsRefused
    <2> QED BY <2>1, <2>2
  <1>7. ProgTypes'
    BY <1>1, <1>3 DEF ProgInv, ProgTypes, Entries
  <1>8. ConsOpen' <=> ConsOpen
    BY <1>3, <1>6 DEF ConsOpen
  <1>9. ConsPlace'
    BY <1>3, <1>6, <1>8 DEF ConsPlace
  <1>10. \A j \in Entries : Pending(j) = 0 /\ Pending(j)' = 0 /\ ~SawEof(j)'
    BY <1>1, <1>3, <1>6 DEF Pending, SawEof, Returning
  <1> QED BY <1>1, <1>3, <1>6, <1>7, <1>9, <1>10, ConsQuiet

(* What it has received is the message with the next number.               *)
LEMMA ResultIs ==
    ASSUME QInv, ProgInv, Pending(cons.i) = 1
    PROVE  ReadResult.id = Got(cons.i) /\ Got(cons.i) \in Nat /\ Got(cons.i) >= 1 /\ ReadResult \in Msg
  <1> DEFINE q == QueueOf[cons.i]
  <1>1. cons.i \in Entries /\ q \in Queues
    BY EntriesAre, Constants DEF ProgInv, ProgTypes
  <1>2. rcvd[q] \in Seq(Msg) /\ \A k \in 1..Len(rcvd[q]) : rcvd[q][k].id = k
    BY <1>1 DEF QInv, NumbersInv
  <1>3. Got(cons.i) = Len(rcvd[q]) /\ Got(cons.i) \in Nat
    BY <1>2, LenProperties DEF Got
  <1>4. Got(cons.i) >= 1
    BY <1>1 DEF ProgInv, Counted
  <1>5. Len(rcvd[q]) \in 1..Len(rcvd[q])
    BY <1>3, <1>4
  <1> QED BY <1>2, <1>3, <1>4, <1>5, ElementOfSeq DEF ReadResult

LEMMA ConsGotKeeps ==
    ASSUME QInv, Running, ProgInv, ConsGot, Running'
    PROVE  ProgInv'
  <1> DEFINE t == ConsumerThread  i == cons.i
             Typed == [at : ConsLabel, i : Entries, ready : Int, revents : Seq(SUBSET Event),
                       done : Nat, sum : SUBSET [q : Queues, id : Nat]]
             item == [q |-> QueueOf[i], id |-> ReadResult.id]
             c == [cons EXCEPT !.sum = @ \cup {item}]
  <1>1. /\ cons.at = "got" /\ UNCHANGED <<argv, main, prod, pollVars>> /\ At(t) = "idle"
    BY PhaseIs DEF ConsGot, Returned, At
  <1>2. UNCHANGED <<mq, handle, stored, rcvd>> /\ At(t)' = "idle" /\ RestStays(t) /\ ret' = ret
    BY <1>1, Pauses DEF SamePlace, RestStays
  <1>3. cons'.at # "aborted"
    BY DEF Running, Ends
  <1>4. cons \in Typed /\ i \in Entries /\ i \in Producers /\ [cons EXCEPT !.at = "aborted"].at = "aborted"
    BY ConsumerIs
  <1>5. ConsOpen /\ ret[t] \in {"MSG", "EOF"}
    <2>1. (ConsOpen /\ ret[t] \in {"MSG", "EOF"}) \/ ret[t] = "EBADF"
      BY <1>1 DEF ProgInv, ConsPlace
    <2>2. CASE ret[t] = "EBADF"
      BY <1>3, <1>4, <2>2 DEF ConsGot, AtEof
    <2> QED BY <2>1, <2>2
  <1>6. Entries' = Entries /\ \A j : Got(j)' = Got(j)
    BY <1>1, <1>2 DEF Entries, Got
  <1>7. CASE ret[t] = "EOF"
    <2>1. cons' = [cons EXCEPT !.at = "verify"]
      BY <1>7 DEF ConsGot, AtEof
    <2>2. cons' \in Typed /\ cons'.at = "verify" /\ cons'.i = i /\ cons'.done = cons.done /\ cons'.sum = cons.sum
      BY <1>4, <2>1 DEF ConsLabel
    <2>3. ProgTypes'
      BY <1>1, <1>6, <2>2 DEF ProgInv, ProgTypes
    <2>4. ConsOpen'
      BY <1>2, <1>5, <2>2 DEF ConsOpen
    <2>5. ConsPlace'
      BY <1>2, <2>2, <2>4 DEF ConsPlace
    <2>6. \A j \in Entries : Pending(j) = 0 /\ Pending(j)' = 0 /\ (SawEof(j)' => SawEof(j))
      BY <1>1, <1>7, <2>2 DEF Pending, SawEof, Returning
    <2> QED BY <1>1, <2>2, <2>3, <2>5, <2>6, ConsPauses
  <1>8. CASE ret[t] = "MSG"
    <2>1. cons' = NextEntry(c)
      BY <1>3, <1>4, <1>8 DEF ConsGot, AtEof
    <2>2. Pending(i) = 1 /\ \A j : j # i => Pending(j) = 0
      BY <1>1, <1>8 DEF Pending, Returning
    <2>3. ReadResult.id = Got(i) /\ Got(i) \in Nat /\ Got(i) >= 1
      BY <2>2, ResultIs
    <2>4. c \in Typed /\ c.done = cons.done /\ c.sum = cons.sum \cup {item}
      <3>1. item \in [q : Queues, id : Nat]
        BY <1>4, <2>3, Constants
      <3>2. cons.sum \cup {item} \in SUBSET [q : Queues, id : Nat]
        BY <1>4, <3>1
      <3> HIDE DEF item
      <3> QED BY <1>4, <3>2
    <2>5. cons' \in Typed /\ cons'.at \in {"loop", "scan"} /\ cons'.done = cons.done
          /\ cons'.sum = cons.sum \cup {item}
      <3> HIDE DEF c, item
      <3> QED BY <2>1, <2>4, EntryFollows
    <2>6. ProgTypes'
      BY <1>1, <1>6, <2>5 DEF ProgInv, ProgTypes
    <2>7. ConsPlace'
      BY <1>2, <2>5 DEF ConsPlace
    <2>8. \A j : Pending(j)' = 0 /\ ~SawEof(j)'
      BY <2>5 DEF Pending, SawEof
    <2>9. Closed'
      <3>1. \A j \in Entries : ConsGone(j)' <=> ConsGone(j)
        BY <1>1, <1>2, <2>5 DEF ConsGone
      <3>2. AllGone' = AllGone
        BY <1>6, <3>1 DEF AllGone
      <3> QED BY <1>1, <1>6, <2>5, <3>2 DEF ProgInv, Closed
    <2>10. Added'
      <3>1. PICK k \in Entries : k = i
        BY <1>4
      <3>2. \A j \in Entries : j # k => Numbers(j, Got(j) - Pending(j))' = Numbers(j, Got(j) - Pending(j))
        BY <1>6, <2>2, <2>8, <3>1 DEF Numbers
      <3>3. Numbers(k, Got(k) - Pending(k))' = Numbers(k, Got(k) - Pending(k)) \cup {[q |-> QueueOf[k], id |-> Got(k)]}
        <4>1. 1..Got(k) = 1..(Got(k) - 1) \cup {Got(k)}
          BY <2>3, <3>1
        <4>2. Numbers(k, Got(k)) = Numbers(k, Got(k) - 1) \cup {[q |-> QueueOf[k], id |-> Got(k)]}
          BY <4>1 DEF Numbers
        <4>3. Got(k)' - Pending(k)' = Got(k) /\ Got(k) - Pending(k) = Got(k) - 1
          BY <1>6, <2>2, <2>3, <2>8, <3>1
        <4>4. Numbers(k, Got(k) - Pending(k))' = Numbers(k, Got(k))
          BY <4>3 DEF Numbers
        <4> QED BY <4>2, <4>3, <4>4
      <3>4. item = [q |-> QueueOf[k], id |-> Got(k)]
        BY <2>3, <3>1
      <3>5. (UNION {Numbers(j, Got(j) - Pending(j))' : j \in Entries})
              = (UNION {Numbers(j, Got(j) - Pending(j)) : j \in Entries}) \cup {item}
        <4> DEFINE before(j) == Numbers(j, Got(j) - Pending(j))
                   after(j) == before(j)'
        <4>1. after(k) = before(k) \cup {item} /\ \A j \in Entries : j # k => after(j) = before(j)
          BY <3>2, <3>3, <3>4
        <4> HIDE DEF before, after, item
        <4>2. (UNION {after(j) : j \in Entries}) = (UNION {before(j) : j \in Entries}) \cup {item}
          BY <4>1
        <4> QED BY <4>2 DEF before, after
      <3> HIDE DEF item
      <3> QED BY <1>6, <2>5, <3>5 DEF ProgInv, Added
    <2>11. \A j \in Entries : Pending(j)' <= Got(j)
      BY <2>8, ConsumerIs
    <2> QED BY <1>1, <1>2, <2>5, <2>6, <2>7, <2>8, <2>9, <2>10, <2>11, ConsFrame
  <1> QED BY <1>5, <1>7, <1>8

(* It closes the handle of a queue that has ended, and goes on.            *)
LEMMA ConsCloseKeeps ==
    ASSUME QInv, Running, ProgInv, ConsClose
    PROVE  ProgInv'
  <1> DEFINE t == ConsumerThread  s == ConsumerMq[cons.i]
             a == WithHandle(s)
  <1>1. /\ cons.at = "close" /\ UNCHANGED <<argv, main, prod>> /\ At(t) = "idle" /\ ConsOpen
        /\ msg_queue_close(s) /\ cons' = [cons EXCEPT !.at = "closed", !.done = @ + 1]
    BY DEF ConsClose, ProgInv, ConsPlace
  <1>2. t \in Threads /\ SlotOwner[s] = t /\ a.slot = s
    BY ConsumerIs, Constants DEF WithHandle, NoArg
  <1>3. Enter(t, "close_lock", a)
    BY <1>1, <1>2 DEF msg_queue_close, ConsOpen
  <1> HIDE DEF a
  <1>4. At(t)' = "closing" /\ arg'[t].slot = s /\ RestStays(t) /\ UNCHANGED <<mq, handle, stored, rcvd>>
    BY <1>2, <1>3, Begins, PhaseIs
  <1>5. /\ cons' \in [at : ConsLabel, i : Entries, ready : Int, revents : Seq(SUBSET Event),
                      done : Nat, sum : SUBSET [q : Queues, id : Nat]]
        /\ cons'.i = cons.i /\ cons'.done = cons.done + 1 /\ cons'.sum = cons.sum /\ cons'.at = "closed"
    <2>1. cons.done + 1 \in Nat
      BY ConsumerIs
    <2> QED BY <1>1, <2>1, ConsumerIs DEF ConsLabel
  <1>6. ProgTypes' /\ Entries' = Entries /\ \A j : Got(j)' = Got(j)
    BY <1>1, <1>4, <1>5 DEF ProgInv, ProgTypes, Entries, Got
  <1>7. ConsOpen'
    BY <1>1, <1>4, <1>5 DEF ConsOpen
  <1>8. ConsPlace'
    BY <1>4, <1>5, <1>7 DEF ConsPlace
  <1>9. \A j \in Entries : Pending(j) = 0 /\ Pending(j)' = 0 /\ (SawEof(j)' => SawEof(j))
    BY <1>1, <1>5 DEF Pending, SawEof
  <1>10. Closed'
    <2>1. \A j \in Entries : ConsGone(j)' <=> ConsGone(j)
      BY <1>1, <1>4, <1>5 DEF ConsGone
    <2>2. AllGone' = AllGone /\ AllGone \subseteq Entries
      BY <1>6, <2>1 DEF AllGone
    <2>3. Cardinality(AllGone) \in Nat
      BY <2>2, EntriesAre, FS_Subset, FS_CardinalityType DEF ProgInv
    <2> QED BY <1>1, <1>4, <1>5, <1>6, <2>2, <2>3 DEF ProgInv, Closed
  <1>11. Added'
    BY <1>1, <1>5, <1>6, <1>9, SumStays
  <1>12. \A j \in Entries : Pending(j)' <= Got(j)
    BY <1>9, ConsumerIs
  <1> QED BY <1>1, <1>4, <1>5, <1>6, <1>8, <1>9, <1>10, <1>11, <1>12, ConsFrame

LEMMA ConsClosedKeeps ==
    ASSUME QInv, Running, ProgInv, ConsClosed, Running'
    PROVE  ProgInv'
  <1> DEFINE t == ConsumerThread
  <1>1. /\ cons.at = "closed" /\ UNCHANGED <<argv, main, prod, pollVars>> /\ At(t) = "idle"
    BY PhaseIs DEF ConsClosed, Returned, At
  <1>2. UNCHANGED <<mq, handle, stored, rcvd>> /\ At(t)' = "idle" /\ RestStays(t)
    BY <1>1, Pauses DEF SamePlace, RestStays
  <1>3. cons' = NextEntry(cons)
    <2>1. cons'.at \in Ends' /\ [cons EXCEPT !.at = "aborted"].at = "aborted"
      BY ConsumerIs DEF Ends
    <2> QED BY <2>1 DEF ConsClosed, Running
  <1>4. /\ cons' \in [at : ConsLabel, i : Entries, ready : Int, revents : Seq(SUBSET Event),
                      done : Nat, sum : SUBSET [q : Queues, id : Nat]]
        /\ cons'.done = cons.done /\ cons'.sum = cons.sum /\ cons'.at \in {"loop", "scan"}
    BY <1>3, ConsumerIs, EntryFollows
  <1>5. ProgTypes' /\ Entries' = Entries /\ \A j : Got(j)' = Got(j)
    BY <1>1, <1>2, <1>4 DEF ProgInv, ProgTypes, Entries, Got
  <1>6. ConsPlace'
    BY <1>2, <1>4 DEF ConsPlace
  <1>7. \A j \in Entries : Pending(j) = 0 /\ Pending(j)' = 0 /\ ~SawEof(j)'
    BY <1>1, <1>4 DEF Pending, SawEof
  <1>8. Closed'
    <2>1. \A j \in Entries : ConsGone(j)' <=> ConsGone(j)
      BY <1>1, <1>2, <1>4 DEF ConsGone
    <2>2. AllGone' = AllGone
      BY <1>5, <2>1 DEF AllGone
    <2> QED BY <1>1, <1>4, <1>5, <2>2 DEF ProgInv, Closed
  <1>9. Added'
    BY <1>1, <1>4, <1>5, <1>7, SumStays
  <1>10. \A j \in Entries : Pending(j)' <= Got(j)
    BY <1>7, ConsumerIs
  <1> QED BY <1>1, <1>2, <1>4, <1>5, <1>6, <1>7, <1>8, <1>9, <1>10, ConsFrame

LEMMA ConsKeeps ==
    ASSUME QInv, Running, ProgInv, ConsStep
    PROVE  (Running' => ProgInv') /\ main' = main
  <1>1. main' = main
    BY DEF ConsStep, ConsPoll, ConsEnd, ConsPolled, ConsSkip, ConsRead, ConsGot, ConsVerify, ConsVerified,
           ConsClose, ConsClosed
  <1> QED BY <1>1, ConsPollKeeps, ConsPolledKeeps, ConsSkipKeeps, ConsEndKeeps, ConsReadKeeps, ConsGotKeeps,
             ConsCloseKeeps, ConsClosedKeeps DEF ConsStep

(* main between its calls.                                                 *)
LEMMA MainFrame ==
    ASSUME Running, ProgInv, UNCHANGED <<argv, cons, prod, mq, handle, stored, rcvd>>,
           RestStays(MainThread), At(MainThread) = "idle", At(MainThread)' # "destroy",
           main' \in [at : MainLabel, i : 1..(argv.nprod + 1)], MainPlace',
           main'.at \in {"create", "open_reader"} <=> main.at \in {"create", "open_reader"},
           main'.at \in {"polled", "close", "closed"} => cons.at = "done" /\ \A j \in Entries : prod[j].at = "done",
           \A j \in Entries : /\ MainHolds(j)' <=> MainHolds(j)
                              /\ ConsMayHold(j)' <=> ConsMayHold(j)
                              /\ Handing(j)' <=> Handing(j)
                              /\ Waits(j)' <=> Waits(j)
                              /\ (main'.at = "create" /\ j >= main'.i) <=> (main.at = "create" /\ j >= main.i)
    PROVE  ProgInv'
  <1> DEFINE t == MainThread
  <1>1. Entries' = Entries /\ Entries \subseteq Producers /\ \A j : Got(j)' = Got(j)
    BY EntriesAre DEF Entries, Got, ProgInv
  <1>2. \A u \in Threads : u # t => SamePlace(u)
    BY DEF RestStays
  <1>3. ProgTypes'
    BY <1>1 DEF ProgInv, ProgTypes
  <1>4. ConsPlace' /\ Closed' /\ (\A j \in Entries : ConsGone(j)' <=> ConsGone(j))
        /\ \A j : (SawEof(j)' <=> SawEof(j)) /\ Pending(j)' = Pending(j)
    <2>1. SamePlace(ConsumerThread)
      BY <1>2, Constants
    <2> QED BY <2>1, ConsStays
  <1>5. \A j \in Entries : ProdPlace(j)' /\ Put(j)' = Put(j)
                           /\ (ProdHolds(j)' <=> ProdHolds(j)) /\ (ProdGone(j)' <=> ProdGone(j))
    <2>1. ASSUME NEW j \in Entries PROVE SamePlace(ProducerThreads[j])
      BY <1>2, OnlyProducer
    <2> QED BY <2>1, ProdStays
  <1>6. HandlesHeld'
    <2>1. \A j \in Producers : /\ MainHolds(j)' <=> MainHolds(j)
                               /\ ProdHolds(j)' <=> ProdHolds(j)
                               /\ ConsMayHold(j)' <=> ConsMayHold(j)
      BY <1>1, <1>5 DEF ProdHolds, MainHolds, ConsMayHold
    <2> QED BY <2>1, HandlesStay
  <1>7. Started'
    <2>1. ASSUME NEW j \in Producers \ Entries PROVE At(ProducerThreads[j])' = "idle"
      <3>1. ProducerThreads[j] \in Threads /\ ProducerThreads[j] # t
        BY Constants
      <3> QED BY <1>2, <3>1 DEF ProgInv, Started, SamePlace
    <2> QED BY <1>1, <2>1 DEF ProgInv, Started
  <1>8. ASSUME NEW j \in Producers PROVE QueueKnown(j)'
    <2>1. \A u \in Threads : At(u) = "destroy" /\ arg[u].q = QueueOf[j] => At(u)' = "destroy" /\ arg'[u].q = QueueOf[j]
      BY <1>2 DEF SamePlace
    <2> QED BY <1>4, <1>5, <2>1, QueueStays DEF SameCounters
  <1>9. \A j \in Entries : Counted(j)'
    BY <1>1, <1>4, <1>5, CountStays
  <1>10. Added'
    BY <1>1, <1>4, SumStays
  <1> QED BY <1>1, <1>3, <1>4, <1>5, <1>6, <1>7, <1>8, <1>9, <1>10 DEF ProgInv

LEMMA MainIs ==
    ASSUME ProgInv
    PROVE  /\ MainThread \in Threads /\ main.i \in Nat /\ main.i >= 1 /\ main.i <= argv.nprod + 1
           /\ argv.nprod \in Nat /\ argv.nprod >= 1 /\ Entries = 1..argv.nprod /\ Entries \subseteq Producers
           /\ main \in [at : MainLabel, i : 1..(argv.nprod + 1)]
           /\ \A j \in Entries : j \in Nat /\ j >= 1 /\ j <= argv.nprod
           /\ \A j \in Entries : MainHolds(j) => handle[MainMq[j]] = [q |-> QueueOf[j], flags |-> {}]
                                                 /\ handle[MainMq[j]] # NullHandle
  <1>1. /\ MainThread \in Threads /\ main.i \in Nat /\ main.i >= 1 /\ main.i <= argv.nprod + 1
        /\ argv.nprod \in Nat /\ argv.nprod \in Producers /\ Entries = 1..argv.nprod /\ Entries \subseteq Producers
        /\ main \in [at : MainLabel, i : 1..(argv.nprod + 1)]
    BY EntriesAre, Constants DEF ProgInv, ProgTypes
  <1>2. argv.nprod >= 1
    BY <1>1, Constants
  <1>3. ASSUME NEW j \in Entries, MainHolds(j)
        PROVE  handle[MainMq[j]] = [q |-> QueueOf[j], flags |-> {}] /\ handle[MainMq[j]] # NullHandle
    <2>1. handle[MainMq[j]] = Held(j, MainHolds(j), {}) /\ QueueOf[j] # None
      BY <1>1, Constants DEF ProgInv, HandlesHeld
    <2>2. handle[MainMq[j]] = [q |-> QueueOf[j], flags |-> {}]
      BY <1>3, <2>1 DEF Held
    <2> QED BY <2>1, <2>2 DEF NullHandle
  <1> QED BY <1>1, <1>2, <1>3

LEMMA MainOpenReadersKeeps ==
    ASSUME QInv, Running, ProgInv, MainOpenReaders
    PROVE  ProgInv'
  <1> DEFINE t == MainThread
  <1>1. /\ main.at = "create" /\ main.i \notin Entries /\ main' = [at |-> "open_reader", i |-> 1]
        /\ UNCHANGED <<argv, cons, prod, pollVars>> /\ At(t) = "idle"
    BY DEF MainOpenReaders, ProgInv, MainPlace
  <1>2. UNCHANGED <<mq, handle, stored, rcvd>> /\ At(t)' = "idle" /\ RestStays(t)
    BY <1>1, Pauses DEF SamePlace, RestStays
  <1>3. main'.at = "open_reader" /\ main'.i = 1 /\ Entries' = Entries
    BY <1>1 DEF Entries
  <1>4. /\ main.i = argv.nprod + 1 /\ argv.nprod \in Nat /\ argv.nprod >= 1
        /\ \A j \in Entries : j \in Nat /\ j >= 1 /\ j <= argv.nprod
    BY <1>1, MainIs
  <1>5. main' \in [at : MainLabel, i : 1..(argv.nprod + 1)]
    BY <1>1, <1>4 DEF MainLabel
  <1>6. MainPlace'
    BY <1>2, <1>3 DEF MainPlace
  <1>7. \A j \in Entries : /\ MainHolds(j)' <=> MainHolds(j)
                           /\ ConsMayHold(j)' <=> ConsMayHold(j)
                           /\ Handing(j)' <=> Handing(j)
                           /\ Waits(j)' <=> Waits(j)
                           /\ (main'.at = "create" /\ j >= main'.i) <=> (main.at = "create" /\ j >= main.i)
    BY <1>1, <1>3, <1>4 DEF MainHolds, ConsMayHold, Handing, Waits
  <1> QED BY <1>1, <1>2, <1>3, <1>5, <1>6, <1>7, MainFrame

LEMMA MainOpenReaderKeeps ==
    ASSUME QInv, Running, ProgInv, MainOpenReader
    PROVE  ProgInv'
  <1> DEFINE t == MainThread  i == main.i  s == MainMq[i]
             a == [WithHandle(s) EXCEPT !.dst = ConsumerMq[i], !.flags = {"READER"}]
  <1>1. /\ main.at = "open_reader" /\ Returned(t) /\ i \in Entries /\ main' = [main EXCEPT !.i = @ + 1]
        /\ msg_queue_open(ReaderOpen(i)) /\ UNCHANGED <<argv, cons, prod>>
    BY DEF MainOpenReader
  <1>2. At(t) = "idle" /\ t \in Threads /\ SlotOwner[s] = t /\ handle[s] # NullHandle
    <2>1. MainHolds(i)
      BY <1>1 DEF MainHolds
    <2> QED BY <1>1, <2>1, MainIs, PhaseIs, Constants DEF Returned, At
  <1>3. a.slot = s /\ a.dst = ConsumerMq[i] /\ a.flags = {"READER"}
    BY DEF WithHandle, NoArg
  <1>4. Enter(t, "open_lock", a)
    BY <1>1, <1>2 DEF msg_queue_open, ReaderOpen, Flag
  <1> HIDE DEF a
  <1>5. At(t)' = "opening" /\ arg'[t] = a /\ RestStays(t) /\ UNCHANGED <<mq, handle, stored, rcvd>>
    BY <1>2, <1>4, Begins, PhaseIs
  <1>6. /\ main.i \in Nat /\ argv.nprod \in Nat /\ argv.nprod >= 1 /\ main.i <= argv.nprod /\ main.i >= 1
        /\ \A j \in Entries : j \in Nat /\ j >= 1 /\ j <= argv.nprod
    BY <1>1, MainIs
  <1>7. main'.at = "open_reader" /\ main'.i = main.i + 1 /\ main' \in [at : MainLabel, i : 1..(argv.nprod + 1)]
    <2>1. main.i + 1 \in 1..(argv.nprod + 1)
      BY <1>6
    <2> QED BY <1>1, <2>1, MainIs
  <1>8. Entries' = Entries /\ main'.i > 1 /\ main'.i - 1 = main.i
    BY <1>1, <1>6, <1>7 DEF Entries
  <1>9. MainPlace'
    BY <1>3, <1>5, <1>7, <1>8 DEF MainPlace, Opening
  <1>10. \A j \in Entries : /\ MainHolds(j)' <=> MainHolds(j)
                            /\ ConsMayHold(j)' <=> ConsMayHold(j)
                            /\ Handing(j)' <=> Handing(j)
                            /\ Waits(j)' <=> Waits(j)
                            /\ (main'.at = "create" /\ j >= main'.i) <=> (main.at = "create" /\ j >= main.i)
    BY <1>1, <1>2, <1>5, <1>6, <1>7, <1>8 DEF MainHolds, ConsMayHold, Handing, Waits
  <1> QED BY <1>1, <1>2, <1>5, <1>7, <1>9, <1>10, MainFrame

LEMMA MainOpenWriterKeeps ==
    ASSUME QInv, Running, ProgInv, MainOpenWriter
    PROVE  ProgInv'
  <1> DEFINE t == MainThread  i == main.i  s == MainMq[i]
             a == [WithHandle(s) EXCEPT !.dst = ProducerMq[i], !.flags = {"WRITER"}]
  <1>1. /\ main.at = "open_writer" /\ i \in Entries /\ main' = [main EXCEPT !.at = "start"]
        /\ msg_queue_open(WriterOpen(i)) /\ UNCHANGED <<argv, cons, prod>> /\ At(t) = "idle"
    BY DEF MainOpenWriter, ProgInv, MainPlace
  <1>2. t \in Threads /\ SlotOwner[s] = t /\ handle[s] # NullHandle
    <2>1. MainHolds(i)
      BY <1>1 DEF MainHolds
    <2> QED BY <1>1, <2>1, MainIs, Constants
  <1>3. a.slot = s /\ a.dst = ProducerMq[i] /\ a.flags = {"WRITER"}
    BY DEF WithHandle, NoArg
  <1>4. Enter(t, "open_lock", a)
    BY <1>1, <1>2 DEF msg_queue_open, WriterOpen, Flag
  <1> HIDE DEF a
  <1>5. At(t)' = "opening" /\ arg'[t] = a /\ RestStays(t) /\ UNCHANGED <<mq, handle, stored, rcvd>>
    BY <1>2, <1>4, Begins, PhaseIs
  <1>6. main'.at = "start" /\ main'.i = main.i /\ main' \in [at : MainLabel, i : 1..(argv.nprod + 1)]
    BY <1>1, MainIs DEF MainLabel
  <1>7. Entries' = Entries
    BY <1>1 DEF Entries
  <1>8. MainPlace'
    BY <1>1, <1>3, <1>5, <1>6, <1>7 DEF MainPlace, Opening
  <1>9. \A j \in Entries : /\ MainHolds(j)' <=> MainHolds(j)
                           /\ ConsMayHold(j)' <=> ConsMayHold(j)
                           /\ Handing(j)' <=> Handing(j)
                           /\ Waits(j)' <=> Waits(j)
                           /\ (main'.at = "create" /\ j >= main'.i) <=> (main.at = "create" /\ j >= main.i)
    BY <1>1, <1>5, <1>6, <1>7 DEF MainHolds, ConsMayHold, Handing, Waits
  <1> QED BY <1>1, <1>2, <1>5, <1>6, <1>8, <1>9, MainFrame

LEMMA MainPollKeeps ==
    ASSUME QInv, Running, ProgInv, MainPoll
    PROVE  ProgInv'
  <1> DEFINE t == MainThread
  <1>1. /\ main.at = "open_writer" /\ main.i \notin Entries /\ main' = [main EXCEPT !.at = "polled"]
        /\ cons.at = "done" /\ (\A j \in Entries : prod[j].at = "done")
        /\ msg_queue_poll(CheckPoll(argv.nprod)) /\ UNCHANGED <<argv, cons, prod>>
    BY DEF MainPoll
  <1>2. /\ At(t) = "idle" /\ RestStays(t) /\ UNCHANGED <<mq, handle, stored, rcvd>>
        /\ At(t)' \in {"idle", "polling"}
    <2>1. CheckPoll(argv.nprod).t = t
      BY DEF CheckPoll, PollAll
    <2> QED BY <1>1, <2>1, PollBegun, Constants
  <1>3. main'.at = "polled" /\ main'.i = main.i /\ main' \in [at : MainLabel, i : 1..(argv.nprod + 1)]
    BY <1>1, MainIs DEF MainLabel
  <1>4. Entries' = Entries /\ main.i = argv.nprod + 1 /\ argv.nprod \in Nat
        /\ \A j \in Entries : j \in Nat /\ j >= 1 /\ j <= argv.nprod
    BY <1>1, MainIs DEF Entries
  <1>5. MainPlace'
    BY <1>2, <1>3 DEF MainPlace
  <1>6. \A j \in Entries : /\ MainHolds(j)' <=> MainHolds(j)
                           /\ ConsMayHold(j)' <=> ConsMayHold(j)
                           /\ Handing(j)' <=> Handing(j)
                           /\ Waits(j)' <=> Waits(j)
                           /\ (main'.at = "create" /\ j >= main'.i) <=> (main.at = "create" /\ j >= main.i)
    BY <1>1, <1>3, <1>4 DEF MainHolds, ConsMayHold, Handing, Waits
  <1> QED BY <1>1, <1>2, <1>3, <1>5, <1>6, MainFrame

(* Closing starts at the first queue and goes on to the next.              *)
LEMMA MainNextClose ==
    ASSUME QInv, Running, ProgInv, UNCHANGED <<argv, cons, prod, pollVars>>, At(MainThread) = "idle",
           main'.at = "close", main' \in [at : MainLabel, i : 1..(argv.nprod + 1)],
           \/ main.at = "polled" /\ main'.i = 1
           \/ main.at = "closed" /\ main'.i = main.i + 1
    PROVE  ProgInv'
  <1> DEFINE t == MainThread
  <1>1. UNCHANGED <<mq, handle, stored, rcvd>> /\ At(t)' = "idle" /\ RestStays(t)
    BY Pauses DEF SamePlace, RestStays
  <1>2. Entries' = Entries /\ main.i \in Nat /\ argv.nprod \in Nat
        /\ \A j \in Entries : j \in Nat /\ j >= 1 /\ j <= argv.nprod
    BY MainIs DEF Entries
  <1>3. MainPlace'
    BY <1>1 DEF MainPlace
  <1>4. \A j \in Entries : /\ MainHolds(j)' <=> MainHolds(j)
                           /\ ConsMayHold(j)' <=> ConsMayHold(j)
                           /\ Handing(j)' <=> Handing(j)
                           /\ Waits(j)' <=> Waits(j)
                           /\ (main'.at = "create" /\ j >= main'.i) <=> (main.at = "create" /\ j >= main.i)
    BY <1>2 DEF MainHolds, ConsMayHold, Handing, Waits
  <1>5. cons.at = "done" /\ \A j \in Entries : prod[j].at = "done"
    BY DEF ProgInv, Started
  <1> QED BY <1>1, <1>3, <1>4, <1>5, MainFrame

LEMMA MainPolledKeeps ==
    ASSUME QInv, Running, ProgInv, MainPolled, Running'
    PROVE  ProgInv'
  <1>1. main.at = "polled" /\ At(MainThread) = "idle" /\ UNCHANGED <<argv, cons, prod, pollVars>>
    BY PhaseIs DEF MainPolled, Returned, At
  <1>2. main'.at = "close" /\ main'.i = 1 /\ main' = [at |-> "close", i |-> 1]
    <2>1. main'.at \in Ends'
      BY DEF Ends
    <2> QED BY <2>1 DEF MainPolled, Asserted, Running
  <1>3. main' \in [at : MainLabel, i : 1..(argv.nprod + 1)]
    BY <1>2, MainIs DEF MainLabel
  <1> QED BY <1>1, <1>2, <1>3, MainNextClose

LEMMA MainClosedKeeps ==
    ASSUME QInv, Running, ProgInv, MainClosed, Running'
    PROVE  ProgInv'
  <1>1. main.at = "closed" /\ At(MainThread) = "idle" /\ UNCHANGED <<argv, cons, prod, pollVars>>
    BY PhaseIs DEF MainClosed, Returned, At
  <1>2. main'.at = "close" /\ main'.i = main.i + 1 /\ main' = [at |-> "close", i |-> main.i + 1]
    <2>1. main'.at \in Ends'
      BY DEF Ends
    <2> QED BY <2>1 DEF MainClosed, Asserted, Running
  <1>3. main.i \in Entries
    BY <1>1 DEF ProgInv, MainPlace
  <1>4. main.i + 1 \in 1..(argv.nprod + 1)
    BY <1>3, MainIs
  <1>5. main' \in [at : MainLabel, i : 1..(argv.nprod + 1)]
    BY <1>2, <1>4 DEF MainLabel
  <1> QED BY <1>1, <1>2, <1>5, MainNextClose

LEMMA MainCloseKeeps ==
    ASSUME QInv, Running, ProgInv, MainClose
    PROVE  ProgInv'
  <1> DEFINE t == MainThread  i == main.i  s == MainMq[i]
             a == WithHandle(s)
  <1>1. /\ main.at = "close" /\ i \in Entries /\ main' = [main EXCEPT !.at = "closed"]
        /\ msg_queue_close(s) /\ UNCHANGED <<argv, cons, prod>> /\ At(t) = "idle"
    BY DEF MainClose, ProgInv, MainPlace
  <1>2. t \in Threads /\ SlotOwner[s] = t /\ handle[s] # NullHandle
    <2>1. MainHolds(i)
      BY <1>1 DEF MainHolds
    <2> QED BY <1>1, <2>1, MainIs, Constants
  <1>3. a.slot = s
    BY DEF WithHandle, NoArg
  <1>4. Enter(t, "close_lock", a)
    BY <1>1, <1>2 DEF msg_queue_close
  <1> HIDE DEF a
  <1>5. At(t)' = "closing" /\ arg'[t] = a /\ RestStays(t) /\ UNCHANGED <<mq, handle, stored, rcvd>>
    BY <1>2, <1>4, Begins, PhaseIs
  <1>6. main'.at = "closed" /\ main'.i = main.i /\ main' \in [at : MainLabel, i : 1..(argv.nprod + 1)]
    BY <1>1, MainIs DEF MainLabel
  <1>7. Entries' = Entries
    BY <1>1 DEF Entries
  <1>8. MainPlace'
    BY <1>1, <1>3, <1>5, <1>6, <1>7 DEF MainPlace
  <1>9. \A j \in Entries : /\ MainHolds(j)' <=> MainHolds(j)
                           /\ ConsMayHold(j)' <=> ConsMayHold(j)
                           /\ Handing(j)' <=> Handing(j)
                           /\ Waits(j)' <=> Waits(j)
                           /\ (main'.at = "create" /\ j >= main'.i) <=> (main.at = "create" /\ j >= main.i)
    BY <1>1, <1>5, <1>6, <1>7 DEF MainHolds, ConsMayHold, Handing, Waits
  <1>10. cons.at = "done" /\ \A j \in Entries : prod[j].at = "done"
    BY <1>1 DEF ProgInv, Started
  <1> QED BY <1>1, <1>2, <1>5, <1>6, <1>8, <1>9, <1>10, MainFrame

(* A queue comes to life with the handle of main.                          *)
LEMMA MainCreateKeeps ==
    ASSUME QInv, Running, ProgInv, MainCreate, Running'
    PROVE  ProgInv'
  <1> DEFINE t == MainThread
  <1>1. PICK i \in Entries : i = main.i
    BY DEF MainCreate
  <1> DEFINE q == QueueOf[i]  s == MainMq[i]  c == Creation(i, argv.size)
  <1>2. /\ main.at = "create" /\ msg_queue_create(c) /\ UNCHANGED <<argv, cons, prod>>
        /\ At(t) = "idle" /\ i \in Producers /\ q \in Queues /\ s \in Slots /\ t \in Threads
        /\ c.slot = s /\ SlotOwner[s] = t /\ c.queue = q /\ c.flags = {}
        /\ c.capacity = argv.size * (MessageSize + SizeT)
    BY <1>1, MainIs, Constants DEF MainCreate, Creation, ProgInv, MainPlace
  <1> HIDE DEF c
  <1>3. ret'[t] = "OK" /\ main' = [main EXCEPT !.i = @ + 1]
    <2>1. main'.at \in Ends'
      BY DEF Ends
    <2>2. CASE ret'[t] = "OK"
      BY <2>2 DEF MainCreate
    <2>3. CASE ret'[t] # "OK"
      <3>1. main' = [main EXCEPT !.at = IF ret'[t] = "ENOMEM" THEN "nomem" ELSE "aborted"]
        BY <2>3 DEF MainCreate
      <3>2. main'.at \in {"nomem", "aborted"}
        BY <3>1, MainIs
      <3> QED BY <2>1, <3>2 DEF Running
    <2> QED BY <2>2, <2>3
  <1>4. PICK event \in UninitEvents :
           /\ mq' = [mq EXCEPT ![q] = mq_open(mq_init(c.capacity, event), {})]
           /\ handle' = [handle EXCEPT ![s] = [q |-> q, flags |-> {}]]
           /\ ret' = [ret EXCEPT ![t] = "OK"]
           /\ UNCHANGED <<pc, arg, scan, pollm, stored, rcvd>>
    <2>1. ~Refuse(t, "EINVAL") /\ ~Refuse(t, "ENOMEM")
      BY <1>2, <1>3, IsRefused
    <2> QED BY <1>2, <2>1 DEF msg_queue_create
  <1>5. /\ mq \in [Queues -> Backend] /\ handle \in [Slots -> Handle] /\ ret \in [Threads -> Result]
    BY DEF QInv, QueueInv, MemoryInv, TypeOK
  <1>6. /\ mq'[q].status = "live" /\ mq'[q].size = c.capacity /\ mq'[q].refs = 1
        /\ ~mq'[q].no_readers /\ ~mq'[q].no_writers
        /\ \A p \in Queues \ {q} : mq'[p] = mq[p]
    <2>1. mq'[q] = mq_open(mq_init(c.capacity, event), {})
      BY <1>2, <1>4, <1>5
    <2>2. /\ mq'[q].status = "live" /\ mq'[q].size = c.capacity /\ mq'[q].refs = 1
          /\ ~mq'[q].no_readers /\ ~mq'[q].no_writers
      <3> DEFINE b == mq_init(c.capacity, event)
      <3>1. b \in Backend
        BY <1>2, EntriesAre, Constants, SizeAssumption DEF mq_init, Backend, ProgInv
      <3>2. b.status = "live" /\ b.size = c.capacity /\ b.refs = 0 /\ ~b.no_readers /\ ~b.no_writers
        BY DEF mq_init
      <3>3. mq'[q] = mq_open(b, {})
        BY <2>1
      <3> HIDE DEF b
      <3>4. /\ mq'[q].status = b.status /\ mq'[q].size = b.size /\ mq'[q].refs = b.refs + 1
            /\ (mq'[q].no_readers <=> b.no_readers) /\ (mq'[q].no_writers <=> b.no_writers)
        BY <3>1, <3>3 DEF Backend, mq_open
      <3> QED BY <3>2, <3>4
    <2>3. \A p \in Queues \ {q} : mq'[p] = mq[p]
      BY <1>4, <1>5
    <2> QED BY <2>2, <2>3
  <1>7. RestStays(t) /\ At(t)' = "idle" /\ (\A u \in Threads : u # t => SamePlace(u))
        /\ \A u \in Threads : At(u)' = At(u) /\ arg'[u] = arg[u]
    BY <1>2, <1>4, <1>5 DEF RestStays, SamePlace, At
  <1>8. /\ argv.nprod \in Nat /\ i <= argv.nprod /\ i >= 1 /\ i \in Nat /\ main.i = i
        /\ \A j \in Entries : j \in Nat
    BY <1>1, MainIs
  <1>9. main'.at = "create" /\ main'.i = i + 1 /\ main' \in [at : MainLabel, i : 1..(argv.nprod + 1)]
    <2>1. main.i + 1 \in 1..(argv.nprod + 1)
      BY <1>8
    <2> QED BY <1>2, <1>3, <1>8, <2>1, MainIs
  <1>10. Entries' = Entries /\ ProgTypes' /\ (\A j : Got(j)' = Got(j)) /\ Entries \subseteq Producers
    BY <1>2, <1>4, <1>9, MainIs DEF Entries, ProgInv, ProgTypes, Got
  <1>11. MainPlace'
    BY <1>7, <1>9 DEF MainPlace
  <1>12. cons.at = "none" /\ \A j \in Entries : prod[j].at = "none"
    BY <1>2 DEF ProgInv, Started, Waits
  <1>13. \A j \in Producers : /\ j # i => handle'[MainMq[j]] = handle[MainMq[j]]
                              /\ handle'[ConsumerMq[j]] = handle[ConsumerMq[j]]
                              /\ handle'[ProducerMq[j]] = handle[ProducerMq[j]]
                              /\ handle'[s] = [q |-> q, flags |-> {}]
    BY <1>2, <1>4, <1>5, Constants, Distinctness
  <1>14. ConsPlace' /\ Closed' /\ (\A j \in Entries : ConsGone(j)' <=> ConsGone(j))
         /\ \A j : (SawEof(j)' <=> SawEof(j)) /\ Pending(j)' = Pending(j)
    <2>1. SamePlace(ConsumerThread)
      BY <1>7, Constants
    <2> QED BY <1>2, <1>10, <1>13, <2>1, ConsStays
  <1>15. \A j \in Entries : ProdPlace(j)' /\ Put(j)' = Put(j) /\ ~ProdGone(j) /\ ~ProdGone(j)'
    <2>1. ASSUME NEW j \in Entries PROVE SamePlace(ProducerThreads[j])
      BY <1>7, OnlyProducer
    <2> QED BY <1>2, <1>12, <2>1, ProdStays DEF ProdGone
  <1>16. \A j : /\ ~ProdHolds(j) /\ ~ProdHolds(j)' /\ ~ConsMayHold(j) /\ ~ConsMayHold(j)'
                /\ j # i => (MainHolds(j)' <=> MainHolds(j))
                /\ MainHolds(i)' /\ Waits(j) /\ Waits(j)'
    <2>1. \A j : ~ProdHolds(j) /\ ~ProdHolds(j)' /\ ~ConsMayHold(j) /\ ~ConsMayHold(j)'
      BY <1>2, <1>9, <1>10, <1>12 DEF ProdHolds, ConsMayHold
    <2>2. \A j \in Entries : j # i => (MainHolds(j)' <=> MainHolds(j))
      BY <1>2, <1>8, <1>9, <1>10 DEF MainHolds
    <2>3. \A j : j \notin Entries => ~MainHolds(j) /\ ~MainHolds(j)'
      BY <1>10 DEF MainHolds
    <2>4. MainHolds(i)'
      BY <1>8, <1>9, <1>10 DEF MainHolds
    <2> QED BY <1>2, <1>9, <2>1, <2>2, <2>3, <2>4 DEF Waits
  <1>17. HandlesHeld'
    <2>1. HandlesHeld
      BY DEF ProgInv
    <2>2. \A r \in Slots : handle'[r] # NullHandle => handle[r] # NullHandle \/ r = s
      BY <1>4, <1>5
    <2>3. \A r \in Slots : handle'[r] # NullHandle => \E j \in Producers : r \in {MainMq[j], ConsumerMq[j], ProducerMq[j]}
      BY <1>2, <2>1, <2>2 DEF HandlesHeld
    <2>4. ASSUME NEW j \in Producers
          PROVE  /\ handle'[MainMq[j]] = Held(j, MainHolds(j)', {})
                 /\ handle'[ProducerMq[j]] = Held(j, ProdHolds(j)', {"WRITER"})
                 /\ handle'[ConsumerMq[j]] \in {NullHandle, [q |-> QueueOf[j], flags |-> {"READER"}]}
                 /\ handle'[ConsumerMq[j]] # NullHandle => ConsMayHold(j)'
      <3>1. /\ handle[MainMq[j]] = Held(j, MainHolds(j), {})
            /\ handle[ProducerMq[j]] = Held(j, ProdHolds(j), {"WRITER"})
            /\ handle[ConsumerMq[j]] \in {NullHandle, [q |-> QueueOf[j], flags |-> {"READER"}]}
            /\ handle[ConsumerMq[j]] # NullHandle => ConsMayHold(j)
        BY <2>1 DEF HandlesHeld
      <3>2. handle'[MainMq[j]] = Held(j, MainHolds(j)', {})
        <4>1. CASE j = i
          BY <1>13, <1>16, <4>1 DEF Held
        <4>2. CASE j # i
          BY <1>13, <1>16, <3>1, <4>2 DEF Held
        <4> QED BY <4>1, <4>2
      <3>3. handle'[ProducerMq[j]] = Held(j, ProdHolds(j)', {"WRITER"})
        BY <1>13, <1>16, <3>1 DEF Held
      <3> QED BY <1>13, <1>16, <3>1, <3>2, <3>3
    <2> QED BY <1>16, <2>3, <2>4 DEF HandlesHeld, Held
  <1>18. Started'
    <2>1. ASSUME NEW j \in Producers \ Entries PROVE At(ProducerThreads[j])' = "idle"
      <3>1. ProducerThreads[j] \in Threads /\ ProducerThreads[j] # t
        BY Constants
      <3> QED BY <1>7, <3>1 DEF ProgInv, Started, SamePlace
    <2> QED BY <1>2, <1>9, <1>10, <1>12, <1>16, <2>1 DEF Started
  <1>19. ASSUME NEW j \in Producers PROVE QueueKnown(j)'
    <2>1. CASE j = i
      BY <1>2, <1>6, <1>8, <1>9, <1>10, <2>1 DEF QueueKnown
    <2>2. CASE j # i
      <3>1. QueueOf[j] \in Queues \ {q}
        BY <1>2, <2>2, Constants, Distinctness
      <3>2. j \in Entries => ((main'.at = "create" /\ j >= main'.i) <=> (main.at = "create" /\ j >= main.i))
        BY <1>2, <1>8, <1>9, <2>2
      <3> QED BY <1>6, <1>7, <1>14, <1>15, <3>1, <3>2, QueueStays, <1>2 DEF SameCounters
    <2> QED BY <2>1, <2>2
  <1>20. \A j \in Entries : Counted(j)'
    BY <1>2, <1>4, <1>10, <1>14, <1>15, CountStays
  <1>21. Added'
    BY <1>2, <1>10, <1>14, SumStays
  <1>22. \A j \in Entries : ProdPlace(j)'
    BY <1>15
  <1> QED BY <1>10, <1>11, <1>14, <1>17, <1>18, <1>19, <1>20, <1>21, <1>22 DEF ProgInv

(* It starts the other threads once their handles are open.                *)
LEMMA StartConsumerKeeps ==
    ASSUME QInv, Running, ProgInv, StartConsumer, Running'
    PROVE  ProgInv'
  <1> DEFINE t == MainThread
  <1>1. /\ main.at = "open_reader" /\ Returned(t) /\ main.i \notin Entries
        /\ UNCHANGED <<argv, prod, pollVars>> /\ At(t) = "idle"
    BY PhaseIs DEF StartConsumer, Returned, At
  <1>2. UNCHANGED <<mq, handle, stored, rcvd>> /\ At(t)' = "idle" /\ \A u : SamePlace(u)
    BY <1>1, Pauses DEF SamePlace
  <1>3. main' = [at |-> "open_writer", i |-> 1] /\ cons' = [cons EXCEPT !.at = "loop"]
    <2>1. main'.at \in Ends' /\ [main EXCEPT !.at = "nomem"].at = "nomem"
      BY MainIs DEF Ends
    <2> QED BY <2>1 DEF StartConsumer, Running
  <1>4. main'.at = "open_writer" /\ main'.i = 1 /\ Entries' = Entries /\ Entries \subseteq Producers
        /\ (\A j : Got(j)' = Got(j))
    BY <1>1, <1>2, <1>3, MainIs DEF Entries, Got
  <1>5. /\ cons' \in [at : ConsLabel, i : Entries, ready : Int, revents : Seq(SUBSET Event),
                      done : Nat, sum : SUBSET [q : Queues, id : Nat]]
        /\ cons'.done = cons.done /\ cons'.sum = cons.sum /\ cons'.at = "loop"
    BY <1>3, ConsumerIs DEF ConsLabel
  <1>6. /\ main.i = argv.nprod + 1 /\ argv.nprod \in Nat /\ argv.nprod >= 1
        /\ \A j \in Entries : j \in Nat /\ j >= 1 /\ j <= argv.nprod
    BY <1>1, MainIs
  <1>7. ProgTypes'
    <2>1. main' \in [at : MainLabel, i : 1..(argv.nprod + 1)]
      BY <1>3, <1>6 DEF MainLabel
    <2> QED BY <1>1, <1>4, <1>5, <2>1 DEF ProgInv, ProgTypes
  <1>8. MainPlace' /\ ConsPlace'
    <2>1. At(ConsumerThread) = "idle"
      BY <1>1 DEF ProgInv, Started, ConsPlace
    <2> QED BY <1>2, <1>4, <1>5, <2>1 DEF MainPlace, ConsPlace, SamePlace
  <1>9. cons.at = "none" /\ \A j \in Entries : prod[j].at = "none" /\ Waits(j) /\ Waits(j)'
    BY <1>1, <1>4, <1>6 DEF ProgInv, Started, Waits
  <1>10. \A j \in Entries : /\ MainHolds(j) /\ MainHolds(j)' /\ ConsMayHold(j) /\ ConsMayHold(j)'
                            /\ ~Handing(j) /\ ~Handing(j)'
    BY <1>1, <1>4, <1>6 DEF MainHolds, ConsMayHold, Handing
  <1>11. \A j \in Producers : /\ MainHolds(j)' <=> MainHolds(j)
                              /\ ConsMayHold(j)' <=> ConsMayHold(j)
                              /\ ~ProdHolds(j) /\ ~ProdHolds(j)'
    BY <1>1, <1>4, <1>9, <1>10 DEF MainHolds, ConsMayHold, ProdHolds, Handing
  <1>12. HandlesHeld'
    <2>1. HandlesHeld
      BY DEF ProgInv
    <2> QED BY <1>2, <1>5, <1>11, <2>1 DEF HandlesHeld, Held
  <1>13. \A j \in Entries : ~ConsGone(j) /\ ~ConsGone(j)'
    <2>1. \A j \in Entries : handle[ConsumerMq[j]] # NullHandle
      BY <1>4, <1>9, <1>10 DEF ProgInv, HandlesHeld
    <2> QED BY <1>2, <2>1 DEF ConsGone
  <1>14. Closed'
    <2>1. AllGone' = AllGone
      BY <1>4, <1>13 DEF AllGone
    <2> QED BY <1>4, <1>5, <1>9, <2>1 DEF ProgInv, Closed
  <1>15. \A j \in Entries : ProdPlace(j)' /\ Put(j)' = Put(j) /\ ~ProdGone(j) /\ ~ProdGone(j)'
    <2>1. ASSUME NEW j \in Entries PROVE prod'[j] = prod[j] /\ SamePlace(ProducerThreads[j])
      BY <1>1, <1>2
    <2> QED BY <1>1, <1>9, <2>1, ProdStays DEF ProdGone
  <1>16. Started'
    <2>1. \A j \in Producers \ Entries : At(ProducerThreads[j])' = "idle"
      BY <1>2 DEF ProgInv, Started, SamePlace
    <2> QED BY <1>1, <1>4, <1>5, <1>9, <2>1 DEF Started
  <1>17. ASSUME NEW j \in Producers PROVE QueueKnown(j)'
    <2>1. \A u \in Threads : At(u) = "destroy" /\ arg[u].q = QueueOf[j] => At(u)' = "destroy" /\ arg'[u].q = QueueOf[j]
      BY <1>2 DEF SamePlace
    <2> QED BY <1>1, <1>2, <1>4, <1>13, <1>15, <2>1, QueueStays DEF SameCounters
  <1>18. \A j \in Entries : /\ Pending(j) = 0 /\ Pending(j)' = 0 /\ ~SawEof(j) /\ ~SawEof(j)'
    BY <1>5, <1>9 DEF Pending, SawEof
  <1>19. \A j \in Entries : Counted(j)'
    BY <1>1, <1>2, <1>4, <1>13, <1>15, <1>18, CountStays
  <1>20. Added'
    BY <1>1, <1>4, <1>5, <1>18, SumStays
  <1>21. \A j \in Entries : ProdPlace(j)'
    BY <1>15
  <1> QED BY <1>4, <1>7, <1>8, <1>12, <1>14, <1>16, <1>17, <1>19, <1>20, <1>21 DEF ProgInv

LEMMA StartProducerKeeps ==
    ASSUME QInv, Running, ProgInv, StartProducer, Running'
    PROVE  ProgInv'
  <1> DEFINE t == MainThread
  <1>1. /\ main.at = "start" /\ Returned(t) /\ UNCHANGED <<argv, cons, pollVars>> /\ At(t) = "idle"
    BY PhaseIs DEF StartProducer, Returned, At
  <1>2. UNCHANGED <<mq, handle, stored, rcvd>> /\ At(t)' = "idle" /\ \A u : SamePlace(u)
    BY <1>1, Pauses DEF SamePlace
  <1>3. PICK i \in Entries : i = main.i
    BY <1>1 DEF ProgInv, MainPlace
  <1>4. main' = [at |-> "open_writer", i |-> i + 1] /\ prod' = [prod EXCEPT ![i].at = "loop"]
    <2>1. main'.at \in Ends' /\ [main EXCEPT !.at = "nomem"].at = "nomem"
      BY MainIs DEF Ends
    <2> QED BY <1>3, <2>1 DEF StartProducer, Running
  <1>5. main'.at = "open_writer" /\ main'.i = i + 1 /\ Entries' = Entries /\ Entries \subseteq Producers
        /\ (\A j : Got(j)' = Got(j)) /\ i \in Producers
    BY <1>1, <1>2, <1>4, MainIs DEF Entries, Got
  <1>6. /\ i \in Nat /\ i >= 1 /\ i <= argv.nprod /\ argv.nprod \in Nat /\ \A j \in Entries : j \in Nat
    BY MainIs
  <1>7. prod[i].at = "none" /\ Waits(i)
    BY <1>1, <1>3, <1>6 DEF ProgInv, Started, Waits
  <1>8. /\ prod'[i].at = "loop" /\ prod'[i].sent = prod[i].sent
        /\ prod' \in [Entries -> [at : ProdLabel, sent : 0..argv.nmsgs]]
        /\ \A j \in Entries : j # i => prod'[j] = prod[j]
    <2>1. prod \in [Entries -> [at : ProdLabel, sent : 0..argv.nmsgs]]
      BY DEF ProgInv, ProgTypes
    <2> QED BY <1>4, <2>1 DEF ProdLabel
  <1>9. ProgTypes'
    <2>1. main' \in [at : MainLabel, i : 1..(argv.nprod + 1)]
      BY <1>4, <1>6 DEF MainLabel
    <2> QED BY <1>1, <1>5, <1>8, <2>1 DEF ProgInv, ProgTypes
  <1>10. MainPlace'
    BY <1>2, <1>5 DEF MainPlace
  <1>11. ConsPlace' /\ Closed' /\ (\A j \in Entries : ConsGone(j)' <=> ConsGone(j))
         /\ \A j : (SawEof(j)' <=> SawEof(j)) /\ Pending(j)' = Pending(j)
    BY <1>1, <1>2, ConsStays
  <1>12. /\ \A j \in Entries : j # i => (Handing(j)' <=> Handing(j)) /\ (Waits(j)' <=> Waits(j))
         /\ ~Waits(i)'
         /\ \A j : (MainHolds(j)' <=> MainHolds(j)) /\ (ConsMayHold(j)' <=> ConsMayHold(j))
    BY <1>1, <1>3, <1>5, <1>6 DEF Handing, Waits, MainHolds, ConsMayHold
  <1>13. \A j \in Entries : j # i => ProdPlace(j)' /\ Put(j)' = Put(j)
                                     /\ (ProdHolds(j)' <=> ProdHolds(j)) /\ (ProdGone(j)' <=> ProdGone(j))
    <2>1. ASSUME NEW j \in Entries, j # i PROVE prod'[j] = prod[j] /\ SamePlace(ProducerThreads[j])
      BY <1>2, <1>8, <2>1
    <2> QED BY <1>1, <1>12, <2>1, ProdStays
  <1>14. ProdPlace(i)' /\ Put(i) = 0 /\ Put(i)' = 0 /\ ProdHolds(i) /\ ProdHolds(i)' /\ ~ProdGone(i) /\ ~ProdGone(i)'
    <2>1. At(ProducerThreads[i])' = "idle"
      BY <1>2, <1>7 DEF ProgInv, ProdPlace, SamePlace
    <2> QED BY <1>1, <1>3, <1>5, <1>7, <1>8, <2>1 DEF ProdPlace, Put, ProdHolds, ProdGone
  <1>15. HandlesHeld'
    <2>1. \A j \in Producers : ProdHolds(j)' <=> ProdHolds(j)
      BY <1>5, <1>13, <1>14 DEF ProdHolds
    <2> QED BY <1>1, <1>2, <1>12, <2>1, HandlesStay
  <1>16. Started'
    <2>1. \A j \in Producers \ Entries : At(ProducerThreads[j])' = "idle"
      BY <1>2 DEF ProgInv, Started, SamePlace
    <2>2. cons.at # "none" /\ cons' = cons
      BY <1>1 DEF ProgInv, Started
    <2>3. \A j \in Entries : prod'[j].at = "none" <=> Waits(j)'
      BY <1>8, <1>12 DEF ProgInv, Started
    <2> QED BY <1>5, <2>1, <2>2, <2>3 DEF Started
  <1>17. ASSUME NEW j \in Producers PROVE QueueKnown(j)'
    <2>1. \A u \in Threads : At(u) = "destroy" /\ arg[u].q = QueueOf[j] => At(u)' = "destroy" /\ arg'[u].q = QueueOf[j]
      BY <1>2 DEF SamePlace
    <2> QED BY <1>1, <1>2, <1>5, <1>11, <1>13, <1>14, <2>1, QueueStays DEF SameCounters
  <1>18. Counted(i)'
    <2>1. Counted(i)
      BY DEF ProgInv
    <2> QED BY <1>1, <1>2, <1>5, <1>7, <1>8, <1>11, <1>14, <2>1 DEF Counted, Drained
  <1>19. \A j \in Entries : j # i => Counted(j)'
    BY <1>1, <1>2, <1>5, <1>8, <1>11, <1>13, CountStays
  <1>20. Added'
    BY <1>1, <1>5, <1>11, SumStays
  <1> QED BY <1>5, <1>9, <1>10, <1>11, <1>13, <1>14, <1>15, <1>16, <1>17, <1>18, <1>19, <1>20 DEF ProgInv

(* The end: the threads have ended and no handle is left, so that every    *)
(* queue has been read to its end and its last close has freed it.         *)
LEMMA AllEnded ==
    ASSUME QInv, Running, ProgInv, main.at = "close", main.i \notin Entries
    PROVE  /\ cons.at = "done" /\ \A t \in Threads : At(t) = "idle"
           /\ \A i \in Entries : ConsGone(i) /\ prod[i].at = "done"
           /\ \A s \in Slots : handle[s] = NullHandle
  <1>1. cons.at = "done" /\ \A i \in Entries : prod[i].at = "done"
    BY DEF ProgInv, Started
  <1>2. \A i \in Entries : ConsGone(i)
    <2>1. AllGone = Entries
      BY <1>1 DEF ProgInv, Closed
    <2> QED BY <2>1 DEF AllGone
  <1>3. At(MainThread) = "idle" /\ At(ConsumerThread) = "idle" /\ \A i \in Producers : At(ProducerThreads[i]) = "idle"
    <2>1. \A i \in Entries : At(ProducerThreads[i]) = "idle"
      BY <1>1 DEF ProgInv, ProdPlace
    <2>2. \A i \in Producers \ Entries : At(ProducerThreads[i]) = "idle"
      BY DEF ProgInv, Started
    <2> QED BY <1>1, <2>1, <2>2 DEF ProgInv, MainPlace, ConsPlace
  <1>4. \A t \in Threads : At(t) = "idle"
    BY <1>3, Constants
  <1>5. ASSUME NEW i \in Producers
        PROVE  handle[MainMq[i]] = NullHandle /\ handle[ConsumerMq[i]] = NullHandle /\ handle[ProducerMq[i]] = NullHandle
    <2>1. ~MainHolds(i)
      <3>1. i \in Entries => i \in Nat /\ i <= argv.nprod
        BY MainIs
      <3>2. main.i = argv.nprod + 1 /\ argv.nprod \in Nat
        BY EntriesAre DEF ProgInv
      <3> QED BY <3>1, <3>2 DEF MainHolds
    <2>2. ~ProdHolds(i)
      BY <1>1 DEF ProdHolds
    <2>3. handle[ConsumerMq[i]] = NullHandle
      <3>1. CASE i \in Entries
        BY <1>2, <3>1 DEF ConsGone
      <3>2. CASE i \notin Entries
        BY <3>2 DEF ProgInv, HandlesHeld, ConsMayHold
      <3> QED BY <3>1, <3>2
    <2> QED BY <2>1, <2>2, <2>3 DEF ProgInv, HandlesHeld, Held
  <1>6. ASSUME NEW s \in Slots PROVE handle[s] = NullHandle
    BY <1>5 DEF ProgInv, HandlesHeld
  <1> QED BY <1>1, <1>2, <1>4, <1>6

LEMMA MainExitKeeps ==
    ASSUME QInv, Running, ProgInv, MainExit
    PROVE  ~Running' /\ NothingLost'
  <1>1. /\ main.at = "close" /\ main.i \notin Entries /\ UNCHANGED <<argv, cons, prod, pollVars>>
        /\ main' = [main EXCEPT !.at = IF cons.sum = prod_sum THEN "exit0" ELSE "exit1"]
    BY DEF MainExit
  <1>2. /\ cons.at = "done" /\ \A t \in Threads : At(t) = "idle"
        /\ \A i \in Entries : ConsGone(i) /\ prod[i].at = "done"
        /\ \A s \in Slots : handle[s] = NullHandle
    BY <1>1, AllEnded
  <1>3. \A i \in Entries : Got(i) = argv.nmsgs /\ prod[i].sent = argv.nmsgs /\ Pending(i) = 0
    <2>1. ASSUME NEW i \in Entries PROVE Got(i) = argv.nmsgs /\ prod[i].sent = argv.nmsgs /\ Pending(i) = 0
      <3>1. Counted(i) /\ Put(i) = 0 /\ Pending(i) = 0 /\ argv.nmsgs \in Nat
        BY <1>2, EntriesAre DEF ProgInv, Put, Pending
      <3>2. Got(i) = stored[QueueOf[i]] /\ prod[i].sent = argv.nmsgs
        BY <1>2, <3>1 DEF Counted, Drained
      <3> QED BY <3>1, <3>2 DEF Counted
    <2> QED BY <2>1
  <1>4. cons.sum = prod_sum
    <2>1. argv.nmsgs \in Nat
      BY EntriesAre DEF ProgInv
    <2>2. \A i \in Entries : /\ Numbers(i, Got(i) - Pending(i)) = Numbers(i, argv.nmsgs)
                             /\ {[q |-> QueueOf[i], id |-> k] : k \in 1 .. prod[i].sent} = Numbers(i, argv.nmsgs)
      BY <1>3, <2>1 DEF Numbers
    <2>3. cons.sum = UNION {Numbers(i, Got(i) - Pending(i)) : i \in Entries}
      BY DEF ProgInv, Added
    <2> QED BY <2>2, <2>3 DEF prod_sum
  <1>5. ASSUME NEW i \in Entries PROVE mq[QueueOf[i]].status = "freed"
    <2> DEFINE q == QueueOf[i]
    <2>1. i \in Producers /\ q \in Queues /\ q # None /\ mq[q] \in Backend
      BY EntriesAre, Constants DEF ProgInv, QInv, QueueInv, MemoryInv, TypeOK
    <2>2. QueueKnown(i)
      BY <2>1 DEF ProgInv
    <2>3. mq[q].status # "unborn"
      BY <1>1, <2>2 DEF QueueKnown
    <2>4. ASSUME mq[q].status = "live" PROVE FALSE
      <3>1. Open(q) = {}
        BY <1>2, <2>1 DEF Open, NullHandle
      <3>2. mq[q].refs = 0
        BY <2>1, <2>4, <3>1, FS_EmptySet DEF QInv, QueueInv, MemoryInv, HandleCounts
      <3>3. \A t \in Threads : At(t) # "destroy"
        BY <1>2
      <3> QED BY <2>2, <2>4, <3>2, <3>3 DEF QueueKnown
    <2> QED BY <2>1, <2>3, <2>4 DEF Backend
  <1>6. main'.at = "exit0" /\ Entries' = Entries
    <2>1. [main EXCEPT !.at = "exit0"].at = "exit0"
      BY MainIs
    <2> QED BY <1>1, <1>4, <2>1 DEF Entries
  <1>7. UNCHANGED <<mq, rcvd, argv>>
    BY <1>1 DEF pollVars, vars
  <1>8. \A i \in Entries : Len(rcvd[QueueOf[i]]) = argv.nmsgs
    BY <1>3 DEF Got
  <1> QED BY <1>5, <1>6, <1>7, <1>8 DEF NothingLost, Running, Ends

LEMMA MainKeeps ==
    ASSUME QInv, QInv', Running, ProgInv, MainStep
    PROVE  (Running' => ProgInv') /\ NothingLost'
  <1>1. CASE MainExit
    BY <1>1, MainExitKeeps
  <1>2. CASE ~MainExit
    <2>1. main \in [at : MainLabel, i : 1..(argv.nprod + 1)] /\ main.at \notin {"exit0", "exit1"}
      BY MainIs DEF Running, Ends
    <2>2. main'.at \notin {"exit0", "exit1"}
      <3>1. CASE MainCreate
        BY <2>1, <3>1 DEF MainCreate
      <3>2. CASE MainOpenReaders \/ MainOpenReader \/ MainOpenWriter \/ MainPoll \/ MainClose
        BY <2>1, <3>2 DEF MainOpenReaders, MainOpenReader, MainOpenWriter, MainPoll, MainClose
      <3>3. CASE StartConsumer \/ StartProducer
        BY <2>1, <3>3 DEF StartConsumer, StartProducer
      <3>4. CASE MainPolled \/ MainClosed
        BY <2>1, <3>4 DEF MainPolled, MainClosed, Asserted
      <3> QED BY <1>2, <3>1, <3>2, <3>3, <3>4 DEF MainStep
    <2>3. Running' => ProgInv'
      BY <1>2, MainCreateKeeps, MainOpenReadersKeeps, MainOpenReaderKeeps, StartConsumerKeeps, MainOpenWriterKeeps,
         StartProducerKeeps, MainPollKeeps, MainPolledKeeps, MainCloseKeeps, MainClosedKeeps DEF MainStep
    <2> QED BY <2>2, <2>3 DEF NothingLost
  <1> QED BY <1>1, <1>2

-----------------------------------------------------------------------------
(* The inductive invariant of the program.                                 *)
MultiProdInv == QInv /\ NothingLost /\ (Running => ProgInv)

LEMMA MultiProdBegins == MultiProdInit => MultiProdInv
  <1> SUFFICES ASSUME MultiProdInit PROVE MultiProdInv
    OBVIOUS
  <1>1. Init /\ QInv
    BY PollBegins, FlightInit, NumbersInit DEF MultiProdInit, PollInit, QInv
  <1>2. /\ argv \in Arguments /\ main = [at |-> "create", i |-> 1]
        /\ cons = [at |-> "none", i |-> 1, ready |-> 0, revents |-> <<>>, done |-> 0, sum |-> {}]
        /\ prod = [i \in Entries |-> [at |-> "none", sent |-> 0]]
    BY DEF MultiProdInit
  <1>3. /\ \A t \in Threads : At(t) = "idle" /\ ret[t] = "none"
        /\ \A s \in Slots : handle[s] = NullHandle
        /\ \A q \in Queues : /\ mq[q].status = "unborn" /\ ~mq[q].no_readers /\ ~mq[q].no_writers
                             /\ stored[q] = 0 /\ rcvd[q] = <<>>
    BY <1>1, PhaseIs DEF Init, Unborn, mq_init, At
  <1>4. /\ argv.nprod \in Nat /\ argv.nprod >= 1 /\ argv.nmsgs \in Nat /\ Entries = 1..argv.nprod
        /\ Entries \subseteq Producers
    <2>1. argv.nprod \in Producers /\ argv.nmsgs \in Nat
      BY <1>2, MultiProdAssumption
    <2> QED BY <2>1, Constants DEF Entries
  <1>5. ProgTypes
    <2>1. main \in [at : MainLabel, i : 1..(argv.nprod + 1)]
      BY <1>2, <1>4 DEF MainLabel
    <2>2. cons \in [at : ConsLabel, i : Entries, ready : Int, revents : Seq(SUBSET Event),
                    done : Nat, sum : SUBSET [q : Queues, id : Nat]]
      <3>1. <<>> \in Seq(SUBSET Event) /\ 1 \in Entries
        BY <1>4
      <3> QED BY <1>2, <3>1 DEF ConsLabel
    <2>3. prod \in [Entries -> [at : ProdLabel, sent : 0..argv.nmsgs]]
      BY <1>2, <1>4 DEF ProdLabel
    <2> QED BY <1>2, <2>1, <2>2, <2>3 DEF ProgTypes
  <1>6. \A i \in Producers : /\ i \in Nat /\ i >= 1 /\ ProducerThreads[i] \in Threads /\ QueueOf[i] \in Queues
                             /\ MainMq[i] \in Slots /\ ConsumerMq[i] \in Slots /\ ProducerMq[i] \in Slots
    BY Constants
  <1>7. \A i \in Entries : prod[i].at = "none" /\ prod[i].sent = 0
    BY <1>2
  <1>8. MainPlace /\ ConsPlace /\ (\A i \in Entries : ProdPlace(i)) /\ Started
    BY <1>2, <1>3, <1>4, <1>6, <1>7, Constants DEF MainPlace, ConsPlace, ProdPlace, Started, Waits
  <1>9. \A i \in Producers : ~MainHolds(i) /\ ~ProdHolds(i) /\ ~ConsMayHold(i)
    BY <1>2, <1>6, <1>7 DEF MainHolds, ProdHolds, ConsMayHold
  <1>10. HandlesHeld
    BY <1>3, <1>6, <1>9 DEF HandlesHeld, Held
  <1>11. \A i \in Producers : QueueKnown(i)
    BY <1>2, <1>3, <1>6 DEF QueueKnown
  <1>12. ASSUME NEW i \in Entries PROVE Counted(i) /\ Got(i) = 0 /\ Pending(i) = 0
    <2>1. Got(i) = 0 /\ Pending(i) = 0 /\ Put(i) = 0 /\ ~ConsGone(i) /\ ~SawEof(i)
      BY <1>2, <1>3, <1>4, <1>6, <1>7 DEF Got, Pending, Put, ConsGone, SawEof
    <2>2. stored[QueueOf[i]] = 0
      BY <1>3, <1>4, <1>6
    <2> QED BY <1>7, <2>1, <2>2 DEF Counted
  <1>13. Added
    <2>1. \A i \in Entries : Numbers(i, Got(i) - Pending(i)) = {}
      BY <1>12 DEF Numbers
    <2> QED BY <1>2, <2>1 DEF Added
  <1>14. Closed
    <2>1. AllGone = {}
      BY <1>2 DEF AllGone, ConsGone
    <2> QED BY <1>2, <2>1, FS_EmptySet DEF Closed
  <1>15. ProgInv
    BY <1>5, <1>8, <1>10, <1>11, <1>12, <1>13, <1>14 DEF ProgInv
  <1>16. NothingLost
    BY <1>2 DEF NothingLost
  <1> QED BY <1>1, <1>15, <1>16 DEF MultiProdInv

LEMMA MultiProdKeeps == MultiProdInv /\ [MultiProdNext]_allVars => MultiProdInv'
  <1> SUFFICES ASSUME MultiProdInv, [MultiProdNext]_allVars PROVE MultiProdInv'
    OBVIOUS
  <1>1. CASE UNCHANGED allVars
    <2>1. UNCHANGED <<pollVars, mq, handle, pc, arg, ret, stored, rcvd, argv, main, cons, prod>>
      BY <1>1 DEF allVars, pollVars, vars, progVars
    <2>2. QInv'
      BY <2>1, QueueStep DEF MultiProdInv
    <2>3. NothingLost' /\ (Running' <=> Running)
      BY <2>1 DEF MultiProdInv, NothingLost, Entries, Running, Ends
    <2>4. Running => ProgInv'
      <3>1. DoesNothing
        BY <2>1 DEF DoesNothing, SameQueues, SameCounters, SamePlace, At
      <3> QED BY <2>1, <3>1, NothingKeeps DEF MultiProdInv
    <2> QED BY <2>2, <2>3, <2>4 DEF MultiProdInv
  <1>2. CASE MultiProdNext
    <2>1. QInv /\ Running /\ ProgInv
      BY <1>2 DEF MultiProdNext, MultiProdInv
    <2>2. QInv'
      BY <1>2, <2>1, ProgramCalls, QueueStep DEF ProgInv
    <2>3. main.at \notin {"exit0", "exit1"}
      BY <2>1 DEF Running, Ends
    <2>4. CASE MainStep
      BY <2>1, <2>2, <2>4, MainKeeps DEF MultiProdInv
    <2>5. CASE ConsStep
      BY <2>1, <2>2, <2>3, <2>5, ConsKeeps DEF MultiProdInv, NothingLost
    <2>6. CASE \E i \in Entries : ProdStep(i)
      BY <2>1, <2>2, <2>3, <2>6, ProdKeeps DEF MultiProdInv, NothingLost
    <2>7. CASE \E t \in Threads : CallLock(t) \/ CallStep(t) \/ CallSpurious(t)
      <3>1. main' = main
        BY <2>7 DEF CallLock, CallStep, CallSpurious, progVars
      <3> QED BY <2>1, <2>2, <2>3, <2>7, <3>1, CallKeeps DEF MultiProdInv, NothingLost
    <2> QED BY <1>2, <2>4, <2>5, <2>6, <2>7 DEF MultiProdNext
  <1> QED BY <1>1, <1>2

(* The program multiprod.c loses no message: whatever the number of        *)
(* producers, messages and threads' steps in between, the two sums agree   *)
(* when main compares them, every message sent has then been received, and *)
(* the last close of each queue has freed it.                              *)
THEOREM NoMessageLost == MultiProdSpec => []NothingLost
  <1>1. MultiProdInv => NothingLost
    BY DEF MultiProdInv
  <1> QED BY <1>1, MultiProdBegins, MultiProdKeeps, PTL DEF MultiProdSpec

=============================================================================
