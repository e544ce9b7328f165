---------------------------- MODULE ProdConProofs ---------------------------
(***************************************************************************)
(* The program prodcon.c for every capacity, count and sequence of         *)
(* numbers: no assert fails, nobody sees the other side leave early, and a *)
(* successful exit leaves nothing behind.  The program keeps the callers'  *)
(* part of the theorems about the queue, whose invariants are used here.   *)
(***************************************************************************)
EXTENDS ProdCon, MsgQueueProofs

-----------------------------------------------------------------------------
(* The numbers that are sent, and the places inside a call.                *)
Total == IF argv.count > 0 THEN argv.count ELSE 0
MainLabel == {"start", "created", "opened", "read_count", "got_count", "loop", "got", "close", "closed", "join",
              "exit0", "exit1", "aborted"}
ProdLabel == {"none", "write_count", "wrote_count", "loop", "wrote", "close", "closed", "done", "aborted"}
Sent == stored[TheQueue]
Got == Len(rcvd[TheQueue])
InRead == ReadLabels \cup {"read_wait"}
Closing == {"close_lock", "close"}
Receiving == main.at \in {"got_count", "got"}
Sending == prod.at \in {"wrote_count", "wrote"}

(* Where the threads are in their calls, and what the calls have returned. *)
MainPlace == LET t == MainThread IN
    /\ main.at \in {"start", "created", "read_count", "loop", "join"} => pc[t] = "idle"
    /\ main.at = "opened" => \/ pc[t] \in {"open_lock", "open"} /\ arg[t].flags = {"WRITER"}
                             \/ pc[t] = "idle"
    /\ Receiving => \/ pc[t] \in InRead
                    \/ pc[t] = "wakeup" /\ arg[t].rv = "MSG"
                    \/ pc[t] = "idle" /\ ret[t] = "MSG"
    /\ main.at = "closed" => \/ pc[t] \in Closing \cup {"destroy"}
                             \/ pc[t] = "idle" /\ ret[t] = "OK"
    /\ main.at # "close"

ProdPlace == LET t == ProducerThread IN
    /\ prod.at \in {"none", "write_count", "loop", "done"} => pc[t] = "idle"
    /\ Sending => \/ pc[t] \in WriteLabels
                  \/ pc[t] = "wakeup" /\ arg[t].rv = "OK"
                  \/ pc[t] = "idle" /\ ret[t] = "OK"
                  \/ /\ pc[t] = "idle" /\ ret[t] = "EMSGSIZE"
                     /\ prod.at = "wrote_count" /\ ~LargeEnough
    /\ prod.at = "closed" => \/ pc[t] \in Closing \cup {"destroy"}
                             \/ pc[t] = "idle" /\ ret[t] = "OK"
    /\ prod.at # "close"
    /\ prod.at = "none" <=> main.at \in {"start", "created", "opened"}

(* Who has a handle, and the queue behind the handles.                     *)
HoldsReader == \/ main.at \in {"opened", "read_count", "got_count", "loop", "got"}
               \/ main.at = "created" /\ ret[MainThread] = "OK"
               \/ main.at = "closed" /\ pc[MainThread] \in Closing
HoldsWriter == \/ prod.at \in {"write_count", "wrote_count", "loop", "wrote"}
               \/ main.at = "opened" /\ pc[MainThread] = "idle"
               \/ prod.at = "closed" /\ pc[ProducerThread] \in Closing
HandlesHeld ==
    /\ handle[MainQueue] = IF HoldsReader THEN [q |-> TheQueue, flags |-> {"READER"}] ELSE NullHandle
    /\ handle[ContextQueue] = IF HoldsWriter THEN [q |-> TheQueue, flags |-> {"WRITER"}] ELSE NullHandle

QueueKnown == LET b == mq[TheQueue] IN
    /\ b.status = "unborn" <=> main.at = "start" \/ (main.at = "created" /\ ret[MainThread] # "OK")
    /\ b.status # "unborn" => b.size = argv.capacity
    /\ b.status = "live" => HoldsReader \/ HoldsWriter \/ \E t \in Threads : pc[t] = "destroy"
    /\ \A t \in Threads : pc[t] = "destroy" => arg[t].q = TheQueue

(* How many numbers have been sent and received.                           *)
Took == IF Receiving /\ pc[MainThread] \notin InRead THEN 1 ELSE 0
Put == IF /\ Sending /\ pc[ProducerThread] \notin WriteLabels
          /\ pc[ProducerThread] = "idle" => ret[ProducerThread] = "OK" THEN 1 ELSE 0
Counted ==
    /\ Got = Took + (IF main.at \in {"loop", "got", "closed", "join"} THEN main.i + 1 ELSE 0)
    /\ Sent = Put + (IF prod.at \in {"loop", "wrote", "closed", "done"} THEN prod.i + 1 ELSE 0)
    /\ Sent > 0 => LargeEnough
    /\ main.i <= Total /\ prod.i <= Total
    /\ main.at \notin {"loop", "got", "closed", "join"} => main.i = 0
    /\ prod.at \notin {"loop", "wrote", "closed", "done"} => prod.i = 0
    /\ main.at \in {"loop", "got", "closed", "join"} => main.count = argv.count
    /\ main.at = "got" => main.i < Total
    /\ prod.at = "wrote" => prod.i < Total
    /\ main.at \in {"closed", "join"} => main.i = Total
    /\ prod.at \in {"closed", "done"} => prod.i = Total

(* The numbers in the queue and the sums.                                  *)
Added ==
    /\ Len(data) = Sent
    /\ Sent > 0 => data[1] = argv.count
    /\ prod.at = "wrote_count" => prod.number = argv.count
    /\ prod.at = "wrote" /\ pc[ProducerThread] \notin WriteLabels => data[prod.i + 2] = prod.number

(* s is the sum of the first k numbers, at each k.                         *)
Sums == \E s \in [Nat -> Int] :
    /\ s[0] = 0 /\ \A k \in 1..Len(data) - 1 : s[k] = s[k - 1] + data[k + 1]
    /\ main.sum = s[main.i] /\ prod.sum = s[prod.i]

ProgTypes ==
    /\ argv \in [capacity : Capacities, count : Counts]
    /\ main \in [at : MainLabel, count : Int, i : Nat, sum : Int, broken : {FALSE}]
    /\ prod \in [at : ProdLabel, number : Int, i : Nat, sum : Int, broken : {FALSE}]
    /\ data \in Seq(Int)

(* The invariant: the queue keeps its promises, and while the program runs *)
(* both threads are where their calls have left them.                      *)
QueueInv == MemoryInv /\ ChannelInv /\ IdsInv /\ NumbersInv
ProgInv == /\ ProgTypes /\ MainPlace /\ ProdPlace /\ HandlesHeld /\ QueueKnown
           /\ Counted /\ Added /\ Sums
Promised == AssertsHold /\ NoBrokenPipe /\ CleanExit
ProdConInv == QueueInv /\ Promised /\ (Running => ProgInv)

-----------------------------------------------------------------------------
(* The program keeps the part of a caller of the queue.                    *)
LEMMA Constants ==
    /\ Threads = {MainThread, ProducerThread} /\ MainThread # ProducerThread
    /\ Slots = {MainQueue, ContextQueue} /\ MainQueue # ContextQueue
    /\ SlotOwner[MainQueue] = MainThread /\ SlotOwner[ContextQueue] = ProducerThread
    /\ TheQueue \in Queues /\ IntSize \in Nat /\ IntSize # 0 /\ SizeT \in Nat
    /\ TheQueue # None /\ MainQueue # None /\ ContextQueue # None
    /\ WriteLens = {IntSize} /\ Needed(IntSize) = SizeT + IntSize
  <1>1. WriteLens = {IntSize}
    BY ProdConAssumption, ProdConCalls DEF WriteLens, Transfer
  <1>2. Needed(IntSize) = SizeT + IntSize
    BY ProdConAssumption, SizeAssumption DEF Needed
  <1>3. TheQueue # None /\ MainQueue # None /\ ContextQueue # None
    BY ProdConAssumption, NoneAssumption
  <1> QED BY <1>1, <1>2, <1>3, ProdConAssumption, SizeAssumption

LEMMA KeepsPart == ReadersHaveRoom /\ LengthsDontWrap
  BY ProdConAssumption, ProdConCalls, SizeAssumption DEF ReadersHaveRoom, LengthsDontWrap, Transfer

LEMMA ProgramCalls ==
    ASSUME ProgTypes, ProdConNext
    PROVE  [Next]_vars
  <1>1. Creation(argv.capacity) \in CreateCalls
    BY ProdConCalls DEF ProgTypes
  <1>2. CASE MainStep
    BY <1>1, <1>2, ProdConCalls
       DEF MainStep, MainCreate, MainOpen, pthread_create, MainReadCount, MainGotCount, MainRead, MainGot,
           MainClose, MainClosed, pthread_join, Next, Call
  <1>3. CASE ProdStep
    BY <1>3, ProdConCalls
       DEF ProdStep, ProdWriteCount, ProdWroteCount, ProdWrite, ProdWrote, ProdClose, ProdClosed, Next, Call
  <1>4. CASE \E t \in Threads : CallLock(t) \/ CallStep(t) \/ CallSpurious(t)
    BY <1>4 DEF CallLock, CallStep, CallSpurious, Next
  <1> QED BY <1>2, <1>3, <1>4 DEF ProdConNext

LEMMA QueueStep == ASSUME QueueInv, [Next]_vars PROVE QueueInv'
  <1>1. MemoryInv' /\ ChannelInv' /\ IdsInv' /\ [Channel!ChannelNext]_(Channel!channelVars)
    BY KeepsPart, MemoryStep, ChannelStep, FlightStep DEF QueueInv
  <1> QED BY <1>1, NumbersStep DEF QueueInv

(* The statement that a thread inside a call has made it at.               *)
LEMMA MainLabels ==
    ASSUME Running, ProgInv
    PROVE  LET t == MainThread IN
           /\ pc[t] \in {"idle", "open_lock", "open", "destroy", "wakeup"} \cup Closing \cup InRead
           /\ pc[t] \in InRead \cup {"wakeup"} => Receiving
           /\ pc[t] \in {"open_lock", "open"} => main.at = "opened" /\ arg[t].flags = {"WRITER"}
           /\ pc[t] \in Closing \cup {"destroy"} => main.at = "closed"
           /\ pc[t] = "wakeup" => arg[t].rv = "MSG"
  <1>1. main.at \in MainLabel
    BY DEF ProgInv, ProgTypes
  <1> QED BY <1>1 DEF ProgInv, MainPlace, Running, MainLabel, Receiving, InRead, ReadLabels, Closing

LEMMA ProdLabels ==
    ASSUME Running, ProgInv
    PROVE  LET t == ProducerThread IN
           /\ pc[t] \in {"idle", "destroy", "wakeup"} \cup Closing \cup WriteLabels
           /\ pc[t] \in WriteLabels \cup {"wakeup"} => Sending
           /\ pc[t] \in Closing \cup {"destroy"} => prod.at = "closed"
           /\ pc[t] = "wakeup" => arg[t].rv = "OK"
  <1>1. prod.at \in ProdLabel
    BY DEF ProgInv, ProgTypes
  <1> QED BY <1>1 DEF ProgInv, ProdPlace, Running, ProdLabel, Sending, WriteLabels, Closing

(* The call a thread is in: its variable, queue and flags.                 *)
LEMMA MainCall ==
    ASSUME QueueInv, Running, ProgInv, pc[MainThread] \notin {"idle", "destroy"}
    PROVE  LET t == MainThread IN
           /\ arg[t].q = TheQueue /\ arg[t].slot = MainQueue /\ HoldsReader
           /\ pc[t] \in {"open_lock", "open"} => arg[t].dst = ContextQueue
           /\ pc[t] \notin {"open_lock", "open"} => arg[t].flags = {"READER"}
  <1> DEFINE t == MainThread
  <1>1. pc[t] \notin {"idle"} \cup PollLabels /\ t \in Threads
    BY MainLabels, Constants DEF PollLabels, InRead, ReadLabels, Closing
  <1>2. arg[t].q \in Queues /\ arg[t].q # None
    BY <1>1, InCall, NoneAssumption DEF QueueInv
  <1>3. arg[t].slot = MainQueue /\ handle[MainQueue].q = arg[t].q
        /\ (arg[t].dst = None => handle[MainQueue].flags = arg[t].flags)
    BY <1>1, <1>2, CallSlot, Constants DEF QueueInv
  <1>4. HoldsReader /\ handle[MainQueue] = [q |-> TheQueue, flags |-> {"READER"}]
    BY <1>2, <1>3 DEF ProgInv, HandlesHeld, NullHandle
  <1>5. arg[t].dst # None <=> pc[t] \in {"open_lock", "open"}
    BY <1>1 DEF QueueInv, MemoryInv, CallInv
  <1>6. arg[t].dst # None => arg[t].dst = ContextQueue
    <2>1. arg[t].dst \in Slots \cup {None}
      BY <1>1 DEF QueueInv, MemoryInv, TypeOK, Arg
    <2>2. arg[t].dst # None => handle[arg[t].dst] = NullHandle
      BY <1>1 DEF QueueInv, MemoryInv, CallInv
    <2>3. handle[MainQueue] # NullHandle
      BY <1>2, <1>3 DEF NullHandle
    <2> QED BY <2>1, <2>2, <2>3, Constants
  <1> QED BY <1>3, <1>4, <1>5, <1>6

LEMMA ProdCall ==
    ASSUME QueueInv, Running, ProgInv, pc[ProducerThread] \notin {"idle", "destroy"}
    PROVE  LET t == ProducerThread IN
           /\ arg[t].q = TheQueue /\ arg[t].slot = ContextQueue /\ HoldsWriter
           /\ arg[t].flags = {"WRITER"}
  <1> DEFINE t == ProducerThread
  <1>1. /\ pc[t] \notin {"idle"} \cup PollLabels /\ t \in Threads
        /\ pc[t] \notin {"open_lock", "open"}
    BY ProdLabels, Constants DEF PollLabels, WriteLabels, Closing
  <1>2. arg[t].q \in Queues /\ arg[t].q # None
    BY <1>1, InCall, NoneAssumption DEF QueueInv
  <1>3. arg[t].dst = None
    BY <1>1 DEF QueueInv, MemoryInv, CallInv
  <1>4. arg[t].slot = ContextQueue /\ handle[ContextQueue].q = arg[t].q
        /\ handle[ContextQueue].flags = arg[t].flags
    BY <1>1, <1>2, <1>3, CallSlot, Constants DEF QueueInv
  <1>5. HoldsWriter /\ handle[ContextQueue] = [q |-> TheQueue, flags |-> {"WRITER"}]
    BY <1>2, <1>4 DEF ProgInv, HandlesHeld, NullHandle
  <1> QED BY <1>4, <1>5

(* A handle that is open keeps the queue from telling that its side has    *)
(* gone.                                                                   *)
LEMMA SidesOpen ==
    ASSUME QueueInv, ProgInv
    PROVE  /\ HoldsReader => mq[TheQueue].status = "live" /\ ~mq[TheQueue].no_readers
           /\ HoldsWriter => mq[TheQueue].status = "live" /\ ~mq[TheQueue].no_writers
  <1> DEFINE b == mq[TheQueue]
  <1>1. ASSUME NEW s \in Slots, NEW f \in Flag, handle[s] = [q |-> TheQueue, flags |-> {f}]
        PROVE  /\ b.status = "live" /\ Cardinality(OpenFor(TheQueue, f)) # 0
    <2>1. handle[s] # NullHandle /\ handle[s].q = TheQueue /\ f \in handle[s].flags
      BY <1>1, Constants DEF NullHandle
    <2>2. s \in OpenFor(TheQueue, f)
      BY <2>1 DEF OpenFor, Open
    <2>3. b.status = "live"
      BY <2>1 DEF QueueInv, MemoryInv, NoUseAfterFree
    <2> QED BY <2>2, <2>3, OpenFinite, FS_EmptySet
  <1>2. b.status = "live" =>
            /\ b.readers = Cardinality(OpenFor(TheQueue, "READER")) /\ (b.no_readers => b.readers = 0)
            /\ b.writers = Cardinality(OpenFor(TheQueue, "WRITER")) /\ (b.no_writers => b.writers = 0)
    BY Constants DEF QueueInv, MemoryInv, HandleCounts
  <1>3. ASSUME HoldsReader PROVE b.status = "live" /\ ~b.no_readers
    <2>1. handle[MainQueue] = [q |-> TheQueue, flags |-> {"READER"}]
      BY <1>3 DEF ProgInv, HandlesHeld
    <2> QED BY <1>1, <1>2, <2>1, Constants DEF Flag
  <1>4. ASSUME HoldsWriter PROVE b.status = "live" /\ ~b.no_writers
    <2>1. handle[ContextQueue] = [q |-> TheQueue, flags |-> {"WRITER"}]
      BY <1>4 DEF ProgInv, HandlesHeld
    <2> QED BY <1>1, <1>2, <2>1, Constants DEF Flag
  <1> QED BY <1>3, <1>4

-----------------------------------------------------------------------------
(* Steps inside a call that return nothing, move no message and touch no   *)
(* handle leave the program where it was.                                  *)
SamePlace(t) ==
    /\ ret'[t] = ret[t]
    /\ \/ pc'[t] = pc[t] /\ arg'[t] = arg[t]
       \/ pc[t] \in InRead /\ pc'[t] \in InRead
       \/ pc[t] \in WriteLabels /\ pc'[t] \in WriteLabels
       \/ pc[t] \in {"open_lock", "open"} /\ pc'[t] \in {"open_lock", "open"} /\ arg'[t] = arg[t]
       \/ pc[t] \in Closing /\ pc'[t] \in Closing

LEMMA LabelSets ==
    /\ InRead \cap WriteLabels = {}
    /\ \A l \in {"idle", "wakeup", "destroy", "open_lock", "open", "close_lock", "close"} :
          l \notin InRead /\ l \notin WriteLabels
    /\ Closing = {"close_lock", "close"}
  BY DEF InRead, ReadLabels, WriteLabels, Closing

(* What a thread's place in its call says about the program.               *)
LEMMA SamePlaceOf ==
    ASSUME NEW t, SamePlace(t)
    PROVE  /\ pc'[t] = "idle" <=> pc[t] = "idle"
           /\ pc'[t] = "wakeup" <=> pc[t] = "wakeup"
           /\ pc'[t] = "destroy" <=> pc[t] = "destroy"
           /\ pc'[t] \in InRead <=> pc[t] \in InRead
           /\ pc'[t] \in WriteLabels <=> pc[t] \in WriteLabels
           /\ pc'[t] \in Closing <=> pc[t] \in Closing
           /\ pc'[t] \in {"open_lock", "open"} <=> pc[t] \in {"open_lock", "open"}
           /\ pc[t] \in {"wakeup", "destroy", "open_lock", "open"} => arg'[t] = arg[t]
           /\ ret'[t] = ret[t]
  BY LabelSets DEF SamePlace

Unmoved == /\ UNCHANGED <<progVars, handle, stored, rcvd>>
           /\ mq'[TheQueue].status = mq[TheQueue].status /\ mq'[TheQueue].size = mq[TheQueue].size
           /\ \A t \in Threads : SamePlace(t)

LEMMA UnmovedInv == ASSUME Running, ProgInv, Unmoved PROVE Running' /\ ProgInv'
  <1> DEFINE M == MainThread  P == ProducerThread
  <1>1. UNCHANGED <<argv, main, prod, data, handle, stored, rcvd>>
    BY DEF Unmoved, progVars
  <1>2. /\ M \in Threads /\ P \in Threads /\ SamePlace(M) /\ SamePlace(P)
    BY Constants DEF Unmoved
  <1>3. Running' /\ ProgTypes'
    BY <1>1 DEF Running, ProgInv, ProgTypes
  <1>4. /\ pc'[M] = "idle" <=> pc[M] = "idle"
        /\ pc'[M] = "wakeup" <=> pc[M] = "wakeup"
        /\ pc'[M] = "destroy" <=> pc[M] = "destroy"
        /\ pc'[M] \in InRead <=> pc[M] \in InRead
        /\ pc'[M] \in Closing <=> pc[M] \in Closing
        /\ pc'[M] \in {"open_lock", "open"} <=> pc[M] \in {"open_lock", "open"}
        /\ pc[M] \in {"wakeup", "destroy", "open_lock", "open"} => arg'[M] = arg[M]
        /\ ret'[M] = ret[M]
    BY <1>2, SamePlaceOf
  <1>5. /\ pc'[P] = "idle" <=> pc[P] = "idle"
        /\ pc'[P] = "wakeup" <=> pc[P] = "wakeup"
        /\ pc'[P] = "destroy" <=> pc[P] = "destroy"
        /\ pc'[P] \in WriteLabels <=> pc[P] \in WriteLabels
        /\ pc'[P] \in Closing <=> pc[P] \in Closing
        /\ pc[P] \in {"wakeup", "destroy", "open_lock", "open"} => arg'[P] = arg[P]
        /\ ret'[P] = ret[P]
    BY <1>2, SamePlaceOf
  <1>6. MainPlace'
    BY <1>1, <1>4 DEF ProgInv, MainPlace, Receiving
  <1>7. ProdPlace'
    BY <1>1, <1>5 DEF ProgInv, ProdPlace, Sending, LargeEnough
  <1>8. (HoldsReader' <=> HoldsReader) /\ (HoldsWriter' <=> HoldsWriter)
    BY <1>1, <1>4, <1>5 DEF HoldsReader, HoldsWriter
  <1>9. HandlesHeld'
    BY <1>1, <1>8 DEF ProgInv, HandlesHeld
  <1>10. QueueKnown'
    <2>1. mq'[TheQueue].status = mq[TheQueue].status /\ mq'[TheQueue].size = mq[TheQueue].size
      BY DEF Unmoved
    <2>2. \A t \in Threads : (pc'[t] = "destroy" <=> pc[t] = "destroy") /\ (pc[t] = "destroy" => arg'[t] = arg[t])
      BY <1>4, <1>5, Constants
    <2> QED BY <1>1, <1>4, <1>8, <2>1, <2>2 DEF ProgInv, QueueKnown
  <1>11. Took' = Took /\ Put' = Put
    BY <1>1, <1>4, <1>5 DEF Took, Put, Receiving, Sending
  <1>12. Counted'
    BY <1>1, <1>11 DEF ProgInv, Counted, Got, Sent, Total, LargeEnough
  <1>13. Added' /\ Sums'
    BY <1>1, <1>5 DEF ProgInv, Added, Sums, Sent
  <1> QED BY <1>3, <1>6, <1>7, <1>9, <1>10, <1>12, <1>13 DEF ProgInv

-----------------------------------------------------------------------------
(* The steps of a call under the mutex, seen from the program.             *)
LEMMA RunningPromised == ASSUME Running, ProgInv PROVE Promised
  BY DEF ProgInv, ProgTypes, Running, Promised, AssertsHold, NoBrokenPipe, CleanExit

LEMMA InCriticalStep ==
    ASSUME QueueInv, Running, ProgInv, NEW t \in Threads, NEW label, CriticalStep(t, label),
           \A u \in Threads \ {t} : ret'[u] = ret[u]
    PROVE  /\ arg[t].q = TheQueue /\ pc'[t] = label
           /\ mq'[TheQueue].status = mq[TheQueue].status /\ mq'[TheQueue].size = mq[TheQueue].size
           /\ \A u \in Threads \ {t} : SamePlace(u)
  <1>1. pc[t] \notin {"idle", "destroy"}
    BY DEF CriticalStep, Critical
  <1>2. arg[t].q = TheQueue
    BY <1>1, MainCall, ProdCall, Constants
  <1>3. ASSUME NEW u \in Threads \ {t} PROVE SamePlace(u)
    <2>1. arg'[u] = arg[u] /\ Woken(pc[u], pc'[u])
      BY DEF CriticalStep, Others
    <2> QED BY <2>1 DEF Woken, SamePlace, InRead, ReadLabels, WriteLabels
  <1> QED BY <1>2, <1>3 DEF CriticalStep

(* A step of a call with all its effects on the program.                   *)
LEMMA FrameInv ==
    ASSUME Running, ProgInv, UNCHANGED <<argv, main, prod, handle>>, data' \in Seq(Int),
           mq'[TheQueue].status = mq[TheQueue].status, mq'[TheQueue].size = mq[TheQueue].size,
           \A t \in Threads : (pc'[t] = "destroy" <=> pc[t] = "destroy")
                              /\ (pc[t] = "destroy" => arg'[t] = arg[t]),
           HoldsReader' <=> HoldsReader, HoldsWriter' <=> HoldsWriter,
           ret'[MainThread] = ret[MainThread] \/ main.at # "created",
           MainPlace', ProdPlace', Counted', Added', Sums'
    PROVE  Running' /\ ProgInv'
  <1>1. Running' /\ ProgTypes'
    BY DEF Running, ProgInv, ProgTypes
  <1>2. HandlesHeld'
    BY DEF ProgInv, HandlesHeld
  <1>3. QueueKnown'
    BY DEF ProgInv, QueueKnown
  <1> QED BY <1>1, <1>2, <1>3 DEF ProgInv

LEMMA UnmovedCritical ==
    ASSUME QueueInv, Running, ProgInv, NEW t \in Threads, NEW label, CriticalStep(t, label),
           UNCHANGED <<argv, main, prod, data, handle, stored, rcvd, ret>>,
           \/ pc[t] \in InRead /\ label \in InRead
           \/ pc[t] \in WriteLabels /\ label \in WriteLabels
    PROVE  Running' /\ ProgInv'
  <1>1. /\ pc'[t] = label
        /\ mq'[TheQueue].status = mq[TheQueue].status /\ mq'[TheQueue].size = mq[TheQueue].size
        /\ \A u \in Threads \ {t} : SamePlace(u)
    BY InCriticalStep
  <1>2. SamePlace(t)
    BY <1>1 DEF SamePlace
  <1>3. Unmoved
    BY <1>1, <1>2 DEF Unmoved, progVars
  <1> QED BY <1>3, UnmovedInv

LEMMA SameStored ==
    ASSUME Stores, stored' = stored
    PROVE  data' = data
  BY DEF Stores

LEMMA WaitSteps ==
    ASSUME QueueInv, QueueInv', Running, ProgInv, NEW t \in Threads, Stores, UNCHANGED <<argv, main, prod>>,
           ReadEmpty(t) \/ ReadPeek(t) \/ ReadHeader(t) \/ WriteWait(t)
    PROVE  Running' /\ ProgInv'
  <1> USE DEF QueueInv
  <1>1. UNCHANGED <<handle, stored, rcvd>>
    BY DEF ReadEmpty, ReadPeek, ReadHeader, WriteWait
  <1>2. data' = data
    BY <1>1, SameStored
  <1>3. CASE ReadPeek(t)
    <2>1. CriticalStep(t, "take") /\ pc[t] = "read" /\ ret' = ret
      BY <1>3, PeekChannel, KeepsPart DEF ReadPeek
    <2> QED BY <1>1, <1>2, <2>1, UnmovedCritical DEF InRead, ReadLabels
  <1>4. CASE ReadHeader(t)
    <2>1. CriticalStep(t, "take_body") /\ pc[t] = "take" /\ ret' = ret
      BY <1>4, HeaderChannel DEF ReadHeader
    <2> QED BY <1>1, <1>2, <2>1, UnmovedCritical DEF InRead, ReadLabels
  <1>5. CASE WriteWait(t)
    <2>1. CriticalStep(t, "write_wait") /\ pc[t] \in {"write", "write_loop"} /\ ret' = ret
      BY <1>5, WaitChannel, KeepsPart DEF WriteWait, Accepted
    <2> QED BY <1>1, <1>2, <2>1, UnmovedCritical DEF WriteLabels
  <1>6. CASE ReadEmpty(t)
    <2>1. pc[t] = "read"
      BY <1>6 DEF ReadEmpty
    <2>2. t = MainThread
      BY <2>1, ProdLabels, Constants DEF Closing, WriteLabels
    <2>3. "NONBLOCK" \notin arg[t].flags
      BY <2>1, <2>2, MainCall
    <2>4. ret' = ret /\ pc' = [pc EXCEPT ![t] = "read_wait"]
      BY <1>6, <2>3 DEF ReadEmpty
    <2>5. pc'[t] = "read_wait"
      BY <2>4 DEF MemoryInv, TypeOK
    <2>6. CriticalStep(t, "read_wait")
      BY <1>6, <2>5, EmptyChannel DEF CriticalStep
    <2> QED BY <1>1, <1>2, <2>1, <2>4, <2>6, UnmovedCritical DEF InRead, ReadLabels
  <1> QED BY <1>3, <1>4, <1>5, <1>6

LEMMA OutsideSteps ==
    ASSUME QueueInv, Running, ProgInv, NEW t \in Threads, Lock(t) \/ SpuriousWakeup(t), UNCHANGED progVars
    PROVE  Running' /\ ProgInv'
  <1>1. pc \in [Threads -> Label] /\ mq \in [Queues -> Backend]
    BY DEF QueueInv, MemoryInv, TypeOK
  <1>2. UNCHANGED <<handle, stored, rcvd, arg, ret>>
    BY DEF Lock, SpuriousWakeup
  <1>3. mq'[TheQueue].status = mq[TheQueue].status /\ mq'[TheQueue].size = mq[TheQueue].size
    <2>1. mq[TheQueue] \in Backend
      BY <1>1, Constants
    <2>2. CASE Lock(t)
      <3>1. mq'[TheQueue] = mq[TheQueue] \/ mq'[TheQueue] = [mq[TheQueue] EXCEPT !.mutex = t]
        BY <1>1, <2>2, Constants DEF Lock
      <3> QED BY <2>1, <3>1 DEF Backend
    <2>3. CASE SpuriousWakeup(t)
      BY <2>3 DEF SpuriousWakeup
    <2> QED BY <2>2, <2>3
  <1>4. \A u \in Threads : SamePlace(u)
    <2> SUFFICES ASSUME NEW u \in Threads PROVE SamePlace(u)
      OBVIOUS
    <2>1. CASE Lock(t)
      BY <1>1, <1>2, <2>1
         DEF Lock, SamePlace, LockLabels, Locked, InRead, ReadLabels, WriteLabels, Closing
    <2>2. CASE SpuriousWakeup(t)
      BY <1>1, <1>2, <2>2 DEF SpuriousWakeup, SamePlace, InRead, ReadLabels, WriteLabels
    <2> QED BY <2>1, <2>2
  <1>5. Unmoved
    BY <1>2, <1>3, <1>4 DEF Unmoved
  <1> QED BY <1>5, UnmovedInv

LEMMA NoEof ==
    ASSUME QueueInv, QueueInv', Running, ProgInv, NEW t \in Threads
    PROVE  ~ReadEof(t)
  <1> USE DEF QueueInv
  <1> SUFFICES ASSUME ReadEof(t) PROVE FALSE
    OBVIOUS
  <1>1. pc[t] = "read" /\ mq[arg[t].q].buf = <<>> /\ mq[arg[t].q].no_writers
    BY EofChannel DEF ReadEof
  <1>2. t = MainThread /\ arg[t].q = TheQueue
    BY <1>1, ProdLabels, MainCall, Constants DEF Closing, WriteLabels
  <1>3. Receiving /\ Took = 0
    BY <1>1, <1>2, MainLabels DEF Took, InRead, ReadLabels
  <1>4. ~HoldsWriter
    BY <1>1, <1>2, SidesOpen
  <1>5. prod.at \in {"closed", "done"}
    BY <1>3, <1>4 DEF Receiving, HoldsWriter, ProgInv, ProgTypes, ProdLabel, ProdPlace, Running
  <1>6. Put = 0
    BY <1>5 DEF Put, Sending
  <1>7. Sent = Total + 1 /\ Total \in Nat
    BY <1>5, <1>6, ProdConAssumption DEF ProgInv, Counted, Total, ProgTypes
  <1>8. Got < Total + 1
    BY <1>3, <1>7 DEF ProgInv, Counted, ProgTypes, Receiving, Total
  <1>9. Sent + 1 = Got + 1 /\ Sent \in Nat /\ Got \in Nat
    <2>1. First(mq[TheQueue].buf, stored[TheQueue]) = Len(rcvd[TheQueue]) + 1 /\ Len(rcvd[TheQueue]) \in Nat
      BY Constants DEF NumbersInv
    <2> QED BY <1>1, <1>2, <2>1, Constants DEF First, Sent, Got, MemoryInv, TypeOK
  <1> QED BY <1>7, <1>8, <1>9

(* The writer handle that main opens for the producer.                     *)
LEMMA OpenStep ==
    ASSUME QueueInv, QueueInv', Running, ProgInv, NEW t \in Threads, OpenBody(t), Stores,
           UNCHANGED <<argv, main, prod>>
    PROVE  Running' /\ ProgInv'
  <1> USE DEF QueueInv
  <1> DEFINE P == ProducerThread
  <1>1. UNCHANGED <<stored, rcvd>> /\ pc[t] = "open" /\ ret' = [ret EXCEPT ![t] = "OK"]
    BY DEF OpenBody, Leave
  <1>2. data' = data
    BY <1>1, SameStored
  <1>3. t = MainThread
    BY <1>1, ProdLabels, Constants DEF Closing, WriteLabels
  <1>4. main.at = "opened" /\ prod.at = "none" /\ pc[P] = "idle"
    BY <1>1, <1>3, MainLabels DEF ProgInv, ProdPlace
  <1>5. arg[t].q = TheQueue /\ arg[t].slot = MainQueue /\ arg[t].dst = ContextQueue /\ arg[t].flags = {"WRITER"}
    BY <1>1, <1>3, MainCall, MainLabels
  <1>6. CriticalStep(t, "idle")
    BY OpenChannel
  <1>7. /\ pc'[t] = "idle" /\ SamePlace(P)
        /\ mq'[TheQueue].status = mq[TheQueue].status /\ mq'[TheQueue].size = mq[TheQueue].size
    <2>1. \A u \in Threads \ {t} : ret'[u] = ret[u]
      BY <1>1 DEF MemoryInv, TypeOK
    <2> QED BY <1>3, <1>6, <2>1, InCriticalStep, Constants
  <1>8. pc'[P] = "idle" /\ ret'[t] = "OK"
    BY <1>1, <1>4, <1>7, SamePlaceOf DEF MemoryInv, TypeOK
  <1>9. HoldsReader /\ HoldsReader' /\ ~HoldsWriter /\ HoldsWriter'
    BY <1>1, <1>3, <1>4, <1>7, <1>8 DEF HoldsReader, HoldsWriter
  <1>10. HandlesHeld'
    <2>1. handle' = [handle EXCEPT ![ContextQueue] = [q |-> TheQueue, flags |-> {"WRITER"}]]
      BY <1>5 DEF OpenBody
    <2> QED BY <1>9, <2>1, Constants DEF ProgInv, HandlesHeld, MemoryInv, TypeOK
  <1>11. Running' /\ ProgTypes'
    BY <1>2 DEF Running, ProgInv, ProgTypes
  <1>12. MainPlace'
    BY <1>3, <1>4, <1>7, <1>8 DEF MainPlace, Receiving
  <1>13. ProdPlace'
    BY <1>4, <1>8 DEF ProdPlace, Sending
  <1>14. QueueKnown'
    BY <1>3, <1>4, <1>7, <1>8, <1>9, Constants DEF ProgInv, QueueKnown
  <1>15. Took' = Took /\ Put' = Put
    BY <1>4 DEF Took, Put, Receiving, Sending
  <1>16. Counted'
    BY <1>1, <1>15 DEF ProgInv, Counted, Got, Sent, Total, LargeEnough
  <1>17. Added' /\ Sums'
    BY <1>1, <1>2, <1>4 DEF ProgInv, Added, Sums, Sent
  <1> QED BY <1>10, <1>11, <1>12, <1>13, <1>14, <1>16, <1>17 DEF ProgInv

(* A thread that stays in its place while the other goes on.               *)
LEMMA MainStays ==
    ASSUME ProgInv, main' = main, SamePlace(MainThread)
    PROVE  MainPlace' /\ Took' = Took
  <1> DEFINE M == MainThread
  <1>1. /\ pc'[M] = "idle" <=> pc[M] = "idle"
        /\ pc'[M] = "wakeup" <=> pc[M] = "wakeup"
        /\ pc'[M] = "destroy" <=> pc[M] = "destroy"
        /\ pc'[M] \in InRead <=> pc[M] \in InRead
        /\ pc'[M] \in Closing <=> pc[M] \in Closing
        /\ pc'[M] \in {"open_lock", "open"} <=> pc[M] \in {"open_lock", "open"}
        /\ pc[M] \in {"wakeup", "destroy", "open_lock", "open"} => arg'[M] = arg[M]
        /\ ret'[M] = ret[M]
    BY SamePlaceOf
  <1>2. MainPlace'
    BY <1>1 DEF ProgInv, MainPlace, Receiving
  <1>3. Took' = Took
    BY <1>1 DEF Took, Receiving
  <1> QED BY <1>2, <1>3

LEMMA ProdStays ==
    ASSUME ProgInv, argv' = argv, prod' = prod, SamePlace(ProducerThread),
           main'.at \in {"start", "created", "opened"} <=> main.at \in {"start", "created", "opened"}
    PROVE  ProdPlace' /\ Put' = Put
  <1> DEFINE P == ProducerThread
  <1>1. /\ pc'[P] = "idle" <=> pc[P] = "idle"
        /\ pc'[P] = "wakeup" <=> pc[P] = "wakeup"
        /\ pc'[P] = "destroy" <=> pc[P] = "destroy"
        /\ pc'[P] \in WriteLabels <=> pc[P] \in WriteLabels
        /\ pc'[P] \in Closing <=> pc[P] \in Closing
        /\ pc[P] \in {"wakeup", "destroy", "open_lock", "open"} => arg'[P] = arg[P]
        /\ ret'[P] = ret[P]
    BY SamePlaceOf
  <1>2. ProdPlace'
    BY <1>1 DEF ProgInv, ProdPlace, Sending, LargeEnough
  <1>3. Put' = Put
    BY <1>1 DEF Put, Sending
  <1> QED BY <1>2, <1>3

(* What a close changes.                                                   *)
LEMMA CloseEffect ==
    ASSUME QueueInv, QueueInv', Running, ProgInv, NEW t \in Threads, CloseBody(t)
    PROVE  /\ pc[t] = "close" /\ UNCHANGED <<stored, rcvd>>
           /\ mq'[TheQueue].status = mq[TheQueue].status /\ mq'[TheQueue].size = mq[TheQueue].size
           /\ mq[TheQueue].status = "live"
           /\ \A u \in Threads \ {t} : SamePlace(u)
           /\ handle' = [handle EXCEPT ![arg[t].slot] = NullHandle]
           /\ \/ pc'[t] = "destroy" /\ arg'[t].q = TheQueue /\ mq'[TheQueue].refs = 0
              \/ pc'[t] = "idle" /\ ret'[t] = "OK" /\ mq'[TheQueue].refs # 0
  <1> USE DEF QueueInv
  <1> DEFINE q == arg[t].q
             b == mq_close(mq[q], arg[t].flags)
  <1>1. pc[t] = "close" /\ UNCHANGED <<stored, rcvd>> /\ handle' = [handle EXCEPT ![arg[t].slot] = NullHandle]
    BY DEF CloseBody
  <1>2. q = TheQueue /\ mq[q].status = "live" /\ pc \in [Threads -> Label] /\ ret \in [Threads -> Result]
        /\ mq \in [Queues -> Backend] /\ mq[q] \in Backend
    <2>1. q = TheQueue
      BY <1>1, MainCall, ProdCall, Constants
    <2> QED BY <1>1, <2>1, CloseCounts, Constants DEF MemoryInv, TypeOK
  <1>3. CriticalStep(t, "destroy") \/ CriticalStep(t, "idle")
    BY CloseChannel
  <1>4. \A u \in Threads \ {t} : ret'[u] = ret[u]
    BY <1>2 DEF CloseBody, Leave
  <1>5. /\ mq'[TheQueue].status = mq[TheQueue].status /\ mq'[TheQueue].size = mq[TheQueue].size
        /\ \A u \in Threads \ {t} : SamePlace(u)
    BY <1>3, <1>4, InCriticalStep
  <1>6. CASE LastHandle(b)
    <2>1. pc' = [pc EXCEPT ![t] = "destroy"] /\ arg' = arg /\ mq' = [mq EXCEPT ![q] = mutex_unlock(b)]
      BY <1>6 DEF CloseBody
    <2>2. mq'[TheQueue].refs = 0
      <3>1. mq'[TheQueue] = mutex_unlock(b)
        BY <1>2, <2>1, Constants
      <3>2. mutex_unlock(b).refs = b.refs
        BY DEF mutex_unlock, mq_close
      <3> QED BY <1>6, <3>1, <3>2 DEF LastHandle
    <2> QED BY <1>1, <1>2, <1>5, <2>1, <2>2
  <1>7. CASE ~LastHandle(b)
    <2> DEFINE d == [b EXCEPT !.queue_event = @ \cup CloseEvents(b)]
    <2>1. /\ pc' = [CloseBroadcast(q, b) EXCEPT ![t] = "idle"] /\ ret' = [ret EXCEPT ![t] = "OK"]
          /\ mq' = [mq EXCEPT ![q] = mutex_unlock(d)]
      BY <1>7 DEF CloseBody, Leave
    <2>2. mq'[TheQueue].refs # 0
      <3>1. mq'[TheQueue] = mutex_unlock(d)
        BY <1>2, <2>1, Constants
      <3>2. mutex_unlock(d).refs = b.refs
        BY DEF mutex_unlock, mq_close
      <3> QED BY <1>7, <3>1, <3>2 DEF LastHandle
    <2>3. pc'[t] = "idle" /\ ret'[t] = "OK"
      BY <1>2, <2>1, BroadcastEffect
    <2> QED BY <1>1, <1>2, <1>5, <2>2, <2>3
  <1> QED BY <1>6, <1>7

(* The closes of the two threads, in either order.                         *)
LEMMA CloseKeeps ==
    ASSUME QueueInv, QueueInv', Running, ProgInv, NEW t \in Threads, CloseBody(t), Stores,
           UNCHANGED <<argv, main, prod>>
    PROVE  Running' /\ ProgInv'
  <1> USE DEF QueueInv
  <1> DEFINE M == MainThread  P == ProducerThread
  <1>1. /\ pc[t] = "close" /\ UNCHANGED <<stored, rcvd>>
        /\ mq'[TheQueue].status = mq[TheQueue].status /\ mq'[TheQueue].size = mq[TheQueue].size
        /\ mq[TheQueue].status = "live"
        /\ \A u \in Threads \ {t} : SamePlace(u)
        /\ handle' = [handle EXCEPT ![arg[t].slot] = NullHandle]
        /\ \/ pc'[t] = "destroy" /\ arg'[t].q = TheQueue /\ mq'[TheQueue].refs = 0
           \/ pc'[t] = "idle" /\ ret'[t] = "OK" /\ mq'[TheQueue].refs # 0
    BY CloseEffect
  <1>2. data' = data /\ handle \in [Slots -> Handle]
    BY <1>1, SameStored DEF MemoryInv, TypeOK
  <1>3. Running' /\ ProgTypes'
    BY <1>2 DEF Running, ProgInv, ProgTypes
  <1>4. mq'[TheQueue].refs # 0 => \E s \in Slots : handle'[s] # NullHandle /\ handle'[s].q = TheQueue
    <2>1. ASSUME mq'[TheQueue].refs # 0 PROVE \E s \in Slots : handle'[s] # NullHandle /\ handle'[s].q = TheQueue
      <3>1. mq'[TheQueue].refs = Cardinality(Open(TheQueue)')
        BY <1>1, Constants DEF MemoryInv, HandleCounts
      <3>2. Open(TheQueue)' # {}
        BY <2>1, <3>1, FS_EmptySet
      <3> QED BY <3>2, Constants DEF Open, NullHandle
    <2> QED BY <2>1
  <1>5. CASE t = M
    <2>1. main.at = "closed" /\ arg[t].slot = MainQueue /\ SamePlace(P) /\ pc[t] \in Closing
      BY <1>1, <1>5, MainLabels, MainCall, Constants DEF Closing
    <2>2. ProdPlace' /\ Put' = Put
      BY <2>1, ProdStays
    <2>3. MainPlace' /\ Took' = Took
      BY <1>1, <1>5, <2>1 DEF MainPlace, Receiving, Took
    <2>4. HoldsReader /\ ~HoldsReader' /\ (HoldsWriter' <=> HoldsWriter)
      BY <1>1, <1>5, <2>1, SamePlaceOf DEF HoldsReader, HoldsWriter, Closing
    <2>5. HandlesHeld'
      BY <1>1, <1>2, <2>1, <2>4, Constants DEF ProgInv, HandlesHeld
    <2>6. pc'[P] = "destroy" <=> pc[P] = "destroy"
      BY <2>1, SamePlaceOf
    <2>7. pc[P] = "destroy" => arg'[P] = arg[P]
      BY <2>1, SamePlaceOf
    <2>8. pc'[t] # "destroy" => HoldsReader' \/ HoldsWriter'
      <3>1. SUFFICES ASSUME pc'[t] # "destroy" PROVE HoldsReader' \/ HoldsWriter'
        OBVIOUS
      <3>2. PICK s \in Slots : handle'[s] # NullHandle /\ handle'[s].q = TheQueue
        BY <1>1, <1>4, <3>1
      <3> QED BY <2>5, <3>2, Constants DEF HandlesHeld
    <2>9. QueueKnown'
      BY <1>1, <1>5, <2>1, <2>6, <2>7, <2>8, Constants DEF ProgInv, QueueKnown
    <2>10. Counted'
      BY <1>1, <2>2, <2>3 DEF ProgInv, Counted, Got, Sent, Total, LargeEnough
    <2>11. Added' /\ Sums'
      BY <1>1, <1>2, <2>1, SamePlaceOf DEF ProgInv, Added, Sums, Sent
    <2> QED BY <1>3, <2>2, <2>3, <2>5, <2>9, <2>10, <2>11 DEF ProgInv
  <1>6. CASE t = P
    <2>1. prod.at = "closed" /\ arg[t].slot = ContextQueue /\ SamePlace(M) /\ pc[t] \in Closing
      BY <1>1, <1>6, ProdLabels, ProdCall, Constants DEF Closing
    <2>2. MainPlace' /\ Took' = Took
      BY <2>1, MainStays
    <2>3. ProdPlace' /\ Put' = Put
      BY <1>1, <1>6, <2>1 DEF ProgInv, ProdPlace, Sending, Put
    <2>4. HoldsWriter /\ ~HoldsWriter' /\ (HoldsReader' <=> HoldsReader)
      <3>1. main.at # "opened"
        BY <2>1 DEF ProgInv, ProdPlace
      <3> QED BY <1>1, <1>6, <2>1, <3>1, SamePlaceOf DEF HoldsReader, HoldsWriter, Closing
    <2>5. HandlesHeld'
      BY <1>1, <1>2, <2>1, <2>4, Constants DEF ProgInv, HandlesHeld
    <2>6. pc'[M] = "destroy" <=> pc[M] = "destroy"
      BY <2>1, SamePlaceOf
    <2>7. pc[M] = "destroy" => arg'[M] = arg[M]
      BY <2>1, SamePlaceOf
    <2>8. pc'[t] # "destroy" => HoldsReader' \/ HoldsWriter'
      <3>1. SUFFICES ASSUME pc'[t] # "destroy" PROVE HoldsReader' \/ HoldsWriter'
        OBVIOUS
      <3>2. PICK s \in Slots : handle'[s] # NullHandle /\ handle'[s].q = TheQueue
        BY <1>1, <1>4, <3>1
      <3> QED BY <2>5, <3>2, Constants DEF HandlesHeld
    <2>9. ret'[M] = ret[M]
      BY <2>1, SamePlaceOf
    <2>10. QueueKnown'
      BY <1>1, <1>6, <2>1, <2>6, <2>7, <2>8, <2>9, Constants DEF ProgInv, QueueKnown
    <2>11. Counted'
      BY <1>1, <2>2, <2>3 DEF ProgInv, Counted, Got, Sent, Total, LargeEnough
    <2>12. Added' /\ Sums'
      BY <1>1, <1>2, <2>1 DEF ProgInv, Added, Sums, Sent
    <2> QED BY <1>3, <2>2, <2>3, <2>5, <2>10, <2>11, <2>12 DEF ProgInv
  <1> QED BY <1>5, <1>6, Constants

LEMMA DestroyKeeps ==
    ASSUME QueueInv, Running, ProgInv, NEW t \in Threads, Destroy(t), Stores, UNCHANGED <<argv, main, prod>>
    PROVE  Running' /\ ProgInv'
  <1> USE DEF QueueInv
  <1> DEFINE M == MainThread  P == ProducerThread
  <1>1. /\ pc[t] = "destroy" /\ UNCHANGED <<handle, stored, rcvd>>
        /\ pc' = [pc EXCEPT ![t] = "idle"] /\ arg' = [arg EXCEPT ![t] = NoArg] /\ ret' = [ret EXCEPT ![t] = "OK"]
        /\ mq' = [mq EXCEPT ![arg[t].q].status = "freed"]
    BY DEF Destroy, Leave
  <1>2. pc \in [Threads -> Label] /\ arg \in [Threads -> Arg] /\ ret \in [Threads -> Result]
        /\ mq \in [Queues -> Backend] /\ mq[TheQueue] \in Backend
    BY Constants DEF MemoryInv, TypeOK
  <1>3. arg[t].q = TheQueue
    BY <1>1 DEF ProgInv, QueueKnown
  <1>4. mq[TheQueue].status = "live"
    BY <1>3, Constants DEF MemoryInv, NoUseAfterFree
  <1>5. mq'[TheQueue].status = "freed" /\ mq'[TheQueue].size = mq[TheQueue].size
    <2>1. mq'[TheQueue] = [mq[TheQueue] EXCEPT !.status = "freed"]
      BY <1>1, <1>2, <1>3, Constants
    <2> QED BY <1>2, <2>1 DEF Backend
  <1>6. pc'[t] = "idle" /\ ret'[t] = "OK"
    BY <1>1, <1>2
  <1>7. \A u \in Threads \ {t} : SamePlace(u) /\ pc'[u] = pc[u] /\ arg'[u] = arg[u] /\ ret'[u] = ret[u]
    BY <1>1, <1>2 DEF SamePlace
  <1>8. data' = data
    BY <1>1, SameStored
  <1>9. Running' /\ ProgTypes'
    BY <1>8 DEF Running, ProgInv, ProgTypes
  <1>10. CASE t = M
    <2>1. main.at = "closed" /\ SamePlace(P) /\ pc'[P] = pc[P] /\ arg'[P] = arg[P]
      BY <1>1, <1>7, <1>10, MainLabels, Constants
    <2>2. ProdPlace' /\ Put' = Put
      BY <2>1, ProdStays
    <2>3. MainPlace' /\ Took' = Took
      BY <1>6, <1>10, <2>1 DEF MainPlace, Receiving, Took
    <2>4. (HoldsReader' <=> HoldsReader) /\ (HoldsWriter' <=> HoldsWriter)
      BY <1>1, <1>6, <1>10, <2>1 DEF HoldsReader, HoldsWriter, Closing
    <2>5. HandlesHeld'
      BY <1>1, <2>4 DEF ProgInv, HandlesHeld
    <2>6. QueueKnown'
      BY <1>4, <1>5, <1>6, <1>10, <2>1, Constants DEF ProgInv, QueueKnown
    <2>7. Counted'
      BY <1>1, <2>2, <2>3 DEF ProgInv, Counted, Got, Sent, Total, LargeEnough
    <2>8. Added' /\ Sums'
      BY <1>1, <1>8, <2>1 DEF ProgInv, Added, Sums, Sent
    <2> QED BY <1>9, <2>2, <2>3, <2>5, <2>6, <2>7, <2>8 DEF ProgInv
  <1>11. CASE t = P
    <2>1. prod.at = "closed" /\ SamePlace(M) /\ pc'[M] = pc[M] /\ arg'[M] = arg[M] /\ ret'[M] = ret[M]
      BY <1>1, <1>7, <1>11, ProdLabels, Constants
    <2>2. MainPlace' /\ Took' = Took
      BY <2>1, MainStays
    <2>3. ProdPlace' /\ Put' = Put
      BY <1>6, <1>11, <2>1 DEF ProgInv, ProdPlace, Sending, Put
    <2>4. (HoldsReader' <=> HoldsReader) /\ (HoldsWriter' <=> HoldsWriter)
      BY <1>1, <1>6, <1>11, <2>1 DEF HoldsReader, HoldsWriter, Closing
    <2>5. HandlesHeld'
      BY <1>1, <2>4 DEF ProgInv, HandlesHeld
    <2>6. QueueKnown'
      BY <1>4, <1>5, <1>6, <1>11, <2>1, Constants DEF ProgInv, QueueKnown
    <2>7. Counted'
      BY <1>1, <2>2, <2>3 DEF ProgInv, Counted, Got, Sent, Total, LargeEnough
    <2>8. Added' /\ Sums'
      BY <1>1, <1>8, <2>1 DEF ProgInv, Added, Sums, Sent
    <2> QED BY <1>9, <2>2, <2>3, <2>5, <2>6, <2>7, <2>8 DEF ProgInv
  <1> QED BY <1>10, <1>11, Constants

(* The end of a read or a write that has moved its message.                *)
LEMMA EndKeeps ==
    ASSUME QueueInv, QueueInv', Running, ProgInv, NEW t \in Threads, EndWakeup(t), Stores,
           UNCHANGED <<argv, main, prod>>
    PROVE  Running' /\ ProgInv'
  <1> USE DEF QueueInv
  <1> DEFINE M == MainThread  P == ProducerThread
  <1>1. /\ pc[t] = "wakeup" /\ UNCHANGED <<handle, stored, rcvd>>
        /\ ret' = [ret EXCEPT ![t] = arg[t].rv] /\ ret \in [Threads -> Result]
    BY DEF EndWakeup, Leave, MemoryInv, TypeOK
  <1>2. CriticalStep(t, "idle")
    BY EndChannel
  <1>3. /\ pc'[t] = "idle" /\ \A u \in Threads \ {t} : SamePlace(u)
        /\ mq'[TheQueue].status = mq[TheQueue].status /\ mq'[TheQueue].size = mq[TheQueue].size
    BY <1>1, <1>2, InCriticalStep
  <1>4. data' = data /\ data \in Seq(Int) /\ ret'[t] = arg[t].rv
    BY <1>1, SameStored DEF ProgInv, ProgTypes
  <1>5. CASE t = M
    <2>1. Receiving /\ ret'[t] = "MSG" /\ SamePlace(P)
      BY <1>1, <1>3, <1>4, <1>5, MainLabels, Constants
    <2>2. ProdPlace' /\ Put' = Put
      BY <2>1, ProdStays
    <2>3. MainPlace' /\ Took' = Took
      BY <1>1, <1>3, <1>5, <2>1, LabelSets DEF MainPlace, Receiving, Took
    <2>4. (HoldsReader' <=> HoldsReader) /\ (HoldsWriter' <=> HoldsWriter)
      BY <1>1, <2>1, SamePlaceOf DEF HoldsReader, HoldsWriter, Receiving
    <2>5. \A u \in Threads : (pc'[u] = "destroy" <=> pc[u] = "destroy") /\ (pc[u] = "destroy" => arg'[u] = arg[u])
      BY <1>1, <1>3, <1>5, <2>1, SamePlaceOf, Constants
    <2>6. Counted'
      BY <1>1, <2>2, <2>3 DEF ProgInv, Counted, Got, Sent, Total, LargeEnough
    <2>7. Added' /\ Sums'
      BY <1>1, <1>4, <2>1, SamePlaceOf DEF ProgInv, Added, Sums, Sent
    <2> QED BY <1>1, <1>3, <1>4, <2>1, <2>2, <2>3, <2>4, <2>5, <2>6, <2>7, FrameInv DEF Receiving
  <1>6. CASE t = P
    <2>1. Sending /\ ret'[t] = "OK" /\ SamePlace(M)
      BY <1>1, <1>3, <1>4, <1>6, ProdLabels, Constants
    <2>2. MainPlace' /\ Took' = Took
      BY <2>1, MainStays
    <2>3. ProdPlace' /\ Put' = Put
      BY <1>1, <1>3, <1>6, <2>1, LabelSets DEF ProgInv, ProdPlace, Sending, Put
    <2>4. (HoldsReader' <=> HoldsReader) /\ (HoldsWriter' <=> HoldsWriter)
      BY <1>1, <2>1, SamePlaceOf DEF HoldsReader, HoldsWriter, Sending
    <2>5. \A u \in Threads : (pc'[u] = "destroy" <=> pc[u] = "destroy") /\ (pc[u] = "destroy" => arg'[u] = arg[u])
      BY <1>1, <1>3, <1>6, <2>1, SamePlaceOf, Constants
    <2>6. Counted'
      BY <1>1, <2>2, <2>3 DEF ProgInv, Counted, Got, Sent, Total, LargeEnough
    <2>7. Added' /\ Sums'
      BY <1>1, <1>3, <1>4, <1>6, <2>1, LabelSets DEF ProgInv, Added, Sums, Sent
    <2>8. ret'[M] = ret[M]
      BY <2>1, SamePlaceOf
    <2> QED BY <1>1, <1>3, <1>4, <2>2, <2>3, <2>4, <2>5, <2>6, <2>7, <2>8, FrameInv
  <1> QED BY <1>5, <1>6, Constants

(* What has been received is a part of what has been sent.                 *)
LEMMA ReceivedOfSent ==
    ASSUME QueueInv, ProgInv
    PROVE  Got \in Nat /\ Sent \in Nat /\ Got <= Sent /\ Total \in Nat
  <1>1. First(mq[TheQueue].buf, stored[TheQueue]) = Len(rcvd[TheQueue]) + 1 /\ Len(rcvd[TheQueue]) \in Nat
        /\ stored[TheQueue] \in Nat
    BY Constants DEF QueueInv, NumbersInv, MemoryInv, TypeOK
  <1>2. First(mq[TheQueue].buf, stored[TheQueue]) \in 1..(stored[TheQueue] + 1)
    BY Constants DEF QueueInv, IdsInv, Ids, Listed
  <1>3. Total \in Nat
    <2>1. argv.count \in Int
      BY ProdConAssumption DEF ProgInv, ProgTypes
    <2> QED BY <2>1 DEF Total
  <1> QED BY <1>1, <1>2, <1>3 DEF Got, Sent

LEMMA BodyKeeps ==
    ASSUME QueueInv, QueueInv', Running, ProgInv, NEW t \in Threads, ReadBody(t), Stores,
           UNCHANGED <<argv, main, prod>>
    PROVE  Running' /\ ProgInv'
  <1> USE DEF QueueInv
  <1> DEFINE M == MainThread  P == ProducerThread
  <1>1. /\ pc[t] = "take_body" /\ UNCHANGED <<handle, stored, ret>>
        /\ arg \in [Threads -> Arg] /\ arg' = [arg EXCEPT ![t].rv = "MSG"]
    BY DEF ReadBody, BeginWakeup, MemoryInv, TypeOK
  <1>2. CriticalStep(t, "wakeup")
    BY BodyChannel
  <1>3. t = M /\ Receiving /\ M \in Threads /\ P \in Threads \ {t}
    BY <1>1, ProdLabels, MainLabels, Constants DEF Closing, WriteLabels, InRead, ReadLabels
  <1>4. /\ arg[t].q = TheQueue /\ pc'[t] = "wakeup" /\ SamePlace(P)
        /\ mq'[TheQueue].status = mq[TheQueue].status /\ mq'[TheQueue].size = mq[TheQueue].size
    BY <1>1, <1>2, <1>3, InCriticalStep
  <1>5. arg'[t].rv = "MSG"
    BY <1>1, <1>3 DEF Arg
  <1>6. data' = data /\ data \in Seq(Int)
    BY <1>1, SameStored DEF ProgInv, ProgTypes
  <1>7. Got' = Got + 1
    <2>1. PICK m : rcvd' = [rcvd EXCEPT ![TheQueue] = Append(@, m)] /\ m \in Msg
      BY <1>4, BodyChannel
    <2>2. rcvd \in [Queues -> Seq(Msg \cup {None})] /\ rcvd[TheQueue] \in Seq(Msg)
      BY Constants DEF MemoryInv, TypeOK, NumbersInv
    <2> QED BY <2>1, <2>2, Constants DEF Got
  <1>8. Took = 0 /\ Took' = 1
    BY <1>1, <1>3, <1>4, LabelSets DEF Took, Receiving, InRead, ReadLabels
  <1>9. ProdPlace' /\ Put' = Put
    BY <1>4, ProdStays
  <1>10. MainPlace'
    BY <1>3, <1>4, <1>5 DEF MainPlace, Receiving
  <1>11. (HoldsReader' <=> HoldsReader) /\ (HoldsWriter' <=> HoldsWriter)
    BY <1>1, <1>3, <1>4, SamePlaceOf DEF HoldsReader, HoldsWriter, Receiving
  <1>12. \A u \in Threads : (pc'[u] = "destroy" <=> pc[u] = "destroy") /\ (pc[u] = "destroy" => arg'[u] = arg[u])
    BY <1>1, <1>3, <1>4, SamePlaceOf, Constants
  <1>13. Counted'
    <2>1. main.i \in Nat /\ Got \in Nat
      BY ReceivedOfSent DEF ProgInv, ProgTypes
    <2>2. Sent' = Sent /\ Total' = Total /\ (LargeEnough' <=> LargeEnough)
      BY <1>1 DEF Sent, Total, LargeEnough
    <2> QED BY <1>3, <1>7, <1>8, <1>9, <2>1, <2>2 DEF ProgInv, Counted
  <1>14. Added' /\ Sums'
    BY <1>1, <1>4, <1>6, SamePlaceOf DEF ProgInv, Added, Sums, Sent
  <1> QED BY <1>1, <1>4, <1>6, <1>9, <1>10, <1>11, <1>12, <1>13, <1>14, FrameInv

(* While the producer has a number to send, main has not closed.           *)
LEMMA WriterAt ==
    ASSUME QueueInv, Running, ProgInv, pc[ProducerThread] \in WriteLabels
    PROVE  LET t == ProducerThread IN
           /\ Sending /\ Put = 0 /\ arg[t].q = TheQueue /\ arg[t].len = IntSize
           /\ Sent = IF prod.at = "wrote" THEN prod.i + 1 ELSE 0
           /\ mq[TheQueue].status = "live" /\ mq[TheQueue].size = argv.capacity
           /\ ~mq[TheQueue].no_readers /\ "NONBLOCK" \notin arg[t].flags
  <1> DEFINE t == ProducerThread
  <1>1. Sending /\ Put = 0
    BY ProdLabels DEF Put
  <1>2. arg[t].q = TheQueue /\ HoldsWriter /\ arg[t].flags = {"WRITER"}
    BY ProdCall DEF WriteLabels
  <1>3. arg[t].len = IntSize
    BY <1>2, Constants DEF QueueInv, ChannelInv, CallOK
  <1>4. mq[TheQueue].status = "live" /\ mq[TheQueue].size = argv.capacity
    BY <1>2, SidesOpen DEF ProgInv, QueueKnown
  <1>5. Sent = IF prod.at = "wrote" THEN prod.i + 1 ELSE 0
    BY <1>1 DEF ProgInv, ProgTypes, Counted, Sending
  <1>6. Got <= Total
    <2>1. prod.i \in Nat /\ Total \in Nat /\ Got \in Nat /\ Got <= Sent
      BY ReceivedOfSent DEF ProgInv, ProgTypes
    <2> QED BY <1>1, <1>5, <2>1 DEF ProgInv, Counted, Sending
  <1>7. main.at \notin {"closed", "join"}
    BY <1>6, ReceivedOfSent DEF ProgInv, Counted, ProgTypes, Took, Receiving
  <1>8. HoldsReader
    BY <1>1, <1>7 DEF HoldsReader, Running, ProgInv, ProgTypes, MainLabel, MainPlace, ProdPlace, Sending
  <1>9. ~mq[TheQueue].no_readers
    BY <1>8, SidesOpen
  <1> QED BY <1>1, <1>2, <1>3, <1>4, <1>5, <1>9

LEMMA RejectKeeps ==
    ASSUME QueueInv, QueueInv', Running, ProgInv, NEW t \in Threads, WriteReject(t), Stores,
           UNCHANGED <<argv, main, prod>>
    PROVE  Running' /\ ProgInv'
  <1> USE DEF QueueInv
  <1> DEFINE M == MainThread  P == ProducerThread
  <1>1. /\ pc[t] = "write" /\ UNCHANGED <<handle, stored, rcvd>>
        /\ ret' = [ret EXCEPT ![t] = Rejection(mq[arg[t].q], arg[t].len)] /\ ret \in [Threads -> Result]
        /\ Rejection(mq[arg[t].q], arg[t].len) # "none"
    BY DEF WriteReject, Leave, MemoryInv, TypeOK
  <1>2. CriticalStep(t, "idle")
    BY EndChannel
  <1>3. t = P /\ pc[P] \in WriteLabels /\ P \in Threads /\ M \in Threads \ {t}
    BY <1>1, MainLabels, Constants DEF Closing, WriteLabels, InRead, ReadLabels
  <1>4. /\ pc'[t] = "idle" /\ SamePlace(M)
        /\ mq'[TheQueue].status = mq[TheQueue].status /\ mq'[TheQueue].size = mq[TheQueue].size
    BY <1>1, <1>2, <1>3, InCriticalStep
  <1>5. data' = data /\ data \in Seq(Int)
    BY <1>1, SameStored DEF ProgInv, ProgTypes
  <1>6. ret'[t] = "EMSGSIZE" /\ ~LargeEnough
    <2>1. ~mq[TheQueue].no_readers /\ mq[TheQueue].size = argv.capacity /\ arg[t].q = TheQueue /\ arg[t].len = IntSize
      BY <1>3, WriterAt
    <2>2. argv.capacity \in Nat /\ argv.capacity <= SizeT + IntSize /\ ret'[t] = "EMSGSIZE"
      BY <1>1, <2>1, Constants, ProdConAssumption DEF Rejection, ProgInv, ProgTypes
    <2> QED BY <2>2, Constants DEF LargeEnough
  <1>7. Sending /\ Sent = 0 /\ prod.at = "wrote_count" /\ Put = 0
    <2>1. Sending /\ Put = 0 /\ Sent = IF prod.at = "wrote" THEN prod.i + 1 ELSE 0
      BY <1>3, WriterAt
    <2>2. prod.i \in Nat
      BY DEF ProgInv, ProgTypes
    <2>3. ~(Sent > 0)
      BY <1>6 DEF ProgInv, Counted
    <2> QED BY <2>1, <2>2, <2>3 DEF Sending
  <1>8. Put' = 0
    BY <1>3, <1>4, <1>6 DEF Put
  <1>9. MainPlace' /\ Took' = Took
    BY <1>4, MainStays
  <1>10. ProdPlace'
    BY <1>3, <1>4, <1>6, <1>7 DEF ProgInv, ProdPlace, Sending, LargeEnough
  <1>11. (HoldsReader' <=> HoldsReader) /\ (HoldsWriter' <=> HoldsWriter)
    BY <1>1, <1>4, <1>7, SamePlaceOf DEF HoldsReader, HoldsWriter
  <1>12. \A u \in Threads : (pc'[u] = "destroy" <=> pc[u] = "destroy") /\ (pc[u] = "destroy" => arg'[u] = arg[u])
    BY <1>1, <1>3, <1>4, SamePlaceOf, Constants
  <1>13. Counted'
    BY <1>1, <1>7, <1>8, <1>9 DEF ProgInv, Counted, Got, Sent, Total, LargeEnough
  <1>14. Added' /\ Sums'
    BY <1>1, <1>5, <1>7 DEF ProgInv, Added, Sums, Sent
  <1>15. ret'[M] = ret[M]
    BY <1>4, SamePlaceOf
  <1> QED BY <1>1, <1>4, <1>5, <1>9, <1>10, <1>11, <1>12, <1>13, <1>14, <1>15, FrameInv

(* The sums after one more number.                                         *)
LEMMA SumsExtend ==
    ASSUME data \in Seq(Int), NEW n \in Int, data' = Append(data, n), UNCHANGED <<main, prod>>,
           main.i \in Nat, prod.i \in Nat, main.i = 0 \/ main.i < Len(data), prod.i = 0 \/ prod.i < Len(data), Sums
    PROVE  Sums'
  <1> DEFINE d == Len(data)
  <1>1. PICK s \in [Nat -> Int] :
            /\ s[0] = 0 /\ \A k \in 1..Len(data) - 1 : s[k] = s[k - 1] + data[k + 1]
            /\ main.sum = s[main.i] /\ prod.sum = s[prod.i]
    BY DEF Sums
  <1>2. d \in Nat /\ Len(data') = d + 1 /\ data'[d + 1] = n /\ \A k \in 1..d : data'[k] = data[k]
    OBVIOUS
  <1>3. CASE d = 0
    <2>1. \A k \in 1..Len(data') - 1 : s[k] = s[k - 1] + data'[k + 1]
      BY <1>2, <1>3
    <2> QED BY <1>1, <2>1 DEF Sums
  <1>4. CASE d # 0
    <2> DEFINE s2 == [k \in Nat |-> IF k = d THEN s[d - 1] + n ELSE s[k]]
    <2>1. s2 \in [Nat -> Int] /\ \A k \in Nat \ {d} : s2[k] = s[k]
      BY <1>1, <1>2, <1>4
    <2>2. s2[d] = s[d - 1] + n /\ s2[d - 1] = s[d - 1] /\ s2[0] = 0
      <3>1. d \in Nat /\ d - 1 \in Nat \ {d} /\ 0 \in Nat \ {d}
        BY <1>2, <1>4
      <3>2. s2[d - 1] = s[d - 1] /\ s2[0] = s[0]
        BY <2>1, <3>1
      <3> QED BY <1>1, <3>1, <3>2
    <2> HIDE DEF s2
    <2>3. main.sum = s2[main.i] /\ prod.sum = s2[prod.i]
      <3>1. main.i \in Nat \ {d} /\ prod.i \in Nat \ {d}
        BY <1>2, <1>4
      <3> QED BY <1>1, <2>1, <3>1
    <2>4. ASSUME NEW k \in 1..d PROVE s2[k] = s2[k - 1] + data'[k + 1]
      <3>1. CASE k = d
        BY <1>2, <2>2, <3>1
      <3>2. CASE k # d
        <4>1. k \in 1..d - 1 /\ k \in Nat \ {d} /\ k - 1 \in Nat \ {d} /\ k + 1 \in 1..d
          BY <1>2, <3>2
        <4>2. s2[k] = s[k] /\ s2[k - 1] = s[k - 1] /\ data'[k + 1] = data[k + 1]
          BY <1>2, <2>1, <4>1
        <4>3. s[k] = s[k - 1] + data[k + 1]
          BY <1>1, <4>1
        <4> QED BY <4>2, <4>3
      <3> QED BY <3>1, <3>2
    <2>5. \A k \in 1..Len(data') - 1 : s2[k] = s2[k - 1] + data'[k + 1]
      BY <1>2, <2>4
    <2> QED BY <2>1, <2>2, <2>3, <2>5 DEF Sums
  <1> QED BY <1>3, <1>4

(* The number that the producer has written is the next one in the queue.  *)
LEMMA PutKeeps ==
    ASSUME QueueInv, QueueInv', Running, ProgInv, NEW t \in Threads, WritePut(t), Stores,
           UNCHANGED <<argv, main, prod>>
    PROVE  Running' /\ ProgInv'
  <1> USE DEF QueueInv
  <1> DEFINE M == MainThread  P == ProducerThread
  <1>1. pc[t] \in {"write", "write_loop"} /\ UNCHANGED <<handle, rcvd>> /\ arg \in [Threads -> Arg]
    BY DEF WritePut, Accepted, MemoryInv, TypeOK
  <1>2. t = P /\ pc[P] \in WriteLabels /\ P \in Threads /\ M \in Threads \ {t}
    BY <1>1, MainLabels, Constants DEF Closing, WriteLabels, InRead, ReadLabels
  <1>3. /\ Sending /\ Put = 0 /\ arg[t].q = TheQueue /\ arg[t].len = IntSize
        /\ Sent = IF prod.at = "wrote" THEN prod.i + 1 ELSE 0
        /\ mq[TheQueue].size = argv.capacity /\ "NONBLOCK" \notin arg[t].flags
    BY <1>2, WriterAt
  <1>4. /\ ret' = ret /\ arg' = [arg EXCEPT ![t].rv = "OK"] /\ pc'[t] # "idle"
        /\ stored' = [stored EXCEPT ![TheQueue] = @ + 1]
    <2>1. PICK pcs \in SignalReader(TheQueue) :
              pc' = [pcs EXCEPT ![t] = "wakeup"] /\ arg' = [arg EXCEPT ![t].rv = "OK"] /\ ret' = ret
      BY <1>3 DEF WritePut, BeginWakeup
    <2>2. pc'[t] = "wakeup"
      BY <2>1, SignalWakes
    <2> QED BY <1>3, <2>1, <2>2 DEF WritePut
  <1>5. CriticalStep(t, "wakeup")
    BY <1>4, PutChannel, KeepsPart DEF CriticalStep
  <1>6. /\ pc'[t] = "wakeup" /\ SamePlace(M)
        /\ mq'[TheQueue].status = mq[TheQueue].status /\ mq'[TheQueue].size = mq[TheQueue].size
    BY <1>2, <1>4, <1>5, InCriticalStep
  <1>7. arg'[t].rv = "OK"
    BY <1>1, <1>2, <1>4 DEF Arg
  <1>8. Sent \in Nat /\ Sent' = Sent + 1
    BY <1>4, ReceivedOfSent, Constants DEF Sent, MemoryInv, TypeOK
  <1>9. data' = Append(data, prod.number) /\ data \in Seq(Int) /\ prod.number \in Int /\ data' \in Seq(Int)
        /\ prod.i \in Nat /\ main.i \in Nat
    <2>1. data' = Append(data, prod.number)
      BY <1>8 DEF Stores, Sent
    <2>2. data \in Seq(Int) /\ prod.number \in Int /\ prod.i \in Nat /\ main.i \in Nat
      BY DEF ProgInv, ProgTypes
    <2> QED BY <2>1, <2>2
  <1>10. Put' = 1
    BY <1>2, <1>3, <1>6, LabelSets DEF Put, Sending
  <1>11. MainPlace' /\ Took' = Took
    BY <1>6, MainStays
  <1>12. ProdPlace'
    BY <1>2, <1>3, <1>6, <1>7 DEF ProgInv, ProdPlace, Sending
  <1>13. (HoldsReader' <=> HoldsReader) /\ (HoldsWriter' <=> HoldsWriter)
    BY <1>1, <1>3, <1>6, SamePlaceOf DEF HoldsReader, HoldsWriter, Sending
  <1>14. \A u \in Threads : (pc'[u] = "destroy" <=> pc[u] = "destroy") /\ (pc[u] = "destroy" => arg'[u] = arg[u])
    BY <1>1, <1>2, <1>6, SamePlaceOf, Constants
  <1>15. LargeEnough
    <2>1. SizeT + IntSize < argv.capacity
      BY <1>3, AcceptedFits, KeepsPart DEF WritePut
    <2>2. argv.capacity \in Nat
      BY ProdConAssumption DEF ProgInv, ProgTypes
    <2> QED BY <2>1, <2>2, Constants DEF LargeEnough
  <1>16. Counted'
    <2>1. Got' = Got /\ Total' = Total /\ (LargeEnough' <=> LargeEnough)
      BY <1>1 DEF Got, Total, LargeEnough
    <2> QED BY <1>3, <1>8, <1>9, <1>10, <1>11, <1>15, <2>1 DEF ProgInv, Counted, Sending
  <1>17. Len(data) = Sent
    BY DEF ProgInv, Added
  <1>18. Added'
    <2>1. Len(data') = Sent + 1 /\ data'[Sent + 1] = prod.number /\ \A k \in 1..Sent : data'[k] = data[k]
      BY <1>8, <1>9, <1>17
    <2>2. data'[1] = argv.count
      BY <1>3, <1>8, <1>9, <2>1 DEF ProgInv, Added, Sending
    <2>3. prod.at = "wrote" => data'[prod.i + 2] = prod.number
      BY <1>3, <1>9, <2>1
    <2> QED BY <1>8, <2>1, <2>2, <2>3 DEF ProgInv, Added
  <1>19. Sums'
    <2>1. main.i = 0 \/ main.i < Len(data)
      <3>1. main.i + 1 <= Got \/ main.i = 0
        BY <1>9, ReceivedOfSent DEF ProgInv, Counted, Took
      <3> QED BY <1>9, <1>17, <3>1, ReceivedOfSent
    <2>2. prod.i = 0 \/ prod.i < Len(data)
      BY <1>3, <1>9, <1>17 DEF ProgInv, Counted, Sending
    <2> QED BY <1>9, <2>1, <2>2, SumsExtend DEF ProgInv
  <1>20. ret'[M] = ret[M]
    BY <1>4
  <1> QED BY <1>6, <1>9, <1>11, <1>12, <1>13, <1>14, <1>16, <1>18, <1>19, <1>20, <1>1, FrameInv

LEMMA CallStepKeeps ==
    ASSUME QueueInv, QueueInv', Running, ProgInv, NEW t \in Threads, CallLock(t) \/ CallStep(t) \/ CallSpurious(t)
    PROVE  Running' /\ ProgInv'
  <1>1. CASE CallLock(t) \/ CallSpurious(t)
    BY <1>1, OutsideSteps DEF CallLock, CallSpurious
  <1>2. CASE CallStep(t)
    <2>1. Progress(t) /\ Stores /\ UNCHANGED <<argv, main, prod>>
      BY <1>2 DEF CallStep
    <2>2. CASE ReadEmpty(t) \/ ReadPeek(t) \/ ReadHeader(t) \/ WriteWait(t)
      BY <2>1, <2>2, WaitSteps
    <2>3. CASE ReadEof(t)
      BY <2>3, NoEof
    <2> QED BY <2>1, <2>2, <2>3, OpenStep, CloseKeeps, DestroyKeeps, EndKeeps, BodyKeeps, RejectKeeps, PutKeeps
            DEF Progress
  <1> QED BY <1>1, <1>2

-----------------------------------------------------------------------------
(* The program between its calls.                                          *)
LEMMA EnterEffect ==
    ASSUME QueueInv, NEW t \in Threads, NEW label, NEW a, Enter(t, label, a)
    PROVE  /\ pc'[t] = label /\ arg'[t] = a /\ ret'[t] = "none" /\ UNCHANGED <<mq, handle, stored, rcvd>>
           /\ \A u \in Threads \ {t} :
                 SamePlace(u) /\ pc'[u] = pc[u] /\ arg'[u] = arg[u] /\ ret'[u] = ret[u]
  BY DEF QueueInv, MemoryInv, TypeOK, Enter, SamePlace

LEMMA NothingMoves ==
    ASSUME UNCHANGED vars
    PROVE  UNCHANGED <<mq, handle, pc, arg, ret, stored, rcvd>> /\ \A t : SamePlace(t)
  BY DEF vars, SamePlace

(* The number main finds in its buffer.                                    *)
LEMMA ValueIs ==
    ASSUME QueueInv, ProgInv, Got > 0
    PROVE  Value = data[Got] /\ Value \in Int /\ Got \in 1..Len(data)
  <1>1. Got \in 1..Len(data)
    BY ReceivedOfSent DEF ProgInv, Added
  <1>2. rcvd[TheQueue][Got].id = Got
    BY <1>1, Constants DEF QueueInv, NumbersInv, Got
  <1>3. data \in Seq(Int)
    BY DEF ProgInv, ProgTypes
  <1> QED BY <1>1, <1>2, <1>3 DEF Value, Got

LEMMA CreateKeeps ==
    ASSUME QueueInv, Running, ProgInv, MainCreate
    PROVE  Running' /\ ProgInv'
  <1> DEFINE M == MainThread  P == ProducerThread
  <1>1. /\ main.at = "start" /\ main' = [main EXCEPT !.at = "created"] /\ UNCHANGED <<argv, prod, data>>
        /\ main' \in [at : MainLabel, count : Int, i : Nat, sum : Int, broken : {FALSE}]
        /\ main'.at = "created" /\ main'.i = main.i /\ main'.sum = main.sum /\ main'.count = main.count
    BY DEF MainCreate, MainAt, ProgInv, ProgTypes, MainLabel
  <1>2. prod.at = "none" /\ pc[P] = "idle" /\ pc[M] = "idle" /\ mq[TheQueue].status = "unborn"
    BY <1>1 DEF ProgInv, ProdPlace, MainPlace, QueueKnown
  <1>3. msg_queue_create(Creation(argv.capacity)) /\ Creation(argv.capacity).slot = MainQueue
        /\ Creation(argv.capacity).queue = TheQueue /\ Creation(argv.capacity).flags = {"READER"}
        /\ Creation(argv.capacity).capacity = argv.capacity
    BY DEF MainCreate, Creation
  <1>4. /\ UNCHANGED <<pc, arg, stored, rcvd>>
        /\ \/ ret'[M] # "OK" /\ UNCHANGED <<mq, handle>>
           \/ /\ ret'[M] = "OK" /\ handle' = [handle EXCEPT ![MainQueue] = [q |-> TheQueue, flags |-> {"READER"}]]
              /\ mq'[TheQueue].status = "live" /\ mq'[TheQueue].size = argv.capacity
    <2>1. ret \in [Threads -> Result] /\ mq \in [Queues -> Backend]
      BY DEF QueueInv, MemoryInv, TypeOK
    <2>2. CASE ret' = [ret EXCEPT ![M] = "OK"] /\ mq[TheQueue].status = "unborn"
      <3>1. PICK event \in UninitEvents : /\ mq' = [mq EXCEPT ![TheQueue] = mq_open(mq_init(argv.capacity, event), {"READER"})]
                                          /\ handle' = [handle EXCEPT ![MainQueue] = [q |-> TheQueue, flags |-> {"READER"}]]
                                          /\ UNCHANGED <<pc, arg, stored, rcvd>>
        BY <1>3, <2>1, <2>2, Constants DEF msg_queue_create, Refuse
      <3>2. mq'[TheQueue] = mq_open(mq_init(argv.capacity, event), {"READER"})
        BY <2>1, <3>1, Constants
      <3>3. mq'[TheQueue].status = "live" /\ mq'[TheQueue].size = argv.capacity
        BY <3>2 DEF mq_open, mq_init
      <3> QED BY <2>1, <2>2, <3>1, <3>3, Constants
    <2>3. CASE Refuse(M, "EINVAL") \/ Refuse(M, "ENOMEM")
      BY <2>1, <2>3, Constants DEF Refuse
    <2> QED BY <1>3, <2>2, <2>3, Constants DEF msg_queue_create
  <1>5. Running' /\ ProgTypes'
    BY <1>1, <1>2 DEF Running, ProgInv, ProgTypes
  <1>6. ~HoldsReader /\ ~HoldsWriter /\ ~HoldsWriter' /\ (HoldsReader' <=> ret'[M] = "OK")
    BY <1>1, <1>2 DEF HoldsReader, HoldsWriter
  <1>7. HandlesHeld'
    BY <1>4, <1>6, Constants DEF QueueInv, MemoryInv, TypeOK, ProgInv, HandlesHeld
  <1>8. MainPlace' /\ ProdPlace'
    BY <1>1, <1>2, <1>4 DEF MainPlace, ProdPlace, Receiving, Sending
  <1>9. QueueKnown'
    BY <1>1, <1>2, <1>4, <1>6, Constants DEF ProgInv, QueueKnown
  <1>10. Counted'
    BY <1>1, <1>2, <1>4 DEF ProgInv, Counted, Got, Sent, Total, LargeEnough, Took, Put, Receiving, Sending
  <1>11. Added' /\ Sums'
    BY <1>1, <1>2, <1>4 DEF ProgInv, Added, Sums, Sent
  <1> QED BY <1>5, <1>7, <1>8, <1>9, <1>10, <1>11 DEF ProgInv

(* A step of the program that leaves the queue and its messages alone.     *)
LEMMA FrameProgram ==
    ASSUME ProgInv, Running', ProgTypes', UNCHANGED <<argv, data, mq, handle, stored, rcvd>>,
           \A t \in Threads : pc[t] = "destroy" <=> pc'[t] = "destroy",
           \A t \in Threads : pc[t] = "destroy" => arg'[t] = arg[t],
           HoldsReader' <=> HoldsReader, HoldsWriter' <=> HoldsWriter,
           mq[TheQueue].status # "unborn",
           main'.at # "start" /\ (main'.at = "created" => main.at = "created" /\ ret'[MainThread] = ret[MainThread]),
           MainPlace', ProdPlace', Counted',
           prod'.at = "wrote_count" => prod'.number = argv.count,
           prod'.at = "wrote" /\ pc'[ProducerThread] \notin WriteLabels => data[prod'.i + 2] = prod'.number,
           Sums'
    PROVE  Running' /\ ProgInv'
  <1>1. HandlesHeld'
    BY DEF ProgInv, HandlesHeld
  <1>2. QueueKnown'
    BY DEF ProgInv, QueueKnown
  <1>3. Added'
    BY DEF ProgInv, Added, Sent
  <1> QED BY <1>1, <1>2, <1>3 DEF ProgInv

LEMMA MainOpenKeeps ==
    ASSUME QueueInv, Running, ProgInv, MainOpen
    PROVE  (Running' /\ ProgInv') \/ (~Running' /\ Promised')
  <1> DEFINE M == MainThread  P == ProducerThread
  <1>1. /\ main.at = "created" /\ UNCHANGED <<argv, prod, data>> /\ prod.at = "none" /\ pc[P] = "idle"
    BY DEF MainOpen, ProgInv, ProdPlace
  <1>2. CASE ret[M] # "OK"
    <2>1. main' = [main EXCEPT !.at = "exit1"] /\ main'.at = "exit1" /\ main'.broken = main.broken
      BY <1>2 DEF MainOpen, MainAt, ProgInv, ProgTypes
    <2> QED BY <1>1, <2>1
            DEF ProgInv, ProgTypes, Running, Promised, AssertsHold, NoBrokenPipe, CleanExit
  <1>3. CASE ret[M] = "OK"
    <2>1. msg_queue_open(WriterOpen) /\ main' = [main EXCEPT !.at = "opened"]
      BY <1>3 DEF MainOpen, MainAt
    <2>2. HoldsReader /\ handle[MainQueue] = [q |-> TheQueue, flags |-> {"READER"}] /\ handle[MainQueue] # NullHandle
      BY <1>1, <1>3, Constants DEF HoldsReader, ProgInv, HandlesHeld, NullHandle
    <2>3. Enter(M, "open_lock", [WithHandle(MainQueue) EXCEPT !.dst = ContextQueue, !.flags = {"WRITER"}])
      BY <2>1, <2>2, Constants DEF msg_queue_open, WriterOpen, Flag
    <2>4. /\ pc'[M] = "open_lock" /\ ret'[M] = "none" /\ UNCHANGED <<mq, handle, stored, rcvd>>
          /\ SamePlace(P) /\ pc'[P] = pc[P] /\ arg'[M].flags = {"WRITER"}
      <3> DEFINE a == [WithHandle(MainQueue) EXCEPT !.dst = ContextQueue, !.flags = {"WRITER"}]
      <3>1. a.flags = {"WRITER"}
        BY DEF WithHandle, NoArg
      <3>2. Enter(M, "open_lock", a)
        BY <2>3
      <3> HIDE DEF a
      <3>3. M \in Threads /\ P \in Threads \ {M}
        BY Constants
      <3>4. /\ pc'[M] = "open_lock" /\ arg'[M] = a /\ ret'[M] = "none" /\ UNCHANGED <<mq, handle, stored, rcvd>>
            /\ SamePlace(P) /\ pc'[P] = pc[P]
        BY <3>2, <3>3, EnterEffect
      <3> QED BY <3>1, <3>4
    <2>5. /\ main' \in [at : MainLabel, count : Int, i : Nat, sum : Int, broken : {FALSE}]
          /\ main'.at = "opened" /\ main'.i = main.i /\ main'.sum = main.sum /\ main'.count = main.count
      BY <2>1 DEF ProgInv, ProgTypes, MainLabel
    <2>6. Running' /\ ProgTypes'
      BY <1>1, <2>5 DEF Running, ProgInv, ProgTypes
    <2>7. HoldsReader' /\ ~HoldsWriter /\ ~HoldsWriter'
      BY <1>1, <2>4, <2>5 DEF HoldsReader, HoldsWriter
    <2>8. MainPlace' /\ ProdPlace'
      BY <1>1, <2>4, <2>5 DEF MainPlace, ProdPlace, Receiving, Sending
    <2>9. Counted'
      BY <1>1, <2>4, <2>5 DEF ProgInv, Counted, Got, Sent, Total, LargeEnough, Took, Put, Receiving, Sending
    <2>10. Sums'
      BY <1>1, <2>5 DEF ProgInv, Sums
    <2>11. \A t \in Threads : pc[t] # "destroy" /\ pc'[t] # "destroy"
      BY <1>1, <2>4, Constants DEF ProgInv, MainPlace
    <2>12. mq[TheQueue].status # "unborn"
      BY <1>1, <1>3 DEF ProgInv, QueueKnown
    <2> QED BY <1>1, <2>2, <2>4, <2>5, <2>6, <2>7, <2>8, <2>9, <2>10, <2>11, <2>12, FrameProgram
  <1> QED BY <1>2, <1>3

LEMMA ThreadKeeps ==
    ASSUME QueueInv, Running, ProgInv, pthread_create
    PROVE  (Running' /\ ProgInv') \/ (~Running' /\ Promised')
  <1> DEFINE M == MainThread  P == ProducerThread
  <1>1. /\ main.at = "opened" /\ pc[M] = "idle" /\ UNCHANGED <<argv, data, mq, handle, pc, arg, ret, stored, rcvd>>
        /\ prod.at = "none" /\ pc[P] = "idle"
    BY NothingMoves DEF pthread_create, Returned, ProgInv, ProdPlace
  <1>2. CASE main' = [main EXCEPT !.at = "exit1"] /\ prod' = prod
    <2>1. main'.at = "exit1" /\ main'.broken = main.broken
      BY <1>2 DEF ProgInv, ProgTypes
    <2> QED BY <1>1, <1>2, <2>1
            DEF ProgInv, ProgTypes, Running, Promised, AssertsHold, NoBrokenPipe, CleanExit
  <1>3. CASE main' = [main EXCEPT !.at = "read_count"] /\ prod' = [prod EXCEPT !.at = "write_count"]
    <2>1. /\ main' \in [at : MainLabel, count : Int, i : Nat, sum : Int, broken : {FALSE}]
          /\ main'.at = "read_count" /\ main'.i = main.i /\ main'.sum = main.sum /\ main'.count = main.count
      BY <1>3 DEF ProgInv, ProgTypes, MainLabel
    <2>2. /\ prod' \in [at : ProdLabel, number : Int, i : Nat, sum : Int, broken : {FALSE}]
          /\ prod'.at = "write_count" /\ prod'.i = prod.i /\ prod'.sum = prod.sum
      BY <1>3 DEF ProgInv, ProgTypes, ProdLabel
    <2>3. Running' /\ ProgTypes'
      BY <1>1, <2>1, <2>2 DEF Running, ProgInv, ProgTypes
    <2>4. HoldsReader /\ HoldsReader' /\ HoldsWriter /\ HoldsWriter'
      BY <1>1, <2>1, <2>2 DEF HoldsReader, HoldsWriter
    <2>5. MainPlace' /\ ProdPlace'
      BY <1>1, <2>1, <2>2 DEF MainPlace, ProdPlace, Receiving, Sending
    <2>6. Counted'
      BY <1>1, <2>1, <2>2 DEF ProgInv, Counted, Got, Sent, Total, LargeEnough, Took, Put, Receiving, Sending
    <2>7. Sums'
      BY <1>1, <2>1, <2>2 DEF ProgInv, Sums
    <2>8. mq[TheQueue].status # "unborn"
      BY <1>1 DEF ProgInv, QueueKnown
    <2> QED BY <1>1, <2>1, <2>2, <2>3, <2>4, <2>5, <2>6, <2>7, <2>8, FrameProgram
  <1> QED BY <1>2, <1>3 DEF pthread_create, MainAt, ProdAt

(* Both reads of main find their handle open.                              *)
LEMMA ReadStarts ==
    ASSUME QueueInv, Running, ProgInv, main.at \in {"read_count", "loop"}, msg_queue_read(Transfer(MainQueue))
    PROVE  LET M == MainThread  P == ProducerThread IN
           /\ pc[M] = "idle" /\ pc'[M] = "read_lock" /\ UNCHANGED <<mq, handle, stored, rcvd>>
           /\ SamePlace(P) /\ pc'[P] = pc[P] /\ arg'[P] = arg[P]
           /\ HoldsReader /\ mq[TheQueue].status # "unborn"
  <1> DEFINE M == MainThread  P == ProducerThread
  <1>1. HoldsReader /\ handle[MainQueue].flags = {"READER"} /\ pc[M] = "idle" /\ mq[TheQueue].status # "unborn"
    BY DEF HoldsReader, ProgInv, HandlesHeld, MainPlace, QueueKnown
  <1>2. Enter(M, "read_lock", [WithHandle(MainQueue) EXCEPT !.len = IntSize])
    BY <1>1, Constants DEF msg_queue_read, Transfer
  <1>3. M \in Threads /\ P \in Threads \ {M}
    BY Constants
  <1> QED BY <1>1, <1>2, <1>3, EnterEffect

LEMMA MainReadKeeps ==
    ASSUME QueueInv, Running, ProgInv, MainReadCount \/ MainRead
    PROVE  Running' /\ ProgInv'
  <1> DEFINE M == MainThread  P == ProducerThread
  <1>1. /\ \/ main.at = "read_count" /\ main' = [main EXCEPT !.at = "got_count"]
           \/ main.at = "loop" /\ main' = [main EXCEPT !.at = "got"] /\ main.i < main.count
        /\ UNCHANGED <<argv, prod, data>> /\ msg_queue_read(Transfer(MainQueue))
    BY DEF MainReadCount, MainRead, MainAt, MainLoops
  <1>2. /\ pc[M] = "idle" /\ pc'[M] = "read_lock" /\ UNCHANGED <<mq, handle, stored, rcvd>>
        /\ SamePlace(P) /\ pc'[P] = pc[P] /\ arg'[P] = arg[P]
        /\ HoldsReader /\ mq[TheQueue].status # "unborn"
    BY <1>1, ReadStarts
  <1>3. /\ main' \in [at : MainLabel, count : Int, i : Nat, sum : Int, broken : {FALSE}]
        /\ main'.i = main.i /\ main'.sum = main.sum /\ main'.count = main.count
        /\ \/ main.at = "read_count" /\ main'.at = "got_count"
           \/ main.at = "loop" /\ main'.at = "got"
    BY <1>1 DEF ProgInv, ProgTypes, MainLabel
  <1>4. Running' /\ ProgTypes'
    BY <1>1, <1>3 DEF Running, ProgInv, ProgTypes
  <1>5. HoldsReader' /\ (HoldsWriter' <=> HoldsWriter)
    BY <1>1, <1>2, <1>3 DEF HoldsReader, HoldsWriter
  <1>6. MainPlace'
    BY <1>2, <1>3, LabelSets DEF MainPlace, Receiving, InRead, ReadLabels
  <1>7. ProdPlace' /\ Put' = Put
    BY <1>1, <1>2, <1>3, ProdStays
  <1>8. Took = 0 /\ Took' = 0
    BY <1>2, <1>3 DEF Took, Receiving, InRead, ReadLabels
  <1>9. main.at = "loop" => main.i < Total
    <2>1. main.at = "loop" => main.count = argv.count
      BY DEF ProgInv, Counted
    <2>2. argv.count \in Int /\ main.i \in Nat
      BY ProdConAssumption DEF ProgInv, ProgTypes
    <2> QED BY <1>1, <2>1, <2>2 DEF Total
  <1>10. Counted'
    <2>1. Got' = Got /\ Sent' = Sent /\ Total' = Total /\ (LargeEnough' <=> LargeEnough)
      BY <1>1, <1>2 DEF Got, Sent, Total, LargeEnough
    <2> QED BY <1>1, <1>3, <1>7, <1>8, <1>9, <2>1 DEF ProgInv, Counted
  <1>11. Sums'
    BY <1>1, <1>3 DEF ProgInv, Sums
  <1>12. \A t \in Threads : (pc[t] = "destroy" <=> pc'[t] = "destroy") /\ (pc[t] = "destroy" => arg'[t] = arg[t])
    BY <1>2, Constants
  <1>13. prod'.at = "wrote_count" => prod'.number = argv.count
    BY <1>1 DEF ProgInv, Added
  <1>14. prod'.at = "wrote" /\ pc'[P] \notin WriteLabels => data[prod'.i + 2] = prod'.number
    BY <1>1, <1>2 DEF ProgInv, Added
  <1> QED BY <1>1, <1>2, <1>3, <1>4, <1>5, <1>6, <1>7, <1>10, <1>11, <1>12, <1>13, <1>14, FrameProgram

(* The count is the one main expects, and each number adds to the sum.     *)
LEMMA MainGotKeeps ==
    ASSUME QueueInv, Running, ProgInv, MainGotCount \/ MainGot
    PROVE  Running' /\ ProgInv'
  <1> DEFINE M == MainThread  P == ProducerThread
  <1>1. /\ main.at \in {"got_count", "got"} /\ pc[M] = "idle" /\ UNCHANGED <<argv, prod, data, mq, handle, pc, arg, ret, stored, rcvd>>
        /\ SamePlace(P)
    BY NothingMoves DEF MainGotCount, MainGot, Returned
  <1>2. ret[M] = "MSG" /\ Receiving /\ Took = 1
    BY <1>1, LabelSets DEF ProgInv, MainPlace, Receiving, Took
  <1>3. /\ main.i \in Nat /\ main.sum \in Int /\ Sent \in Nat /\ Got \in Nat /\ argv.count \in Int /\ Total \in Nat
        /\ prod.i \in Nat
    BY ReceivedOfSent, ProdConAssumption DEF ProgInv, ProgTypes
  <1>4. Got = IF main.at = "got" THEN main.i + 2 ELSE 1
    BY <1>1, <1>2, <1>3 DEF ProgInv, Counted
  <1>5. Value = data[Got] /\ Value \in Int /\ Got \in 1..Len(data)
    BY <1>3, <1>4, ValueIs
  <1>6. main.at = "got_count" => Value = argv.count
    BY <1>3, <1>4, <1>5 DEF ProgInv, Added
  <1>7. \/ main.at = "got_count" /\ main' = [main EXCEPT !.at = "loop", !.count = argv.count]
        \/ main.at = "got" /\ main' = [main EXCEPT !.at = "loop", !.i = @ + 1, !.sum = @ + Value]
    BY <1>1, <1>2, <1>6 DEF MainGotCount, MainGot, MainAt
  <1>8. /\ main' \in [at : MainLabel, count : Int, i : Nat, sum : Int, broken : {FALSE}] /\ main'.at = "loop"
        /\ \/ main.at = "got_count" /\ main'.i = main.i /\ main'.sum = main.sum /\ main'.count = argv.count
           \/ main.at = "got" /\ main'.i = main.i + 1 /\ main'.sum = main.sum + Value /\ main'.count = main.count
    <2>1. main \in [at : MainLabel, count : Int, i : Nat, sum : Int, broken : {FALSE}] /\ "loop" \in MainLabel
      BY DEF ProgInv, ProgTypes, MainLabel
    <2>2. main.i + 1 \in Nat /\ main.sum + Value \in Int
      BY <1>3, <1>5
    <2>3. CASE main.at = "got_count" /\ main' = [main EXCEPT !.at = "loop", !.count = argv.count]
      BY <1>3, <2>1, <2>3
    <2>4. CASE main.at = "got" /\ main' = [main EXCEPT !.at = "loop", !.i = @ + 1, !.sum = @ + Value]
      <3> HIDE DEF Value
      <3> QED BY <2>1, <2>2, <2>4
    <2> QED BY <1>7, <2>3, <2>4
  <1>9. Running' /\ ProgTypes'
    BY <1>1, <1>8 DEF Running, ProgInv, ProgTypes
  <1>10. HoldsReader /\ HoldsReader' /\ (HoldsWriter' <=> HoldsWriter)
    BY <1>1, <1>8 DEF HoldsReader, HoldsWriter
  <1>11. MainPlace'
    BY <1>1, <1>8 DEF MainPlace, Receiving
  <1>12. ProdPlace' /\ Put' = Put
    BY <1>1, <1>8, ProdStays
  <1>13. Took' = 0
    BY <1>8 DEF Took, Receiving
  <1>14. Counted'
    <2>1. Got' = Got /\ Sent' = Sent /\ Total' = Total /\ (LargeEnough' <=> LargeEnough)
      BY <1>1 DEF Got, Sent, Total, LargeEnough
    <2>2. main.at = "got_count" => main.i = 0
      BY DEF ProgInv, Counted
    <2>3. main.at = "got" => main.i < Total /\ main.count = argv.count
      BY DEF ProgInv, Counted
    <2>4. Got' = Took' + main'.i + 1 /\ main'.i <= Total' /\ main'.i \in Nat
      BY <1>3, <1>4, <1>8, <1>13, <2>1, <2>2, <2>3
    <2>5. main'.count = argv'.count /\ main'.at = "loop" /\ Put' = Put /\ prod' = prod
      BY <1>1, <1>8, <1>12, <2>3
    <2>6. Sent' = Put' + (IF prod'.at \in {"loop", "wrote", "closed", "done"} THEN prod'.i + 1 ELSE 0)
          /\ (Sent' > 0 => LargeEnough') /\ prod'.i <= Total'
          /\ (prod'.at \notin {"loop", "wrote", "closed", "done"} => prod'.i = 0)
          /\ (prod'.at = "wrote" => prod'.i < Total') /\ (prod'.at \in {"closed", "done"} => prod'.i = Total')
      BY <2>1, <2>5 DEF ProgInv, Counted
    <2> QED BY <1>13, <2>4, <2>5, <2>6 DEF Counted
  <1>15. Sums'
    <2>1. PICK s \in [Nat -> Int] :
            /\ s[0] = 0 /\ \A k \in 1..Len(data) - 1 : s[k] = s[k - 1] + data[k + 1]
            /\ main.sum = s[main.i] /\ prod.sum = s[prod.i]
      BY DEF ProgInv, Sums
    <2>2. CASE main.at = "got"
      <3>1. main.i + 1 \in 1..Len(data) - 1 /\ (main.i + 1) - 1 = main.i /\ (main.i + 1) + 1 = Got
        <4>1. Len(data) \in Nat
          BY DEF ProgInv, ProgTypes
        <4>2. Got = main.i + 2 /\ Got <= Len(data)
          BY <1>4, <1>5, <2>2
        <4>3. \A i, g, n \in Nat : g = i + 2 /\ g <= n => i + 1 \in 1..n - 1 /\ (i + 1) - 1 = i /\ (i + 1) + 1 = g
          OBVIOUS
        <4> QED BY <1>3, <4>1, <4>2, <4>3
      <3>2. s[main.i + 1] = s[(main.i + 1) - 1] + data[(main.i + 1) + 1]
        BY <2>1, <3>1
      <3>3. main'.sum = s[main'.i]
        BY <1>5, <1>8, <2>1, <2>2, <3>1, <3>2
      <3> QED BY <1>1, <2>1, <3>3 DEF Sums
    <2>3. CASE main.at = "got_count"
      BY <1>1, <1>8, <2>1, <2>3 DEF Sums
    <2> QED BY <1>1, <2>2, <2>3
  <1>16. prod'.at = "wrote_count" => prod'.number = argv.count
    BY <1>1 DEF ProgInv, Added
  <1>17. prod'.at = "wrote" /\ pc'[P] \notin WriteLabels => data[prod'.i + 2] = prod'.number
    BY <1>1 DEF ProgInv, Added
  <1>18. mq[TheQueue].status # "unborn"
    BY <1>1 DEF ProgInv, QueueKnown
  <1> QED BY <1>1, <1>8, <1>9, <1>10, <1>11, <1>12, <1>14, <1>15, <1>16, <1>17, <1>18, FrameProgram

LEMMA MainCloseKeeps ==
    ASSUME QueueInv, Running, ProgInv, MainClose
    PROVE  Running' /\ ProgInv'
  <1> DEFINE M == MainThread  P == ProducerThread
  <1>1. /\ main.at = "loop" /\ ~(main.i < main.count) /\ main' = [main EXCEPT !.at = "closed"]
        /\ UNCHANGED <<argv, prod, data>> /\ msg_queue_close(MainQueue) /\ pc[M] = "idle"
    BY DEF MainClose, MainAt, MainLoops, ProgInv, MainPlace
  <1>2. HoldsReader /\ handle[MainQueue] # NullHandle /\ mq[TheQueue].status # "unborn"
    BY <1>1, Constants DEF HoldsReader, ProgInv, HandlesHeld, QueueKnown, NullHandle
  <1>3. Enter(M, "close_lock", WithHandle(MainQueue))
    BY <1>1, <1>2, Constants DEF msg_queue_close
  <1>4. /\ pc'[M] = "close_lock" /\ UNCHANGED <<mq, handle, stored, rcvd>>
        /\ SamePlace(P) /\ pc'[P] = pc[P] /\ arg'[P] = arg[P]
    BY <1>3, EnterEffect, Constants
  <1>5. /\ main' \in [at : MainLabel, count : Int, i : Nat, sum : Int, broken : {FALSE}]
        /\ main'.at = "closed" /\ main'.i = main.i /\ main'.sum = main.sum /\ main'.count = main.count
    BY <1>1 DEF ProgInv, ProgTypes, MainLabel
  <1>6. Running' /\ ProgTypes'
    BY <1>1, <1>5 DEF Running, ProgInv, ProgTypes
  <1>7. HoldsReader' /\ (HoldsWriter' <=> HoldsWriter)
    BY <1>1, <1>4, <1>5 DEF HoldsReader, HoldsWriter, Closing
  <1>8. MainPlace'
    BY <1>4, <1>5 DEF MainPlace, Receiving, Closing
  <1>9. ProdPlace' /\ Put' = Put
    BY <1>1, <1>4, <1>5, ProdStays
  <1>10. Took = 0 /\ Took' = 0
    BY <1>1, <1>5 DEF Took, Receiving
  <1>11. main.i = Total
    <2>1. main.count = argv.count /\ main.i <= Total
      BY <1>1 DEF ProgInv, Counted
    <2>2. argv.count \in Int /\ main.i \in Nat
      BY ProdConAssumption DEF ProgInv, ProgTypes
    <2> QED BY <1>1, <2>1, <2>2 DEF Total
  <1>12. Counted'
    <2>1. Got' = Got /\ Sent' = Sent /\ Total' = Total /\ (LargeEnough' <=> LargeEnough)
      BY <1>1, <1>4 DEF Got, Sent, Total, LargeEnough
    <2> QED BY <1>1, <1>5, <1>9, <1>10, <1>11, <2>1 DEF ProgInv, Counted
  <1>13. Sums'
    BY <1>1, <1>5 DEF ProgInv, Sums
  <1>14. \A t \in Threads : (pc[t] = "destroy" <=> pc'[t] = "destroy") /\ (pc[t] = "destroy" => arg'[t] = arg[t])
    BY <1>1, <1>4, Constants
  <1>15. prod'.at = "wrote_count" => prod'.number = argv.count
    BY <1>1 DEF ProgInv, Added
  <1>16. prod'.at = "wrote" /\ pc'[P] \notin WriteLabels => data[prod'.i + 2] = prod'.number
    BY <1>1, <1>4 DEF ProgInv, Added
  <1> QED BY <1>1, <1>2, <1>4, <1>5, <1>6, <1>7, <1>8, <1>9, <1>12, <1>13, <1>14, <1>15, <1>16, FrameProgram

(* The assert on the result of the close holds.                            *)
LEMMA MainClosedKeeps ==
    ASSUME QueueInv, Running, ProgInv, MainClosed
    PROVE  Running' /\ ProgInv'
  <1> DEFINE M == MainThread  P == ProducerThread
  <1>1. /\ main.at = "closed" /\ pc[M] = "idle"
        /\ UNCHANGED <<argv, prod, data, mq, handle, pc, arg, ret, stored, rcvd>> /\ SamePlace(P)
    BY NothingMoves DEF MainClosed, Returned
  <1>2. ret[M] = "OK" /\ mq[TheQueue].status # "unborn"
    BY <1>1 DEF ProgInv, MainPlace, QueueKnown, Closing
  <1>3. /\ main' \in [at : MainLabel, count : Int, i : Nat, sum : Int, broken : {FALSE}]
        /\ main'.at = "join" /\ main'.i = main.i /\ main'.sum = main.sum /\ main'.count = main.count
    BY <1>1, <1>2 DEF MainClosed, MainAt, ProgInv, ProgTypes, MainLabel
  <1>4. Running' /\ ProgTypes'
    BY <1>1, <1>3 DEF Running, ProgInv, ProgTypes
  <1>5. ~HoldsReader /\ ~HoldsReader' /\ (HoldsWriter' <=> HoldsWriter)
    BY <1>1, <1>3 DEF HoldsReader, HoldsWriter, Closing
  <1>6. MainPlace'
    BY <1>1, <1>3 DEF MainPlace, Receiving
  <1>7. ProdPlace' /\ Put' = Put
    BY <1>1, <1>3, ProdStays
  <1>8. Took = 0 /\ Took' = 0
    BY <1>1, <1>3 DEF Took, Receiving
  <1>9. Counted'
    <2>1. Got' = Got /\ Sent' = Sent /\ Total' = Total /\ (LargeEnough' <=> LargeEnough)
      BY <1>1 DEF Got, Sent, Total, LargeEnough
    <2> QED BY <1>1, <1>3, <1>7, <1>8, <2>1 DEF ProgInv, Counted
  <1>10. Sums'
    BY <1>1, <1>3 DEF ProgInv, Sums
  <1>11. prod'.at = "wrote_count" => prod'.number = argv.count
    BY <1>1 DEF ProgInv, Added
  <1>12. prod'.at = "wrote" /\ pc'[P] \notin WriteLabels => data[prod'.i + 2] = prod'.number
    BY <1>1 DEF ProgInv, Added
  <1> QED BY <1>1, <1>2, <1>3, <1>4, <1>5, <1>6, <1>7, <1>9, <1>10, <1>11, <1>12, FrameProgram

(* The comparison of the sums holds, and the queue is gone.                *)
LEMMA JoinKeeps ==
    ASSUME QueueInv, Running, ProgInv, pthread_join
    PROVE  ~Running' /\ Promised'
  <1> DEFINE M == MainThread  P == ProducerThread
  <1>1. CASE MainAt("exit1")
    BY <1>1, NothingMoves DEF MainAt, pthread_join, ProgInv, ProgTypes, Running, Promised, AssertsHold, NoBrokenPipe, CleanExit
  <1>2. CASE ~MainAt("exit1")
    <2>1. /\ main.at = "join" /\ pc[M] = "idle" /\ prod.at = "done"
          /\ UNCHANGED <<argv, prod, data, mq, handle, pc, arg, ret, stored, rcvd>>
      BY <1>2, NothingMoves DEF pthread_join, ProgInv, MainPlace
    <2>2. pc[P] = "idle"
      BY <2>1 DEF ProgInv, ProdPlace
    <2>3. main.i = Total /\ prod.i = Total /\ Total \in Nat
      BY <2>1, ReceivedOfSent DEF ProgInv, Counted
    <2>4. prod.sum = main.sum
      BY <2>3 DEF ProgInv, Sums
    <2>5. main' = [main EXCEPT !.at = "exit0"]
      BY <1>2, <2>4 DEF pthread_join, MainAt
    <2>6. main'.at = "exit0" /\ main'.broken = FALSE /\ prod'.broken = FALSE
      BY <2>1, <2>5 DEF ProgInv, ProgTypes
    <2>7. Took = 0 /\ Put = 0
      BY <2>1 DEF Took, Put, Receiving, Sending
    <2>8. Got = 1 + Total /\ Sent = 1 + Total /\ Len(data) = Sent
      BY <2>1, <2>3, <2>7 DEF ProgInv, Counted, Added
    <2>9. mq[TheQueue].status = "freed"
      <3>1. ~HoldsReader /\ ~HoldsWriter
        BY <2>1, <2>2 DEF HoldsReader, HoldsWriter, Closing
      <3>2. mq[TheQueue].status # "unborn" /\ mq[TheQueue].status # "live"
        BY <2>1, <2>2, <3>1, Constants DEF ProgInv, QueueKnown
      <3> QED BY <3>2, Constants DEF QueueInv, MemoryInv, TypeOK, Backend
    <2>10. CleanExit'
      BY <2>1, <2>8, <2>9 DEF CleanExit, Got, Total
    <2> QED BY <2>1, <2>6, <2>10 DEF Running, Promised, AssertsHold, NoBrokenPipe
  <1> QED BY <1>1, <1>2

LEMMA MainKeeps ==
    ASSUME QueueInv, Running, ProgInv, MainStep
    PROVE  (Running' /\ ProgInv') \/ (~Running' /\ Promised')
  BY CreateKeeps, MainOpenKeeps, ThreadKeeps, MainReadKeeps, MainGotKeeps, MainCloseKeeps, MainClosedKeeps, JoinKeeps
     DEF MainStep

-----------------------------------------------------------------------------
(* The producer between its calls.                                         *)
LEMMA ProdRuns ==
    ASSUME ProgInv, prod.at # "none"
    PROVE  main.at \notin {"start", "created", "opened"} /\ mq[TheQueue].status # "unborn"
  BY DEF ProgInv, ProdPlace, QueueKnown

LEMMA ProdWriteKeeps ==
    ASSUME QueueInv, Running, ProgInv, ProdWriteCount \/ ProdWrite
    PROVE  Running' /\ ProgInv'
  <1> DEFINE M == MainThread  P == ProducerThread
  <1>1. PICK n : /\ \/ prod.at = "write_count" /\ prod' = [prod EXCEPT !.at = "wrote_count", !.number = n] /\ n = argv.count
                    \/ /\ prod.at = "loop" /\ prod' = [prod EXCEPT !.at = "wrote", !.number = n]
                       /\ prod.i < argv.count /\ n \in Numbers
                 /\ UNCHANGED <<argv, main, data>> /\ msg_queue_write(Transfer(ContextQueue))
    BY DEF ProdWriteCount, ProdWrite, ProdLoops
  <1>2. HoldsWriter /\ handle[ContextQueue].flags = {"WRITER"} /\ pc[P] = "idle"
    BY <1>1 DEF HoldsWriter, ProgInv, HandlesHeld, ProdPlace
  <1>3. Enter(P, "write_lock", [WithHandle(ContextQueue) EXCEPT !.len = IntSize])
    BY <1>2, <1>1, Constants DEF msg_queue_write, Transfer
  <1>4. P \in Threads /\ M \in Threads \ {P}
    BY Constants
  <1>5. /\ pc'[P] = "write_lock" /\ UNCHANGED <<mq, handle, stored, rcvd>>
        /\ SamePlace(M) /\ pc'[M] = pc[M] /\ arg'[M] = arg[M] /\ ret'[M] = ret[M]
    BY <1>3, <1>4, EnterEffect
  <1>6. argv.count \in Int /\ n \in Int /\ prod.i \in Nat
    BY <1>1, ProdConAssumption DEF ProgInv, ProgTypes
  <1>7. /\ prod' \in [at : ProdLabel, number : Int, i : Nat, sum : Int, broken : {FALSE}]
        /\ prod'.i = prod.i /\ prod'.sum = prod.sum /\ prod'.number = n
        /\ \/ prod.at = "write_count" /\ prod'.at = "wrote_count" /\ n = argv.count
           \/ prod.at = "loop" /\ prod'.at = "wrote"
    BY <1>1, <1>6 DEF ProgInv, ProgTypes, ProdLabel
  <1>8. Running' /\ ProgTypes'
    BY <1>1, <1>7 DEF Running, ProgInv, ProgTypes
  <1>9. HoldsWriter' /\ (HoldsReader' <=> HoldsReader)
    BY <1>1, <1>5, <1>7 DEF HoldsReader, HoldsWriter
  <1>10. MainPlace' /\ Took' = Took
    BY <1>1, <1>5, MainStays
  <1>11. ProdPlace'
    BY <1>1, <1>5, <1>7, ProdRuns DEF ProdPlace, Sending, WriteLabels
  <1>12. Put = 0 /\ Put' = 0
    BY <1>1, <1>5, <1>7 DEF Put, Sending, WriteLabels
  <1>13. Counted'
    <2>1. Got' = Got /\ Sent' = Sent /\ Total' = Total /\ (LargeEnough' <=> LargeEnough)
      BY <1>1, <1>5 DEF Got, Sent, Total, LargeEnough
    <2>2. prod.at = "loop" => prod.i < Total
      BY <1>1, <1>6 DEF Total
    <2> QED BY <1>1, <1>7, <1>10, <1>12, <2>1, <2>2 DEF ProgInv, Counted
  <1>14. Sums'
    BY <1>1, <1>7 DEF ProgInv, Sums
  <1>15. \A t \in Threads : (pc[t] = "destroy" <=> pc'[t] = "destroy") /\ (pc[t] = "destroy" => arg'[t] = arg[t])
    BY <1>2, <1>5, Constants
  <1>16. prod'.at = "wrote_count" => prod'.number = argv.count
    BY <1>7
  <1>17. pc'[P] \in WriteLabels
    BY <1>5 DEF WriteLabels
  <1>18. mq[TheQueue].status # "unborn" /\ main.at \notin {"start", "created", "opened"}
    BY <1>1, ProdRuns
  <1> QED BY <1>1, <1>2, <1>5, <1>8, <1>9, <1>10, <1>11, <1>13, <1>14, <1>15, <1>16, <1>17, <1>18, FrameProgram

LEMMA WroteCountKeeps ==
    ASSUME QueueInv, Running, ProgInv, ProdWroteCount
    PROVE  (Running' /\ ProgInv') \/ (~Running' /\ Promised')
  <1> DEFINE M == MainThread  P == ProducerThread
  <1>1. /\ prod.at = "wrote_count" /\ pc[P] = "idle" /\ UNCHANGED <<argv, main, data, mq, handle, pc, arg, ret, stored, rcvd>>
        /\ SamePlace(M)
    BY NothingMoves DEF ProdWroteCount, Returned
  <1>2. main.at \notin {"start", "created", "opened"} /\ mq[TheQueue].status # "unborn"
    BY <1>1, ProdRuns
  <1>3. CASE ret[P] # "OK"
    <2>1. prod'.at = "aborted" /\ prod'.broken = FALSE
      BY <1>1, <1>3 DEF ProdWroteCount, ProdAt, ProgInv, ProgTypes
    <2>2. ~LargeEnough
      BY <1>1, <1>3, LabelSets DEF ProgInv, ProdPlace, Sending
    <2> QED BY <1>1, <2>1, <2>2
            DEF ProgInv, ProgTypes, Running, Promised, AssertsHold, NoBrokenPipe, CleanExit, LargeEnough
  <1>4. CASE ret[P] = "OK"
    <2>1. /\ prod' \in [at : ProdLabel, number : Int, i : Nat, sum : Int, broken : {FALSE}]
          /\ prod'.i = prod.i /\ prod'.sum = prod.sum /\ prod'.at = "loop"
      BY <1>1, <1>4 DEF ProdWroteCount, ProdAt, ProgInv, ProgTypes, ProdLabel
    <2>2. Running' /\ ProgTypes'
      BY <1>1, <2>1 DEF Running, ProgInv, ProgTypes
    <2>3. HoldsWriter /\ HoldsWriter' /\ (HoldsReader' <=> HoldsReader)
      BY <1>1, <2>1 DEF HoldsReader, HoldsWriter
    <2>4. MainPlace' /\ Took' = Took
      BY <1>1, MainStays
    <2>5. ProdPlace'
      BY <1>1, <1>2, <2>1 DEF ProdPlace, Sending
    <2>6. Put = 1 /\ Put' = 0 /\ prod.i = 0
      BY <1>1, <1>4, <2>1, LabelSets DEF Put, Sending, ProgInv, Counted
    <2>7. Counted'
      <3>1. Got' = Got /\ Sent' = Sent /\ Total' = Total /\ (LargeEnough' <=> LargeEnough)
        BY <1>1 DEF Got, Sent, Total, LargeEnough
      <3> QED BY <1>1, <2>1, <2>4, <2>6, <3>1 DEF ProgInv, Counted
    <2>8. Sums'
      BY <1>1, <2>1 DEF ProgInv, Sums
    <2> QED BY <1>1, <1>2, <2>1, <2>2, <2>3, <2>4, <2>5, <2>7, <2>8, FrameProgram
  <1> QED BY <1>3, <1>4

LEMMA WroteKeeps ==
    ASSUME QueueInv, Running, ProgInv, ProdWrote
    PROVE  Running' /\ ProgInv'
  <1> DEFINE M == MainThread  P == ProducerThread
  <1>1. /\ prod.at = "wrote" /\ pc[P] = "idle" /\ UNCHANGED <<argv, main, data, mq, handle, pc, arg, ret, stored, rcvd>>
        /\ SamePlace(M)
    BY NothingMoves DEF ProdWrote, Returned
  <1>2. main.at \notin {"start", "created", "opened"} /\ mq[TheQueue].status # "unborn"
    BY <1>1, ProdRuns
  <1>3. ret[P] = "OK"
    BY <1>1, LabelSets DEF ProgInv, ProdPlace, Sending
  <1>4. prod' = [prod EXCEPT !.at = "loop", !.i = @ + 1, !.sum = @ + prod.number]
    BY <1>3 DEF ProdWrote
  <1>5. /\ prod' \in [at : ProdLabel, number : Int, i : Nat, sum : Int, broken : {FALSE}]
        /\ prod'.i = prod.i + 1 /\ prod'.sum = prod.sum + prod.number /\ prod'.at = "loop" /\ prod.i \in Nat
    <2>1. prod \in [at : ProdLabel, number : Int, i : Nat, sum : Int, broken : {FALSE}] /\ "loop" \in ProdLabel
      BY DEF ProgInv, ProgTypes, ProdLabel
    <2>2. prod.i + 1 \in Nat /\ prod.sum + prod.number \in Int /\ prod.i \in Nat
      BY <2>1
    <2> QED BY <1>4, <2>1, <2>2
  <1>6. Running' /\ ProgTypes'
    BY <1>1, <1>5 DEF Running, ProgInv, ProgTypes
  <1>7. HoldsWriter /\ HoldsWriter' /\ (HoldsReader' <=> HoldsReader)
    BY <1>1, <1>5 DEF HoldsReader, HoldsWriter
  <1>8. MainPlace' /\ Took' = Took
    BY <1>1, MainStays
  <1>9. ProdPlace'
    BY <1>1, <1>2, <1>5 DEF ProdPlace, Sending
  <1>10. Put = 1 /\ Put' = 0
    BY <1>1, <1>3, <1>5, LabelSets DEF Put, Sending
  <1>11. Sent = prod.i + 2 /\ prod.i + 1 <= Total /\ Total \in Nat
    <2>1. Sent = 1 + (prod.i + 1) /\ prod.i < Total
      BY <1>1, <1>10 DEF ProgInv, Counted
    <2> QED BY <1>5, <2>1, ReceivedOfSent
  <1>12. Counted'
    <2>1. Got' = Got /\ Sent' = Sent /\ Total' = Total /\ (LargeEnough' <=> LargeEnough)
      BY <1>1 DEF Got, Sent, Total, LargeEnough
    <2>2. Sent' = Put' + (prod'.i + 1)
      BY <1>5, <1>10, <1>11, <2>1
    <2> QED BY <1>1, <1>5, <1>8, <1>11, <2>1, <2>2 DEF ProgInv, Counted
  <1>13. Sums'
    <2>1. PICK s \in [Nat -> Int] :
            /\ s[0] = 0 /\ \A k \in 1..Len(data) - 1 : s[k] = s[k - 1] + data[k + 1]
            /\ main.sum = s[main.i] /\ prod.sum = s[prod.i]
      BY DEF ProgInv, Sums
    <2>2. data[prod.i + 2] = prod.number /\ Len(data) = prod.i + 2
      BY <1>1, <1>11, LabelSets DEF ProgInv, Added
    <2>3. \A i \in Nat : i + 1 \in 1..(i + 2) - 1 /\ (i + 1) - 1 = i /\ (i + 1) + 1 = i + 2
      OBVIOUS
    <2>4. s[prod.i + 1] = s[(prod.i + 1) - 1] + data[(prod.i + 1) + 1]
      BY <1>5, <2>1, <2>2, <2>3
    <2>5. prod'.sum = s[prod'.i]
      BY <1>5, <2>1, <2>2, <2>3, <2>4
    <2> QED BY <1>1, <2>1, <2>5 DEF Sums
  <1> QED BY <1>1, <1>2, <1>5, <1>6, <1>7, <1>8, <1>9, <1>12, <1>13, FrameProgram

LEMMA ProdCloseKeeps ==
    ASSUME QueueInv, Running, ProgInv, ProdClose \/ ProdClosed
    PROVE  Running' /\ ProgInv'
  <1> DEFINE M == MainThread  P == ProducerThread
  <1>1. CASE ProdClose
    <2>1. /\ prod.at = "loop" /\ ~(prod.i < argv.count) /\ prod' = [prod EXCEPT !.at = "closed"]
          /\ UNCHANGED <<argv, main, data>> /\ msg_queue_close(ContextQueue) /\ pc[P] = "idle"
      BY <1>1 DEF ProdClose, ProdAt, ProdLoops, ProgInv, ProdPlace
    <2>2. HoldsWriter /\ handle[ContextQueue] # NullHandle
      BY <2>1, Constants DEF HoldsWriter, ProgInv, HandlesHeld, NullHandle
    <2>3. Enter(P, "close_lock", WithHandle(ContextQueue))
      BY <2>1, <2>2, Constants DEF msg_queue_close
    <2>4. P \in Threads /\ M \in Threads \ {P}
      BY Constants
    <2>5. /\ pc'[P] = "close_lock" /\ UNCHANGED <<mq, handle, stored, rcvd>>
          /\ SamePlace(M) /\ pc'[M] = pc[M] /\ arg'[M] = arg[M] /\ ret'[M] = ret[M]
      BY <2>3, <2>4, EnterEffect
    <2>6. /\ prod' \in [at : ProdLabel, number : Int, i : Nat, sum : Int, broken : {FALSE}]
          /\ prod'.i = prod.i /\ prod'.sum = prod.sum /\ prod'.at = "closed"
      BY <2>1 DEF ProgInv, ProgTypes, ProdLabel
    <2>7. Running' /\ ProgTypes'
      BY <2>1, <2>6 DEF Running, ProgInv, ProgTypes
    <2>8. HoldsWriter' /\ (HoldsReader' <=> HoldsReader)
      BY <2>1, <2>5, <2>6 DEF HoldsReader, HoldsWriter, Closing
    <2>9. MainPlace' /\ Took' = Took
      BY <2>1, <2>5, MainStays
    <2>10. mq[TheQueue].status # "unborn" /\ main.at \notin {"start", "created", "opened"}
      BY <2>1, ProdRuns
    <2>11. ProdPlace'
      BY <2>1, <2>5, <2>6, <2>10 DEF ProdPlace, Sending, Closing
    <2>12. Put = 0 /\ Put' = 0
      BY <2>1, <2>6 DEF Put, Sending
    <2>13. prod.i = Total
      <3>1. argv.count \in Int /\ prod.i \in Nat /\ prod.i <= Total
        BY ProdConAssumption DEF ProgInv, ProgTypes, Counted
      <3> QED BY <2>1, <3>1 DEF Total
    <2>14. Counted'
      <3>1. Got' = Got /\ Sent' = Sent /\ Total' = Total /\ (LargeEnough' <=> LargeEnough)
        BY <2>1, <2>5 DEF Got, Sent, Total, LargeEnough
      <3> QED BY <2>1, <2>6, <2>9, <2>12, <2>13, <3>1 DEF ProgInv, Counted
    <2>15. Sums'
      BY <2>1, <2>6 DEF ProgInv, Sums
    <2>16. \A t \in Threads : (pc[t] = "destroy" <=> pc'[t] = "destroy") /\ (pc[t] = "destroy" => arg'[t] = arg[t])
      BY <2>1, <2>5, Constants
    <2> QED BY <2>1, <2>2, <2>5, <2>6, <2>7, <2>8, <2>9, <2>10, <2>11, <2>14, <2>15, <2>16, FrameProgram
  <1>2. CASE ProdClosed
    <2>1. /\ prod.at = "closed" /\ pc[P] = "idle" /\ UNCHANGED <<argv, main, data, mq, handle, pc, arg, ret, stored, rcvd>>
          /\ SamePlace(M)
      BY <1>2, NothingMoves DEF ProdClosed, Returned
    <2>2. ret[P] = "OK"
      BY <2>1 DEF ProgInv, ProdPlace, Closing
    <2>3. /\ prod' \in [at : ProdLabel, number : Int, i : Nat, sum : Int, broken : {FALSE}]
          /\ prod'.i = prod.i /\ prod'.sum = prod.sum /\ prod'.at = "done"
      BY <1>2, <2>2 DEF ProdClosed, ProdAt, ProgInv, ProgTypes, ProdLabel
    <2>4. Running' /\ ProgTypes'
      BY <2>1, <2>3 DEF Running, ProgInv, ProgTypes
    <2>5. mq[TheQueue].status # "unborn" /\ main.at \notin {"start", "created", "opened"}
      BY <2>1, ProdRuns
    <2>6. ~HoldsWriter /\ ~HoldsWriter' /\ (HoldsReader' <=> HoldsReader)
      BY <2>1, <2>3, <2>5 DEF HoldsReader, HoldsWriter, Closing
    <2>7. MainPlace' /\ Took' = Took
      BY <2>1, MainStays
    <2>8. ProdPlace'
      BY <2>1, <2>3, <2>5 DEF ProdPlace, Sending
    <2>9. Put = 0 /\ Put' = 0
      BY <2>1, <2>3 DEF Put, Sending
    <2>10. Counted'
      <3>1. Got' = Got /\ Sent' = Sent /\ Total' = Total /\ (LargeEnough' <=> LargeEnough)
        BY <2>1 DEF Got, Sent, Total, LargeEnough
      <3> QED BY <2>1, <2>3, <2>7, <2>9, <3>1 DEF ProgInv, Counted
    <2>11. Sums'
      BY <2>1, <2>3 DEF ProgInv, Sums
    <2> QED BY <2>1, <2>3, <2>4, <2>5, <2>6, <2>7, <2>8, <2>10, <2>11, FrameProgram
  <1> QED BY <1>1, <1>2

LEMMA ProdKeeps ==
    ASSUME QueueInv, Running, ProgInv, ProdStep
    PROVE  (Running' /\ ProgInv') \/ (~Running' /\ Promised')
  BY ProdWriteKeeps, WroteCountKeeps, WroteKeeps, ProdCloseKeeps DEF ProdStep

-----------------------------------------------------------------------------
LEMMA InitKeeps == ProdConInit => ProdConInv
  <1> SUFFICES ASSUME ProdConInit PROVE ProdConInv
    OBVIOUS
  <1>1. Init /\ QueueInv
    BY MemoryInit, ChannelInit, FlightInit, NumbersInit DEF ProdConInit, QueueInv
  <1>2. /\ argv \in [capacity : Capacities, count : Counts]
        /\ main = [at |-> "start", count |-> 0, i |-> 0, sum |-> 0, broken |-> FALSE]
        /\ prod = [at |-> "none", number |-> 0, i |-> 0, sum |-> 0, broken |-> FALSE]
        /\ data = <<>>
    BY DEF ProdConInit
  <1>3. /\ \A t \in Threads : pc[t] = "idle" /\ ret[t] = "none"
        /\ handle[MainQueue] = NullHandle /\ handle[ContextQueue] = NullHandle
        /\ mq[TheQueue].status = "unborn" /\ stored[TheQueue] = 0 /\ rcvd[TheQueue] = <<>>
    BY <1>1, Constants DEF Init, Unborn, mq_init
  <1>4. MainThread \in Threads /\ ProducerThread \in Threads
    BY Constants
  <1>5. ProgTypes
    BY <1>2 DEF ProgTypes, MainLabel, ProdLabel
  <1>6. MainPlace /\ ProdPlace
    BY <1>2, <1>3, <1>4 DEF MainPlace, ProdPlace, Receiving, Sending
  <1>7. HandlesHeld
    BY <1>2, <1>3, <1>4 DEF HandlesHeld, HoldsReader, HoldsWriter
  <1>8. QueueKnown
    BY <1>2, <1>3, <1>4 DEF QueueKnown
  <1>9. Counted
    <2>1. Total \in Nat
      <3>1. argv.count \in Int
        BY <1>2, ProdConAssumption
      <3> QED BY <3>1 DEF Total
    <2>2. Got = 0 /\ Sent = 0 /\ Took = 0 /\ Put = 0
      BY <1>2, <1>3 DEF Got, Sent, Took, Put, Receiving, Sending
    <2> QED BY <1>2, <2>1, <2>2 DEF Counted
  <1>10. Added
    BY <1>2, <1>3 DEF Added, Sent
  <1>11. Sums
    <2> DEFINE s == [k \in Nat |-> 0]
    <2>1. s \in [Nat -> Int] /\ s[0] = 0
      OBVIOUS
    <2>2. \A k \in 1..Len(data) - 1 : s[k] = s[k - 1] + data[k + 1]
      BY <1>2
    <2> QED BY <1>2, <2>1, <2>2 DEF Sums
  <1>12. Running /\ ProgInv
    BY <1>2, <1>5, <1>6, <1>7, <1>8, <1>9, <1>10, <1>11 DEF ProgInv, Running
  <1> QED BY <1>1, <1>12, RunningPromised DEF ProdConInv

LEMMA StepKeeps == ProdConInv /\ [ProdConNext]_allVars => ProdConInv'
  <1> SUFFICES ASSUME ProdConInv, [ProdConNext]_allVars PROVE ProdConInv'
    OBVIOUS
  <1>1. CASE UNCHANGED allVars
    <2>1. UNCHANGED <<mq, handle, pc, arg, ret, scan, pollm, stored, rcvd, argv, main, prod, data>>
      BY <1>1 DEF allVars, vars, progVars
    <2>2. QueueInv'
      BY <1>1, QueueStep DEF ProdConInv, allVars
    <2>3. Promised' /\ (Running' <=> Running)
      BY <2>1 DEF ProdConInv, Promised, AssertsHold, NoBrokenPipe, CleanExit, LargeEnough, Running
    <2>4. Running => ProgInv'
      <3>1. Unmoved
        BY <2>1 DEF Unmoved, SamePlace, progVars
      <3> QED BY <3>1, UnmovedInv DEF ProdConInv
    <2> QED BY <2>2, <2>3, <2>4 DEF ProdConInv
  <1>2. CASE ProdConNext
    <2>1. QueueInv /\ Running /\ ProgInv
      BY <1>2 DEF ProdConNext, ProdConInv
    <2>2. QueueInv'
      BY <1>2, <2>1, ProgramCalls, QueueStep DEF ProgInv
    <2>3. (Running' /\ ProgInv') \/ (~Running' /\ Promised')
      BY <1>2, <2>1, <2>2, MainKeeps, ProdKeeps, CallStepKeeps DEF ProdConNext
    <2>4. Running' /\ ProgInv' => Promised'
      BY DEF ProgInv, ProgTypes, Running, Promised, AssertsHold, NoBrokenPipe, CleanExit
    <2> QED BY <2>2, <2>3, <2>4 DEF ProdConInv
  <1> QED BY <1>1, <1>2

(* The program prodcon.c keeps its asserts: the count is sent and received *)
(* whole, no side sees the other leave early, the two sums are equal, and  *)
(* an exit with success has received every number and freed the queue.     *)
THEOREM ProdConCorrect == ProdConSpec => [](AssertsHold /\ NoBrokenPipe /\ CleanExit)
  <1>1. ProdConInv => AssertsHold /\ NoBrokenPipe /\ CleanExit
    BY DEF ProdConInv, Promised
  <1> QED BY <1>1, InitKeeps, StepKeeps, PTL DEF ProdConSpec

=============================================================================
