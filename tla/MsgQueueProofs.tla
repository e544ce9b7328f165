--------------------------- MODULE MsgQueueProofs ---------------------------
(***************************************************************************)
(* Theorems about MsgQueue for any number of threads, queues, handles and  *)
(* messages.  For any sizes and any calls, reads with short buffers        *)
(* included: the types are right, the counters of a backend are the        *)
(* numbers of its open handles, and a backend is not freed while anything  *)
(* refers to it.  For callers that keep their part of the bargain          *)
(* (ReadersHaveRoom, LengthsDontWrap): the mutex discipline, the wholeness *)
(* of the messages in the ring buffer, that every queue implements a       *)
(* reliable channel (ImplementsChannel), and that the signals leave no     *)
(* reader and no writer asleep.                                            *)
(***************************************************************************)
EXTENDS MsgQueue, FiniteSetTheorems, SequenceTheorems, FunctionTheorems, TLAPS

(* The state of the calls in progress.  A call works through a handle that *)
(* stays open until the call's own mq_close; the variable an open call     *)
(* will assign is not in use; the call that saw refs reach zero is alone.  *)
CallInv ==
    /\ \A t \in Threads :
          /\ arg[t].q = None <=> pc[t] \in {"idle"} \cup PollLabels
          /\ arg[t].q # None /\ pc[t] # "destroy" =>
                /\ arg[t].slot # None
                /\ SlotOwner[arg[t].slot] = t
                /\ handle[arg[t].slot].q = arg[t].q
                /\ arg[t].dst = None => handle[arg[t].slot].flags = arg[t].flags
          /\ arg[t].dst # None <=> pc[t] \in {"open_lock", "open"}
          /\ arg[t].dst # None => handle[arg[t].dst] = NullHandle
          /\ pc[t] = "destroy" => mq[arg[t].q].refs = 0
    /\ \A t, u \in Threads : t # u =>
          /\ arg[t].dst # None => arg[t].dst # arg[u].dst
          /\ pc[t] = "destroy" /\ pc[u] = "destroy" => arg[t].q # arg[u].q
    /\ \A s \in Slots : handle[s].q = None => handle[s] = NullHandle

(* The inductive invariant: HandleCounts keeps the counters of TypeOK from *)
(* going below zero and makes the last mq_close really the last.           *)
MemoryInv == TypeOK /\ HandleCounts /\ NoUseAfterFree /\ CallInv

-----------------------------------------------------------------------------
(* Types of the operators that update a backend.                           *)
LEMMA UpdateTypes ==
    ASSUME NEW b \in Backend
    PROVE  /\ mutex_unlock(b) \in Backend
           /\ \A flags \in SUBSET Flag : mq_open(b, flags) \in Backend
           /\ \A e \in SUBSET Event : [b EXCEPT !.queue_event = e] \in Backend
           /\ CloseEvents(b) \in SUBSET Event
           /\ ReadEvents(b) \in SUBSET Event
           /\ WriteEvents(b) \in SUBSET Event
  <1>1. mutex_unlock(b) \in Backend
    BY DEF Backend, mutex_unlock
  <1>2. ASSUME NEW flags \in SUBSET Flag PROVE mq_open(b, flags) \in Backend
    <2> DEFINE r == IF "READER" \in flags THEN b.readers + 1 ELSE b.readers
               w == IF "WRITER" \in flags THEN b.writers + 1 ELSE b.writers
    <2>1. b.refs + 1 \in Nat /\ r \in Nat /\ w \in Nat
      BY DEF Backend
    <2>2. /\ (b.no_readers /\ "READER" \notin flags) \in BOOLEAN
          /\ (b.no_writers /\ "WRITER" \notin flags) \in BOOLEAN
      OBVIOUS
    <2>3. mq_open(b, flags) =
            [b EXCEPT !.refs = b.refs + 1, !.readers = r, !.writers = w,
                      !.no_readers = b.no_readers /\ "READER" \notin flags,
                      !.no_writers = b.no_writers /\ "WRITER" \notin flags]
      BY DEF mq_open, Backend
    <2> HIDE DEF r, w
    <2> QED BY <2>1, <2>2, <2>3 DEF Backend
  <1>3. ASSUME NEW e \in SUBSET Event PROVE [b EXCEPT !.queue_event = e] \in Backend
    BY DEF Backend
  <1>4. b.queue_event \subseteq Event
    BY DEF Backend
  <1>5. CloseEvents(b) \in SUBSET Event
    BY DEF CloseEvents, Event
  <1>6. ReadEvents(b) \in SUBSET Event /\ WriteEvents(b) \in SUBSET Event
    BY <1>4 DEF ReadEvents, WriteEvents, Event
  <1> QED BY <1>1, <1>2, <1>3, <1>5, <1>6

LEMMA InitTypes ==
    ASSUME NEW c \in 0..(SizeMod - 1), NEW e \in SUBSET Event
    PROVE  mq_init(c, e) \in Backend
  BY SizeAssumption DEF mq_init, Backend

LEMMA BufferTypes ==
    ASSUME NEW b \in Backend
    PROVE  /\ \A n \in Nat : ring_buffer_read(b, n) \in Backend
           /\ \A data \in Seq(Cell) : ring_buffer_write(b, data) \in Backend
           /\ SizeAt(b) \subseteq Nat
           /\ \A n \in Nat : Received(b, n) \in Msg \cup {None}
  <1>1. ASSUME NEW n \in Nat PROVE ring_buffer_read(b, n) \in Backend
    <2>1. b.buf \in Seq(Cell)
      BY DEF Backend
    <2>2. n <= Len(b.buf) => SubSeq(b.buf, n + 1, Len(b.buf)) \in Seq(Cell)
      BY <2>1
    <2>3. CASE n > Len(b.buf)
      BY <2>3 DEF ring_buffer_read
    <2>4. CASE ~(n > Len(b.buf))
      <3> DEFINE rest == SubSeq(b.buf, n + 1, Len(b.buf))
      <3>1. rest \in Seq(Cell)
        BY <2>1, <2>2, <2>4
      <3>2. ring_buffer_read(b, n) = [b EXCEPT !.buf = rest]
        BY <2>4 DEF ring_buffer_read, Backend
      <3> HIDE DEF rest
      <3> QED BY <3>1, <3>2 DEF Backend
    <2> QED BY <2>3, <2>4
  <1>2. ASSUME NEW data \in Seq(Cell) PROVE ring_buffer_write(b, data) \in Backend
    <2>1. b.buf \o data \in Seq(Cell)
      BY DEF Backend
    <2> QED BY <2>1 DEF ring_buffer_write, Backend
  <1>3. SizeAt(b) \subseteq Nat
    <2>1. b.buf \in Seq(Cell) /\ GarbageSizes \subseteq Nat
      BY SizeAssumption DEF Backend
    <2>2. Len(b.buf) >= SizeT => b.buf[1] \in Cell
      BY <2>1, SizeAssumption
    <2>3. Len(b.buf) >= SizeT => b.buf[1].msg.len \in Nat
      BY <2>2 DEF Cell, Msg
    <2> QED BY <2>1, <2>3 DEF SizeAt
  <1>4. ASSUME NEW n \in Nat PROVE Received(b, n) \in Msg \cup {None}
    <2>1. b.buf \in Seq(Cell)
      BY DEF Backend
    <2>2. n <= Len(b.buf) /\ n > 0 => b.buf[1] \in Cell
      BY <2>1
    <2> QED BY <2>2 DEF Received, Cell
  <1> QED BY <1>1, <1>2, <1>3, <1>4

LEMMA MessageTypes ==
    ASSUME NEW m \in Msg
    PROVE  HeaderOf(m) \in Seq(Cell) /\ BodyOf(m) \in Seq(Cell)
  <1>1. m.len \in Nat /\ SizeT \in Nat
    BY SizeAssumption DEF Msg
  <1>2. /\ \A k \in 1..SizeT : [msg |-> m, off |-> k] \in Cell
        /\ \A k \in 1..m.len : [msg |-> m, off |-> SizeT + k] \in Cell
    BY <1>1 DEF Cell
  <1> QED BY <1>1, <1>2 DEF HeaderOf, BodyOf

(* What signals and broadcasts do to program counters.                     *)
LEMMA SignalEffect ==
    ASSUME pc \in [Threads -> Label], NEW q, NEW wait, NEW relock \in Label,
           NEW pcs \in cond_signal(pc, Waiting(q, wait), relock)
    PROVE  /\ pcs \in [Threads -> Label]
           /\ \A u \in Threads : \/ pcs[u] = pc[u]
                                 \/ pc[u] = wait /\ arg[u].q = q /\ pcs[u] = relock
  BY DEF cond_signal, Waiting

LEMMA BroadcastEffect ==
    ASSUME pc \in [Threads -> Label], NEW q, NEW b
    PROVE  /\ CloseBroadcast(q, b) \in [Threads -> Label]
           /\ \A u \in Threads :
                 \/ CloseBroadcast(q, b)[u] = pc[u]
                 \/ pc[u] = "read_wait" /\ CloseBroadcast(q, b)[u] = "read_lock"
                 \/ pc[u] = "write_wait" /\ CloseBroadcast(q, b)[u] = "write_relock"
  BY DEF CloseBroadcast, cond_broadcast, Waiting, Label, LockLabels

(* Types of the locals of a call.                                          *)
LEMMA ArgTypes ==
    ASSUME TypeOK
    PROVE  /\ NoArg \in Arg
           /\ \A a \in Arg, n \in Nat, r \in Result :
                 /\ [a EXCEPT !.head = n] \in Arg
                 /\ [a EXCEPT !.rv = r] \in Arg
                 /\ [a EXCEPT !.len = n] \in Arg
           /\ \A a \in Arg, s \in Slots, f \in SUBSET Flag : [a EXCEPT !.dst = s, !.flags = f] \in Arg
           /\ \A s \in Slots : WithHandle(s) \in Arg
           /\ NullHandle \in Handle
           /\ \A q \in Queues, f \in SUBSET Flag : [q |-> q, flags |-> f] \in Handle
  <1>1. NoArg \in Arg
    BY DEF NoArg, Arg, Result
  <1>2. \A a \in Arg, n \in Nat, r \in Result :
           [a EXCEPT !.head = n] \in Arg /\ [a EXCEPT !.rv = r] \in Arg /\ [a EXCEPT !.len = n] \in Arg
    BY DEF Arg
  <1>3. \A a \in Arg, s \in Slots, f \in SUBSET Flag : [a EXCEPT !.dst = s, !.flags = f] \in Arg
    BY DEF Arg
  <1>4. \A s \in Slots : WithHandle(s) \in Arg
    BY DEF WithHandle, NoArg, Arg, Result, TypeOK, Handle
  <1>5. NullHandle \in Handle /\ \A q \in Queues, f \in SUBSET Flag : [q |-> q, flags |-> f] \in Handle
    BY DEF NullHandle, Handle
  <1> QED BY <1>1, <1>2, <1>3, <1>4, <1>5

(* The open handles of a queue are finitely many.                          *)
LEMMA OpenFinite ==
    ASSUME NEW q, NEW flag
    PROVE  IsFiniteSet(Open(q)) /\ IsFiniteSet(OpenFor(q, flag))
  <1>1. Open(q) \in SUBSET Slots /\ OpenFor(q, flag) \in SUBSET Slots
    BY DEF Open, OpenFor
  <1> QED BY <1>1, FS_Subset, OwnerAssumption

(* Closing a handle finds counters that include it.                        *)
LEMMA CloseCounts ==
    ASSUME MemoryInv, NEW t \in Threads, pc[t] = "close"
    PROVE  /\ arg[t].q \in Queues /\ mq[arg[t].q].status = "live"
           /\ arg[t].slot \in Slots
           /\ handle[arg[t].slot] = [q |-> arg[t].q, flags |-> arg[t].flags]
           /\ mq[arg[t].q].refs \in Nat \ {0}
           /\ "READER" \in arg[t].flags => mq[arg[t].q].readers \in Nat \ {0}
           /\ "WRITER" \in arg[t].flags => mq[arg[t].q].writers \in Nat \ {0}
  <1> DEFINE q == arg[t].q  s == arg[t].slot
  <1>1. arg[t] \in Arg /\ q # None /\ arg[t].dst = None
    BY DEF MemoryInv, TypeOK, CallInv, PollLabels
  <1>2. q \in Queues
    BY <1>1 DEF Arg
  <1>3. s # None /\ handle[s].q = q /\ handle[s].flags = arg[t].flags
    BY <1>1 DEF MemoryInv, CallInv
  <1>4. s \in Slots
    BY <1>1, <1>3 DEF Arg
  <1>5. handle[s] = [q |-> q, flags |-> arg[t].flags]
    BY <1>3, <1>4 DEF MemoryInv, TypeOK, Handle
  <1>6. mq[q].status = "live"
    BY <1>1, <1>2 DEF MemoryInv, NoUseAfterFree
  <1>7. mq[q] \in Backend
    BY <1>2 DEF MemoryInv, TypeOK
  <1>8. s \in Open(q) /\ \A flag \in arg[t].flags : s \in OpenFor(q, flag)
    BY <1>3, <1>4 DEF Open, OpenFor
  <1>9. Cardinality(Open(q)) # 0 /\ \A flag \in arg[t].flags : Cardinality(OpenFor(q, flag)) # 0
    BY <1>8, OpenFinite, FS_EmptySet
  <1>10. /\ mq[q].refs # 0
         /\ "READER" \in arg[t].flags => mq[q].readers # 0
         /\ "WRITER" \in arg[t].flags => mq[q].writers # 0
    BY <1>2, <1>6, <1>9 DEF MemoryInv, HandleCounts
  <1>11. mq[q].refs \in Nat /\ mq[q].readers \in Nat /\ mq[q].writers \in Nat
    BY <1>7 DEF Backend
  <1> QED BY <1>2, <1>4, <1>5, <1>6, <1>10, <1>11

(* ... so that mq_close keeps the types.                                   *)
LEMMA CloseType ==
    ASSUME NEW b \in Backend, NEW flags \in SUBSET Flag, b.refs # 0,
           "READER" \in flags => b.readers # 0, "WRITER" \in flags => b.writers # 0
    PROVE  mq_close(b, flags) \in Backend
  <1> DEFINE r == IF "READER" \in flags THEN b.readers - 1 ELSE b.readers
             w == IF "WRITER" \in flags THEN b.writers - 1 ELSE b.writers
             nr == b.no_readers \/ ("READER" \in flags /\ b.readers = 1)
             nw == b.no_writers \/ ("WRITER" \in flags /\ b.writers = 1)
  <1>1. b.refs - 1 \in Nat /\ r \in Nat /\ w \in Nat
    BY DEF Backend
  <1>2. nr \in BOOLEAN /\ nw \in BOOLEAN
    OBVIOUS
  <1>3. mq_close(b, flags) = [b EXCEPT !.refs = b.refs - 1, !.readers = r, !.writers = w,
                                       !.no_readers = nr, !.no_writers = nw]
    BY DEF mq_close, Backend
  <1> HIDE DEF r, w, nr, nw
  <1> QED BY <1>1, <1>2, <1>3 DEF Backend

-----------------------------------------------------------------------------
(* A thread in a call other than poll refers to a backend.                 *)
LEMMA InCall ==
    ASSUME MemoryInv, NEW t \in Threads, pc[t] \notin {"idle"} \cup PollLabels
    PROVE  /\ arg[t] \in Arg /\ arg[t].q \in Queues /\ arg[t].flags \in SUBSET Flag
           /\ arg[t].len \in Nat /\ arg[t].head \in Nat /\ arg[t].rv \in Result
           /\ mq[arg[t].q] \in Backend
  <1>1. arg[t] \in Arg /\ arg[t].q # None
    BY DEF MemoryInv, TypeOK, CallInv
  <1>2. /\ arg[t].q \in Queues /\ arg[t].flags \in SUBSET Flag
        /\ arg[t].len \in Nat /\ arg[t].head \in Nat /\ arg[t].rv \in Result
    BY <1>1 DEF Arg
  <1> QED BY <1>1, <1>2 DEF MemoryInv, TypeOK

(* ... through a variable of its own, until it has closed the handle.      *)
LEMMA CallSlot ==
    ASSUME MemoryInv, NEW t \in Threads, arg[t].q # None, pc[t] # "destroy"
    PROVE  /\ arg[t].slot \in Slots /\ SlotOwner[arg[t].slot] = t
           /\ handle[arg[t].slot].q = arg[t].q
           /\ arg[t].dst = None => handle[arg[t].slot].flags = arg[t].flags
  <1>1. arg[t].slot \in Slots \cup {None}
    BY DEF MemoryInv, TypeOK, Arg
  <1>2. /\ arg[t].slot # None /\ SlotOwner[arg[t].slot] = t
        /\ handle[arg[t].slot].q = arg[t].q
        /\ arg[t].dst = None => handle[arg[t].slot].flags = arg[t].flags
    BY DEF MemoryInv, CallInv
  <1> QED BY <1>1, <1>2

LEMMA BeginWakeupType ==
    ASSUME MemoryInv, NEW t \in Threads, pc[t] \notin {"idle"} \cup PollLabels,
           NEW b \in Backend, NEW pcs \in [Threads -> Label], NEW r \in Result,
           BeginWakeup(t, pcs, r, b)
    PROVE  /\ mq' \in [Queues -> Backend] /\ pc' \in [Threads -> Label]
           /\ scan' \in [Threads -> Seq(Node)] /\ arg' \in [Threads -> Arg]
  <1>1. b.list \in Seq(Node)
    BY DEF Backend
  <1>2. [arg[t] EXCEPT !.rv = r] \in Arg
    BY InCall, ArgTypes, SizeAssumption DEF MemoryInv
  <1>3. "wakeup" \in Label
    BY DEF Label, Critical
  <1> QED BY <1>1, <1>2, <1>3, InCall DEF BeginWakeup, MemoryInv, TypeOK

(* Entering, refusing and leaving a call.                                  *)
LEMMA EnterType ==
    ASSUME MemoryInv, NEW t \in Threads, NEW label \in Label, NEW a \in Arg, Enter(t, label, a)
    PROVE  TypeOK'
  BY DEF Enter, MemoryInv, TypeOK, Result

LEMMA RefuseType ==
    ASSUME MemoryInv, NEW t \in Threads, NEW errno \in Result, Refuse(t, errno)
    PROVE  TypeOK'
  BY DEF Refuse, MemoryInv, TypeOK

LEMMA LeaveType ==
    ASSUME MemoryInv, NEW t \in Threads, NEW r \in Result, Leave(t, r)
    PROVE  arg' \in [Threads -> Arg] /\ ret' \in [Threads -> Result]
  BY ArgTypes DEF Leave, MemoryInv, TypeOK

(* Every call a client makes begins with well-typed locals.                *)
LEMMA CallType == ASSUME MemoryInv, Call PROVE TypeOK'
  <1> USE DEF MemoryInv
  <1>0. {"idle", "open_lock", "close_lock", "read_lock", "write_lock"} \subseteq Label
    BY DEF Label, LockLabels
  <1>1. ASSUME NEW c \in CreateCalls, msg_queue_create(c) PROVE TypeOK'
    <2>1. /\ c.slot \in Slots /\ c.queue \in Queues /\ c.capacity \in 0..(SizeMod - 1)
          /\ SlotOwner[c.slot] \in Threads
      BY CallAssumption, OwnerAssumption
    <2>2. CASE Refuse(SlotOwner[c.slot], "EINVAL") \/ Refuse(SlotOwner[c.slot], "ENOMEM")
      BY <2>1, <2>2, RefuseType DEF Result
    <2>3. ASSUME c.flags \subseteq Flag, NEW event \in UninitEvents,
                 mq' = [mq EXCEPT ![c.queue] = mq_open(mq_init(c.capacity, event), c.flags)],
                 handle' = [handle EXCEPT ![c.slot] = [q |-> c.queue, flags |-> c.flags]],
                 ret' = [ret EXCEPT ![SlotOwner[c.slot]] = "OK"],
                 UNCHANGED <<pc, arg, scan, pollm, stored, rcvd>>
          PROVE  TypeOK'
      <3>1. mq_init(c.capacity, event) \in Backend
        BY <2>1, InitTypes, SizeAssumption
      <3>2. mq_open(mq_init(c.capacity, event), c.flags) \in Backend
        BY <2>3, <3>1, UpdateTypes
      <3>3. [q |-> c.queue, flags |-> c.flags] \in Handle
        BY <2>1, <2>3, ArgTypes
      <3> QED BY <2>1, <2>3, <3>2, <3>3 DEF TypeOK, Result
    <2> QED BY <1>1, <2>2, <2>3 DEF msg_queue_create
  <1>2. ASSUME NEW c \in OpenCalls, msg_queue_open(c) PROVE TypeOK'
    <2>1. c.slot \in Slots /\ c.dst \in Slots /\ SlotOwner[c.slot] \in Threads
      BY CallAssumption, OwnerAssumption
    <2>2. CASE Refuse(SlotOwner[c.slot], "EBADF") \/ Refuse(SlotOwner[c.slot], "EINVAL")
      BY <2>1, <2>2, RefuseType DEF Result
    <2>3. CASE /\ c.flags \subseteq Flag
               /\ Enter(SlotOwner[c.slot], "open_lock",
                        [WithHandle(c.slot) EXCEPT !.dst = c.dst, !.flags = c.flags])
      <3>1. [WithHandle(c.slot) EXCEPT !.dst = c.dst, !.flags = c.flags] \in Arg
        BY <2>1, <2>3, ArgTypes
      <3> QED BY <1>0, <2>1, <2>3, <3>1, EnterType
    <2> QED BY <1>2, <2>2, <2>3 DEF msg_queue_open
  <1>3. ASSUME NEW s \in CloseCalls, msg_queue_close(s) PROVE TypeOK'
    <2>1. s \in Slots /\ SlotOwner[s] \in Threads
      BY CallAssumption, OwnerAssumption
    <2>2. WithHandle(s) \in Arg
      BY <2>1, ArgTypes
    <2> QED BY <1>0, <1>3, <2>1, <2>2, EnterType, RefuseType DEF msg_queue_close, Result
  <1>4. ASSUME NEW c \in ReadCalls, msg_queue_read(c) PROVE TypeOK'
    <2>1. c.slot \in Slots /\ c.len \in Nat /\ SlotOwner[c.slot] \in Threads
      BY CallAssumption, OwnerAssumption, SizeAssumption
    <2>2. "none" \in Result
      BY DEF Result
    <2>3. [WithHandle(c.slot) EXCEPT !.len = c.len] \in Arg
      BY <2>1, <2>2, ArgTypes
    <2> QED BY <1>0, <1>4, <2>1, <2>3, EnterType, RefuseType DEF msg_queue_read, Result
  <1>5. ASSUME NEW c \in WriteCalls, msg_queue_write(c) PROVE TypeOK'
    <2>1. c.slot \in Slots /\ c.len \in Nat /\ SlotOwner[c.slot] \in Threads
      BY CallAssumption, OwnerAssumption, SizeAssumption
    <2>2. "none" \in Result
      BY DEF Result
    <2>3. [WithHandle(c.slot) EXCEPT !.len = c.len] \in Arg
      BY <2>1, <2>2, ArgTypes
    <2> QED BY <1>0, <1>5, <2>1, <2>3, EnterType, RefuseType DEF msg_queue_write, Result
  <1> QED BY <1>1, <1>2, <1>3, <1>4, <1>5 DEF Call

(* Every step inside a call keeps the types.                               *)
LEMMA ProgressType ==
    ASSUME MemoryInv, NEW t \in Threads, Lock(t) \/ Progress(t) \/ SpuriousWakeup(t)
    PROVE  TypeOK'
  <1> DEFINE q == arg[t].q
  <1>a. TypeOK
    BY DEF MemoryInv
  <1>0. /\ Label = LockLabels \cup Critical \cup {"idle", "destroy", "read_wait", "write_wait"} \cup PollLabels
        /\ \A label \in {"open_lock", "close_lock", "read_lock", "write_lock", "write_relock", "open", "close",
                         "read", "take", "take_body", "write", "write_loop", "wakeup", "hung",
                         "destroy", "read_wait", "write_wait"} :
              label \in Label /\ label \notin {"idle"} \cup PollLabels
    BY DEF Label, LockLabels, Critical, PollLabels
  <1>1. CASE Lock(t)
    <2>1. pc[t] \in LockLabels /\ pc[t] \notin {"idle"} \cup PollLabels
      BY <1>1 DEF Lock, LockLabels, PollLabels
    <2>2. Locked(pc[t]) \in Label
      BY <2>1, <1>0 DEF Locked, LockLabels
    <2>3. [mq[q] EXCEPT !.mutex = t] \in Backend
      BY <2>1, InCall DEF Backend
    <2> QED BY <1>a, <1>1, <2>1, <2>2, <2>3, InCall DEF Lock, TypeOK
  <1>2. CASE OpenBody(t)
    <2>1. pc[t] \notin {"idle"} \cup PollLabels /\ arg[t].dst # None
      BY <1>0, <1>2 DEF OpenBody, MemoryInv, CallInv
    <2>2. mutex_unlock(mq_open(mq[q], arg[t].flags)) \in Backend
      BY <2>1, InCall, UpdateTypes
    <2>3. [q |-> q, flags |-> arg[t].flags] \in Handle /\ "OK" \in Result
      BY <2>1, InCall, ArgTypes DEF Result, MemoryInv
    <2> QED BY <1>a, <1>0, <1>2, <2>1, <2>2, <2>3, InCall, LeaveType DEF OpenBody, TypeOK
  <1>3. CASE CloseBody(t)
    <2> DEFINE b == mq_close(mq[q], arg[t].flags)
    <2>1. pc[t] = "close" /\ pc[t] \notin {"idle"} \cup PollLabels
      BY <1>0, <1>3 DEF CloseBody
    <2>2. b \in Backend
      BY <2>1, InCall, CloseCounts, CloseType
    <2> HIDE DEF b
    <2>3. mutex_unlock(b) \in Backend
      BY <2>2, UpdateTypes
    <2>4. mutex_unlock([b EXCEPT !.queue_event = @ \cup CloseEvents(b)]) \in Backend
      <3>1. b.queue_event \cup CloseEvents(b) \in SUBSET Event
        BY <2>2, UpdateTypes DEF Backend
      <3>2. [b EXCEPT !.queue_event = b.queue_event \cup CloseEvents(b)] \in Backend
        BY <2>2, <3>1, UpdateTypes
      <3>3. [b EXCEPT !.queue_event = @ \cup CloseEvents(b)]
              = [b EXCEPT !.queue_event = b.queue_event \cup CloseEvents(b)]
        BY <2>2 DEF Backend
      <3> QED BY <3>2, <3>3, UpdateTypes
    <2>5. handle' \in [Slots -> Handle]
      BY <1>a, <1>3, ArgTypes DEF CloseBody, TypeOK
    <2>6. mq' \in [Queues -> Backend]
      BY <1>a, <1>3, <2>1, <2>3, <2>4, InCall DEF CloseBody, TypeOK, b
    <2>7. pc' \in [Threads -> Label]
      <3>1. \/ pc' = [pc EXCEPT ![t] = "destroy"]
            \/ pc' = [CloseBroadcast(q, b) EXCEPT ![t] = "idle"]
        BY <1>3 DEF CloseBody, b
      <3>2. pc \in [Threads -> Label] /\ "idle" \in Label /\ "destroy" \in Label
        BY <1>a DEF TypeOK, Label
      <3>3. CloseBroadcast(q, b) \in [Threads -> Label]
        BY <3>2, BroadcastEffect
      <3> QED BY <3>1, <3>2, <3>3
    <2>8. arg' \in [Threads -> Arg] /\ ret' \in [Threads -> Result]
      BY <1>a, <1>3, LeaveType DEF CloseBody, TypeOK, Result
    <2> QED BY <1>a, <1>3, <2>5, <2>6, <2>7, <2>8 DEF CloseBody, TypeOK
  <1>4. CASE Destroy(t)
    <2>1. pc[t] \notin {"idle"} \cup PollLabels
      BY <1>0, <1>4 DEF Destroy
    <2>2. [mq[q] EXCEPT !.status = "freed"] \in Backend
      BY <2>1, InCall DEF Backend
    <2>3. "OK" \in Result
      BY DEF Result
    <2> QED BY <1>a, <1>0, <1>4, <2>1, <2>2, <2>3, InCall, LeaveType DEF Destroy, TypeOK
  <1>6. CASE EndWakeup(t)
    <2>1. pc[t] \notin {"idle"} \cup PollLabels
      BY <1>0, <1>6 DEF EndWakeup
    <2>2. mutex_unlock(mq[q]) \in Backend
      BY <2>1, InCall, UpdateTypes
    <2> QED BY <1>a, <1>0, <1>6, <2>1, <2>2, InCall, LeaveType DEF EndWakeup, TypeOK
  <1>7. CASE ReadEof(t)
    <2>1. pc[t] \notin {"idle"} \cup PollLabels
      BY <1>0, <1>7 DEF ReadEof
    <2>2. [mq[q] EXCEPT !.queue_event = @ \cup {"NOWRITERS"}] \in Backend
      <3>1. mq[q] \in Backend
        BY <2>1, InCall
      <3> QED BY <3>1 DEF Backend, Event
    <2>3. "EOF" \in Result /\ pc \in [Threads -> Label]
      BY <1>a DEF Result, TypeOK
    <2> QED BY <1>a, <1>7, <2>1, <2>2, <2>3, BeginWakeupType DEF ReadEof, TypeOK
  <1>8. CASE ReadEmpty(t)
    <2>1. pc[t] \notin {"idle"} \cup PollLabels
      BY <1>0, <1>8 DEF ReadEmpty
    <2>2. mutex_unlock(mq[q]) \in Backend /\ "EAGAIN" \in Result
      BY <2>1, InCall, UpdateTypes DEF Result
    <2> QED BY <1>a, <1>0, <1>8, <2>1, <2>2, InCall, LeaveType DEF ReadEmpty, TypeOK
  <1>9. CASE ReadPeek(t)
    <2>1. pc[t] \notin {"idle"} \cup PollLabels
      BY <1>0, <1>9 DEF ReadPeek
    <2>2. mutex_unlock(mq[q]) \in Backend
      BY <2>1, InCall, UpdateTypes
    <2>3. PICK n \in SizeAt(mq[q]) :
             /\ arg' = [arg EXCEPT ![t].head = n]
             /\ mq' = IF arg[t].len < n THEN [mq EXCEPT ![q] = mutex_unlock(@)] ELSE mq
      BY <1>9 DEF ReadPeek
    <2>4. [arg[t] EXCEPT !.head = n] \in Arg
      BY <1>a, <2>1, <2>3, InCall, BufferTypes, ArgTypes
    <2>5. arg' \in [Threads -> Arg] /\ mq' \in [Queues -> Backend]
      BY <1>a, <2>1, <2>2, <2>3, <2>4, InCall DEF TypeOK
    <2> QED BY <1>a, <1>0, <1>9, <2>5 DEF ReadPeek, TypeOK
  <1>10. CASE ReadHeader(t)
    <2>1. pc[t] \notin {"idle"} \cup PollLabels
      BY <1>0, <1>10 DEF ReadHeader
    <2>2. ring_buffer_read(mq[q], SizeT) \in Backend
      BY <2>1, InCall, BufferTypes, SizeAssumption
    <2>3. PICK n \in SizeAt(mq[q]) :
             arg' = [arg EXCEPT ![t].head = IF SizeT > ring_buffer_used(mq[q]) THEN @ ELSE n]
      BY <1>10 DEF ReadHeader
    <2>4. (IF SizeT > ring_buffer_used(mq[q]) THEN arg[t].head ELSE n) \in Nat
      BY <2>1, <2>3, InCall, BufferTypes
    <2>5. [arg[t] EXCEPT !.head = IF SizeT > ring_buffer_used(mq[q]) THEN arg[t].head ELSE n] \in Arg
      BY <1>a, <2>1, <2>4, InCall, ArgTypes
    <2>6. arg' \in [Threads -> Arg] /\ mq' \in [Queues -> Backend]
      BY <1>a, <1>10, <2>1, <2>2, <2>3, <2>5, InCall DEF ReadHeader, TypeOK
    <2> QED BY <1>a, <1>0, <1>10, <2>6 DEF ReadHeader, TypeOK
  <1>11. CASE ReadBody(t)
    <2> DEFINE b == ring_buffer_read(mq[q], arg[t].head)
    <2>1. pc[t] \notin {"idle"} \cup PollLabels
      BY <1>0, <1>11 DEF ReadBody
    <2>2. b \in Backend /\ Received(mq[q], arg[t].head) \in Msg \cup {None}
      BY <2>1, InCall, BufferTypes
    <2> HIDE DEF b
    <2>3. [b EXCEPT !.queue_event = ReadEvents(b)] \in Backend
      BY <2>2, UpdateTypes
    <2>4. PICK pcs \in SignalWriter(q) : BeginWakeup(t, pcs, "MSG", [b EXCEPT !.queue_event = ReadEvents(b)])
      BY <1>11 DEF ReadBody, b
    <2>5. pcs \in [Threads -> Label] /\ "MSG" \in Result
      BY <1>a, <1>0, <2>4, SignalEffect DEF SignalWriter, TypeOK, Result
    <2>6. rcvd' \in [Queues -> Seq(Msg \cup {None})]
      BY <1>a, <1>11, <2>1, <2>2, InCall DEF ReadBody, TypeOK
    <2> QED BY <1>a, <1>11, <2>1, <2>3, <2>4, <2>5, <2>6, BeginWakeupType DEF ReadBody, TypeOK
  <1>12. CASE WriteReject(t)
    <2>1. pc[t] \notin {"idle"} \cup PollLabels
      BY <1>0, <1>12 DEF WriteReject
    <2>2. mutex_unlock(mq[q]) \in Backend /\ Rejection(mq[q], arg[t].len) \in Result
      BY <2>1, InCall, UpdateTypes DEF Result, Rejection
    <2> QED BY <1>a, <1>0, <1>12, <2>1, <2>2, InCall, LeaveType DEF WriteReject, TypeOK
  <1>13. CASE WriteWait(t)
    <2>1. pc[t] \notin {"idle"} \cup PollLabels
      BY <1>0, <1>13 DEF WriteWait, Accepted
    <2>2. mutex_unlock(mq[q]) \in Backend
      BY <2>1, InCall, UpdateTypes
    <2> QED BY <1>a, <1>0, <1>13, <2>1, <2>2, InCall DEF WriteWait, TypeOK
  <1>14. CASE WritePut(t)
    <2> DEFINE m == [id |-> stored[q] + 1, len |-> arg[t].len]
               b == ring_buffer_write(ring_buffer_write(mq[q], HeaderOf(m)), BodyOf(m))
    <2>1. pc[t] \notin {"idle"} \cup PollLabels
      BY <1>0, <1>14 DEF WritePut, Accepted
    <2>2. stored[q] \in Nat
      BY <1>a, <2>1, InCall DEF TypeOK
    <2>3. m \in Msg
      BY <2>1, <2>2, InCall DEF Msg
    <2>4. b \in Backend
      BY <2>1, <2>3, InCall, BufferTypes, MessageTypes
    <2>5. PICK pcs \in SignalReader(q) :
             IF "NONBLOCK" \in arg[t].flags
             THEN /\ mq' = [mq EXCEPT ![q] = mutex_unlock(b)]
                  /\ pc' = [pcs EXCEPT ![t] = "idle"]
                  /\ Leave(t, "EAGAIN")
                  /\ UNCHANGED scan
             ELSE /\ BeginWakeup(t, pcs, "OK", [b EXCEPT !.queue_event = WriteEvents(b)])
                  /\ UNCHANGED ret
      BY <1>14 DEF WritePut
    <2> HIDE DEF m, b
    <2>6. pcs \in [Threads -> Label] /\ "OK" \in Result /\ "EAGAIN" \in Result
      BY <1>a, <1>0, <2>5, SignalEffect DEF SignalReader, TypeOK, Result
    <2>7. mutex_unlock(b) \in Backend /\ [b EXCEPT !.queue_event = WriteEvents(b)] \in Backend
      BY <2>4, UpdateTypes
    <2>8. /\ mq' \in [Queues -> Backend] /\ pc' \in [Threads -> Label]
          /\ scan' \in [Threads -> Seq(Node)] /\ arg' \in [Threads -> Arg]
          /\ ret' \in [Threads -> Result]
      <3>1. CASE "NONBLOCK" \in arg[t].flags
        <4>1. /\ mq' = [mq EXCEPT ![q] = mutex_unlock(b)] /\ pc' = [pcs EXCEPT ![t] = "idle"]
              /\ Leave(t, "EAGAIN") /\ scan' = scan
          BY <2>5, <3>1
        <4>2. arg' \in [Threads -> Arg] /\ ret' \in [Threads -> Result]
          BY <2>6, <4>1, LeaveType
        <4> QED BY <1>a, <1>0, <2>6, <2>7, <4>1, <4>2 DEF TypeOK
      <3>2. CASE "NONBLOCK" \notin arg[t].flags
        BY <1>a, <2>1, <2>5, <2>6, <2>7, <3>2, BeginWakeupType DEF TypeOK
      <3> QED BY <3>1, <3>2
    <2>9. stored' \in [Queues -> Nat]
      BY <1>a, <1>14, <2>1, <2>2, InCall DEF WritePut, TypeOK
    <2> QED BY <1>a, <1>14, <2>8, <2>9 DEF WritePut, TypeOK
  <1>15. CASE SpuriousWakeup(t)
    BY <1>a, <1>0, <1>15 DEF SpuriousWakeup, TypeOK
  <1> QED BY <1>1, <1>2, <1>3, <1>4, <1>6, <1>7, <1>8, <1>9, <1>10, <1>11, <1>12, <1>13, <1>14, <1>15
          DEF Progress

-----------------------------------------------------------------------------
(* A thread in a call other than the last part of a close holds the queue  *)
(* by an open handle.                                                      *)
LEMMA InCallRefs ==
    ASSUME MemoryInv, NEW t \in Threads, pc[t] \notin {"idle", "destroy"} \cup PollLabels
    PROVE  /\ arg[t].slot \in Slots /\ SlotOwner[arg[t].slot] = t
           /\ arg[t].slot \in Open(arg[t].q)
           /\ mq[arg[t].q].status = "live"
           /\ mq[arg[t].q].refs # 0
  <1> DEFINE q == arg[t].q
  <1>1. q \in Queues /\ q # None /\ arg[t] \in Arg
    BY InCall, NoneAssumption
  <1>2. arg[t].slot \in Slots /\ SlotOwner[arg[t].slot] = t /\ handle[arg[t].slot].q = q
    BY <1>1 DEF MemoryInv, CallInv, Arg
  <1>3. arg[t].slot \in Open(q)
    BY <1>2 DEF Open
  <1>4. mq[q].status = "live"
    BY <1>1 DEF MemoryInv, NoUseAfterFree
  <1>5. Cardinality(Open(q)) # 0
    BY <1>3, OpenFinite, FS_EmptySet
  <1>6. mq[q].refs # 0
    BY <1>1, <1>4, <1>5 DEF MemoryInv, HandleCounts
  <1> QED BY <1>2, <1>3, <1>4, <1>6

(* A step of t inside a call that changes no handle and no counter, and    *)
(* moves program counters only between labels CallInv treats alike.        *)
Plain == {"close_lock", "close", "read_lock", "read", "read_wait", "take", "take_body",
          "write_lock", "write", "write_wait", "write_relock", "write_loop", "wakeup", "hung"}
SameCounters(b, c) ==
    /\ c.status = b.status /\ c.refs = b.refs
    /\ c.readers = b.readers /\ c.no_readers = b.no_readers
    /\ c.writers = b.writers /\ c.no_writers = b.no_writers
Alike(label1, label2) == \/ label1 = label2
                         \/ {label1, label2} \subseteq Plain
                         \/ {label1, label2} \subseteq PollLabels
Quiet(t) ==
    /\ handle' = handle
    /\ \A q \in Queues : SameCounters(mq[q], mq'[q])
    /\ \A u \in Threads \ {t} : arg'[u] = arg[u] /\ Alike(pc[u], pc'[u])
    /\ \/ arg'[t] = NoArg /\ pc'[t] = "idle"
       \/ /\ arg'[t].q = arg[t].q /\ arg'[t].slot = arg[t].slot
          /\ arg'[t].dst = arg[t].dst /\ arg'[t].flags = arg[t].flags
          /\ Alike(pc[t], pc'[t]) \/ (pc[t] = "open_lock" /\ pc'[t] = "open")

LEMMA QuietInv ==
    ASSUME MemoryInv, TypeOK', NEW t \in Threads, Quiet(t)
    PROVE  MemoryInv'
  <1>1. HandleCounts'
    <2>1. \A q : Open(q)' = Open(q) /\ \A flag : OpenFor(q, flag)' = OpenFor(q, flag)
      BY DEF Quiet, Open, OpenFor
    <2>2. \A q \in Queues : SameCounters(mq[q], mq'[q])
      BY DEF Quiet
    <2> QED BY <2>1, <2>2 DEF MemoryInv, HandleCounts, SameCounters
  <1>2. \A u \in Threads : arg'[u].q = arg[u].q \/ (u = t /\ arg'[u] = NoArg /\ pc'[u] = "idle")
    BY DEF Quiet
  <1>3. \A u \in Threads : arg[u] \in Arg /\ arg'[u] \in Arg
    BY DEF MemoryInv, TypeOK
  <1>4. NoUseAfterFree'
    <2>1. ASSUME NEW u \in Threads, arg'[u].q # None PROVE mq'[arg'[u].q].status = "live"
      <3>1. arg'[u].q = arg[u].q /\ arg[u].q \in Queues
        BY <1>2, <1>3, <2>1 DEF NoArg, Arg
      <3> QED BY <2>1, <3>1 DEF MemoryInv, NoUseAfterFree, Quiet, SameCounters
    <2>2. ASSUME NEW s \in Slots, handle'[s] # NullHandle PROVE mq'[handle'[s].q].status = "live"
      <3>1. handle'[s] = handle[s] /\ handle[s] \in Handle
        BY DEF Quiet, MemoryInv, TypeOK
      <3>2. handle[s].q \in Queues
        BY <2>2, <3>1 DEF MemoryInv, CallInv, Handle
      <3> QED BY <2>2, <3>1, <3>2 DEF MemoryInv, NoUseAfterFree, Quiet, SameCounters
    <2> QED BY <2>1, <2>2 DEF NoUseAfterFree
  <1>5. \A u \in Threads :
           \/ u = t /\ arg'[u] = NoArg /\ pc'[u] = "idle"
           \/ /\ arg'[u].q = arg[u].q /\ arg'[u].slot = arg[u].slot
              /\ arg'[u].dst = arg[u].dst /\ arg'[u].flags = arg[u].flags
              /\ \/ Alike(pc[u], pc'[u])
                 \/ pc[u] = "open_lock" /\ pc'[u] = "open"
    BY DEF Quiet
  <1>6. \A u \in Threads : \/ pc'[u] = "idle" /\ arg'[u] = NoArg
                           \/ /\ pc[u] \in {"idle"} \cup PollLabels <=> pc'[u] \in {"idle"} \cup PollLabels
                              /\ pc[u] = "destroy" <=> pc'[u] = "destroy"
                              /\ pc[u] \in {"open_lock", "open"} <=> pc'[u] \in {"open_lock", "open"}
                              /\ arg'[u].q = arg[u].q /\ arg'[u].slot = arg[u].slot
                              /\ arg'[u].dst = arg[u].dst /\ arg'[u].flags = arg[u].flags
    BY <1>5 DEF Alike, Plain, PollLabels
  <1>7. handle' = handle
    BY DEF Quiet
  <1>8. NoArg.q = None /\ NoArg.dst = None
    BY DEF NoArg
  <1>9. ASSUME NEW u \in Threads, pc'[u] = "destroy" PROVE mq'[arg'[u].q].refs = 0
    <2>1. pc[u] = "destroy" /\ arg'[u].q = arg[u].q
      BY <1>6, <1>9
    <2>2. arg[u].q \in Queues
      BY <2>1, InCall DEF PollLabels
    <2> QED BY <2>1, <2>2 DEF MemoryInv, CallInv, Quiet, SameCounters
  <1>10. CallInv'
    <2>1. ASSUME NEW u \in Threads
          PROVE  /\ arg'[u].q = None <=> pc'[u] \in {"idle"} \cup PollLabels
                 /\ arg'[u].q # None /\ pc'[u] # "destroy" =>
                       /\ arg'[u].slot # None
                       /\ SlotOwner[arg'[u].slot] = u
                       /\ handle'[arg'[u].slot].q = arg'[u].q
                       /\ arg'[u].dst = None => handle'[arg'[u].slot].flags = arg'[u].flags
                 /\ arg'[u].dst # None <=> pc'[u] \in {"open_lock", "open"}
                 /\ arg'[u].dst # None => handle'[arg'[u].dst] = NullHandle
      BY <1>6, <1>7, <1>8 DEF MemoryInv, CallInv
    <2>2. ASSUME NEW u \in Threads, NEW v \in Threads, u # v
          PROVE  /\ arg'[u].dst # None => arg'[u].dst # arg'[v].dst
                 /\ pc'[u] = "destroy" /\ pc'[v] = "destroy" => arg'[u].q # arg'[v].q
      BY <1>6, <1>8, <2>2 DEF MemoryInv, CallInv
    <2>3. \A s \in Slots : handle'[s].q = None => handle'[s] = NullHandle
      BY <1>7 DEF MemoryInv, CallInv
    <2> QED BY <1>9, <2>1, <2>2, <2>3 DEF CallInv
  <1> QED BY <1>1, <1>4, <1>10 DEF MemoryInv

(* The updates of a backend that leave its counters alone.                 *)
LEMMA SameCountersOf ==
    ASSUME NEW b \in Backend
    PROVE  /\ SameCounters(b, b)
           /\ \A u : SameCounters(b, [b EXCEPT !.mutex = u])
           /\ SameCounters(b, mutex_unlock(b))
           /\ \A e : SameCounters(b, [b EXCEPT !.queue_event = e])
           /\ \A n : SameCounters(b, ring_buffer_read(b, n))
           /\ \A data : SameCounters(b, ring_buffer_write(b, data))
           /\ \A c, d : SameCounters(b, c) /\ SameCounters(c, d) => SameCounters(b, d)
  BY DEF Backend, SameCounters, mutex_unlock, ring_buffer_read, ring_buffer_write

(* ... and of the locals of a call that leave its handle alone.            *)
SameCall(a, c) == c.q = a.q /\ c.slot = a.slot /\ c.dst = a.dst /\ c.flags = a.flags
LEMMA SameCallOf ==
    ASSUME NEW a \in Arg
    PROVE  /\ SameCall(a, a)
           /\ \A n : SameCall(a, [a EXCEPT !.head = n]) /\ SameCall(a, [a EXCEPT !.rv = n])
  BY DEF Arg, SameCall

(* The shape shared by those steps: one backend and one thread's locals    *)
(* are updated, and waiting threads may be moved to where they ask for the *)
(* mutex.                                                                  *)
LEMMA QuietShape ==
    ASSUME MemoryInv, NEW t \in Threads, NEW q \in Queues, NEW b, SameCounters(mq[q], b),
           NEW a, NEW pcs \in [Threads -> Label], \A u \in Threads \ {t} : Alike(pc[u], pcs[u]),
           NEW label,
           \/ a = NoArg /\ label = "idle"
           \/ SameCall(arg[t], a) /\ (Alike(pc[t], label) \/ (pc[t] = "open_lock" /\ label = "open")),
           handle' = handle, mq' = [mq EXCEPT ![q] = b], arg' = [arg EXCEPT ![t] = a],
           pc' = [pcs EXCEPT ![t] = label]
    PROVE  Quiet(t)
  <1>1. mq \in [Queues -> Backend] /\ arg \in [Threads -> Arg]
    BY DEF MemoryInv, TypeOK
  <1>2. \A x \in Queues : SameCounters(mq[x], mq'[x])
    BY <1>1, SameCountersOf
  <1>3. \A u \in Threads \ {t} : arg'[u] = arg[u] /\ Alike(pc[u], pc'[u])
    BY <1>1
  <1>4. arg'[t] = a /\ pc'[t] = label
    BY <1>1
  <1> QED BY <1>2, <1>3, <1>4 DEF Quiet, SameCall

(* A step of helper_wakeup, and its beginning, are of that shape.          *)
LEMMA BeginWakeupQuiet ==
    ASSUME MemoryInv, NEW t \in Threads, pc[t] \in Plain, NEW pcs \in [Threads -> Label],
           \A u \in Threads : Alike(pc[u], pcs[u]), NEW r,
           NEW b, SameCounters(mq[arg[t].q], b), BeginWakeup(t, pcs, r, b), handle' = handle
    PROVE  Quiet(t)
  <1>1. pc[t] \notin {"idle"} \cup PollLabels /\ Alike(pc[t], "wakeup")
    BY DEF Plain, PollLabels, Alike
  <1>2. arg[t].q \in Queues /\ arg[t] \in Arg /\ arg \in [Threads -> Arg]
    BY <1>1, InCall DEF MemoryInv, TypeOK
  <1>3. SameCall(arg[t], [arg[t] EXCEPT !.rv = r])
    BY <1>2, SameCallOf
  <1>4. arg' = [arg EXCEPT ![t] = [arg[t] EXCEPT !.rv = r]]
    BY <1>2 DEF BeginWakeup
  <1>5. mq' = [mq EXCEPT ![arg[t].q] = b] /\ pc' = [pcs EXCEPT ![t] = "wakeup"]
    BY DEF BeginWakeup
  <1> QED BY <1>1, <1>2, <1>3, <1>4, <1>5, QuietShape

LEMMA SignalAlike ==
    ASSUME MemoryInv, NEW q
    PROVE  /\ \A pcs \in SignalWriter(q) : pcs \in [Threads -> Label] /\ \A u \in Threads : Alike(pc[u], pcs[u])
           /\ \A pcs \in SignalReader(q) : pcs \in [Threads -> Label] /\ \A u \in Threads : Alike(pc[u], pcs[u])
  <1>1. pc \in [Threads -> Label] /\ "write_relock" \in Label /\ "read_lock" \in Label
    BY DEF MemoryInv, TypeOK, Label, LockLabels
  <1>2. Alike("write_wait", "write_relock") /\ Alike("read_wait", "read_lock") /\ \A l : Alike(l, l)
    BY DEF Alike, Plain
  <1>3. ASSUME NEW pcs \in SignalWriter(q)
        PROVE  pcs \in [Threads -> Label] /\ \A u \in Threads : Alike(pc[u], pcs[u])
    BY <1>1, <1>2, SignalEffect DEF SignalWriter
  <1>4. ASSUME NEW pcs \in SignalReader(q)
        PROVE  pcs \in [Threads -> Label] /\ \A u \in Threads : Alike(pc[u], pcs[u])
    BY <1>1, <1>2, SignalEffect DEF SignalReader
  <1> QED BY <1>3, <1>4

(* The steps of a call that are quiet: all but open, close and destroy.    *)
LEMMA QuietSteps ==
    ASSUME MemoryInv, NEW t \in Threads,
           \/ Lock(t) \/ EndWakeup(t) \/ ReadEof(t) \/ ReadEmpty(t) \/ ReadPeek(t)
           \/ ReadHeader(t) \/ ReadBody(t) \/ WriteReject(t) \/ WriteWait(t) \/ WritePut(t)
           \/ SpuriousWakeup(t)
    PROVE  Quiet(t)
  <1> DEFINE q == arg[t].q
  <1>a. /\ mq \in [Queues -> Backend] /\ arg \in [Threads -> Arg] /\ pc \in [Threads -> Label]
        /\ scan \in [Threads -> Seq(Node)]
    BY DEF MemoryInv, TypeOK
  <1>b. (\A l : Alike(l, l)) /\ \A u \in Threads \ {t} : Alike(pc[u], pc[u])
    BY DEF Alike
  <1>c. \A l \in Plain : l \notin {"idle"} \cup PollLabels
    BY DEF Plain, PollLabels
  <1>d. ASSUME pc[t] \notin {"idle"} \cup PollLabels
        PROVE  /\ q \in Queues /\ mq[q] \in Backend /\ arg[t] \in Arg
               /\ SameCall(arg[t], arg[t]) /\ arg = [arg EXCEPT ![t] = arg[t]]
               /\ SameCounters(mq[q], mutex_unlock(mq[q])) /\ SameCounters(mq[q], mq[q])
    BY <1>a, <1>d, InCall, SameCallOf, SameCountersOf
  <1>1. CASE Lock(t)
    <2>1. pc[t] \in LockLabels /\ pc[t] \notin {"idle"} \cup PollLabels
      BY <1>1 DEF Lock, LockLabels, PollLabels
    <2>2. Alike(pc[t], Locked(pc[t])) \/ (pc[t] = "open_lock" /\ Locked(pc[t]) = "open")
      BY <2>1 DEF LockLabels, Locked, Alike, Plain
    <2>3. SameCounters(mq[q], [mq[q] EXCEPT !.mutex = t])
      BY <1>d, <2>1, SameCountersOf
    <2>4. mq' = [mq EXCEPT ![q] = [mq[q] EXCEPT !.mutex = t]] /\ pc' = [pc EXCEPT ![t] = Locked(pc[t])]
          /\ handle' = handle /\ arg' = arg
      BY <1>1, <1>a, <1>d, <2>1 DEF Lock
    <2> QED BY <1>a, <1>b, <1>d, <2>1, <2>2, <2>3, <2>4, QuietShape
  <1>3. CASE EndWakeup(t)
    <2>1. pc[t] \notin {"idle"} \cup PollLabels
      BY <1>3, <1>c DEF EndWakeup, Plain
    <2> QED BY <1>3, <1>a, <1>b, <1>d, <2>1, QuietShape DEF EndWakeup, Leave
  <1>4. CASE ReadEof(t)
    <2>1. pc[t] \in Plain
      BY <1>4 DEF ReadEof, Plain
    <2>2. SameCounters(mq[q], [mq[q] EXCEPT !.queue_event = @ \cup {"NOWRITERS"}])
      BY <1>c, <1>d, <2>1 DEF SameCounters, Backend
    <2>3. /\ BeginWakeup(t, pc, "EOF", [mq[q] EXCEPT !.queue_event = @ \cup {"NOWRITERS"}])
          /\ handle' = handle
      BY <1>4 DEF ReadEof
    <2> QED BY <1>a, <1>b, <2>1, <2>2, <2>3, BeginWakeupQuiet
  <1>5. CASE ReadEmpty(t)
    <2>1. pc[t] \in Plain /\ Alike(pc[t], "read_wait") /\ pc[t] \notin {"idle"} \cup PollLabels
      BY <1>5, <1>c DEF ReadEmpty, Plain, Alike
    <2>2. CASE "NONBLOCK" \in arg[t].flags
      BY <1>5, <1>a, <1>b, <1>d, <2>1, <2>2, QuietShape DEF ReadEmpty, Leave
    <2>3. CASE "NONBLOCK" \notin arg[t].flags
      BY <1>5, <1>a, <1>b, <1>d, <2>1, <2>3, QuietShape DEF ReadEmpty
    <2> QED BY <2>2, <2>3
  <1>6. CASE ReadPeek(t)
    <2>1. pc[t] \in Plain /\ Alike(pc[t], "take") /\ pc[t] \notin {"idle"} \cup PollLabels
      BY <1>6, <1>c DEF ReadPeek, Plain, Alike
    <2>2. PICK n \in SizeAt(mq[q]) :
             /\ arg' = [arg EXCEPT ![t] = [arg[t] EXCEPT !.head = n]]
             /\ mq' = IF arg[t].len < n THEN [mq EXCEPT ![q] = mutex_unlock(@)] ELSE mq
      BY <1>6, <1>a DEF ReadPeek
    <2>3. PICK b : mq' = [mq EXCEPT ![q] = b] /\ SameCounters(mq[q], b)
      BY <1>a, <1>d, <2>1, <2>2
    <2>4. SameCall(arg[t], [arg[t] EXCEPT !.head = n])
      BY <1>d, <2>1, SameCallOf
    <2> QED BY <1>6, <1>a, <1>b, <1>d, <2>1, <2>2, <2>3, <2>4, QuietShape DEF ReadPeek
  <1>7. CASE ReadHeader(t)
    <2>1. pc[t] \in Plain /\ Alike(pc[t], "take_body") /\ pc[t] \notin {"idle"} \cup PollLabels
      BY <1>7, <1>c DEF ReadHeader, Plain, Alike
    <2>2. PICK n : arg' = [arg EXCEPT ![t] = [arg[t] EXCEPT !.head = n]]
      BY <1>7, <1>a DEF ReadHeader
    <2>3. SameCall(arg[t], [arg[t] EXCEPT !.head = n])
      BY <1>d, <2>1, SameCallOf
    <2>4. SameCounters(mq[q], ring_buffer_read(mq[q], SizeT))
      BY <1>d, <2>1, SameCountersOf
    <2> QED BY <1>7, <1>a, <1>b, <1>d, <2>1, <2>2, <2>3, <2>4, QuietShape DEF ReadHeader
  <1>8. CASE ReadBody(t)
    <2> DEFINE b == ring_buffer_read(mq[q], arg[t].head)
    <2>1. pc[t] \in Plain /\ pc[t] \notin {"idle"} \cup PollLabels
      BY <1>8, <1>c DEF ReadBody, Plain
    <2>2. PICK pcs \in SignalWriter(q) : BeginWakeup(t, pcs, "MSG", [b EXCEPT !.queue_event = ReadEvents(b)])
      BY <1>8 DEF ReadBody
    <2>3. SameCounters(mq[q], b) /\ b \in Backend
      BY <1>d, <2>1, SameCountersOf, InCall, BufferTypes
    <2> HIDE DEF b
    <2>4. SameCounters(mq[q], [b EXCEPT !.queue_event = ReadEvents(b)])
      BY <1>d, <2>1, <2>3, SameCountersOf
    <2>5. pcs \in [Threads -> Label] /\ \A u \in Threads : Alike(pc[u], pcs[u])
      BY <2>2, SignalAlike
    <2>6. handle' = handle
      BY <1>8 DEF ReadBody
    <2> QED BY <2>1, <2>2, <2>4, <2>5, <2>6, BeginWakeupQuiet
  <1>9. CASE WriteReject(t)
    <2>1. pc[t] \notin {"idle"} \cup PollLabels
      BY <1>9, <1>c DEF WriteReject, Plain
    <2> QED BY <1>9, <1>a, <1>b, <1>d, <2>1, QuietShape DEF WriteReject, Leave
  <1>10. CASE WriteWait(t)
    <2>1. pc[t] \in Plain /\ Alike(pc[t], "write_wait") /\ pc[t] \notin {"idle"} \cup PollLabels
      BY <1>10, <1>c DEF WriteWait, Accepted, Plain, Alike
    <2> QED BY <1>10, <1>a, <1>b, <1>d, <2>1, QuietShape DEF WriteWait
  <1>11. CASE WritePut(t)
    <2> DEFINE m == [id |-> stored[q] + 1, len |-> arg[t].len]
               h == ring_buffer_write(mq[q], HeaderOf(m))
               b == ring_buffer_write(h, BodyOf(m))
    <2>1. pc[t] \in Plain /\ pc[t] \notin {"idle"} \cup PollLabels
      BY <1>11, <1>c DEF WritePut, Accepted, Plain
    <2>2. PICK pcs \in SignalReader(q) :
             IF "NONBLOCK" \in arg[t].flags
             THEN /\ mq' = [mq EXCEPT ![q] = mutex_unlock(b)]
                  /\ pc' = [pcs EXCEPT ![t] = "idle"]
                  /\ Leave(t, "EAGAIN")
                  /\ UNCHANGED scan
             ELSE /\ BeginWakeup(t, pcs, "OK", [b EXCEPT !.queue_event = WriteEvents(b)])
                  /\ UNCHANGED ret
      BY <1>11 DEF WritePut
    <2>3. m \in Msg
      BY <2>1, InCall DEF Msg, MemoryInv, TypeOK
    <2>4. h \in Backend /\ SameCounters(mq[q], h)
      BY <1>d, <2>1, <2>3, BufferTypes, MessageTypes, SameCountersOf
    <2> HIDE DEF h
    <2>5. b \in Backend /\ SameCounters(h, b)
      BY <2>3, <2>4, BufferTypes, MessageTypes, SameCountersOf
    <2> HIDE DEF m, b
    <2>6. SameCounters(mq[q], b)
      BY <1>d, <2>1, <2>4, <2>5, SameCountersOf
    <2>7. /\ SameCounters(mq[q], [b EXCEPT !.queue_event = WriteEvents(b)])
          /\ SameCounters(mq[q], mutex_unlock(b))
      BY <1>d, <2>1, <2>5, <2>6, SameCountersOf
    <2>8. pcs \in [Threads -> Label] /\ \A u \in Threads : Alike(pc[u], pcs[u])
      BY <2>2, SignalAlike
    <2>9. handle' = handle
      BY <1>11 DEF WritePut
    <2>10. CASE "NONBLOCK" \in arg[t].flags
      <3>1. /\ mq' = [mq EXCEPT ![q] = mutex_unlock(b)] /\ pc' = [pcs EXCEPT ![t] = "idle"]
            /\ arg' = [arg EXCEPT ![t] = NoArg]
        BY <2>2, <2>10 DEF Leave
      <3>2. q \in Queues /\ \A u \in Threads \ {t} : Alike(pc[u], pcs[u])
        BY <1>d, <2>1, <2>8
      <3> QED BY <2>7, <2>8, <2>9, <3>1, <3>2, QuietShape
    <2>11. CASE "NONBLOCK" \notin arg[t].flags
      BY <2>1, <2>2, <2>7, <2>8, <2>9, <2>11, BeginWakeupQuiet
    <2> QED BY <2>10, <2>11
  <1>12. CASE SpuriousWakeup(t)
    <2>1. \A u \in Threads : Alike(pc[u], pc'[u])
      BY <1>12, <1>a DEF SpuriousWakeup, Alike, Plain
    <2>2. mq' = mq /\ handle' = handle /\ arg' = arg
      BY <1>12 DEF SpuriousWakeup
    <2>3. \A x \in Queues : SameCounters(mq[x], mq'[x])
      BY <1>a, <2>2, SameCountersOf
    <2> QED BY <2>1, <2>2, <2>3 DEF Quiet
  <1> QED BY <1>1, <1>3, <1>4, <1>5, <1>6, <1>7, <1>8, <1>9, <1>10, <1>11, <1>12

-----------------------------------------------------------------------------
(* A call that is refused changes nothing the invariant speaks of.         *)
LEMMA RefuseInv ==
    ASSUME MemoryInv, TypeOK', UNCHANGED <<mq, handle, pc, arg>>
    PROVE  MemoryInv'
  <1>1. \A q : Open(q)' = Open(q) /\ \A flag : OpenFor(q, flag)' = OpenFor(q, flag)
    BY DEF Open, OpenFor
  <1>2. HandleCounts'
    BY <1>1 DEF MemoryInv, HandleCounts
  <1>3. NoUseAfterFree'
    BY DEF MemoryInv, NoUseAfterFree
  <1>4. CallInv'
    BY DEF MemoryInv, CallInv
  <1> QED BY <1>2, <1>3, <1>4 DEF MemoryInv

(* A call that begins works through a handle that is open.                 *)
LEMMA EnterInv ==
    ASSUME MemoryInv, TypeOK', NEW s \in Slots, NEW t \in Threads, SlotOwner[s] = t, pc[t] = "idle",
           handle[s] # NullHandle, NEW label, NEW a, Enter(t, label, a),
           a.slot = s, a.q = handle[s].q,
           \/ /\ label \in {"close_lock", "read_lock", "write_lock"}
              /\ a.dst = None /\ a.flags = handle[s].flags
           \/ /\ label = "open_lock"
              /\ a.dst \in Slots /\ Vacant(a.dst)
    PROVE  MemoryInv'
  <1>1. /\ handle' = handle /\ mq' = mq
        /\ \A u \in Threads : u # t => arg'[u] = arg[u] /\ pc'[u] = pc[u]
        /\ arg'[t] = a /\ pc'[t] = label
    BY DEF Enter, MemoryInv, TypeOK
  <1>2. HandleCounts'
    <2>1. \A q : Open(q)' = Open(q) /\ \A flag : OpenFor(q, flag)' = OpenFor(q, flag)
      BY <1>1 DEF Open, OpenFor
    <2> QED BY <1>1, <2>1 DEF MemoryInv, HandleCounts
  <1>3. handle[s].q # None
    BY DEF MemoryInv, CallInv
  <1>4. NoUseAfterFree'
    BY <1>1, <1>3 DEF MemoryInv, NoUseAfterFree
  <1>5. /\ s # None /\ (a.dst # None => a.dst \in Slots /\ Vacant(a.dst))
        /\ (a.dst # None <=> label \in {"open_lock", "open"})
        /\ label \notin {"idle", "destroy"} \cup PollLabels
        /\ (a.dst = None => a.flags = handle[s].flags)
    BY NoneAssumption DEF PollLabels
  <1>6. ASSUME NEW u \in Threads
        PROVE  /\ arg'[u].q = None <=> pc'[u] \in {"idle"} \cup PollLabels
               /\ arg'[u].q # None /\ pc'[u] # "destroy" =>
                     /\ arg'[u].slot # None
                     /\ SlotOwner[arg'[u].slot] = u
                     /\ handle'[arg'[u].slot].q = arg'[u].q
                     /\ arg'[u].dst = None => handle'[arg'[u].slot].flags = arg'[u].flags
               /\ arg'[u].dst # None <=> pc'[u] \in {"open_lock", "open"}
               /\ arg'[u].dst # None => handle'[arg'[u].dst] = NullHandle
               /\ pc'[u] = "destroy" => mq'[arg'[u].q].refs = 0
    <2>1. CASE u = t
      BY <1>1, <1>3, <1>5, <2>1 DEF Vacant
    <2>2. CASE u # t
      BY <1>1, <2>2 DEF MemoryInv, CallInv
    <2> QED BY <2>1, <2>2
  <1>7. ASSUME NEW u \in Threads, NEW v \in Threads, u # v
        PROVE  /\ arg'[u].dst # None => arg'[u].dst # arg'[v].dst
               /\ pc'[u] = "destroy" /\ pc'[v] = "destroy" => arg'[u].q # arg'[v].q
    <2>1. CASE u = t
      BY <1>1, <1>5, <1>7, <2>1 DEF Vacant
    <2>2. CASE v = t
      BY <1>1, <1>5, <1>7, <2>2 DEF Vacant, MemoryInv, CallInv
    <2>3. CASE u # t /\ v # t
      BY <1>1, <1>7, <2>3 DEF MemoryInv, CallInv
    <2> QED BY <2>1, <2>2, <2>3
  <1>8. \A x \in Slots : handle'[x].q = None => handle'[x] = NullHandle
    BY <1>1 DEF MemoryInv, CallInv
  <1>9. CallInv'
    BY <1>6, <1>7, <1>8 DEF CallInv
  <1> QED BY <1>2, <1>4, <1>9 DEF MemoryInv

(* msg_queue_create: no one knows the new backend yet.                     *)
LEMMA CreateInv ==
    ASSUME MemoryInv, TypeOK', NEW s \in Slots, Vacant(s), NEW q \in Queues, mq[q].status = "unborn",
           NEW flags \in SUBSET Flag, NEW capacity, NEW event,
           mq' = [mq EXCEPT ![q] = mq_open(mq_init(capacity, event), flags)],
           handle' = [handle EXCEPT ![s] = [q |-> q, flags |-> flags]],
           UNCHANGED <<pc, arg>>
    PROVE  MemoryInv'
  <1> DEFINE b == mq_open(mq_init(capacity, event), flags)
  <1>1. /\ b.status = "live" /\ b.refs = 1
        /\ b.readers = (IF "READER" \in flags THEN 1 ELSE 0)
        /\ b.writers = (IF "WRITER" \in flags THEN 1 ELSE 0)
        /\ ~b.no_readers /\ ~b.no_writers
    <2>1. ~b.no_readers /\ ~b.no_writers
      BY DEF mq_open, mq_init
    <2>2. b.status = "live"
      BY DEF mq_open, mq_init
    <2>3. /\ b.refs = 1 
          /\ b.readers = (IF "READER" \in flags THEN 1 ELSE 0)
          /\ b.writers = (IF "WRITER" \in flags THEN 1 ELSE 0)
      BY DEF mq_open, mq_init
    <2> QED BY <2>1, <2>2, <2>3
  <1> HIDE DEF b
  <1>2. mq'[q] = b /\ \A x \in Queues \ {q} : mq'[x] = mq[x]
    BY DEF b, MemoryInv, TypeOK
  <1>3. handle'[s] = [q |-> q, flags |-> flags] /\ \A x \in Slots \ {s} : handle'[x] = handle[x]
    BY DEF MemoryInv, TypeOK
  <1>4. handle[s] = NullHandle /\ \A u \in Threads : arg[u].dst # s
    BY DEF Vacant
  <1>5. q # None
    BY NoneAssumption
  <1>6. \A x \in Slots : handle[x].q # q
    BY <1>5 DEF MemoryInv, NoUseAfterFree, NullHandle
  <1>7. \A u \in Threads : arg[u].q # q
    BY <1>5 DEF MemoryInv, NoUseAfterFree
  <1>8. Open(q)' = {s} /\ \A flag : OpenFor(q, flag)' = IF flag \in flags THEN {s} ELSE {}
    BY <1>3, <1>6 DEF Open, OpenFor
  <1>9. \A x \in Queues \ {q} : Open(x)' = Open(x) /\ \A flag : OpenFor(x, flag)' = OpenFor(x, flag)
    BY <1>3, <1>4, NoneAssumption DEF Open, OpenFor, NullHandle
  <1>10. HandleCounts'
    <2>1. mq'[q].status = "live" =>
            /\ mq'[q].refs = Cardinality(Open(q)')
            /\ mq'[q].readers = Cardinality(OpenFor(q, "READER")')
            /\ mq'[q].writers = Cardinality(OpenFor(q, "WRITER")')
            /\ mq'[q].no_readers => mq'[q].readers = 0
            /\ mq'[q].no_writers => mq'[q].writers = 0
      <3>1. Cardinality({s}) = 1 /\ Cardinality({}) = 0
        BY FS_Singleton, FS_EmptySet
      <3>2. mq'[q].refs = Cardinality(Open(q)')
        BY <1>1, <1>2, <1>8, <3>1
      <3>3. mq'[q].readers = Cardinality(OpenFor(q, "READER")')
        BY <1>1, <1>2, <1>8, <3>1
      <3>4. mq'[q].writers = Cardinality(OpenFor(q, "WRITER")')
        BY <1>1, <1>2, <1>8, <3>1
      <3> QED BY <1>1, <1>2, <3>2, <3>3, <3>4
    <2> QED BY <1>2, <1>9, <2>1 DEF MemoryInv, HandleCounts
  <1>11. NoUseAfterFree'
    <2>1. ASSUME NEW u \in Threads, arg'[u].q # None PROVE mq'[arg'[u].q].status = "live"
      <3>1. arg[u].q \in Queues \ {q}
        BY <1>7, <2>1 DEF MemoryInv, TypeOK, Arg
      <3> QED BY <1>2, <2>1, <3>1 DEF MemoryInv, NoUseAfterFree
    <2>2. ASSUME NEW x \in Slots, handle'[x] # NullHandle PROVE mq'[handle'[x].q].status = "live"
      <3>1. CASE x = s
        BY <1>1, <1>2, <1>3, <3>1
      <3>2. CASE x # s
        <4>1. handle'[x] = handle[x] /\ handle[x].q \in Queues \ {q}
          BY <1>3, <1>6, <2>2, <3>2 DEF MemoryInv, TypeOK, Handle, CallInv
        <4> QED BY <1>2, <2>2, <4>1 DEF MemoryInv, NoUseAfterFree
      <3> QED BY <3>1, <3>2
    <2> QED BY <2>1, <2>2 DEF NoUseAfterFree
  <1>12. ASSUME NEW u \in Threads, arg[u].q # None, pc[u] # "destroy"
         PROVE  arg[u].slot # s /\ handle'[arg[u].slot] = handle[arg[u].slot]
    <2>1. arg[u].slot \in Slots /\ handle[arg[u].slot].q # None
      BY <1>12 DEF MemoryInv, CallInv, TypeOK, Arg
    <2> QED BY <1>3, <1>4, <2>1 DEF NullHandle
  <1>13. ASSUME NEW u \in Threads, arg[u].dst # None PROVE handle'[arg[u].dst] = NullHandle
    <2>1. arg[u].dst \in Slots \ {s}
      BY <1>4, <1>13 DEF MemoryInv, TypeOK, Arg
    <2> QED BY <1>3, <1>13, <2>1 DEF MemoryInv, CallInv
  <1>14. ASSUME NEW u \in Threads, pc[u] = "destroy" PROVE mq'[arg[u].q].refs = 0
    <2>1. arg[u].q \in Queues \ {q}
      BY <1>7, <1>14, InCall DEF PollLabels
    <2> QED BY <1>2, <1>14, <2>1 DEF MemoryInv, CallInv
  <1>15. \A x \in Slots : handle'[x].q = None => handle'[x] = NullHandle
    BY <1>3, <1>5 DEF MemoryInv, CallInv
  <1>16. CallInv'
    BY <1>12, <1>13, <1>14, <1>15 DEF MemoryInv, CallInv
  <1> QED BY <1>10, <1>11, <1>16 DEF MemoryInv

(* msg_queue_open under the mutex: the handle it works through is open, so *)
(* that no destroy is under way, and the new handle is counted.            *)
LEMMA OpenInv ==
    ASSUME MemoryInv, TypeOK', NEW t \in Threads, OpenBody(t)
    PROVE  MemoryInv'
  <1>1. PICK q \in Queues, s \in Slots, flags \in SUBSET Flag :
           arg[t].q = q /\ arg[t].dst = s /\ arg[t].flags = flags
    BY InCall DEF OpenBody, PollLabels, MemoryInv, CallInv, Arg
  <1> DEFINE b == mq[q]
             c == mutex_unlock(mq_open(b, flags))
  <1>2. b \in Backend /\ b.status = "live" /\ b.refs # 0
    BY <1>1, InCallRefs DEF OpenBody, PollLabels, MemoryInv, TypeOK
  <1>3. handle[s] = NullHandle
    BY <1>1, NoneAssumption DEF MemoryInv, CallInv
  <1>4. q # None /\ s \notin Open(q)
    BY <1>1, <1>3, NoneAssumption DEF Open, NullHandle
  <1>5. /\ c.status = "live" /\ c.refs = b.refs + 1
        /\ c.readers = (IF "READER" \in flags THEN b.readers + 1 ELSE b.readers)
        /\ c.writers = (IF "WRITER" \in flags THEN b.writers + 1 ELSE b.writers)
    BY <1>2 DEF mutex_unlock, mq_open, Backend
  <1>6. /\ c.no_readers => b.no_readers /\ "READER" \notin flags
        /\ c.no_writers => b.no_writers /\ "WRITER" \notin flags
    BY <1>2 DEF mutex_unlock, mq_open, Backend
  <1>7. mq'[q] = c /\ \A x \in Queues \ {q} : mq'[x] = mq[x]
    BY <1>1 DEF OpenBody, MemoryInv, TypeOK
  <1>8. handle'[s] = [q |-> q, flags |-> flags] /\ \A x \in Slots \ {s} : handle'[x] = handle[x]
    BY <1>1 DEF OpenBody, MemoryInv, TypeOK
  <1>9. /\ arg'[t] = NoArg /\ pc'[t] = "idle"
        /\ \A u \in Threads \ {t} : arg'[u] = arg[u] /\ pc'[u] = pc[u]
    BY DEF OpenBody, Leave, MemoryInv, TypeOK
  <1> HIDE DEF c
  <1>10. Open(q)' = Open(q) \cup {s} /\ \A x \in Queues \ {q} : Open(x)' = Open(x)
    BY <1>1, <1>3, <1>8, NoneAssumption DEF Open, NullHandle
  <1>11. /\ \A flag : OpenFor(q, flag)' = IF flag \in flags THEN OpenFor(q, flag) \cup {s} ELSE OpenFor(q, flag)
         /\ \A x \in Queues \ {q} : \A flag : OpenFor(x, flag)' = OpenFor(x, flag)
    BY <1>1, <1>3, <1>4, <1>8, <1>10, NoneAssumption DEF OpenFor, Open, NullHandle
  <1>12. HandleCounts'
    <2>1. \A flag : s \notin OpenFor(q, flag)
      BY <1>4 DEF OpenFor
    <2>2. /\ Cardinality(Open(q) \cup {s}) = Cardinality(Open(q)) + 1
          /\ \A flag : Cardinality(OpenFor(q, flag) \cup {s}) = Cardinality(OpenFor(q, flag)) + 1
      BY <1>4, <2>1, OpenFinite, FS_AddElement
    <2>3. /\ b.refs = Cardinality(Open(q))
          /\ b.readers = Cardinality(OpenFor(q, "READER"))
          /\ b.writers = Cardinality(OpenFor(q, "WRITER"))
          /\ b.no_readers => b.readers = 0
          /\ b.no_writers => b.writers = 0
      BY <1>1, <1>2 DEF MemoryInv, HandleCounts
    <2>4. c.refs = Cardinality(Open(q)')
      BY <1>5, <1>10, <2>2, <2>3
    <2>5. c.readers = Cardinality(OpenFor(q, "READER")')
      BY <1>5, <1>11, <2>2, <2>3
    <2>6. c.writers = Cardinality(OpenFor(q, "WRITER")')
      BY <1>5, <1>11, <2>2, <2>3
    <2>7. (c.no_readers => c.readers = 0) /\ (c.no_writers => c.writers = 0)
      BY <1>5, <1>6, <2>3
    <2>8. ASSUME NEW x \in Queues, mq'[x].status = "live"
          PROVE  /\ mq'[x].refs = Cardinality(Open(x)')
                 /\ mq'[x].readers = Cardinality(OpenFor(x, "READER")')
                 /\ mq'[x].writers = Cardinality(OpenFor(x, "WRITER")')
                 /\ mq'[x].no_readers => mq'[x].readers = 0
                 /\ mq'[x].no_writers => mq'[x].writers = 0
      <3>1. CASE x = q
        BY <1>7, <2>4, <2>5, <2>6, <2>7, <3>1
      <3>2. CASE x # q
        BY <1>7, <1>10, <1>11, <2>8, <3>2 DEF MemoryInv, HandleCounts
      <3> QED BY <3>1, <3>2
    <2> QED BY <2>8 DEF HandleCounts
  <1>13. \A x \in Queues : mq[x].status = "live" => mq'[x].status = "live"
    BY <1>5, <1>7
  <1>14. NoUseAfterFree'
    <2>1. ASSUME NEW u \in Threads, arg'[u].q # None PROVE mq'[arg'[u].q].status = "live"
      <3>1. u # t /\ arg[u].q \in Queues
        <4>1. u # t
          BY <1>9, <2>1 DEF NoArg
        <4>2. arg[u] \in Arg
          BY DEF MemoryInv, TypeOK
        <4>3. arg[u].q \in Queues \cup {None}
          BY <4>2 DEF Arg
        <4> QED BY <1>9, <2>1, <4>1, <4>3
      <3> QED BY <1>9, <1>13, <2>1, <3>1 DEF MemoryInv, NoUseAfterFree
    <2>2. ASSUME NEW x \in Slots, handle'[x] # NullHandle PROVE mq'[handle'[x].q].status = "live"
      <3>1. CASE x = s
        BY <1>5, <1>7, <1>8, <3>1
      <3>2. CASE x # s
        <4>1. handle'[x] = handle[x] /\ handle[x].q \in Queues
          BY <1>8, <2>2, <3>2 DEF MemoryInv, TypeOK, Handle, CallInv
        <4> QED BY <1>13, <2>2, <4>1 DEF MemoryInv, NoUseAfterFree
      <3> QED BY <3>1, <3>2
    <2> QED BY <2>1, <2>2 DEF NoUseAfterFree
  <1>15. ASSUME NEW u \in Threads, u # t, arg[u].q # None, pc[u] # "destroy"
         PROVE  handle'[arg[u].slot] = handle[arg[u].slot]
    <2>1. arg[u].slot \in Slots /\ handle[arg[u].slot].q # None
      BY <1>15, CallSlot
    <2> QED BY <1>3, <1>8, <2>1 DEF NullHandle
  <1>16. ASSUME NEW u \in Threads, u # t, arg[u].dst # None PROVE handle'[arg[u].dst] = NullHandle
    <2>1. arg[u].dst \in Slots \ {s}
      BY <1>1, <1>16, NoneAssumption DEF MemoryInv, TypeOK, Arg, CallInv
    <2> QED BY <1>8, <1>16, <2>1 DEF MemoryInv, CallInv
  <1>17. ASSUME NEW u \in Threads, pc[u] = "destroy" PROVE mq'[arg[u].q].refs = 0
    <2>1. arg[u].q \in Queues /\ mq[arg[u].q].refs = 0
      BY <1>17, InCall DEF PollLabels, MemoryInv, CallInv
    <2> QED BY <1>2, <1>7, <2>1
  <1>18. NoArg.q = None /\ NoArg.dst = None
    BY DEF NoArg
  <1>19. \A x \in Slots : handle'[x].q = None => handle'[x] = NullHandle
    BY <1>4, <1>8 DEF MemoryInv, CallInv
  <1>20. CallInv'
    <2>1. ASSUME NEW u \in Threads
          PROVE  /\ arg'[u].q = None <=> pc'[u] \in {"idle"} \cup PollLabels
                 /\ arg'[u].q # None /\ pc'[u] # "destroy" =>
                       /\ arg'[u].slot # None
                       /\ SlotOwner[arg'[u].slot] = u
                       /\ handle'[arg'[u].slot].q = arg'[u].q
                       /\ arg'[u].dst = None => handle'[arg'[u].slot].flags = arg'[u].flags
                 /\ arg'[u].dst # None <=> pc'[u] \in {"open_lock", "open"}
                 /\ arg'[u].dst # None => handle'[arg'[u].dst] = NullHandle
                 /\ pc'[u] = "destroy" => mq'[arg'[u].q].refs = 0
      <3>1. CASE u = t
        BY <1>9, <1>18, <3>1
      <3>2. CASE u # t
        BY <1>9, <1>15, <1>16, <1>17, <3>2 DEF MemoryInv, CallInv
      <3> QED BY <3>1, <3>2
    <2>2. ASSUME NEW u \in Threads, NEW v \in Threads, u # v
          PROVE  /\ arg'[u].dst # None => arg'[u].dst # arg'[v].dst
                 /\ pc'[u] = "destroy" /\ pc'[v] = "destroy" => arg'[u].q # arg'[v].q
      BY <1>9, <1>18, <2>2 DEF MemoryInv, CallInv
    <2> QED BY <1>19, <2>1, <2>2 DEF CallInv
  <1> QED BY <1>12, <1>14, <1>20 DEF MemoryInv

(* Waking the waiters of a queue moves them between labels that are alike. *)
LEMMA CloseAlike ==
    ASSUME MemoryInv, NEW q, NEW b
    PROVE  /\ CloseBroadcast(q, b) \in [Threads -> Label]
           /\ \A u \in Threads : Alike(pc[u], CloseBroadcast(q, b)[u])
  <1>1. pc \in [Threads -> Label] /\ "write_relock" \in Label /\ "read_lock" \in Label
    BY DEF MemoryInv, TypeOK, Label, LockLabels
  <1> DEFINE w == IF b.no_readers THEN Waiting(q, "write_wait") ELSE {}
             r == IF b.no_writers THEN Waiting(q, "read_wait") ELSE {}
  <1>2. \A u \in w : pc[u] = "write_wait"
    BY DEF Waiting
  <1>3. \A u \in r : pc[u] = "read_wait"
    BY DEF Waiting
  <1>4. CloseBroadcast(q, b) = cond_broadcast(cond_broadcast(pc, w, "write_relock"), r, "read_lock")
    BY DEF CloseBroadcast
  <1> HIDE DEF w, r
  <1>5. CloseBroadcast(q, b) =
          [u \in Threads |-> IF u \in r THEN "read_lock" ELSE IF u \in w THEN "write_relock" ELSE pc[u]]
    BY <1>1, <1>4 DEF cond_broadcast
  <1>6. Alike("write_wait", "write_relock") /\ Alike("read_wait", "read_lock") /\ \A l : Alike(l, l)
    BY DEF Alike, Plain
  <1> QED BY <1>1, <1>2, <1>3, <1>5, <1>6

(* msg_queue_close under the mutex: the handle is no longer counted, and   *)
(* if it was the last one the call alone still refers to the backend.      *)
LEMMA CloseInv ==
    ASSUME MemoryInv, TypeOK', NEW t \in Threads, CloseBody(t)
    PROVE  MemoryInv'
  <1>0. pc[t] = "close"
    BY DEF CloseBody
  <1>1. PICK q \in Queues, s \in Slots, flags \in SUBSET Flag :
           arg[t].q = q /\ arg[t].slot = s /\ arg[t].flags = flags
    BY <1>0, CloseCounts, InCall DEF PollLabels
  <1> DEFINE b == mq[q]
             c == mq_close(b, flags)
  <1>2. /\ b \in Backend /\ b.status = "live" /\ b.refs # 0
        /\ "READER" \in flags => b.readers # 0
        /\ "WRITER" \in flags => b.writers # 0
        /\ handle[s] = [q |-> q, flags |-> flags]
    BY <1>0, <1>1, CloseCounts DEF MemoryInv, TypeOK
  <1>3. q # None /\ s # None /\ arg[t].dst = None /\ SlotOwner[s] = t
    BY <1>0, <1>1, NoneAssumption, CallSlot DEF MemoryInv, CallInv
  <1>4. c \in Backend
    BY <1>2, CloseType
  <1>5. /\ c.status = "live" /\ c.refs = b.refs - 1
        /\ c.readers = (IF "READER" \in flags THEN b.readers - 1 ELSE b.readers)
        /\ c.writers = (IF "WRITER" \in flags THEN b.writers - 1 ELSE b.writers)
    BY <1>2 DEF mq_close, Backend
  <1>6. /\ c.no_readers => b.no_readers \/ ("READER" \in flags /\ b.readers = 1)
        /\ c.no_writers => b.no_writers \/ ("WRITER" \in flags /\ b.writers = 1)
    BY <1>2 DEF mq_close, Backend
  <1> HIDE DEF c
  <1>7. /\ handle'[s] = NullHandle /\ \A x \in Slots \ {s} : handle'[x] = handle[x]
    BY <1>1 DEF CloseBody, MemoryInv, TypeOK
  <1>8. /\ SameCounters(c, mq'[q]) /\ \A x \in Queues \ {q} : mq'[x] = mq[x]
        /\ \A u \in Threads \ {t} : arg'[u] = arg[u] /\ Alike(pc[u], pc'[u])
        /\ \/ pc'[t] = "destroy" /\ arg'[t] = arg[t] /\ c.refs = 0
           \/ pc'[t] = "idle" /\ arg'[t] = NoArg
    <2>1. mq \in [Queues -> Backend] /\ arg \in [Threads -> Arg] /\ pc \in [Threads -> Label]
      BY DEF MemoryInv, TypeOK
    <2>2. CASE LastHandle(c)
      <3>1. /\ mq' = [mq EXCEPT ![q] = mutex_unlock(c)] /\ pc' = [pc EXCEPT ![t] = "destroy"]
            /\ arg' = arg
        BY <1>1, <2>2 DEF CloseBody, c
      <3>2. \A l : Alike(l, l)
        BY DEF Alike
      <3>3. c.refs = 0
        BY <2>2 DEF LastHandle
      <3>4. SameCounters(c, mutex_unlock(c))
        BY <1>4, SameCountersOf
      <3> QED BY <2>1, <3>1, <3>2, <3>3, <3>4
    <2>3. CASE ~LastHandle(c)
      <3> DEFINE e == c.queue_event \cup CloseEvents(c)
                 d == [c EXCEPT !.queue_event = e]
                 pcs == CloseBroadcast(q, c)
      <3>1. /\ mq' = [mq EXCEPT ![q] = mutex_unlock(d)] /\ pc' = [pcs EXCEPT ![t] = "idle"]
            /\ arg' = [arg EXCEPT ![t] = NoArg]
        BY <1>1, <1>4, <2>3 DEF CloseBody, Leave, c
      <3>2. e \in SUBSET Event
        BY <1>4, UpdateTypes DEF Backend
      <3> HIDE DEF e
      <3>3. d \in Backend /\ SameCounters(c, d)
        BY <1>4, <3>2, UpdateTypes, SameCountersOf
      <3>4. SameCounters(c, mutex_unlock(d))
        BY <1>4, <3>3, SameCountersOf
      <3>5. pcs \in [Threads -> Label] /\ \A u \in Threads : Alike(pc[u], pcs[u])
        BY CloseAlike
      <3> HIDE DEF d, pcs
      <3> QED BY <2>1, <3>1, <3>4, <3>5
    <2> QED BY <2>2, <2>3
  <1>9. Open(q)' = Open(q) \ {s} /\ \A x \in Queues \ {q} : Open(x)' = Open(x)
    BY <1>2, <1>3, <1>7, NoneAssumption DEF Open, NullHandle
  <1>10. /\ \A flag : OpenFor(q, flag)' = OpenFor(q, flag) \ {s}
         /\ \A x \in Queues \ {q} : \A flag : OpenFor(x, flag)' = OpenFor(x, flag)
    BY <1>2, <1>7, <1>9 DEF OpenFor, Open
  <1>11. HandleCounts'
    <2>1. s \in Open(q) /\ \A flag : s \in OpenFor(q, flag) <=> flag \in flags
      BY <1>2 DEF Open, OpenFor
    <2>2. Cardinality(Open(q) \ {s}) = Cardinality(Open(q)) - 1
      BY <2>1, OpenFinite, FS_RemoveElement
    <2>3. \A flag : Cardinality(OpenFor(q, flag) \ {s}) =
              IF flag \in flags THEN Cardinality(OpenFor(q, flag)) - 1 ELSE Cardinality(OpenFor(q, flag))
      BY <2>1, OpenFinite, FS_RemoveElement
    <2>4. /\ b.refs = Cardinality(Open(q))
          /\ b.readers = Cardinality(OpenFor(q, "READER"))
          /\ b.writers = Cardinality(OpenFor(q, "WRITER"))
          /\ b.no_readers => b.readers = 0
          /\ b.no_writers => b.writers = 0
      BY <1>2 DEF MemoryInv, HandleCounts
    <2>5. c.refs = Cardinality(Open(q)')
      BY <1>5, <1>9, <2>2, <2>4
    <2>6. c.readers = Cardinality(OpenFor(q, "READER")')
      BY <1>5, <1>10, <2>3, <2>4
    <2>7. c.writers = Cardinality(OpenFor(q, "WRITER")')
      BY <1>5, <1>10, <2>3, <2>4
    <2>8. (c.no_readers => c.readers = 0) /\ (c.no_writers => c.writers = 0)
      BY <1>2, <1>5, <1>6, <2>4 DEF Backend
    <2>9. ASSUME NEW x \in Queues, mq'[x].status = "live"
          PROVE  /\ mq'[x].refs = Cardinality(Open(x)')
                 /\ mq'[x].readers = Cardinality(OpenFor(x, "READER")')
                 /\ mq'[x].writers = Cardinality(OpenFor(x, "WRITER")')
                 /\ mq'[x].no_readers => mq'[x].readers = 0
                 /\ mq'[x].no_writers => mq'[x].writers = 0
      <3>1. CASE x = q
        BY <1>8, <2>5, <2>6, <2>7, <2>8, <3>1 DEF SameCounters
      <3>2. CASE x # q
        BY <1>8, <1>9, <1>10, <2>9, <3>2 DEF MemoryInv, HandleCounts
      <3> QED BY <3>1, <3>2
    <2> QED BY <2>9 DEF HandleCounts
  <1>12. \A x \in Queues : mq[x].status = "live" => mq'[x].status = "live"
    BY <1>5, <1>8 DEF SameCounters
  <1>13. NoUseAfterFree'
    <2>1. ASSUME NEW u \in Threads, arg'[u].q # None PROVE mq'[arg'[u].q].status = "live"
      <3>1. arg'[u].q = arg[u].q /\ arg[u].q \in Queues
        <4>1. arg'[u].q = arg[u].q
          BY <1>8, <2>1 DEF NoArg
        <4>2. arg[u].q \in Queues \cup {None}
          BY DEF MemoryInv, TypeOK, Arg
        <4> QED BY <2>1, <4>1, <4>2
      <3> QED BY <1>12, <2>1, <3>1 DEF MemoryInv, NoUseAfterFree
    <2>2. ASSUME NEW x \in Slots, handle'[x] # NullHandle PROVE mq'[handle'[x].q].status = "live"
      <3>1. handle'[x] = handle[x] /\ handle[x].q \in Queues
        BY <1>7, <2>2 DEF MemoryInv, TypeOK, Handle, CallInv
      <3> QED BY <1>12, <2>2, <3>1 DEF MemoryInv, NoUseAfterFree
    <2> QED BY <2>1, <2>2 DEF NoUseAfterFree
  <1>14. ASSUME NEW u \in Threads, u # t
         PROVE  /\ pc[u] \in {"idle"} \cup PollLabels <=> pc'[u] \in {"idle"} \cup PollLabels
                /\ pc[u] = "destroy" <=> pc'[u] = "destroy"
                /\ pc[u] \in {"open_lock", "open"} <=> pc'[u] \in {"open_lock", "open"}
    BY <1>8, <1>14 DEF Alike, Plain, PollLabels
  <1>15. ASSUME NEW u \in Threads, u # t, arg[u].q # None, pc[u] # "destroy"
         PROVE  handle'[arg[u].slot] = handle[arg[u].slot]
    <2>1. arg[u].slot \in Slots \ {s}
      BY <1>3, <1>15, CallSlot
    <2> QED BY <1>7, <2>1
  <1>16. ASSUME NEW u \in Threads, arg[u].dst # None PROVE handle'[arg[u].dst] = NullHandle
    <2>1. arg[u].dst \in Slots /\ handle[arg[u].dst] = NullHandle
      BY <1>16 DEF MemoryInv, TypeOK, Arg, CallInv
    <2> QED BY <1>7, <2>1
  <1>17. ASSUME NEW u \in Threads, pc[u] = "destroy"
         PROVE  arg[u].q # q /\ mq'[arg[u].q].refs = 0
    <2>1. arg[u].q \in Queues /\ mq[arg[u].q].refs = 0
      BY <1>17, InCall DEF PollLabels, MemoryInv, CallInv
    <2> QED BY <1>2, <1>8, <2>1
  <1>18. NoArg.q = None /\ NoArg.dst = None
    BY DEF NoArg
  <1>19. \A x \in Slots : handle'[x].q = None => handle'[x] = NullHandle
    BY <1>7 DEF MemoryInv, CallInv
  <1>20. CallInv'
    <2>1. ASSUME NEW u \in Threads
          PROVE  /\ arg'[u].q = None <=> pc'[u] \in {"idle"} \cup PollLabels
                 /\ arg'[u].q # None /\ pc'[u] # "destroy" =>
                       /\ arg'[u].slot # None
                       /\ SlotOwner[arg'[u].slot] = u
                       /\ handle'[arg'[u].slot].q = arg'[u].q
                       /\ arg'[u].dst = None => handle'[arg'[u].slot].flags = arg'[u].flags
                 /\ arg'[u].dst # None <=> pc'[u] \in {"open_lock", "open"}
                 /\ arg'[u].dst # None => handle'[arg'[u].dst] = NullHandle
                 /\ pc'[u] = "destroy" => mq'[arg'[u].q].refs = 0
      <3>1. CASE u = t /\ pc'[t] = "idle"
        BY <1>8, <1>18, <3>1
      <3>2. CASE u = t /\ pc'[t] = "destroy"
        BY <1>1, <1>3, <1>8, <3>2 DEF SameCounters, PollLabels
      <3>3. CASE u # t
        <4>1. arg'[u] = arg[u]
          BY <1>8, <3>3
        <4> QED BY <1>14, <1>15, <1>16, <1>17, <3>3, <4>1 DEF MemoryInv, CallInv
      <3> QED BY <1>8, <3>1, <3>2, <3>3
    <2>2. ASSUME NEW u \in Threads, NEW v \in Threads, u # v
          PROVE  /\ arg'[u].dst # None => arg'[u].dst # arg'[v].dst
                 /\ pc'[u] = "destroy" /\ pc'[v] = "destroy" => arg'[u].q # arg'[v].q
      <3>1. arg'[u].dst # None => arg'[u].dst # arg'[v].dst
        BY <1>3, <1>8, <1>18, <2>2 DEF MemoryInv, CallInv
      <3>2. ASSUME pc'[u] = "destroy", pc'[v] = "destroy" PROVE arg'[u].q # arg'[v].q
        <4>1. CASE u = t
          BY <1>1, <1>8, <1>14, <1>17, <2>2, <3>2, <4>1 DEF NoArg
        <4>2. CASE v = t
          BY <1>1, <1>8, <1>14, <1>17, <2>2, <3>2, <4>2 DEF NoArg
        <4>3. CASE u # t /\ v # t
          BY <1>8, <1>14, <2>2, <3>2, <4>3 DEF MemoryInv, CallInv
        <4> QED BY <4>1, <4>2, <4>3
      <3> QED BY <3>1, <3>2
    <2> QED BY <1>19, <2>1, <2>2 DEF CallInv
  <1> QED BY <1>11, <1>13, <1>20 DEF MemoryInv

(* mq_destroy and free: the count of handles is zero, so that no handle    *)
(* and no other call refers to the backend.                                *)
LEMMA DestroyInv ==
    ASSUME MemoryInv, TypeOK', NEW t \in Threads, Destroy(t)
    PROVE  MemoryInv'
  <1>0. pc[t] = "destroy" /\ pc[t] \notin {"idle"} \cup PollLabels
    BY DEF Destroy, PollLabels
  <1>1. PICK q \in Queues : arg[t].q = q
    BY <1>0, InCall
  <1>2. q # None /\ mq[q] \in Backend /\ mq[q].status = "live" /\ mq[q].refs = 0
    BY <1>0, <1>1, NoneAssumption DEF MemoryInv, TypeOK, NoUseAfterFree, CallInv
  <1>3. Open(q) = {}
    <2>1. Cardinality(Open(q)) = 0
      BY <1>2 DEF MemoryInv, HandleCounts
    <2> QED BY <2>1, OpenFinite, FS_EmptySet
  <1>4. \A s \in Slots : handle[s].q # q
    BY <1>3 DEF Open
  <1>5. \A u \in Threads \ {t} : arg[u].q # q
    BY <1>0, <1>1, <1>2, <1>4, CallSlot DEF MemoryInv, CallInv
  <1>6. /\ mq'[q].status = "freed" /\ \A x \in Queues \ {q} : mq'[x] = mq[x]
        /\ handle' = handle
        /\ arg'[t] = NoArg /\ pc'[t] = "idle"
        /\ \A u \in Threads \ {t} : arg'[u] = arg[u] /\ pc'[u] = pc[u]
    BY <1>1, <1>2 DEF Destroy, Leave, MemoryInv, TypeOK, Backend
  <1>7. \A x : Open(x)' = Open(x) /\ \A flag : OpenFor(x, flag)' = OpenFor(x, flag)
    BY <1>6 DEF Open, OpenFor
  <1>8. HandleCounts'
    BY <1>6, <1>7 DEF MemoryInv, HandleCounts
  <1>9. NoUseAfterFree'
    <2>1. ASSUME NEW u \in Threads, arg'[u].q # None PROVE mq'[arg'[u].q].status = "live"
      <3>1. u # t
        BY <1>6, <2>1 DEF NoArg
      <3>2. arg'[u] = arg[u] /\ arg[u].q \in Queues \cup {None}
        BY <1>6, <3>1 DEF MemoryInv, TypeOK, Arg
      <3> QED BY <1>5, <1>6, <2>1, <3>1, <3>2 DEF MemoryInv, NoUseAfterFree
    <2>2. ASSUME NEW s \in Slots, handle'[s] # NullHandle PROVE mq'[handle'[s].q].status = "live"
      <3>1. handle[s].q \in Queues
        BY <1>6, <2>2 DEF MemoryInv, TypeOK, Handle, CallInv
      <3> QED BY <1>4, <1>6, <2>2, <3>1 DEF MemoryInv, NoUseAfterFree
    <2> QED BY <2>1, <2>2 DEF NoUseAfterFree
  <1>10. ASSUME NEW u \in Threads, u # t, pc[u] = "destroy" PROVE mq'[arg[u].q].refs = 0
    <2>1. arg[u].q \in Queues \ {q} /\ mq[arg[u].q].refs = 0
      BY <1>5, <1>10, InCall DEF PollLabels, MemoryInv, CallInv
    <2> QED BY <1>6, <2>1
  <1>11. NoArg.q = None /\ NoArg.dst = None
    BY DEF NoArg
  <1>12. CallInv'
    <2>1. ASSUME NEW u \in Threads
          PROVE  /\ arg'[u].q = None <=> pc'[u] \in {"idle"} \cup PollLabels
                 /\ arg'[u].q # None /\ pc'[u] # "destroy" =>
                       /\ arg'[u].slot # None
                       /\ SlotOwner[arg'[u].slot] = u
                       /\ handle'[arg'[u].slot].q = arg'[u].q
                       /\ arg'[u].dst = None => handle'[arg'[u].slot].flags = arg'[u].flags
                 /\ arg'[u].dst # None <=> pc'[u] \in {"open_lock", "open"}
                 /\ arg'[u].dst # None => handle'[arg'[u].dst] = NullHandle
                 /\ pc'[u] = "destroy" => mq'[arg'[u].q].refs = 0
      <3>1. CASE u = t
        BY <1>6, <1>11, <3>1
      <3>2. CASE u # t
        BY <1>6, <1>10, <3>2 DEF MemoryInv, CallInv
      <3> QED BY <3>1, <3>2
    <2>2. ASSUME NEW u \in Threads, NEW v \in Threads, u # v
          PROVE  /\ arg'[u].dst # None => arg'[u].dst # arg'[v].dst
                 /\ pc'[u] = "destroy" /\ pc'[v] = "destroy" => arg'[u].q # arg'[v].q
      BY <1>6, <1>11, <2>2 DEF MemoryInv, CallInv
    <2>3. \A s \in Slots : handle'[s].q = None => handle'[s] = NullHandle
      BY <1>6 DEF MemoryInv, CallInv
    <2> QED BY <2>1, <2>2, <2>3 DEF CallInv
  <1> QED BY <1>8, <1>9, <1>12 DEF MemoryInv

-----------------------------------------------------------------------------
(* The calls of the clients.                                               *)
LEMMA CallMemory == ASSUME MemoryInv, Call PROVE MemoryInv'
  <1>0. TypeOK'
    BY CallType
  <1>a. ASSUME NEW s \in Slots
        PROVE  /\ WithHandle(s).slot = s /\ WithHandle(s).dst = None
               /\ WithHandle(s).q = handle[s].q /\ WithHandle(s).flags = handle[s].flags
               /\ \A n : LET a == [WithHandle(s) EXCEPT !.len = n] IN
                     a.slot = s /\ a.dst = None /\ a.q = handle[s].q /\ a.flags = handle[s].flags
               /\ \A d, f : LET a == [WithHandle(s) EXCEPT !.dst = d, !.flags = f] IN
                     a.slot = s /\ a.dst = d /\ a.q = handle[s].q
    BY DEF WithHandle, NoArg
  <1>b. ASSUME NEW t, NEW errno, Refuse(t, errno) PROVE MemoryInv'
    BY <1>0, <1>b, RefuseInv DEF Refuse
  <1>1. CASE \E c \in CreateCalls : msg_queue_create(c)
    <2>1. PICK c \in CreateCalls : msg_queue_create(c)
      BY <1>1
    <2>2. c.slot \in Slots /\ c.queue \in Queues
      BY CallAssumption
    <2>3. CASE \E errno : Refuse(SlotOwner[c.slot], errno)
      BY <1>b, <2>3
    <2>4. CASE ~\E errno : Refuse(SlotOwner[c.slot], errno)
      <3>1. /\ Vacant(c.slot) /\ c.flags \in SUBSET Flag /\ mq[c.queue].status = "unborn"
            /\ handle' = [handle EXCEPT ![c.slot] = [q |-> c.queue, flags |-> c.flags]]
            /\ UNCHANGED <<pc, arg>>
        BY <2>1, <2>4 DEF msg_queue_create
      <3>2. PICK event : mq' = [mq EXCEPT ![c.queue] = mq_open(mq_init(c.capacity, event), c.flags)]
        BY <2>1, <2>4 DEF msg_queue_create
      <3> QED BY <1>0, <2>2, <3>1, <3>2, CreateInv
    <2> QED BY <2>3, <2>4
  <1>2. CASE \E c \in OpenCalls : msg_queue_open(c)
    <2>1. PICK c \in OpenCalls : msg_queue_open(c)
      BY <1>2
    <2>2. c.slot \in Slots /\ c.dst \in Slots /\ SlotOwner[c.slot] \in Threads
      BY CallAssumption, OwnerAssumption
    <2>3. CASE \E errno : Refuse(SlotOwner[c.slot], errno)
      BY <1>b, <2>3
    <2>4. CASE ~\E errno : Refuse(SlotOwner[c.slot], errno)
      <3> DEFINE a == [WithHandle(c.slot) EXCEPT !.dst = c.dst, !.flags = c.flags]
      <3>1. /\ pc[SlotOwner[c.slot]] = "idle" /\ Vacant(c.dst) /\ handle[c.slot] # NullHandle
            /\ Enter(SlotOwner[c.slot], "open_lock", a)
        BY <2>1, <2>4 DEF msg_queue_open
      <3>2. a.slot = c.slot /\ a.dst = c.dst /\ a.q = handle[c.slot].q
        BY <1>a, <2>2
      <3> HIDE DEF a
      <3> QED BY <1>0, <2>2, <3>1, <3>2, EnterInv
    <2> QED BY <2>3, <2>4
  <1>3. CASE \E s \in CloseCalls : msg_queue_close(s)
    <2>1. PICK s \in CloseCalls : msg_queue_close(s)
      BY <1>3
    <2>2. s \in Slots /\ SlotOwner[s] \in Threads
      BY CallAssumption, OwnerAssumption
    <2>3. CASE \E errno : Refuse(SlotOwner[s], errno)
      BY <1>b, <2>3
    <2>4. CASE ~\E errno : Refuse(SlotOwner[s], errno)
      <3>1. /\ pc[SlotOwner[s]] = "idle" /\ handle[s] # NullHandle
            /\ Enter(SlotOwner[s], "close_lock", WithHandle(s))
        BY <2>1, <2>4 DEF msg_queue_close
      <3> QED BY <1>0, <1>a, <2>2, <3>1, EnterInv
    <2> QED BY <2>3, <2>4
  <1>4. CASE \E c \in ReadCalls : msg_queue_read(c)
    <2>1. PICK c \in ReadCalls : msg_queue_read(c)
      BY <1>4
    <2>2. c.slot \in Slots /\ SlotOwner[c.slot] \in Threads
      BY CallAssumption, OwnerAssumption
    <2>3. CASE \E errno : Refuse(SlotOwner[c.slot], errno)
      BY <1>b, <2>3
    <2>4. CASE ~\E errno : Refuse(SlotOwner[c.slot], errno)
      <3> DEFINE a == [WithHandle(c.slot) EXCEPT !.len = c.len]
      <3>1. /\ pc[SlotOwner[c.slot]] = "idle" /\ "READER" \in handle[c.slot].flags
            /\ Enter(SlotOwner[c.slot], "read_lock", a)
        BY <2>1, <2>4 DEF msg_queue_read
      <3>2. handle[c.slot] # NullHandle
        BY <3>1 DEF NullHandle
      <3>3. a.slot = c.slot /\ a.dst = None /\ a.q = handle[c.slot].q /\ a.flags = handle[c.slot].flags
        BY <1>a, <2>2
      <3> HIDE DEF a
      <3> QED BY <1>0, <2>2, <3>1, <3>2, <3>3, EnterInv
    <2> QED BY <2>3, <2>4
  <1>5. CASE \E c \in WriteCalls : msg_queue_write(c)
    <2>1. PICK c \in WriteCalls : msg_queue_write(c)
      BY <1>5
    <2>2. c.slot \in Slots /\ SlotOwner[c.slot] \in Threads
      BY CallAssumption, OwnerAssumption
    <2>3. CASE \E errno : Refuse(SlotOwner[c.slot], errno)
      BY <1>b, <2>3
    <2>4. CASE ~\E errno : Refuse(SlotOwner[c.slot], errno)
      <3> DEFINE a == [WithHandle(c.slot) EXCEPT !.len = c.len]
      <3>1. /\ pc[SlotOwner[c.slot]] = "idle" /\ "WRITER" \in handle[c.slot].flags
            /\ Enter(SlotOwner[c.slot], "write_lock", a)
        BY <2>1, <2>4 DEF msg_queue_write
      <3>2. handle[c.slot] # NullHandle
        BY <3>1 DEF NullHandle
      <3>3. a.slot = c.slot /\ a.dst = None /\ a.q = handle[c.slot].q /\ a.flags = handle[c.slot].flags
        BY <1>a, <2>2
      <3> HIDE DEF a
      <3> QED BY <1>0, <2>2, <3>1, <3>2, <3>3, EnterInv
    <2> QED BY <2>3, <2>4
  <1> QED BY <1>1, <1>2, <1>3, <1>4, <1>5 DEF Call

(* MemoryInv holds initially ...                                           *)
LEMMA MemoryInit == Init => MemoryInv
  <1> SUFFICES ASSUME Init PROVE MemoryInv
    OBVIOUS
  <1>1. TypeOK
    <2>1. mq \in [Queues -> Backend]
      <3>1. mq_init(0, {}) \in Backend
        BY InitTypes, SizeAssumption
      <3>2. Unborn \in Backend
        BY <3>1 DEF Unborn, Backend
      <3> QED BY <3>2 DEF Init
    <2>2. handle \in [Slots -> Handle]
      BY DEF Init, NullHandle, Handle
    <2>3. pc \in [Threads -> Label] /\ ret \in [Threads -> Result]
      BY DEF Init, Label, Result
    <2>4. arg \in [Threads -> Arg]
      BY DEF Init, NoArg, Arg, Result
    <2>5. /\ scan \in [Threads -> Seq(Node)] /\ pollm \in [Threads -> Threads \cup {None}]
          /\ stored \in [Queues -> Nat] /\ rcvd \in [Queues -> Seq(Msg \cup {None})]
      BY DEF Init
    <2> QED BY <2>1, <2>2, <2>3, <2>4, <2>5 DEF TypeOK
  <1>2. HandleCounts
    BY DEF Init, HandleCounts, Unborn, mq_init
  <1>3. \A t \in Threads : arg[t].q = None /\ arg[t].dst = None /\ pc[t] = "idle"
    BY DEF Init, NoArg
  <1>4. \A s \in Slots : handle[s] = NullHandle
    BY DEF Init
  <1>5. NoUseAfterFree
    BY <1>3, <1>4 DEF NoUseAfterFree
  <1>6. CallInv
    BY <1>3, <1>4 DEF CallInv
  <1> QED BY <1>1, <1>2, <1>5, <1>6 DEF MemoryInv

(* ... and every step preserves it.                                        *)
LEMMA MemoryStep == MemoryInv /\ [Next]_vars => MemoryInv'
  <1> SUFFICES ASSUME MemoryInv, [Next]_vars PROVE MemoryInv'
    OBVIOUS
  <1>1. CASE Call
    BY <1>1, CallMemory
  <1>2. ASSUME NEW t \in Threads, Lock(t) \/ Progress(t) \/ SpuriousWakeup(t)
        PROVE  MemoryInv'
    <2>1. TypeOK'
      BY <1>2, ProgressType
    <2>2. CASE OpenBody(t)
      BY <2>1, <2>2, OpenInv
    <2>3. CASE CloseBody(t)
      BY <2>1, <2>3, CloseInv
    <2>4. CASE Destroy(t)
      BY <2>1, <2>4, DestroyInv
    <2>5. CASE \/ Lock(t) \/ EndWakeup(t) \/ ReadEof(t) \/ ReadEmpty(t) \/ ReadPeek(t)
               \/ ReadHeader(t) \/ ReadBody(t) \/ WriteReject(t) \/ WriteWait(t) \/ WritePut(t)
               \/ SpuriousWakeup(t)
      BY <2>1, <2>5, QuietSteps, QuietInv
    <2> QED BY <1>2, <2>2, <2>3, <2>4, <2>5 DEF Progress
  <1>3. CASE UNCHANGED vars
    <2>1. TypeOK' /\ UNCHANGED <<mq, handle, pc, arg>>
      BY <1>3 DEF vars, MemoryInv, TypeOK
    <2> QED BY <2>1, RefuseInv
  <1> QED BY <1>1, <1>2, <1>3 DEF Next

(* For every number of threads, queues and handles and every menu of calls *)
(* msg_queue.c keeps its types, counts its handles exactly, and frees a    *)
(* backend only when no handle and no call refers to it.                   *)
THEOREM MemorySafe == Spec => [](TypeOK /\ HandleCounts /\ NoUseAfterFree)
  <1>1. MemoryInv => TypeOK /\ HandleCounts /\ NoUseAfterFree
    BY DEF MemoryInv
  <1> QED BY <1>1, MemoryInit, MemoryStep, PTL DEF Spec

-----------------------------------------------------------------------------
(* The parts of a byte in the ring buffer.                                 *)
LEMMA CellParts ==
    ASSUME NEW buf \in Seq(Cell)
    PROVE  /\ Len(buf) \in Nat
           /\ \A k \in 1..Len(buf) :
                 /\ buf[k] \in Cell /\ buf[k].msg \in Msg /\ buf[k].off \in Nat
                 /\ buf[k].msg.len \in Nat /\ buf[k].msg.id \in Nat
  <1>1. \A k \in 1..Len(buf) : buf[k] \in Cell
    BY ElementOfSeq
  <1>2. \A c \in Cell : c.msg \in Msg /\ c.off \in Nat
    BY DEF Cell
  <1>3. \A m \in Msg : m.len \in Nat /\ m.id \in Nat
    BY DEF Msg
  <1> QED BY <1>1, <1>2, <1>3, LenProperties

(* Dropping bytes from the front leaves the rest whole.                    *)
LEMMA DropFront ==
    ASSUME NEW buf \in Seq(Cell), NEW last, NEW start, Whole(buf, last, start),
           NEW n \in 0..Len(buf), NEW start2, n < Len(buf) => buf[n + 1].off = start2,
           NEW rest, rest = SubSeq(buf, n + 1, Len(buf))
    PROVE  /\ rest \in Seq(Cell) /\ Len(rest) = Len(buf) - n
           /\ \A k \in 1..(Len(buf) - n) : rest[k] = buf[n + k]
           /\ Whole(rest, last, start2)
  <1> DEFINE L == Len(buf)
  <1>1. L \in Nat /\ n \in 0..L /\ \A k \in (n + 1)..L : buf[k] \in Cell
    BY CellParts
  <1>2. rest \in Seq(Cell) /\ Len(rest) = L - n /\ \A k \in 1..(L - n) : rest[k] = buf[n + k]
    BY <1>1, SubSeqProperties
  <1>b. \A k \in 1..L : buf[k].off \in Nat /\ buf[k].msg.len \in Nat
    BY CellParts
  <1>a. /\ \A k \in 1..L : \A j \in k..(k + (SizeT + buf[k].msg.len - buf[k].off)) :
              j <= L /\ buf[j].msg = buf[k].msg /\ buf[j].off = buf[k].off + (j - k)
        /\ \A k \in 1..L : LastCell(buf[k]) =>
              IF k = L THEN buf[k].msg.id = last
              ELSE buf[k + 1].off = 1 /\ buf[k + 1].msg.id = buf[k].msg.id + 1
    BY CellParts DEF Whole
  <1>3. rest # <<>> => rest[1].off = start2
    <2> SUFFICES ASSUME rest # <<>> PROVE rest[1].off = start2
      OBVIOUS
    <2>1. Len(rest) # 0
      BY <1>2, EmptySeq
    <2>2. 1 \in 1..(L - n) /\ n < L
      BY <1>1, <1>2, <2>1
    <2> QED BY <1>2, <2>2
  <1>4. ASSUME NEW k \in 1..(L - n) PROVE rest[k].off <= SizeT + rest[k].msg.len
    <2>1. n + k \in 1..L
      BY <1>1
    <2> QED BY <1>2, <2>1 DEF Whole
  <1> HIDE DEF L
  <1>5. ASSUME NEW k \in 1..(L - n)
        PROVE  \A j \in k..(k + (SizeT + rest[k].msg.len - rest[k].off)) :
                  j <= L - n /\ rest[j].msg = rest[k].msg /\ rest[j].off = rest[k].off + (j - k)
    <2>0. n + k \in 1..L
      BY <1>1
    <2>1. n + k \in 1..L /\ rest[k] = buf[n + k]
      BY <1>2, <2>0
    <2> DEFINE m == SizeT + buf[n + k].msg.len - buf[n + k].off
    <2>2. m \in Int /\ buf[n + k].off \in Int /\ buf[n + k].msg.len \in Int /\ SizeT \in Int /\ n + k \in Int /\ k \in Int
      <3>1. buf[n + k].off \in Nat /\ buf[n + k].msg.len \in Nat
        BY <1>b, <2>0
      <3>2. SizeT \in Nat
        BY SizeAssumption
      <3>3. n + k \in Int /\ k \in Int
        BY <1>1
      <3>4. \A x, y, z \in Nat : x + y - z \in Int /\ x \in Int
        OBVIOUS
      <3> QED BY <3>1, <3>2, <3>3, <3>4, Zenon
    <2>3. \A i \in (n + k)..((n + k) + m) :
             i <= L /\ buf[i].msg = buf[n + k].msg /\ buf[i].off = buf[n + k].off + (i - (n + k))
      BY <1>a, <2>1
    <2>4. SizeT + rest[k].msg.len - rest[k].off = m
      BY <2>1
    <2>i. n \in Int /\ k \in Int /\ k >= 1 /\ m \in Int
      BY <1>1, <2>2
    <2> HIDE DEF m
    <2>5. ASSUME NEW j \in k..(k + m)
          PROVE  j <= L - n /\ rest[j].msg = rest[k].msg /\ rest[j].off = rest[k].off + (j - k)
      <3>1. n + j \in (n + k)..((n + k) + m) /\ (n + j) - (n + k) = j - k /\ j \in Int /\ j >= 1
        BY <2>i
      <3>2. n + j <= L /\ buf[n + j].msg = buf[n + k].msg /\ buf[n + j].off = buf[n + k].off + (j - k)
        BY <2>3, <3>1
      <3>3. j <= L - n /\ j \in 1..(L - n)
        BY <1>1, <3>1, <3>2
      <3> QED BY <1>2, <2>1, <3>2, <3>3
    <2> QED BY <2>4, <2>5
  <1>6. ASSUME NEW k \in 1..(L - n), LastCell(rest[k])
        PROVE  IF k = L - n THEN rest[k].msg.id = last
               ELSE rest[k + 1].off = 1 /\ rest[k + 1].msg.id = rest[k].msg.id + 1
    <2>0. n + k \in 1..L
      BY <1>1
    <2>1. n + k \in 1..L /\ rest[k] = buf[n + k]
      BY <1>2, <2>0
    <2>2. CASE k = L - n
      <3>1. n + k = L
        BY <1>1, <2>2
      <3> QED BY <1>6, <1>a, <2>1, <2>2, <3>1
    <2>3. CASE k # L - n
      <3>1. k + 1 \in 1..(L - n) /\ n + (k + 1) = (n + k) + 1 /\ n + k # L
        BY <1>1, <2>3
      <3>2. rest[k + 1] = buf[(n + k) + 1]
        BY <1>2, <3>1
      <3> QED BY <1>6, <1>a, <2>1, <2>3, <3>1, <3>2
    <2> QED BY <2>2, <2>3
  <1> QED BY <1>2, <1>3, <1>4, <1>5, <1>6 DEF Whole, L

(* The front message of a ring buffer that starts with a size component:   *)
(* all of it is there, and msg_head gets its length.                       *)
LEMMA FrontMessage ==
    ASSUME NEW b \in Backend, NEW last, Whole(b.buf, last, 1), b.buf # <<>>,
           b.buf[1].msg.len > 0
    PROVE  /\ SizeAt(b) = {b.buf[1].msg.len}
           /\ SizeT < Len(b.buf)
           /\ b.buf[SizeT + 1].off = SizeT + 1 /\ b.buf[SizeT + 1].msg = b.buf[1].msg
  <1> DEFINE buf == b.buf  m == buf[1].msg
  <1>1. buf \in Seq(Cell)
    BY DEF Backend
  <1>2. Len(buf) \in Nat \ {0} /\ 1 \in 1..Len(buf)
    BY <1>1, EmptySeq
  <1>3. buf[1].off = 1 /\ m.len \in Nat \ {0}
    BY <1>1, <1>2, CellParts DEF Whole
  <1>4. ASSUME NEW j \in 1..(SizeT + m.len) PROVE j <= Len(buf) /\ buf[j].msg = m /\ buf[j].off = j
    <2>1. j \in 1..(1 + (SizeT + m.len - buf[1].off))
      BY <1>3, SizeAssumption
    <2>2. j <= Len(buf) /\ buf[j].msg = buf[1].msg /\ buf[j].off = buf[1].off + (j - 1)
      BY <1>2, <2>1 DEF Whole
    <2> QED BY <1>3, <2>2, SizeAssumption
  <1>5. /\ SizeT + 1 \in 1..(SizeT + m.len)
        /\ \A k \in 1..SizeT : k \in 1..(SizeT + m.len)
        /\ SizeT < SizeT + 1 /\ SizeT \in Nat
    BY <1>3, SizeAssumption
  <1>6. SizeT < Len(buf)
    BY <1>2, <1>4, <1>5
  <1>7. \A k \in 1..SizeT : buf[k] = [msg |-> buf[1].msg, off |-> k]
    <2> SUFFICES ASSUME NEW k \in 1..SizeT PROVE buf[k] = [msg |-> buf[1].msg, off |-> k]
      OBVIOUS
    <2>1. k \in 1..Len(buf) /\ buf[k].msg = m /\ buf[k].off = k
      BY <1>2, <1>4, <1>5
    <2>2. buf[k] \in Cell
      BY <1>1, <2>1, CellParts
    <2> QED BY <2>1, <2>2 DEF Cell
  <1>8. SizeAt(b) = {m.len}
    BY <1>2, <1>5, <1>6, <1>7 DEF SizeAt
  <1> QED BY <1>4, <1>5, <1>6, <1>8

(* The front message of a ring buffer whose first size component has been  *)
(* taken: its body is what comes first, and the next message follows.      *)
BodyFirst(b, m, last) ==
    /\ m \in Msg /\ m.len \in 1..Len(b.buf)
    /\ \A j \in 1..m.len : b.buf[j].msg = m /\ b.buf[j].off = SizeT + j
    /\ Received(b, m.len) = m
    /\ m.len = Len(b.buf) => m.id = last
    /\ m.len < Len(b.buf) => b.buf[m.len + 1].off = 1 /\ b.buf[m.len + 1].msg.id = m.id + 1

LEMMA FrontBody ==
    ASSUME NEW b \in Backend, NEW last, Whole(b.buf, last, SizeT + 1), b.buf # <<>>,
           NEW m, m = b.buf[1].msg, m.len > 0
    PROVE  BodyFirst(b, m, last)
  <1> DEFINE buf == b.buf  n == m.len
  <1>1. buf \in Seq(Cell)
    BY DEF Backend
  <1>2. Len(buf) \in Nat \ {0} /\ 1 \in 1..Len(buf)
    BY <1>1, EmptySeq
  <1>3. buf[1].off = SizeT + 1 /\ n \in Nat \ {0} /\ m \in Msg
    BY <1>1, <1>2, CellParts DEF Whole
  <1>4. ASSUME NEW j \in 1..n PROVE j <= Len(buf) /\ buf[j].msg = m /\ buf[j].off = SizeT + j
    <2>1. j \in 1..(1 + (SizeT + buf[1].msg.len - buf[1].off))
      BY <1>3, SizeAssumption
    <2>2. j <= Len(buf) /\ buf[j].msg = buf[1].msg /\ buf[j].off = buf[1].off + (j - 1)
      BY <1>2, <2>1 DEF Whole
    <2> QED BY <1>3, <2>2, SizeAssumption
  <1> HIDE DEF n, buf
  <1>5. n \in 1..n /\ n \in 1..Len(buf) /\ n <= Len(buf)
    BY <1>2, <1>3, <1>4
  <1>6. LastCell(buf[n]) /\ buf[n].msg = m
    BY <1>4, <1>5 DEF LastCell, n
  <1>7. /\ n = Len(buf) => m.id = last
        /\ n < Len(buf) => buf[n + 1].off = 1 /\ buf[n + 1].msg.id = m.id + 1
    <2>1. IF n = Len(buf) THEN buf[n].msg.id = last
          ELSE buf[n + 1].off = 1 /\ buf[n + 1].msg.id = buf[n].msg.id + 1
      BY <1>5, <1>6 DEF Whole, buf
    <2>2. n < Len(buf) => n # Len(buf)
      BY <1>2, <1>3
    <2> QED BY <1>6, <2>1, <2>2
  <1>8. SubSeq(buf, 1, n) = BodyOf(m)
    <2>1. \A k \in 1..n : buf[k] = [msg |-> m, off |-> SizeT + k]
      <3> SUFFICES ASSUME NEW k \in 1..n PROVE buf[k] = [msg |-> m, off |-> SizeT + k]
        OBVIOUS
      <3>1. k \in 1..Len(buf) /\ buf[k].msg = m /\ buf[k].off = SizeT + k
        BY <1>2, <1>3, <1>4
      <3>2. buf[k] \in Cell
        BY <1>1, <3>1, CellParts
      <3> QED BY <3>1, <3>2 DEF Cell
    <2>2. SubSeq(buf, 1, n) = [k \in 1..n |-> buf[k]]
      BY <1>1, <1>3, <1>5
    <2>3. BodyOf(m) = [k \in 1..n |-> [msg |-> m, off |-> SizeT + k]]
      BY DEF BodyOf, n
    <2> QED BY <2>1, <2>2, <2>3
  <1>9. Received(b, n) = m
    BY <1>3, <1>5, <1>8 DEF Received, buf
  <1> QED BY <1>3, <1>4, <1>5, <1>7, <1>9 DEF n, buf, BodyFirst

(* Storing a message behind whole ones leaves them all whole.              *)
Extended(buf, m) == (buf \o HeaderOf(m)) \o BodyOf(m)

LEMMA AppendMessage ==
    ASSUME NEW buf \in Seq(Cell), NEW last \in Nat, Whole(buf, last, 1),
           NEW m \in Msg, m.id = last + 1, m.len > 0,
           NEW full, full = Extended(buf, m)
    PROVE  /\ full \in Seq(Cell) /\ full # <<>>
           /\ Len(full) = Len(buf) + (SizeT + m.len)
           /\ \A k \in 1..Len(buf) : full[k] = buf[k]
           /\ \A j \in 1..(SizeT + m.len) : full[Len(buf) + j].msg = m /\ full[Len(buf) + j].off = j
           /\ Whole(full, last + 1, 1)
  <1> DEFINE L == Len(buf)  h == HeaderOf(m)  d == BodyOf(m)  n == SizeT + m.len
  <1>1. L \in Nat /\ m.len \in Nat \ {0} /\ n \in Nat \ {0} /\ SizeT \in Nat \ {0}
    BY CellParts, SizeAssumption DEF Msg
  <1>2. h \in Seq(Cell) /\ d \in Seq(Cell)
    BY MessageTypes
  <1>3. /\ Len(h) = SizeT /\ \A k \in 1..SizeT : h[k].msg = m /\ h[k].off = k
        /\ Len(d) = m.len /\ \A k \in 1..m.len : d[k].msg = m /\ d[k].off = SizeT + k
    BY <1>1, <1>2 DEF HeaderOf, BodyOf
  <1> HIDE DEF h, d
  <1>4. /\ buf \o h \in Seq(Cell) /\ Len(buf \o h) = L + SizeT
        /\ \A k \in 1..(L + SizeT) : (buf \o h)[k] = IF k <= L THEN buf[k] ELSE h[k - L]
    BY <1>2, <1>3, ConcatProperties
  <1> DEFINE bh == buf \o h
  <1> HIDE DEF bh
  <1>5. /\ full \in Seq(Cell) /\ Len(full) = L + SizeT + m.len
        /\ \A k \in 1..(L + SizeT + m.len) :
              full[k] = IF k <= L + SizeT THEN bh[k] ELSE d[k - (L + SizeT)]
    <2>1. full = bh \o d /\ bh \in Seq(Cell) /\ Len(bh) = L + SizeT
      BY <1>4 DEF bh, h, d, Extended
    <2>2. /\ bh \o d \in Seq(Cell) /\ Len(bh \o d) = Len(bh) + Len(d)
          /\ \A k \in 1..(Len(bh) + Len(d)) : (bh \o d)[k] = IF k <= Len(bh) THEN bh[k] ELSE d[k - Len(bh)]
      BY <1>2, <2>1, ConcatProperties
    <2>3. Len(bh) + Len(d) = L + SizeT + m.len
      BY <1>3, <2>1
    <2> QED BY <2>1, <2>2, <2>3
  <1>6. L + SizeT + m.len = L + n
    BY <1>1
  <1>7. ASSUME NEW k \in 1..L PROVE full[k] = buf[k]
    <2>1. k \in 1..(L + SizeT) /\ k \in 1..(L + SizeT + m.len) /\ k <= L + SizeT /\ k <= L
      BY <1>1
    <2> QED BY <1>4, <1>5, <2>1 DEF bh
  <1>8. ASSUME NEW j \in 1..n PROVE full[L + j].msg = m /\ full[L + j].off = j
    <2>1. L + j \in 1..(L + SizeT + m.len)
      BY <1>1
    <2>2. CASE j <= SizeT
      <3>1. L + j \in 1..(L + SizeT) /\ ~(L + j <= L) /\ L + j <= L + SizeT /\ (L + j) - L = j /\ j \in 1..SizeT
        BY <1>1, <2>2
      <3>2. full[L + j] = h[j]
        BY <1>4, <1>5, <2>1, <3>1 DEF bh
      <3> QED BY <1>3, <3>1, <3>2
    <2>3. CASE ~(j <= SizeT)
      <3>1. /\ ~(L + j <= L + SizeT) /\ (L + j) - (L + SizeT) = j - SizeT
            /\ j - SizeT \in 1..m.len /\ SizeT + (j - SizeT) = j
        BY <1>1, <2>3
      <3>2. full[L + j] = d[j - SizeT]
        BY <1>5, <2>1, <3>1
      <3> QED BY <1>3, <3>1, <3>2
    <2> QED BY <2>2, <2>3
  <1>9. Len(full) = L + n /\ full # <<>>
    BY <1>1, <1>5, <1>6, EmptySeq
  <1>10. \A k \in 1..L : buf[k].off \in Nat /\ buf[k].msg.len \in Nat
    BY CellParts
  <1> HIDE DEF n, L
  <1>11. \A k \in 1..(L + n) : k \in 1..L \/ \E j \in 1..n : k = L + j
    <2> SUFFICES ASSUME NEW k \in 1..(L + n), k \notin 1..L PROVE k - L \in 1..n /\ k = L + (k - L)
      OBVIOUS
    <2> QED BY <1>1
  <1>w. /\ buf # <<>> => buf[1].off = 1
        /\ \A k \in 1..L : buf[k].off <= SizeT + buf[k].msg.len
        /\ \A k \in 1..L : \A j \in k..(k + (SizeT + buf[k].msg.len - buf[k].off)) :
              j <= L /\ buf[j].msg = buf[k].msg /\ buf[j].off = buf[k].off + (j - k)
        /\ \A k \in 1..L : LastCell(buf[k]) =>
              IF k = L THEN buf[k].msg.id = last
              ELSE buf[k + 1].off = 1 /\ buf[k + 1].msg.id = buf[k].msg.id + 1
    BY DEF Whole, L
  <1>12. full[1].off = 1
    <2>1. CASE buf = <<>>
      <3>1. L = 0 /\ 1 \in 1..n /\ L + 1 = 1
        BY <1>1, <2>1 DEF L
      <3> QED BY <1>8, <2>1, <3>1
    <2>2. CASE buf # <<>>
      <3>1. 1 \in 1..L
        BY <2>2, EmptySeq DEF L
      <3> QED BY <1>7, <1>w, <2>2, <3>1
    <2> QED BY <2>1, <2>2
  <1>13. ASSUME NEW k \in 1..(L + n) PROVE full[k].off <= SizeT + full[k].msg.len
    <2>1. CASE k \in 1..L
      BY <1>7, <1>w, <2>1
    <2>2. ASSUME NEW j \in 1..n, k = L + j PROVE full[k].off <= SizeT + full[k].msg.len
      <3>1. full[k].msg = m /\ full[k].off = j
        BY <1>8, <2>2
      <3> QED BY <1>1, <3>1 DEF n
    <2> QED BY <1>11, <2>1, <2>2
  <1>14. ASSUME NEW k \in 1..(L + n)
         PROVE  \A i \in k..(k + (SizeT + full[k].msg.len - full[k].off)) :
                   i <= L + n /\ full[i].msg = full[k].msg /\ full[i].off = full[k].off + (i - k)
    <2>1. CASE k \in 1..L
      <3> DEFINE r == SizeT + buf[k].msg.len - buf[k].off
      <3>0. full[k] = buf[k] /\ buf[k].off \in Nat /\ buf[k].msg.len \in Nat
        BY <1>7, <1>10, <2>1
      <3>1. r \in Int /\ k \in Int /\ k >= 1 /\ full[k] = buf[k] /\ SizeT + full[k].msg.len - full[k].off = r
        BY <1>1, <2>1, <3>0
      <3>2. \A i \in k..(k + r) : i <= L /\ buf[i].msg = buf[k].msg /\ buf[i].off = buf[k].off + (i - k)
        BY <1>w, <2>1
      <3> HIDE DEF r
      <3>3. ASSUME NEW i \in k..(k + r)
            PROVE  i <= L + n /\ full[i].msg = full[k].msg /\ full[i].off = full[k].off + (i - k)
        <4>1. i <= L /\ buf[i].msg = buf[k].msg /\ buf[i].off = buf[k].off + (i - k)
          BY <3>2
        <4>2. i \in 1..L /\ i <= L + n
          BY <1>1, <3>1, <4>1
        <4> QED BY <1>7, <3>1, <4>1, <4>2
      <3> QED BY <3>1, <3>3
    <2>2. ASSUME NEW j \in 1..n, k = L + j
          PROVE  \A i \in k..(k + (SizeT + full[k].msg.len - full[k].off)) :
                    i <= L + n /\ full[i].msg = full[k].msg /\ full[i].off = full[k].off + (i - k)
      <3>1. full[k].msg = m /\ full[k].off = j
        BY <1>8, <2>2
      <3>2. SizeT + full[k].msg.len - full[k].off = n - j
        <4>1. SizeT + m.len - j = n - j
          BY <1>1 DEF n
        <4> QED BY <3>1, <4>1
      <3>3. ASSUME NEW i \in k..(k + (n - j))
            PROVE  i <= L + n /\ full[i].msg = full[k].msg /\ full[i].off = full[k].off + (i - k)
        <4>1. i - L \in 1..n /\ i = L + (i - L) /\ i <= L + n /\ i - L = j + (i - k)
          BY <1>1, <2>2
        <4>2. full[L + (i - L)].msg = m /\ full[L + (i - L)].off = i - L
          BY <1>8, <4>1
        <4> QED BY <3>1, <4>1, <4>2
      <3> QED BY <3>2, <3>3
    <2> QED BY <1>11, <2>1, <2>2
  <1>15. ASSUME NEW k \in 1..(L + n), LastCell(full[k])
         PROVE  IF k = L + n THEN full[k].msg.id = last + 1
                ELSE full[k + 1].off = 1 /\ full[k + 1].msg.id = full[k].msg.id + 1
    <2>1. CASE k \in 1..L
      <3>0. k # L + n
        BY <1>1, <2>1
      <3>1. full[k] = buf[k] /\ LastCell(buf[k]) /\ k # L + n
        BY <1>7, <1>15, <2>1, <3>0
      <3>2. CASE k = L
        <4>1. buf[k].msg.id = last /\ 1 \in 1..n
          BY <1>1, <1>w, <2>1, <3>1, <3>2
        <4>2. full[k + 1].msg = m /\ full[k + 1].off = 1
          BY <1>8, <3>2, <4>1
        <4> QED BY <3>1, <4>1, <4>2
      <3>3. CASE k # L
        <4>1. k + 1 \in 1..L
          BY <1>1, <2>1, <3>3
        <4> QED BY <1>7, <1>w, <2>1, <3>1, <3>3, <4>1
      <3> QED BY <3>2, <3>3
    <2>2. ASSUME NEW j \in 1..n, k = L + j
          PROVE  k = L + n /\ full[k].msg.id = last + 1
      <3>1. full[k].msg = m /\ full[k].off = j
        BY <1>8, <2>2
      <3>2. j = n
        BY <1>15, <3>1 DEF LastCell, n
      <3> QED BY <2>2, <3>1, <3>2
    <2> QED BY <1>11, <2>1, <2>2
  <1>16. Whole(full, last + 1, 1)
    BY <1>9, <1>12, <1>13, <1>14, <1>15 DEF Whole
  <1> QED BY <1>5, <1>7, <1>8, <1>9, <1>16 DEF n, L

-----------------------------------------------------------------------------
(* The inductive invariant.  What a call in progress knows of its queue: a *)
(* write is of a length that was checked before it waited, a read has room *)
(* for any message, and between its ring buffer operations it counts on    *)
(* the message it has seen.                                                *)
WriteLens == {c.len : c \in WriteCalls} \ {0}
ReadLens == {c.len : c \in ReadCalls}
CallOK(label, a, b) ==
    /\ label \in WriteLabels => a.len \in WriteLens
    /\ label \in {"write_wait", "write_relock", "write_loop"} => SizeT + a.len < b.size
    /\ label \in ReadLabels \cup {"read_wait"} => a.len \in ReadLens
    /\ label = "take" => b.buf # <<>>
    /\ label = "take_body" => b.buf # <<>> /\ a.head = b.buf[1].msg.len

(* A queue holds messages of accepted lengths only.                        *)
BackendOK(b) ==
    /\ b.status = "unborn" => b.buf = <<>>
    /\ b.status # "unborn" => b.size \in {c.capacity : c \in CreateCalls}
    /\ \A k \in 1..Len(b.buf) :
          b.buf[k].msg.len \in WriteLens /\ SizeT + b.buf[k].msg.len < b.size

ChannelInv ==
    /\ LockDiscipline /\ WholeMessages
    /\ \A t \in Threads : arg[t].q # None => CallOK(pc[t], arg[t], mq[arg[t].q])
    /\ \A q \in Queues : BackendOK(mq[q])

(* What a step of t does to the other threads, it moves some from a wait   *)
(* to the lock after it, and to queues other than its own: nothing.        *)
Woken(l1, l2) == \/ l2 = l1
                 \/ l1 = "read_wait" /\ l2 = "read_lock"
                 \/ l1 = "write_wait" /\ l2 = "write_relock"
Others(t) == \A u \in Threads \ {t} : arg'[u] = arg[u] /\ Woken(pc[u], pc'[u])
Elsewhere(q) == \A x \in Queues \ {q} : mq'[x] = mq[x] /\ stored'[x] = stored[x]

(* The shape of a step inside a critical section.                          *)
CriticalStep(t, label) == LET q == arg[t].q IN
    /\ pc[t] \in Critical /\ label \in Label
    /\ Others(t) /\ Elsewhere(q)
    /\ mq'[q].status = mq[q].status /\ mq'[q].size = mq[q].size
    /\ pc'[t] = label
    /\ \/ label = "idle" /\ arg'[t] = NoArg
       \/ label # "idle" /\ arg'[t].q = q /\ arg'[t].len = arg[t].len
    /\ mq'[q].mutex = IF label \in Critical THEN mq[q].mutex ELSE None

(* A woken thread is where it was with respect to critical sections.       *)
LEMMA WokenSides ==
    ASSUME NEW l1, NEW l2, Woken(l1, l2)
    PROVE  /\ l1 \in Critical <=> l2 \in Critical
           /\ \A l \in {"take", "take_body"} : l1 = l <=> l2 = l
           /\ \A a, b, c : CallOK(l1, a, b) /\ c.size = b.size /\ (l1 \in {"take", "take_body"} => c.buf = b.buf)
                              => CallOK(l2, a, c)
  <1>1. /\ l1 \in Critical <=> l2 \in Critical
        /\ \A l \in {"take", "take_body"} : l1 = l <=> l2 = l
    BY DEF Woken, Critical
  <1>2. ASSUME NEW a, NEW b, NEW c, CallOK(l1, a, b), c.size = b.size,
               l1 \in {"take", "take_body"} => c.buf = b.buf
        PROVE  CallOK(l2, a, c)
    <2>1. CASE l2 = l1
      BY <1>2, <2>1 DEF CallOK
    <2>2. CASE l1 = "read_wait" /\ l2 = "read_lock"
      BY <1>2, <2>2 DEF CallOK, WriteLabels, ReadLabels
    <2>3. CASE l1 = "write_wait" /\ l2 = "write_relock"
      BY <1>2, <2>3 DEF CallOK, WriteLabels, ReadLabels
    <2> QED BY <2>1, <2>2, <2>3 DEF Woken
  <1> QED BY <1>1, <1>2

(* The thread in a queue's critical section is alone in it.                *)
LEMMA Alone ==
    ASSUME MemoryInv, LockDiscipline, NEW t \in Threads, pc[t] \in Critical
    PROVE  /\ arg[t].q \in Queues /\ arg[t].q # None /\ mq[arg[t].q].mutex = t
           /\ \A u \in Threads \ {t} : arg[u].q = arg[t].q => pc[u] \notin Critical
  <1>1. pc[t] \notin {"idle"} \cup PollLabels
    BY DEF Critical, PollLabels
  <1>2. arg[t].q \in Queues /\ arg[t].q # None
    BY <1>1, InCall, NoneAssumption
  <1> QED BY <1>2 DEF LockDiscipline

(* A step inside a critical section keeps the mutex discipline.            *)
LEMMA CriticalLock ==
    ASSUME MemoryInv, MemoryInv', LockDiscipline, NEW t \in Threads, NEW label, CriticalStep(t, label)
    PROVE  LockDiscipline'
  <1> DEFINE q == arg[t].q
  <1>1. q \in Queues /\ mq[q].mutex = t /\ \A u \in Threads \ {t} : arg[u].q = q => pc[u] \notin Critical
    BY Alone DEF CriticalStep
  <1>2. ASSUME NEW u \in Threads, NEW x \in Queues
        PROVE  mq'[x].mutex = u <=> arg'[u].q = x /\ pc'[u] \in Critical
    <2>1. CASE u # t
      <3>1. arg'[u] = arg[u] /\ (pc'[u] \in Critical <=> pc[u] \in Critical)
        BY <2>1, WokenSides DEF CriticalStep, Others
      <3>2. CASE x = q
        <4>1. mq'[x].mutex \in {t, None}
          BY <1>1, <3>2 DEF CriticalStep
        <4> QED BY <1>1, <2>1, <3>1, <3>2, <4>1, NoneAssumption
      <3>3. CASE x # q
        BY <3>1, <3>3 DEF CriticalStep, Elsewhere, LockDiscipline
      <3> QED BY <3>2, <3>3
    <2>2. CASE u = t
      <3>1. CASE label \in Critical
        <4>1. arg'[t].q = q /\ pc'[t] \in Critical /\ mq'[q].mutex = t
          BY <1>1, <3>1 DEF CriticalStep, Critical
        <4>2. x # q => mq'[x].mutex = mq[x].mutex /\ mq[x].mutex # t
          BY <1>1 DEF CriticalStep, Elsewhere, LockDiscipline
        <4> QED BY <2>2, <4>1, <4>2
      <3>2. CASE label \notin Critical
        <4>1. pc'[t] \notin Critical /\ mq'[q].mutex = None
          BY <3>2 DEF CriticalStep
        <4>2. x # q => mq'[x].mutex = mq[x].mutex /\ mq[x].mutex # t
          BY <1>1 DEF CriticalStep, Elsewhere, LockDiscipline
        <4> QED BY <2>2, <4>1, <4>2, NoneAssumption
      <3> QED BY <3>1, <3>2
    <2> QED BY <2>1, <2>2
  <1> QED BY <1>2 DEF LockDiscipline

(* ... and, when it leaves the ring buffer whole, the invariant.           *)
LEMMA CriticalInv ==
    ASSUME MemoryInv, MemoryInv', ChannelInv, NEW t \in Threads, NEW label, CriticalStep(t, label),
           BackendOK(mq'[arg[t].q]),
           Whole(mq'[arg[t].q].buf, stored'[arg[t].q], IF label = "take_body" THEN SizeT + 1 ELSE 1),
           label # "idle" => CallOK(label, arg'[t], mq'[arg[t].q])
    PROVE  ChannelInv'
  <1> DEFINE q == arg[t].q
  <1>1. /\ q \in Queues /\ q # None
        /\ \A u \in Threads \ {t} : arg[u].q = q => pc[u] \notin Critical
    BY Alone DEF CriticalStep, ChannelInv
  <1>2. LockDiscipline'
    BY CriticalLock DEF ChannelInv
  <1>3. ASSUME NEW x \in Queues PROVE BackendOK(mq'[x])
    BY DEF CriticalStep, Elsewhere, ChannelInv
  <1>4. ASSUME NEW u \in Threads, arg'[u].q # None PROVE CallOK(pc'[u], arg'[u], mq'[arg'[u].q])
    <2>1. CASE u = t
      <3>1. label # "idle" /\ arg'[t].q = q /\ pc'[t] = label
        BY <1>4, <2>1 DEF CriticalStep, NoArg
      <3> QED BY <2>1, <3>1
    <2>2. CASE u # t
      <3>1. arg'[u] = arg[u] /\ Woken(pc[u], pc'[u]) /\ arg[u].q # None
        BY <1>4, <2>2 DEF CriticalStep, Others
      <3>2. CallOK(pc[u], arg[u], mq[arg[u].q])
        BY <3>1 DEF ChannelInv
      <3>3. arg[u].q \in Queues
        BY <3>1 DEF MemoryInv, TypeOK, Arg
      <3>4. /\ mq'[arg[u].q].size = mq[arg[u].q].size
            /\ pc[u] \in {"take", "take_body"} => mq'[arg[u].q].buf = mq[arg[u].q].buf
        <4>1. CASE arg[u].q = q
          <5>1. pc[u] \notin {"take", "take_body"}
            BY <1>1, <2>2, <4>1 DEF Critical
          <5> QED BY <4>1, <5>1 DEF CriticalStep
        <4>2. CASE arg[u].q # q
          BY <3>3, <4>2 DEF CriticalStep, Elsewhere
        <4> QED BY <4>1, <4>2
      <3> QED BY <3>1, <3>2, <3>4, WokenSides
    <2> QED BY <2>1, <2>2
  <1>5. ASSUME NEW x \in Queues
        PROVE  Whole(mq'[x].buf, stored'[x], IF Waiting(x, "take_body")' = {} THEN 1 ELSE SizeT + 1)
    <2>1. \A u \in Threads \ {t} : arg'[u] = arg[u] /\ (pc'[u] = "take_body" <=> pc[u] = "take_body")
      BY WokenSides DEF CriticalStep, Others
    <2>2. CASE x = q
      <3>1. \A u \in Threads \ {t} : u \notin Waiting(x, "take_body")'
        BY <1>1, <2>1, <2>2 DEF Waiting, Critical
      <3>2. t \in Waiting(x, "take_body")' <=> label = "take_body"
        BY <2>2 DEF Waiting, CriticalStep
      <3>3. Waiting(x, "take_body")' = {} <=> label # "take_body"
        BY <3>1, <3>2 DEF Waiting
      <3> QED BY <2>2, <3>3
    <2>3. CASE x # q
      <3>1. t \notin Waiting(x, "take_body")' /\ t \notin Waiting(x, "take_body")
        BY <2>3, <1>1, NoneAssumption DEF Waiting, CriticalStep, NoArg
      <3>2. \A u \in Threads \ {t} : u \in Waiting(x, "take_body")' <=> u \in Waiting(x, "take_body")
        BY <2>1 DEF Waiting
      <3>3. Waiting(x, "take_body")' = Waiting(x, "take_body")
        BY <3>1, <3>2 DEF Waiting
      <3>4. mq'[x] = mq[x] /\ stored'[x] = stored[x]
        BY <2>3 DEF CriticalStep, Elsewhere
      <3> QED BY <3>3, <3>4 DEF ChannelInv, WholeMessages
    <2> QED BY <2>2, <2>3
  <1>6. WholeMessages'
    BY <1>5 DEF WholeMessages
  <1> QED BY <1>2, <1>3, <1>4, <1>6 DEF ChannelInv

(* A step outside critical sections leaves ring buffers and lengths alone. *)
LEMMA OutsideInv ==
    ASSUME MemoryInv, MemoryInv', ChannelInv, LockDiscipline', NEW t \in Threads, pc[t] \notin Critical,
           \A u \in Threads \ {t} : arg'[u] = arg[u] /\ pc'[u] = pc[u],
           stored' = stored, \A x \in Queues : mq'[x].buf = mq[x].buf /\ BackendOK(mq'[x]),
           \A u \in Threads \ {t} : arg[u].q # None => mq'[arg[u].q].size = mq[arg[u].q].size,
           pc'[t] \notin {"take", "take_body"},
           arg'[t].q # None => CallOK(pc'[t], arg'[t], mq'[arg'[t].q])
    PROVE  ChannelInv'
  <1>1. ASSUME NEW u \in Threads, arg'[u].q # None PROVE CallOK(pc'[u], arg'[u], mq'[arg'[u].q])
    <2>1. CASE u = t
      BY <1>1, <2>1
    <2>2. CASE u # t
      <3>1. arg'[u] = arg[u] /\ pc'[u] = pc[u] /\ arg[u].q # None /\ CallOK(pc[u], arg[u], mq[arg[u].q])
        BY <1>1, <2>2 DEF ChannelInv
      <3>2. arg[u].q \in Queues
        BY <3>1 DEF MemoryInv, TypeOK, Arg
      <3>3. mq'[arg[u].q].size = mq[arg[u].q].size /\ mq'[arg[u].q].buf = mq[arg[u].q].buf
        BY <2>2, <3>1, <3>2
      <3> QED BY <3>1, <3>3 DEF CallOK
    <2> QED BY <2>1, <2>2
  <1>2. ASSUME NEW x \in Queues PROVE Waiting(x, "take_body")' = Waiting(x, "take_body")
    <2>1. t \notin Waiting(x, "take_body")' /\ t \notin Waiting(x, "take_body")
      BY DEF Waiting, Critical
    <2> QED BY <2>1 DEF Waiting
  <1>3. WholeMessages'
    BY <1>2 DEF WholeMessages, ChannelInv
  <1> QED BY <1>1, <1>3 DEF ChannelInv

(* ... and keeps the mutex discipline when it takes no mutex.              *)
LEMMA OutsideLock ==
    ASSUME LockDiscipline, NEW t \in Threads, pc[t] \notin Critical, pc'[t] \notin Critical,
           \A u \in Threads \ {t} : arg'[u] = arg[u] /\ pc'[u] = pc[u],
           \A x \in Queues : mq'[x].mutex = mq[x].mutex
    PROVE  LockDiscipline'
  <1>1. ASSUME NEW u \in Threads, NEW x \in Queues
        PROVE  mq'[x].mutex = u <=> arg'[u].q = x /\ pc'[u] \in Critical
    BY DEF LockDiscipline
  <1> QED BY <1>1 DEF LockDiscipline

(* The steps that leave the backends alone.                                *)
LEMMA SameBackends ==
    ASSUME MemoryInv, MemoryInv', ChannelInv, NEW t \in Threads, pc[t] \notin Critical, pc'[t] \notin Critical,
           UNCHANGED <<mq, stored>>, \A u \in Threads \ {t} : arg'[u] = arg[u] /\ pc'[u] = pc[u],
           arg'[t].q # None => CallOK(pc'[t], arg'[t], mq[arg'[t].q])
    PROVE  ChannelInv'
  <1>1. pc'[t] \notin {"take", "take_body"}
    BY DEF Critical
  <1>2. LockDiscipline'
    BY OutsideLock DEF ChannelInv
  <1>3. /\ \A x \in Queues : mq'[x].buf = mq[x].buf /\ BackendOK(mq'[x])
        /\ \A u \in Threads \ {t} : arg[u].q # None => mq'[arg[u].q].size = mq[arg[u].q].size
        /\ arg'[t].q # None => CallOK(pc'[t], arg'[t], mq'[arg'[t].q])
        /\ stored' = stored
    BY DEF ChannelInv
  <1> QED BY <1>1, <1>2, <1>3, OutsideInv

(* A refused call changes nothing but its result.                          *)
LEMMA RefuseChannel ==
    ASSUME MemoryInv, MemoryInv', ChannelInv, UNCHANGED <<mq, pc, arg, stored>>
    PROVE  ChannelInv'
  <1>1. LockDiscipline' /\ WholeMessages'
    BY DEF ChannelInv, LockDiscipline, WholeMessages, Waiting
  <1> QED BY <1>1 DEF ChannelInv

LEMMA EnterChannel ==
    ASSUME MemoryInv, MemoryInv', ChannelInv, NEW t \in Threads, pc[t] = "idle",
           NEW label \in {"open_lock", "close_lock", "read_lock", "write_lock"}, NEW a, Enter(t, label, a),
           label = "read_lock" => a.len \in ReadLens, label = "write_lock" => a.len \in WriteLens
    PROVE  ChannelInv'
  <1>1. pc'[t] = label /\ arg'[t] = a /\ \A u \in Threads \ {t} : arg'[u] = arg[u] /\ pc'[u] = pc[u]
    BY DEF Enter, MemoryInv, TypeOK
  <1>2. pc[t] \notin Critical /\ pc'[t] \notin Critical
    BY <1>1 DEF Critical
  <1>3. CallOK(label, a, mq[a.q])
    BY DEF CallOK, WriteLabels, ReadLabels
  <1> QED BY <1>1, <1>2, <1>3, SameBackends DEF Enter

(* A new backend is referred to by no call, and its ring buffer is empty.  *)
LEMMA CreateChannel ==
    ASSUME MemoryInv, MemoryInv', ChannelInv, NEW c \in CreateCalls, NEW event,
           pc[SlotOwner[c.slot]] = "idle",
           mq[c.queue].status = "unborn", UNCHANGED <<pc, arg, stored>>,
           mq' = [mq EXCEPT ![c.queue] = mq_open(mq_init(c.capacity, event), c.flags)]
    PROVE  ChannelInv'
  <1> DEFINE y == c.queue  t == SlotOwner[c.slot]
  <1>1. y \in Queues /\ t \in Threads /\ mq \in [Queues -> Backend]
    BY CallAssumption, OwnerAssumption DEF MemoryInv, TypeOK
  <1>2. /\ mq'[y].size = c.capacity /\ mq'[y].buf = <<>> /\ mq'[y].mutex = None
        /\ mq'[y].status = "live"
        /\ \A x \in Queues \ {y} : mq'[x] = mq[x]
    BY <1>1 DEF mq_open, mq_init
  <1>3. \A u \in Threads : arg[u].q # y
    BY <1>1, NoneAssumption DEF MemoryInv, NoUseAfterFree
  <1>4. mq[y].buf = <<>>
    BY <1>1 DEF ChannelInv, BackendOK
  <1>5. \A x \in Queues : mq'[x].buf = mq[x].buf /\ BackendOK(mq'[x])
    <2>1. BackendOK(mq'[y])
      <3>1. Len(mq'[y].buf) = 0
        BY <1>2
      <3>2. mq'[y].size \in {d.capacity : d \in CreateCalls}
        BY <1>2
      <3>3. 1..0 = {}
        OBVIOUS
      <3> QED BY <1>2, <3>1, <3>2, <3>3 DEF BackendOK
    <2> QED BY <1>2, <1>4, <2>1 DEF ChannelInv
  <1>6. LockDiscipline'
    <2>1. ASSUME NEW u \in Threads, NEW x \in Queues
          PROVE  mq'[x].mutex = u <=> arg'[u].q = x /\ pc'[u] \in Critical
      <3>1. CASE x = y
        BY <1>2, <1>3, <3>1, NoneAssumption
      <3>2. CASE x # y
        BY <1>2, <3>2 DEF ChannelInv, LockDiscipline
      <3> QED BY <3>1, <3>2
    <2> QED BY <2>1 DEF LockDiscipline
  <1>7. \A u \in Threads : arg[u].q # None => mq'[arg[u].q].size = mq[arg[u].q].size /\ mq'[arg[u].q].buf = mq[arg[u].q].buf
    <2> SUFFICES ASSUME NEW u \in Threads, arg[u].q # None PROVE mq'[arg[u].q] = mq[arg[u].q]
      OBVIOUS
    <2>1. arg[u].q \in Queues
      BY DEF MemoryInv, TypeOK, Arg
    <2> QED BY <1>2, <1>3, <2>1
  <1>8. arg'[t].q # None => CallOK(pc'[t], arg'[t], mq'[arg'[t].q])
    BY <1>1, <1>7 DEF ChannelInv, CallOK
  <1>9. pc[t] \notin Critical /\ pc'[t] \notin {"take", "take_body"}
    BY DEF Critical
  <1> QED BY <1>1, <1>5, <1>6, <1>7, <1>8, <1>9, OutsideInv

(* The calls of the clients.                                               *)
LEMMA CallChannel == ASSUME MemoryInv, MemoryInv', ChannelInv, Call PROVE ChannelInv'
  <1>a. ASSUME NEW t, NEW errno, Refuse(t, errno) PROVE ChannelInv'
    BY <1>a, RefuseChannel DEF Refuse
  <1>b. \A s \in Slots : SlotOwner[s] \in Threads
    BY OwnerAssumption
  <1>c. \A s, n : [WithHandle(s) EXCEPT !.len = n].len = n
    BY DEF WithHandle, NoArg
  <1>1. ASSUME NEW c \in CreateCalls, msg_queue_create(c) PROVE ChannelInv'
    <2>1. CASE \E errno : Refuse(SlotOwner[c.slot], errno)
      BY <1>a, <2>1
    <2>2. CASE ~\E errno : Refuse(SlotOwner[c.slot], errno)
      <3>1. pc[SlotOwner[c.slot]] = "idle" /\ mq[c.queue].status = "unborn" /\ UNCHANGED <<pc, arg, stored>>
        BY <1>1, <2>2 DEF msg_queue_create
      <3>2. PICK event : mq' = [mq EXCEPT ![c.queue] = mq_open(mq_init(c.capacity, event), c.flags)]
        BY <1>1, <2>2 DEF msg_queue_create
      <3> QED BY <3>1, <3>2, CreateChannel
    <2> QED BY <2>1, <2>2
  <1>2. ASSUME NEW c \in OpenCalls, msg_queue_open(c) PROVE ChannelInv'
    <2>1. CASE \E errno : Refuse(SlotOwner[c.slot], errno)
      BY <1>a, <2>1
    <2>2. CASE ~\E errno : Refuse(SlotOwner[c.slot], errno)
      <3>1. /\ pc[SlotOwner[c.slot]] = "idle"
            /\ Enter(SlotOwner[c.slot], "open_lock", [WithHandle(c.slot) EXCEPT !.dst = c.dst, !.flags = c.flags])
        BY <1>2, <2>2 DEF msg_queue_open
      <3> QED BY <1>b, <3>1, EnterChannel, CallAssumption
    <2> QED BY <2>1, <2>2
  <1>3. ASSUME NEW s \in CloseCalls, msg_queue_close(s) PROVE ChannelInv'
    <2>1. CASE \E errno : Refuse(SlotOwner[s], errno)
      BY <1>a, <2>1
    <2>2. CASE ~\E errno : Refuse(SlotOwner[s], errno)
      <3>1. pc[SlotOwner[s]] = "idle" /\ Enter(SlotOwner[s], "close_lock", WithHandle(s))
        BY <1>3, <2>2 DEF msg_queue_close
      <3> QED BY <1>b, <3>1, EnterChannel, CallAssumption
    <2> QED BY <2>1, <2>2
  <1>4. ASSUME NEW c \in ReadCalls, msg_queue_read(c) PROVE ChannelInv'
    <2>1. CASE \E errno : Refuse(SlotOwner[c.slot], errno)
      BY <1>a, <2>1
    <2>2. CASE ~\E errno : Refuse(SlotOwner[c.slot], errno)
      <3> DEFINE a == [WithHandle(c.slot) EXCEPT !.len = c.len]
      <3>1. pc[SlotOwner[c.slot]] = "idle" /\ Enter(SlotOwner[c.slot], "read_lock", a)
        BY <1>4, <2>2 DEF msg_queue_read
      <3>2. a.len \in ReadLens
        BY <1>c DEF ReadLens
      <3> HIDE DEF a
      <3> QED BY <1>b, <3>1, <3>2, EnterChannel, CallAssumption
    <2> QED BY <2>1, <2>2
  <1>5. ASSUME NEW c \in WriteCalls, msg_queue_write(c) PROVE ChannelInv'
    <2>1. CASE \E errno : Refuse(SlotOwner[c.slot], errno)
      BY <1>a, <2>1
    <2>2. CASE ~\E errno : Refuse(SlotOwner[c.slot], errno)
      <3> DEFINE a == [WithHandle(c.slot) EXCEPT !.len = c.len]
      <3>1. pc[SlotOwner[c.slot]] = "idle" /\ c.len # 0 /\ Enter(SlotOwner[c.slot], "write_lock", a)
        BY <1>5, <2>2 DEF msg_queue_write
      <3>2. a.len \in WriteLens
        BY <1>c, <3>1 DEF WriteLens
      <3> HIDE DEF a
      <3> QED BY <1>b, <3>1, <3>2, EnterChannel, CallAssumption
    <2> QED BY <2>1, <2>2
  <1> QED BY <1>1, <1>2, <1>3, <1>4, <1>5 DEF Call

(* Acquiring a free mutex, and returning from a wait for no reason.        *)
LEMMA LockChannel == ASSUME MemoryInv, MemoryInv', ChannelInv, NEW t \in Threads, Lock(t) PROVE ChannelInv'
  <1> DEFINE q == arg[t].q
  <1>1. /\ pc[t] \in LockLabels /\ pc[t] \notin {"idle"} \cup PollLabels /\ pc[t] \notin Critical
        /\ Locked(pc[t]) \in Critical /\ Locked(pc[t]) \notin {"take", "take_body"}
    BY DEF Lock, LockLabels, PollLabels, Critical, Locked
  <1>2. q \in Queues /\ mq \in [Queues -> Backend] /\ pc \in [Threads -> Label]
    BY <1>1, InCall DEF MemoryInv, TypeOK
  <1>3. /\ mq[q].mutex = None /\ mq'[q].mutex = t /\ \A x \in Queues \ {q} : mq'[x] = mq[x]
        /\ \A x \in Queues : mq'[x].buf = mq[x].buf /\ mq'[x].size = mq[x].size /\ mq'[x].status = mq[x].status
        /\ pc'[t] = Locked(pc[t]) /\ arg' = arg /\ stored' = stored
        /\ \A u \in Threads \ {t} : pc'[u] = pc[u]
    BY <1>2 DEF Lock, mutex_available, Backend
  <1>4. LockDiscipline'
    <2>1. ASSUME NEW u \in Threads, NEW x \in Queues
          PROVE  mq'[x].mutex = u <=> arg'[u].q = x /\ pc'[u] \in Critical
      <3>1. mq[x].mutex = u <=> arg[u].q = x /\ pc[u] \in Critical
        BY DEF ChannelInv, LockDiscipline
      <3>2. CASE x = q
        BY <1>1, <1>2, <1>3, <3>1, <3>2, NoneAssumption
      <3>3. CASE x # q
        BY <1>1, <1>2, <1>3, <3>1, <3>3
      <3> QED BY <3>2, <3>3
    <2> QED BY <2>1 DEF LockDiscipline
  <1>5. \A x \in Queues : BackendOK(mq'[x])
    BY <1>3 DEF ChannelInv, BackendOK
  <1>6. CallOK(pc'[t], arg'[t], mq'[arg'[t].q])
    <2>1. CallOK(pc[t], arg[t], mq[q])
      BY <1>2, NoneAssumption DEF ChannelInv
    <2>2. CallOK(Locked(pc[t]), arg[t], mq[q])
      BY <1>1, <2>1 DEF CallOK, LockLabels, Locked, WriteLabels, ReadLabels
    <2> QED BY <1>2, <1>3, <2>2 DEF CallOK
  <1>7. ASSUME NEW u \in Threads, arg[u].q # None PROVE mq'[arg[u].q].size = mq[arg[u].q].size
    <2>1. arg[u].q \in Queues
      BY <1>7 DEF MemoryInv, TypeOK, Arg
    <2> QED BY <1>3, <2>1
  <1> QED BY <1>1, <1>3, <1>4, <1>5, <1>6, <1>7, OutsideInv

LEMMA SpuriousChannel == ASSUME MemoryInv, MemoryInv', ChannelInv, NEW t \in Threads, SpuriousWakeup(t) PROVE ChannelInv'
  <1>1. PICK label : /\ pc' = [pc EXCEPT ![t] = label]
                     /\ \/ pc[t] = "read_wait" /\ label = "read_lock"
                        \/ pc[t] = "write_wait" /\ label = "write_relock"
    BY DEF SpuriousWakeup
  <1>2. /\ pc[t] \notin Critical /\ label \notin Critical /\ pc'[t] = label
        /\ \A u \in Threads \ {t} : arg'[u] = arg[u] /\ pc'[u] = pc[u]
        /\ UNCHANGED <<mq, stored, arg>>
    BY <1>1 DEF SpuriousWakeup, Critical, MemoryInv, TypeOK
  <1>3. arg'[t].q # None => CallOK(pc'[t], arg'[t], mq[arg'[t].q])
    <2>1. Woken(pc[t], pc'[t])
      BY <1>1, <1>2 DEF Woken
    <2> QED BY <1>2, <2>1, WokenSides DEF ChannelInv
  <1> QED BY <1>2, <1>3, SameBackends

(* Freeing a backend that no other call refers to.                         *)
LEMMA DestroyChannel == ASSUME MemoryInv, MemoryInv', ChannelInv, NEW t \in Threads, Destroy(t) PROVE ChannelInv'
  <1> DEFINE q == arg[t].q
  <1>1. pc[t] \notin {"idle"} \cup PollLabels /\ pc[t] \notin Critical /\ "idle" \notin Critical
    BY DEF Destroy, PollLabels, Critical
  <1>2. q \in Queues /\ mq \in [Queues -> Backend] /\ pc \in [Threads -> Label] /\ arg \in [Threads -> Arg]
        /\ mq[q].status = "live"
    BY <1>1, InCall, NoneAssumption DEF MemoryInv, TypeOK, NoUseAfterFree
  <1>3. /\ \A x \in Queues : /\ mq'[x].buf = mq[x].buf /\ mq'[x].size = mq[x].size /\ mq'[x].mutex = mq[x].mutex
                             /\ mq'[x].status = IF x = q THEN "freed" ELSE mq[x].status
        /\ pc'[t] = "idle" /\ arg'[t] = NoArg /\ stored' = stored
        /\ \A u \in Threads \ {t} : pc'[u] = pc[u] /\ arg'[u] = arg[u]
    BY <1>2 DEF Destroy, Leave, Backend
  <1>4. LockDiscipline'
    BY <1>1, <1>3, OutsideLock DEF ChannelInv
  <1>5. \A x \in Queues : BackendOK(mq'[x])
    BY <1>2, <1>3 DEF ChannelInv, BackendOK
  <1>6. arg'[t].q = None /\ pc'[t] \notin {"take", "take_body"}
    BY <1>3 DEF NoArg
  <1>7. ASSUME NEW u \in Threads, arg[u].q # None PROVE mq'[arg[u].q].size = mq[arg[u].q].size
    <2>1. arg[u].q \in Queues
      BY <1>7 DEF MemoryInv, TypeOK, Arg
    <2> QED BY <1>3, <2>1
  <1> QED BY <1>1, <1>3, <1>4, <1>5, <1>6, <1>7, OutsideInv

-----------------------------------------------------------------------------
(* The steps inside a critical section.                                    *)
LEMMA CriticalShape ==
    ASSUME MemoryInv, NEW t \in Threads, pc[t] \in Critical, NEW q, q = arg[t].q,
           NEW label \in Label, NEW b, NEW a, NEW pcs \in [Threads -> Label],
           \A u \in Threads \ {t} : Woken(pc[u], pcs[u]),
           mq' = [mq EXCEPT ![q] = b], pc' = [pcs EXCEPT ![t] = label], arg' = [arg EXCEPT ![t] = a],
           \A x \in Queues \ {q} : stored'[x] = stored[x],
           b.status = mq[q].status, b.size = mq[q].size,
           b.mutex = IF label \in Critical THEN mq[q].mutex ELSE None,
           (label = "idle" /\ a = NoArg) \/ (label # "idle" /\ a.q = q /\ a.len = arg[t].len)
    PROVE  CriticalStep(t, label) /\ mq'[q] = b /\ arg'[t] = a /\ pc'[t] = label /\ q \in Queues
  <1>1. pc[t] \notin {"idle"} \cup PollLabels
    BY DEF Critical, PollLabels
  <1>2. q \in Queues /\ mq \in [Queues -> Backend] /\ arg \in [Threads -> Arg]
    BY <1>1, InCall DEF MemoryInv, TypeOK
  <1>3. mq'[q] = b /\ arg'[t] = a /\ pc'[t] = label /\ \A x \in Queues \ {q} : mq'[x] = mq[x]
    BY <1>2
  <1>4. \A u \in Threads \ {t} : arg'[u] = arg[u] /\ pc'[u] = pcs[u]
    BY <1>2
  <1>5. Others(t) /\ Elsewhere(q)
    BY <1>3, <1>4 DEF Others, Elsewhere
  <1> QED BY <1>2, <1>3, <1>5 DEF CriticalStep

(* What a thread in a critical section finds in the ring buffer.           *)
LEMMA Inside ==
    ASSUME MemoryInv, ChannelInv, NEW t \in Threads, pc[t] \in Critical
    PROVE  LET q == arg[t].q  b == mq[q] IN
           /\ q \in Queues /\ q # None /\ b \in Backend /\ b.mutex = t
           /\ b.buf \in Seq(Cell) /\ Len(b.buf) \in Nat /\ b.size \in Nat /\ stored[q] \in Nat
           /\ arg[t] \in Arg /\ arg[t].len \in Nat
           /\ Whole(b.buf, stored[q], IF pc[t] = "take_body" THEN SizeT + 1 ELSE 1)
           /\ CallOK(pc[t], arg[t], b) /\ BackendOK(b)
           /\ b.status = "live"
  <1> DEFINE q == arg[t].q  b == mq[q]
  <1>1. /\ q \in Queues /\ q # None /\ b.mutex = t
        /\ \A u \in Threads \ {t} : arg[u].q = q => pc[u] \notin Critical
    BY Alone DEF ChannelInv
  <1>2. b \in Backend /\ stored[q] \in Nat /\ arg[t] \in Arg
    BY <1>1 DEF MemoryInv, TypeOK
  <1>a. b.buf \in Seq(Cell) /\ b.size \in Nat
    BY <1>2 DEF Backend
  <1>b. arg[t].len \in Nat
    BY <1>2 DEF Arg
  <1>3. b.buf \in Seq(Cell) /\ Len(b.buf) \in Nat /\ b.size \in Nat /\ arg[t].len \in Nat
    BY <1>a, <1>b, LenProperties
  <1>4. Waiting(q, "take_body") = {} <=> pc[t] # "take_body"
    BY <1>1 DEF Waiting, Critical
  <1>5. Whole(b.buf, stored[q], IF pc[t] = "take_body" THEN SizeT + 1 ELSE 1)
    BY <1>1, <1>4 DEF ChannelInv, WholeMessages
  <1>6. CallOK(pc[t], arg[t], b) /\ BackendOK(b) /\ b.status = "live"
    BY <1>1 DEF ChannelInv, MemoryInv, NoUseAfterFree
  <1> QED BY <1>1, <1>2, <1>3, <1>5, <1>6

(* A step that leaves the ring buffer as it is.                            *)
LEMMA KeepBuffer ==
    ASSUME MemoryInv, MemoryInv', ChannelInv, NEW t \in Threads, NEW label, CriticalStep(t, label),
           pc[t] # "take_body", label # "take_body",
           mq'[arg[t].q].buf = mq[arg[t].q].buf, stored' = stored,
           label # "idle" => CallOK(label, arg'[t], mq'[arg[t].q])
    PROVE  ChannelInv'
  <1> DEFINE q == arg[t].q
  <1>1. /\ pc[t] \in Critical /\ mq'[q].status = mq[q].status /\ mq'[q].size = mq[q].size
    BY DEF CriticalStep
  <1>2. BackendOK(mq'[q])
    BY <1>1, Inside DEF BackendOK
  <1>3. Whole(mq'[q].buf, stored'[q], 1)
    BY <1>1, Inside
  <1> QED BY <1>2, <1>3, CriticalInv

(* Steps that unlock the mutex and leave the ring buffer alone.            *)
LEMMA NotWoken == \A l : Woken(l, l)
  BY DEF Woken

LEMMA OpenChannel ==
    ASSUME MemoryInv, MemoryInv', ChannelInv, NEW t \in Threads, OpenBody(t)
    PROVE  /\ ChannelInv' /\ CriticalStep(t, "idle")
           /\ mq'[arg[t].q].buf = mq[arg[t].q].buf
           /\ mq'[arg[t].q].no_writers => mq[arg[t].q].no_writers
           /\ \A u \in Threads \ {t} : pc'[u] = pc[u]
  <1> DEFINE q == arg[t].q  b == mutex_unlock(mq_open(mq[q], arg[t].flags))
  <1>1. pc[t] = "open" /\ pc[t] \in Critical /\ "idle" \in Label /\ "idle" \notin Critical
    BY DEF OpenBody, Critical, Label
  <1>2. /\ b.status = mq[q].status /\ b.size = mq[q].size /\ b.mutex = None /\ b.buf = mq[q].buf
        /\ b.no_writers => mq[q].no_writers
    BY <1>1, Inside DEF mutex_unlock, mq_open, Backend
  <1>3. /\ mq' = [mq EXCEPT ![q] = b] /\ pc' = [pc EXCEPT ![t] = "idle"]
        /\ arg' = [arg EXCEPT ![t] = NoArg] /\ stored' = stored
    BY DEF OpenBody, Leave
  <1> HIDE DEF b
  <1>4. pc \in [Threads -> Label]
    BY DEF MemoryInv, TypeOK
  <1>5. CriticalStep(t, "idle") /\ mq'[q] = b
    BY <1>1, <1>2, <1>3, <1>4, NotWoken, CriticalShape
  <1>6. ChannelInv'
    BY <1>1, <1>2, <1>3, <1>5, KeepBuffer
  <1>7. \A u \in Threads \ {t} : pc'[u] = pc[u]
    BY <1>3, <1>4
  <1> QED BY <1>2, <1>5, <1>6, <1>7

LEMMA CloseChannel ==
    ASSUME MemoryInv, MemoryInv', ChannelInv, NEW t \in Threads, CloseBody(t)
    PROVE  LET q == arg[t].q  b == mq_close(mq[q], arg[t].flags) IN
           /\ ChannelInv' /\ mq'[q].buf = mq[q].buf /\ mq'[q].no_writers = b.no_writers
           /\ \/ CriticalStep(t, "destroy") /\ mq'[q].refs = 0 /\ \A u \in Threads \ {t} : pc'[u] = pc[u]
              \/ CriticalStep(t, "idle") /\ \A u \in Threads \ {t} : pc'[u] = CloseBroadcast(q, b)[u]
  <1> DEFINE q == arg[t].q  b == mq_close(mq[q], arg[t].flags)
  <1>1. /\ pc[t] = "close" /\ pc[t] \in Critical
        /\ {"idle", "destroy"} \subseteq Label /\ "idle" \notin Critical /\ "destroy" \notin Critical
    BY DEF CloseBody, Critical, Label
  <1>2. pc \in [Threads -> Label] /\ arg \in [Threads -> Arg]
    BY DEF MemoryInv, TypeOK
  <1>3. b.status = mq[q].status /\ b.size = mq[q].size /\ b.buf = mq[q].buf
    BY <1>1, Inside DEF mq_close, Backend
  <1>4. DOMAIN b = DOMAIN mq[q]
    BY DEF mq_close
  <1>5. mq[q] \in Backend
    BY <1>1, Inside
  <1>6. {"mutex", "queue_event", "refs", "no_writers", "status", "size", "buf"} \subseteq DOMAIN b
    BY <1>4, <1>5 DEF Backend
  <1> DEFINE e == [b EXCEPT !.queue_event = @ \cup CloseEvents(b)]
  <1>7. CASE LastHandle(b)
    <2> DEFINE c == mutex_unlock(b)
    <2>1. /\ mq' = [mq EXCEPT ![q] = c] /\ pc' = [pc EXCEPT ![t] = "destroy"]
          /\ arg' = [arg EXCEPT ![t] = arg[t]] /\ stored' = stored
      BY <1>2, <1>7 DEF CloseBody
    <2>2. /\ c.status = mq[q].status /\ c.size = mq[q].size /\ c.mutex = None /\ c.buf = mq[q].buf
          /\ c.no_writers = b.no_writers /\ c.refs = 0
      <3> HIDE DEF b
      <3> QED BY <1>3, <1>6, <1>7 DEF mutex_unlock, LastHandle
    <2> HIDE DEF c, b
    <2>3. CriticalStep(t, "destroy") /\ mq'[q] = c
      <3>1. /\ "destroy" \in Label /\ "destroy" # "idle" /\ \A x \in Queues \ {q} : stored'[x] = stored[x]
            /\ c.mutex = IF "destroy" \in Critical THEN mq[q].mutex ELSE None
        BY <1>1, <2>1, <2>2
      <3>2. \A u \in Threads \ {t} : Woken(pc[u], pc[u])
        BY NotWoken
      <3>3. q \in Queues /\ mq \in [Queues -> Backend]
        BY <1>1, Inside DEF MemoryInv, TypeOK
      <3>4. /\ mq'[q] = c /\ pc'[t] = "destroy" /\ arg' = arg
            /\ \A x \in Queues \ {q} : mq'[x] = mq[x]
            /\ \A u \in Threads \ {t} : pc'[u] = pc[u]
        BY <1>2, <2>1, <3>3
      <3> QED BY <1>1, <2>2, <3>1, <3>2, <3>4 DEF CriticalStep, Others, Elsewhere
    <2>4. CallOK("destroy", arg'[t], mq'[q])
      BY DEF CallOK, WriteLabels, ReadLabels
    <2>5. ChannelInv'
      BY <1>1, <2>1, <2>2, <2>3, <2>4, KeepBuffer
    <2>6. \A u \in Threads \ {t} : pc'[u] = pc[u]
      BY <1>2, <2>1
    <2> QED BY <2>2, <2>3, <2>5, <2>6 DEF b
  <1>8. CASE ~LastHandle(b)
    <2> DEFINE c == mutex_unlock(e)  pcs == CloseBroadcast(q, b)
    <2>1. /\ mq' = [mq EXCEPT ![q] = c] /\ pc' = [pcs EXCEPT ![t] = "idle"]
          /\ arg' = [arg EXCEPT ![t] = NoArg] /\ stored' = stored
      BY <1>8 DEF CloseBody, Leave
    <2>2. /\ c.status = mq[q].status /\ c.size = mq[q].size /\ c.mutex = None /\ c.buf = mq[q].buf
          /\ c.no_writers = b.no_writers
      <3> HIDE DEF b
      <3> QED BY <1>3, <1>6 DEF mutex_unlock
    <2> HIDE DEF c, b
    <2>3. pcs \in [Threads -> Label] /\ \A u \in Threads : Woken(pc[u], pcs[u])
      BY <1>2, BroadcastEffect DEF Woken
    <2> HIDE DEF pcs
    <2>4. CriticalStep(t, "idle") /\ mq'[q] = c
      <3>1. q \in Queues /\ mq \in [Queues -> Backend]
        BY <1>1, Inside DEF MemoryInv, TypeOK
      <3>2. mq'[q] = c /\ \A x \in Queues \ {q} : mq'[x] = mq[x] /\ stored'[x] = stored[x]
        BY <2>1, <3>1
      <3>3. pc'[t] = "idle" /\ arg'[t] = NoArg /\ \A u \in Threads \ {t} : pc'[u] = pcs[u] /\ arg'[u] = arg[u]
        BY <1>2, <2>1, <2>3
      <3>4. Others(t) /\ Elsewhere(q)
        BY <2>3, <3>2, <3>3 DEF Others, Elsewhere
      <3> QED BY <1>1, <2>2, <3>2, <3>3, <3>4 DEF CriticalStep
    <2>5. ChannelInv'
      BY <1>1, <2>1, <2>2, <2>4, KeepBuffer
    <2>6. \A u \in Threads \ {t} : pc'[u] = pcs[u]
      BY <2>1, <2>3
    <2> QED BY <2>2, <2>4, <2>5, <2>6 DEF b, pcs
  <1> QED BY <1>7, <1>8

(* EndWakeup, WriteReject, WriteWait and ReadEmpty.                        *)
LEMMA UnlockChannel ==
    ASSUME MemoryInv, MemoryInv', ChannelInv, NEW t \in Threads, NEW q, q = arg[t].q,
           pc[t] \in Critical \ {"take_body"}, NEW label \in {"idle", "read_wait", "write_wait"},
           mq' = [mq EXCEPT ![q] = mutex_unlock(@)], pc' = [pc EXCEPT ![t] = label], stored' = stored,
           \/ label = "idle" /\ arg' = [arg EXCEPT ![t] = NoArg]
           \/ label # "idle" /\ arg' = arg /\ CallOK(label, arg[t], mq[q])
    PROVE  /\ ChannelInv' /\ CriticalStep(t, label)
           /\ mq'[q].buf = mq[q].buf /\ mq'[q].no_writers = mq[q].no_writers
           /\ \A u \in Threads \ {t} : pc'[u] = pc[u]
  <1> DEFINE b == mutex_unlock(mq[q])
  <1>1. pc[t] \in Critical /\ pc[t] # "take_body" /\ label \in Label /\ label \notin Critical /\ label # "take_body"
    BY DEF Critical, Label
  <1>2. /\ b.status = mq[q].status /\ b.size = mq[q].size /\ b.mutex = None /\ b.buf = mq[q].buf
        /\ b.no_writers = mq[q].no_writers
    BY <1>1, Inside DEF mutex_unlock, Backend
  <1>3. pc \in [Threads -> Label] /\ arg \in [Threads -> Arg] /\ mq' = [mq EXCEPT ![q] = b]
    BY DEF MemoryInv, TypeOK
  <1>4. PICK a : /\ arg' = [arg EXCEPT ![t] = a]
                 /\ (label = "idle" /\ a = NoArg) \/ (label # "idle" /\ a = arg[t] /\ CallOK(label, a, mq[q]))
    <2>1. CASE label = "idle"
      BY <2>1
    <2>2. CASE label # "idle"
      <3>1. arg' = [arg EXCEPT ![t] = arg[t]]
        BY <1>3, <2>2
      <3> QED BY <2>2, <3>1
    <2> QED BY <2>1, <2>2
  <1> HIDE DEF b
  <1>5. CriticalStep(t, label) /\ mq'[q] = b /\ arg'[t] = a
    <2>1. \A x \in Queues \ {q} : stored'[x] = stored[x]
      OBVIOUS
    <2>2. (label = "idle" /\ a = NoArg) \/ (label # "idle" /\ a.q = q /\ a.len = arg[t].len)
      BY <1>4
    <2>3. b.mutex = IF label \in Critical THEN mq[q].mutex ELSE None
      BY <1>1, <1>2
    <2>4. arg' = [arg EXCEPT ![t] = a]
      BY <1>4
    <2>5. \A u \in Threads \ {t} : Woken(pc[u], pc[u])
      BY NotWoken
    <2>6. q \in Queues /\ mq \in [Queues -> Backend]
      BY <1>1, Inside DEF MemoryInv, TypeOK
    <2>7. /\ mq'[q] = b /\ pc'[t] = label /\ arg'[t] = a
          /\ \A x \in Queues \ {q} : mq'[x] = mq[x]
          /\ \A u \in Threads \ {t} : pc'[u] = pc[u] /\ arg'[u] = arg[u]
      BY <1>3, <2>4, <2>6
    <2> QED BY <1>1, <1>2, <2>1, <2>2, <2>3, <2>5, <2>7 DEF CriticalStep, Others, Elsewhere
  <1>6. label # "idle" => CallOK(label, arg'[t], mq'[q])
    BY <1>1, <1>2, <1>4, <1>5 DEF CallOK
  <1>7. ChannelInv'
    BY <1>1, <1>2, <1>5, <1>6, KeepBuffer
  <1>8. \A u \in Threads \ {t} : pc'[u] = pc[u]
    BY <1>3
  <1> QED BY <1>2, <1>5, <1>7, <1>8

(* The steps that go on to helper_wakeup.                                  *)
LEMMA WakeupShape ==
    ASSUME MemoryInv, ChannelInv, NEW t \in Threads, pc[t] \in Critical, NEW pcs \in [Threads -> Label],
           \A u \in Threads \ {t} : Woken(pc[u], pcs[u]), NEW r, NEW b, BeginWakeup(t, pcs, r, b),
           \A x \in Queues \ {arg[t].q} : stored'[x] = stored[x],
           b.status = mq[arg[t].q].status, b.size = mq[arg[t].q].size, b.mutex = mq[arg[t].q].mutex
    PROVE  /\ CriticalStep(t, "wakeup") /\ mq'[arg[t].q] = b
           /\ \A a, d : CallOK("wakeup", a, d)
           /\ \A u \in Threads \ {t} : pc'[u] = pcs[u]
  <1> DEFINE q == arg[t].q
  <1>1. q \in Queues /\ mq \in [Queues -> Backend] /\ arg \in [Threads -> Arg]
    BY Inside DEF MemoryInv, TypeOK
  <1>2. "wakeup" \in Critical /\ "wakeup" \in Label
    BY DEF Critical, Label
  <1>3. /\ mq'[q] = b /\ \A x \in Queues \ {q} : mq'[x] = mq[x]
        /\ pc'[t] = "wakeup" /\ \A u \in Threads \ {t} : pc'[u] = pcs[u] /\ arg'[u] = arg[u]
    BY <1>1 DEF BeginWakeup
  <1>4. arg'[t].q = q /\ arg'[t].len = arg[t].len
    BY <1>1 DEF BeginWakeup, Arg
  <1>5. CriticalStep(t, "wakeup")
    BY <1>2, <1>3, <1>4 DEF CriticalStep, Others, Elsewhere
  <1>6. \A a, d : CallOK("wakeup", a, d)
    BY DEF CallOK, WriteLabels, ReadLabels
  <1> QED BY <1>3, <1>5, <1>6

LEMMA EofChannel ==
    ASSUME MemoryInv, MemoryInv', ChannelInv, NEW t \in Threads, ReadEof(t)
    PROVE  /\ ChannelInv' /\ CriticalStep(t, "wakeup") /\ mq[arg[t].q].buf = <<>> /\ mq[arg[t].q].no_writers
           /\ mq'[arg[t].q].buf = mq[arg[t].q].buf /\ mq'[arg[t].q].no_writers = mq[arg[t].q].no_writers
           /\ \A u \in Threads \ {t} : pc'[u] = pc[u]
  <1> DEFINE q == arg[t].q  b == [mq[q] EXCEPT !.queue_event = @ \cup {"NOWRITERS"}]
  <1>1. pc[t] = "read" /\ pc[t] \in Critical /\ Len(mq[q].buf) = 0 /\ mq[q].no_writers
    BY DEF ReadEof, Critical, ring_buffer_used
  <1>2. /\ b.status = mq[q].status /\ b.size = mq[q].size /\ b.mutex = mq[q].mutex /\ b.buf = mq[q].buf
        /\ b.no_writers = mq[q].no_writers
    <2>1. mq[q] \in Backend
      BY <1>1, Inside
    <2>2. \A e : LET d == [mq[q] EXCEPT !.queue_event = e] IN
             /\ d.status = mq[q].status /\ d.size = mq[q].size /\ d.mutex = mq[q].mutex /\ d.buf = mq[q].buf
             /\ d.no_writers = mq[q].no_writers
      BY <2>1 DEF Backend
    <2>3. b = [mq[q] EXCEPT !.queue_event = mq[q].queue_event \cup {"NOWRITERS"}]
      BY <2>1 DEF Backend
    <2> QED BY <2>2, <2>3
  <1>3. BeginWakeup(t, pc, "EOF", b) /\ stored' = stored
    BY DEF ReadEof
  <1> HIDE DEF b
  <1>4. pc \in [Threads -> Label] /\ \A u \in Threads \ {t} : Woken(pc[u], pc[u])
    BY NotWoken DEF MemoryInv, TypeOK
  <1>5. /\ CriticalStep(t, "wakeup") /\ mq'[q] = b /\ \A a, d : CallOK("wakeup", a, d)
        /\ \A u \in Threads \ {t} : pc'[u] = pc[u]
    BY <1>1, <1>2, <1>3, <1>4, WakeupShape
  <1>6. ChannelInv'
    BY <1>1, <1>2, <1>3, <1>5, KeepBuffer
  <1>7. mq[q].buf = <<>>
    BY <1>1, Inside, EmptySeq
  <1> QED BY <1>1, <1>2, <1>5, <1>6, <1>7

LEMMA EmptyChannel ==
    ASSUME MemoryInv, MemoryInv', ChannelInv, NEW t \in Threads, ReadEmpty(t)
    PROVE  /\ ChannelInv' /\ mq[arg[t].q].buf = <<>> /\ ~mq[arg[t].q].no_writers
           /\ CriticalStep(t, "idle") \/ CriticalStep(t, "read_wait")
           /\ mq'[arg[t].q].buf = mq[arg[t].q].buf /\ mq'[arg[t].q].no_writers = mq[arg[t].q].no_writers
           /\ \A u \in Threads \ {t} : pc'[u] = pc[u]
  <1> DEFINE q == arg[t].q
  <1>1. /\ pc[t] = "read" /\ pc[t] \in Critical /\ pc[t] \in Critical \ {"take_body"}
        /\ Len(mq[q].buf) = 0 /\ ~mq[q].no_writers
        /\ mq' = [mq EXCEPT ![q] = mutex_unlock(@)] /\ stored' = stored
    BY DEF ReadEmpty, Critical, ring_buffer_used
  <1>2. mq[q].buf = <<>>
    BY <1>1, Inside, EmptySeq
  <1>3. CallOK("read_wait", arg[t], mq[q])
    <2>1. CallOK("read", arg[t], mq[q])
      BY <1>1, Inside
    <2> QED BY <2>1 DEF CallOK, WriteLabels, ReadLabels
  <1>4. \/ pc' = [pc EXCEPT ![t] = "idle"] /\ arg' = [arg EXCEPT ![t] = NoArg]
        \/ pc' = [pc EXCEPT ![t] = "read_wait"] /\ arg' = arg
    BY DEF ReadEmpty, Leave
  <1>5. CASE pc' = [pc EXCEPT ![t] = "idle"] /\ arg' = [arg EXCEPT ![t] = NoArg]
    BY <1>1, <1>2, <1>5, UnlockChannel
  <1>6. CASE pc' = [pc EXCEPT ![t] = "read_wait"] /\ arg' = arg
    BY <1>1, <1>2, <1>3, <1>6, UnlockChannel
  <1> QED BY <1>4, <1>5, <1>6

LEMMA EndChannel ==
    ASSUME MemoryInv, MemoryInv', ChannelInv, NEW t \in Threads, EndWakeup(t) \/ WriteReject(t)
    PROVE  /\ ChannelInv' /\ CriticalStep(t, "idle") /\ pc[t] \in {"wakeup", "write"}
           /\ mq'[arg[t].q].buf = mq[arg[t].q].buf /\ mq'[arg[t].q].no_writers = mq[arg[t].q].no_writers
           /\ \A u \in Threads \ {t} : pc'[u] = pc[u]
  <1>1. /\ pc[t] \in {"wakeup", "write"} /\ pc[t] \in Critical \ {"take_body"}
        /\ mq' = [mq EXCEPT ![arg[t].q] = mutex_unlock(@)] /\ stored' = stored
        /\ pc' = [pc EXCEPT ![t] = "idle"] /\ arg' = [arg EXCEPT ![t] = NoArg]
    BY DEF EndWakeup, WriteReject, Critical, Leave
  <1> QED BY <1>1, UnlockChannel

(* A write that was accepted fits into the empty ring buffer.              *)
LEMMA AcceptedFits ==
    ASSUME MemoryInv, ChannelInv, LengthsDontWrap, NEW t \in Threads, Accepted(t)
    PROVE  /\ pc[t] \in {"write", "write_loop"} /\ pc[t] \in Critical
           /\ arg[t].len \in WriteLens /\ arg[t].len \in Nat \ {0}
           /\ Needed(arg[t].len) = SizeT + arg[t].len /\ SizeT + arg[t].len < mq[arg[t].q].size
  <1> DEFINE n == arg[t].len
  <1>1. pc[t] \in {"write", "write_loop"} /\ pc[t] \in Critical
    BY DEF Accepted, Critical
  <1>2. CallOK(pc[t], arg[t], mq[arg[t].q]) /\ n \in Nat /\ mq[arg[t].q].size \in Nat
    BY <1>1, Inside
  <1>3. n \in WriteLens
    BY <1>1, <1>2 DEF CallOK, WriteLabels
  <1>4. n # 0 /\ SizeT + n < SizeMod
    BY <1>3 DEF WriteLens, LengthsDontWrap
  <1> HIDE DEF n
  <1>5. Needed(n) = SizeT + n
    BY <1>2, <1>4, SizeAssumption DEF Needed, n
  <1>6. SizeT + n < mq[arg[t].q].size
    <2>1. CASE pc[t] = "write_loop"
      BY <1>2, <2>1 DEF CallOK, n
    <2>2. CASE pc[t] = "write"
      <3>1. ~(mq[arg[t].q].size <= Needed(n))
        BY <2>2 DEF Accepted, Rejection, n
      <3> QED BY <1>2, <1>5, <3>1, SizeAssumption
    <2> QED BY <1>1, <2>1, <2>2
  <1> QED BY <1>1, <1>2, <1>3, <1>4, <1>5, <1>6 DEF n

(* ... so it never waits on an empty one.                                  *)
LEMMA WaitChannel ==
    ASSUME MemoryInv, MemoryInv', ChannelInv, LengthsDontWrap, NEW t \in Threads, WriteWait(t)
    PROVE  /\ ChannelInv' /\ CriticalStep(t, "write_wait") /\ mq[arg[t].q].buf # <<>>
           /\ mq'[arg[t].q].buf = mq[arg[t].q].buf /\ mq'[arg[t].q].no_writers = mq[arg[t].q].no_writers
           /\ \A u \in Threads \ {t} : pc'[u] = pc[u]
  <1> DEFINE q == arg[t].q
  <1>1. /\ Accepted(t) /\ ~HasSpace(mq[q], arg[t].len)
        /\ mq' = [mq EXCEPT ![q] = mutex_unlock(@)] /\ stored' = stored
        /\ pc' = [pc EXCEPT ![t] = "write_wait"] /\ arg' = arg
    BY DEF WriteWait
  <1>2. /\ pc[t] \in Critical \ {"take_body"} /\ arg[t].len \in WriteLens /\ arg[t].len \in Nat
        /\ Needed(arg[t].len) = SizeT + arg[t].len /\ SizeT + arg[t].len < mq[q].size /\ mq[q].size \in Nat
    BY <1>1, AcceptedFits, Inside
  <1>3. mq[q].buf # <<>>
    <2> SUFFICES ASSUME mq[q].buf = <<>> PROVE FALSE
      OBVIOUS
    <2>1. Len(mq[q].buf) = 0
      OBVIOUS
    <2> QED BY <1>1, <1>2, <2>1, SizeAssumption DEF HasSpace, ring_buffer_free
  <1>4. CallOK("write_wait", arg[t], mq[q])
    BY <1>2 DEF CallOK, WriteLabels, ReadLabels
  <1> QED BY <1>1, <1>2, <1>3, <1>4, UnlockChannel

(* Messages in a queue have a length, and any reader has room for them.    *)
LEMMA StoredLengths ==
    ASSUME NEW b \in Backend, BackendOK(b), NEW k \in 1..Len(b.buf)
    PROVE  /\ b.buf[k].msg.len \in WriteLens /\ b.buf[k].msg.len \in Nat \ {0}
           /\ SizeT + b.buf[k].msg.len < b.size
  <1>1. b.buf \in Seq(Cell)
    BY DEF Backend
  <1>2. b.buf[k].msg.len \in Nat
    BY <1>1, CellParts
  <1> QED BY <1>2 DEF BackendOK, WriteLens

LEMMA PeekChannel ==
    ASSUME MemoryInv, MemoryInv', ChannelInv, ReadersHaveRoom, NEW t \in Threads, ReadPeek(t)
    PROVE  ChannelInv' /\ CriticalStep(t, "take") /\ mq' = mq /\ \A u \in Threads \ {t} : pc'[u] = pc[u]
  <1> DEFINE q == arg[t].q  b == mq[q]
  <1>1. /\ pc[t] = "read" /\ pc[t] \in Critical /\ Len(b.buf) # 0 /\ stored' = stored
        /\ pc' = [pc EXCEPT ![t] = "take"] /\ "take" \in Label /\ "take" \in Critical
    BY DEF ReadPeek, ring_buffer_used, Critical, Label
  <1>2. /\ q \in Queues /\ b \in Backend /\ b.buf \in Seq(Cell) /\ Len(b.buf) \in Nat /\ b.size \in Nat
        /\ Whole(b.buf, stored[q], 1) /\ BackendOK(b) /\ b.status = "live" /\ arg[t].len \in Nat
        /\ CallOK("read", arg[t], b)
    BY <1>1, Inside
  <1>3. b.buf # <<>> /\ 1 \in 1..Len(b.buf)
    BY <1>1, <1>2
  <1> DEFINE w == b.buf[1].msg.len
  <1>4. w \in WriteLens /\ w \in Nat \ {0} /\ SizeT + w < b.size
    BY <1>2, <1>3, StoredLengths
  <1>a. w > 0
    BY <1>4
  <1>5. SizeAt(b) = {w}
    BY <1>2, <1>3, <1>a, FrontMessage
  <1>6. ~(arg[t].len < w)
    <2>1. arg[t].len \in ReadLens /\ b.size \in {c.capacity : c \in CreateCalls}
      BY <1>2 DEF CallOK, ReadLabels, BackendOK
    <2>2. w <= arg[t].len \/ b.size <= SizeT + w
      BY <1>4, <2>1 DEF ReadersHaveRoom, ReadLens, WriteLens
    <2> HIDE DEF w, b
    <2> QED BY <1>2, <1>4, <2>2, SizeAssumption
  <1>7. mq' = mq /\ arg' = [arg EXCEPT ![t].head = w]
    BY <1>5, <1>6 DEF ReadPeek
  <1> HIDE DEF w
  <1>8. pc \in [Threads -> Label] /\ arg \in [Threads -> Arg]
    BY DEF MemoryInv, TypeOK
  <1>9. arg'[t].q = q /\ arg'[t].len = arg[t].len
    BY <1>7, <1>8 DEF Arg
  <1>10. pc'[t] = "take" /\ \A u \in Threads \ {t} : pc'[u] = pc[u] /\ arg'[u] = arg[u]
    BY <1>1, <1>7, <1>8
  <1>11. CriticalStep(t, "take")
    BY <1>1, <1>7, <1>9, <1>10, NotWoken DEF CriticalStep, Others, Elsewhere
  <1>12. CallOK("take", arg'[t], mq'[q])
    BY <1>2, <1>3, <1>7, <1>9 DEF CallOK, WriteLabels, ReadLabels
  <1>13. ChannelInv'
    BY <1>1, <1>7, <1>11, <1>12, KeepBuffer
  <1> QED BY <1>7, <1>10, <1>11, <1>13

(* Taking bytes from the front keeps what BackendOK says of the others.    *)
LEMMA RestOK ==
    ASSUME NEW b \in Backend, NEW c, BackendOK(b), c.status = b.status, c.size = b.size, b.status # "unborn",
           NEW n \in Nat, \A k \in 1..Len(c.buf) : n + k \in 1..Len(b.buf) /\ c.buf[k] = b.buf[n + k]
    PROVE  BackendOK(c)
  BY DEF BackendOK

LEMMA HeaderChannel ==
    ASSUME MemoryInv, MemoryInv', ChannelInv, NEW t \in Threads, ReadHeader(t)
    PROVE  LET b == mq[arg[t].q]  c == mq'[arg[t].q] IN
           /\ ChannelInv' /\ CriticalStep(t, "take_body") /\ stored' = stored
           /\ b.buf # <<>> /\ SizeT < Len(b.buf) /\ c.buf = SubSeq(b.buf, SizeT + 1, Len(b.buf))
           /\ c.buf # <<>> /\ c.buf[1].msg = b.buf[1].msg /\ c.no_writers = b.no_writers
           /\ \A u \in Threads \ {t} : pc'[u] = pc[u]
  <1> DEFINE q == arg[t].q  b == mq[q]  rest == SubSeq(b.buf, SizeT + 1, Len(b.buf))
             c == [b EXCEPT !.buf = rest]
  <1>1. /\ pc[t] = "take" /\ pc[t] \in Critical /\ stored' = stored
        /\ pc' = [pc EXCEPT ![t] = "take_body"] /\ "take_body" \in Label /\ "take_body" \in Critical
    BY DEF ReadHeader, Critical, Label
  <1>2. /\ q \in Queues /\ b \in Backend /\ b.buf \in Seq(Cell) /\ Len(b.buf) \in Nat
        /\ Whole(b.buf, stored[q], 1) /\ BackendOK(b) /\ b.status = "live" /\ CallOK("take", arg[t], b)
    BY <1>1, Inside
  <1>3. b.buf # <<>> /\ 1 \in 1..Len(b.buf)
    <2>1. b.buf # <<>>
      BY <1>2 DEF CallOK
    <2> QED BY <1>2, <2>1, EmptySeq
  <1> DEFINE w == b.buf[1].msg.len
  <1>4. w \in Nat \ {0}
    BY <1>2, <1>3, StoredLengths
  <1>5. /\ SizeAt(b) = {w} /\ SizeT < Len(b.buf)
        /\ b.buf[SizeT + 1].off = SizeT + 1 /\ b.buf[SizeT + 1].msg = b.buf[1].msg
    <2>1. w > 0
      BY <1>4
    <2> QED BY <1>2, <1>3, <2>1, FrontMessage
  <1>a. SizeT \in Nat /\ Len(b.buf) \in Nat /\ SizeT < Len(b.buf)
    BY <1>2, <1>5, SizeAssumption
  <1>6. ~(SizeT > Len(b.buf)) /\ SizeT \in 0..Len(b.buf)
    BY <1>a
  <1>7. /\ rest \in Seq(Cell) /\ Len(rest) = Len(b.buf) - SizeT
        /\ \A k \in 1..(Len(b.buf) - SizeT) : rest[k] = b.buf[SizeT + k]
        /\ Whole(rest, stored[q], SizeT + 1)
    BY <1>2, <1>5, <1>6, DropFront
  <1>8. ring_buffer_read(b, SizeT) = c
    BY <1>6 DEF ring_buffer_read
  <1>9. /\ c.buf = rest /\ c.status = b.status /\ c.size = b.size /\ c.mutex = b.mutex
        /\ c.no_writers = b.no_writers
    BY <1>2 DEF Backend
  <1>10. mq' = [mq EXCEPT ![q] = c] /\ arg' = [arg EXCEPT ![t].head = w]
    <2>1. mq' = [mq EXCEPT ![q] = c]
      BY <1>8 DEF ReadHeader
    <2>2. \E n \in SizeAt(b) : arg' = [arg EXCEPT ![t].head = IF SizeT > ring_buffer_used(b) THEN @ ELSE n]
      BY DEF ReadHeader
    <2> QED BY <1>5, <1>6, <2>1, <2>2 DEF ring_buffer_used
  <1>11. rest # <<>> /\ rest[1] = b.buf[SizeT + 1]
    <2>1. 1 \in 1..(Len(b.buf) - SizeT)
      BY <1>a
    <2> HIDE DEF rest
    <2>2. Len(rest) # 0
      BY <1>7, <2>1
    <2>3. rest # <<>>
      BY <2>2
    <2> QED BY <1>7, <2>1, <2>3
  <1> HIDE DEF c, rest
  <1>12. pc \in [Threads -> Label] /\ arg \in [Threads -> Arg] /\ mq \in [Queues -> Backend]
    BY DEF MemoryInv, TypeOK
  <1>13. arg'[t].q = q /\ arg'[t].len = arg[t].len /\ arg'[t].head = w
    BY <1>10, <1>12 DEF Arg
  <1>14. /\ pc'[t] = "take_body" /\ \A u \in Threads \ {t} : pc'[u] = pc[u] /\ arg'[u] = arg[u]
         /\ mq'[q] = c /\ \A x \in Queues \ {q} : mq'[x] = mq[x]
    BY <1>1, <1>2, <1>10, <1>12
  <1>15. CriticalStep(t, "take_body")
    BY <1>1, <1>9, <1>13, <1>14, NotWoken DEF CriticalStep, Others, Elsewhere
  <1>16. CallOK("take_body", arg'[t], mq'[q])
    BY <1>2, <1>5, <1>9, <1>11, <1>13, <1>14 DEF CallOK, WriteLabels, ReadLabels
  <1>17. BackendOK(c)
    <2>1. \A k \in 1..(Len(b.buf) - SizeT) : SizeT + k \in 1..Len(b.buf)
      BY <1>a
    <2>2. \A k \in 1..Len(c.buf) : SizeT + k \in 1..Len(b.buf) /\ c.buf[k] = b.buf[SizeT + k]
      BY <1>7, <1>9, <2>1
    <2> QED BY <1>2, <1>9, <2>2, RestOK, SizeAssumption
  <1>18. ChannelInv'
    BY <1>1, <1>7, <1>9, <1>14, <1>15, <1>16, <1>17, CriticalInv
  <1> QED BY <1>1, <1>3, <1>5, <1>9, <1>11, <1>14, <1>15, <1>18 DEF rest

LEMMA SignalWakes ==
    ASSUME MemoryInv, NEW q, NEW pcs,
           \/ pcs \in SignalWriter(q) \/ pcs \in SignalReader(q)
    PROVE  pcs \in [Threads -> Label] /\ \A u \in Threads : Woken(pc[u], pcs[u])
  <1>1. pc \in [Threads -> Label] /\ "write_relock" \in Label /\ "read_lock" \in Label
    BY DEF MemoryInv, TypeOK, Label, LockLabels
  <1>2. CASE pcs \in SignalWriter(q)
    BY <1>1, <1>2, SignalEffect DEF SignalWriter, Woken
  <1>3. CASE pcs \in SignalReader(q)
    BY <1>1, <1>3, SignalEffect DEF SignalReader, Woken
  <1> QED BY <1>2, <1>3

LEMMA BodyChannel ==
    ASSUME MemoryInv, MemoryInv', ChannelInv, NEW t \in Threads, ReadBody(t)
    PROVE  LET q == arg[t].q  b == mq[q]  c == mq'[q]  m == b.buf[1].msg IN
           /\ ChannelInv' /\ CriticalStep(t, "wakeup") /\ stored' = stored /\ pc[t] = "take_body"
           /\ b.buf # <<>> /\ m \in Msg /\ m.len > 0 /\ m.len \in 1..Len(b.buf)
           /\ c.buf = SubSeq(b.buf, m.len + 1, Len(b.buf)) /\ c.no_writers = b.no_writers
           /\ Whole(b.buf, stored[q], SizeT + 1)
           /\ rcvd' = [rcvd EXCEPT ![q] = Append(@, m)]
           /\ \E pcs \in SignalWriter(q) : \A u \in Threads \ {t} : pc'[u] = pcs[u]
  <1> DEFINE q == arg[t].q  b == mq[q]  m == b.buf[1].msg  n == m.len
             rest == SubSeq(b.buf, n + 1, Len(b.buf))
             d == [b EXCEPT !.buf = rest]
  <1>1. pc[t] = "take_body" /\ pc[t] \in Critical /\ stored' = stored
    BY DEF ReadBody, Critical
  <1>2. /\ q \in Queues /\ b \in Backend /\ b.buf \in Seq(Cell) /\ Len(b.buf) \in Nat
        /\ Whole(b.buf, stored[q], SizeT + 1) /\ BackendOK(b) /\ b.status = "live"
        /\ CallOK("take_body", arg[t], b)
    BY <1>1, Inside
  <1>3. b.buf # <<>> /\ arg[t].head = n
    BY <1>2 DEF CallOK
  <1>4. 1 \in 1..Len(b.buf)
    BY <1>2, <1>3, EmptySeq
  <1>5. n \in Nat \ {0}
    BY <1>2, <1>4, StoredLengths
  <1>6. n > 0
    BY <1>5
  <1>7. /\ m \in Msg /\ n \in 1..Len(b.buf) /\ Received(b, n) = m
        /\ n < Len(b.buf) => b.buf[n + 1].off = 1
    <2>1. BodyFirst(b, m, stored[q])
      BY <1>2, <1>3, <1>6, FrontBody
    <2> QED BY <2>1 DEF BodyFirst
  <1>8. ~(n > Len(b.buf)) /\ n \in 0..Len(b.buf)
    <2> HIDE DEF n
    <2> QED BY <1>2, <1>5, <1>7
  <1>9. /\ rest \in Seq(Cell) /\ Len(rest) = Len(b.buf) - n
        /\ \A k \in 1..(Len(b.buf) - n) : rest[k] = b.buf[n + k]
        /\ Whole(rest, stored[q], 1)
    BY <1>2, <1>7, <1>8, DropFront
  <1>10. ring_buffer_read(b, arg[t].head) = d
    BY <1>3, <1>8 DEF ring_buffer_read
  <1>11. PICK pcs \in SignalWriter(q) : BeginWakeup(t, pcs, "MSG", [d EXCEPT !.queue_event = ReadEvents(d)])
    BY <1>10 DEF ReadBody
  <1>12. rcvd' = [rcvd EXCEPT ![q] = Append(@, m)]
    BY <1>3, <1>7 DEF ReadBody
  <1> DEFINE c == [d EXCEPT !.queue_event = ReadEvents(d)]
  <1>13. /\ c.buf = rest /\ c.status = b.status /\ c.size = b.size /\ c.mutex = b.mutex
         /\ c.no_writers = b.no_writers
    <2> HIDE DEF rest
    <2>1. \A e : LET f == [d EXCEPT !.queue_event = e] IN
             /\ f.buf = rest /\ f.status = b.status /\ f.size = b.size /\ f.mutex = b.mutex
             /\ f.no_writers = b.no_writers
      BY <1>2 DEF Backend
    <2> QED BY <2>1
  <1> HIDE DEF c, d, rest
  <1>14. pcs \in [Threads -> Label] /\ \A u \in Threads : Woken(pc[u], pcs[u])
    BY <1>11, SignalWakes
  <1>15. /\ CriticalStep(t, "wakeup") /\ mq'[q] = c /\ \A a, e : CallOK("wakeup", a, e)
         /\ \A u \in Threads \ {t} : pc'[u] = pcs[u]
    <2>1. BeginWakeup(t, pcs, "MSG", c)
      BY <1>11 DEF c
    <2> QED BY <1>1, <1>13, <1>14, <2>1, WakeupShape
  <1>16. BackendOK(c)
    <2>1. \A k \in 1..(Len(b.buf) - n) : n + k \in 1..Len(b.buf)
      <3> HIDE DEF n
      <3> QED BY <1>2, <1>5
    <2>2. \A k \in 1..Len(c.buf) : n + k \in 1..Len(b.buf) /\ c.buf[k] = b.buf[n + k]
      BY <1>9, <1>13, <2>1
    <2> QED BY <1>2, <1>5, <1>13, <2>2, RestOK
  <1>17. ChannelInv'
    BY <1>1, <1>9, <1>13, <1>15, <1>16, CriticalInv
  <1> QED BY <1>1, <1>2, <1>3, <1>6, <1>7, <1>11, <1>12, <1>13, <1>15, <1>17 DEF rest

LEMMA PutChannel ==
    ASSUME MemoryInv, MemoryInv', ChannelInv, LengthsDontWrap, NEW t \in Threads, WritePut(t)
    PROVE  LET q == arg[t].q  b == mq[q]  c == mq'[q]
               m == [id |-> stored[q] + 1, len |-> arg[t].len] IN
           /\ ChannelInv' /\ (CriticalStep(t, "idle") \/ CriticalStep(t, "wakeup"))
           /\ pc[t] \in {"write", "write_loop"} /\ arg[t].len \in WriteLens
           /\ stored' = [stored EXCEPT ![q] = @ + 1]
           /\ m \in Msg /\ m.len > 0 /\ Whole(b.buf, stored[q], 1)
           /\ c.buf = Extended(b.buf, m) /\ c.no_writers = b.no_writers
           /\ \E pcs \in SignalReader(q) : \A u \in Threads \ {t} : pc'[u] = pcs[u]
  <1> DEFINE q == arg[t].q  b == mq[q]  n == arg[t].len  m == [id |-> stored[q] + 1, len |-> n]
             full == Extended(b.buf, m)
             d == [b EXCEPT !.buf = full]
  <1>1. Accepted(t) /\ HasSpace(b, n) /\ stored' = [stored EXCEPT ![q] = @ + 1]
    BY DEF WritePut
  <1>2. /\ pc[t] \in {"write", "write_loop"} /\ pc[t] \in Critical /\ pc[t] # "take_body"
        /\ n \in WriteLens /\ n \in Nat \ {0} /\ Needed(n) = SizeT + n /\ SizeT + n < b.size
    BY <1>1, AcceptedFits
  <1>3. /\ q \in Queues /\ b \in Backend /\ b.buf \in Seq(Cell) /\ Len(b.buf) \in Nat /\ b.size \in Nat
        /\ Whole(b.buf, stored[q], 1) /\ BackendOK(b) /\ b.status = "live" /\ stored[q] \in Nat
    BY <1>2, Inside
  <1>4. m \in Msg /\ m.id = stored[q] + 1 /\ m.len = n
    BY <1>2, <1>3 DEF Msg
  <1>5. b.size - Len(b.buf) >= SizeT + n
    BY <1>1, <1>2 DEF HasSpace, ring_buffer_free
  <1> HIDE DEF m
  <1>a. m.len > 0
    BY <1>2, <1>4
  <1>6. /\ full \in Seq(Cell) /\ full # <<>> /\ Len(full) = Len(b.buf) + (SizeT + n)
        /\ \A k \in 1..Len(b.buf) : full[k] = b.buf[k]
        /\ \A j \in 1..(SizeT + n) : full[Len(b.buf) + j].msg = m /\ full[Len(b.buf) + j].off = j
        /\ Whole(full, stored[q] + 1, 1)
    <2> HIDE DEF n, b
    <2>1. b.buf \in Seq(Cell) /\ stored[q] \in Nat /\ Whole(b.buf, stored[q], 1) /\ m \in Msg
          /\ m.id = stored[q] + 1
      BY <1>3, <1>4
    <2>2. /\ full \in Seq(Cell) /\ full # <<>> /\ Len(full) = Len(b.buf) + (SizeT + m.len)
          /\ \A k \in 1..Len(b.buf) : full[k] = b.buf[k]
          /\ \A j \in 1..(SizeT + m.len) : full[Len(b.buf) + j].msg = m /\ full[Len(b.buf) + j].off = j
          /\ Whole(full, stored[q] + 1, 1)
      <3>1. \A buf \in Seq(Cell), last \in Nat, x \in Msg :
               Whole(buf, last, 1) /\ x.id = last + 1 /\ x.len > 0 =>
                  LET new == Extended(buf, x) IN
                  /\ new \in Seq(Cell) /\ new # <<>> /\ Len(new) = Len(buf) + (SizeT + x.len)
                  /\ \A k \in 1..Len(buf) : new[k] = buf[k]
                  /\ \A j \in 1..(SizeT + x.len) : new[Len(buf) + j].msg = x /\ new[Len(buf) + j].off = j
                  /\ Whole(new, last + 1, 1)
        BY AppendMessage
      <3> QED BY <1>a, <2>1, <3>1, Zenon
    <2> QED BY <1>4, <2>2
  <1>7. ring_buffer_write(ring_buffer_write(b, HeaderOf(m)), BodyOf(m)) = d
    <2>1. HeaderOf(m) \in Seq(Cell) /\ BodyOf(m) \in Seq(Cell) /\ Len(HeaderOf(m)) = SizeT /\ Len(BodyOf(m)) = n
      BY <1>2, <1>4, MessageTypes, SizeAssumption DEF HeaderOf, BodyOf
    <2>2. ~(SizeT > b.size - Len(b.buf)) /\ ~(n > b.size - (Len(b.buf) + SizeT))
      <3> HIDE DEF n, b
      <3> QED BY <1>2, <1>3, <1>5, SizeAssumption
    <2> DEFINE f == [b EXCEPT !.buf = b.buf \o HeaderOf(m)]
    <2>3. ring_buffer_write(b, HeaderOf(m)) = f
      BY <2>1, <2>2 DEF ring_buffer_write, ring_buffer_free
    <2>4. f.buf = b.buf \o HeaderOf(m) /\ f.size = b.size
      BY <1>3 DEF Backend
    <2>5. Len(b.buf \o HeaderOf(m)) = Len(b.buf) + SizeT
      BY <1>3, <2>1, ConcatProperties
    <2>7. ring_buffer_write(f, BodyOf(m)) = [f EXCEPT !.buf = @ \o BodyOf(m)]
      BY <2>1, <2>2, <2>4, <2>5 DEF ring_buffer_write, ring_buffer_free
    <2>8. [f EXCEPT !.buf = @ \o BodyOf(m)] = d
      BY <1>3, <2>4 DEF Backend, Extended
    <2> QED BY <2>3, <2>7, <2>8
  <1> HIDE DEF full
  <1>8. /\ d.buf = full /\ d.status = b.status /\ d.size = b.size /\ d.mutex = b.mutex
        /\ d.no_writers = b.no_writers /\ mutex_unlock(d).no_writers = b.no_writers
        /\ mutex_unlock(d).buf = full /\ mutex_unlock(d).status = b.status /\ mutex_unlock(d).size = b.size
        /\ mutex_unlock(d).mutex = None
        /\ \A e : LET f == [d EXCEPT !.queue_event = e] IN
              /\ f.buf = full /\ f.status = b.status /\ f.size = b.size /\ f.mutex = b.mutex
              /\ f.no_writers = b.no_writers
    BY <1>3 DEF Backend, mutex_unlock
  <1>9. PICK pcs \in SignalReader(q) :
           \/ /\ mq' = [mq EXCEPT ![q] = mutex_unlock(d)] /\ pc' = [pcs EXCEPT ![t] = "idle"]
              /\ arg' = [arg EXCEPT ![t] = NoArg]
           \/ BeginWakeup(t, pcs, "OK", [d EXCEPT !.queue_event = WriteEvents(d)])
    BY <1>7 DEF WritePut, Leave, m
  <1>10. pcs \in [Threads -> Label] /\ \A u \in Threads : Woken(pc[u], pcs[u])
    BY <1>9, SignalWakes
  <1> HIDE DEF d
  <1>11. /\ \A x \in Queues \ {q} : stored'[x] = stored[x]
         /\ stored'[q] = stored[q] + 1
    BY <1>1, <1>3 DEF MemoryInv, TypeOK
  <1>12. ASSUME NEW c, c.buf = full, c.status = b.status, c.size = b.size PROVE BackendOK(c)
    <2>1. ASSUME NEW k \in 1..(Len(b.buf) + (SizeT + n))
          PROVE  full[k].msg.len \in WriteLens /\ SizeT + full[k].msg.len < b.size
      <3>1. CASE k \in 1..Len(b.buf)
        BY <1>3, <1>6, <3>1 DEF BackendOK
      <3>2. CASE k \notin 1..Len(b.buf)
        <4>a. Len(b.buf) \in Nat /\ SizeT + n \in Nat
          BY <1>2, <1>3, SizeAssumption
        <4>1. k - Len(b.buf) \in 1..(SizeT + n) /\ Len(b.buf) + (k - Len(b.buf)) = k
          BY <3>2, <4>a
        <4>2. full[k].msg = m
          BY <1>6, <4>1
        <4> QED BY <1>2, <1>4, <4>2
      <3> QED BY <3>1, <3>2
    <2>2. c.status # "unborn" /\ c.size \in {x.capacity : x \in CreateCalls}
      BY <1>3, <1>12 DEF BackendOK
    <2> QED BY <1>6, <1>12, <2>1, <2>2 DEF BackendOK
  <1>13. CASE /\ mq' = [mq EXCEPT ![q] = mutex_unlock(d)] /\ pc' = [pcs EXCEPT ![t] = "idle"]
              /\ arg' = [arg EXCEPT ![t] = NoArg]
    <2>1. "idle" \in Label /\ "idle" \notin Critical
      BY DEF Label, Critical
    <2>2. CriticalStep(t, "idle") /\ mq'[q] = mutex_unlock(d)
      <3>1. mq \in [Queues -> Backend] /\ arg \in [Threads -> Arg]
        BY DEF MemoryInv, TypeOK
      <3>2. /\ mq'[q] = mutex_unlock(d) /\ pc'[t] = "idle" /\ arg'[t] = NoArg
            /\ \A x \in Queues \ {q} : mq'[x] = mq[x]
            /\ \A u \in Threads \ {t} : pc'[u] = pcs[u] /\ arg'[u] = arg[u]
        BY <1>3, <1>10, <1>13, <3>1
      <3> QED BY <1>2, <1>8, <1>10, <1>11, <2>1, <3>2 DEF CriticalStep, Others, Elsewhere
    <2>3. ChannelInv'
      BY <1>6, <1>8, <1>11, <1>12, <2>2, CriticalInv
    <2>4. \A u \in Threads \ {t} : pc'[u] = pcs[u]
      BY <1>10, <1>13
    <2> QED BY <1>1, <1>2, <1>3, <1>4, <1>a, <1>8, <1>9, <2>2, <2>3, <2>4 DEF full, m
  <1>14. CASE BeginWakeup(t, pcs, "OK", [d EXCEPT !.queue_event = WriteEvents(d)])
    <2> DEFINE c == [d EXCEPT !.queue_event = WriteEvents(d)]
    <2>1. /\ c.buf = full /\ c.status = b.status /\ c.size = b.size /\ c.mutex = b.mutex
          /\ c.no_writers = b.no_writers
      BY <1>8
    <2>2. BeginWakeup(t, pcs, "OK", c)
      BY <1>14
    <2> HIDE DEF c
    <2>3. /\ CriticalStep(t, "wakeup") /\ mq'[q] = c /\ \A a, e : CallOK("wakeup", a, e)
          /\ \A u \in Threads \ {t} : pc'[u] = pcs[u]
      BY <1>2, <1>10, <1>11, <2>1, <2>2, WakeupShape
    <2>4. ChannelInv'
      BY <1>6, <1>11, <1>12, <2>1, <2>3, CriticalInv
    <2> QED BY <1>1, <1>2, <1>3, <1>4, <1>a, <1>9, <2>1, <2>3, <2>4 DEF full, m
  <1> QED BY <1>9, <1>13, <1>14

-----------------------------------------------------------------------------
(* ChannelInv is inductive.                                                *)
LEMMA ChannelInit == Init => ChannelInv
  <1> SUFFICES ASSUME Init PROVE ChannelInv
    OBVIOUS
  <1>1. /\ \A q \in Queues : mq[q].mutex = None /\ mq[q].buf = <<>> /\ mq[q].status = "unborn"
        /\ \A t \in Threads : pc[t] = "idle" /\ arg[t].q = None
    BY DEF Init, Unborn, mq_init, NoArg
  <1>2. LockDiscipline
    BY <1>1, NoneAssumption DEF LockDiscipline, Critical
  <1>3. Len(<<>>) = 0 /\ 1..0 = {}
    OBVIOUS
  <1>4. WholeMessages
    BY <1>1, <1>3 DEF WholeMessages, Whole
  <1>5. \A q \in Queues : BackendOK(mq[q])
    BY <1>1, <1>3 DEF BackendOK
  <1> QED BY <1>1, <1>2, <1>4, <1>5 DEF ChannelInv

LEMMA ChannelStep ==
    ReadersHaveRoom /\ LengthsDontWrap /\ MemoryInv /\ ChannelInv /\ [Next]_vars => ChannelInv'
  <1> SUFFICES ASSUME ReadersHaveRoom, LengthsDontWrap, MemoryInv, ChannelInv, [Next]_vars PROVE ChannelInv'
    OBVIOUS
  <1>0. MemoryInv'
    BY MemoryStep
  <1>1. CASE Call
    BY <1>0, <1>1, CallChannel
  <1>2. ASSUME NEW t \in Threads, Lock(t) \/ Progress(t) \/ SpuriousWakeup(t) PROVE ChannelInv'
    <2>1. CASE Lock(t)
      BY <1>0, <2>1, LockChannel
    <2>2. CASE SpuriousWakeup(t)
      BY <1>0, <2>2, SpuriousChannel
    <2>3. CASE OpenBody(t)
      BY <1>0, <2>3, OpenChannel
    <2>4. CASE CloseBody(t)
      BY <1>0, <2>4, CloseChannel
    <2>5. CASE Destroy(t)
      BY <1>0, <2>5, DestroyChannel
    <2>6. CASE EndWakeup(t) \/ WriteReject(t)
      BY <1>0, <2>6, EndChannel
    <2>7. CASE ReadEof(t)
      BY <1>0, <2>7, EofChannel
    <2>8. CASE ReadEmpty(t)
      BY <1>0, <2>8, EmptyChannel
    <2>9. CASE ReadPeek(t)
      BY <1>0, <2>9, PeekChannel
    <2>10. CASE ReadHeader(t)
      BY <1>0, <2>10, HeaderChannel
    <2>11. CASE ReadBody(t)
      BY <1>0, <2>11, BodyChannel
    <2>12. CASE WriteWait(t)
      BY <1>0, <2>12, WaitChannel
    <2>13. CASE WritePut(t)
      BY <1>0, <2>13, PutChannel
    <2> QED BY <1>2, <2>1, <2>2, <2>3, <2>4, <2>5, <2>6, <2>7, <2>8, <2>9, <2>10, <2>11, <2>12, <2>13
            DEF Progress
  <1>3. CASE UNCHANGED vars
    BY <1>0, <1>3, RefuseChannel DEF vars
  <1> QED BY <1>1, <1>2, <1>3 DEF Next

(* When readers have room for any message and lengths do not wrap, every   *)
(* critical section of msg_queue.c is exclusive and every unlock frees the *)
(* caller's own mutex, and the two ring_buffer_writes of a message are     *)
(* never torn apart: neither fails, although their results are ignored.    *)
THEOREM MessagesWhole ==
    ASSUME ReadersHaveRoom, LengthsDontWrap
    PROVE  Spec => [](LockDiscipline /\ WholeMessages)
  <1>1. Init => MemoryInv /\ ChannelInv
    BY MemoryInit, ChannelInit
  <1>2. MemoryInv /\ ChannelInv /\ [Next]_vars => (MemoryInv /\ ChannelInv)'
    BY MemoryStep, ChannelStep
  <1>3. MemoryInv /\ ChannelInv => LockDiscipline /\ WholeMessages
    BY DEF ChannelInv
  <1> QED BY <1>1, <1>2, <1>3, PTL DEF Spec

-----------------------------------------------------------------------------
(* A set of messages numbered from first to last, and the sequence of them *)
(* in the order of their numbers.                                          *)
Listed(ms, first, last) ==
    /\ ms \subseteq Msg /\ last \in Nat /\ first \in 1..(last + 1)
    /\ \A m \in ms : m.id \in first..last
    /\ \A m, n \in ms : m.id = n.id => m = n
    /\ \A i \in first..last : \E m \in ms : m.id = i
ById(ms, i) == IF \E m \in ms : m.id = i THEN CHOOSE m \in ms : m.id = i ELSE None
InOrder(ms, first, last) == [k \in 1..(last + 1 - first) |-> ById(ms, first + k - 1)]

LEMMA ByIdIs ==
    ASSUME NEW ms, NEW first, NEW last, Listed(ms, first, last), NEW m \in ms
    PROVE  ById(ms, m.id) = m
  <1>1. \E n \in ms : n.id = m.id
    OBVIOUS
  <1>2. (CHOOSE n \in ms : n.id = m.id) \in ms /\ (CHOOSE n \in ms : n.id = m.id).id = m.id
    BY <1>1
  <1> QED BY <1>1, <1>2 DEF ById, Listed

LEMMA InOrderSeq ==
    ASSUME NEW ms, NEW first, NEW last, Listed(ms, first, last)
    PROVE  /\ InOrder(ms, first, last) \in Seq(Msg)
           /\ Len(InOrder(ms, first, last)) = last + 1 - first
           /\ \A k \in 1..(last + 1 - first) : InOrder(ms, first, last)[k] = ById(ms, first + k - 1)
  <1> DEFINE n == last + 1 - first  s == InOrder(ms, first, last)
  <1>1. n \in Nat /\ first \in Nat /\ last \in Nat
    BY DEF Listed
  <1>2. ASSUME NEW k \in 1..n PROVE ById(ms, first + k - 1) \in Msg
    <2>1. first + k - 1 \in first..last
      BY <1>1
    <2>2. PICK m \in ms : m.id = first + k - 1
      BY <2>1 DEF Listed
    <2>3. ById(ms, m.id) = m
      BY ByIdIs
    <2> QED BY <2>2, <2>3 DEF Listed
  <1>3. s = [k \in 1..n |-> ById(ms, first + k - 1)]
    BY DEF InOrder
  <1> HIDE DEF n, s
  <1>4. s \in Seq(Msg)
    BY <1>1, <1>2, <1>3, IsASeq
  <1>5. Len(s) = n
    BY <1>1, <1>3, <1>4
  <1> QED BY <1>3, <1>4, <1>5 DEF n, s

(* Storing the next message.                                               *)
LEMMA ListAppend ==
    ASSUME NEW ms, NEW first, NEW last, Listed(ms, first, last), NEW m \in Msg, m.id = last + 1
    PROVE  /\ Listed(ms \cup {m}, first, last + 1)
           /\ InOrder(ms \cup {m}, first, last + 1) = Append(InOrder(ms, first, last), m)
  <1> DEFINE more == ms \cup {m}  s == InOrder(ms, first, last)  r == InOrder(more, first, last + 1)
             n == last + 1 - first
  <1>1. n \in Nat /\ first \in Nat /\ last \in Nat /\ first >= 1 /\ first <= last + 1
    BY DEF Listed
  <1>2. Listed(more, first, last + 1)
    <2>1. \A x \in ms : x.id \in first..last /\ x.id # last + 1
      BY <1>1 DEF Listed
    <2>2. \A i \in first..(last + 1) : i = last + 1 \/ i \in first..last
      BY <1>1
    <2>3. first \in 1..(last + 1 + 1) /\ last + 1 \in Nat /\ last + 1 \in first..(last + 1)
          /\ \A i \in first..last : i \in first..(last + 1)
      BY <1>1
    <2>4. more \subseteq Msg
      BY DEF Listed
    <2>5. \A x \in more : x.id \in first..(last + 1)
      BY <2>1, <2>3
    <2>6. \A x, y \in more : x.id = y.id => x = y
      BY <2>1 DEF Listed
    <2>7. \A i \in first..(last + 1) : \E x \in more : x.id = i
      BY <2>2 DEF Listed
    <2> QED BY <2>3, <2>4, <2>5, <2>6, <2>7 DEF Listed
  <1>3. /\ s \in Seq(Msg) /\ Len(s) = n /\ \A k \in 1..n : s[k] = ById(ms, first + k - 1)
    BY InOrderSeq
  <1>4. /\ r \in Seq(Msg) /\ Len(r) = n + 1 /\ \A k \in 1..(n + 1) : r[k] = ById(more, first + k - 1)
    <2>1. last + 1 + 1 - first = n + 1
      BY <1>1
    <2>2. /\ r \in Seq(Msg) /\ Len(r) = last + 1 + 1 - first
          /\ \A k \in 1..(last + 1 + 1 - first) : r[k] = ById(more, first + k - 1)
      <3> HIDE DEF more
      <3> QED BY <1>2, InOrderSeq
    <2> HIDE DEF n, r
    <2> QED BY <2>1, <2>2
  <1>5. /\ Append(s, m) \in Seq(Msg) /\ Len(Append(s, m)) = n + 1
        /\ Append(s, m)[n + 1] = m /\ \A k \in 1..n : Append(s, m)[k] = s[k]
    <2> HIDE DEF s, n
    <2> QED BY <1>1, <1>3, AppendProperties
  <1>6. ASSUME NEW k \in 1..(n + 1) PROVE r[k] = Append(s, m)[k]
    <2>1. CASE k = n + 1
      <3>1. first + k - 1 = m.id
        BY <1>1, <2>1
      <3>2. ById(more, m.id) = m
        BY <1>2, ByIdIs
      <3>3. n + 1 \in 1..(n + 1)
        BY <1>1
      <3> HIDE DEF n, r, s, more
      <3> QED BY <1>4, <1>5, <2>1, <3>1, <3>2, <3>3
    <2>2. CASE k # n + 1
      <3>1. k \in 1..n /\ first + k - 1 \in first..last
        BY <1>1, <2>2
      <3>2. PICK x \in ms : x.id = first + k - 1
        BY <3>1 DEF Listed
      <3>3. ById(ms, x.id) = x
        BY ByIdIs
      <3>4. ById(more, x.id) = x
        BY <1>2, ByIdIs
      <3> QED BY <1>3, <1>4, <1>5, <3>1, <3>2, <3>3, <3>4
    <2> QED BY <2>1, <2>2
  <1> HIDE DEF s, r, n, more
  <1>7. r = Append(s, m)
    BY <1>4, <1>5, <1>6, SeqEqual
  <1> QED BY <1>2, <1>7 DEF r, s, more

(* Taking the first message.                                               *)
Taken(ms, m, last) ==
    /\ Listed(ms \ {m}, m.id + 1, last)
    /\ InOrder(ms, m.id, last) # <<>>
    /\ Head(InOrder(ms, m.id, last)) = m
    /\ InOrder(ms \ {m}, m.id + 1, last) = Tail(InOrder(ms, m.id, last))

LEMMA ListTake ==
    ASSUME NEW ms, NEW last, NEW m \in ms, Listed(ms, m.id, last)
    PROVE  Taken(ms, m, last)
  <1>0. PICK first : first = m.id /\ Listed(ms, first, last)
    OBVIOUS
  <1> DEFINE less == ms \ {m}  s == InOrder(ms, first, last)  r == InOrder(less, first + 1, last)
             n == last + 1 - first
  <1>1. n \in Nat \ {0} /\ first \in Nat /\ last \in Nat /\ first >= 1 /\ first <= last
    BY <1>0 DEF Listed
  <1>2. Listed(less, first + 1, last)
    <2>1. \A x \in less : x.id \in first..last /\ x.id # first
      BY <1>0 DEF Listed
    <2>2. \A x \in less : x.id \in (first + 1)..last
      BY <1>1, <2>1
    <2>3. first + 1 \in 1..(last + 1)
          /\ \A i \in (first + 1)..last : i \in first..last /\ i # first
      BY <1>1
    <2>4. \A i \in (first + 1)..last : \E x \in less : x.id = i
      BY <1>0, <2>3 DEF Listed
    <2> QED BY <1>0, <2>2, <2>3, <2>4 DEF Listed
  <1>3. /\ s \in Seq(Msg) /\ Len(s) = n /\ \A k \in 1..n : s[k] = ById(ms, first + k - 1)
    BY <1>0, InOrderSeq
  <1>4. /\ r \in Seq(Msg) /\ Len(r) = n - 1 /\ \A k \in 1..(n - 1) : r[k] = ById(less, (first + 1) + k - 1)
    <2>1. last + 1 - (first + 1) = n - 1
      BY <1>1
    <2>2. /\ r \in Seq(Msg) /\ Len(r) = last + 1 - (first + 1)
          /\ \A k \in 1..(last + 1 - (first + 1)) : r[k] = ById(less, (first + 1) + k - 1)
      <3> HIDE DEF less
      <3> QED BY <1>2, InOrderSeq
    <2> HIDE DEF n, r
    <2> QED BY <2>1, <2>2
  <1> HIDE DEF s, n, r
  <1>5. s # <<>>
    BY <1>1, <1>3, EmptySeq
  <1>6. Tail(s) \in Seq(Msg) /\ Len(Tail(s)) = n - 1 /\ \A k \in 1..(n - 1) : Tail(s)[k] = s[k + 1]
    BY <1>3, <1>5, HeadTailProperties
  <1>7. Head(s) = m
    <2>1. 1 \in 1..n /\ first + 1 - 1 = m.id
      BY <1>0, <1>1
    <2>2. s[1] = m
      BY <1>0, <1>3, <2>1, ByIdIs
    <2> QED BY <1>3, <1>5, <2>2
  <1>8. ASSUME NEW k \in 1..(n - 1) PROVE r[k] = Tail(s)[k]
    <2>1. k + 1 \in 1..n /\ first + (k + 1) - 1 = (first + 1) + k - 1 /\ first + (k + 1) - 1 \in (first + 1)..last
      BY <1>1 DEF n
    <2>2. PICK x \in less : x.id = first + (k + 1) - 1
      BY <1>2, <2>1 DEF Listed
    <2>3. ById(ms, x.id) = x
      BY <1>0, ByIdIs
    <2>4. ById(less, x.id) = x
      BY <1>2, ByIdIs
    <2> QED BY <1>3, <1>4, <1>6, <2>1, <2>2, <2>3, <2>4
  <1>9. r = Tail(s)
    BY <1>4, <1>6, <1>8, SeqEqual
  <1> QED BY <1>0, <1>2, <1>5, <1>7, <1>9 DEF r, s, Taken

-----------------------------------------------------------------------------
(* The messages with a byte in the ring buffer are numbered from the front *)
(* one to the latest, and come in the order of their numbers.              *)
Msgs(buf) == {buf[k].msg : k \in 1..Len(buf)}
First(buf, last) == IF buf = <<>> THEN last + 1 ELSE buf[1].msg.id
Rising(buf) == \A i, j \in 1..Len(buf) : i <= j => buf[i].msg.id <= buf[j].msg.id
Ids(buf, last) == Listed(Msgs(buf), First(buf, last), last) /\ Rising(buf)
Flight(buf, last) == InOrder(Msgs(buf), First(buf, last), last)

LEMMA PutIds ==
    ASSUME NEW buf \in Seq(Cell), NEW last \in Nat, Whole(buf, last, 1), Ids(buf, last),
           NEW m \in Msg, m.id = last + 1, m.len > 0, NEW full, full = Extended(buf, m)
    PROVE  Ids(full, last + 1) /\ Flight(full, last + 1) = Append(Flight(buf, last), m)
  <1> DEFINE L == Len(buf)  n == SizeT + m.len
  <1>1. /\ full \in Seq(Cell) /\ full # <<>> /\ Len(full) = L + n
        /\ \A k \in 1..L : full[k] = buf[k]
        /\ \A j \in 1..n : full[L + j].msg = m
    BY AppendMessage
  <1>2. L \in Nat /\ n \in Nat \ {0} /\ \A k \in 1..L : buf[k].msg.id \in Nat
    <2>1. L \in Nat /\ \A k \in 1..L : buf[k].msg.id \in Nat
      BY CellParts
    <2>2. m.len \in Nat
      BY DEF Msg
    <2>3. n \in Nat \ {0}
      BY <2>2, SizeAssumption
    <2> QED BY <2>1, <2>3
  <1>3. \A k \in 1..L : buf[k].msg \in Msgs(buf) /\ buf[k].msg.id <= last
    <2>1. \A k \in 1..L : buf[k].msg \in Msgs(buf)
      BY DEF Msgs
    <2>2. \A x \in Msgs(buf) : x.id <= last
      BY DEF Ids, Listed
    <2> QED BY <2>1, <2>2
  <1> HIDE DEF L, n
  <1>4. \A k \in 1..(L + n) : k \in 1..L \/ (k > L /\ k - L \in 1..n /\ L + (k - L) = k)
    BY <1>2
  <1>5. \A k \in 1..(L + n) : IF k \in 1..L THEN full[k] = buf[k] ELSE full[k].msg = m
    BY <1>1, <1>4
  <1>6. Msgs(full) = Msgs(buf) \cup {m}
    <2>1. \A k \in 1..L : k \in 1..(L + n)
      BY <1>2
    <2>2. L + n \in 1..(L + n) /\ L + n \notin 1..L
      BY <1>2
    <2>3. Msgs(full) = {full[k].msg : k \in 1..(L + n)} /\ Msgs(buf) = {buf[k].msg : k \in 1..L}
      BY <1>1 DEF Msgs, L
    <2> QED BY <1>5, <2>1, <2>2, <2>3
  <1>7. First(full, last + 1) = First(buf, last)
    <2>1. CASE buf = <<>>
      <3>1. L = 0
        BY <2>1 DEF L
      <3>2. 1 \in 1..(L + n) /\ 1 \notin 1..L
        BY <1>2, <3>1
      <3> QED BY <1>1, <1>5, <2>1, <3>2 DEF First
    <2>2. CASE buf # <<>>
      <3>1. 1 \in 1..L
        BY <2>2, EmptySeq DEF L
      <3> QED BY <1>1, <2>2, <3>1 DEF First
    <2> QED BY <2>1, <2>2
  <1>8. Rising(full)
    <2> SUFFICES ASSUME NEW i \in 1..(L + n), NEW j \in 1..(L + n), i <= j
                 PROVE  full[i].msg.id <= full[j].msg.id
      BY <1>1 DEF Rising
    <2>1. CASE j \in 1..L
      <3>1. i \in 1..L
        BY <1>2, <2>1
      <3> QED BY <1>5, <2>1, <3>1 DEF Ids, Rising, L
    <2>2. CASE j \notin 1..L
      <3>1. full[j].msg.id = last + 1
        BY <1>5, <2>2
      <3>2. full[i].msg.id \in Nat /\ full[i].msg.id <= last + 1
        <4>1. CASE i \in 1..L
          BY <1>2, <1>3, <1>5, <4>1
        <4>2. CASE i \notin 1..L
          BY <1>5, <4>2
        <4> QED BY <4>1, <4>2
      <3> QED BY <3>1, <3>2
    <2> QED BY <2>1, <2>2
  <1> DEFINE ms == Msgs(buf)  f == First(buf, last)
  <1>9. Listed(ms, f, last)
    BY DEF Ids
  <1> HIDE DEF ms, f
  <1>10. Listed(ms \cup {m}, f, last + 1) /\ InOrder(ms \cup {m}, f, last + 1) = Append(InOrder(ms, f, last), m)
    <2>1. \A a, l, i : Listed(a, i, l) /\ m.id = l + 1 =>
             Listed(a \cup {m}, i, l + 1) /\ InOrder(a \cup {m}, i, l + 1) = Append(InOrder(a, i, l), m)
      BY ListAppend
    <2> QED BY <1>9, <2>1, Zenon
  <1> QED BY <1>6, <1>7, <1>8, <1>10 DEF Ids, Flight, ms, f

(* Dropping bytes from the front keeps the order of the rest.              *)
Suffix(rest, buf, n) ==
    /\ rest \in Seq(Cell) /\ Len(rest) = Len(buf) - n
    /\ \A k \in 1..(Len(buf) - n) : rest[k] = buf[n + k] /\ n + k \in 1..Len(buf)

LEMMA DropCells ==
    ASSUME NEW buf \in Seq(Cell), NEW n \in 0..Len(buf)
    PROVE  /\ Suffix(SubSeq(buf, n + 1, Len(buf)), buf, n)
           /\ Rising(buf) => Rising(SubSeq(buf, n + 1, Len(buf)))
  <1> DEFINE L == Len(buf)  rest == SubSeq(buf, n + 1, Len(buf))
  <1>1. L \in Nat /\ n \in 0..L /\ \A k \in 1..L : buf[k] \in Cell
    BY CellParts
  <1>3. \A k \in (n + 1)..L : buf[k] \in Cell
    BY <1>1
  <1>8. rest \in Seq(Cell) /\ Len(rest) = L - n /\ \A k \in 1..(L - n) : rest[k] = buf[n + k]
    BY <1>1, <1>3, SubSeqProperties
  <1> HIDE DEF L, rest
  <1>4. \A k \in 1..(L - n) : n + k \in 1..L
    BY <1>1
  <1>9. ASSUME Rising(buf), NEW i \in 1..(L - n), NEW j \in 1..(L - n), i <= j
        PROVE  rest[i].msg.id <= rest[j].msg.id
    <2>1. n + i \in 1..L /\ n + j \in 1..L /\ n + i <= n + j
      BY <1>1, <1>9
    <2>2. buf[n + i].msg.id <= buf[n + j].msg.id
      BY <1>9, <2>1 DEF Rising, L
    <2> QED BY <1>8, <2>2
  <1>10. Rising(buf) => Rising(rest)
    BY <1>8, <1>9 DEF Rising
  <1>11. Suffix(rest, buf, n)
    BY <1>4, <1>8 DEF L, Suffix
  <1> QED BY <1>10, <1>11 DEF rest

(* Dropping the size component of the front message.                       *)
LEMMA HeaderIds ==
    ASSUME NEW buf \in Seq(Cell), NEW last, Ids(buf, last), buf # <<>>,
           NEW n \in Nat, n < Len(buf), NEW rest, rest = SubSeq(buf, n + 1, Len(buf)),
           rest # <<>>, rest[1].msg = buf[1].msg
    PROVE  Ids(rest, last) /\ Flight(rest, last) = Flight(buf, last)
  <1> DEFINE L == Len(buf)
  <1>1. /\ L \in Nat \ {0} /\ 1 \in 1..L
        /\ \A k \in 1..L : buf[k] \in Cell /\ buf[k].msg \in Msg /\ buf[k].msg.id \in Nat
    BY CellParts, EmptySeq
  <1>2. /\ Len(rest) = L - n /\ Rising(rest)
        /\ \A k \in 1..(L - n) : rest[k] = buf[n + k] /\ n + k \in 1..L
    <2>1. n \in 0..Len(buf)
      BY <1>1
    <2>2. Rising(buf)
      BY DEF Ids
    <2>3. Suffix(rest, buf, n) /\ Rising(rest)
      BY <2>1, <2>2, DropCells
    <2> QED BY <2>3 DEF Suffix
  <1>3. 1 \in 1..(L - n) /\ n + 1 \in 1..L
    BY <1>1
  <1>4. rest[1] = buf[n + 1]
    BY <1>2, <1>3
  <1>5. ASSUME NEW k \in 1..n PROVE k \in 1..L /\ buf[k].msg = rest[1].msg
    <2>1. k \in 1..L /\ 1 <= k /\ k <= n + 1
      BY <1>1
    <2>2. buf[1].msg.id <= buf[k].msg.id /\ buf[k].msg.id <= buf[n + 1].msg.id
      BY <1>1, <1>3, <2>1 DEF Ids, Rising
    <2>3. buf[k].msg.id = buf[1].msg.id
      <3>1. buf[n + 1].msg.id = buf[1].msg.id
        BY <1>4
      <3>2. buf[1].msg.id \in Nat /\ buf[k].msg.id \in Nat
        BY <1>1, <2>1
      <3> QED BY <2>2, <3>1, <3>2
    <2>4. buf[k].msg \in Msgs(buf) /\ buf[1].msg \in Msgs(buf)
      BY <1>1, <2>1 DEF Msgs
    <2> QED BY <2>1, <2>3, <2>4 DEF Ids, Listed
  <1> HIDE DEF L
  <1>6. Msgs(rest) = Msgs(buf)
    <2>1. Msgs(rest) = {rest[k].msg : k \in 1..(L - n)} /\ Msgs(buf) = {buf[k].msg : k \in 1..L}
      BY <1>2 DEF Msgs, L
    <2>2. ASSUME NEW k \in 1..L PROVE \E j \in 1..(L - n) : rest[j].msg = buf[k].msg
      <3>1. CASE k <= n
        <4>1. k \in 1..n
          BY <3>1
        <4> QED BY <1>3, <1>5, <4>1
      <3>2. CASE ~(k <= n)
        <4>1. k - n \in 1..(L - n) /\ n + (k - n) = k
          BY <1>1, <3>2
        <4> QED BY <1>2, <4>1
      <3> QED BY <3>1, <3>2
    <2>3. Msgs(rest) \subseteq Msgs(buf)
      BY <1>2, <2>1
    <2>4. Msgs(buf) \subseteq Msgs(rest)
      BY <2>1, <2>2
    <2> QED BY <2>3, <2>4
  <1>7. First(rest, last) = First(buf, last)
    BY DEF First
  <1> QED BY <1>2, <1>6, <1>7 DEF Ids, Flight

(* Taking the body of the front message, and so the message.               *)
Popped(rest, buf, last, m) ==
    /\ Ids(rest, last) /\ Flight(buf, last) # <<>> /\ Head(Flight(buf, last)) = m
    /\ Flight(rest, last) = Tail(Flight(buf, last))

LEMMA BodyIds ==
    ASSUME NEW buf \in Seq(Cell), NEW last, Ids(buf, last), buf # <<>>,
           NEW m, m = buf[1].msg, NEW n, n = m.len, n \in 1..Len(buf), \A j \in 1..n : buf[j].msg = m,
           n = Len(buf) => m.id = last, n < Len(buf) => buf[n + 1].msg.id = m.id + 1,
           NEW rest, rest = SubSeq(buf, n + 1, Len(buf))
    PROVE  Popped(rest, buf, last, m)
  <1> DEFINE L == Len(buf)
  <1>1. /\ L \in Nat \ {0} /\ 1 \in 1..L
        /\ \A k \in 1..L : buf[k] \in Cell /\ buf[k].msg \in Msg /\ buf[k].msg.id \in Nat
    BY CellParts, EmptySeq
  <1>2. /\ rest \in Seq(Cell) /\ Len(rest) = L - n /\ Rising(rest)
        /\ \A k \in 1..(L - n) : rest[k] = buf[n + k] /\ n + k \in 1..L
    <2>1. n \in 0..Len(buf)
      BY <1>1
    <2>2. Rising(buf)
      BY DEF Ids
    <2>3. Suffix(rest, buf, n) /\ Rising(rest)
      BY <2>1, <2>2, DropCells
    <2> QED BY <2>3 DEF Suffix
  <1>3. n \in Nat /\ m.id \in Nat /\ n <= L
    BY <1>1
  <1>4. m \in Msgs(buf) /\ First(buf, last) = m.id /\ Listed(Msgs(buf), m.id, last) /\ last \in Nat
    BY <1>1 DEF Msgs, First, Ids, Listed
  <1> HIDE DEF L
  <1>5. ASSUME NEW k \in 1..(L - n) PROVE rest[k].msg.id > m.id
    <2>0. L \in Nat /\ n \in Nat /\ k \in 1..(L - n) /\
          \A x, y \in Nat : \A i \in 1..(x - y) : y < x /\ y + 1 \in 1..x /\ y + i \in 1..x /\ y + 1 <= y + i
      BY <1>1, <1>3
    <2>1. n < L /\ n + 1 \in 1..L /\ n + k \in 1..L /\ n + 1 <= n + k
      BY <2>0, Zenon
    <2>2. buf[n + 1].msg.id = m.id + 1
      BY <2>1 DEF L
    <2>3. buf[n + 1].msg.id <= buf[n + k].msg.id
      BY <2>1 DEF Ids, Rising, L
    <2>4. buf[n + k].msg.id \in Nat
      BY <1>1, <2>1
    <2>5. rest[k] = buf[n + k]
      BY <1>2
    <2>6. \A x, y \in Nat : x + 1 <= y => y > x
      OBVIOUS
    <2> QED BY <1>3, <2>2, <2>3, <2>4, <2>5, <2>6, Zenon
  <1>6. Msgs(rest) = Msgs(buf) \ {m}
    <2>1. Msgs(rest) = {rest[k].msg : k \in 1..(L - n)} /\ Msgs(buf) = {buf[k].msg : k \in 1..L}
      BY <1>2 DEF Msgs, L
    <2>2. ASSUME NEW k \in 1..L PROVE buf[k].msg = m \/ \E j \in 1..(L - n) : rest[j].msg = buf[k].msg
      <3>1. CASE k <= n
        <4>1. k \in 1..n
          BY <1>3, <3>1
        <4> QED BY <4>1
      <3>2. CASE ~(k <= n)
        <4>1. L \in Nat /\ n \in Nat
          BY <1>1, <1>3
        <4>2. k - n \in 1..(L - n) /\ n + (k - n) = k
          BY <3>2, <4>1
        <4> QED BY <1>2, <4>2
      <3> QED BY <3>1, <3>2
    <2>3. \A k \in 1..(L - n) : rest[k].msg # m
      <3> SUFFICES ASSUME NEW k \in 1..(L - n), rest[k].msg = m PROVE FALSE
        OBVIOUS
      <3>1. m.id > m.id
        BY <1>5
      <3> QED BY <1>3, <3>1
    <2>4. Msgs(rest) \subseteq Msgs(buf) \ {m}
      <3> SUFFICES ASSUME NEW x \in Msgs(rest) PROVE x \in Msgs(buf) /\ x # m
        OBVIOUS
      <3>1. PICK k \in 1..(L - n) : x = rest[k].msg
        BY <2>1
      <3>2. n + k \in 1..L /\ x = buf[n + k].msg
        BY <1>2, <3>1
      <3>3. x \in Msgs(buf)
        BY <2>1, <3>2
      <3> QED BY <2>3, <3>1, <3>3
    <2>5. Msgs(buf) \ {m} \subseteq Msgs(rest)
      <3> SUFFICES ASSUME NEW x \in Msgs(buf), x # m PROVE x \in Msgs(rest)
        OBVIOUS
      <3>1. PICK k \in 1..L : x = buf[k].msg
        BY <2>1
      <3>2. PICK j \in 1..(L - n) : rest[j].msg = x
        BY <2>2, <3>1
      <3> QED BY <2>1, <3>2
    <2> QED BY <2>4, <2>5
  <1>7. First(rest, last) = m.id + 1
    <2>1. CASE n = L
      <3>1. Len(rest) = 0 /\ m.id = last
        BY <1>1, <1>2, <2>1 DEF L
      <3>2. rest = <<>>
        BY <1>2, <3>1, EmptySeq
      <3> QED BY <3>1, <3>2 DEF First
    <2>2. CASE n # L
      <3>1. n < L /\ 1 \in 1..(L - n) /\ L - n # 0
        BY <1>1, <1>3, <2>2
      <3>2. rest # <<>> /\ rest[1] = buf[n + 1] /\ buf[n + 1].msg.id = m.id + 1
        BY <1>2, <3>1, EmptySeq DEF L
      <3> QED BY <3>2 DEF First
    <2> QED BY <2>1, <2>2
  <1> DEFINE ms == Msgs(buf)  f == m.id
  <1>9. /\ Listed(ms \ {m}, f + 1, last) /\ InOrder(ms, f, last) # <<>> /\ Head(InOrder(ms, f, last)) = m
        /\ InOrder(ms \ {m}, f + 1, last) = Tail(InOrder(ms, f, last))
    <2>1. Listed(ms, m.id, last) /\ m \in ms
      BY <1>4
    <2> HIDE DEF ms
    <2>2. Taken(ms, m, last)
      BY <2>1, ListTake, Zenon
    <2> QED BY <2>2 DEF Taken
  <1> HIDE DEF ms, f
  <1> QED BY <1>2, <1>4, <1>6, <1>7, <1>9 DEF Popped, Ids, Flight, ms, f

-----------------------------------------------------------------------------
(* IdsInv is inductive together with ChannelInv.  Three steps change the   *)
(* bytes of a queue; the others leave every queue's messages alone.        *)
IdsInv == \A q \in Queues : Ids(mq[q].buf, stored[q])

LEMMA InflightIs ==
    /\ [q \in Queues |-> Inflight(q)] = [q \in Queues |-> Flight(mq[q].buf, stored[q])]
    /\ [q \in Queues |-> Inflight(q)]' = [q \in Queues |-> Flight(mq'[q].buf, stored'[q])]
  <1>1. \A q \in Queues : Inflight(q) = Flight(mq[q].buf, stored[q])
    BY DEF Inflight, Front, Numbered, Flight, InOrder, ById, First, Msgs
  <1>2. \A q \in Queues : Inflight(q)' = Flight(mq'[q].buf, stored'[q])
    BY DEF Inflight, Front, Numbered, Flight, InOrder, ById, First, Msgs
  <1> QED BY <1>1, <1>2

SameBuffers == (\A q \in Queues : mq'[q].buf = mq[q].buf) /\ stored' = stored /\ rcvd' = rcvd

LEMMA SameFlight ==
    ASSUME IdsInv, SameBuffers
    PROVE  IdsInv' /\ UNCHANGED Channel!channelVars
  <1>1. \A q \in Queues : mq'[q].buf = mq[q].buf /\ stored'[q] = stored[q]
    BY DEF SameBuffers
  <1>2. IdsInv'
    BY <1>1 DEF IdsInv
  <1>3. [q \in Queues |-> Inflight(q)]' = [q \in Queues |-> Inflight(q)]
    BY <1>1, InflightIs
  <1> QED BY <1>2, <1>3 DEF SameBuffers, Channel!channelVars

LEMMA CriticalBuffers ==
    ASSUME NEW t \in Threads, NEW label, CriticalStep(t, label), mq'[arg[t].q].buf = mq[arg[t].q].buf,
           stored' = stored, rcvd' = rcvd
    PROVE  SameBuffers
  BY DEF CriticalStep, Elsewhere, SameBuffers

LEMMA CallBuffers == ASSUME MemoryInv, ChannelInv, Call PROVE SameBuffers
  <1>1. CASE UNCHANGED <<mq, stored, rcvd>>
    BY <1>1 DEF SameBuffers
  <1>2. ASSUME NEW c \in CreateCalls, msg_queue_create(c) PROVE SameBuffers
    <2>1. CASE Refuse(SlotOwner[c.slot], "EINVAL") \/ Refuse(SlotOwner[c.slot], "ENOMEM")
      BY <1>1, <2>1 DEF Refuse
    <2>2. CASE /\ mq[c.queue].status = "unborn" /\ UNCHANGED <<stored, rcvd>>
               /\ \E event \in UninitEvents :
                     mq' = [mq EXCEPT ![c.queue] = mq_open(mq_init(c.capacity, event), c.flags)]
      <3>1. PICK event : mq' = [mq EXCEPT ![c.queue] = mq_open(mq_init(c.capacity, event), c.flags)]
        BY <2>2
      <3>2. c.queue \in Queues /\ mq \in [Queues -> Backend]
        BY CallAssumption DEF MemoryInv, TypeOK
      <3>3. mq[c.queue].buf = <<>>
        BY <2>2, <3>2 DEF ChannelInv, BackendOK
      <3>4. mq_open(mq_init(c.capacity, event), c.flags).buf = <<>>
        BY DEF mq_open, mq_init
      <3> QED BY <2>2, <3>1, <3>2, <3>3, <3>4 DEF SameBuffers
    <2> QED BY <1>2, <2>1, <2>2 DEF msg_queue_create
  <1>3. ASSUME NEW c \in OpenCalls, msg_queue_open(c) PROVE SameBuffers
    BY <1>1, <1>3 DEF msg_queue_open, Refuse, Enter
  <1>4. ASSUME NEW s \in CloseCalls, msg_queue_close(s) PROVE SameBuffers
    BY <1>1, <1>4 DEF msg_queue_close, Refuse, Enter
  <1>5. ASSUME NEW c \in ReadCalls, msg_queue_read(c) PROVE SameBuffers
    BY <1>1, <1>5 DEF msg_queue_read, Refuse, Enter
  <1>6. ASSUME NEW c \in WriteCalls, msg_queue_write(c) PROVE SameBuffers
    BY <1>1, <1>6 DEF msg_queue_write, Refuse, Enter
  <1> QED BY <1>2, <1>3, <1>4, <1>5, <1>6 DEF Call

LEMMA FieldBuffers ==
    ASSUME MemoryInv, NEW q,
           \/ \E t : mq' = [mq EXCEPT ![q].mutex = t]
           \/ mq' = [mq EXCEPT ![q].status = "freed"]
    PROVE  \A x \in Queues : mq'[x].buf = mq[x].buf
  <1>1. mq \in [Queues -> Backend]
    BY DEF MemoryInv, TypeOK
  <1>2. ASSUME NEW t, mq' = [mq EXCEPT ![q].mutex = t], NEW x \in Queues PROVE mq'[x].buf = mq[x].buf
    BY <1>1, <1>2 DEF Backend
  <1>3. ASSUME mq' = [mq EXCEPT ![q].status = "freed"], NEW x \in Queues PROVE mq'[x].buf = mq[x].buf
    BY <1>1, <1>3 DEF Backend
  <1> QED BY <1>2, <1>3

LEMMA StepBuffers ==
    ASSUME ReadersHaveRoom, LengthsDontWrap, MemoryInv, MemoryInv', ChannelInv, NEW t \in Threads,
           \/ Lock(t) \/ SpuriousWakeup(t) \/ OpenBody(t) \/ CloseBody(t) \/ Destroy(t)
           \/ EndWakeup(t) \/ ReadEof(t) \/ ReadEmpty(t) \/ ReadPeek(t) \/ WriteReject(t) \/ WriteWait(t)
    PROVE  SameBuffers
  <1>1. CASE Lock(t)
    BY <1>1, FieldBuffers DEF Lock, SameBuffers
  <1>2. CASE SpuriousWakeup(t)
    BY <1>2 DEF SpuriousWakeup, SameBuffers
  <1>3. CASE OpenBody(t)
    <2>1. stored' = stored /\ rcvd' = rcvd
      BY <1>3 DEF OpenBody
    <2> QED BY <1>3, <2>1, OpenChannel, CriticalBuffers
  <1>4. CASE CloseBody(t)
    <2>1. stored' = stored /\ rcvd' = rcvd
      BY <1>4 DEF CloseBody
    <2>2. mq'[arg[t].q].buf = mq[arg[t].q].buf /\ (CriticalStep(t, "destroy") \/ CriticalStep(t, "idle"))
      BY <1>4, CloseChannel
    <2> QED BY <2>1, <2>2, CriticalBuffers
  <1>5. CASE Destroy(t)
    BY <1>5, FieldBuffers DEF Destroy, SameBuffers
  <1>6. CASE EndWakeup(t) \/ WriteReject(t)
    <2>1. stored' = stored /\ rcvd' = rcvd
      BY <1>6 DEF EndWakeup, WriteReject
    <2> QED BY <1>6, <2>1, EndChannel, CriticalBuffers
  <1>7. CASE ReadEof(t)
    <2>1. stored' = stored /\ rcvd' = rcvd
      BY <1>7 DEF ReadEof
    <2> QED BY <1>7, <2>1, EofChannel, CriticalBuffers
  <1>8. CASE ReadEmpty(t)
    <2>1. stored' = stored /\ rcvd' = rcvd
      BY <1>8 DEF ReadEmpty
    <2> QED BY <1>8, <2>1, EmptyChannel, CriticalBuffers
  <1>9. CASE ReadPeek(t)
    <2>1. stored' = stored /\ rcvd' = rcvd
      BY <1>9 DEF ReadPeek
    <2> QED BY <1>9, <2>1, PeekChannel DEF SameBuffers
  <1>10. CASE WriteWait(t)
    <2>1. stored' = stored /\ rcvd' = rcvd
      BY <1>10 DEF WriteWait
    <2> QED BY <1>10, <2>1, WaitChannel, CriticalBuffers
  <1> QED BY <1>1, <1>2, <1>3, <1>4, <1>5, <1>6, <1>7, <1>8, <1>9, <1>10

(* ReadHeader drops bytes of a message that stays in flight.               *)
LEMMA HeaderFlight ==
    ASSUME MemoryInv, MemoryInv', ChannelInv, IdsInv, NEW t \in Threads, ReadHeader(t)
    PROVE  IdsInv' /\ UNCHANGED Channel!channelVars
  <1>0. PICK q \in Queues : q = arg[t].q /\ mq[q].buf \in Seq(Cell) /\ mq[q] \in Backend
    <2>1. pc[t] \in Critical
      BY DEF ReadHeader, Critical
    <2> QED BY <2>1, Inside
  <1> DEFINE buf == mq[q].buf  rest == mq'[q].buf
  <1>1. /\ CriticalStep(t, "take_body") /\ stored' = stored /\ rcvd' = rcvd
        /\ buf # <<>> /\ SizeT < Len(buf) /\ rest = SubSeq(buf, SizeT + 1, Len(buf))
        /\ rest # <<>> /\ rest[1].msg = buf[1].msg
    <2>1. rcvd' = rcvd
      BY DEF ReadHeader
    <2> QED BY <1>0, <2>1, HeaderChannel
  <1>2. Ids(buf, stored[q])
    BY DEF IdsInv
  <1>3. Ids(rest, stored[q]) /\ Flight(rest, stored[q]) = Flight(buf, stored[q])
    <2>1. SizeT \in Nat /\ buf \in Seq(Cell)
      BY <1>0, SizeAssumption
    <2> HIDE DEF buf, rest
    <2> QED BY <1>1, <1>2, <2>1, HeaderIds, Zenon
  <1>4. \A x \in Queues \ {q} : mq'[x] = mq[x]
    BY <1>0, <1>1 DEF CriticalStep, Elsewhere
  <1>5. \A x \in Queues : Ids(mq'[x].buf, stored'[x]) /\ Flight(mq'[x].buf, stored'[x]) = Flight(mq[x].buf, stored[x])
    BY <1>1, <1>3, <1>4 DEF IdsInv
  <1>6. [x \in Queues |-> Inflight(x)]' = [x \in Queues |-> Inflight(x)]
    BY <1>5, InflightIs
  <1> QED BY <1>1, <1>5, <1>6 DEF IdsInv, Channel!channelVars

(* ReadBody is the abstract receive: the message handed over is the oldest *)
(* one in flight.                                                          *)
LEMMA BodyFlight ==
    ASSUME MemoryInv, MemoryInv', ChannelInv, IdsInv, NEW t \in Threads, ReadBody(t)
    PROVE  IdsInv' /\ \E q \in Queues : Channel!Recv(q)
  <1>0. PICK q \in Queues : q = arg[t].q /\ mq[q].buf \in Seq(Cell) /\ mq[q] \in Backend
    <2>1. pc[t] \in Critical
      BY DEF ReadBody, Critical
    <2> QED BY <2>1, Inside
  <1> DEFINE buf == mq[q].buf  rest == mq'[q].buf  m == buf[1].msg  last == stored[q]
  <1>1. /\ CriticalStep(t, "wakeup") /\ stored' = stored
        /\ buf # <<>> /\ m.len > 0 /\ Whole(buf, last, SizeT + 1)
        /\ rest = SubSeq(buf, m.len + 1, Len(buf))
        /\ rcvd' = [rcvd EXCEPT ![q] = Append(@, m)]
    BY <1>0, BodyChannel
  <1>2. Ids(buf, last)
    BY DEF IdsInv
  <1>3. /\ m.len \in 1..Len(buf) /\ \A j \in 1..m.len : buf[j].msg = m
        /\ m.len = Len(buf) => m.id = last
        /\ m.len < Len(buf) => buf[m.len + 1].msg.id = m.id + 1
    <2>1. BodyFirst(mq[q], m, last)
      BY <1>0, <1>1, FrontBody
    <2> QED BY <2>1 DEF BodyFirst
  <1>4. /\ Ids(rest, last) /\ Flight(buf, last) # <<>> /\ Head(Flight(buf, last)) = m
        /\ Flight(rest, last) = Tail(Flight(buf, last))
    <2>1. buf \in Seq(Cell)
      BY <1>0
    <2>2. PICK n : n = m.len
      OBVIOUS
    <2>3. /\ n \in 1..Len(buf) /\ (\A j \in 1..n : buf[j].msg = m)
          /\ (n = Len(buf) => m.id = last) /\ (n < Len(buf) => buf[n + 1].msg.id = m.id + 1)
          /\ rest = SubSeq(buf, n + 1, Len(buf)) /\ buf # <<>> /\ m = buf[1].msg
      BY <1>1, <1>3, <2>2
    <2> HIDE DEF buf, rest, last, m
    <2>4. Popped(rest, buf, last, m)
      BY <1>2, <2>1, <2>2, <2>3, BodyIds
    <2> QED BY <2>4 DEF Popped
  <1>5. \A x \in Queues \ {q} : mq'[x] = mq[x] /\ stored'[x] = stored[x]
    BY <1>0, <1>1 DEF CriticalStep, Elsewhere
  <1>6. IdsInv'
    BY <1>1, <1>4, <1>5 DEF IdsInv
  <1> DEFINE before == [x \in Queues |-> Flight(mq[x].buf, stored[x])]
             after == [x \in Queues |-> Flight(mq'[x].buf, stored'[x])]
  <1>7. after = [before EXCEPT ![q] = Tail(@)] /\ before[q] # <<>> /\ Head(before[q]) = m
    BY <1>1, <1>4, <1>5
  <1> HIDE DEF before, after, m
  <1>8. [x \in Queues |-> Inflight(x)] = before /\ [x \in Queues |-> Inflight(x)]' = after
    BY InflightIs DEF before, after
  <1>9. Channel!Recv(q)
    BY <1>1, <1>7, <1>8 DEF Channel!Recv
  <1> QED BY <1>6, <1>9

(* WritePut is the abstract send.                                          *)
LEMMA PutFlight ==
    ASSUME MemoryInv, MemoryInv', ChannelInv, LengthsDontWrap, IdsInv, NEW t \in Threads, WritePut(t)
    PROVE  IdsInv' /\ \E q \in Queues, n \in {c.len : c \in WriteCalls} : Channel!Send(q, n)
  <1>0. PICK q \in Queues : q = arg[t].q /\ mq[q].buf \in Seq(Cell) /\ stored[q] \in Nat
    <2>1. pc[t] \in Critical
      BY DEF WritePut, Accepted, Critical
    <2> QED BY <2>1, Inside
  <1> DEFINE buf == mq[q].buf  full == mq'[q].buf  last == stored[q]  n == arg[t].len
             m == [id |-> last + 1, len |-> n]
  <1>1. /\ n \in WriteLens /\ stored' = [stored EXCEPT ![q] = @ + 1]
        /\ m \in Msg /\ m.len > 0 /\ Whole(buf, last, 1) /\ full = Extended(buf, m)
    BY <1>0, PutChannel
  <1>2. Elsewhere(q)
    BY <1>0, PutChannel DEF CriticalStep
  <1>3. Ids(buf, last) /\ m.id = last + 1
    BY DEF IdsInv
  <1>4. Ids(full, last + 1) /\ Flight(full, last + 1) = Append(Flight(buf, last), m)
    <2>1. buf \in Seq(Cell) /\ last \in Nat
      BY <1>0
    <2> HIDE DEF buf, full, last, m
    <2> QED BY <1>1, <1>3, <2>1, PutIds, Zenon
  <1>5. stored'[q] = last + 1 /\ \A x \in Queues \ {q} : mq'[x] = mq[x] /\ stored'[x] = stored[x]
    <2>1. stored \in [Queues -> Nat]
      BY DEF MemoryInv, TypeOK
    <2> QED BY <1>1, <1>2, <2>1 DEF Elsewhere
  <1>6. IdsInv'
    BY <1>4, <1>5 DEF IdsInv
  <1> DEFINE before == [x \in Queues |-> Flight(mq[x].buf, stored[x])]
             after == [x \in Queues |-> Flight(mq'[x].buf, stored'[x])]
  <1>7. after = [before EXCEPT ![q] = Append(@, m)]
    <2> HIDE DEF m
    <2> QED BY <1>4, <1>5
  <1> HIDE DEF before, after
  <1>8. [x \in Queues |-> Inflight(x)] = before /\ [x \in Queues |-> Inflight(x)]' = after
    BY InflightIs DEF before, after
  <1>9. rcvd' = rcvd
    BY DEF WritePut
  <1>10. Channel!Send(q, n)
    BY <1>1, <1>7, <1>8, <1>9 DEF Channel!Send
  <1>11. n \in {c.len : c \in WriteCalls}
    BY <1>1 DEF WriteLens
  <1> HIDE DEF n
  <1> QED BY <1>6, <1>10, <1>11

-----------------------------------------------------------------------------
LEMMA FlightInit == Init => IdsInv /\ Channel!ChannelInit
  <1> SUFFICES ASSUME Init PROVE IdsInv /\ Channel!ChannelInit
    OBVIOUS
  <1>1. \A q \in Queues : mq[q].buf = <<>> /\ stored[q] = 0
    BY DEF Init, Unborn, mq_init
  <1>2. Msgs(<<>>) = {} /\ First(<<>>, 0) = 1
    <2>1. 1..Len(<<>>) = {}
      OBVIOUS
    <2> QED BY <2>1 DEF Msgs, First
  <1>3. Listed({}, 1, 0) /\ Rising(<<>>)
    BY DEF Listed, Rising
  <1>4. IdsInv
    BY <1>1, <1>2, <1>3 DEF IdsInv, Ids
  <1>5. Flight(<<>>, 0) = <<>>
    <2>1. InOrder({}, 1, 0) \in Seq(Msg) /\ Len(InOrder({}, 1, 0)) = 0
      BY <1>3, InOrderSeq
    <2> QED BY <1>2, <2>1, EmptySeq DEF Flight
  <1>6. [q \in Queues |-> Inflight(q)] = [q \in Queues |-> <<>>]
    BY <1>1, <1>5, InflightIs
  <1> QED BY <1>4, <1>6 DEF Channel!ChannelInit, Init

LEMMA FlightStep ==
    ReadersHaveRoom /\ LengthsDontWrap /\ MemoryInv /\ ChannelInv /\ IdsInv /\ [Next]_vars
        => IdsInv' /\ [Channel!ChannelNext]_(Channel!channelVars)
  <1> SUFFICES ASSUME ReadersHaveRoom, LengthsDontWrap, MemoryInv, ChannelInv, IdsInv, [Next]_vars
               PROVE  IdsInv' /\ [Channel!ChannelNext]_(Channel!channelVars)
    OBVIOUS
  <1>0. MemoryInv'
    BY MemoryStep
  <1>1. CASE SameBuffers
    BY <1>1, SameFlight
  <1>2. CASE Call
    BY <1>1, <1>2, CallBuffers
  <1>3. CASE UNCHANGED vars
    BY <1>1, <1>3 DEF vars, SameBuffers
  <1>4. ASSUME NEW t \in Threads, Lock(t) \/ Progress(t) \/ SpuriousWakeup(t)
        PROVE  IdsInv' /\ [Channel!ChannelNext]_(Channel!channelVars)
    <2>1. CASE ReadHeader(t)
      BY <1>0, <2>1, HeaderFlight
    <2>2. CASE ReadBody(t)
      BY <1>0, <2>2, BodyFlight DEF Channel!ChannelNext
    <2>3. CASE WritePut(t)
      BY <1>0, <2>3, PutFlight DEF Channel!ChannelNext
    <2>4. CASE \/ Lock(t) \/ SpuriousWakeup(t) \/ OpenBody(t) \/ CloseBody(t) \/ Destroy(t)
               \/ EndWakeup(t) \/ ReadEof(t) \/ ReadEmpty(t) \/ ReadPeek(t) \/ WriteReject(t) \/ WriteWait(t)
      BY <1>0, <1>1, <2>4, StepBuffers
    <2> QED BY <1>4, <2>1, <2>2, <2>3, <2>4 DEF Progress
  <1> QED BY <1>2, <1>3, <1>4 DEF Next

(* When readers have room for any message and lengths do not wrap, the     *)
(* messages of msg_queue_write calls come out of msg_queue_read calls once *)
(* each, whole and in order: storing one is the channel's Send, taking a   *)
(* body its Recv, and no other step of msg_queue.c changes what is in      *)
(* flight.                                                                 *)
THEOREM QueueIsChannel ==
    ASSUME ReadersHaveRoom, LengthsDontWrap
    PROVE  Spec => ImplementsChannel
  <1>1. Init => MemoryInv /\ ChannelInv /\ IdsInv /\ Channel!ChannelInit
    BY MemoryInit, ChannelInit, FlightInit
  <1>2. MemoryInv /\ ChannelInv /\ IdsInv /\ [Next]_vars => (MemoryInv /\ ChannelInv /\ IdsInv)'
    BY MemoryStep, ChannelStep, FlightStep
  <1>3. MemoryInv /\ ChannelInv /\ IdsInv /\ [Next]_vars => [Channel!ChannelNext]_(Channel!channelVars)
    BY FlightStep
  <1> QED BY <1>1, <1>2, <1>3, PTL DEF Spec, ImplementsChannel, Channel!ChannelSpec

-----------------------------------------------------------------------------
(* What readers have got so far: the messages number 1, 2, ... up to the   *)
(* one before the front of the ring buffer.                                *)
NumbersInv == \A q \in Queues :
    /\ rcvd[q] \in Seq(Msg)
    /\ \A k \in 1..Len(rcvd[q]) : rcvd[q][k].id = k
    /\ First(mq[q].buf, stored[q]) = Len(rcvd[q]) + 1

LEMMA FlightFront ==
    ASSUME NEW buf, NEW last, Ids(buf, last)
    PROVE  /\ Flight(buf, last) \in Seq(Msg) /\ last \in Nat /\ First(buf, last) \in Nat
           /\ Len(Flight(buf, last)) = last + 1 - First(buf, last)
           /\ Flight(buf, last) # <<>> => Head(Flight(buf, last)).id = First(buf, last)
  <1> DEFINE ms == Msgs(buf)  first == First(buf, last)  f == Flight(buf, last)
  <1>1. Listed(ms, first, last)
    BY DEF Ids
  <1>2. /\ f \in Seq(Msg) /\ Len(f) = last + 1 - first
        /\ \A k \in 1..(last + 1 - first) : f[k] = ById(ms, first + k - 1)
    BY <1>1, InOrderSeq DEF Flight
  <1>3. first \in Nat /\ last \in Nat
    BY <1>1 DEF Listed
  <1>4. ASSUME f # <<>> PROVE Head(f).id = first
    <2>1. Len(f) # 0
      BY <1>2, <1>4, EmptySeq
    <2>2. 1 \in 1..(last + 1 - first) /\ first \in first..last
      BY <1>2, <1>3, <2>1, LenProperties
    <2>3. f[1] = ById(ms, first)
      <3>1. first + 1 - 1 = first
        BY <1>3
      <3> HIDE DEF first, f, ms
      <3> QED BY <1>2, <2>2, <3>1
    <2>4. PICK m \in ms : m.id = first
      BY <1>1, <2>2 DEF Listed
    <2>5. f[1] = m
      <3>1. ById(ms, m.id) = m
        BY <1>1, ByIdIs
      <3> QED BY <2>3, <2>4, <3>1
    <2>6. Head(f) = f[1]
      BY <1>2, <1>4
    <2> QED BY <2>4, <2>5, <2>6
  <1> QED BY <1>2, <1>3, <1>4

LEMMA NumbersInit == Init => NumbersInv
  <1> SUFFICES ASSUME Init PROVE NumbersInv
    OBVIOUS
  <1>1. \A q \in Queues : mq[q].buf = <<>> /\ stored[q] = 0 /\ rcvd[q] = <<>>
    BY DEF Init, Unborn, mq_init
  <1>2. Len(<<>>) = 0 /\ <<>> \in Seq(Msg) /\ First(<<>>, 0) = 1 /\ 1..0 = {}
    BY DEF First
  <1>3. ASSUME NEW q \in Queues
        PROVE  /\ rcvd[q] \in Seq(Msg) /\ First(mq[q].buf, stored[q]) = Len(rcvd[q]) + 1
               /\ \A k \in 1..Len(rcvd[q]) : rcvd[q][k].id = k
    <2>1. mq[q].buf = <<>> /\ stored[q] = 0 /\ rcvd[q] = <<>>
      BY <1>1
    <2>2. First(mq[q].buf, stored[q]) = 1
      BY <2>1 DEF First
    <2> QED BY <1>2, <2>1, <2>2
  <1> QED BY <1>3 DEF NumbersInv

LEMMA NumbersStep ==
    ASSUME MemoryInv, IdsInv, IdsInv', NumbersInv, [Channel!ChannelNext]_(Channel!channelVars)
    PROVE  NumbersInv'
  <1> DEFINE before == [q \in Queues |-> Flight(mq[q].buf, stored[q])]
             after == [q \in Queues |-> Flight(mq'[q].buf, stored'[q])]
             first(q) == First(mq[q].buf, stored[q])
             next(q) == First(mq'[q].buf, stored'[q])
  <1>1. [q \in Queues |-> Inflight(q)] = before /\ [q \in Queues |-> Inflight(q)]' = after
    BY InflightIs
  <1>2. ASSUME NEW q \in Queues
        PROVE  /\ before[q] \in Seq(Msg) /\ stored[q] \in Nat /\ first(q) \in Nat
               /\ Len(before[q]) = stored[q] + 1 - first(q)
               /\ before[q] # <<>> => Head(before[q]).id = first(q)
    BY FlightFront DEF IdsInv
  <1>3. ASSUME NEW q \in Queues
        PROVE  /\ after[q] \in Seq(Msg) /\ stored'[q] \in Nat /\ next(q) \in Nat
               /\ Len(after[q]) = stored'[q] + 1 - next(q)
    BY FlightFront DEF IdsInv
  <1>4. /\ \A q \in Queues : rcvd[q] \in Seq(Msg) /\ first(q) = Len(rcvd[q]) + 1
        /\ \A q \in Queues : \A k \in 1..Len(rcvd[q]) : rcvd[q][k].id = k
    BY DEF NumbersInv
  <1>5. /\ DOMAIN before = Queues /\ stored \in [Queues -> Nat] /\ rcvd \in [Queues -> Seq(Msg \cup {None})]
    BY DEF MemoryInv, TypeOK
  <1>6. SUFFICES ASSUME NEW q \in Queues
        PROVE  /\ rcvd'[q] \in Seq(Msg) /\ next(q) = Len(rcvd'[q]) + 1
               /\ \A k \in 1..Len(rcvd'[q]) : rcvd'[q][k].id = k
    BY DEF NumbersInv
  <1>7. SUFFICES ASSUME NEW r, r = rcvd[q], NEW n, n = rcvd'[q], NEW b, b = before[q], NEW a, a = after[q],
                        NEW f, f = first(q), NEW g, g = next(q)
        PROVE  n \in Seq(Msg) /\ g = Len(n) + 1 /\ \A k \in 1..Len(n) : n[k].id = k
    OBVIOUS
  <1>8. /\ b \in Seq(Msg) /\ stored[q] \in Nat /\ f \in Nat /\ Len(b) = stored[q] + 1 - f
        /\ b # <<>> => Head(b).id = f
        /\ a \in Seq(Msg) /\ stored'[q] \in Nat /\ g \in Nat /\ Len(a) = stored'[q] + 1 - g
        /\ r \in Seq(Msg) /\ f = Len(r) + 1 /\ \A k \in 1..Len(r) : r[k].id = k
    BY <1>2, <1>3, <1>4, <1>7
  <1>9. CASE n = r /\ a = b /\ stored'[q] = stored[q]
    BY <1>8, <1>9
  <1>10. ASSUME NEW x \in Queues, NEW l, Channel!Send(x, l)
         PROVE  n \in Seq(Msg) /\ g = Len(n) + 1 /\ \A k \in 1..Len(n) : n[k].id = k
    <2>1. after = [before EXCEPT ![x] = Append(@, [id |-> stored[x] + 1, len |-> l])]
          /\ stored' = [stored EXCEPT ![x] = @ + 1] /\ rcvd' = rcvd
      BY <1>1, <1>10 DEF Channel!Send
    <2>2. CASE x = q
      <3>1. a = Append(b, [id |-> stored[q] + 1, len |-> l]) /\ stored'[q] = stored[q] + 1 /\ n = r
        BY <1>5, <1>7, <2>1, <2>2
      <3>2. Len(a) = Len(b) + 1
        BY <1>8, <3>1
      <3> QED BY <1>8, <3>1, <3>2
    <2>3. CASE x # q
      <3>1. n = r /\ a = b /\ stored'[q] = stored[q]
        BY <1>5, <1>7, <2>1, <2>3
      <3> QED BY <1>9, <3>1
    <2> QED BY <2>2, <2>3
  <1>11. ASSUME NEW x \in Queues, Channel!Recv(x)
         PROVE  n \in Seq(Msg) /\ g = Len(n) + 1 /\ \A k \in 1..Len(n) : n[k].id = k
    <2>1. before[x] # <<>> /\ after = [before EXCEPT ![x] = Tail(@)]
          /\ rcvd' = [rcvd EXCEPT ![x] = Append(@, Head(before[x]))] /\ stored' = stored
      BY <1>1, <1>11 DEF Channel!Recv
    <2>2. CASE x = q
      <3>1. b # <<>> /\ a = Tail(b) /\ n = Append(r, Head(b)) /\ stored'[q] = stored[q]
        BY <1>5, <1>7, <2>1, <2>2
      <3>2. Len(a) = Len(b) - 1 /\ Head(b) \in Msg
        BY <1>8, <3>1
      <3>3. Len(n) = Len(r) + 1 /\ n \in Seq(Msg) /\ g = f + 1
        BY <1>8, <3>1, <3>2
      <3>4. ASSUME NEW k \in 1..Len(n) PROVE n[k].id = k
        BY <1>8, <3>1, <3>2, <3>3
      <3> QED BY <1>8, <3>3, <3>4
    <2>3. CASE x # q
      <3>1. n = r /\ a = b /\ stored'[q] = stored[q]
        BY <1>5, <1>7, <2>1, <2>3
      <3> QED BY <1>9, <3>1
    <2> QED BY <2>2, <2>3
  <1>12. CASE UNCHANGED Channel!channelVars
    <2>1. n = r /\ a = b /\ stored'[q] = stored[q]
      BY <1>1, <1>7, <1>12 DEF Channel!channelVars
    <2> QED BY <1>9, <2>1
  <1> QED BY <1>10, <1>11, <1>12 DEF Channel!ChannelNext

-----------------------------------------------------------------------------
(* Who sleeps: no reader and no writer of a queue is left asleep by the    *)
(* signals that msg_queue.c sends.                                         *)

(* The last bytes of the messages in a ring buffer, the readers on their   *)
(* way to a message, and the writers on their way to look for space.       *)
Lasts(buf) == {k \in 1..Len(buf) : LastCell(buf[k])}
Readers(q) == {t \in Threads : arg[t].q = q /\ pc[t] \in ReadLabels}
Looking(q) == Waiting(q, "write_relock") \cup Waiting(q, "write_loop")

ReaderOK(q) == Waiting(q, "read_wait") # {} =>
    ~mq[q].no_writers /\ Cardinality(Lasts(mq[q].buf)) <= Cardinality(Readers(q))
WriterOK(q) == Waiting(q, "write_wait") # {} /\ mq[q].buf = <<>> => Looking(q) # {}
WaitInv == \A q \in Queues : ReaderOK(q) /\ WriterOK(q)

-----------------------------------------------------------------------------
(* Counting messages.                                                      *)
LEMMA LastsFinite ==
    ASSUME NEW buf \in Seq(Cell)
    PROVE  IsFiniteSet(Lasts(buf)) /\ Cardinality(Lasts(buf)) \in Nat
  <1>1. IsFiniteSet(1..Len(buf))
    BY FS_Interval
  <1>2. Lasts(buf) \in SUBSET (1..Len(buf))
    BY DEF Lasts
  <1>3. IsFiniteSet(Lasts(buf))
    BY <1>1, <1>2, FS_Subset
  <1> QED BY <1>3, FS_CardinalityType

LEMMA LastsDrop ==
    ASSUME NEW buf \in Seq(Cell), NEW n \in 0..Len(buf), NEW rest, rest = SubSeq(buf, n + 1, Len(buf))
    PROVE  /\ Cardinality(Lasts(rest)) <= Cardinality(Lasts(buf))
           /\ \A k \in 1..n : k \in Lasts(buf) => Cardinality(Lasts(rest)) <= Cardinality(Lasts(buf)) - 1
  <1> DEFINE L == Len(buf)
  <1>1. L \in Nat /\ n \in 0..L /\ \A k \in (n + 1)..L : buf[k] \in Cell
    BY CellParts
  <1>2. rest \in Seq(Cell) /\ Len(rest) = L - n /\ \A k \in 1..(L - n) : rest[k] = buf[n + k]
    BY <1>1, SubSeqProperties
  <1>3. IsFiniteSet(Lasts(buf)) /\ Cardinality(Lasts(buf)) \in Nat
    BY LastsFinite
  <1> DEFINE F == [k \in Lasts(rest) |-> n + k]
  <1>4. \A k \in Lasts(rest) : n + k \in Lasts(buf) /\ n + k \notin 1..n /\ k \in Int
    <2> SUFFICES ASSUME NEW k \in Lasts(rest) PROVE n + k \in Lasts(buf) /\ n + k \notin 1..n /\ k \in Int
      OBVIOUS
    <2>1. k \in 1..(L - n) /\ LastCell(rest[k])
      BY <1>2 DEF Lasts
    <2>2. n + k \in 1..L /\ n + k \notin 1..n /\ k \in Int
      BY <1>1, <2>1
    <2> QED BY <1>2, <2>1, <2>2 DEF Lasts
  <1>5. \A a, b \in Lasts(rest) : F[a] = F[b] => a = b
    BY <1>1, <1>4
  <1>6. Cardinality(Lasts(rest)) <= Cardinality(Lasts(buf))
    <2>1. F \in [Lasts(rest) -> Lasts(buf)]
      BY <1>4
    <2> HIDE DEF F
    <2>2. F \in Injection(Lasts(rest), Lasts(buf))
      BY <1>5, <2>1, Fun_IsInj
    <2> QED BY <1>3, <2>2, FS_Injection
  <1>7. ASSUME NEW k \in 1..n, k \in Lasts(buf)
        PROVE  Cardinality(Lasts(rest)) <= Cardinality(Lasts(buf)) - 1
    <2> DEFINE T == Lasts(buf) \ {k}
    <2>1. F \in [Lasts(rest) -> T]
      BY <1>4
    <2>2. IsFiniteSet(T) /\ Cardinality(T) = Cardinality(Lasts(buf)) - 1
      BY <1>3, <1>7, FS_RemoveElement
    <2> HIDE DEF F, T
    <2>3. F \in Injection(Lasts(rest), T)
      BY <1>5, <2>1, Fun_IsInj
    <2>4. Cardinality(Lasts(rest)) <= Cardinality(T)
      BY <2>2, <2>3, FS_Injection
    <2> QED BY <2>2, <2>4
  <1> QED BY <1>6, <1>7

LEMMA LastsExtended ==
    ASSUME NEW buf \in Seq(Cell), NEW last \in Nat, Whole(buf, last, 1),
           NEW m \in Msg, m.id = last + 1, m.len > 0, NEW full, full = Extended(buf, m)
    PROVE  Cardinality(Lasts(full)) <= Cardinality(Lasts(buf)) + 1
  <1> DEFINE L == Len(buf)  n == SizeT + m.len
  <1>1. /\ full \in Seq(Cell) /\ Len(full) = L + n
        /\ \A k \in 1..L : full[k] = buf[k]
        /\ \A j \in 1..n : full[L + j].msg = m /\ full[L + j].off = j
    BY AppendMessage
  <1>2. L \in Nat /\ n \in Nat
    BY SizeAssumption DEF Msg
  <1>3. Lasts(full) \subseteq Lasts(buf) \cup {L + n}
    <2> SUFFICES ASSUME NEW k \in 1..(L + n), LastCell(full[k]), k \notin Lasts(buf) PROVE k = L + n
      BY <1>1 DEF Lasts
    <2>1. k \notin 1..L
      BY <1>1 DEF Lasts
    <2> HIDE DEF L, n
    <2>2. k - L \in 1..n /\ L + (k - L) = k
      BY <1>2, <2>1
    <2>3. full[k].msg = m /\ full[k].off = k - L
      BY <1>1, <2>2
    <2>4. k - L = n
      BY <2>3 DEF LastCell, n
    <2> QED BY <1>2, <2>2, <2>4
  <1>4. IsFiniteSet(Lasts(buf)) /\ Cardinality(Lasts(buf)) \in Nat /\ Cardinality(Lasts(full)) \in Nat
    BY <1>1, LastsFinite
  <1> DEFINE e == L + n  S == Lasts(buf) \cup {e}
  <1>a. Lasts(full) \in SUBSET S
    BY <1>3
  <1> HIDE DEF L, n, e
  <1>b. IsFiniteSet(S) /\ Cardinality(S) = IF e \in Lasts(buf) THEN Cardinality(Lasts(buf)) ELSE Cardinality(Lasts(buf)) + 1
    BY <1>4, FS_AddElement
  <1> HIDE DEF S
  <1>5. IsFiniteSet(S) /\ Cardinality(S) <= Cardinality(Lasts(buf)) + 1
    BY <1>4, <1>b
  <1>6. Cardinality(Lasts(full)) <= Cardinality(S)
    BY <1>a, <1>5, FS_Subset
  <1>7. Cardinality(S) \in Nat
    BY <1>5, FS_CardinalityType
  <1> QED BY <1>4, <1>5, <1>6, <1>7

-----------------------------------------------------------------------------
(* Sleepers and those on their way, before and after a step.               *)
LEMMA SubsetCount ==
    ASSUME NEW S, NEW T, S \subseteq T, T \subseteq Threads
    PROVE  /\ IsFiniteSet(S) /\ IsFiniteSet(T) /\ Cardinality(S) \in Nat /\ Cardinality(T) \in Nat
           /\ Cardinality(S) <= Cardinality(T)
           /\ \A t \in S : Cardinality(S \ {t}) = Cardinality(S) - 1
           /\ \A t \in T : t \notin S => Cardinality(S) + 1 <= Cardinality(T)
  <1>1. T \in SUBSET Threads /\ S \in SUBSET T /\ S \in SUBSET Threads
    OBVIOUS
  <1>2. IsFiniteSet(S) /\ IsFiniteSet(T)
    BY <1>1, FS_Subset, OwnerAssumption
  <1>3. Cardinality(S) <= Cardinality(T)
    BY <1>1, <1>2, FS_Subset
  <1>4. \A t \in S : Cardinality(S \ {t}) = Cardinality(S) - 1
    BY <1>2, FS_RemoveElement
  <1>5. ASSUME NEW t \in T, t \notin S PROVE Cardinality(S) + 1 <= Cardinality(T)
    <2>1. Cardinality(S \cup {t}) = Cardinality(S) + 1
      BY <1>2, <1>5, FS_AddElement
    <2>2. S \cup {t} \in SUBSET T
      BY <1>5
    <2> QED BY <1>2, <2>1, <2>2, FS_Subset
  <1> QED BY <1>2, <1>3, <1>4, <1>5, FS_CardinalityType

(* Nobody falls asleep or turns away, and the ring buffer stays as it is.  *)
LEMMA WaitKeep ==
    ASSUME NEW q, ReaderOK(q), WriterOK(q), mq'[q].buf = mq[q].buf,
           Waiting(q, "read_wait")' \subseteq Waiting(q, "read_wait"),
           Waiting(q, "write_wait")' \subseteq Waiting(q, "write_wait"),
           Readers(q) \subseteq Readers(q)', Looking(q) \subseteq Looking(q)',
           Waiting(q, "read_wait")' # {} => ~mq'[q].no_writers,
           Cardinality(Lasts(mq[q].buf)) \in Nat
    PROVE  ReaderOK(q)' /\ WriterOK(q)'
  <1>1. /\ Readers(q)' \subseteq Threads /\ Readers(q) \subseteq Readers(q)'
    BY DEF Readers
  <1>2. /\ Cardinality(Readers(q)) \in Nat /\ Cardinality(Readers(q)') \in Nat
        /\ Cardinality(Readers(q)) <= Cardinality(Readers(q)')
    BY <1>1, SubsetCount
  <1>3. WriterOK(q)'
    BY DEF WriterOK
  <1>4. ASSUME Waiting(q, "read_wait")' # {}
        PROVE  ~mq'[q].no_writers /\ Cardinality(Lasts(mq'[q].buf)) <= Cardinality(Readers(q)')
    <2>1. Cardinality(Lasts(mq[q].buf)) <= Cardinality(Readers(q))
      BY <1>4 DEF ReaderOK
    <2>2. Cardinality(Lasts(mq[q].buf)) <= Cardinality(Readers(q)')
      BY <1>2, <2>1
    <2> QED BY <1>4, <2>2
  <1>5. ReaderOK(q)'
    BY <1>4 DEF ReaderOK
  <1> QED BY <1>3, <1>5

(* What a step inside a critical section means to the other threads.       *)
LEMMA OthersStay ==
    ASSUME NEW t \in Threads, Others(t), NEW x
    PROVE  /\ Waiting(x, "read_wait")' \subseteq Waiting(x, "read_wait") \cup {t}
           /\ Waiting(x, "write_wait")' \subseteq Waiting(x, "write_wait") \cup {t}
           /\ Readers(x) \ {t} \subseteq Readers(x)'
           /\ Looking(x) \ {t} \subseteq Looking(x)'
  <1>1. ASSUME NEW u \in Threads \ {t}
        PROVE  /\ arg'[u] = arg[u]
               /\ \A l \in {"read_wait", "write_wait"} : pc'[u] = l => pc[u] = l
               /\ \A l \in ReadLabels \cup {"write_relock", "write_loop"} : pc[u] = l => pc'[u] = l
    BY DEF Others, Woken, ReadLabels
  <1>2. /\ Waiting(x, "read_wait")' \subseteq Waiting(x, "read_wait") \cup {t}
        /\ Waiting(x, "write_wait")' \subseteq Waiting(x, "write_wait") \cup {t}
    BY <1>1 DEF Waiting
  <1>3. Readers(x) \ {t} \subseteq Readers(x)'
    BY <1>1 DEF Readers
  <1>4. Looking(x) \ {t} \subseteq Looking(x)'
    BY <1>1 DEF Looking, Waiting
  <1> QED BY <1>2, <1>3, <1>4

LEMMA BufCount ==
    ASSUME MemoryInv, NEW q \in Queues
    PROVE  mq[q].buf \in Seq(Cell) /\ Cardinality(Lasts(mq[q].buf)) \in Nat
  <1>1. mq[q] \in Backend
    BY DEF MemoryInv, TypeOK
  <1>2. mq[q].buf \in Seq(Cell)
    BY <1>1 DEF Backend
  <1> QED BY <1>2, LastsFinite

(* Queues other than t's.                                                  *)
LEMMA WaitElsewhere ==
    ASSUME MemoryInv, WaitInv, NEW t \in Threads, NEW label, CriticalStep(t, label),
           NEW x \in Queues, x # arg[t].q
    PROVE  ReaderOK(x)' /\ WriterOK(x)'
  <1>1. /\ t \notin Readers(x) /\ t \notin Looking(x)
        /\ t \notin Waiting(x, "read_wait")' /\ t \notin Waiting(x, "write_wait")'
    <2>1. arg[t].q # x /\ arg'[t].q # x
      BY NoneAssumption DEF CriticalStep, NoArg
    <2> QED BY <2>1 DEF Readers, Looking, Waiting
  <1>2. Others(t) /\ mq'[x] = mq[x]
    BY DEF CriticalStep, Elsewhere
  <1>3. /\ Waiting(x, "read_wait")' \subseteq Waiting(x, "read_wait")
        /\ Waiting(x, "write_wait")' \subseteq Waiting(x, "write_wait")
        /\ Readers(x) \subseteq Readers(x)' /\ Looking(x) \subseteq Looking(x)'
    BY <1>1, <1>2, OthersStay
  <1>4. Waiting(x, "read_wait")' # {} => ~mq'[x].no_writers
    BY <1>2, <1>3 DEF WaitInv, ReaderOK
  <1>5. ReaderOK(x) /\ WriterOK(x) /\ Cardinality(Lasts(mq[x].buf)) \in Nat
    BY BufCount DEF WaitInv
  <1> QED BY <1>2, <1>3, <1>4, <1>5, WaitKeep

(* t's own queue, when the step leaves the ring buffer as it is and t is   *)
(* neither about to sleep nor turning away.                                *)
LEMMA WaitHere ==
    ASSUME MemoryInv, WaitInv, NEW t \in Threads, NEW label, CriticalStep(t, label),
           NEW q \in Queues, q = arg[t].q, mq'[q].buf = mq[q].buf,
           label \notin {"read_wait", "write_wait"}, pc[t] \notin {"write_relock", "write_loop"},
           pc[t] \in ReadLabels => label \in ReadLabels,
           Waiting(q, "read_wait")' # {} => ~mq'[q].no_writers
    PROVE  WaitInv'
  <1>1. pc'[t] = label /\ Others(t) /\ (label # "idle" => arg'[t].q = q)
    BY DEF CriticalStep
  <1>2. /\ Waiting(q, "read_wait")' \subseteq Waiting(q, "read_wait")
        /\ Waiting(q, "write_wait")' \subseteq Waiting(q, "write_wait")
    <2>1. t \notin Waiting(q, "read_wait")' /\ t \notin Waiting(q, "write_wait")'
      BY <1>1 DEF Waiting
    <2> QED BY <1>1, <2>1, OthersStay
  <1>3. Readers(q) \subseteq Readers(q)' /\ Looking(q) \subseteq Looking(q)'
    <2>1. t \notin Looking(q) /\ (t \in Readers(q) => t \in Readers(q)')
      BY <1>1 DEF Looking, Waiting, Readers, ReadLabels
    <2> QED BY <1>1, <2>1, OthersStay
  <1>4. ReaderOK(q)' /\ WriterOK(q)'
    <2>1. ReaderOK(q) /\ WriterOK(q) /\ Cardinality(Lasts(mq[q].buf)) \in Nat
      BY BufCount DEF WaitInv
    <2> QED BY <1>2, <1>3, <2>1, WaitKeep
  <1> QED BY <1>4, WaitElsewhere DEF WaitInv

(* Steps that wake nobody and do not touch the ring buffer.                *)
LEMMA PlainWait ==
    ASSUME MemoryInv, MemoryInv', ChannelInv, WaitInv, ReadersHaveRoom, NEW t \in Threads,
           OpenBody(t) \/ EndWakeup(t) \/ WriteReject(t) \/ ReadPeek(t)
    PROVE  WaitInv'
  <1>a. pc[t] \in Critical
    BY DEF OpenBody, EndWakeup, WriteReject, ReadPeek, Critical
  <1>2. PICK q \in Queues : q = arg[t].q
    BY <1>a, Inside
  <1>1. PICK label \in {"idle", "take"} :
           /\ CriticalStep(t, label) /\ mq'[q].buf = mq[q].buf
           /\ mq'[q].no_writers => mq[q].no_writers
           /\ pc[t] \in ReadLabels => label \in ReadLabels
           /\ pc[t] \in {"open", "wakeup", "write", "read"}
    <2>1. CASE OpenBody(t)
      BY <1>2, <2>1, OpenChannel DEF OpenBody, ReadLabels
    <2>2. CASE EndWakeup(t) \/ WriteReject(t)
      BY <1>2, <2>2, EndChannel DEF ReadLabels
    <2>3. CASE ReadPeek(t)
      BY <1>2, <2>3, PeekChannel DEF ReadPeek, ReadLabels
    <2> QED BY <2>1, <2>2, <2>3
  <1>3. Waiting(q, "read_wait")' # {} => ~mq'[q].no_writers
    <2>1. t \notin Waiting(q, "read_wait")'
      BY <1>1 DEF CriticalStep, Waiting
    <2>2. Waiting(q, "read_wait")' \subseteq Waiting(q, "read_wait")
      BY <1>1, <2>1, OthersStay DEF CriticalStep
    <2> QED BY <1>1, <1>2, <2>2 DEF WaitInv, ReaderOK
  <1> QED BY <1>1, <1>2, <1>3, WaitHere

(* A sleeper's queue has an open handle.                                   *)
SleepersHold == \A t \in Threads : pc[t] = "read_wait" => mq[arg[t].q].refs # 0

LEMMA SleepersCounted == MemoryInv => SleepersHold
  <1> SUFFICES ASSUME MemoryInv, NEW t \in Threads, pc[t] = "read_wait" PROVE mq[arg[t].q].refs # 0
    BY DEF SleepersHold
  <1>1. pc[t] \notin {"idle", "destroy"} \cup PollLabels
    BY DEF PollLabels
  <1> QED BY <1>1, InCallRefs

(* Closing: when the last writer goes, every sleeping reader is woken.     *)
LEMMA CloseWait ==
    ASSUME MemoryInv, MemoryInv', ChannelInv, WaitInv, NEW t \in Threads, CloseBody(t)
    PROVE  WaitInv'
  <1>1. pc[t] = "close" /\ pc[t] \in Critical /\ pc[t] \notin ReadLabels
    BY DEF CloseBody, Critical, ReadLabels
  <1>3. PICK q \in Queues : q = arg[t].q
    BY <1>1, Inside
  <1> DEFINE b == mq_close(mq[q], arg[t].flags)
  <1>2. /\ mq'[q].buf = mq[q].buf /\ mq'[q].no_writers = b.no_writers
        /\ \/ CriticalStep(t, "destroy") /\ mq'[q].refs = 0 /\ \A u \in Threads \ {t} : pc'[u] = pc[u]
           \/ CriticalStep(t, "idle") /\ \A u \in Threads \ {t} : pc'[u] = CloseBroadcast(q, b)[u]
    BY <1>3, CloseChannel
  <1> HIDE DEF b
  <1>4. ASSUME Waiting(q, "read_wait")' # {} PROVE ~mq'[q].no_writers
    <2>1. PICK u \in Threads : pc'[u] = "read_wait" /\ arg'[u].q = q
      BY <1>4 DEF Waiting
    <2>2. SleepersHold'
      BY SleepersCounted, PTL
    <2>3. mq'[q].refs # 0
      BY <2>1, <2>2 DEF SleepersHold
    <2>4. u # t /\ \A v \in Threads \ {t} : pc'[v] = CloseBroadcast(q, b)[v]
      BY <1>2, <2>1, <2>3 DEF CriticalStep
    <2>5. pc \in [Threads -> Label] /\ arg'[u] = arg[u]
      BY <1>2, <2>4 DEF MemoryInv, TypeOK, CriticalStep, Others
    <2>6. CloseBroadcast(q, b)[u] = "read_wait"
      BY <2>1, <2>4
    <2>7. pc[u] = "read_wait"
      BY <2>5, <2>6 DEF CloseBroadcast, cond_broadcast
    <2>8. u \in Waiting(q, "read_wait")
      BY <2>1, <2>5, <2>7 DEF Waiting
    <2>9. ~b.no_writers
      BY <2>5, <2>6, <2>8 DEF CloseBroadcast, cond_broadcast
    <2> QED BY <1>2, <2>9
  <1>5. CASE CriticalStep(t, "destroy")
    BY <1>1, <1>2, <1>3, <1>4, <1>5, WaitHere DEF ReadLabels
  <1>6. CASE CriticalStep(t, "idle")
    BY <1>1, <1>2, <1>3, <1>4, <1>6, WaitHere DEF ReadLabels
  <1> QED BY <1>2, <1>5, <1>6

(* A read that finds the queue empty leaves no message to anyone else.     *)
LEMMA EmptyWait ==
    ASSUME MemoryInv, MemoryInv', ChannelInv, WaitInv, NEW t \in Threads, ReadEmpty(t) \/ ReadEof(t)
    PROVE  WaitInv'
  <1>1. pc[t] = "read" /\ pc[t] \in Critical
    BY DEF ReadEmpty, ReadEof, Critical
  <1>a. PICK q \in Queues : q = arg[t].q
    BY <1>1, Inside
  <1>2. PICK label \in {"idle", "read_wait", "wakeup"} :
           /\ CriticalStep(t, label) /\ mq[q].buf = <<>> /\ mq'[q].buf = <<>>
           /\ mq'[q].no_writers = mq[q].no_writers
           /\ mq[q].no_writers => label = "wakeup"
    BY <1>a, EmptyChannel, EofChannel
  <1>3. q \in Queues /\ Others(t) /\ pc'[t] = label
    BY <1>2 DEF CriticalStep
  <1>4. ReaderOK(q)'
    <2> SUFFICES ASSUME Waiting(q, "read_wait")' # {}
                 PROVE  ~mq'[q].no_writers /\ Cardinality(Lasts(mq'[q].buf)) <= Cardinality(Readers(q)')
      BY DEF ReaderOK
    <2>1. ~mq'[q].no_writers
      <3> SUFFICES ASSUME mq[q].no_writers PROVE FALSE
        BY <1>2
      <3>1. t \notin Waiting(q, "read_wait")'
        BY <1>2, <1>3 DEF Waiting
      <3>2. Waiting(q, "read_wait") # {}
        BY <1>3, <3>1, OthersStay
      <3> QED BY <1>3, <3>2 DEF WaitInv, ReaderOK
    <2>2. Lasts(<<>>) = {}
      BY DEF Lasts
    <2>3. Cardinality(Lasts(mq'[q].buf)) = 0
      BY <1>2, <2>2, FS_EmptySet
    <2>4. Cardinality(Readers(q)') \in Nat
      BY SubsetCount DEF Readers
    <2> QED BY <2>1, <2>3, <2>4
  <1>5. WriterOK(q)'
    <2>1. t \notin Looking(q) /\ t \notin Waiting(q, "write_wait")'
      BY <1>1, <1>2, <1>3 DEF Looking, Waiting
    <2>2. Looking(q) \subseteq Looking(q)' /\ Waiting(q, "write_wait")' \subseteq Waiting(q, "write_wait")
      BY <1>3, <2>1, OthersStay
    <2> QED BY <1>2, <1>3, <2>2 DEF WaitInv, WriterOK
  <1> QED BY <1>a, <1>2, <1>4, <1>5, WaitElsewhere DEF WaitInv

(* Steps after which the ring buffer is not empty, and that leave as many  *)
(* readers for its messages.                                               *)
LEMMA BusyWait ==
    ASSUME MemoryInv, WaitInv, NEW t \in Threads, NEW label, CriticalStep(t, label),
           NEW q \in Queues, q = arg[t].q, mq'[q].buf # <<>>, label # "read_wait",
           mq'[q].no_writers = mq[q].no_writers,
           Waiting(q, "read_wait")' # {} =>
              \E n \in Nat : /\ Cardinality(Lasts(mq'[q].buf)) <= Cardinality(Lasts(mq[q].buf)) + n
                             /\ Cardinality(Readers(q)) + n <= Cardinality(Readers(q)'),
           Cardinality(Lasts(mq'[q].buf)) \in Nat
    PROVE  WaitInv'
  <1>1. WriterOK(q)'
    BY DEF WriterOK
  <1>2. ASSUME Waiting(q, "read_wait")' # {}
        PROVE  ~mq'[q].no_writers /\ Cardinality(Lasts(mq'[q].buf)) <= Cardinality(Readers(q)')
    <2>1. t \notin Waiting(q, "read_wait")' /\ Others(t)
      BY DEF CriticalStep, Waiting
    <2>2. Waiting(q, "read_wait") # {}
      BY <1>2, <2>1, OthersStay
    <2>3. ~mq[q].no_writers /\ Cardinality(Lasts(mq[q].buf)) <= Cardinality(Readers(q))
      BY <2>2 DEF WaitInv, ReaderOK
    <2>4. /\ Cardinality(Lasts(mq[q].buf)) \in Nat /\ Cardinality(Readers(q)) \in Nat
          /\ Cardinality(Readers(q)') \in Nat
      BY BufCount, SubsetCount DEF Readers
    <2> QED BY <1>2, <2>3, <2>4
  <1>3. ReaderOK(q)'
    BY <1>2 DEF ReaderOK
  <1> QED BY <1>1, <1>3, WaitElsewhere DEF WaitInv

LEMMA HeaderWait ==
    ASSUME MemoryInv, MemoryInv', ChannelInv, WaitInv, LengthsDontWrap, NEW t \in Threads,
           ReadHeader(t) \/ WriteWait(t)
    PROVE  WaitInv'
  <1>1. pc[t] \in Critical
    BY DEF ReadHeader, WriteWait, Accepted, Critical
  <1>2. PICK q \in Queues : q = arg[t].q
    BY <1>1, Inside
  <1>3. mq[q].buf \in Seq(Cell) /\ Cardinality(Lasts(mq[q].buf)) \in Nat
    BY BufCount
  <1>4. PICK label \in {"take_body", "write_wait"} :
           /\ CriticalStep(t, label) /\ mq'[q].buf # <<>> /\ mq'[q].no_writers = mq[q].no_writers
           /\ Cardinality(Lasts(mq'[q].buf)) <= Cardinality(Lasts(mq[q].buf))
           /\ mq'[q].buf \in Seq(Cell)
           /\ pc[t] \in ReadLabels => label = "take_body"
    <2>1. CASE ReadHeader(t)
      <3>1. /\ CriticalStep(t, "take_body") /\ SizeT < Len(mq[q].buf)
            /\ mq'[q].buf = SubSeq(mq[q].buf, SizeT + 1, Len(mq[q].buf))
            /\ mq'[q].buf # <<>> /\ mq'[q].no_writers = mq[q].no_writers
        BY <1>2, <2>1, HeaderChannel
      <3>2. SizeT \in 0..Len(mq[q].buf)
        BY <1>3, <3>1, SizeAssumption
      <3>3. Cardinality(Lasts(mq'[q].buf)) <= Cardinality(Lasts(mq[q].buf))
        BY <1>3, <3>1, <3>2, LastsDrop
      <3>4. mq'[q].buf \in Seq(Cell)
        BY DEF MemoryInv, TypeOK, Backend
      <3> QED BY <3>1, <3>3, <3>4
    <2>2. CASE WriteWait(t)
      <3>1. /\ CriticalStep(t, "write_wait") /\ mq'[q].buf = mq[q].buf /\ mq[q].buf # <<>>
            /\ mq'[q].no_writers = mq[q].no_writers
        BY <1>2, <2>2, WaitChannel
      <3>2. pc[t] \notin ReadLabels
        BY <2>2 DEF WriteWait, Accepted, ReadLabels
      <3> QED BY <1>3, <3>1, <3>2
    <2> QED BY <2>1, <2>2
  <1>5. Cardinality(Lasts(mq'[q].buf)) \in Nat
    BY <1>4, LastsFinite
  <1>6. Readers(q) \subseteq Readers(q)'
    <2>1. Others(t) /\ pc'[t] = label /\ arg'[t].q = q
      BY <1>2, <1>4 DEF CriticalStep
    <2>2. t \in Readers(q) => t \in Readers(q)'
      BY <1>4, <2>1 DEF Readers, ReadLabels
    <2> QED BY <2>1, <2>2, OthersStay
  <1>7. /\ Cardinality(Readers(q)) \in Nat /\ Cardinality(Readers(q)') \in Nat
        /\ Cardinality(Readers(q)) <= Cardinality(Readers(q)')
    BY <1>6, SubsetCount DEF Readers
  <1>8. /\ Cardinality(Lasts(mq'[q].buf)) <= Cardinality(Lasts(mq[q].buf)) + 0
        /\ Cardinality(Readers(q)) + 0 <= Cardinality(Readers(q)') /\ 0 \in Nat
    BY <1>3, <1>4, <1>7
  <1> QED BY <1>2, <1>4, <1>5, <1>8, BusyWait

(* A write stores one message and wakes one sleeper, if there is one.      *)
LEMMA PutWait ==
    ASSUME MemoryInv, MemoryInv', ChannelInv, WaitInv, LengthsDontWrap, NEW t \in Threads, WritePut(t)
    PROVE  WaitInv'
  <1>1. pc[t] \in Critical /\ pc[t] \notin ReadLabels \cup {"read_wait"}
    BY DEF WritePut, Accepted, Critical, ReadLabels
  <1>2. PICK q \in Queues : q = arg[t].q
    BY <1>1, Inside
  <1>3. /\ mq[q].buf \in Seq(Cell) /\ Cardinality(Lasts(mq[q].buf)) \in Nat
        /\ mq'[q].buf \in Seq(Cell) /\ Cardinality(Lasts(mq'[q].buf)) \in Nat
    <2>1. mq'[q].buf \in Seq(Cell)
      BY DEF MemoryInv, TypeOK, Backend
    <2> QED BY <2>1, BufCount, LastsFinite
  <1>4. PICK m \in Msg :
           /\ m.id = stored[q] + 1 /\ m.len > 0 /\ Whole(mq[q].buf, stored[q], 1)
           /\ mq'[q].buf = Extended(mq[q].buf, m)
           /\ CriticalStep(t, "idle") \/ CriticalStep(t, "wakeup")
           /\ mq'[q].no_writers = mq[q].no_writers
    BY <1>2, PutChannel
  <1>5. PICK pcs \in SignalReader(q) : \A u \in Threads \ {t} : pc'[u] = pcs[u]
    BY <1>2, PutChannel
  <1>6. PICK last \in Nat : last = stored[q]
    BY DEF MemoryInv, TypeOK
  <1>7. mq'[q].buf # <<>> /\ Cardinality(Lasts(mq'[q].buf)) <= Cardinality(Lasts(mq[q].buf)) + 1
    <2> DEFINE buf == mq[q].buf  full == mq'[q].buf
    <2>1. /\ buf \in Seq(Cell) /\ Whole(buf, last, 1) /\ m.id = last + 1 /\ m.len > 0
          /\ full = Extended(buf, m)
      BY <1>3, <1>4, <1>6
    <2> HIDE DEF buf, full
    <2>2. full # <<>> /\ Cardinality(Lasts(full)) <= Cardinality(Lasts(buf)) + 1
      BY <2>1, AppendMessage, LastsExtended
    <2> QED BY <2>2 DEF buf, full
  <1>8. ASSUME Waiting(q, "read_wait")' # {} PROVE Cardinality(Readers(q)) + 1 <= Cardinality(Readers(q)')
    <2>1. Others(t) /\ t \notin Waiting(q, "read_wait")' /\ t \notin Readers(q)
      BY <1>1, <1>4 DEF CriticalStep, Waiting, Readers
    <2>2. Waiting(q, "read_wait") # {} /\ Readers(q) \subseteq Readers(q)'
      BY <1>8, <2>1, OthersStay
    <2>3. PICK w \in Waiting(q, "read_wait") : pcs = [pc EXCEPT ![w] = "read_lock"]
      BY <1>5, <2>2 DEF SignalReader, cond_signal
    <2>4. w \in Threads \ {t} /\ pcs[w] = "read_lock" /\ arg'[w].q = q
      BY <1>1, <2>1, <2>3 DEF Waiting, MemoryInv, TypeOK, Others
    <2>5. w \in Readers(q)' /\ w \notin Readers(q)
      BY <1>5, <2>3, <2>4 DEF Readers, Waiting, ReadLabels
    <2> QED BY <2>2, <2>5, SubsetCount DEF Readers
  <1>9. 1 \in Nat
    OBVIOUS
  <1>10. CASE CriticalStep(t, "idle")
    BY <1>2, <1>3, <1>4, <1>7, <1>8, <1>9, <1>10, BusyWait
  <1>11. CASE CriticalStep(t, "wakeup")
    BY <1>2, <1>3, <1>4, <1>7, <1>8, <1>9, <1>11, BusyWait
  <1> QED BY <1>4, <1>10, <1>11

(* A read takes one message, and wakes a writer when it takes the last.    *)
LEMMA BodyWait ==
    ASSUME MemoryInv, MemoryInv', ChannelInv, WaitInv, NEW t \in Threads, ReadBody(t)
    PROVE  WaitInv'
  <1>1. pc[t] = "take_body" /\ pc[t] \in Critical /\ pc[t] \in ReadLabels
    BY DEF ReadBody, Critical, ReadLabels
  <1>2. PICK q \in Queues : q = arg[t].q
    BY <1>1, Inside
  <1> DEFINE buf == mq[q].buf  m == buf[1].msg
  <1>3. /\ CriticalStep(t, "wakeup") /\ buf # <<>> /\ m \in Msg /\ m.len > 0 /\ m.len \in 1..Len(buf)
        /\ mq'[q].buf = SubSeq(buf, m.len + 1, Len(buf)) /\ mq'[q].no_writers = mq[q].no_writers
        /\ Whole(buf, stored[q], SizeT + 1)
    BY <1>2, BodyChannel
  <1>4. PICK pcs \in SignalWriter(q) : \A u \in Threads \ {t} : pc'[u] = pcs[u]
    BY <1>2, BodyChannel
  <1>5. buf \in Seq(Cell) /\ Cardinality(Lasts(buf)) \in Nat /\ Cardinality(Lasts(mq'[q].buf)) \in Nat
    <2>1. mq'[q].buf \in Seq(Cell)
      BY DEF MemoryInv, TypeOK, Backend
    <2> QED BY <2>1, BufCount, LastsFinite
  <1>6. Cardinality(Lasts(mq'[q].buf)) <= Cardinality(Lasts(buf)) - 1
    <2> DEFINE n == m.len
    <2>1. mq[q] \in Backend
      BY DEF MemoryInv, TypeOK
    <2>2. \A j \in 1..n : buf[j].msg = m /\ buf[j].off = SizeT + j
      <3>1. BodyFirst(mq[q], m, stored[q])
        BY <1>3, <2>1, FrontBody
      <3> QED BY <3>1 DEF BodyFirst
    <2>3. n \in 1..Len(buf) /\ n \in 1..n /\ n \in 0..Len(buf)
      <3> HIDE DEF n
      <3>1. n \in 1..Len(buf)
        BY <1>3 DEF n
      <3> QED BY <1>5, <3>1
    <2>4. n \in Lasts(buf)
      BY <2>2, <2>3 DEF Lasts, LastCell
    <2> HIDE DEF n
    <2>5. mq'[q].buf = SubSeq(buf, n + 1, Len(buf))
      BY <1>3 DEF n
    <2> HIDE DEF buf
    <2> QED BY <1>5, <2>3, <2>4, <2>5, LastsDrop
  <1>7. Others(t) /\ pc'[t] = "wakeup"
    BY <1>3 DEF CriticalStep
  <1>8. ReaderOK(q)'
    <2> SUFFICES ASSUME Waiting(q, "read_wait")' # {}
                 PROVE  ~mq'[q].no_writers /\ Cardinality(Lasts(mq'[q].buf)) <= Cardinality(Readers(q)')
      BY DEF ReaderOK
    <2>1. t \notin Waiting(q, "read_wait")'
      BY <1>7 DEF Waiting
    <2>2. Waiting(q, "read_wait") # {} /\ Readers(q) \ {t} \subseteq Readers(q)'
      BY <1>7, <2>1, OthersStay
    <2>3. ~mq[q].no_writers /\ Cardinality(Lasts(buf)) <= Cardinality(Readers(q))
      BY <2>2 DEF WaitInv, ReaderOK
    <2>4. t \in Readers(q)
      BY <1>1, <1>2 DEF Readers
    <2>5. Cardinality(Readers(q)) \in Nat /\ Cardinality(Readers(q) \ {t}) = Cardinality(Readers(q)) - 1
      BY <2>4, SubsetCount DEF Readers
    <2>6. Cardinality(Readers(q)') \in Nat /\ Cardinality(Readers(q) \ {t}) <= Cardinality(Readers(q)')
      BY <2>2, SubsetCount DEF Readers
    <2> HIDE DEF buf
    <2> QED BY <1>3, <1>5, <1>6, <2>3, <2>5, <2>6
  <1>9. WriterOK(q)'
    <2> SUFFICES ASSUME Waiting(q, "write_wait")' # {} PROVE Looking(q)' # {}
      BY DEF WriterOK
    <2>1. t \notin Waiting(q, "write_wait")'
      BY <1>7 DEF Waiting
    <2>2. Waiting(q, "write_wait") # {}
      BY <1>7, <2>1, OthersStay
    <2>3. PICK w \in Waiting(q, "write_wait") : pcs = [pc EXCEPT ![w] = "write_relock"]
      BY <1>4, <2>2 DEF SignalWriter, cond_signal
    <2>4. w \in Threads \ {t} /\ pcs[w] = "write_relock" /\ arg'[w].q = q
      BY <1>1, <1>7, <2>3 DEF Waiting, MemoryInv, TypeOK, Others
    <2>5. w \in Looking(q)'
      BY <1>4, <2>4 DEF Looking, Waiting
    <2> QED BY <2>5
  <1> QED BY <1>2, <1>3, <1>8, <1>9, WaitElsewhere DEF WaitInv

-----------------------------------------------------------------------------
(* Steps outside critical sections put nobody to sleep and turn nobody     *)
(* away.                                                                   *)
LEMMA OutsideWait ==
    ASSUME MemoryInv, WaitInv, NEW t \in Threads,
           \A u \in Threads \ {t} : arg'[u] = arg[u] /\ pc'[u] = pc[u],
           pc'[t] \notin {"read_wait", "write_wait"},
           pc[t] \in ReadLabels => pc'[t] \in ReadLabels /\ arg'[t] = arg[t],
           pc[t] \in {"write_relock", "write_loop"} =>
              pc'[t] \in {"write_relock", "write_loop"} /\ arg'[t] = arg[t],
           \A q \in Queues : mq'[q].buf = mq[q].buf /\ mq'[q].no_writers = mq[q].no_writers
    PROVE  WaitInv'
  <1> SUFFICES ASSUME NEW q \in Queues PROVE ReaderOK(q)' /\ WriterOK(q)'
    BY DEF WaitInv
  <1>1. /\ Waiting(q, "read_wait")' \subseteq Waiting(q, "read_wait")
        /\ Waiting(q, "write_wait")' \subseteq Waiting(q, "write_wait")
    BY DEF Waiting
  <1>2. Readers(q) \subseteq Readers(q)'
    BY DEF Readers
  <1>3. Looking(q) \subseteq Looking(q)'
    BY DEF Looking, Waiting
  <1>4. ReaderOK(q) /\ WriterOK(q) /\ Cardinality(Lasts(mq[q].buf)) \in Nat
    BY BufCount DEF WaitInv
  <1>5. Waiting(q, "read_wait")' # {} => ~mq'[q].no_writers
    BY <1>1, <1>4 DEF ReaderOK
  <1> QED BY <1>1, <1>2, <1>3, <1>4, <1>5, WaitKeep

LEMMA StillWait == ASSUME WaitInv, UNCHANGED <<mq, pc, arg>> PROVE WaitInv'
  <1> SUFFICES ASSUME NEW q \in Queues PROVE ReaderOK(q)' /\ WriterOK(q)'
    BY DEF WaitInv
  <1>1. /\ \A l : Waiting(q, l)' = Waiting(q, l)
        /\ Readers(q)' = Readers(q) /\ Looking(q)' = Looking(q) /\ mq' = mq
    BY DEF Waiting, Readers, Looking
  <1> QED BY <1>1 DEF WaitInv, ReaderOK, WriterOK

LEMMA EnterWait ==
    ASSUME MemoryInv, WaitInv, NEW t \in Threads, pc[t] = "idle", NEW label, NEW a, Enter(t, label, a),
           label \notin {"read_wait", "write_wait"}
    PROVE  WaitInv'
  <1>1. /\ pc'[t] = label /\ \A u \in Threads \ {t} : arg'[u] = arg[u] /\ pc'[u] = pc[u]
        /\ mq' = mq
    BY DEF Enter, MemoryInv, TypeOK
  <1>2. pc[t] \notin ReadLabels /\ pc[t] \notin {"write_relock", "write_loop"}
    BY DEF ReadLabels
  <1> QED BY <1>1, <1>2, OutsideWait

LEMMA CreateWait ==
    ASSUME MemoryInv, WaitInv, NEW c \in CreateCalls, NEW b, mq[c.queue].status = "unborn",
           UNCHANGED <<pc, arg>>, mq' = [mq EXCEPT ![c.queue] = b]
    PROVE  WaitInv'
  <1> SUFFICES ASSUME NEW q \in Queues PROVE ReaderOK(q)' /\ WriterOK(q)'
    BY DEF WaitInv
  <1>1. /\ \A l : Waiting(q, l)' = Waiting(q, l)
        /\ Readers(q)' = Readers(q) /\ Looking(q)' = Looking(q)
    BY DEF Waiting, Readers, Looking
  <1>2. CASE q = c.queue
    <2>1. \A u \in Threads : arg[u].q # q
      BY <1>2, NoneAssumption DEF MemoryInv, NoUseAfterFree
    <2>2. \A l : Waiting(q, l) = {}
      BY <2>1 DEF Waiting
    <2> QED BY <1>1, <2>2 DEF ReaderOK, WriterOK
  <1>3. CASE q # c.queue
    <2>1. mq'[q] = mq[q]
      BY <1>3 DEF MemoryInv, TypeOK
    <2> QED BY <1>1, <2>1 DEF WaitInv, ReaderOK, WriterOK
  <1> QED BY <1>2, <1>3

LEMMA CallWait == ASSUME MemoryInv, WaitInv, Call PROVE WaitInv'
  <1>a. ASSUME NEW t, NEW errno, Refuse(t, errno) PROVE WaitInv'
    BY <1>a, StillWait DEF Refuse
  <1>b. \A s \in Slots : SlotOwner[s] \in Threads
    BY OwnerAssumption
  <1>1. ASSUME NEW c \in CreateCalls, msg_queue_create(c) PROVE WaitInv'
    <2>1. CASE \E errno : Refuse(SlotOwner[c.slot], errno)
      BY <1>a, <2>1
    <2>2. CASE ~\E errno : Refuse(SlotOwner[c.slot], errno)
      <3>1. mq[c.queue].status = "unborn" /\ UNCHANGED <<pc, arg>> /\ \E b : mq' = [mq EXCEPT ![c.queue] = b]
        BY <1>1, <2>2 DEF msg_queue_create
      <3> QED BY <3>1, CreateWait
    <2> QED BY <2>1, <2>2
  <1>2. ASSUME NEW c \in OpenCalls, msg_queue_open(c) PROVE WaitInv'
    <2>1. /\ pc[SlotOwner[c.slot]] = "idle"
          /\ \/ \E errno : Refuse(SlotOwner[c.slot], errno)
             \/ \E a : Enter(SlotOwner[c.slot], "open_lock", a)
      BY <1>2 DEF msg_queue_open
    <2> QED BY <1>a, <1>b, <2>1, EnterWait, CallAssumption
  <1>3. ASSUME NEW s \in CloseCalls, msg_queue_close(s) PROVE WaitInv'
    <2>1. /\ pc[SlotOwner[s]] = "idle"
          /\ \/ \E errno : Refuse(SlotOwner[s], errno)
             \/ \E a : Enter(SlotOwner[s], "close_lock", a)
      BY <1>3 DEF msg_queue_close
    <2> QED BY <1>a, <1>b, <2>1, EnterWait, CallAssumption
  <1>4. ASSUME NEW c \in ReadCalls, msg_queue_read(c) PROVE WaitInv'
    <2>1. /\ pc[SlotOwner[c.slot]] = "idle"
          /\ \/ \E errno : Refuse(SlotOwner[c.slot], errno)
             \/ \E a : Enter(SlotOwner[c.slot], "read_lock", a)
      BY <1>4 DEF msg_queue_read
    <2> QED BY <1>a, <1>b, <2>1, EnterWait, CallAssumption
  <1>5. ASSUME NEW c \in WriteCalls, msg_queue_write(c) PROVE WaitInv'
    <2>1. /\ pc[SlotOwner[c.slot]] = "idle"
          /\ \/ \E errno : Refuse(SlotOwner[c.slot], errno)
             \/ \E a : Enter(SlotOwner[c.slot], "write_lock", a)
      BY <1>5 DEF msg_queue_write
    <2> QED BY <1>a, <1>b, <2>1, EnterWait, CallAssumption
  <1> QED BY <1>1, <1>2, <1>3, <1>4, <1>5 DEF Call

LEMMA LockWait ==
    ASSUME MemoryInv, WaitInv, NEW t \in Threads, Lock(t) \/ SpuriousWakeup(t) \/ Destroy(t)
    PROVE  WaitInv'
  <1>1. /\ mq \in [Queues -> Backend] /\ pc \in [Threads -> Label] /\ arg \in [Threads -> Arg]
    BY DEF MemoryInv, TypeOK
  <1>2. PICK label :
           /\ pc' = [pc EXCEPT ![t] = label] /\ label \notin {"read_wait", "write_wait"}
           /\ pc[t] \in ReadLabels => label \in ReadLabels /\ arg' = arg
           /\ pc[t] \in {"write_relock", "write_loop"} => label \in {"write_relock", "write_loop"} /\ arg' = arg
           /\ \A u \in Threads \ {t} : arg'[u] = arg[u]
    <2>1. CASE Lock(t)
      <3>1. pc[t] \in LockLabels /\ pc' = [pc EXCEPT ![t] = Locked(pc[t])] /\ arg' = arg
        BY <2>1 DEF Lock
      <3>2. /\ Locked(pc[t]) \notin {"read_wait", "write_wait"}
            /\ pc[t] \in ReadLabels => Locked(pc[t]) \in ReadLabels
            /\ pc[t] \in {"write_relock", "write_loop"} => Locked(pc[t]) \in {"write_relock", "write_loop"}
        BY <3>1 DEF LockLabels, Locked, ReadLabels
      <3> QED BY <3>1, <3>2
    <2>2. CASE SpuriousWakeup(t)
      BY <2>2 DEF SpuriousWakeup, ReadLabels
    <2>3. CASE Destroy(t)
      BY <1>1, <2>3 DEF Destroy, Leave, ReadLabels
    <2> QED BY <2>1, <2>2, <2>3
  <1>3. \A q \in Queues : mq'[q].buf = mq[q].buf /\ mq'[q].no_writers = mq[q].no_writers
    <2>1. CASE Lock(t)
      BY <1>1, <2>1 DEF Lock, Backend
    <2>2. CASE SpuriousWakeup(t)
      BY <2>2 DEF SpuriousWakeup
    <2>3. CASE Destroy(t)
      BY <1>1, <2>3 DEF Destroy, Backend
    <2> QED BY <2>1, <2>2, <2>3
  <1>4. pc'[t] = label /\ \A u \in Threads \ {t} : arg'[u] = arg[u] /\ pc'[u] = pc[u]
    BY <1>1, <1>2
  <1> QED BY <1>2, <1>3, <1>4, OutsideWait

-----------------------------------------------------------------------------
LEMMA WaitInit == Init => WaitInv
  <1> SUFFICES ASSUME Init, NEW q \in Queues PROVE ReaderOK(q) /\ WriterOK(q)
    BY DEF WaitInv
  <1>1. Waiting(q, "read_wait") = {} /\ Waiting(q, "write_wait") = {}
    BY DEF Init, Waiting
  <1> QED BY <1>1 DEF ReaderOK, WriterOK

LEMMA WaitStep ==
    ReadersHaveRoom /\ LengthsDontWrap /\ MemoryInv /\ ChannelInv /\ WaitInv /\ [Next]_vars => WaitInv'
  <1> SUFFICES ASSUME ReadersHaveRoom, LengthsDontWrap, MemoryInv, ChannelInv, WaitInv, [Next]_vars
               PROVE  WaitInv'
    OBVIOUS
  <1>0. MemoryInv'
    BY MemoryStep
  <1>1. CASE Call
    BY <1>1, CallWait
  <1>2. ASSUME NEW t \in Threads, Lock(t) \/ Progress(t) \/ SpuriousWakeup(t) PROVE WaitInv'
    <2>1. CASE Lock(t) \/ SpuriousWakeup(t) \/ Destroy(t)
      BY <2>1, LockWait
    <2>2. CASE OpenBody(t) \/ EndWakeup(t) \/ WriteReject(t) \/ ReadPeek(t)
      BY <1>0, <2>2, PlainWait
    <2>3. CASE CloseBody(t)
      BY <1>0, <2>3, CloseWait
    <2>4. CASE ReadEmpty(t) \/ ReadEof(t)
      BY <1>0, <2>4, EmptyWait
    <2>5. CASE ReadHeader(t) \/ WriteWait(t)
      BY <1>0, <2>5, HeaderWait
    <2>6. CASE ReadBody(t)
      BY <1>0, <2>6, BodyWait
    <2>7. CASE WritePut(t)
      BY <1>0, <2>7, PutWait
    <2> QED BY <1>2, <2>1, <2>2, <2>3, <2>4, <2>5, <2>6, <2>7 DEF Progress
  <1>3. CASE UNCHANGED vars
    BY <1>3, StillWait DEF vars
  <1> QED BY <1>1, <1>2, <1>3 DEF Next

(* No reader sleeps through a message or the end of file, and readers and  *)
(* writers never all wait for one another, however many threads share a    *)
(* queue and although every read and every write signals only once.        *)
THEOREM NobodyStranded ==
    ASSUME ReadersHaveRoom, LengthsDontWrap
    PROVE  Spec => [](NoStrandedReader /\ NoMutualWait)
  <1>1. Init => MemoryInv /\ ChannelInv /\ WaitInv
    BY MemoryInit, ChannelInit, WaitInit
  <1>2. MemoryInv /\ ChannelInv /\ WaitInv /\ [Next]_vars => (MemoryInv /\ ChannelInv /\ WaitInv)'
    BY MemoryStep, ChannelStep, WaitStep
  <1>3. WaitInv => NoStrandedReader /\ NoMutualWait
    BY DEF WaitInv, ReaderOK, WriterOK, NoStrandedReader, NoMutualWait, Messages, Lasts, Readers, Looking
  <1> QED BY <1>1, <1>2, <1>3, PTL DEF Spec

=============================================================================
