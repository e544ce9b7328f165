------------------------------ MODULE MsgQueue ------------------------------
(***************************************************************************)
(* The message queue of msg_queue.c without msg_queue_poll (MsgQueuePoll   *)
(* adds it): queue backends, the handles that refer to them, and threads   *)
(* that create, open, close, read and write.  A call is a sequence of      *)
(* steps.  One step acquires the backend's mutex, later ones run the       *)
(* critical section up to the next place where another thread can get in:  *)
(* a wait on a condition variable, the lock of a poll mutex, the unlock.   *)
(*                                                                         *)
(* The ring buffer is the byte FIFO that module RingBuffer implements.  A  *)
(* byte is a record saying which message it comes from and at which offset,*)
(* so that a read that starts in the middle of a message is visible.       *)
(***************************************************************************)
EXTENDS Integers, Sequences, FiniteSets, Sync

CONSTANTS
    Threads,
    Queues,       \* memory for the backends; each is allocated at most once
    Slots,        \* the clients' msg_queue_t variables
    SlotOwner,    \* the thread that uses the variable
    SizeT,        \* sizeof(size_t)
    SizeMod,      \* number of values of a size_t
    CreateCalls, OpenCalls, CloseCalls, ReadCalls, WriteCalls,
                  \* the calls the clients may make, with their arguments
    UninitEvents, \* what queue_event can hold in memory fresh from malloc
    GarbageSizes, \* what bytes that are not a size can read as
    MaxWrites,    \* bound: messages stored per queue
    Spurious      \* whether condition variables wake up spuriously

Flag  == {"READER", "WRITER", "NONBLOCK"}                        \* ALL_FLAGS
Event == {"READABLE", "WRITABLE", "NOREADERS", "NOWRITERS"}      \* MQPOLL_*

ASSUME NoneAssumption == None \notin Threads \cup Queues \cup Slots
ASSUME OwnerAssumption == SlotOwner \in [Slots -> Threads] /\ IsFiniteSet(Slots) /\ IsFiniteSet(Threads)
ASSUME SizeAssumption == /\ SizeT \in Nat \ {0}
                         /\ SizeMod \in Nat \ {0}
                         /\ GarbageSizes \subseteq 0..(SizeMod - 1)
                         /\ MaxWrites \in Nat
                         /\ UninitEvents \subseteq SUBSET Event
                         /\ Spurious \in BOOLEAN
ASSUME CallAssumption ==
    LET AnyFlags == SUBSET (Flag \cup {"INVALID"}) IN
    /\ CreateCalls \subseteq [slot : Slots, queue : Queues, capacity : 0..(SizeMod - 1), flags : AnyFlags]
    /\ OpenCalls \subseteq [slot : Slots, dst : Slots, flags : AnyFlags]
    /\ CloseCalls \subseteq Slots
    /\ ReadCalls \subseteq [slot : Slots, len : 0..(SizeMod - 1)]
    /\ WriteCalls \subseteq [slot : Slots, len : 0..(SizeMod - 1)]

VARIABLES
    mq,      \* the backends (struct mq_backend)
    handle,  \* value of each msg_queue_t variable: backend and flags
    pc,      \* where each thread is in its call
    arg,     \* arguments and locals of the call
    ret,     \* return value or errno of the thread's latest call
    scan,    \* waiting_nodes helper_wakeup has still to visit
    pollm,   \* owner of the poll_mutex of the thread's poll call
    stored,  \* messages stored so far per queue (names the messages)
    rcvd     \* messages handed to readers so far per queue, in order

vars == <<mq, handle, pc, arg, ret, scan, pollm, stored, rcvd>>

NullHandle == [q |-> None, flags |-> {}]                 \* MSG_QUEUE_NULL
NoArg == [slot |-> None, dst |-> None, q |-> None, flags |-> {},
          len |-> 0, head |-> 0, rv |-> "none"]

-----------------------------------------------------------------------------
(* Messages in the ring buffer: the size component, then the body.         *)
HeaderOf(m) == [k \in 1..SizeT |-> [msg |-> m, off |-> k]]
BodyOf(m) == [k \in 1..m.len |-> [msg |-> m, off |-> SizeT + k]]

ring_buffer_used(b) == Len(b.buf)
ring_buffer_free(b) == b.size - Len(b.buf)
ring_buffer_write(b, data) ==
    IF Len(data) > ring_buffer_free(b) THEN b ELSE [b EXCEPT !.buf = @ \o data]
ring_buffer_read(b, n) ==
    IF n > Len(b.buf) THEN b ELSE [b EXCEPT !.buf = SubSeq(@, n + 1, Len(@))]

(* The values msg_head can get from the first sizeof(size_t) bytes.        *)
SizeAt(b) ==
    IF /\ Len(b.buf) >= SizeT
       /\ \A k \in 1..SizeT : b.buf[k] = [msg |-> b.buf[1].msg, off |-> k]
    THEN {b.buf[1].msg.len} ELSE GarbageSizes

(* The message a reader gets in its buffer, None if the bytes are not one. *)
Received(b, n) ==
    IF n <= Len(b.buf) /\ n > 0 /\ SubSeq(b.buf, 1, n) = BodyOf(b.buf[1].msg)
    THEN b.buf[1].msg ELSE None

-----------------------------------------------------------------------------
(* mq_init and malloc: queue_event is not initialised.                     *)
mq_init(capacity, event) ==
    [status |-> "live", size |-> capacity, buf |-> <<>>, refs |-> 0,
     readers |-> 0, writers |-> 0, no_readers |-> FALSE, no_writers |-> FALSE,
     mutex |-> None, queue_event |-> event, list |-> <<>>]

Unborn == [mq_init(0, {}) EXCEPT !.status = "unborn"]

(* Mutant: opening the first reader again leaves no_readers set.           *)
MutantStickyNoReaders(b, flags) ==
    [b EXCEPT !.refs = @ + 1,
              !.readers = IF "READER" \in flags THEN @ + 1 ELSE @,
              !.writers = IF "WRITER" \in flags THEN @ + 1 ELSE @,
              !.no_writers = @ /\ "WRITER" \notin flags]

mq_open(b, flags) ==
    [b EXCEPT !.refs = @ + 1,
              !.readers = IF "READER" \in flags THEN @ + 1 ELSE @,
              !.no_readers = @ /\ "READER" \notin flags,
              !.writers = IF "WRITER" \in flags THEN @ + 1 ELSE @,
              !.no_writers = @ /\ "WRITER" \notin flags]

(* Mutant: the counters go down whatever the flags of the handle.          *)
MutantCountsAll(b, flags) ==
    [b EXCEPT !.refs = @ - 1,
              !.readers = @ - 1, !.no_readers = @ \/ b.readers = 1,
              !.writers = @ - 1, !.no_writers = @ \/ b.writers = 1]

mq_close(b, flags) ==
    [b EXCEPT !.refs = @ - 1,
              !.readers = IF "READER" \in flags THEN @ - 1 ELSE @,
              !.no_readers = @ \/ ("READER" \in flags /\ b.readers = 1),
              !.writers = IF "WRITER" \in flags THEN @ - 1 ELSE @,
              !.no_writers = @ \/ ("WRITER" \in flags /\ b.writers = 1)]

(* Whether mq_close closed the last handle.  Mutant: the queue goes with   *)
(* the last handle of either kind.                                         *)
MutantOneSideGone(b) == b.readers = 0 \/ b.writers = 0
LastHandle(b) == b.refs = 0

(* The flags that msg_queue_close raises for pollers.  Mutant: the last    *)
(* reader's close only tells that writing does not block.                  *)
MutantNoNoReaders(b) == (IF b.no_readers THEN {"WRITABLE"} ELSE {})
                   \cup (IF b.no_writers THEN {"READABLE", "NOWRITERS"} ELSE {})
CloseEvents(b) == (IF b.no_readers THEN {"WRITABLE", "NOREADERS"} ELSE {})
             \cup (IF b.no_writers THEN {"READABLE", "NOWRITERS"} ELSE {})

Waiting(q, label) == {t \in Threads : pc[t] = label /\ arg[t].q = q}

-----------------------------------------------------------------------------
(* How calls begin and end.  Clients use a variable from one thread, and   *)
(* pass a handle to another thread by opening it into that thread's        *)
(* variable (prodcon.c, multiprod.c).                                      *)
Vacant(s) == handle[s] = NullHandle /\ \A t \in Threads : arg[t].dst # s

Refuse(t, errno) == /\ ret' = [ret EXCEPT ![t] = errno]
                    /\ UNCHANGED <<mq, handle, pc, arg, scan, pollm, stored, rcvd>>

Enter(t, label, a) == /\ pc' = [pc EXCEPT ![t] = label]
                      /\ arg' = [arg EXCEPT ![t] = a]
                      /\ ret' = [ret EXCEPT ![t] = "none"]
                      /\ UNCHANGED <<mq, handle, scan, pollm, stored, rcvd>>

Leave(t, r) == /\ arg' = [arg EXCEPT ![t] = NoArg]
               /\ ret' = [ret EXCEPT ![t] = r]

WithHandle(s) == [NoArg EXCEPT !.slot = s, !.q = handle[s].q, !.flags = handle[s].flags]

(* msg_queue_create: the backend is private until the handle is returned.  *)
msg_queue_create(c) ==
    LET t == SlotOwner[c.slot]
        valid == c.flags \subseteq Flag /\ c.capacity >= SizeT + 1 IN
    /\ pc[t] = "idle" /\ Vacant(c.slot)
    /\ \/ ~valid /\ Refuse(t, "EINVAL")
       \/ valid /\ Refuse(t, "ENOMEM")
       \/ /\ valid /\ mq[c.queue].status = "unborn"
          /\ \E event \in UninitEvents :
                mq' = [mq EXCEPT ![c.queue] = mq_open(mq_init(c.capacity, event), c.flags)]
          /\ handle' = [handle EXCEPT ![c.slot] = [q |-> c.queue, flags |-> c.flags]]
          /\ ret' = [ret EXCEPT ![t] = "OK"]
          /\ UNCHANGED <<pc, arg, scan, pollm, stored, rcvd>>

msg_queue_open(c) ==
    LET t == SlotOwner[c.slot] IN
    /\ pc[t] = "idle" /\ Vacant(c.dst)
    /\ \/ handle[c.slot] = NullHandle /\ Refuse(t, "EBADF")
       \/ handle[c.slot] # NullHandle /\ ~(c.flags \subseteq Flag) /\ Refuse(t, "EINVAL")
       \/ /\ handle[c.slot] # NullHandle /\ c.flags \subseteq Flag
          /\ Enter(t, "open_lock", [WithHandle(c.slot) EXCEPT !.dst = c.dst, !.flags = c.flags])

msg_queue_close(s) ==
    LET t == SlotOwner[s] IN
    /\ pc[t] = "idle"
    /\ \/ handle[s] = NullHandle /\ Refuse(t, "EBADF")
       \/ handle[s] # NullHandle /\ Enter(t, "close_lock", WithHandle(s))

msg_queue_read(c) ==
    LET t == SlotOwner[c.slot] IN
    /\ pc[t] = "idle"
    /\ \/ "READER" \notin handle[c.slot].flags /\ Refuse(t, "EBADF")
       \/ /\ "READER" \in handle[c.slot].flags
          /\ Enter(t, "read_lock", [WithHandle(c.slot) EXCEPT !.len = c.len])

msg_queue_write(c) ==
    LET t == SlotOwner[c.slot] IN
    /\ pc[t] = "idle"
    /\ \/ "WRITER" \notin handle[c.slot].flags /\ Refuse(t, "EBADF")
       \/ "WRITER" \in handle[c.slot].flags /\ c.len = 0 /\ Refuse(t, "EINVAL")
       \/ /\ "WRITER" \in handle[c.slot].flags /\ c.len # 0
          /\ stored[handle[c.slot].q] < MaxWrites
          /\ Enter(t, "write_lock", [WithHandle(c.slot) EXCEPT !.len = c.len])

-----------------------------------------------------------------------------
(* mutex_lock of the backend's mutex.                                      *)
LockLabels == {"open_lock", "close_lock", "read_lock", "write_lock", "write_relock"}
Locked(label) == CASE label = "open_lock" -> "open"
                   [] label = "close_lock" -> "close"
                   [] label = "read_lock" -> "read"
                   [] label = "write_lock" -> "write"
                   [] label = "write_relock" -> "write_loop"

Lock(t) == LET q == arg[t].q IN
    /\ pc[t] \in LockLabels
    /\ mutex_available(mq[q].mutex)
    /\ mq' = [mq EXCEPT ![q].mutex = t]
    /\ pc' = [pc EXCEPT ![t] = Locked(pc[t])]
    /\ UNCHANGED <<handle, arg, ret, scan, pollm, stored, rcvd>>

OpenBody(t) == LET q == arg[t].q IN
    /\ pc[t] = "open"
    /\ mq' = [mq EXCEPT ![q] = mutex_unlock(mq_open(@, arg[t].flags))]
    /\ handle' = [handle EXCEPT ![arg[t].dst] = [q |-> q, flags |-> arg[t].flags]]
    /\ pc' = [pc EXCEPT ![t] = "idle"]
    /\ Leave(t, "OK")
    /\ UNCHANGED <<scan, pollm, stored, rcvd>>

(* The broadcasts of msg_queue_close.  Mutant: they are missing.           *)
MutantNoBroadcast(q, b) == pc
CloseBroadcast(q, b) ==
    cond_broadcast(cond_broadcast(pc, IF b.no_readers THEN Waiting(q, "write_wait") ELSE {}, "write_relock"),
                   IF b.no_writers THEN Waiting(q, "read_wait") ELSE {}, "read_lock")

(* msg_queue_close under the mutex.  The last handle destroys the queue    *)
(* after the unlock; otherwise the waiters are woken, but no poller is.    *)
CloseBody(t) ==
    LET q == arg[t].q
        b == mq_close(mq[q], arg[t].flags) IN
    /\ pc[t] = "close"
    /\ handle' = [handle EXCEPT ![arg[t].slot] = NullHandle]
    /\ IF LastHandle(b)
       THEN /\ mq' = [mq EXCEPT ![q] = mutex_unlock(b)]
            /\ pc' = [pc EXCEPT ![t] = "destroy"]
            /\ UNCHANGED <<arg, ret>>
       ELSE /\ mq' = [mq EXCEPT ![q] = mutex_unlock([b EXCEPT !.queue_event = @ \cup CloseEvents(b)])]
            /\ pc' = [CloseBroadcast(q, b) EXCEPT ![t] = "idle"]
            /\ Leave(t, "OK")
    /\ UNCHANGED <<scan, pollm, stored, rcvd>>

(* mq_destroy and free.                                                    *)
Destroy(t) ==
    /\ pc[t] = "destroy"
    /\ mq' = [mq EXCEPT ![arg[t].q].status = "freed"]
    /\ pc' = [pc EXCEPT ![t] = "idle"]
    /\ Leave(t, "OK")
    /\ UNCHANGED <<handle, scan, pollm, stored, rcvd>>

-----------------------------------------------------------------------------
(* helper_wakeup visits the waiting_nodes in the queue's list, under the   *)
(* mutex; the call returns r afterwards.  Only polls put nodes in the list *)
(* (WakeNode of MsgQueuePoll visits one).                                  *)
BeginWakeup(t, pcs, r, b) ==
    /\ mq' = [mq EXCEPT ![arg[t].q] = b]
    /\ pc' = [pcs EXCEPT ![t] = "wakeup"]
    /\ scan' = [scan EXCEPT ![t] = b.list]
    /\ arg' = [arg EXCEPT ![t].rv = r]

EndWakeup(t) ==
    /\ pc[t] = "wakeup" /\ scan[t] = <<>>
    /\ mq' = [mq EXCEPT ![arg[t].q] = mutex_unlock(@)]
    /\ pc' = [pc EXCEPT ![t] = "idle"]
    /\ Leave(t, arg[t].rv)
    /\ UNCHANGED <<handle, scan, pollm, stored, rcvd>>

-----------------------------------------------------------------------------
(* msg_queue_read under the mutex: end of file, EAGAIN, wait, or peek.     *)
ReadEof(t) == LET b == mq[arg[t].q] IN
    /\ pc[t] = "read" /\ ring_buffer_used(b) = 0 /\ b.no_writers
    /\ BeginWakeup(t, pc, "EOF", [b EXCEPT !.queue_event = @ \cup {"NOWRITERS"}])
    /\ UNCHANGED <<handle, ret, pollm, stored, rcvd>>

ReadEmpty(t) == LET b == mq[arg[t].q] IN
    /\ pc[t] = "read" /\ ring_buffer_used(b) = 0 /\ ~b.no_writers
    /\ mq' = [mq EXCEPT ![arg[t].q] = mutex_unlock(@)]
    /\ IF "NONBLOCK" \in arg[t].flags
       THEN pc' = [pc EXCEPT ![t] = "idle"] /\ Leave(t, "EAGAIN")
       ELSE pc' = [pc EXCEPT ![t] = "read_wait"] /\ UNCHANGED <<arg, ret>>
    /\ UNCHANGED <<handle, scan, pollm, stored, rcvd>>

(* A buffer shorter than the message sets errno and unlocks the mutex, but *)
(* the code then goes on to take the message and returns its size.         *)
ReadPeek(t) == LET b == mq[arg[t].q] IN
    /\ pc[t] = "read" /\ ring_buffer_used(b) # 0
    /\ \E n \in SizeAt(b) :
          /\ arg' = [arg EXCEPT ![t].head = n]
          /\ mq' = IF arg[t].len < n THEN [mq EXCEPT ![arg[t].q] = mutex_unlock(@)] ELSE mq
    /\ pc' = [pc EXCEPT ![t] = "take"]
    /\ UNCHANGED <<handle, ret, scan, pollm, stored, rcvd>>

ReadHeader(t) == LET b == mq[arg[t].q] IN
    /\ pc[t] = "take"
    /\ \E n \in SizeAt(b) :
          arg' = [arg EXCEPT ![t].head = IF SizeT > ring_buffer_used(b) THEN @ ELSE n]
    /\ mq' = [mq EXCEPT ![arg[t].q] = ring_buffer_read(@, SizeT)]
    /\ pc' = [pc EXCEPT ![t] = "take_body"]
    /\ UNCHANGED <<handle, ret, scan, pollm, stored, rcvd>>

(* The event flags after a read: READABLE goes when the queue is empty.    *)
(* Mutant: it stays.                                                       *)
MutantStaysReadable(b) == b.queue_event \cup {"WRITABLE"}
ReadEvents(b) ==
    (IF ring_buffer_used(b) = 0 /\ ~b.no_writers
     THEN b.queue_event \ {"READABLE"} ELSE b.queue_event) \cup {"WRITABLE"}

(* cond_signal(&mq->space_full).  Mutant: it is missing.                   *)
MutantNoSignal(q) == {pc}
SignalWriter(q) == cond_signal(pc, Waiting(q, "write_wait"), "write_relock")

ReadBody(t) ==
    LET q == arg[t].q
        b == ring_buffer_read(mq[q], arg[t].head) IN
    /\ pc[t] = "take_body"
    /\ rcvd' = [rcvd EXCEPT ![q] = Append(@, Received(mq[q], arg[t].head))]
    /\ \E pcs \in SignalWriter(q) :
          BeginWakeup(t, pcs, "MSG", [b EXCEPT !.queue_event = ReadEvents(b)])
    /\ UNCHANGED <<handle, ret, pollm, stored>>

-----------------------------------------------------------------------------
(* msg_queue_write under the mutex.  The rejections are only tested by a   *)
(* call that has not waited yet.                                           *)
Needed(len) == (len + SizeT) % SizeMod                \* length+sizeof(size_t)
Rejection(b, len) == IF b.no_readers THEN "EPIPE"
                     ELSE IF b.size <= Needed(len) THEN "EMSGSIZE" ELSE "none"

(* Mutant: an early return keeps the mutex.                                *)
MutantNoUnlock(t) == LET r == Rejection(mq[arg[t].q], arg[t].len) IN
    /\ pc[t] = "write" /\ r # "none"
    /\ pc' = [pc EXCEPT ![t] = "idle"]
    /\ Leave(t, r)
    /\ UNCHANGED <<mq, handle, scan, pollm, stored, rcvd>>

WriteReject(t) == LET r == Rejection(mq[arg[t].q], arg[t].len) IN
    /\ pc[t] = "write" /\ r # "none"
    /\ mq' = [mq EXCEPT ![arg[t].q] = mutex_unlock(@)]
    /\ pc' = [pc EXCEPT ![t] = "idle"]
    /\ Leave(t, r)
    /\ UNCHANGED <<handle, scan, pollm, stored, rcvd>>

Accepted(t) == \/ pc[t] = "write" /\ Rejection(mq[arg[t].q], arg[t].len) = "none"
               \/ pc[t] = "write_loop"

(* Mutant: room for the body is enough.                                    *)
MutantBodyOnly(b, len) == ring_buffer_free(b) >= len
HasSpace(b, len) == ring_buffer_free(b) >= Needed(len)

WriteWait(t) ==
    /\ Accepted(t) /\ ~HasSpace(mq[arg[t].q], arg[t].len)
    /\ mq' = [mq EXCEPT ![arg[t].q] = mutex_unlock(@)]
    /\ pc' = [pc EXCEPT ![t] = "write_wait"]
    /\ UNCHANGED <<handle, arg, ret, scan, pollm, stored, rcvd>>

WriteEvents(b) ==
    (IF ring_buffer_free(b) = 0 /\ ~b.no_readers
     THEN b.queue_event \ {"WRITABLE"} ELSE b.queue_event) \cup {"READABLE"}

(* cond_signal(&mq->space_empty).  Mutant: only a write into an empty      *)
(* queue signals.                                                          *)
MutantSignalIfEmpty(q) ==
    IF mq[q].buf = <<>> THEN cond_signal(pc, Waiting(q, "read_wait"), "read_lock") ELSE {pc}
SignalReader(q) == cond_signal(pc, Waiting(q, "read_wait"), "read_lock")

(* Both components are stored and a reader is signalled; a non-blocking    *)
(* call then fails with EAGAIN and tells no poller.                        *)
WritePut(t) ==
    LET q == arg[t].q
        m == [id |-> stored[q] + 1, len |-> arg[t].len]
        b == ring_buffer_write(ring_buffer_write(mq[q], HeaderOf(m)), BodyOf(m)) IN
    /\ Accepted(t) /\ HasSpace(mq[q], arg[t].len)
    /\ stored' = [stored EXCEPT ![q] = @ + 1]
    /\ \E pcs \in SignalReader(q) :
          IF "NONBLOCK" \in arg[t].flags
          THEN /\ mq' = [mq EXCEPT ![q] = mutex_unlock(b)]
               /\ pc' = [pcs EXCEPT ![t] = "idle"]
               /\ Leave(t, "EAGAIN")
               /\ UNCHANGED scan
          ELSE /\ BeginWakeup(t, pcs, "OK", [b EXCEPT !.queue_event = WriteEvents(b)])
               /\ UNCHANGED ret
    /\ UNCHANGED <<handle, pollm, rcvd>>

(* pthread_cond_wait may return without a signal (also COND_AUTO_WAKEUP).  *)
SpuriousWakeup(t) ==
    /\ Spurious
    /\ \/ pc[t] = "read_wait" /\ pc' = [pc EXCEPT ![t] = "read_lock"]
       \/ pc[t] = "write_wait" /\ pc' = [pc EXCEPT ![t] = "write_relock"]
    /\ UNCHANGED <<mq, handle, arg, ret, scan, pollm, stored, rcvd>>

-----------------------------------------------------------------------------
Init == /\ mq = [q \in Queues |-> Unborn]
        /\ handle = [s \in Slots |-> NullHandle]
        /\ pc = [t \in Threads |-> "idle"]
        /\ arg = [t \in Threads |-> NoArg]
        /\ ret = [t \in Threads |-> "none"]
        /\ scan = [t \in Threads |-> <<>>]
        /\ pollm = [t \in Threads |-> None]
        /\ stored = [q \in Queues |-> 0]
        /\ rcvd = [q \in Queues |-> <<>>]

Call == \/ \E c \in CreateCalls : msg_queue_create(c)
        \/ \E c \in OpenCalls : msg_queue_open(c)
        \/ \E s \in CloseCalls : msg_queue_close(s)
        \/ \E c \in ReadCalls : msg_queue_read(c)
        \/ \E c \in WriteCalls : msg_queue_write(c)

(* The steps of a call after the mutex has been acquired.                  *)
Progress(t) == \/ OpenBody(t) \/ CloseBody(t) \/ Destroy(t)
               \/ EndWakeup(t)
               \/ ReadEof(t) \/ ReadEmpty(t) \/ ReadPeek(t) \/ ReadHeader(t) \/ ReadBody(t)
               \/ WriteReject(t) \/ WriteWait(t) \/ WritePut(t)

Next == Call \/ \E t \in Threads : Lock(t) \/ Progress(t) \/ SpuriousWakeup(t)

Spec == Init /\ [][Next]_vars

(* A thread that can go on eventually does, and the mutex is not withheld  *)
(* for ever from a thread that keeps asking while others take turns.       *)
Fairness == \A t \in Threads : WF_vars(Progress(t)) /\ SF_vars(Lock(t))

FairSpec == Spec /\ Fairness

-----------------------------------------------------------------------------
(* Types.                                                                  *)
Msg == [id : Nat, len : Nat]
Cell == [msg : Msg, off : Nat]
Node == [p : Threads, i : Nat, events : SUBSET Event]
Backend == [status : {"unborn", "live", "freed"}, size : Nat, buf : Seq(Cell),
            refs : Nat, readers : Nat, writers : Nat,
            no_readers : BOOLEAN, no_writers : BOOLEAN,
            mutex : Threads \cup {None}, queue_event : SUBSET Event, list : Seq(Node)]
Handle == [q : Queues \cup {None}, flags : SUBSET Flag]
Result == {"none", "OK", "MSG", "EOF", "EINVAL", "ENOMEM", "EBADF", "EAGAIN", "EPIPE", "EMSGSIZE"}
Arg == [slot : Slots \cup {None}, dst : Slots \cup {None}, q : Queues \cup {None},
        flags : SUBSET Flag, len : Nat, head : Nat, rv : Result]

(* The labels of each call, and the ones at which the mutex is held.       *)
ReadLabels == {"read_lock", "read", "take", "take_body"}
WriteLabels == {"write_lock", "write", "write_wait", "write_relock", "write_loop"}
PollLabels == {"poll_add", "poll_count", "poll_sleep", "poll_wait", "poll_wake", "poll_recount",
               "poll_unlock", "poll_del", "poll_finish"} \* see MsgQueuePoll
Critical == {"open", "close", "read", "take", "take_body", "write", "write_loop", "wakeup", "hung"}
Label == LockLabels \cup Critical
         \cup {"idle", "destroy", "read_wait", "write_wait"} \cup PollLabels

(* Type invariant; refs, readers and writers never go below zero.          *)
TypeOK == /\ mq \in [Queues -> Backend]
          /\ handle \in [Slots -> Handle]
          /\ pc \in [Threads -> Label]
          /\ arg \in [Threads -> Arg]
          /\ ret \in [Threads -> Result]
          /\ scan \in [Threads -> Seq(Node)]
          /\ pollm \in [Threads -> Threads \cup {None}]
          /\ stored \in [Queues -> Nat]
          /\ rcvd \in [Queues -> Seq(Msg \cup {None})]

(* What the callers owe: a reader's buffer holds any message the queue can *)
(* (otherwise ReadPeek unlocks a mutex that others then take), and adding  *)
(* the size component to a length stays within a size_t.                   *)
ReadersHaveRoom ==
    \A r \in ReadCalls, w \in WriteCalls, c \in CreateCalls :
        w.len <= r.len \/ c.capacity <= SizeT + w.len
LengthsDontWrap == \A w \in WriteCalls : SizeT + w.len < SizeMod

(* A thread inside a critical section holds the queue's mutex, and a held  *)
(* mutex belongs to a thread inside one: no return path of msg_queue.c     *)
(* forgets the unlock, and no unlock frees a mutex another thread holds.   *)
LockDiscipline ==
    \A t \in Threads, q \in Queues :
        mq[q].mutex = t <=> arg[t].q = q /\ pc[t] \in Critical

(* refs, readers and writers count the open handles, and no_readers and    *)
(* no_writers are only set while there is none: what the assert()s of      *)
(* mq_close and mq_destroy check in part.                                  *)
Open(q) == {s \in Slots : handle[s].q = q}
OpenFor(q, flag) == {s \in Open(q) : flag \in handle[s].flags}
HandleCounts ==
    \A q \in Queues : mq[q].status = "live" =>
        /\ mq[q].refs = Cardinality(Open(q))
        /\ mq[q].readers = Cardinality(OpenFor(q, "READER"))
        /\ mq[q].writers = Cardinality(OpenFor(q, "WRITER"))
        /\ mq[q].no_readers => mq[q].readers = 0
        /\ mq[q].no_writers => mq[q].writers = 0

(* The backend is freed only after every call on it has returned and every *)
(* handle to it is gone.                                                   *)
NoUseAfterFree ==
    /\ \A t \in Threads : arg[t].q # None => mq[arg[t].q].status = "live"
    /\ \A s \in Slots : handle[s] # NullHandle => mq[handle[s].q].status = "live"

(* A ring buffer of whole messages numbered up to last, of which the first *)
(* is there from its byte at offset start.                                 *)
LastCell(cell) == cell.off = SizeT + cell.msg.len
Whole(buf, last, start) ==
    /\ buf # <<>> => buf[1].off = start
    /\ \A k \in 1..Len(buf) : buf[k].off <= SizeT + buf[k].msg.len
    /\ \A k \in 1..Len(buf) : \A j \in k..(k + (SizeT + buf[k].msg.len - buf[k].off)) :
          j <= Len(buf) /\ buf[j].msg = buf[k].msg /\ buf[j].off = buf[k].off + (j - k)
    /\ \A k \in 1..Len(buf) : LastCell(buf[k]) =>
          IF k = Len(buf) THEN buf[k].msg.id = last
          ELSE buf[k + 1].off = 1 /\ buf[k + 1].msg.id = buf[k].msg.id + 1

(* The ring buffer holds whole messages in the order of their numbers,     *)
(* except that the reader between its two ring_buffer_reads has taken the  *)
(* front one's size component: the two writes of msg_queue_write are never *)
(* torn apart and neither fails, although their results are ignored.       *)
WholeMessages ==
    \A q \in Queues :
        Whole(mq[q].buf, stored[q], IF Waiting(q, "take_body") = {} THEN 1 ELSE SizeT + 1)

(* No reader sleeps through a message or the end of file: while one waits, *)
(* every stored message has a reader on its way to it, although a write    *)
(* signals only once and others may overtake the reader it wakes.          *)
Messages(q) == Cardinality({k \in 1..Len(mq[q].buf) : LastCell(mq[q].buf[k])})
NoStrandedReader ==
    \A q \in Queues : Waiting(q, "read_wait") # {} =>
        /\ ~mq[q].no_writers
        /\ Messages(q) <= Cardinality({t \in Threads : arg[t].q = q /\ pc[t] \in ReadLabels})

(* Readers and writers never all wait for one another: when a writer waits *)
(* on an empty queue, a writer that was signalled is about to look again,  *)
(* although each read signals only one and its message may not fit.        *)
NoMutualWait ==
    \A q \in Queues :
        Waiting(q, "write_wait") # {} /\ mq[q].buf = <<>> =>
            Waiting(q, "write_relock") \cup Waiting(q, "write_loop") # {}

(* Each queue is a reliable channel: the messages of msg_queue_write calls *)
(* come out of msg_queue_read calls once each, whole and in order.  In     *)
(* flight are the messages from the one at the front of the ring buffer,   *)
(* or the one being taken out of it, to the latest.                        *)
Front(q) == IF mq[q].buf = <<>> THEN stored[q] + 1 ELSE mq[q].buf[1].msg.id
Numbered(q, id) == LET ms == {mq[q].buf[k].msg : k \in 1..Len(mq[q].buf)} IN
    IF \E m \in ms : m.id = id THEN CHOOSE m \in ms : m.id = id ELSE None
Inflight(q) == [k \in 1..(stored[q] + 1 - Front(q)) |-> Numbered(q, Front(q) + k - 1)]
Channel == INSTANCE MessageChannel
           WITH Lengths <- {c.len : c \in WriteCalls}, sent <- stored,
                inflight <- [q \in Queues |-> Inflight(q)], delivered <- rcvd
ImplementsChannel == Channel!ChannelSpec

(* After the last writer handle is closed every read returns, the readers  *)
(* asleep in cond_wait included, unless a writer handle is opened again.   *)
ReadsEndAfterClose ==
    \A t \in Threads, q \in Queues :
        (arg[t].q = q /\ pc[t] \in ReadLabels \cup {"read_wait"} /\ mq[q].no_writers)
            ~> (pc[t] = "idle" \/ ~mq[q].no_writers)

=============================================================================
