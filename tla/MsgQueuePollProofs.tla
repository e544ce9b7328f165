------------------------- MODULE MsgQueuePollProofs -------------------------
(***************************************************************************)
(* The queues with msg_queue_poll, for any number of threads, queues and   *)
(* entries: the lists hold exactly the nodes of the poll calls in          *)
(* progress, helper_wakeup touches no other node, the queues a poll call   *)
(* refers to stay alive, and no poller sleeps through a message.           *)
(***************************************************************************)
EXTENDS MsgQueuePoll, MsgQueueProofs, WellFoundedInduction

-----------------------------------------------------------------------------
(* Lists of distinct nodes.                                                *)
Distinct(list) == \A j, k \in 1..Len(list) : list[j] = list[k] => j = k

LEMMA ElementsOf ==
    ASSUME NEW list \in Seq(Node)
    PROVE  Elements(list) = {list[k] : k \in 1..Len(list)} /\ Elements(list) \subseteq Node
  <1>1. DOMAIN list = 1..Len(list) /\ \A k \in 1..Len(list) : list[k] \in Node
    BY LenProperties, ElementOfSeq
  <1> QED BY <1>1 DEF Elements

LEMMA DistinctCount ==
    ASSUME NEW list \in Seq(Node), Distinct(list)
    PROVE  Cardinality(Elements(list)) = Len(list)
  <1> DEFINE n == Len(list)  S == Elements(list)
  <1>1. n \in Nat /\ list \in [1..n -> Node]
    BY LenProperties
  <1>2. S = {list[k] : k \in 1..n}
    BY ElementsOf
  <1>3. list \in [1..n -> S] /\ \A s \in S : \E k \in 1..n : list[k] = s
    BY <1>1, <1>2
  <1>4. \A j, k \in 1..n : list[j] = list[k] => j = k
    BY DEF Distinct
  <1> HIDE DEF n, S
  <1>5. list \in Bijection(1..n, S)
    BY <1>3, <1>4, Fun_IsBij
  <1>6. ExistsBijection(1..n, S)
    BY <1>5 DEF ExistsBijection
  <1> QED BY <1>1, <1>6, FS_CountingElements DEF n, S

LEMMA AppendNode ==
    ASSUME NEW list \in Seq(Node), NEW node \in Node
    PROVE  /\ Append(list, node) \in Seq(Node)
           /\ Elements(Append(list, node)) = Elements(list) \cup {node}
           /\ Distinct(list) /\ node \notin Elements(list) => Distinct(Append(list, node))
  <1> DEFINE L == Len(list)  r == Append(list, node)
  <1>1. L \in Nat /\ r \in Seq(Node) /\ Len(r) = L + 1 /\ r[L + 1] = node /\ \A k \in 1..L : r[k] = list[k]
    BY AppendProperties, LenProperties
  <1>2. Elements(list) = {list[k] : k \in 1..L}
    BY ElementsOf
  <1>3. Elements(r) = {r[k] : k \in 1..(L + 1)}
    BY <1>1, ElementsOf
  <1> HIDE DEF r, L
  <1>4. \A k : k \in 1..(L + 1) <=> k \in 1..L \/ k = L + 1
    BY <1>1
  <1>5. Elements(r) = Elements(list) \cup {node}
    BY <1>1, <1>2, <1>3, <1>4
  <1>6. ASSUME Distinct(list), node \notin Elements(list), NEW j \in 1..(L + 1), NEW k \in 1..(L + 1), r[j] = r[k]
        PROVE  j = k
    <2>1. \A i \in 1..L : list[i] # node
      BY <1>2, <1>6
    <2>2. CASE j = L + 1 /\ k \in 1..L
      BY <1>1, <1>6, <2>1, <2>2
    <2>3. CASE k = L + 1 /\ j \in 1..L
      BY <1>1, <1>6, <2>1, <2>3
    <2>4. CASE j \in 1..L /\ k \in 1..L
      BY <1>1, <1>6, <2>4 DEF Distinct, L
    <2> QED BY <1>4, <2>2, <2>3, <2>4
  <1>7. Distinct(list) /\ node \notin Elements(list) => Distinct(r)
    BY <1>1, <1>6 DEF Distinct
  <1> QED BY <1>1, <1>5, <1>7 DEF r

LEMMA UnlinkNode ==
    ASSUME NEW list \in Seq(Node), Distinct(list), NEW node \in Elements(list),
           NEW r, r = Unlinked(list, PlaceOf(list, node))
    PROVE  r \in Seq(Node) /\ Elements(r) = Elements(list) \ {node} /\ Distinct(r)
  <1> DEFINE L == Len(list)  p == PlaceOf(list, node)
             a == SubSeq(list, 1, p - 1)  b == SubSeq(list, p + 1, L)
  <1>1. L \in Nat /\ DOMAIN list = 1..L /\ \A k \in 1..L : list[k] \in Node
    BY LenProperties, ElementOfSeq
  <1>2. Elements(list) = {list[k] : k \in 1..L}
    BY ElementsOf
  <1>3. p \in 1..L /\ list[p] = node
    <2>1. \E k \in DOMAIN list : list[k] = node
      BY <1>1, <1>2
    <2> QED BY <1>1, <2>1 DEF PlaceOf
  <1>4. \A k \in 1..L : list[k] = node => k = p
    BY <1>3 DEF Distinct
  <1>5. r = a \o b
    BY DEF Unlinked
  <1> HIDE DEF p, L
  <1>6. a \in Seq(Node) /\ Len(a) = p - 1 /\ \A k \in 1..(p - 1) : a[k] = list[k]
    <2>1. \A k \in 1..(p - 1) : k \in 1..L
      BY <1>1, <1>3
    <2>2. \A k \in 1..(p - 1) : list[k] \in Node
      BY <1>1, <2>1
    <2> QED BY <1>1, <1>3, <2>2, SubSeqProperties
  <1>7. b \in Seq(Node) /\ Len(b) = L - p /\ \A k \in 1..(L - p) : b[k] = list[p + k]
    <2>1. \A k \in (p + 1)..L : k \in 1..L
      BY <1>1, <1>3
    <2>2. \A k \in (p + 1)..L : list[k] \in Node
      BY <1>1, <2>1
    <2> QED BY <1>1, <1>3, <2>2, SubSeqProperties
  <1> HIDE DEF a, b
  <1>8. /\ r \in Seq(Node) /\ Len(r) = L - 1
        /\ \A k \in 1..(L - 1) : r[k] = IF k <= p - 1 THEN a[k] ELSE b[k - (p - 1)]
    <2>1. (p - 1) + (L - p) = L - 1
      BY <1>1, <1>3
    <2>2. /\ r \in Seq(Node) /\ Len(r) = Len(a) + Len(b)
          /\ \A k \in 1..(Len(a) + Len(b)) : r[k] = IF k <= Len(a) THEN a[k] ELSE b[k - Len(a)]
      BY <1>5, <1>6, <1>7, ConcatProperties
    <2> QED BY <1>6, <1>7, <2>1, <2>2
  <1> DEFINE f(k) == IF k <= p - 1 THEN k ELSE k + 1
  <1>9. ASSUME NEW k \in 1..(L - 1) PROVE r[k] = list[f(k)] /\ f(k) \in 1..L /\ f(k) # p
    <2>1. CASE k <= p - 1
      <3>1. k \in 1..(p - 1) /\ f(k) = k /\ k \in 1..L /\ k # p
        BY <1>1, <1>3, <2>1
      <3> QED BY <1>6, <1>8, <2>1, <3>1
    <2>2. CASE ~(k <= p - 1)
      <3>1. k - (p - 1) \in 1..(L - p) /\ p + (k - (p - 1)) = k + 1 /\ f(k) = k + 1 /\ k + 1 \in 1..L /\ k + 1 # p
        BY <1>1, <1>3, <2>2
      <3> QED BY <1>7, <1>8, <2>2, <3>1
    <2> QED BY <2>1, <2>2
  <1>10. \A j, k \in 1..(L - 1) : f(j) = f(k) => j = k
    BY <1>1, <1>3
  <1>11. ASSUME NEW i \in 1..L, i # p PROVE \E k \in 1..(L - 1) : f(k) = i
    <2>1. CASE i < p
      <3>1. i \in 1..(L - 1) /\ f(i) = i
        BY <1>1, <1>3, <2>1
      <3> QED BY <3>1
    <2>2. CASE i > p
      <3>1. i - 1 \in 1..(L - 1) /\ f(i - 1) = i
        BY <1>1, <1>3, <2>2
      <3> QED BY <3>1
    <2> QED BY <1>1, <1>3, <1>11, <2>1, <2>2
  <1> HIDE DEF f
  <1>12. Elements(r) = {r[k] : k \in 1..(L - 1)}
    BY <1>8, ElementsOf
  <1>13. Elements(r) \subseteq Elements(list) \ {node}
    BY <1>2, <1>4, <1>9, <1>12
  <1>14. Elements(list) \ {node} \subseteq Elements(r)
    <2> SUFFICES ASSUME NEW i \in 1..L, list[i] # node PROVE list[i] \in Elements(r)
      BY <1>2
    <2>1. PICK k \in 1..(L - 1) : f(k) = i
      BY <1>3, <1>11
    <2> QED BY <1>9, <1>12, <2>1
  <1>15. Distinct(r)
    <2> SUFFICES ASSUME NEW j \in 1..(L - 1), NEW k \in 1..(L - 1), r[j] = r[k] PROVE j = k
      BY <1>8 DEF Distinct
    <2>1. list[f(j)] = list[f(k)] /\ f(j) \in 1..L /\ f(k) \in 1..L
      BY <1>9
    <2>2. f(j) = f(k)
      BY <2>1 DEF Distinct, L
    <2> QED BY <1>10, <2>2
  <1> QED BY <1>8, <1>13, <1>14, <1>15

(* A loop of a poll call has a next entry to visit.                        *)
LEMMA LeastEntry ==
    ASSUME NEW todo \in SUBSET Nat, todo # {}
    PROVE  \E i \in todo : \A j \in todo : i <= j
  <1>1. PICK i \in todo : \A j \in todo : ~(<<j, i>> \in OpToRel(<, Nat))
    BY WFMin, NatLessThanWellFounded
  <1>2. \A j \in todo : ~(j < i)
    BY <1>1 DEF OpToRel
  <1> QED BY <1>2

-----------------------------------------------------------------------------
(* The steps of poll calls, and of helper_wakeup, as the rest of the       *)
(* module sees them: they change nothing of a backend but its list, and    *)
(* move program counters inside poll calls or out of a wakeup for ever.    *)
OnlyList(b, c) ==
    /\ SameCounters(b, c) /\ c.size = b.size /\ c.buf = b.buf
    /\ c.mutex = b.mutex /\ c.queue_event = b.queue_event
PollMove(l1, l2) == \/ l1 = l2
                    \/ {l1, l2} \subseteq {"idle"} \cup PollLabels
                    \/ l1 = "wakeup" /\ l2 = "hung"
PollFrame == /\ UNCHANGED <<handle, arg, stored, rcvd>> /\ TypeOK'
             /\ \A q \in Queues : OnlyList(mq[q], mq'[q])
             /\ \A u \in Threads : PollMove(pc[u], pc'[u])

LEMMA PollMoveSides ==
    ASSUME NEW l1, NEW l2, PollMove(l1, l2)
    PROVE  /\ l1 \in {"idle"} \cup PollLabels <=> l2 \in {"idle"} \cup PollLabels
           /\ l1 \in {"open_lock", "open"} <=> l2 \in {"open_lock", "open"}
           /\ l1 \in Critical <=> l2 \in Critical
           /\ l1 \in ReadLabels <=> l2 \in ReadLabels
           /\ \A l \in {"destroy", "take", "take_body", "read_wait", "write_wait", "write_relock", "write_loop"} :
                 l1 = l <=> l2 = l
           /\ \A a, b, c : CallOK(l1, a, b) /\ c.size = b.size /\ c.buf = b.buf => CallOK(l2, a, c)
  <1>1. CASE l1 = l2
    BY <1>1 DEF CallOK
  <1>2. CASE {l1, l2} \subseteq {"idle"} \cup PollLabels
    BY <1>2 DEF PollLabels, Critical, ReadLabels, WriteLabels, CallOK
  <1>3. CASE l1 = "wakeup" /\ l2 = "hung"
    BY <1>3 DEF PollLabels, Critical, ReadLabels, WriteLabels, CallOK
  <1> QED BY <1>1, <1>2, <1>3 DEF PollMove

LEMMA FrameMemory == ASSUME MemoryInv, PollFrame PROVE MemoryInv'
  <1>1. HandleCounts'
    <2>1. \A q : Open(q)' = Open(q) /\ \A flag : OpenFor(q, flag)' = OpenFor(q, flag)
      BY DEF PollFrame, Open, OpenFor
    <2>2. \A q \in Queues : SameCounters(mq[q], mq'[q])
      BY DEF PollFrame, OnlyList
    <2> QED BY <2>1, <2>2 DEF MemoryInv, HandleCounts, SameCounters
  <1>2. \A q \in Queues : mq'[q].status = mq[q].status /\ mq'[q].refs = mq[q].refs
    BY DEF PollFrame, OnlyList, SameCounters
  <1>3. /\ \A u \in Threads : arg[u].q # None => arg[u].q \in Queues
        /\ \A s \in Slots : handle[s] # NullHandle => handle[s].q \in Queues
    BY DEF MemoryInv, TypeOK, CallInv, Arg, Handle
  <1>4. NoUseAfterFree'
    BY <1>2, <1>3 DEF MemoryInv, NoUseAfterFree, PollFrame
  <1>5. \A u \in Threads :
           /\ pc[u] \in {"idle"} \cup PollLabels <=> pc'[u] \in {"idle"} \cup PollLabels
           /\ pc[u] \in {"open_lock", "open"} <=> pc'[u] \in {"open_lock", "open"}
           /\ pc[u] = "destroy" <=> pc'[u] = "destroy"
    BY PollMoveSides DEF PollFrame
  <1>6. arg' = arg /\ handle' = handle
    BY DEF PollFrame
  <1>7. ASSUME NEW u \in Threads, pc'[u] = "destroy" PROVE mq'[arg'[u].q].refs = 0
    <2>1. pc[u] = "destroy"
      BY <1>5, <1>7
    <2>2. arg[u].q \in Queues
      BY <2>1, InCall DEF PollLabels
    <2> QED BY <1>2, <1>6, <2>1, <2>2 DEF MemoryInv, CallInv
  <1>8. CallInv'
    BY <1>5, <1>6, <1>7 DEF MemoryInv, CallInv
  <1> QED BY <1>1, <1>4, <1>8 DEF MemoryInv, PollFrame

LEMMA FrameChannel == ASSUME MemoryInv, ChannelInv, PollFrame PROVE ChannelInv'
  <1>1. \A q \in Queues : /\ mq'[q].size = mq[q].size /\ mq'[q].buf = mq[q].buf
                          /\ mq'[q].mutex = mq[q].mutex /\ mq'[q].status = mq[q].status
    BY DEF PollFrame, OnlyList, SameCounters
  <1>2. arg' = arg /\ stored' = stored
    BY DEF PollFrame
  <1>3. \A u \in Threads : /\ pc[u] \in Critical <=> pc'[u] \in Critical
                           /\ pc[u] = "take_body" <=> pc'[u] = "take_body"
    BY PollMoveSides DEF PollFrame
  <1>4. LockDiscipline'
    BY <1>1, <1>2, <1>3 DEF ChannelInv, LockDiscipline
  <1>5. \A q : Waiting(q, "take_body")' = Waiting(q, "take_body")
    BY <1>2, <1>3 DEF Waiting
  <1>6. WholeMessages'
    BY <1>1, <1>2, <1>5 DEF ChannelInv, WholeMessages
  <1>7. \A q \in Queues : BackendOK(mq'[q])
    BY <1>1 DEF ChannelInv, BackendOK
  <1>8. ASSUME NEW u \in Threads, arg'[u].q # None PROVE CallOK(pc'[u], arg'[u], mq'[arg'[u].q])
    <2>1. arg[u].q \in Queues /\ CallOK(pc[u], arg[u], mq[arg[u].q]) /\ PollMove(pc[u], pc'[u])
      BY <1>2, <1>8 DEF MemoryInv, TypeOK, Arg, ChannelInv, PollFrame
    <2> QED BY <1>1, <1>2, <2>1, PollMoveSides
  <1> QED BY <1>4, <1>6, <1>7, <1>8 DEF ChannelInv

LEMMA FrameWait == ASSUME WaitInv, PollFrame PROVE WaitInv'
  <1> SUFFICES ASSUME NEW q \in Queues PROVE ReaderOK(q)' /\ WriterOK(q)'
    BY DEF WaitInv
  <1>1. mq'[q].buf = mq[q].buf /\ mq'[q].no_writers = mq[q].no_writers
    BY DEF PollFrame, OnlyList, SameCounters
  <1>2. arg' = arg
    BY DEF PollFrame
  <1>3. \A u \in Threads :
           /\ pc[u] \in ReadLabels <=> pc'[u] \in ReadLabels
           /\ \A l \in {"read_wait", "write_wait", "write_relock", "write_loop"} : pc[u] = l <=> pc'[u] = l
    BY PollMoveSides DEF PollFrame
  <1>4. /\ \A l \in {"read_wait", "write_wait", "write_relock", "write_loop"} : Waiting(q, l)' = Waiting(q, l)
        /\ Readers(q)' = Readers(q)
    BY <1>2, <1>3 DEF Waiting, Readers
  <1>5. Looking(q)' = Looking(q)
    BY <1>4 DEF Looking
  <1> QED BY <1>1, <1>4, <1>5 DEF WaitInv, ReaderOK, WriterOK

-----------------------------------------------------------------------------
(* The state of the poll calls in progress: the entries refer to open      *)
(* handles of the caller, and every loop has entries left until the last   *)
(* one has ended.                                                          *)
Fd == [queue : Handle, events : SUBSET Event]
PollRec == [fds : Seq(Fd), todo : SUBSET Nat, revents : Seq(SUBSET Event), ready : Nat]
FdOK(t, fd) == fd.queue.q \in Queues /\ \E s \in Slots : SlotOwner[s] = t /\ handle[s] = fd.queue
PollOK(label, t, p) == label \in PollLabels =>
    /\ LiveFds(p.fds) # {} /\ p.todo \subseteq LiveFds(p.fds)
    /\ label # "poll_finish" => p.todo # {}
    /\ label = "poll_unlock" => p.todo = LiveFds(p.fds)
    /\ \A i \in LiveFds(p.fds) : FdOK(t, p.fds[i])

(* The nodes that should be in the list of queue q.                        *)
NodesOf(q) == UNION {{NodeOf(t, i) : i \in {j \in Registered(t) : poll[t].fds[j].queue.q = q}} : t \in Threads}
ListOK(q) == Elements(mq[q].list) = NodesOf(q) /\ Distinct(mq[q].list)
ScanOK(t) == pc[t] = "wakeup" => Elements(scan[t]) \subseteq Elements(mq[arg[t].q].list)

PollInv == /\ poll \in [Threads -> PollRec]
           /\ \A t \in Threads : PollOK(pc[t], t, poll[t]) /\ ScanOK(t)
           /\ \A q \in Queues : ListOK(q)

LEMMA LiveEntries ==
    ASSUME NEW fds \in Seq(Fd)
    PROVE  /\ LiveFds(fds) \subseteq 1..Len(fds) /\ LiveFds(fds) \subseteq Nat
           /\ \A i \in LiveFds(fds) : fds[i] \in Fd /\ i \in Nat
  <1>1. DOMAIN fds = 1..Len(fds) /\ Len(fds) \in Nat /\ \A k \in 1..Len(fds) : fds[k] \in Fd
    BY LenProperties, ElementOfSeq
  <1> QED BY <1>1 DEF LiveFds

(* The entry a loop is at.                                                 *)
LEMMA CurrentEntry ==
    ASSUME MemoryInv, PollInv, NEW t \in Threads, pc[t] \in PollLabels \ {"poll_finish"}
    PROVE  /\ poll[t] \in PollRec
           /\ Current(t) \in poll[t].todo /\ Current(t) \in LiveFds(poll[t].fds) /\ Current(t) \in Nat
           /\ poll[t].fds[Current(t)] \in Fd
           /\ CurrentQueue(t) \in Queues /\ mq[CurrentQueue(t)].status = "live"
           /\ NodeOf(t, Current(t)) \in Node
  <1>1. poll[t] \in PollRec /\ PollOK(pc[t], t, poll[t])
    BY DEF PollInv
  <1>2. /\ poll[t].fds \in Seq(Fd) /\ poll[t].todo \in SUBSET Nat /\ poll[t].todo # {}
        /\ poll[t].todo \subseteq LiveFds(poll[t].fds)
        /\ \A i \in LiveFds(poll[t].fds) : FdOK(t, poll[t].fds[i])
    BY <1>1 DEF PollRec, PollOK
  <1>3. Current(t) \in poll[t].todo
    <2>1. \E i \in poll[t].todo : \A j \in poll[t].todo : i <= j
      BY <1>2, LeastEntry
    <2> QED BY <2>1 DEF Current
  <1> DEFINE i == Current(t)
  <1> HIDE DEF i
  <1>4. i \in LiveFds(poll[t].fds) /\ i \in Nat /\ poll[t].fds[i] \in Fd /\ FdOK(t, poll[t].fds[i])
    BY <1>2, <1>3, LiveEntries DEF i
  <1>5. PICK s \in Slots : handle[s] = poll[t].fds[i].queue
    BY <1>4 DEF FdOK
  <1>6. poll[t].fds[i].queue.q \in Queues /\ poll[t].fds[i].queue # NullHandle
    BY <1>4, NoneAssumption DEF FdOK, NullHandle
  <1>7. mq[poll[t].fds[i].queue.q].status = "live"
    BY <1>5, <1>6 DEF MemoryInv, NoUseAfterFree
  <1>8. NodeOf(t, i) \in Node
    BY <1>4 DEF NodeOf, Node, Fd
  <1> QED BY <1>1, <1>3, <1>4, <1>6, <1>7, <1>8 DEF i, CurrentQueue

(* An entry of a sequence can be replaced.                                 *)
LEMMA ReplaceEntry ==
    ASSUME NEW S, NEW seq \in Seq(S), NEW i, NEW e \in S
    PROVE  [seq EXCEPT ![i] = e] \in Seq(S)
  <1>1. CASE i \in 1..Len(seq)
    BY <1>1, ExceptSeq
  <1>2. CASE i \notin 1..Len(seq)
    <2>1. seq \in [1..Len(seq) -> S]
      BY LenProperties
    <2>2. [seq EXCEPT ![i] = e] = seq
      BY <1>2, <2>1
    <2> QED BY <2>2
  <1> QED BY <1>1, <1>2

(* The updates of a poll call's record.                                    *)
LEMMA RecordUpdates ==
    ASSUME MemoryInv, PollInv, NEW t \in Threads, pc[t] \in PollLabels \ {"poll_finish"}
    PROVE  LET p == poll[t] IN
           /\ \A x \in {Advanced(t), helper_count(t)} :
                 x \in PollRec /\ x.fds = p.fds /\ x.todo = p.todo \ {Current(t)}
           /\ Restarted(t) \in PollRec /\ Restarted(t).fds = p.fds /\ Restarted(t).todo = LiveFds(p.fds)
           /\ Restarted(t).ready = 0
           /\ LET x == helper_count(t)
                  y == [x EXCEPT !.todo = LiveFds(x.fds)] IN
              y \in PollRec /\ y.fds = p.fds /\ y.todo = LiveFds(p.fds) /\ y.ready = x.ready
  <1> DEFINE p == poll[t]  i == Current(t)
             ready == IF mq[p.fds[i].queue.q].queue_event \cap p.fds[i].events # {} THEN p.ready + 1 ELSE p.ready
             rev == [p.revents EXCEPT ![i] = Revents(p.fds[i].queue, p.fds[i].events, mq[p.fds[i].queue.q].queue_event)]
             a == Advanced(t)  x == helper_count(t)  L == LiveFds(p.fds)
  <1>1. /\ p \in PollRec /\ p.fds \in Seq(Fd) /\ p.todo \in SUBSET Nat /\ p.ready \in Nat
        /\ p.revents \in Seq(SUBSET Event)
    BY CurrentEntry DEF PollRec
  <1>2. a \in PollRec /\ a.fds = p.fds /\ a.todo = p.todo \ {i} /\ a.revents = p.revents /\ a.ready = p.ready
    BY <1>1 DEF Advanced, PollRec
  <1>3. p.fds[i] \in Fd /\ p.fds[i].queue.q \in Queues
    BY CurrentEntry DEF CurrentQueue
  <1>4. Revents(p.fds[i].queue, p.fds[i].events, mq[p.fds[i].queue.q].queue_event) \in SUBSET Event
    <2>1. mq[p.fds[i].queue.q].queue_event \in SUBSET Event
      BY <1>3 DEF MemoryInv, TypeOK, Backend
    <2> QED BY <2>1 DEF Revents
  <1>5. rev \in Seq(SUBSET Event) /\ ready \in Nat
    <2>1. \A e \in SUBSET Event : [p.revents EXCEPT ![i] = e] \in Seq(SUBSET Event)
      BY <1>1, ReplaceEntry
    <2> QED BY <1>1, <1>4, <2>1
  <1>6. x = [a EXCEPT !.revents = rev, !.ready = ready]
    BY <1>2 DEF helper_count, PollRec
  <1>7. L \in SUBSET Nat
    BY <1>1, LiveEntries
  <1> HIDE DEF a, x, rev, ready, L, i
  <1>8. x \in PollRec /\ x.fds = p.fds /\ x.todo = p.todo \ {i} /\ x.ready = ready
    BY <1>2, <1>5, <1>6 DEF PollRec
  <1>9. /\ [p EXCEPT !.todo = L, !.ready = 0] \in PollRec
        /\ [p EXCEPT !.todo = L, !.ready = 0].fds = p.fds /\ [p EXCEPT !.todo = L, !.ready = 0].todo = L
        /\ [p EXCEPT !.todo = L, !.ready = 0].ready = 0
    BY <1>1, <1>7 DEF PollRec
  <1>10. /\ [x EXCEPT !.todo = L] \in PollRec /\ [x EXCEPT !.todo = L].fds = p.fds
         /\ [x EXCEPT !.todo = L].todo = L /\ [x EXCEPT !.todo = L].ready = x.ready
    BY <1>7, <1>8 DEF PollRec
  <1> QED BY <1>2, <1>8, <1>9, <1>10 DEF a, x, L, i, Restarted

-----------------------------------------------------------------------------
(* Registered and the nodes of a poll call, as functions of its state.     *)
RegOf(label, p) ==
    CASE label = "poll_add" -> LiveFds(p.fds) \ p.todo
      [] label = "poll_del" -> p.todo
      [] label \in PollLabels \ {"poll_add", "poll_del", "poll_finish"} -> LiveFds(p.fds)
      [] OTHER -> {}

LEMMA RegisteredIs ==
    ASSUME NEW t \in Threads
    PROVE  Registered(t) = RegOf(pc[t], poll[t]) /\ Registered(t)' = RegOf(pc'[t], poll'[t])
  BY DEF Registered, RegOf

LEMMA RegCases ==
    ASSUME NEW p
    PROVE  /\ RegOf("poll_add", p) = LiveFds(p.fds) \ p.todo
           /\ RegOf("poll_del", p) = p.todo
           /\ \A l \in {"poll_count", "poll_sleep", "poll_wait", "poll_wake", "poll_recount", "poll_unlock"} :
                 RegOf(l, p) = LiveFds(p.fds)
           /\ RegOf("poll_finish", p) = {}
           /\ \A l : l \notin PollLabels => RegOf(l, p) = {}
  <1>1. RegOf("poll_add", p) = LiveFds(p.fds) \ p.todo /\ RegOf("poll_del", p) = p.todo
    BY DEF RegOf, PollLabels
  <1>2. ASSUME NEW l \in {"poll_count", "poll_sleep", "poll_wait", "poll_wake", "poll_recount", "poll_unlock"}
        PROVE  RegOf(l, p) = LiveFds(p.fds)
    <2>1. l # "poll_add" /\ l # "poll_del" /\ l \in PollLabels \ {"poll_add", "poll_del", "poll_finish"}
      BY DEF PollLabels
    <2> QED BY <2>1 DEF RegOf
  <1>3. RegOf("poll_finish", p) = {}
    BY DEF RegOf, PollLabels
  <1>4. ASSUME NEW l, l \notin PollLabels PROVE RegOf(l, p) = {}
    BY <1>4 DEF RegOf, PollLabels
  <1> QED BY <1>1, <1>2, <1>3, <1>4

(* Membership in the nodes of a queue.                                     *)
LEMMA NodeMembers ==
    ASSUME NEW q, NEW n
    PROVE  /\ n \in NodesOf(q) <=> \E t \in Threads : \E i \in Registered(t) :
                                       poll[t].fds[i].queue.q = q /\ n = NodeOf(t, i)
           /\ n \in NodesOf(q)' <=> \E t \in Threads : \E i \in Registered(t)' :
                                       poll'[t].fds[i].queue.q = q /\ n = NodeOf(t, i)'
  BY DEF NodesOf

(* Steps that keep the entries that have nodes.                            *)
LEMMA SameNodes ==
    ASSUME \A u \in Threads : /\ Registered(u)' = Registered(u)
                              /\ Registered(u) # {} => poll'[u].fds = poll[u].fds,
           NEW q
    PROVE  NodesOf(q)' = NodesOf(q)
  <1>1. ASSUME NEW u \in Threads, NEW i \in Registered(u)
        PROVE  poll'[u].fds = poll[u].fds /\ NodeOf(u, i)' = NodeOf(u, i)
    BY DEF NodeOf
  <1>2. \A n : n \in NodesOf(q)' <=> n \in NodesOf(q)
    BY <1>1, NodeMembers
  <1> QED BY <1>2

(* A step of a poll call: what is left to show is that the lists are right.*)
LEMMA PollStepInv ==
    ASSUME MemoryInv, PollInv, NEW t \in Threads, NEW label, NEW x \in PollRec,
           poll' = [poll EXCEPT ![t] = x], pc' = [pc EXCEPT ![t] = label],
           label \in {"idle"} \cup PollLabels, PollOK(label, t, x), UNCHANGED <<handle, arg, scan>>,
           \A u \in Threads : pc[u] = "wakeup" => mq'[arg[u].q].list = mq[arg[u].q].list,
           \A q \in Queues : ListOK(q)'
    PROVE  PollInv'
  <1>1. poll \in [Threads -> PollRec] /\ pc \in [Threads -> Label]
    BY DEF PollInv, MemoryInv, TypeOK
  <1>2. poll' \in [Threads -> PollRec] /\ poll'[t] = x /\ pc'[t] = label
    BY <1>1
  <1>3. \A u \in Threads \ {t} : poll'[u] = poll[u] /\ pc'[u] = pc[u]
    BY <1>1
  <1>4. ASSUME NEW u \in Threads PROVE PollOK(pc[u], u, poll[u])'
    <2>1. \A v, fd : FdOK(v, fd)' <=> FdOK(v, fd)
      BY DEF FdOK
    <2>2. PollOK(pc'[u], u, poll'[u])
      BY <1>2, <1>3 DEF PollInv
    <2> QED BY <2>1, <2>2 DEF PollOK
  <1>5. ASSUME NEW u \in Threads PROVE ScanOK(u)'
    <2>1. pc'[u] = "wakeup" => u # t /\ pc[u] = "wakeup"
      BY <1>2, <1>3 DEF PollLabels
    <2>2. ScanOK(u)
      BY DEF PollInv
    <2>3. pc[u] = "wakeup" => mq'[arg[u].q].list = mq[arg[u].q].list
      OBVIOUS
    <2> QED BY <2>1, <2>2, <2>3 DEF ScanOK
  <1> QED BY <1>2, <1>4, <1>5 DEF PollInv

-----------------------------------------------------------------------------
(* Steps of poll calls that leave the lists alone.                         *)
LEMMA FrameOf ==
    ASSUME MemoryInv, NEW t \in Threads, pc[t] \in {"idle"} \cup PollLabels,
           NEW label \in {"idle"} \cup PollLabels, pc' = [pc EXCEPT ![t] = label],
           UNCHANGED <<handle, arg, scan, stored, rcvd>>,
           mq' \in [Queues -> Backend], \A q \in Queues : OnlyList(mq[q], mq'[q]),
           ret' \in [Threads -> Result], pollm' \in [Threads -> Threads \cup {None}]
    PROVE  PollFrame
  <1>1. label \in Label
    BY DEF Label
  <1>2. TypeOK'
    BY <1>1 DEF MemoryInv, TypeOK
  <1>3. \A u \in Threads : PollMove(pc[u], pc'[u])
    BY DEF MemoryInv, TypeOK, PollMove
  <1> QED BY <1>2, <1>3 DEF PollFrame

LEMMA SameLists ==
    ASSUME MemoryInv, PollInv, NEW t \in Threads, pc[t] \in {"idle"} \cup PollLabels,
           NEW label \in {"idle"} \cup PollLabels, NEW x \in PollRec,
           poll' = [poll EXCEPT ![t] = x], pc' = [pc EXCEPT ![t] = label],
           UNCHANGED <<mq, handle, arg, scan, stored, rcvd>>,
           ret' \in [Threads -> Result], pollm' \in [Threads -> Threads \cup {None}],
           PollOK(label, t, x), RegOf(label, x) = RegOf(pc[t], poll[t]),
           RegOf(label, x) # {} => x.fds = poll[t].fds
    PROVE  PollFrame /\ PollInv'
  <1>1. /\ pc'[t] = label /\ poll'[t] = x
        /\ \A u \in Threads \ {t} : pc'[u] = pc[u] /\ poll'[u] = poll[u]
    BY DEF MemoryInv, TypeOK, PollInv
  <1>2. \A u \in Threads : /\ Registered(u)' = Registered(u)
                           /\ Registered(u) # {} => poll'[u].fds = poll[u].fds
    BY <1>1, RegisteredIs
  <1>3. \A q : NodesOf(q)' = NodesOf(q)
    BY <1>2, SameNodes
  <1>4. \A q \in Queues : ListOK(q)'
    BY <1>3 DEF PollInv, ListOK
  <1>5. PollInv'
    BY <1>4, PollStepInv
  <1>6. mq' \in [Queues -> Backend] /\ \A q \in Queues : OnlyList(mq[q], mq'[q])
    BY DEF MemoryInv, TypeOK, OnlyList, SameCounters
  <1>7. PollFrame
    BY <1>6, FrameOf
  <1> QED BY <1>5, <1>7

LEMMA CallPoll ==
    ASSUME MemoryInv, PollInv, NEW c \in PollCalls, msg_queue_poll(c)
    PROVE  PollFrame /\ PollInv'
  <1> DEFINE t == c.t  fds == Resolved(c.fds)
             x == [fds |-> fds, todo |-> LiveFds(fds), revents |-> Cleared(t, fds), ready |-> 0]
  <1>1. /\ t \in Threads /\ pc[t] = "idle" /\ poll' = [poll EXCEPT ![t] = x]
        /\ c.fds \in Seq([slot : Slots \cup {None}, events : SUBSET Event])
        /\ \A i \in DOMAIN c.fds : c.fds[i].slot # None => SlotOwner[c.fds[i].slot] = t
    BY PollAssumption DEF msg_queue_poll
  <1>2. PICK n \in Nat : n = Len(c.fds)
    BY <1>1, LenProperties
  <1>3. /\ DOMAIN c.fds = 1..n
        /\ \A i \in 1..n : c.fds[i].slot \in Slots \cup {None} /\ c.fds[i].events \in SUBSET Event
    <2> DEFINE S == [slot : Slots \cup {None}, events : SUBSET Event]
    <2>1. \A d \in S : d.slot \in Slots \cup {None} /\ d.events \in SUBSET Event
      OBVIOUS
    <2>2. c.fds \in Seq(S)
      BY <1>1
    <2> HIDE DEF S
    <2>3. DOMAIN c.fds = 1..n /\ \A i \in 1..n : c.fds[i] \in S
      BY <1>2, <2>2, LenProperties, ElementOfSeq
    <2> QED BY <2>1, <2>3
  <1>4. NullHandle \in Handle /\ handle \in [Slots -> Handle]
    BY DEF NullHandle, Handle, MemoryInv, TypeOK
  <1>5. /\ DOMAIN fds = 1..n
        /\ \A i \in 1..n : /\ fds[i] \in Fd
                           /\ fds[i].queue = IF c.fds[i].slot = None THEN NullHandle ELSE handle[c.fds[i].slot]
    BY <1>3, <1>4 DEF Resolved, Fd
  <1>6. fds \in Seq(Fd)
    <2>1. fds \in [1..n -> Fd]
      BY <1>5 DEF Resolved
    <2> HIDE DEF fds
    <2> QED BY <2>1, SeqDef
  <1>7. Cleared(t, fds) \in Seq(SUBSET Event)
    <2> DEFINE E == SUBSET Event  old == poll[t].revents
    <2>1. poll[t] \in PollRec
      BY <1>1 DEF PollInv
    <2>2. old \in Seq(E)
      BY <2>1 DEF PollRec
    <2>3. {} \in E
      OBVIOUS
    <2> HIDE DEF E, old
    <2>4. \A i \in DOMAIN old : old[i] \in E
      BY <2>2, ElementOfSeq, LenProperties
    <2>5. Cleared(t, fds) \in [1..n -> E]
      <3> HIDE DEF fds
      <3> QED BY <1>5, <2>3, <2>4 DEF Cleared, old
    <2> HIDE DEF fds
    <2>6. Cleared(t, fds) \in Seq(E)
      BY <2>5, SeqDef
    <2> QED BY <2>6 DEF E
  <1>8. x \in PollRec
    <2>1. LiveFds(fds) \in SUBSET Nat
      BY <1>6, LiveEntries
    <2> HIDE DEF fds
    <2> QED BY <1>6, <1>7, <2>1 DEF PollRec
  <1>9. \A i \in LiveFds(fds) : FdOK(t, fds[i])
    <2> SUFFICES ASSUME NEW i \in LiveFds(fds) PROVE FdOK(t, fds[i])
      OBVIOUS
    <2>1. i \in 1..n /\ fds[i].queue # NullHandle
      BY <1>5 DEF LiveFds
    <2>2. c.fds[i].slot \in Slots /\ fds[i].queue = handle[c.fds[i].slot] /\ SlotOwner[c.fds[i].slot] = t
      BY <1>1, <1>3, <1>5, <2>1
    <2>3. handle[c.fds[i].slot].q \in Queues
      BY <1>4, <2>1, <2>2 DEF MemoryInv, CallInv, Handle
    <2> QED BY <2>2, <2>3 DEF FdOK
  <1>10. x.fds = fds /\ x.todo = LiveFds(fds)
    OBVIOUS
  <1>11. RegOf("idle", x) = {} /\ RegOf("poll_add", x) = {} /\ RegOf("idle", poll[t]) = {}
    BY <1>10, RegCases DEF PollLabels
  <1> HIDE DEF x, fds
  <1>12. CASE \E e \in {"EINVAL", "ENOMEM"} : Refuse(t, e)
    <2>1. /\ UNCHANGED <<mq, handle, arg, scan, stored, rcvd>> /\ pc' = pc
          /\ ret' \in [Threads -> Result] /\ pollm' \in [Threads -> Threads \cup {None}]
      BY <1>12 DEF Refuse, MemoryInv, TypeOK, Result
    <2>2. pc' = [pc EXCEPT ![t] = "idle"]
      BY <1>1, <2>1 DEF MemoryInv, TypeOK
    <2>3. PollOK("idle", t, x)
      BY DEF PollOK, PollLabels
    <2> QED BY <1>1, <1>8, <1>11, <2>1, <2>2, <2>3, SameLists
  <1>13. CASE ValidFds(fds) /\ LockPollMutex(t) /\ pc' = [pc EXCEPT ![t] = "poll_add"]
              /\ ret' = [ret EXCEPT ![t] = "none"] /\ UNCHANGED <<mq, handle, arg, scan, stored, rcvd>>
    <2>1. PollOK("poll_add", t, x)
      BY <1>9, <1>10, <1>13 DEF PollOK, ValidFds
    <2>2. ret' \in [Threads -> Result] /\ pollm' \in [Threads -> Threads \cup {None}]
      BY <1>1, <1>13 DEF LockPollMutex, MemoryInv, TypeOK, Result
    <2> QED BY <1>1, <1>8, <1>11, <1>13, <2>1, <2>2, SameLists DEF PollLabels
  <1> QED BY <1>12, <1>13 DEF msg_queue_poll, fds

(* Counting, sleeping and waking up.                                       *)
LEMMA CountPoll ==
    ASSUME MemoryInv, PollInv, NEW t \in Threads, PollCount(t)
    PROVE  PollFrame /\ PollInv'
  <1> DEFINE p == poll[t]  x == helper_count(t)  y == [x EXCEPT !.todo = LiveFds(x.fds)]
  <1>1. pc[t] \in PollLabels \ {"poll_finish"} /\ pc[t] \in {"poll_count", "poll_recount"}
    BY DEF PollCount, PollLabels
  <1>2. /\ x \in PollRec /\ x.fds = p.fds /\ x.todo = p.todo \ {Current(t)}
        /\ y \in PollRec /\ y.fds = p.fds /\ y.todo = LiveFds(p.fds)
    BY <1>1, RecordUpdates
  <1>3. PollOK(pc[t], t, p) /\ Current(t) \in p.todo
    BY <1>1, CurrentEntry DEF PollInv
  <1>4. UNCHANGED <<mq, handle, arg, ret, scan, pollm, stored, rcvd>>
    BY DEF PollCount
  <1>5. ret' \in [Threads -> Result] /\ pollm' \in [Threads -> Threads \cup {None}]
    BY <1>4 DEF MemoryInv, TypeOK
  <1>6. CASE EndOfLoop(t)
    <2>1. PICK label \in {"poll_sleep", "poll_unlock"} :
             pc' = [pc EXCEPT ![t] = label] /\ poll' = [poll EXCEPT ![t] = y]
      BY <1>6 DEF PollCount
    <2> HIDE DEF x, y
    <2>2. PollOK(label, t, y)
      BY <1>1, <1>2, <1>3 DEF PollOK, PollLabels
    <2>3. RegOf(label, y) = LiveFds(p.fds) /\ RegOf(pc[t], p) = LiveFds(p.fds)
      BY <1>1, <1>2, RegCases
    <2>4. label \in PollLabels
      BY DEF PollLabels
    <2> QED BY <1>1, <1>2, <1>4, <1>5, <2>1, <2>2, <2>3, <2>4, SameLists
  <1>7. CASE ~EndOfLoop(t)
    <2>1. pc' = pc /\ poll' = [poll EXCEPT ![t] = x]
      BY <1>7 DEF PollCount
    <2>2. pc' = [pc EXCEPT ![t] = pc[t]]
      BY <2>1 DEF MemoryInv, TypeOK
    <2> HIDE DEF x, y
    <2>3. p.todo \ {Current(t)} # {}
      BY <1>3, <1>7 DEF EndOfLoop
    <2>4. PollOK(pc[t], t, x)
      BY <1>1, <1>2, <1>3, <2>3 DEF PollOK
    <2>5. RegOf(pc[t], x) = LiveFds(p.fds) /\ RegOf(pc[t], p) = LiveFds(p.fds)
      BY <1>1, <1>2, RegCases
    <2> QED BY <1>1, <1>2, <1>4, <1>5, <2>1, <2>2, <2>4, <2>5, SameLists
  <1> QED BY <1>6, <1>7

(* The steps in which a poll call keeps its record, or starts a loop.      *)
LEMMA PlainPoll ==
    ASSUME MemoryInv, PollInv, NEW t \in Threads,
           PollRelease(t) \/ PollWake(t) \/ PollSpurious(t) \/ PollFinish(t)
    PROVE  PollFrame /\ PollInv'
  <1> DEFINE p == poll[t]
  <1>1. /\ UNCHANGED <<mq, handle, arg, scan, stored, rcvd>>
        /\ ret' \in [Threads -> Result] /\ pollm' \in [Threads -> Threads \cup {None}]
    BY DEF PollRelease, PollWake, PollSpurious, PollFinish, MemoryInv, TypeOK, Result
  <1>2. p \in PollRec /\ PollOK(pc[t], t, p) /\ poll = [poll EXCEPT ![t] = p]
    BY DEF PollInv
  <1>3. CASE PollRelease(t) \/ PollSpurious(t) \/ PollFinish(t)
    <2>1. PICK label \in {"poll_wait", "poll_del", "poll_wake", "idle"} :
             /\ pc' = [pc EXCEPT ![t] = label] /\ poll' = poll
             /\ \/ pc[t] = "poll_sleep" /\ label = "poll_wait"
                \/ pc[t] = "poll_unlock" /\ label = "poll_del"
                \/ pc[t] = "poll_wait" /\ label = "poll_wake"
                \/ pc[t] = "poll_finish" /\ label = "idle"
      BY <1>3 DEF PollRelease, PollSpurious, PollFinish
    <2>2. pc[t] \in {"idle"} \cup PollLabels /\ label \in {"idle"} \cup PollLabels
      BY <2>1 DEF PollLabels
    <2>3. PollOK(label, t, p)
      BY <1>2, <2>1 DEF PollOK, PollLabels
    <2>4. RegOf(label, p) = RegOf(pc[t], p)
      <3>1. pc[t] = "poll_unlock" => p.todo = LiveFds(p.fds)
        BY <1>2 DEF PollOK, PollLabels
      <3> QED BY <2>1, <3>1, RegCases DEF PollLabels
    <2> QED BY <1>1, <1>2, <2>1, <2>2, <2>3, <2>4, SameLists
  <1>4. CASE PollWake(t)
    <2> DEFINE x == Restarted(t)
    <2>1. pc[t] = "poll_wake" /\ pc' = [pc EXCEPT ![t] = "poll_recount"] /\ poll' = [poll EXCEPT ![t] = x]
      BY <1>4 DEF PollWake
    <2>2. pc[t] \in PollLabels \ {"poll_finish"} /\ "poll_recount" \in PollLabels
      BY <2>1 DEF PollLabels
    <2>3. x \in PollRec /\ x.fds = p.fds /\ x.todo = LiveFds(p.fds)
      BY <2>2, RecordUpdates
    <2> HIDE DEF x
    <2>4. PollOK("poll_recount", t, x)
      BY <1>2, <2>2, <2>3 DEF PollOK
    <2>5. RegOf("poll_recount", x) = LiveFds(p.fds) /\ RegOf(pc[t], p) = LiveFds(p.fds)
      BY <2>1, <2>3, RegCases
    <2> QED BY <1>1, <1>2, <2>1, <2>2, <2>3, <2>4, <2>5, SameLists
  <1> QED BY <1>3, <1>4

-----------------------------------------------------------------------------
(* The steps that put a node in a list and take one out.                   *)
LEMMA ListChange ==
    ASSUME MemoryInv, NEW q \in Queues, NEW list \in Seq(Node), mq' = [mq EXCEPT ![q].list = list]
    PROVE  /\ mq' \in [Queues -> Backend] /\ \A x \in Queues : OnlyList(mq[x], mq'[x])
           /\ mq'[q].list = list /\ \A x \in Queues \ {q} : mq'[x].list = mq[x].list
  <1>1. mq \in [Queues -> Backend] /\ mq[q] \in Backend
    BY DEF MemoryInv, TypeOK
  <1>2. [mq[q] EXCEPT !.list = list] \in Backend /\ OnlyList(mq[q], [mq[q] EXCEPT !.list = list])
        /\ [mq[q] EXCEPT !.list = list].list = list
    BY <1>1 DEF Backend, OnlyList, SameCounters
  <1>3. \A b : OnlyList(b, b)
    BY DEF OnlyList, SameCounters
  <1>4. mq' = [mq EXCEPT ![q] = [mq[q] EXCEPT !.list = list]]
    BY <1>1
  <1> QED BY <1>1, <1>2, <1>3, <1>4

(* While a poll call can lock a queue's mutex nobody visits its list.      *)
LEMMA NoScanner ==
    ASSUME MemoryInv, ChannelInv, NEW q \in Queues, mutex_available(mq[q].mutex),
           NEW u \in Threads, pc[u] = "wakeup"
    PROVE  arg[u].q # q /\ arg[u].q \in Queues
  <1>1. pc[u] \in Critical
    BY DEF Critical
  <1>2. arg[u].q \in Queues /\ mq[arg[u].q].mutex = u
    BY <1>1, Alone DEF ChannelInv
  <1> QED BY <1>2, NoneAssumption DEF mutex_available

(* Only entry i of t gains or loses a node, and only in its own queue.     *)
LEMMA OtherNodes ==
    ASSUME NEW t \in Threads, NEW i, poll'[t].fds = poll[t].fds,
           \A u \in Threads \ {t} : Registered(u)' = Registered(u) /\ poll'[u].fds = poll[u].fds,
           Registered(t)' \ {i} = Registered(t) \ {i}, NEW q
    PROVE  /\ \A n : n # NodeOf(t, i) => (n \in NodesOf(q)' <=> n \in NodesOf(q))
           /\ poll[t].fds[i].queue.q # q => NodesOf(q)' = NodesOf(q)
           /\ poll[t].fds[i].queue.q = q => /\ NodeOf(t, i) \in NodesOf(q)' <=> i \in Registered(t)'
                                            /\ NodeOf(t, i) \in NodesOf(q) <=> i \in Registered(t)
  <1>1. \A u \in Threads : poll'[u].fds = poll[u].fds
    OBVIOUS
  <1>2. \A u \in Threads : \A j : NodeOf(u, j)' = NodeOf(u, j)
    BY <1>1 DEF NodeOf
  <1>3. \A u \in Threads : \A j : NodeOf(u, j) = NodeOf(t, i) => u = t /\ j = i
    BY DEF NodeOf
  <1>4. \A u \in Threads : \A j : u # t \/ j # i => (j \in Registered(u)' <=> j \in Registered(u))
    OBVIOUS
  <1>5. \A n : /\ n \in NodesOf(q) <=> \E u \in Threads : \E j \in Registered(u) :
                                       poll[u].fds[j].queue.q = q /\ n = NodeOf(u, j)
               /\ n \in NodesOf(q)' <=> \E u \in Threads : \E j \in Registered(u)' :
                                       poll[u].fds[j].queue.q = q /\ n = NodeOf(u, j)
    BY <1>1, <1>2, NodeMembers
  <1>6. \A n : n # NodeOf(t, i) => (n \in NodesOf(q)' <=> n \in NodesOf(q))
    BY <1>4, <1>5
  <1>7. ASSUME poll[t].fds[i].queue.q # q PROVE NodesOf(q)' = NodesOf(q)
    <2>1. NodeOf(t, i) \notin NodesOf(q)' /\ NodeOf(t, i) \notin NodesOf(q)
      BY <1>3, <1>5, <1>7
    <2>2. \A n : n \in NodesOf(q)' <=> n \in NodesOf(q)
      BY <1>6, <2>1
    <2> QED BY <2>2
  <1>8. ASSUME poll[t].fds[i].queue.q = q
        PROVE  /\ NodeOf(t, i) \in NodesOf(q)' <=> i \in Registered(t)'
               /\ NodeOf(t, i) \in NodesOf(q) <=> i \in Registered(t)
    BY <1>3, <1>5, <1>8
  <1> QED BY <1>6, <1>7, <1>8

(* What the two steps have in common: i, q and node are the entry visited, *)
(* its queue and its node, and list is what becomes of the queue's list.   *)
LEMMA ListStep ==
    ASSUME MemoryInv, ChannelInv, PollInv, NEW t \in Threads, pc[t] \in PollLabels \ {"poll_finish"},
           NEW i, i = Current(t), NEW q, q = CurrentQueue(t), mutex_available(mq[q].mutex),
           NEW list \in Seq(Node), mq' = [mq EXCEPT ![q].list = list],
           Distinct(mq[q].list) => Distinct(list),
           NEW label \in PollLabels, NEW x \in PollRec, x.fds = poll[t].fds,
           poll' = [poll EXCEPT ![t] = x], pc' = [pc EXCEPT ![t] = label], PollOK(label, t, x),
           UNCHANGED <<handle, arg, ret, scan, pollm, stored, rcvd>>,
           \/ /\ RegOf(label, x) = RegOf(pc[t], poll[t]) \cup {i}
              /\ Elements(list) = Elements(mq[q].list) \cup {NodeOf(t, i)}
           \/ /\ RegOf(label, x) = RegOf(pc[t], poll[t]) \ {i}
              /\ Elements(list) = Elements(mq[q].list) \ {NodeOf(t, i)}
    PROVE  PollFrame /\ PollInv'
  <1>1. q \in Queues /\ q = poll[t].fds[i].queue.q
    BY CurrentEntry DEF CurrentQueue
  <1>2. /\ mq' \in [Queues -> Backend] /\ \A z \in Queues : OnlyList(mq[z], mq'[z])
        /\ mq'[q].list = list /\ \A z \in Queues \ {q} : mq'[z].list = mq[z].list
    BY <1>1, ListChange
  <1>3. /\ pc'[t] = label /\ poll'[t] = x
        /\ \A u \in Threads \ {t} : pc'[u] = pc[u] /\ poll'[u] = poll[u]
    BY DEF MemoryInv, TypeOK, PollInv
  <1>4. /\ \A u \in Threads \ {t} : Registered(u)' = Registered(u) /\ poll'[u].fds = poll[u].fds
        /\ Registered(t)' = RegOf(label, x) /\ Registered(t) = RegOf(pc[t], poll[t])
    BY <1>3, RegisteredIs
  <1>5. Registered(t)' \ {i} = Registered(t) \ {i} /\ poll'[t].fds = poll[t].fds
    BY <1>3, <1>4
  <1>6. ASSUME NEW z \in Queues
        PROVE  /\ \A n : n # NodeOf(t, i) => (n \in NodesOf(z)' <=> n \in NodesOf(z))
               /\ z # q => NodesOf(z)' = NodesOf(z)
               /\ z = q => (NodeOf(t, i) \in NodesOf(z)' <=> i \in Registered(t)')
    BY <1>1, <1>4, <1>5, OtherNodes
  <1>7. Elements(mq[q].list) = NodesOf(q) /\ Distinct(mq[q].list)
    BY <1>1 DEF PollInv, ListOK
  <1>8. Elements(list) = NodesOf(q)'
    <2>1. \A n : n # NodeOf(t, i) => (n \in Elements(list) <=> n \in NodesOf(q)')
      <3>1. \A n : n # NodeOf(t, i) => (n \in Elements(list) <=> n \in NodesOf(q))
        <4>1. Elements(list) \ {NodeOf(t, i)} = Elements(mq[q].list) \ {NodeOf(t, i)}
          OBVIOUS
        <4> QED BY <1>7, <4>1
      <3>2. \A n : n # NodeOf(t, i) => (n \in NodesOf(q)' <=> n \in NodesOf(q))
        BY <1>1, <1>6
      <3> QED BY <3>1, <3>2
    <2>2. NodeOf(t, i) \in Elements(list) <=> i \in Registered(t)'
      BY <1>4
    <2>3. NodeOf(t, i) \in NodesOf(q)' <=> i \in Registered(t)'
      BY <1>1, <1>6
    <2>4. \A n : n \in Elements(list) <=> n \in NodesOf(q)'
      BY <2>1, <2>2, <2>3
    <2> QED BY <2>4
  <1>9. ASSUME NEW z \in Queues PROVE ListOK(z)'
    <2>1. CASE z = q
      BY <1>2, <1>7, <1>8, <2>1 DEF ListOK
    <2>2. CASE z # q
      <3>1. mq'[z].list = mq[z].list /\ NodesOf(z)' = NodesOf(z)
        BY <1>2, <1>6, <2>2
      <3> QED BY <3>1 DEF PollInv, ListOK
    <2> QED BY <2>1, <2>2
  <1>10. \A u \in Threads : pc[u] = "wakeup" => mq'[arg[u].q].list = mq[arg[u].q].list
    BY <1>1, <1>2, NoScanner
  <1>11. PollInv'
    BY <1>9, <1>10, PollStepInv
  <1>12. ret' \in [Threads -> Result] /\ pollm' \in [Threads -> Threads \cup {None}]
    BY DEF MemoryInv, TypeOK
  <1>13. PollFrame
    BY <1>2, <1>12, FrameOf
  <1> QED BY <1>11, <1>13

LEMMA AddPoll ==
    ASSUME MemoryInv, ChannelInv, PollInv, NEW t \in Threads, PollAdd(t)
    PROVE  PollFrame /\ PollInv'
  <1> DEFINE p == poll[t]  i == Current(t)  q == CurrentQueue(t)  node == NodeOf(t, i)
             list == Append(mq[q].list, node)
  <1>1. pc[t] = "poll_add" /\ pc[t] \in PollLabels \ {"poll_finish"} /\ "poll_count" \in PollLabels
    BY DEF PollAdd, PollLabels
  <1>2. /\ p \in PollRec /\ i \in p.todo /\ i \in LiveFds(p.fds) /\ q \in Queues /\ node \in Node
        /\ q = p.fds[i].queue.q
    BY <1>1, CurrentEntry DEF CurrentQueue
  <1>3. /\ Advanced(t) \in PollRec /\ Advanced(t).fds = p.fds /\ Advanced(t).todo = p.todo \ {i}
        /\ Restarted(t) \in PollRec /\ Restarted(t).fds = p.fds /\ Restarted(t).todo = LiveFds(p.fds)
    BY <1>1, RecordUpdates
  <1>4. PollOK(pc[t], t, p)
    BY DEF PollInv
  <1>5. mq[q] \in Backend /\ mq[q].list \in Seq(Node) /\ mq \in [Queues -> Backend]
    BY <1>2 DEF MemoryInv, TypeOK, Backend
  <1>6. Registered(t) = LiveFds(p.fds) \ p.todo /\ RegOf(pc[t], p) = LiveFds(p.fds) \ p.todo
    BY <1>1, RegisteredIs, RegCases
  <1>7. node \notin Elements(mq[q].list)
    <2>1. node \in NodesOf(q) <=> i \in Registered(t)
      <3>1. \A u \in Threads : \A j : NodeOf(u, j) = node => u = t /\ j = i
        BY DEF NodeOf
      <3> QED BY <1>2, <3>1, NodeMembers
    <2> QED BY <1>2, <1>6, <2>1 DEF PollInv, ListOK
  <1>8. /\ list \in Seq(Node) /\ Elements(list) = Elements(mq[q].list) \cup {node}
        /\ Distinct(mq[q].list) => Distinct(list)
    BY <1>2, <1>5, <1>7, AppendNode
  <1>9. /\ mutex_available(mq[q].mutex)
        /\ mq' = [mq EXCEPT ![q].list = list]
        /\ UNCHANGED <<handle, arg, ret, scan, pollm, stored, rcvd>>
    BY <1>2, <1>5 DEF PollAdd
  <1> HIDE DEF list
  <1>10. CASE EndOfLoop(t)
    <2>1. pc' = [pc EXCEPT ![t] = "poll_count"] /\ poll' = [poll EXCEPT ![t] = Restarted(t)]
      BY <1>10 DEF PollAdd
    <2>2. PollOK("poll_count", t, Restarted(t))
      BY <1>1, <1>3, <1>4 DEF PollOK
    <2>3. RegOf("poll_count", Restarted(t)) = RegOf(pc[t], p) \cup {i}
      <3>1. p.todo = {i}
        BY <1>10 DEF EndOfLoop
      <3> QED BY <1>2, <1>3, <1>6, <3>1, RegCases
    <2> HIDE DEF i, q
    <2> QED BY <1>1, <1>3, <1>8, <1>9, <2>1, <2>2, <2>3, ListStep DEF i, q
  <1>11. CASE ~EndOfLoop(t)
    <2>1. pc' = pc /\ poll' = [poll EXCEPT ![t] = Advanced(t)]
      BY <1>11 DEF PollAdd
    <2>2. pc' = [pc EXCEPT ![t] = pc[t]]
      BY <2>1 DEF MemoryInv, TypeOK
    <2>3. p.todo \ {i} # {}
      BY <1>2, <1>11 DEF EndOfLoop
    <2>4. PollOK(pc[t], t, Advanced(t))
      BY <1>1, <1>3, <1>4, <2>3 DEF PollOK
    <2>5. RegOf(pc[t], Advanced(t)) = RegOf(pc[t], p) \cup {i}
      BY <1>1, <1>2, <1>3, <1>6, RegCases
    <2> HIDE DEF i, q
    <2> QED BY <1>1, <1>3, <1>8, <1>9, <2>1, <2>2, <2>4, <2>5, ListStep DEF i, q
  <1> QED BY <1>10, <1>11

LEMMA DelPoll ==
    ASSUME MemoryInv, ChannelInv, PollInv, NEW t \in Threads, PollDel(t)
    PROVE  PollFrame /\ PollInv'
  <1> DEFINE p == poll[t]  i == Current(t)  q == CurrentQueue(t)  node == NodeOf(t, i)
             list == list_del(q, node)  x == Advanced(t)
  <1>1. pc[t] = "poll_del" /\ pc[t] \in PollLabels \ {"poll_finish"} /\ "poll_finish" \in PollLabels
    BY DEF PollDel, PollLabels
  <1>2. p \in PollRec /\ i \in p.todo /\ q \in Queues /\ q = p.fds[i].queue.q
    BY <1>1, CurrentEntry DEF CurrentQueue
  <1>3. x \in PollRec /\ x.fds = p.fds /\ x.todo = p.todo \ {i}
    BY <1>1, RecordUpdates
  <1>4. PollOK(pc[t], t, p)
    BY DEF PollInv
  <1>5. mq[q] \in Backend /\ mq[q].list \in Seq(Node) /\ mq \in [Queues -> Backend]
    BY <1>2 DEF MemoryInv, TypeOK, Backend
  <1>6. Registered(t) = p.todo /\ RegOf(pc[t], p) = p.todo
    BY <1>1, RegisteredIs, RegCases
  <1>7. node \in Elements(mq[q].list) /\ Distinct(mq[q].list)
    BY <1>2, <1>6, NodeMembers DEF PollInv, ListOK
  <1>8. /\ list \in Seq(Node) /\ Elements(list) = Elements(mq[q].list) \ {node}
        /\ Distinct(mq[q].list) => Distinct(list)
    BY <1>5, <1>7, UnlinkNode DEF list_del
  <1>9. /\ mutex_available(mq[q].mutex)
        /\ mq' = [mq EXCEPT ![q].list = list]
        /\ UNCHANGED <<handle, arg, ret, scan, pollm, stored, rcvd>>
    BY <1>2, <1>5 DEF PollDel
  <1>10. PICK label \in {"poll_finish", "poll_del"} :
            /\ pc' = [pc EXCEPT ![t] = label] /\ poll' = [poll EXCEPT ![t] = x]
            /\ label = "poll_del" => ~EndOfLoop(t)
            /\ label = "poll_finish" => EndOfLoop(t)
    BY <1>1 DEF PollDel, MemoryInv, TypeOK
  <1>11. label \in PollLabels
    BY <1>1, <1>10
  <1>12. PollOK(label, t, x)
    <2>1. label = "poll_del" => p.todo \ {i} # {}
      BY <1>2, <1>10 DEF EndOfLoop
    <2> HIDE DEF x
    <2> QED BY <1>1, <1>3, <1>4, <2>1 DEF PollOK
  <1>13. RegOf(label, x) = RegOf(pc[t], p) \ {i}
    <2>1. label = "poll_finish" => p.todo = {i}
      BY <1>10 DEF EndOfLoop
    <2> HIDE DEF x
    <2>2. RegOf("poll_del", x) = x.todo /\ RegOf("poll_finish", x) = {}
      BY RegCases
    <2> QED BY <1>3, <1>6, <2>1, <2>2
  <1> HIDE DEF list, x, i, q
  <1> QED BY <1>1, <1>3, <1>8, <1>9, <1>10, <1>11, <1>12, <1>13, ListStep DEF i, q

(* One iteration of helper_wakeup.                                         *)
LEMMA TailElements ==
    ASSUME NEW list \in Seq(Node), list # <<>>
    PROVE  Tail(list) \in Seq(Node) /\ Elements(Tail(list)) \subseteq Elements(list)
  <1>1. /\ Tail(list) \in Seq(Node) /\ Len(list) \in Nat /\ Len(Tail(list)) = Len(list) - 1
        /\ \A k \in 1..(Len(list) - 1) : Tail(list)[k] = list[k + 1]
    BY HeadTailProperties, LenProperties
  <1>2. \A k \in 1..(Len(list) - 1) : k + 1 \in 1..Len(list)
    BY <1>1
  <1>3. Elements(list) = {list[k] : k \in 1..Len(list)} /\ Elements(Tail(list)) = {Tail(list)[k] : k \in 1..(Len(list) - 1)}
    BY <1>1, ElementsOf
  <1> QED BY <1>1, <1>2, <1>3

WakeEffect(t) ==
    /\ UNCHANGED <<mq, handle, arg, ret, pollm, stored, rcvd, poll>>
    /\ pc[t] = "wakeup" /\ scan[t] # <<>>
    /\ scan' = scan \/ scan' = [scan EXCEPT ![t] = Tail(@)]
    /\ pc' \in [Threads -> Label]
    /\ \A u \in Threads : \/ pc'[u] = pc[u]
                          \/ u = t /\ pc'[u] = "hung"
                          \/ pc[u] = "poll_wait" /\ pc'[u] = "poll_wake"

LEMMA WakeShape == ASSUME MemoryInv, NEW t \in Threads, WakeNode(t) PROVE WakeEffect(t)
  <1> DEFINE node == Head(scan[t])
             occurred == node.events \cap mq[arg[t].q].queue_event # {}
  <1>1. /\ UNCHANGED <<mq, handle, arg, ret, pollm, stored, rcvd, poll>>
        /\ pc[t] = "wakeup" /\ scan[t] # <<>>
    BY DEF WakeNode
  <1>2. pc \in [Threads -> Label] /\ "hung" \in Label /\ "poll_wake" \in Label
    BY DEF MemoryInv, TypeOK, Label, Critical, PollLabels
  <1>3. CASE scan' = [scan EXCEPT ![t] = Tail(@)] /\ pc' = pc
    BY <1>1, <1>2, <1>3 DEF WakeEffect
  <1>4. CASE pc' = [pc EXCEPT ![t] = "hung"] /\ scan' = scan
    BY <1>1, <1>2, <1>4 DEF WakeEffect
  <1>5. CASE pc' \in cond_signal(pc, {p \in {node.p} : pc[p] = "poll_wait"}, "poll_wake")
             /\ scan' = [scan EXCEPT ![t] = Tail(@)]
    <2>1. pc' \in [Threads -> Label] /\ \A u \in Threads : pc'[u] = pc[u] \/ (pc[u] = "poll_wait" /\ pc'[u] = "poll_wake")
      BY <1>2, <1>5 DEF cond_signal
    <2> QED BY <1>1, <1>5, <2>1 DEF WakeEffect
  <1> QED BY <1>3, <1>4, <1>5 DEF WakeNode

LEMMA WakePoll ==
    ASSUME MemoryInv, PollInv, NEW t \in Threads, WakeEffect(t)
    PROVE  PollFrame /\ PollInv'
  <1>1. scan \in [Threads -> Seq(Node)] /\ mq \in [Queues -> Backend]
    BY DEF MemoryInv, TypeOK
  <1>2. /\ scan' \in [Threads -> Seq(Node)]
        /\ \A u \in Threads : Elements(scan'[u]) \subseteq Elements(scan[u])
    <2>1. Tail(scan[t]) \in Seq(Node) /\ Elements(Tail(scan[t])) \subseteq Elements(scan[t])
      BY <1>1, TailElements DEF WakeEffect
    <2>2. CASE scan' = scan
      BY <1>1, <2>2
    <2>3. CASE scan' = [scan EXCEPT ![t] = Tail(scan[t])]
      <3>1. scan' \in [Threads -> Seq(Node)] /\ scan'[t] = Tail(scan[t]) /\ \A u \in Threads \ {t} : scan'[u] = scan[u]
        BY <1>1, <2>1, <2>3
      <3> QED BY <2>1, <3>1
    <2> QED BY <2>2, <2>3 DEF WakeEffect
  <1>3. TypeOK'
    BY <1>2 DEF WakeEffect, MemoryInv, TypeOK
  <1>4. PollFrame
    <2>1. \A u \in Threads : PollMove(pc[u], pc'[u])
      BY DEF WakeEffect, PollMove, PollLabels
    <2>2. \A q \in Queues : OnlyList(mq[q], mq'[q])
      BY DEF WakeEffect, OnlyList, SameCounters
    <2> QED BY <1>3, <2>1, <2>2 DEF PollFrame, WakeEffect
  <1>5. poll' = poll /\ handle' = handle /\ mq' = mq /\ arg' = arg
    BY DEF WakeEffect
  <1>6. ASSUME NEW u \in Threads PROVE PollOK(pc[u], u, poll[u])' /\ ScanOK(u)' /\ Registered(u)' = Registered(u)
    <2>1. PollOK(pc[u], u, poll[u]) /\ ScanOK(u)
      BY DEF PollInv
    <2>2. \/ pc'[u] = pc[u]
          \/ pc[u] = "wakeup" /\ pc'[u] = "hung"
          \/ pc[u] = "poll_wait" /\ pc'[u] = "poll_wake"
      BY DEF WakeEffect
    <2>3. PollOK(pc'[u], u, poll[u])
      BY <2>1, <2>2 DEF PollOK, PollLabels
    <2>4. \A fd : FdOK(u, fd)' <=> FdOK(u, fd)
      BY <1>5 DEF FdOK
    <2>5. PollOK(pc[u], u, poll[u])'
      BY <1>5, <2>3, <2>4 DEF PollOK
    <2>6. ScanOK(u)'
      <3>1. pc'[u] = "wakeup" => pc[u] = "wakeup"
        BY <2>2
      <3> QED BY <1>2, <1>5, <2>1, <3>1 DEF ScanOK
    <2>7. RegOf(pc'[u], poll[u]) = RegOf(pc[u], poll[u])
      BY <2>2, RegCases DEF PollLabels
    <2> QED BY <1>5, <2>5, <2>6, <2>7, RegisteredIs
  <1>7. \A q : NodesOf(q)' = NodesOf(q)
    BY <1>5, <1>6, SameNodes
  <1>8. \A q \in Queues : ListOK(q)'
    BY <1>5, <1>7 DEF PollInv, ListOK
  <1>9. poll' \in [Threads -> PollRec]
    BY <1>5 DEF PollInv
  <1> QED BY <1>4, <1>6, <1>8, <1>9 DEF PollInv

-----------------------------------------------------------------------------
(* The steps of the other calls, as the poll calls see them: the lists and *)
(* the program counters of poll calls stay, and so do the handles of the   *)
(* threads in one; helper_wakeup begins with the whole list.               *)
NextFrame ==
    /\ poll' = poll
    /\ \A u \in Threads : pc[u] \in PollLabels \/ pc'[u] \in PollLabels => pc'[u] = pc[u]
    /\ \A q \in Queues : \/ mq'[q].list = mq[q].list
                         \/ mq[q].status = "unborn" /\ mq'[q].list = <<>>
    /\ \A s \in Slots : pc[SlotOwner[s]] \in PollLabels /\ handle[s] # NullHandle => handle'[s] = handle[s]
    /\ \A u \in Threads : pc'[u] = "wakeup" =>
          \/ scan'[u] = mq'[arg'[u].q].list
          \/ pc[u] = "wakeup" /\ scan'[u] = scan[u] /\ arg'[u].q = arg[u].q

(* ... and what they mean to the sleeping ones: a thread that is visiting  *)
(* nodes is not disturbed, a message that comes is told to all, unless the *)
(* writer does not block, and one that stays is not forgotten.             *)
Kept(b, c) == /\ c.list = b.list
              /\ c.buf # <<>> => b.buf # <<>>
              /\ "READABLE" \in b.queue_event => c.buf = <<>> \/ "READABLE" \in c.queue_event
Silent(t) == pc[t] \in WriteLabels /\ "NONBLOCK" \in arg[t].flags
FlagsFrom(flags) == \/ flags = {}
                    \/ \E s \in Slots : flags = handle[s].flags
                    \/ \E t \in Threads : flags = arg[t].flags
                    \/ \E c \in CreateCalls \cup OpenCalls : flags = c.flags
NewsFrame ==
    /\ pollm' = pollm
    /\ \A u \in Threads : pc[u] \in {"wakeup", "hung"} /\ scan[u] # <<>> => pc'[u] = pc[u] /\ scan'[u] = scan[u]
    /\ \A q \in Queues : mq'[q].buf # <<>> =>
          \/ mq[q].buf # <<>> /\ ("READABLE" \in mq[q].queue_event => "READABLE" \in mq'[q].queue_event)
          \/ "READABLE" \in mq'[q].queue_event /\ \E t \in Threads : pc'[t] = "wakeup" /\ scan'[t] = mq'[q].list
          \/ \E t \in Threads : Silent(t)
    /\ \A s \in Slots : FlagsFrom(handle'[s].flags)
    /\ \A u \in Threads : /\ FlagsFrom(arg'[u].flags)
                          /\ pc'[u] \in WriteLabels =>
                                "WRITER" \in arg'[u].flags \/ (pc[u] \in WriteLabels /\ arg'[u].flags = arg[u].flags)

LEMMA NextPoll ==
    ASSUME MemoryInv, PollInv, NextFrame
    PROVE  PollInv'
  <1>1. poll' = poll
    BY DEF NextFrame
  <1>2. ASSUME NEW u \in Threads PROVE Registered(u)' = Registered(u)
    <2>1. CASE pc[u] \in PollLabels \/ pc'[u] \in PollLabels
      BY <1>1, <2>1, RegisteredIs DEF NextFrame
    <2>2. CASE pc[u] \notin PollLabels /\ pc'[u] \notin PollLabels
      <3>1. RegOf(pc[u], poll[u]) = {} /\ RegOf(pc'[u], poll'[u]) = {}
        BY <2>2, RegCases
      <3> QED BY <3>1, RegisteredIs
    <2> QED BY <2>1, <2>2
  <1>3. \A q : NodesOf(q)' = NodesOf(q)
    BY <1>1, <1>2, SameNodes
  <1>4. ASSUME NEW u \in Threads PROVE PollOK(pc[u], u, poll[u])'
    <2> SUFFICES ASSUME pc'[u] \in PollLabels PROVE PollOK(pc[u], u, poll[u])'
      BY DEF PollOK
    <2>1. pc'[u] = pc[u] /\ PollOK(pc[u], u, poll[u])
      BY DEF NextFrame, PollInv
    <2>2. ASSUME NEW i \in LiveFds(poll[u].fds) PROVE FdOK(u, poll[u].fds[i])'
      <3>1. PICK s \in Slots : SlotOwner[s] = u /\ handle[s] = poll[u].fds[i].queue
        BY <2>1 DEF PollOK, FdOK
      <3>2. poll[u].fds[i].queue.q \in Queues
        BY <2>1 DEF PollOK, FdOK
      <3>3. handle[s] # NullHandle
        BY <3>1, <3>2, NoneAssumption DEF NullHandle
      <3>4. handle'[s] = handle[s]
        BY <2>1, <3>1, <3>3 DEF NextFrame
      <3> QED BY <1>1, <3>1, <3>2, <3>4 DEF FdOK
    <2> QED BY <1>1, <2>1, <2>2 DEF PollOK
  <1>5. ASSUME NEW q \in Queues
        PROVE  ListOK(q)' /\ (mq[q].status # "unborn" => mq'[q].list = mq[q].list)
    <2>1. CASE mq'[q].list = mq[q].list
      BY <1>3, <2>1 DEF PollInv, ListOK
    <2>2. CASE mq[q].status = "unborn" /\ mq'[q].list = <<>>
      <3>1. NodesOf(q) = {}
        <4> SUFFICES ASSUME NEW u \in Threads, NEW i \in Registered(u), poll[u].fds[i].queue.q = q PROVE FALSE
          BY NodeMembers
        <4>1. pc[u] \in PollLabels /\ PollOK(pc[u], u, poll[u]) /\ i \in LiveFds(poll[u].fds)
          <5>1. pc[u] \in PollLabels /\ PollOK(pc[u], u, poll[u])
            BY RegisteredIs, RegCases DEF PollInv
          <5>2. RegOf(pc[u], poll[u]) \subseteq LiveFds(poll[u].fds)
            BY <5>1 DEF PollOK, RegOf
          <5> QED BY <5>1, <5>2, RegisteredIs
        <4>2. PICK s \in Slots : handle[s] = poll[u].fds[i].queue
          BY <4>1 DEF PollOK, FdOK
        <4>3. handle[s] # NullHandle
          BY <4>2, NoneAssumption DEF NullHandle
        <4> QED BY <2>2, <4>2, <4>3 DEF MemoryInv, NoUseAfterFree
      <3>2. Elements(<<>>) = {} /\ Distinct(<<>>)
        BY DEF Elements, Distinct
      <3> QED BY <1>3, <2>2, <3>1, <3>2 DEF ListOK
    <2> QED BY <2>1, <2>2 DEF NextFrame
  <1>6. ASSUME NEW u \in Threads PROVE ScanOK(u)'
    <2>1. CASE scan'[u] = mq'[arg'[u].q].list
      BY <2>1 DEF ScanOK
    <2>2. CASE pc[u] = "wakeup" /\ scan'[u] = scan[u] /\ arg'[u].q = arg[u].q
      <3>1. arg[u].q \in Queues /\ mq[arg[u].q].status = "live"
        BY <2>2, InCallRefs, InCall DEF PollLabels
      <3>2. mq'[arg[u].q].list = mq[arg[u].q].list
        BY <1>5, <3>1
      <3> QED BY <2>2, <3>2 DEF PollInv, ScanOK
    <2> QED BY <2>1, <2>2 DEF NextFrame, ScanOK
  <1>7. poll' \in [Threads -> PollRec]
    BY <1>1 DEF PollInv
  <1> QED BY <1>4, <1>5, <1>6, <1>7 DEF PollInv

(* The updates of a backend that leave its list alone, and take no news.   *)
LEMMA KeptOf ==
    ASSUME NEW b \in Backend
    PROVE  /\ Kept(b, b)
           /\ \A u : Kept(b, [b EXCEPT !.mutex = u])
           /\ Kept(b, mutex_unlock(b))
           /\ \A e : e \cap {"READABLE"} = b.queue_event \cap {"READABLE"} => Kept(b, [b EXCEPT !.queue_event = e])
           /\ \A e : b.queue_event \subseteq e => Kept(b, [b EXCEPT !.queue_event = e])
           /\ \A e : Kept(b, [b EXCEPT !.status = e])
           /\ \A flags \in SUBSET Flag : Kept(b, mq_open(b, flags)) /\ Kept(b, mq_close(b, flags))
           /\ \A n \in Nat : Kept(b, ring_buffer_read(b, n))
           /\ \A data : ring_buffer_write(b, data).list = b.list
           /\ \A e : [b EXCEPT !.queue_event = e].list = b.list /\ [b EXCEPT !.queue_event = e].queue_event = e
           /\ \A c, d : Kept(b, c) /\ Kept(c, d) => Kept(b, d)
  <1>1. /\ Kept(b, b)
        /\ \A u : Kept(b, [b EXCEPT !.mutex = u])
        /\ Kept(b, mutex_unlock(b))
        /\ \A e : Kept(b, [b EXCEPT !.status = e])
        /\ \A c, d : Kept(b, c) /\ Kept(c, d) => Kept(b, d)
    BY DEF Backend, Kept, mutex_unlock
  <1>2. /\ \A e : e \cap {"READABLE"} = b.queue_event \cap {"READABLE"} => Kept(b, [b EXCEPT !.queue_event = e])
        /\ \A e : b.queue_event \subseteq e => Kept(b, [b EXCEPT !.queue_event = e])
        /\ \A e : [b EXCEPT !.queue_event = e].list = b.list /\ [b EXCEPT !.queue_event = e].queue_event = e
    BY DEF Backend, Kept
  <1>3. \A flags \in SUBSET Flag : Kept(b, mq_open(b, flags)) /\ Kept(b, mq_close(b, flags))
    BY DEF Backend, Kept, mq_open, mq_close
  <1>4. ASSUME NEW n \in Nat PROVE Kept(b, ring_buffer_read(b, n))
    <2>1. b.buf = <<>> => ring_buffer_read(b, n).buf = <<>>
      <3> SUFFICES ASSUME b.buf = <<>> PROVE ring_buffer_read(b, n).buf = <<>>
        OBVIOUS
      <3>1. Len(b.buf) = 0 /\ (n = 0 \/ n > Len(b.buf))
        OBVIOUS
      <3>2. SubSeq(<<>>, 1, 0) = <<>>
        OBVIOUS
      <3> QED BY <3>1, <3>2 DEF ring_buffer_read, Backend
    <2>2. ring_buffer_read(b, n).list = b.list /\ ring_buffer_read(b, n).queue_event = b.queue_event
      BY DEF ring_buffer_read, Backend
    <2> QED BY <2>1, <2>2 DEF Kept
  <1>5. \A data : ring_buffer_write(b, data).list = b.list
    BY DEF Backend, ring_buffer_write
  <1> QED BY <1>1, <1>2, <1>3, <1>4, <1>5

LEMMA NextShape ==
    ASSUME MemoryInv, NEW t \in Threads, pc[t] \notin PollLabels \cup {"hung"}, pc[t] = "wakeup" => scan[t] = <<>>,
           NEW q \in Queues, NEW b, b.list = mq[q].list, mq' = [mq EXCEPT ![q] = b],
           NEW pcs \in [Threads -> Label], \A u \in Threads \ {t} : Woken(pc[u], pcs[u]),
           NEW label, label \notin PollLabels, pc' = [pcs EXCEPT ![t] = label],
           label \in WriteLabels => pc[t] \in WriteLabels,
           NEW a, arg' = [arg EXCEPT ![t] = a], (a = NoArg /\ label = "idle") \/ a.flags = arg[t].flags,
           UNCHANGED <<poll, pollm>>,
           \A s \in Slots : pc[SlotOwner[s]] \in PollLabels /\ handle[s] # NullHandle => handle'[s] = handle[s],
           \A s \in Slots : handle'[s] = handle[s] \/ handle'[s].flags \in {{}, arg[t].flags},
           \/ label # "wakeup" /\ scan' = scan
           \/ label = "wakeup" /\ a.q = q /\ scan' = [scan EXCEPT ![t] = b.list],
           \/ Kept(mq[q], b)
           \/ label = "wakeup" /\ "READABLE" \in b.queue_event
           \/ Silent(t)
    PROVE  NextFrame /\ NewsFrame
  <1>1. /\ mq \in [Queues -> Backend] /\ pc \in [Threads -> Label] /\ arg \in [Threads -> Arg]
        /\ scan \in [Threads -> Seq(Node)]
    BY DEF MemoryInv, TypeOK
  <1>2. /\ mq'[q] = b /\ \A x \in Queues \ {q} : mq'[x] = mq[x]
        /\ arg'[t] = a /\ \A u \in Threads \ {t} : arg'[u] = arg[u]
        /\ pc'[t] = label /\ \A u \in Threads \ {t} : pc'[u] = pcs[u]
    BY <1>1
  <1>3. \A x \in Queues : mq'[x].list = mq[x].list
    BY <1>2
  <1>4. \A u \in Threads \ {t} : /\ pc[u] \in PollLabels \/ pc'[u] \in PollLabels => pc'[u] = pc[u]
                                 /\ pc'[u] = "wakeup" => pc[u] = "wakeup"
                                 /\ pc[u] \in {"wakeup", "hung"} => pc'[u] = pc[u]
                                 /\ pc'[u] \in WriteLabels => pc[u] \in WriteLabels
    BY <1>2 DEF Woken, PollLabels, WriteLabels
  <1>5. ASSUME NEW u \in Threads, pc'[u] = "wakeup"
        PROVE  \/ scan'[u] = mq'[arg'[u].q].list
               \/ pc[u] = "wakeup" /\ scan'[u] = scan[u] /\ arg'[u].q = arg[u].q
    BY <1>1, <1>2, <1>4, <1>5
  <1>6. NextFrame
    BY <1>2, <1>3, <1>4, <1>5 DEF NextFrame
  <1>7. ASSUME NEW u \in Threads, pc[u] \in {"wakeup", "hung"}, scan[u] # <<>> PROVE pc'[u] = pc[u] /\ scan'[u] = scan[u]
    BY <1>1, <1>4, <1>7
  <1>8. ASSUME NEW x \in Queues, mq'[x].buf # <<>>
        PROVE  \/ mq[x].buf # <<>> /\ ("READABLE" \in mq[x].queue_event => "READABLE" \in mq'[x].queue_event)
               \/ "READABLE" \in mq'[x].queue_event /\ \E u \in Threads : pc'[u] = "wakeup" /\ scan'[u] = mq'[x].list
               \/ \E u \in Threads : Silent(u)
    <2>1. CASE x # q
      BY <1>2, <1>8, <2>1
    <2>2. CASE x = q /\ Kept(mq[q], b)
      BY <1>2, <1>8, <2>2 DEF Kept
    <2>3. CASE x = q /\ label = "wakeup" /\ "READABLE" \in b.queue_event
      <3>1. scan'[t] = b.list
        BY <1>1, <2>3
      <3> QED BY <1>2, <2>3, <3>1
    <2> QED BY <2>1, <2>2, <2>3
  <1>9. \A s \in Slots : FlagsFrom(handle'[s].flags)
    BY DEF FlagsFrom
  <1>10. ASSUME NEW u \in Threads
         PROVE  /\ FlagsFrom(arg'[u].flags)
                /\ pc'[u] \in WriteLabels => pc[u] \in WriteLabels /\ arg'[u].flags = arg[u].flags
    <2>1. NoArg.flags = {} /\ "idle" \notin WriteLabels
      BY DEF NoArg, WriteLabels
    <2> QED BY <1>2, <1>4, <2>1 DEF FlagsFrom
  <1>11. NewsFrame
    BY <1>7, <1>8, <1>9, <1>10 DEF NewsFrame
  <1> QED BY <1>6, <1>11

(* The steps that begin a call.                                            *)
LEMMA CallFrame == ASSUME MemoryInv, Call, poll' = poll PROVE NextFrame /\ NewsFrame
  <1>1. ASSUME NEW t \in Threads, NEW e, Refuse(t, e) PROVE NextFrame /\ NewsFrame
    BY <1>1 DEF Refuse, NextFrame, NewsFrame, FlagsFrom
  <1>2. ASSUME NEW t \in Threads, NEW a, NEW label \in {"open_lock", "close_lock", "read_lock", "write_lock"},
               pc[t] = "idle", Enter(t, label, a), FlagsFrom(a.flags), label = "write_lock" => "WRITER" \in a.flags
        PROVE  NextFrame /\ NewsFrame
    <2>1. /\ UNCHANGED <<mq, handle, scan, pollm>> /\ pc'[t] = label /\ arg'[t] = a
          /\ \A u \in Threads \ {t} : pc'[u] = pc[u] /\ arg'[u] = arg[u]
      BY <1>2 DEF Enter, MemoryInv, TypeOK
    <2>2. /\ "idle" \notin PollLabels /\ label \notin PollLabels /\ label # "wakeup"
          /\ label \in WriteLabels => label = "write_lock"
      BY DEF PollLabels, WriteLabels
    <2>3. \A u \in Threads : pc[u] \in PollLabels \/ pc'[u] \in PollLabels => pc'[u] = pc[u]
      BY <1>2, <2>1, <2>2
    <2>4. \A u \in Threads : pc'[u] = "wakeup" =>
             pc[u] = "wakeup" /\ scan'[u] = scan[u] /\ arg'[u].q = arg[u].q
      BY <2>1, <2>2
    <2>5. NextFrame
      BY <2>1, <2>3, <2>4 DEF NextFrame
    <2>6. \A u \in Threads : /\ FlagsFrom(arg'[u].flags)
                             /\ pc'[u] \in WriteLabels =>
                                   "WRITER" \in arg'[u].flags \/ (pc[u] \in WriteLabels /\ arg'[u].flags = arg[u].flags)
      <3>1. FlagsFrom(arg'[t].flags) /\ (pc'[t] \in WriteLabels => "WRITER" \in arg'[t].flags)
        BY <1>2, <2>1, <2>2
      <3>2. \A u \in Threads \ {t} : FlagsFrom(arg'[u].flags)
        BY <2>1 DEF FlagsFrom
      <3> QED BY <2>1, <3>1, <3>2
    <2>7. \A s \in Slots : FlagsFrom(handle'[s].flags)
      BY <2>1 DEF FlagsFrom
    <2>8. \A u \in Threads : pc[u] \in {"wakeup", "hung"} => pc'[u] = pc[u] /\ scan'[u] = scan[u]
      BY <1>2, <2>1
    <2>9. NewsFrame
      BY <2>1, <2>6, <2>7, <2>8 DEF NewsFrame
    <2> QED BY <2>5, <2>9
  <1>3. CASE \E c \in CreateCalls : msg_queue_create(c)
    <2>1. PICK c \in CreateCalls : msg_queue_create(c)
      BY <1>3
    <2>2. c.slot \in Slots /\ c.queue \in Queues /\ SlotOwner[c.slot] \in Threads /\ pc[SlotOwner[c.slot]] = "idle"
      BY <2>1, CallAssumption, OwnerAssumption DEF msg_queue_create
    <2>3. CASE \E e : Refuse(SlotOwner[c.slot], e)
      BY <1>1, <2>2, <2>3
    <2>4. CASE ~\E e : Refuse(SlotOwner[c.slot], e)
      <3>1. /\ mq[c.queue].status = "unborn" /\ UNCHANGED <<pc, arg, scan, pollm>>
            /\ handle' = [handle EXCEPT ![c.slot] = [q |-> c.queue, flags |-> c.flags]]
        BY <2>1, <2>4 DEF msg_queue_create
      <3>2. PICK event \in UninitEvents :
               mq' = [mq EXCEPT ![c.queue] = mq_open(mq_init(c.capacity, event), c.flags)]
        BY <2>1, <2>4 DEF msg_queue_create
      <3>3. /\ mq_open(mq_init(c.capacity, event), c.flags).list = <<>>
            /\ mq_open(mq_init(c.capacity, event), c.flags).buf = <<>>
        BY DEF mq_open, mq_init
      <3>4. \A q \in Queues : mq'[q].list = mq[q].list \/ (mq[q].status = "unborn" /\ mq'[q].list = <<>>)
        BY <3>1, <3>2, <3>3 DEF MemoryInv, TypeOK
      <3>5. \A s \in Slots : pc[SlotOwner[s]] \in PollLabels => handle'[s] = handle[s]
        BY <2>2, <3>1 DEF PollLabels, MemoryInv, TypeOK
      <3>6. \A q \in Queues : mq'[q].buf # <<>> => mq'[q] = mq[q]
        BY <2>2, <3>2, <3>3 DEF MemoryInv, TypeOK
      <3>7. \A s \in Slots : FlagsFrom(handle'[s].flags)
        <4>1. \A s \in Slots : handle'[s] = handle[s] \/ handle'[s].flags = c.flags
          BY <2>2, <3>1 DEF MemoryInv, TypeOK
        <4> QED BY <4>1 DEF FlagsFrom
      <3>8. \A u \in Threads : FlagsFrom(arg'[u].flags)
        BY <3>1 DEF FlagsFrom
      <3>9. NewsFrame
        BY <3>1, <3>6, <3>7, <3>8 DEF NewsFrame
      <3>10. NextFrame
        BY <3>1, <3>4, <3>5 DEF NextFrame
      <3> QED BY <3>9, <3>10
    <2> QED BY <2>3, <2>4
  <1>4. CASE \E c \in OpenCalls : msg_queue_open(c)
    <2>1. PICK c \in OpenCalls : msg_queue_open(c)
      BY <1>4
    <2>2. SlotOwner[c.slot] \in Threads /\ FlagsFrom(c.flags)
      BY CallAssumption, OwnerAssumption DEF FlagsFrom
    <2>3. [WithHandle(c.slot) EXCEPT !.dst = c.dst, !.flags = c.flags].flags = c.flags
      BY DEF WithHandle, NoArg
    <2> QED BY <1>1, <1>2, <2>1, <2>2, <2>3 DEF msg_queue_open
  <1>8. ASSUME NEW s \in Slots, NEW n
        PROVE  /\ WithHandle(s).flags = handle[s].flags /\ [WithHandle(s) EXCEPT !.len = n].flags = handle[s].flags
               /\ FlagsFrom(handle[s].flags) /\ SlotOwner[s] \in Threads
    BY OwnerAssumption DEF WithHandle, NoArg, FlagsFrom
  <1>5. CASE \E s \in CloseCalls : msg_queue_close(s)
    <2>1. PICK s \in CloseCalls : msg_queue_close(s) /\ s \in Slots
      BY <1>5, CallAssumption
    <2> QED BY <1>1, <1>2, <1>8, <2>1 DEF msg_queue_close
  <1>6. CASE \E c \in ReadCalls : msg_queue_read(c)
    <2>1. PICK c \in ReadCalls : msg_queue_read(c) /\ c.slot \in Slots
      BY <1>6, CallAssumption
    <2> QED BY <1>1, <1>2, <1>8, <2>1 DEF msg_queue_read
  <1>7. CASE \E c \in WriteCalls : msg_queue_write(c)
    <2>1. PICK c \in WriteCalls : msg_queue_write(c) /\ c.slot \in Slots
      BY <1>7, CallAssumption
    <2> QED BY <1>1, <1>2, <1>8, <2>1 DEF msg_queue_write
  <1> QED BY <1>3, <1>4, <1>5, <1>6, <1>7 DEF Call

(* The beginning of helper_wakeup.                                         *)
LEMMA WakeupFrame ==
    ASSUME MemoryInv, NEW t \in Threads, pc[t] \notin {"idle", "wakeup", "hung"} \cup PollLabels,
           NEW pcs \in [Threads -> Label], \A u \in Threads : Woken(pc[u], pcs[u]), NEW r,
           NEW b, b.list = mq[arg[t].q].list, BeginWakeup(t, pcs, r, b), UNCHANGED <<handle, poll, pollm>>,
           Kept(mq[arg[t].q], b) \/ "READABLE" \in b.queue_event
    PROVE  NextFrame /\ NewsFrame
  <1>1. arg[t] \in Arg /\ arg[t].q \in Queues /\ arg \in [Threads -> Arg]
    BY InCall DEF MemoryInv, TypeOK
  <1>2. PICK a : a = [arg[t] EXCEPT !.rv = r]
    OBVIOUS
  <1>3. a.q = arg[t].q /\ arg' = [arg EXCEPT ![t] = a] /\ a.flags = arg[t].flags
    BY <1>1, <1>2 DEF Arg, BeginWakeup
  <1>4. "wakeup" \notin PollLabels /\ "wakeup" \notin WriteLabels
    BY DEF PollLabels, WriteLabels
  <1>5. mq' = [mq EXCEPT ![arg[t].q] = b] /\ pc' = [pcs EXCEPT ![t] = "wakeup"] /\ scan' = [scan EXCEPT ![t] = b.list]
    BY DEF BeginWakeup
  <1> QED BY <1>1, <1>3, <1>4, <1>5, NextShape

(* The steps of a call.                                                    *)
LEMMA StepFrame ==
    ASSUME MemoryInv, NEW t \in Threads, Lock(t) \/ Progress(t) \/ SpuriousWakeup(t), poll' = poll
    PROVE  NextFrame /\ NewsFrame
  <1>1. /\ pc[t] \notin {"idle", "hung"} \cup PollLabels
        /\ pc[t] \notin {"idle"} \cup PollLabels /\ pc[t] \notin PollLabels \cup {"hung"}
        /\ (pc[t] = "wakeup" => scan[t] = <<>>)
        /\ pollm' = pollm
    BY DEF Lock, Progress, SpuriousWakeup, LockLabels, PollLabels, OpenBody, CloseBody, Destroy, EndWakeup,
           ReadEof, ReadEmpty, ReadPeek, ReadHeader, ReadBody, WriteReject, WriteWait, WritePut, Accepted
  <1>2. PICK q \in Queues : q = arg[t].q
    BY <1>1, InCall
  <1>3. /\ mq[q] \in Backend /\ arg[t] \in Arg /\ arg[t].flags \in SUBSET Flag /\ arg[t].len \in Nat /\ arg[t].head \in Nat
        /\ pc \in [Threads -> Label] /\ mq \in [Queues -> Backend] /\ arg \in [Threads -> Arg]
        /\ handle \in [Slots -> Handle] /\ stored[q] \in Nat
    BY <1>1, <1>2, InCall DEF MemoryInv, TypeOK
  <1>4. /\ \A u \in Threads : Woken(pc[u], pc[u])
        /\ arg = [arg EXCEPT ![t] = arg[t]] /\ mq = [mq EXCEPT ![q] = mq[q]]
    BY <1>3, NotWoken
  <1>5. ASSUME NEW label, label \notin PollLabels \cup {"wakeup"}, pc' = [pc EXCEPT ![t] = label],
               label \in WriteLabels => pc[t] \in WriteLabels,
               NEW b, Kept(mq[q], b), mq' = [mq EXCEPT ![q] = b], NEW a, arg' = [arg EXCEPT ![t] = a],
               (a = NoArg /\ label = "idle") \/ a.flags = arg[t].flags,
               \A s \in Slots : pc[SlotOwner[s]] \in PollLabels /\ handle[s] # NullHandle => handle'[s] = handle[s],
               \A s \in Slots : handle'[s] = handle[s] \/ handle'[s].flags \in {{}, arg[t].flags},
               scan' = scan
        PROVE  NextFrame /\ NewsFrame
    <2>1. b.list = mq[q].list
      BY <1>5 DEF Kept
    <2>2. label \notin PollLabels /\ label # "wakeup" /\ scan' = scan /\ UNCHANGED <<poll, pollm>>
      BY <1>1, <1>5
    <2>3. \A u \in Threads \ {t} : Woken(pc[u], pc[u])
      BY <1>4
    <2>4. Kept(mq[q], b) \/ (label = "wakeup" /\ "READABLE" \in b.queue_event) \/ Silent(t)
      BY <1>5
    <2> QED BY <1>1, <1>3, <1>5, <2>1, <2>2, <2>3, <2>4, NextShape
  <1>6. \A l \in {"idle", "destroy", "take", "take_body", "read_wait", "read_lock"} :
           l \notin PollLabels \cup {"wakeup"} /\ l \notin WriteLabels
    BY DEF PollLabels, WriteLabels
  <1>7. CASE Lock(t)
    <2>1. PICK b : b = [mq[q] EXCEPT !.mutex = t]
      OBVIOUS
    <2>2. Kept(mq[q], b) /\ mq' = [mq EXCEPT ![q] = b]
      BY <1>2, <1>3, <1>7, <2>1, KeptOf DEF Lock
    <2>3. /\ Locked(pc[t]) \notin PollLabels \cup {"wakeup"}
          /\ Locked(pc[t]) \in WriteLabels => pc[t] \in WriteLabels
      BY <1>7 DEF Lock, LockLabels, Locked, PollLabels, WriteLabels
    <2>4. pc' = [pc EXCEPT ![t] = Locked(pc[t])] /\ UNCHANGED <<handle, scan, arg>>
      BY <1>7 DEF Lock
    <2> QED BY <1>4, <1>5, <2>2, <2>3, <2>4
  <1>8. CASE SpuriousWakeup(t)
    <2>1. PICK label \in {"read_lock", "write_relock"} :
             pc' = [pc EXCEPT ![t] = label] /\ (label = "write_relock" => pc[t] = "write_wait")
      BY <1>8 DEF SpuriousWakeup
    <2>2. UNCHANGED <<mq, handle, scan, arg>>
      BY <1>8 DEF SpuriousWakeup
    <2>3. label \notin PollLabels \cup {"wakeup"} /\ (label \in WriteLabels => pc[t] \in WriteLabels)
      BY <2>1 DEF PollLabels, WriteLabels
    <2>4. Kept(mq[q], mq[q])
      BY <1>3, KeptOf
    <2> QED BY <1>4, <1>5, <2>1, <2>2, <2>3, <2>4
  <1>9. CASE OpenBody(t)
    <2>1. PICK c : c = mq_open(mq[q], arg[t].flags)
      OBVIOUS
    <2>2. c \in Backend /\ Kept(mq[q], c)
      BY <1>3, <2>1, KeptOf, UpdateTypes
    <2>3. Kept(mq[q], mutex_unlock(c))
      BY <1>3, <2>2, KeptOf
    <2>4. /\ mq' = [mq EXCEPT ![q] = mutex_unlock(c)]
          /\ pc' = [pc EXCEPT ![t] = "idle"] /\ arg' = [arg EXCEPT ![t] = NoArg] /\ scan' = scan
          /\ handle' = [handle EXCEPT ![arg[t].dst] = [q |-> q, flags |-> arg[t].flags]]
      BY <1>2, <1>3, <1>9, <2>1 DEF OpenBody, Leave
    <2>5. arg[t].dst # None /\ handle[arg[t].dst] = NullHandle
      BY <1>9 DEF MemoryInv, CallInv, OpenBody
    <2>6. /\ \A s \in Slots : handle[s] # NullHandle => handle'[s] = handle[s]
          /\ \A s \in Slots : handle'[s] = handle[s] \/ handle'[s].flags = arg[t].flags
      BY <1>3, <2>4, <2>5
    <2> QED BY <1>5, <1>6, <2>3, <2>4, <2>6
  <1>10. CASE CloseBody(t)
    <2> DEFINE c == mq_close(mq[q], arg[t].flags)
    <2>1. Kept(mq[q], c) /\ c \in Backend
      <3>1. pc[t] = "close"
        BY <1>10 DEF CloseBody
      <3>2. c \in Backend
        BY <1>2, <1>3, <3>1, CloseCounts, CloseType
      <3> QED BY <1>3, <3>2, KeptOf
    <2>2. handle' = [handle EXCEPT ![arg[t].slot] = NullHandle] /\ scan' = scan
      BY <1>10 DEF CloseBody
    <2>3. arg[t].slot \in Slots /\ SlotOwner[arg[t].slot] = t
      <3>1. pc[t] = "close" /\ pc[t] # "destroy"
        BY <1>10 DEF CloseBody
      <3> QED BY <1>1, <3>1, InCallRefs
    <2>4. /\ \A s \in Slots : pc[SlotOwner[s]] \in PollLabels => handle'[s] = handle[s]
          /\ \A s \in Slots : handle'[s] = handle[s] \/ handle'[s].flags = {}
      BY <1>1, <1>3, <2>2, <2>3 DEF NullHandle
    <2>5. CASE LastHandle(c)
      <3>1. mq' = [mq EXCEPT ![q] = mutex_unlock(c)] /\ pc' = [pc EXCEPT ![t] = "destroy"] /\ arg' = arg
        BY <1>2, <1>10, <2>5 DEF CloseBody
      <3>2. Kept(mq[q], mutex_unlock(c))
        BY <1>3, <2>1, KeptOf
      <3> HIDE DEF c
      <3> QED BY <1>4, <1>5, <1>6, <2>2, <2>4, <3>1, <3>2
    <2>6. CASE ~LastHandle(c)
      <3> DEFINE pcs == CloseBroadcast(q, c)
      <3>1. PICK d : d = [c EXCEPT !.queue_event = c.queue_event \cup CloseEvents(c)]
        OBVIOUS
      <3>2. /\ mq' = [mq EXCEPT ![q] = mutex_unlock(d)] /\ pc' = [pcs EXCEPT ![t] = "idle"]
            /\ arg' = [arg EXCEPT ![t] = NoArg]
        <4>1. [c EXCEPT !.queue_event = @ \cup CloseEvents(c)] = d
          BY <2>1, <3>1 DEF Backend
        <4> QED BY <1>2, <1>10, <2>6, <4>1 DEF CloseBody, Leave
      <3> HIDE DEF c
      <3>3. d \in Backend
        <4>1. c.queue_event \cup CloseEvents(c) \in SUBSET Event
          BY <2>1, UpdateTypes DEF Backend
        <4> QED BY <2>1, <3>1, <4>1, UpdateTypes
      <3>4. Kept(c, d)
        <4>1. c.queue_event \subseteq c.queue_event \cup CloseEvents(c)
          OBVIOUS
        <4> QED BY <2>1, <3>1, <4>1, KeptOf
      <3>5. Kept(d, mutex_unlock(d))
        BY <3>3, KeptOf
      <3>6. Kept(mq[q], mutex_unlock(d))
        <4>1. Kept(mq[q], d)
          BY <1>3, <2>1, <3>4, KeptOf
        <4> QED BY <1>3, <3>5, <4>1, KeptOf
      <3>7. mutex_unlock(d).list = mq[q].list
        BY <3>6 DEF Kept
      <3>8. pcs \in [Threads -> Label] /\ \A u \in Threads : Woken(pc[u], pcs[u])
        BY <1>3, BroadcastEffect DEF Woken
      <3> HIDE DEF pcs
      <3> QED BY <1>1, <1>6, <2>2, <2>4, <3>2, <3>6, <3>7, <3>8, NextShape
    <2> QED BY <2>5, <2>6
  <1>11. CASE Destroy(t)
    <2>1. PICK b : b = [mq[q] EXCEPT !.status = "freed"]
      OBVIOUS
    <2>2. Kept(mq[q], b) /\ mq' = [mq EXCEPT ![q] = b]
      BY <1>2, <1>3, <1>11, <2>1, KeptOf DEF Destroy
    <2>3. pc' = [pc EXCEPT ![t] = "idle"] /\ arg' = [arg EXCEPT ![t] = NoArg] /\ UNCHANGED <<handle, scan>>
      BY <1>11 DEF Destroy, Leave
    <2> QED BY <1>5, <1>6, <2>2, <2>3
  <1>12. CASE EndWakeup(t) \/ WriteReject(t) \/ ReadEmpty(t) \/ WriteWait(t)
    <2>1. PICK b : b = mutex_unlock(mq[q])
      OBVIOUS
    <2>2. Kept(mq[q], b) /\ mq' = [mq EXCEPT ![q] = b]
      BY <1>2, <1>3, <1>12, <2>1, KeptOf DEF EndWakeup, WriteReject, ReadEmpty, WriteWait
    <2>3. UNCHANGED <<handle, scan>>
      BY <1>12 DEF EndWakeup, WriteReject, ReadEmpty, WriteWait
    <2>4. \/ pc' = [pc EXCEPT ![t] = "idle"] /\ arg' = [arg EXCEPT ![t] = NoArg]
          \/ pc' = [pc EXCEPT ![t] = "read_wait"] /\ arg' = [arg EXCEPT ![t] = arg[t]]
          \/ /\ pc' = [pc EXCEPT ![t] = "write_wait"] /\ arg' = [arg EXCEPT ![t] = arg[t]]
             /\ pc[t] \in {"write", "write_loop"}
      BY <1>4, <1>12 DEF EndWakeup, WriteReject, ReadEmpty, WriteWait, Accepted, Leave
    <2>5. CASE pc' = [pc EXCEPT ![t] = "idle"] /\ arg' = [arg EXCEPT ![t] = NoArg]
      BY <1>5, <1>6, <2>2, <2>3, <2>5
    <2>6. CASE pc' = [pc EXCEPT ![t] = "read_wait"] /\ arg' = [arg EXCEPT ![t] = arg[t]]
      BY <1>5, <1>6, <2>2, <2>3, <2>6
    <2>7. CASE /\ pc' = [pc EXCEPT ![t] = "write_wait"] /\ arg' = [arg EXCEPT ![t] = arg[t]]
               /\ pc[t] \in {"write", "write_loop"}
      <3>1. pc[t] \in WriteLabels /\ "write_wait" \notin PollLabels \cup {"wakeup"}
        BY <2>7 DEF WriteLabels, PollLabels
      <3> QED BY <1>5, <2>2, <2>3, <2>7, <3>1
    <2> QED BY <2>4, <2>5, <2>6, <2>7
  <1>13. CASE ReadPeek(t) \/ ReadHeader(t)
    <2>1. PICK b : mq' = [mq EXCEPT ![q] = b] /\ Kept(mq[q], b)
      <3>1. \/ mq' = [mq EXCEPT ![q] = mutex_unlock(mq[q])]
            \/ mq' = [mq EXCEPT ![q] = mq[q]]
            \/ mq' = [mq EXCEPT ![q] = ring_buffer_read(mq[q], SizeT)]
        BY <1>2, <1>4, <1>13 DEF ReadPeek, ReadHeader
      <3>2. Kept(mq[q], mq[q]) /\ Kept(mq[q], mutex_unlock(mq[q])) /\ Kept(mq[q], ring_buffer_read(mq[q], SizeT))
        BY <1>3, KeptOf, SizeAssumption
      <3> QED BY <3>1, <3>2
    <2>2. PICK n : arg' = [arg EXCEPT ![t].head = n]
      BY <1>13 DEF ReadPeek, ReadHeader
    <2>3. PICK a : arg' = [arg EXCEPT ![t] = a] /\ a = [arg[t] EXCEPT !.head = n]
      BY <2>2
    <2>4. a.flags = arg[t].flags
      BY <1>3, <2>3 DEF Arg
    <2>5. PICK label \in {"take", "take_body"} : pc' = [pc EXCEPT ![t] = label]
      BY <1>13 DEF ReadPeek, ReadHeader
    <2>6. UNCHANGED <<handle, scan>>
      BY <1>13 DEF ReadPeek, ReadHeader
    <2> QED BY <1>5, <1>6, <2>1, <2>3, <2>4, <2>5, <2>6
  <1>14. CASE ReadEof(t)
    <2>1. PICK b : b = [mq[q] EXCEPT !.queue_event = mq[q].queue_event \cup {"NOWRITERS"}]
      OBVIOUS
    <2>2. Kept(mq[q], b)
      BY <1>3, <2>1 DEF Backend, Kept
    <2>3. b.list = mq[q].list
      BY <2>2 DEF Kept
    <2>4. BeginWakeup(t, pc, "EOF", b) /\ handle' = handle /\ pc[t] = "read"
      <3>1. b = [mq[q] EXCEPT !.queue_event = @ \cup {"NOWRITERS"}]
        BY <1>3, <2>1 DEF Backend
      <3> QED BY <1>2, <1>14, <3>1 DEF ReadEof
    <2>5. pc[t] \notin {"idle", "wakeup", "hung"} \cup PollLabels
      BY <1>1, <2>4
    <2> QED BY <1>1, <1>2, <1>3, <1>4, <2>2, <2>3, <2>4, <2>5, WakeupFrame
  <1>15. CASE ReadBody(t)
    <2>1. PICK c : c = ring_buffer_read(mq[q], arg[t].head)
      OBVIOUS
    <2>2. c \in Backend /\ Kept(mq[q], c)
      BY <1>3, <2>1, BufferTypes, KeptOf
    <2>3. PICK b : b = [c EXCEPT !.queue_event = ReadEvents(c)]
      OBVIOUS
    <2>4. b.list = mq[q].list /\ Kept(mq[q], b)
      <3>1. b.list = c.list /\ b.buf = c.buf /\ b.queue_event = ReadEvents(c)
        BY <2>2, <2>3 DEF Backend
      <3>2. "READABLE" \in c.queue_event => c.buf = <<>> \/ "READABLE" \in ReadEvents(c)
        BY <2>2, EmptySeq DEF ReadEvents, ring_buffer_used, Backend
      <3> QED BY <2>2, <3>1, <3>2 DEF Kept
    <2>5. PICK pcs \in SignalWriter(q) : BeginWakeup(t, pcs, "MSG", b)
      BY <1>2, <1>15, <2>1, <2>3 DEF ReadBody
    <2>6. handle' = handle /\ pc[t] = "take_body"
      BY <1>15 DEF ReadBody
    <2>7. pcs \in [Threads -> Label] /\ \A u \in Threads : Woken(pc[u], pcs[u])
      BY SignalWakes
    <2>8. pc[t] \notin {"idle", "wakeup", "hung"} \cup PollLabels
      BY <1>1, <2>6
    <2> QED BY <1>1, <1>2, <2>4, <2>5, <2>6, <2>7, <2>8, WakeupFrame
  <1>16. CASE WritePut(t)
    <2> DEFINE m == [id |-> stored[q] + 1, len |-> arg[t].len]
               c == ring_buffer_write(ring_buffer_write(mq[q], HeaderOf(m)), BodyOf(m))
    <2>1. c \in Backend /\ c.list = mq[q].list
      <3>1. m \in Msg
        BY <1>3 DEF Msg
      <3> HIDE DEF m
      <3>2. HeaderOf(m) \in Seq(Cell) /\ BodyOf(m) \in Seq(Cell)
        BY <3>1, MessageTypes
      <3>3. ring_buffer_write(mq[q], HeaderOf(m)) \in Backend /\ ring_buffer_write(mq[q], HeaderOf(m)).list = mq[q].list
        BY <1>3, <3>2, BufferTypes, KeptOf
      <3> QED BY <3>2, <3>3, BufferTypes, KeptOf
    <2>2. PICK pcs \in SignalReader(q) :
             IF "NONBLOCK" \in arg[t].flags
             THEN /\ mq' = [mq EXCEPT ![q] = mutex_unlock(c)]
                  /\ pc' = [pcs EXCEPT ![t] = "idle"] /\ arg' = [arg EXCEPT ![t] = NoArg] /\ scan' = scan
             ELSE BeginWakeup(t, pcs, "OK", [c EXCEPT !.queue_event = WriteEvents(c)])
      BY <1>2, <1>16 DEF WritePut, Leave
    <2>3. handle' = handle /\ pc[t] \in {"write", "write_loop"}
      BY <1>16 DEF WritePut, Accepted
    <2>4. pcs \in [Threads -> Label] /\ \A u \in Threads : Woken(pc[u], pcs[u])
      BY SignalWakes
    <2>5. PICK d : d = [c EXCEPT !.queue_event = WriteEvents(c)]
      OBVIOUS
    <2>6. /\ mutex_unlock(c).list = mq[q].list /\ d.list = mq[q].list
          /\ "READABLE" \in d.queue_event
      <3>1. Kept(c, mutex_unlock(c)) /\ d.list = c.list /\ d.queue_event = WriteEvents(c)
        BY <2>1, <2>5, KeptOf
      <3>2. "READABLE" \in WriteEvents(c)
        BY DEF WriteEvents
      <3> QED BY <2>1, <3>1, <3>2 DEF Kept
    <2>7. Silent(t) <=> "NONBLOCK" \in arg[t].flags
      BY <2>3 DEF Silent, WriteLabels
    <2> HIDE DEF c
    <2>8. CASE "NONBLOCK" \in arg[t].flags
      BY <1>1, <1>6, <2>2, <2>3, <2>4, <2>6, <2>7, <2>8, NextShape
    <2>9. CASE "NONBLOCK" \notin arg[t].flags
      <3>1. pc[t] \notin {"idle", "wakeup", "hung"} \cup PollLabels
        BY <1>1, <2>3
      <3> QED BY <1>1, <1>2, <2>2, <2>3, <2>4, <2>5, <2>6, <2>9, <3>1, WakeupFrame
    <2> QED BY <2>8, <2>9
  <1> QED BY <1>7, <1>8, <1>9, <1>10, <1>11, <1>12, <1>13, <1>14, <1>15, <1>16 DEF Progress

-----------------------------------------------------------------------------
(* All together.                                                           *)
QueueInv == MemoryInv /\ ChannelInv /\ WaitInv

LEMMA PollBegins == PollInit => QueueInv /\ PollInv
  <1> SUFFICES ASSUME PollInit PROVE QueueInv /\ PollInv
    OBVIOUS
  <1>1. QueueInv
    BY MemoryInit, ChannelInit, WaitInit DEF QueueInv, PollInit
  <1>2. /\ poll = [t \in Threads |-> NoPoll] /\ \A t \in Threads : pc[t] = "idle"
        /\ \A q \in Queues : mq[q].list = <<>>
    BY DEF PollInit, Init, Unborn, mq_init
  <1>3. NoPoll \in PollRec
    BY DEF NoPoll, PollRec
  <1>4. \A t \in Threads : PollOK(pc[t], t, poll[t]) /\ ScanOK(t) /\ Registered(t) = {}
    <2>1. "idle" \notin PollLabels
      BY DEF PollLabels
    <2> QED BY <1>2, <2>1, RegisteredIs, RegCases DEF PollOK, ScanOK
  <1>5. ASSUME NEW q \in Queues PROVE ListOK(q)
    <2>1. NodesOf(q) = {}
      BY <1>4, NodeMembers
    <2>2. Elements(<<>>) = {} /\ Distinct(<<>>)
      BY DEF Elements, Distinct
    <2> QED BY <1>2, <2>1, <2>2 DEF ListOK
  <1>6. poll \in [Threads -> PollRec]
    BY <1>2, <1>3
  <1>7. PollInv
    BY <1>4, <1>5, <1>6 DEF PollInv
  <1> QED BY <1>1, <1>7

LEMMA PollStepFrame ==
    ASSUME QueueInv, PollInv, PollNext
    PROVE  PollInv' /\ ((Next /\ poll' = poll) \/ PollFrame)
  <1>0. MemoryInv /\ ChannelInv
    BY DEF QueueInv
  <1>1. CASE Next /\ UNCHANGED poll
    <2>1. NextFrame
      BY <1>0, <1>1, CallFrame, StepFrame DEF Next
    <2> QED BY <1>0, <1>1, <2>1, NextPoll
  <1>2. CASE \E c \in PollCalls : msg_queue_poll(c)
    BY <1>0, <1>2, CallPoll
  <1>3. ASSUME NEW t \in Threads, PollLock(t) \/ PollStep(t) \/ PollSpurious(t) \/ WakeNode(t)
        PROVE  PollFrame /\ PollInv'
    <2>1. CASE PollAdd(t)
      BY <1>0, <2>1, AddPoll
    <2>2. CASE PollDel(t)
      BY <1>0, <2>2, DelPoll
    <2>3. CASE PollCount(t)
      BY <1>0, <2>3, CountPoll
    <2>4. CASE PollRelease(t) \/ PollWake(t) \/ PollSpurious(t) \/ PollFinish(t)
      BY <1>0, <2>4, PlainPoll
    <2>5. CASE WakeNode(t)
      BY <1>0, <2>5, WakeShape, WakePoll
    <2> QED BY <1>3, <2>1, <2>2, <2>3, <2>4, <2>5 DEF PollLock, PollStep
  <1> QED BY <1>1, <1>2, <1>3 DEF PollNext

LEMMA PollKeeps ==
    ReadersHaveRoom /\ LengthsDontWrap /\ QueueInv /\ PollInv /\ [PollNext]_pollVars => QueueInv' /\ PollInv'
  <1> SUFFICES ASSUME ReadersHaveRoom, LengthsDontWrap, QueueInv, PollInv, [PollNext]_pollVars
               PROVE  QueueInv' /\ PollInv'
    OBVIOUS
  <1>0. MemoryInv /\ ChannelInv /\ WaitInv
    BY DEF QueueInv
  <1>1. CASE PollNext
    <2>1. CASE Next
      BY <1>0, <1>1, <2>1, PollStepFrame, MemoryStep, ChannelStep, WaitStep DEF QueueInv
    <2>2. CASE PollFrame
      BY <1>0, <1>1, <2>2, PollStepFrame, FrameMemory, FrameChannel, FrameWait DEF QueueInv
    <2> QED BY <1>1, <2>1, <2>2, PollStepFrame
  <1>2. CASE UNCHANGED pollVars
    <2>1. UNCHANGED vars /\ poll' = poll /\ UNCHANGED <<mq, handle, pc, arg, ret, scan, pollm, stored, rcvd>>
      BY <1>2 DEF pollVars, vars
    <2>2. QueueInv'
      BY <1>0, <2>1, MemoryStep, ChannelStep, WaitStep DEF QueueInv
    <2>3. NextFrame
      BY <2>1 DEF NextFrame
    <2> QED BY <1>0, <2>2, <2>3, NextPoll
  <1> QED BY <1>1, <1>2

LEMMA PollInvImplies == MemoryInv /\ PollInv => PollNodesLive /\ PolledQueuesLive
  <1> SUFFICES ASSUME MemoryInv, PollInv PROVE PollNodesLive /\ PolledQueuesLive
    OBVIOUS
  <1>1. ASSUME NEW q \in Queues
        PROVE  Elements(mq[q].list) = NodesOf(q) /\ Cardinality(Elements(mq[q].list)) = Len(mq[q].list)
    <2>1. Elements(mq[q].list) = NodesOf(q) /\ Distinct(mq[q].list) /\ mq[q].list \in Seq(Node)
      BY DEF PollInv, ListOK, MemoryInv, TypeOK, Backend
    <2> QED BY <2>1, DistinctCount
  <1>2. PollNodesLive
    BY <1>1 DEF PollNodesLive, NodesOf, PollInv, ScanOK
  <1>3. ASSUME NEW t \in Threads, pc[t] \in PollLabels, NEW i \in DOMAIN poll[t].fds, poll[t].fds[i].queue # NullHandle
        PROVE  mq[poll[t].fds[i].queue.q].status = "live"
    <2>1. FdOK(t, poll[t].fds[i])
      BY <1>3 DEF PollInv, PollOK, LiveFds
    <2> QED BY <1>3, <2>1 DEF FdOK, MemoryInv, NoUseAfterFree
  <1> QED BY <1>2, <1>3 DEF PolledQueuesLive

(* However many threads poll whichever of their queues: the lists hold     *)
(* exactly the nodes of the calls between list_add_tail and list_del,      *)
(* helper_wakeup touches no freed node, and no poll call looks at a freed  *)
(* queue.                                                                  *)
THEOREM PollSafe ==
    ASSUME ReadersHaveRoom, LengthsDontWrap
    PROVE  PollSpec => [](PollNodesLive /\ PolledQueuesLive)
  <1>1. PollInit => QueueInv /\ PollInv
    BY PollBegins
  <1>2. QueueInv /\ PollInv /\ [PollNext]_pollVars => (QueueInv /\ PollInv)'
    BY PollKeeps
  <1>3. QueueInv /\ PollInv => PollNodesLive /\ PolledQueuesLive
    BY PollInvImplies DEF QueueInv
  <1> QED BY <1>1, <1>2, <1>3, PTL DEF PollSpec

(* What MsgQueue promises holds of the queues that are also polled.        *)
THEOREM PolledQueuesKeepPromises ==
    ASSUME ReadersHaveRoom, LengthsDontWrap
    PROVE  PollSpec => [](/\ TypeOK /\ HandleCounts /\ NoUseAfterFree /\ LockDiscipline
                          /\ WholeMessages /\ NoStrandedReader /\ NoMutualWait)
  <1>1. PollInit => QueueInv /\ PollInv
    BY PollBegins
  <1>2. QueueInv /\ PollInv /\ [PollNext]_pollVars => (QueueInv /\ PollInv)'
    BY PollKeeps
  <1>3. QueueInv => /\ TypeOK /\ HandleCounts /\ NoUseAfterFree /\ LockDiscipline
                    /\ WholeMessages /\ NoStrandedReader /\ NoMutualWait
    <2>1. WaitInv => NoStrandedReader /\ NoMutualWait
      BY DEF WaitInv, ReaderOK, WriterOK, NoStrandedReader, NoMutualWait, Messages, Lasts, Readers, Looking
    <2> QED BY <2>1 DEF QueueInv, MemoryInv, ChannelInv
  <1> QED BY <1>1, <1>2, <1>3, PTL DEF PollSpec

(* A step of a poll or of helper_wakeup leaves what is in flight alone.    *)
LEMMA PollFlight ==
    ReadersHaveRoom /\ LengthsDontWrap /\ QueueInv /\ PollInv /\ IdsInv /\ [PollNext]_pollVars
        => IdsInv' /\ [Channel!ChannelNext]_(Channel!channelVars)
  <1> SUFFICES ASSUME ReadersHaveRoom, LengthsDontWrap, QueueInv, PollInv, IdsInv, [PollNext]_pollVars
               PROVE  IdsInv' /\ [Channel!ChannelNext]_(Channel!channelVars)
    OBVIOUS
  <1>1. CASE [Next]_vars
    BY <1>1, FlightStep DEF QueueInv
  <1>2. CASE PollFrame
    BY <1>2, SameFlight DEF PollFrame, OnlyList, SameBuffers
  <1>3. CASE PollNext
    BY <1>1, <1>2, <1>3, PollStepFrame
  <1> QED BY <1>1, <1>3 DEF pollVars

(* Queues that are polled while they are read and written still implement  *)
(* the channel.                                                            *)
THEOREM PolledQueueIsChannel ==
    ASSUME ReadersHaveRoom, LengthsDontWrap
    PROVE  PollSpec => ImplementsChannel
  <1>1. PollInit => QueueInv /\ PollInv /\ IdsInv /\ Channel!ChannelInit
    BY PollBegins, FlightInit DEF PollInit
  <1>2. QueueInv /\ PollInv /\ IdsInv /\ [PollNext]_pollVars => (QueueInv /\ PollInv /\ IdsInv)'
    BY PollKeeps, PollFlight
  <1>3. QueueInv /\ PollInv /\ IdsInv /\ [PollNext]_pollVars => [Channel!ChannelNext]_(Channel!channelVars)
    BY PollFlight
  <1> QED BY <1>1, <1>2, <1>3, PTL DEF PollSpec, ImplementsChannel, Channel!ChannelSpec

-----------------------------------------------------------------------------
(* No poller sleeps through a message.  Further invariants: a queue with a *)
(* message is READABLE; no writer is non-blocking; a poll call holds its   *)
(* poll_mutex until it sleeps; and from the moment it has decided to sleep *)
(* a message has a thread on its way to tell.                              *)
Blocking(flags) == ~({"WRITER", "NONBLOCK"} \subseteq flags)
EventInv == \A q \in Queues : mq[q].buf # <<>> => "READABLE" \in mq[q].queue_event
FlagInv == /\ \A s \in Slots : Blocking(handle[s].flags)
           /\ \A t \in Threads : /\ Blocking(arg[t].flags)
                                 /\ pc[t] \in WriteLabels => "WRITER" \in arg[t].flags
Unasleep == {"poll_add", "poll_count", "poll_sleep"}
MutexInv == \A p \in Threads : pc[p] \in Unasleep => pollm[p] = p
Sleeper(p) == /\ pc[p] \in {"poll_sleep", "poll_wait"}
              /\ Len(poll[p].fds) = 1 /\ "READABLE" \in poll[p].fds[1].events
              /\ mq[poll[p].fds[1].queue.q].buf # <<>>
Told(p) == \E t \in Threads : pc[t] \in {"wakeup", "hung"} /\ NodeOf(p, 1) \in Elements(scan[t])
NewsInv == EventInv /\ FlagInv /\ MutexInv /\ \A p \in Threads : Sleeper(p) => Told(p)

(* The entry of a poll of one queue.                                       *)
LEMMA OnlyEntry ==
    ASSUME PollInv, NEW p \in Threads, pc[p] \in PollLabels, Len(poll[p].fds) = 1
    PROVE  LiveFds(poll[p].fds) = {1} /\ poll[p].fds[1].queue.q \in Queues
  <1>1. poll[p] \in PollRec /\ PollOK(pc[p], p, poll[p])
    BY DEF PollInv
  <1>2. poll[p].fds \in Seq(Fd)
    BY <1>1 DEF PollRec
  <1>3. LiveFds(poll[p].fds) \subseteq 1..1 /\ LiveFds(poll[p].fds) # {}
    BY <1>1, <1>2, LiveEntries DEF PollOK
  <1>4. LiveFds(poll[p].fds) = {1}
    BY <1>3
  <1> QED BY <1>1, <1>4 DEF PollOK, FdOK

(* The flags of handles and calls come from the create and open calls.     *)
LEMMA FlagsKept == ASSUME WritersBlock, FlagInv, NewsFrame PROVE FlagInv'
  <1>1. \A flags : FlagsFrom(flags) => Blocking(flags)
    BY DEF FlagsFrom, FlagInv, Blocking, WritersBlock
  <1>2. \A s \in Slots : Blocking(handle'[s].flags)
    BY <1>1 DEF NewsFrame
  <1>3. ASSUME NEW t \in Threads
        PROVE  Blocking(arg'[t].flags) /\ (pc'[t] \in WriteLabels => "WRITER" \in arg'[t].flags)
    <2>1. Blocking(arg'[t].flags)
      BY <1>1 DEF NewsFrame
    <2>2. pc'[t] \in WriteLabels =>
             "WRITER" \in arg'[t].flags \/ (pc[t] \in WriteLabels /\ arg'[t].flags = arg[t].flags)
      BY DEF NewsFrame
    <2>3. pc[t] \in WriteLabels => "WRITER" \in arg[t].flags
      BY DEF FlagInv
    <2> QED BY <2>1, <2>2, <2>3
  <1> QED BY <1>2, <1>3 DEF FlagInv, Blocking

LEMMA NewsNext ==
    ASSUME WritersBlock, MemoryInv, PollInv, PollInv', NewsInv, NextFrame, NewsFrame
    PROVE  NewsInv'
  <1>1. EventInv /\ FlagInv /\ MutexInv
    BY DEF NewsInv
  <1>2. FlagInv'
    BY <1>1, FlagsKept
  <1>3. \A t \in Threads : ~Silent(t)
    BY <1>1 DEF Silent, FlagInv, Blocking
  <1>4. \A q \in Queues : mq'[q].buf # <<>> =>
          \/ mq[q].buf # <<>> /\ ("READABLE" \in mq[q].queue_event => "READABLE" \in mq'[q].queue_event)
          \/ "READABLE" \in mq'[q].queue_event /\ \E t \in Threads : pc'[t] = "wakeup" /\ scan'[t] = mq'[q].list
    BY <1>3 DEF NewsFrame
  <1>5. EventInv'
    BY <1>1, <1>4 DEF EventInv
  <1>6. MutexInv'
    <2>1. \A u \in Threads : pc'[u] \in Unasleep => pc'[u] = pc[u]
      BY DEF NextFrame, Unasleep, PollLabels
    <2> QED BY <1>1, <2>1 DEF MutexInv, NewsFrame
  <1>7. ASSUME NEW p \in Threads, Sleeper(p)' PROVE Told(p)'
    <2>1. /\ pc'[p] \in PollLabels /\ pc'[p] = pc[p] /\ poll' = poll
          /\ pc[p] \in {"poll_sleep", "poll_wait"} /\ Len(poll[p].fds) = 1
      BY <1>7 DEF Sleeper, NextFrame, PollLabels
    <2>2. LiveFds(poll[p].fds) = {1} /\ poll[p].fds[1].queue.q \in Queues
      BY <2>1, OnlyEntry
    <2>3. PICK q \in Queues : q = poll[p].fds[1].queue.q
      BY <2>2
    <2>4. NodeOf(p, 1)' = NodeOf(p, 1) /\ mq'[q].buf # <<>>
      BY <1>7, <2>1, <2>3 DEF NodeOf, Sleeper
    <2>5. CASE mq[q].buf # <<>>
      <3>1. PICK t \in Threads : pc[t] \in {"wakeup", "hung"} /\ NodeOf(p, 1) \in Elements(scan[t])
        BY <1>7, <2>1, <2>3, <2>5 DEF Sleeper, NewsInv, Told
      <3>2. scan[t] # <<>>
        BY <3>1 DEF Elements
      <3>3. pc'[t] = pc[t] /\ scan'[t] = scan[t]
        BY <3>1, <3>2 DEF NewsFrame
      <3> QED BY <2>4, <3>1, <3>3 DEF Told
    <2>6. CASE \E t \in Threads : pc'[t] = "wakeup" /\ scan'[t] = mq'[q].list
      <3>1. PICK t \in Threads : pc'[t] = "wakeup" /\ scan'[t] = mq'[q].list
        BY <2>6
      <3>2. Registered(p)' = {1}
        BY <2>1, <2>2, RegisteredIs, RegCases
      <3>3. NodeOf(p, 1)' \in NodesOf(q)'
        BY <2>1, <2>3, <3>2, NodeMembers
      <3>4. Elements(mq'[q].list) = NodesOf(q)'
        BY DEF PollInv, ListOK
      <3> QED BY <3>1, <3>3, <3>4 DEF Told
    <2> QED BY <1>4, <2>4, <2>5, <2>6
  <1> QED BY <1>2, <1>5, <1>6, <1>7 DEF NewsInv

(* A step of the poll call of thread t: all it does to the sleepers is to  *)
(* become one, when its queue has no message.                              *)
QuietFrame(t) ==
    /\ UNCHANGED <<handle, arg, scan>>
    /\ \A q \in Queues : mq'[q].buf = mq[q].buf /\ mq'[q].queue_event = mq[q].queue_event
    /\ pc[t] \in {"idle"} \cup PollLabels /\ pc'[t] \in {"idle"} \cup PollLabels
    /\ \A u \in Threads \ {t} : pc'[u] = pc[u] /\ poll'[u] = poll[u] /\ pollm'[u] = pollm[u]
    /\ pc'[t] \in Unasleep => pollm'[t] = t
    /\ Sleeper(t)' => Sleeper(t) /\ poll'[t] = poll[t]

LEMMA QuietPoll ==
    ASSUME PollInv, NewsInv, NEW t \in Threads, QuietFrame(t)
    PROVE  NewsInv'
  <1>1. "idle" \notin WriteLabels /\ \A l \in PollLabels : l \notin WriteLabels /\ l \notin {"wakeup", "hung"}
    BY DEF WriteLabels, PollLabels
  <1>2. EventInv'
    BY DEF QuietFrame, EventInv, NewsInv
  <1>3. FlagInv'
    <2>1. \A u \in Threads : pc'[u] \in WriteLabels => pc[u] \in WriteLabels
      BY <1>1 DEF QuietFrame
    <2> QED BY <2>1 DEF QuietFrame, FlagInv, NewsInv, Blocking
  <1>4. MutexInv'
    <2>1. \A u \in Threads \ {t} : pc'[u] = pc[u] /\ pollm'[u] = pollm[u]
      BY DEF QuietFrame
    <2> QED BY <2>1 DEF QuietFrame, MutexInv, NewsInv
  <1>5. ASSUME NEW p \in Threads, Sleeper(p)' PROVE Told(p)'
    <2>1. Sleeper(p) /\ poll'[p] = poll[p]
      <3>1. CASE p = t
        BY <1>5, <3>1 DEF QuietFrame
      <3>2. CASE p # t
        <4>1. pc'[p] = pc[p] /\ poll'[p] = poll[p]
          BY <3>2 DEF QuietFrame
        <4>2. pc[p] \in PollLabels /\ Len(poll[p].fds) = 1
          BY <1>5, <4>1 DEF Sleeper, PollLabels
        <4>3. poll[p].fds[1].queue.q \in Queues
          BY <4>2, OnlyEntry
        <4>4. mq'[poll[p].fds[1].queue.q].buf = mq[poll[p].fds[1].queue.q].buf
          BY <4>3 DEF QuietFrame
        <4> QED BY <1>5, <4>1, <4>4 DEF Sleeper
      <3> QED BY <3>1, <3>2
    <2>2. PICK u \in Threads : pc[u] \in {"wakeup", "hung"} /\ NodeOf(p, 1) \in Elements(scan[u])
      BY <2>1 DEF NewsInv, Told
    <2>3. u # t
      BY <1>1, <2>2 DEF QuietFrame
    <2>4. pc'[u] = pc[u] /\ scan'[u] = scan[u] /\ NodeOf(p, 1)' = NodeOf(p, 1)
      BY <2>1, <2>3 DEF QuietFrame, NodeOf
    <2> QED BY <2>2, <2>4 DEF Told
  <1> QED BY <1>2, <1>3, <1>4, <1>5 DEF NewsInv

(* The first count finds nothing only if the queue has no message.         *)
LEMMA CountQuiet ==
    ASSUME MemoryInv, PollInv, NewsInv, NEW t \in Threads, PollCount(t)
    PROVE  QuietFrame(t)
  <1> DEFINE x == helper_count(t)  y == [x EXCEPT !.todo = LiveFds(x.fds)]
  <1>1. pc[t] \in PollLabels \ {"poll_finish"} /\ pc[t] \in {"poll_count", "poll_recount"}
    BY DEF PollCount, PollLabels
  <1>2. x.fds = poll[t].fds /\ y.fds = poll[t].fds
    BY <1>1, RecordUpdates
  <1>3. /\ UNCHANGED <<mq, handle, arg, ret, scan, pollm, stored, rcvd>>
        /\ pc \in [Threads -> Label] /\ poll \in [Threads -> PollRec]
    BY DEF PollCount, MemoryInv, TypeOK, PollInv
  <1>4. PICK label \in {"poll_count", "poll_recount", "poll_sleep", "poll_unlock"}, z \in {x, y} :
           /\ pc' = [pc EXCEPT ![t] = label] /\ poll' = [poll EXCEPT ![t] = z]
           /\ label \in {pc[t], "poll_sleep", "poll_unlock"}
           /\ label = "poll_sleep" => EndOfLoop(t) /\ x.ready = 0 /\ pc[t] = "poll_count"
    <2>1. CASE EndOfLoop(t)
      <3>1. /\ pc' = [pc EXCEPT ![t] = IF x.ready = 0 /\ pc[t] = "poll_count" THEN "poll_sleep" ELSE "poll_unlock"]
            /\ poll' = [poll EXCEPT ![t] = y]
        BY <2>1 DEF PollCount
      <3> HIDE DEF x, y
      <3> QED BY <2>1, <3>1
    <2>2. CASE ~EndOfLoop(t)
      <3>1. pc' = [pc EXCEPT ![t] = pc[t]] /\ poll' = [poll EXCEPT ![t] = x]
        BY <1>3, <2>2 DEF PollCount
      <3>2. pc[t] # "poll_sleep"
        BY <1>1
      <3> HIDE DEF x, y
      <3> QED BY <1>1, <3>1, <3>2
    <2> QED BY <2>1, <2>2
  <1>5. pc'[t] = label /\ poll'[t] = z /\ \A u \in Threads \ {t} : pc'[u] = pc[u] /\ poll'[u] = poll[u]
    BY <1>3, <1>4
  <1>6. label = "poll_sleep" => ~Sleeper(t)'
    <2> SUFFICES ASSUME label = "poll_sleep", Sleeper(t)' PROVE FALSE
      OBVIOUS
    <2>1. z.fds = poll[t].fds /\ mq' = mq
      BY <1>2, <1>3, <1>4
    <2>2. /\ Len(poll[t].fds) = 1 /\ "READABLE" \in poll[t].fds[1].events
          /\ mq[poll[t].fds[1].queue.q].buf # <<>>
      BY <1>5, <2>1 DEF Sleeper
    <2>3. LiveFds(poll[t].fds) = {1} /\ poll[t].fds[1].queue.q \in Queues
      BY <1>1, <2>2, OnlyEntry
    <2>4. Current(t) = 1
      BY <1>1, <2>3, CurrentEntry
    <2>5. "READABLE" \in mq[poll[t].fds[1].queue.q].queue_event
      BY <2>2, <2>3 DEF NewsInv, EventInv
    <2>6. poll[t].ready \in Nat /\ x.ready = poll[t].ready + 1
      <3>1. poll[t] \in PollRec
        BY <1>3
      <3>2. Advanced(t) \in PollRec /\ Advanced(t).ready = poll[t].ready
        BY <3>1 DEF Advanced, PollRec
      <3>3. x.ready = IF mq[poll[t].fds[1].queue.q].queue_event \cap poll[t].fds[1].events # {}
                      THEN Advanced(t).ready + 1 ELSE Advanced(t).ready
        BY <2>4, <3>2 DEF helper_count, PollRec
      <3>4. mq[poll[t].fds[1].queue.q].queue_event \cap poll[t].fds[1].events # {}
        BY <2>2, <2>5
      <3> QED BY <3>1, <3>2, <3>3, <3>4 DEF PollRec
    <2> QED BY <1>4, <2>6
  <1> HIDE DEF x, y
  <1>7. pc'[t] \in Unasleep => pollm'[t] = t
    <2>1. pc'[t] \in Unasleep => pc[t] \in Unasleep
      BY <1>1, <1>4, <1>5 DEF Unasleep
    <2> QED BY <1>3, <2>1 DEF NewsInv, MutexInv
  <1>8. Sleeper(t)' => FALSE
    BY <1>5, <1>6 DEF Sleeper
  <1>9. pc[t] \in {"idle"} \cup PollLabels /\ pc'[t] \in {"idle"} \cup PollLabels
    BY <1>1, <1>5 DEF PollLabels
  <1> QED BY <1>3, <1>5, <1>7, <1>8, <1>9 DEF QuietFrame

(* The other steps of a poll call.                                         *)
LEMMA QuietOf ==
    ASSUME MemoryInv, PollInv, NewsInv, NEW t \in Threads, pc[t] \in {"idle"} \cup PollLabels,
           NEW label \in {"idle"} \cup PollLabels, pc' = [pc EXCEPT ![t] = label],
           NEW x, poll' = [poll EXCEPT ![t] = x], NEW m, pollm' = [pollm EXCEPT ![t] = m],
           UNCHANGED <<handle, arg, scan>>, \A q \in Queues : OnlyList(mq[q], mq'[q]),
           label \in Unasleep => m = t,
           label # "poll_sleep" /\ (label = "poll_wait" => pc[t] = "poll_sleep" /\ x = poll[t])
    PROVE  QuietFrame(t)
  <1>1. /\ pc'[t] = label /\ poll'[t] = x /\ pollm'[t] = m
        /\ \A u \in Threads \ {t} : pc'[u] = pc[u] /\ poll'[u] = poll[u] /\ pollm'[u] = pollm[u]
    BY DEF MemoryInv, TypeOK, PollInv
  <1>2. \A q \in Queues : mq'[q].buf = mq[q].buf /\ mq'[q].queue_event = mq[q].queue_event
    BY DEF OnlyList
  <1>3. ASSUME Sleeper(t)' PROVE Sleeper(t) /\ poll'[t] = poll[t]
    <2>1. /\ pc[t] = "poll_sleep" /\ poll'[t] = poll[t] /\ Len(poll[t].fds) = 1
          /\ "READABLE" \in poll[t].fds[1].events /\ mq'[poll[t].fds[1].queue.q].buf # <<>>
      BY <1>1, <1>3 DEF Sleeper
    <2>2. pc[t] \in PollLabels
      BY <2>1 DEF PollLabels
    <2>3. poll[t].fds[1].queue.q \in Queues
      BY <2>1, <2>2, OnlyEntry
    <2> QED BY <1>2, <2>1, <2>3 DEF Sleeper
  <1> QED BY <1>1, <1>2, <1>3 DEF QuietFrame

LEMMA StepQuiet ==
    ASSUME MemoryInv, PollInv, NewsInv, PollFrame, NEW t \in Threads,
           PollAdd(t) \/ PollDel(t) \/ PollRelease(t) \/ PollWake(t) \/ PollSpurious(t) \/ PollFinish(t)
    PROVE  QuietFrame(t)
  <1>1. /\ UNCHANGED <<handle, arg, scan>> /\ \A q \in Queues : OnlyList(mq[q], mq'[q])
    BY DEF PollFrame, PollAdd, PollDel, PollRelease, PollWake, PollSpurious, PollFinish
  <1>2. /\ pollm \in [Threads -> Threads \cup {None}] /\ pc \in [Threads -> Label]
        /\ poll \in [Threads -> PollRec] /\ (pc[t] \in Unasleep => pollm[t] = t)
    BY DEF MemoryInv, TypeOK, PollInv, NewsInv, MutexInv
  <1>3. /\ pollm = [pollm EXCEPT ![t] = pollm[t]] /\ pc = [pc EXCEPT ![t] = pc[t]]
        /\ poll = [poll EXCEPT ![t] = poll[t]]
    BY <1>2
  <1>4. \A l \in {"poll_add", "poll_count", "poll_del", "poll_finish", "poll_wait", "poll_wake", "poll_recount",
                  "poll_sleep", "poll_unlock"} : l \in {"idle"} \cup PollLabels
    BY DEF PollLabels
  <1>5. CASE PollAdd(t)
    <2>1. PICK label \in {"poll_add", "poll_count"} : \E x :
             pc' = [pc EXCEPT ![t] = label] /\ poll' = [poll EXCEPT ![t] = x]
      BY <1>3, <1>5 DEF PollAdd
    <2>2. pc[t] = "poll_add" /\ pollm' = pollm /\ pollm[t] = t
      BY <1>2, <1>5 DEF PollAdd, Unasleep
    <2> QED BY <1>1, <1>3, <1>4, <2>1, <2>2, QuietOf
  <1>6. CASE PollDel(t)
    <2>1. PICK label \in {"poll_del", "poll_finish"} : \E x :
             pc' = [pc EXCEPT ![t] = label] /\ poll' = [poll EXCEPT ![t] = x]
      BY <1>6 DEF PollDel
    <2>2. pc[t] = "poll_del" /\ pollm' = pollm /\ label \notin Unasleep
      BY <1>6 DEF PollDel, Unasleep
    <2> QED BY <1>1, <1>3, <1>4, <2>1, <2>2, QuietOf
  <1>7. CASE PollRelease(t)
    <2>1. PICK label \in {"poll_wait", "poll_del"} :
             pc' = [pc EXCEPT ![t] = label] /\ (label = "poll_wait" => pc[t] = "poll_sleep")
      BY <1>7 DEF PollRelease
    <2>2. /\ pc[t] \in {"poll_sleep", "poll_unlock"} /\ pollm' = [pollm EXCEPT ![t] = None] /\ poll' = poll
          /\ label \notin Unasleep
      BY <1>7 DEF PollRelease, Unasleep
    <2> QED BY <1>1, <1>3, <1>4, <2>1, <2>2, QuietOf
  <1>8. CASE PollWake(t)
    <2>1. /\ pc[t] = "poll_wake" /\ pc' = [pc EXCEPT ![t] = "poll_recount"] /\ pollm' = [pollm EXCEPT ![t] = t]
          /\ poll' = [poll EXCEPT ![t] = Restarted(t)]
      BY <1>8 DEF PollWake
    <2> QED BY <1>1, <1>4, <2>1, QuietOf
  <1>9. CASE PollSpurious(t)
    <2>1. /\ pc[t] = "poll_wait" /\ pc' = [pc EXCEPT ![t] = "poll_wake"] /\ pollm' = pollm /\ poll' = poll
          /\ "poll_wake" \notin Unasleep
      BY <1>9 DEF PollSpurious, Unasleep
    <2> QED BY <1>1, <1>3, <1>4, <2>1, QuietOf
  <1>10. CASE PollFinish(t)
    <2>1. /\ pc[t] = "poll_finish" /\ pc' = [pc EXCEPT ![t] = "idle"] /\ pollm' = [pollm EXCEPT ![t] = None]
          /\ poll' = poll /\ "idle" \notin Unasleep
      BY <1>10 DEF PollFinish, Unasleep
    <2> QED BY <1>1, <1>3, <1>4, <2>1, QuietOf
  <1> QED BY <1>5, <1>6, <1>7, <1>8, <1>9, <1>10

LEMMA CallQuiet ==
    ASSUME MemoryInv, PollInv, NewsInv, NEW c \in PollCalls, msg_queue_poll(c)
    PROVE  c.t \in Threads /\ QuietFrame(c.t)
  <1>1. PICK t \in Threads : t = c.t
    BY PollAssumption
  <1>2. pc[t] = "idle" /\ \E x : poll' = [poll EXCEPT ![t] = x]
    BY <1>1 DEF msg_queue_poll
  <1>3. PICK label \in {"idle", "poll_add"} : \E m :
           /\ pc' = [pc EXCEPT ![t] = label] /\ pollm' = [pollm EXCEPT ![t] = m]
           /\ label = "poll_add" => m = t
    <2>1. pc = [pc EXCEPT ![t] = "idle"] /\ pollm = [pollm EXCEPT ![t] = pollm[t]]
      BY <1>2 DEF MemoryInv, TypeOK
    <2>2. \/ pc' = pc /\ pollm' = pollm
          \/ pc' = [pc EXCEPT ![t] = "poll_add"] /\ pollm' = [pollm EXCEPT ![t] = t]
      BY <1>1 DEF msg_queue_poll, Refuse, LockPollMutex
    <2> QED BY <2>1, <2>2
  <1>4. UNCHANGED <<mq, handle, arg, scan>>
    BY DEF msg_queue_poll, Refuse
  <1>5. \A q \in Queues : OnlyList(mq[q], mq'[q])
    BY <1>4 DEF OnlyList, SameCounters
  <1>6. "idle" \notin Unasleep /\ "poll_add" \in PollLabels
    BY DEF Unasleep, PollLabels
  <1> QED BY <1>1, <1>2, <1>3, <1>4, <1>5, <1>6, QuietOf

(* One iteration of helper_wakeup: the sleeper's own node is signalled,    *)
(* and while others are visited it stays to be visited.                    *)
LEMMA TailKeeps ==
    ASSUME NEW list \in Seq(Node), list # <<>>, NEW n \in Elements(list), n # Head(list)
    PROVE  n \in Elements(Tail(list))
  <1>1. /\ Tail(list) \in Seq(Node) /\ Len(list) \in Nat /\ Len(Tail(list)) = Len(list) - 1 /\ Head(list) = list[1]
        /\ \A k \in 1..(Len(list) - 1) : Tail(list)[k] = list[k + 1]
    BY HeadTailProperties, LenProperties
  <1>2. Elements(list) = {list[k] : k \in 1..Len(list)} /\ Elements(Tail(list)) = {Tail(list)[k] : k \in 1..(Len(list) - 1)}
    BY <1>1, ElementsOf
  <1>3. PICK k \in 1..Len(list) : n = list[k]
    BY <1>2
  <1>4. k # 1
    BY <1>1, <1>3
  <1>5. k - 1 \in 1..(Len(list) - 1) /\ (k - 1) + 1 = k
    BY <1>1, <1>3, <1>4
  <1> QED BY <1>1, <1>2, <1>3, <1>5

LEMMA WakeNews ==
    ASSUME MemoryInv, PollInv, NewsInv, NEW t \in Threads, WakeNode(t), WakeEffect(t)
    PROVE  NewsInv'
  <1>1. /\ UNCHANGED <<mq, handle, arg, pollm, poll>> /\ pc[t] = "wakeup" /\ scan[t] # <<>>
        /\ \A u \in Threads : \/ pc'[u] = pc[u]
                              \/ u = t /\ pc'[u] = "hung"
                              \/ pc[u] = "poll_wait" /\ pc'[u] = "poll_wake"
    BY DEF WakeEffect
  <1>2. /\ scan \in [Threads -> Seq(Node)] /\ arg[t].q \in Queues
        /\ pc \in [Threads -> Label]
    BY <1>1, InCall DEF MemoryInv, TypeOK, PollLabels
  <1>3. EventInv'
    BY <1>1 DEF EventInv, NewsInv
  <1>4. FlagInv'
    <2>1. \A u \in Threads : pc'[u] \in WriteLabels => pc[u] \in WriteLabels
      BY <1>1 DEF WriteLabels
    <2> QED BY <1>1, <2>1 DEF FlagInv, NewsInv, Blocking
  <1>5. MutexInv'
    <2>1. \A u \in Threads : pc'[u] \in Unasleep => pc[u] \in Unasleep
      BY <1>1 DEF Unasleep
    <2> QED BY <1>1, <2>1 DEF MutexInv, NewsInv
  <1>6. ASSUME NEW p \in Threads, Sleeper(p)' PROVE Told(p)'
    <2>1. pc'[p] = pc[p] /\ Sleeper(p) /\ pc[p] \in PollLabels /\ Len(poll[p].fds) = 1 /\ pc[p] # "poll_wake"
      BY <1>1, <1>6 DEF Sleeper, PollLabels
    <2>2. PICK u \in Threads : pc[u] \in {"wakeup", "hung"} /\ NodeOf(p, 1) \in Elements(scan[u])
      BY <2>1 DEF NewsInv, Told
    <2>3. NodeOf(p, 1)' = NodeOf(p, 1) /\ pc'[u] \in {"wakeup", "hung"}
      BY <1>1, <2>2 DEF NodeOf
    <2>4. CASE scan'[u] = scan[u]
      BY <2>2, <2>3, <2>4 DEF Told
    <2>5. CASE u = t /\ scan' = [scan EXCEPT ![t] = Tail(scan[t])]
      <3>1. scan'[t] = Tail(scan[t]) /\ scan[t] \in Seq(Node)
        BY <1>2, <2>5
      <3>2. NodeOf(p, 1) # Head(scan[t])
        <4> SUFFICES ASSUME NodeOf(p, 1) = Head(scan[t]) PROVE FALSE
          OBVIOUS
        <4>1. /\ Head(scan[t]).p = p /\ Head(scan[t]).i = 1
              /\ Head(scan[t]).events = poll[p].fds[1].events
          BY DEF NodeOf
        <4>2. NodeOf(p, 1) \in NodesOf(arg[t].q)
          <5>1. NodeOf(p, 1) \in Elements(mq[arg[t].q].list)
            BY <1>1, <2>2, <2>5 DEF PollInv, ScanOK
          <5> QED BY <1>2, <5>1 DEF PollInv, ListOK
        <4>3. PICK v \in Threads : \E i \in Registered(v) : poll[v].fds[i].queue.q = arg[t].q /\ NodeOf(p, 1) = NodeOf(v, i)
          BY <4>2, NodeMembers
        <4>4. poll[p].fds[1].queue.q = arg[t].q
          BY <4>3 DEF NodeOf
        <4>5. Head(scan[t]).events \cap mq[arg[t].q].queue_event # {}
          <5>1. mq[arg[t].q].buf # <<>> /\ "READABLE" \in poll[p].fds[1].events
            BY <2>1, <4>4 DEF Sleeper
          <5>2. "READABLE" \in mq[arg[t].q].queue_event
            BY <1>2, <5>1 DEF NewsInv, EventInv
          <5> QED BY <4>1, <5>1, <5>2
        <4>6. mutex_available(pollm[p]) /\ pc' \in cond_signal(pc, {w \in {p} : pc[w] = "poll_wait"}, "poll_wake")
          BY <4>1, <4>5 DEF WakeNode
        <4>7. pc[p] = "poll_wait"
          <5>1. p # None
            BY NoneAssumption
          <5>2. pollm[p] # p
            BY <4>6, <5>1 DEF mutex_available
          <5> QED BY <2>1, <5>2 DEF Sleeper, NewsInv, MutexInv, Unasleep
        <4>8. pc'[p] = "poll_wake"
          BY <1>2, <4>6, <4>7 DEF cond_signal
        <4> QED BY <2>1, <4>8
      <3>3. NodeOf(p, 1) \in Elements(scan'[t])
        BY <1>1, <2>2, <2>5, <3>1, <3>2, TailKeeps
      <3> QED BY <2>2, <2>3, <2>5, <3>3 DEF Told
    <2>6. scan'[u] = scan[u] \/ (u = t /\ scan' = [scan EXCEPT ![t] = Tail(scan[t])])
      BY <1>2 DEF WakeEffect
    <2> QED BY <2>4, <2>5, <2>6
  <1> QED BY <1>3, <1>4, <1>5, <1>6 DEF NewsInv

LEMMA NewsInit == WritersBlock /\ PollInit => NewsInv
  <1> SUFFICES ASSUME PollInit PROVE NewsInv
    OBVIOUS
  <1>1. /\ \A q \in Queues : mq[q].buf = <<>>
        /\ \A s \in Slots : handle[s].flags = {}
        /\ \A t \in Threads : pc[t] = "idle" /\ arg[t].flags = {}
    BY DEF PollInit, Init, Unborn, mq_init, NullHandle, NoArg
  <1>2. "idle" \notin WriteLabels \cup Unasleep \cup {"poll_sleep", "poll_wait"}
    BY DEF WriteLabels, Unasleep
  <1> QED BY <1>1, <1>2 DEF NewsInv, EventInv, FlagInv, MutexInv, Sleeper, Blocking

LEMMA NewsStep ==
    ASSUME WritersBlock, QueueInv, PollInv, PollInv', NewsInv, [PollNext]_pollVars
    PROVE  NewsInv'
  <1>0. MemoryInv /\ ChannelInv
    BY DEF QueueInv
  <1>1. CASE Next /\ UNCHANGED poll
    <2>1. NextFrame /\ NewsFrame
      BY <1>0, <1>1, CallFrame, StepFrame DEF Next
    <2> QED BY <1>0, <2>1, NewsNext
  <1>2. CASE \E c \in PollCalls : msg_queue_poll(c)
    BY <1>0, <1>2, CallQuiet, QuietPoll
  <1>3. ASSUME NEW t \in Threads, PollLock(t) \/ PollStep(t) \/ PollSpurious(t) \/ WakeNode(t)
        PROVE  NewsInv'
    <2>1. CASE PollAdd(t) \/ PollDel(t) \/ PollRelease(t) \/ PollWake(t) \/ PollSpurious(t) \/ PollFinish(t)
      <3>1. PollFrame
        BY <1>0, <2>1, AddPoll, DelPoll, PlainPoll
      <3> QED BY <1>0, <2>1, <3>1, StepQuiet, QuietPoll
    <2>2. CASE PollCount(t)
      BY <1>0, <2>2, CountQuiet, QuietPoll
    <2>3. CASE WakeNode(t)
      BY <1>0, <2>3, WakeShape, WakeNews
    <2> QED BY <1>3, <2>1, <2>2, <2>3 DEF PollLock, PollStep
  <1>4. CASE UNCHANGED pollVars
    <2>1. UNCHANGED <<mq, handle, pc, arg, scan, pollm, poll>>
      BY <1>4 DEF pollVars, vars
    <2> QED BY <2>1 DEF NewsInv, EventInv, FlagInv, MutexInv, Sleeper, Told, NodeOf
  <1> QED BY <1>1, <1>2, <1>3, <1>4 DEF PollNext

(* Whatever the interleaving of polls, reads and writes, and although      *)
(* helper_count reads the event flags without the queue's mutex, a thread  *)
(* asleep in a poll for READABLE has a thread on its way to tell it of     *)
(* the message that is there, if no writer is non-blocking.                *)
THEOREM PollerWoken ==
    ASSUME ReadersHaveRoom, LengthsDontWrap, WritersBlock
    PROVE  PollSpec => []PollerSeesMessages
  <1>1. PollInit => QueueInv /\ PollInv /\ NewsInv
    BY PollBegins, NewsInit
  <1>2. QueueInv /\ PollInv /\ NewsInv /\ [PollNext]_pollVars => (QueueInv /\ PollInv /\ NewsInv)'
    BY PollKeeps, NewsStep
  <1>3. NewsInv => PollerSeesMessages
    BY DEF NewsInv, Sleeper, Told, PollerSeesMessages
  <1> QED BY <1>1, <1>2, <1>3, PTL DEF PollSpec

=============================================================================
