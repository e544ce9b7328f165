---------------------------- MODULE MsgQueuePoll ----------------------------
(***************************************************************************)
(* msg_queue_poll of msg_queue.c together with the calls of MsgQueue.  A   *)
(* poll call allocates one waiting_node per entry of fds, puts each in its *)
(* queue's list, counts the entries that have events, sleeps if none has,  *)
(* counts again and takes the nodes out of the lists.  Its poll_mutex      *)
(* (pollm) is held from before the first list_add_tail until the sleep, so *)
(* that helper_wakeup cannot signal too early.                             *)
(***************************************************************************)
EXTENDS MsgQueue

CONSTANT PollCalls  \* the poll calls: [t |-> thread, fds |-> <<[slot, events], ...>>]

VARIABLE poll  \* per thread: the fds of its poll call, the indices still to visit in
               \* the current loop, revents (kept after the call) and the ready count

pollVars == <<vars, poll>>

(* A call's fds as msg_queue_poll gets them, with the value of the handle  *)
(* in each; an entry without a variable has the queue MSG_QUEUE_NULL.      *)
Resolved(fds) ==
    [i \in DOMAIN fds |-> [queue |-> IF fds[i].slot = None THEN NullHandle ELSE handle[fds[i].slot],
                           events |-> fds[i].events]]
LiveFds(fds) == {i \in DOMAIN fds : fds[i].queue # NullHandle}

NoPoll == [fds |-> <<>>, todo |-> {}, revents |-> <<>>, ready |-> 0]

ASSUME PollAssumption ==
    \A c \in PollCalls :
        /\ c.t \in Threads /\ c.fds \in Seq([slot : Slots \cup {None}, events : SUBSET Event])
        /\ \A i \in DOMAIN c.fds : c.fds[i].slot # None => SlotOwner[c.fds[i].slot] = c.t

(* The checks of the first loop and of num_null.                           *)
ValidFd(fd) ==
    fd.queue # NullHandle =>
        /\ fd.events # {}
        /\ "READABLE" \in fd.events => "READER" \in fd.queue.flags
        /\ "WRITABLE" \in fd.events => "WRITER" \in fd.queue.flags
ValidFds(fds) == LiveFds(fds) # {} /\ \A i \in DOMAIN fds : ValidFd(fds[i])

(* The first loop clears revents up to the first entry it refuses; those   *)
(* after it keep what an earlier poll of the same array left in them.      *)
Cleared(t, fds) ==
    [i \in DOMAIN fds |-> IF /\ i \in DOMAIN poll[t].revents
                             /\ \E j \in DOMAIN fds : j < i /\ ~ValidFd(fds[j])
                          THEN poll[t].revents[i] ELSE {}]

(* mutex_lock of the new poll_mutex.  Mutant: it is missing.               *)
MutantNoPollLock(t) == UNCHANGED pollm
LockPollMutex(t) == pollm' = [pollm EXCEPT ![t] = t]

msg_queue_poll(c) ==
    LET t == c.t
        fds == Resolved(c.fds) IN
    /\ pc[t] = "idle"
    /\ poll' = [poll EXCEPT ![t] = [fds |-> fds, todo |-> LiveFds(fds),
                                    revents |-> Cleared(t, fds), ready |-> 0]]
    /\ \/ ~ValidFds(fds) /\ Refuse(t, "EINVAL")
       \/ ValidFds(fds) /\ Refuse(t, "ENOMEM")
       \/ /\ ValidFds(fds)
          /\ LockPollMutex(t)
          /\ pc' = [pc EXCEPT ![t] = "poll_add"]
          /\ ret' = [ret EXCEPT ![t] = "none"]
          /\ UNCHANGED <<mq, handle, arg, scan, stored, rcvd>>

-----------------------------------------------------------------------------
(* Each loop visits the entries that have a queue in the order of their    *)
(* indices; at the end of one the next starts, with all to visit again.    *)
Current(t) == CHOOSE i \in poll[t].todo : \A j \in poll[t].todo : i <= j
CurrentQueue(t) == poll[t].fds[Current(t)].queue.q
NodeOf(t, i) == [p |-> t, i |-> i, events |-> poll[t].fds[i].events]

Advanced(t) == [poll[t] EXCEPT !.todo = @ \ {Current(t)}]
Restarted(t) == [poll[t] EXCEPT !.todo = LiveFds(poll[t].fds), !.ready = 0]
EndOfLoop(t) == poll[t].todo = {Current(t)}

(* list_add_tail between the lock and the unlock of the queue's mutex.     *)
PollAdd(t) == LET q == CurrentQueue(t) IN
    /\ pc[t] = "poll_add"
    /\ mutex_available(mq[q].mutex)
    /\ mq' = [mq EXCEPT ![q].list = Append(@, NodeOf(t, Current(t)))]
    /\ IF EndOfLoop(t)
       THEN /\ pc' = [pc EXCEPT ![t] = "poll_count"]
            /\ poll' = [poll EXCEPT ![t] = Restarted(t)]
       ELSE poll' = [poll EXCEPT ![t] = Advanced(t)] /\ UNCHANGED pc
    /\ UNCHANGED <<handle, arg, ret, scan, pollm, stored, rcvd>>

(* One iteration of helper_count, which reads queue_event without a lock.  *)
Revents(h, events, current) ==
    (current \cap events)
    \cup (IF h.flags \cap {"READER", "WRITER"} # {}
          THEN current \cap {"NOWRITERS", "NOREADERS"} ELSE {})

helper_count(t) ==
    LET i == Current(t)
        fd == poll[t].fds[i]
        current == mq[fd.queue.q].queue_event IN
    [Advanced(t) EXCEPT !.revents[i] = Revents(fd.queue, fd.events, current),
                        !.ready = IF current \cap fd.events # {} THEN @ + 1 ELSE @]

PollCount(t) == LET p == helper_count(t) IN
    /\ pc[t] \in {"poll_count", "poll_recount"}
    /\ IF EndOfLoop(t)
       THEN /\ pc' = [pc EXCEPT ![t] = IF p.ready = 0 /\ @ = "poll_count"
                                       THEN "poll_sleep" ELSE "poll_unlock"]
            /\ poll' = [poll EXCEPT ![t] = [p EXCEPT !.todo = LiveFds(p.fds)]]
       ELSE poll' = [poll EXCEPT ![t] = p] /\ UNCHANGED pc
    /\ UNCHANGED <<mq, handle, arg, ret, scan, pollm, stored, rcvd>>

(* When the first count is zero cond_wait releases poll_mutex, else the    *)
(* first mutex_unlock does.                                                *)
PollRelease(t) ==
    /\ \/ pc[t] = "poll_sleep" /\ pc' = [pc EXCEPT ![t] = "poll_wait"]
       \/ pc[t] = "poll_unlock" /\ pc' = [pc EXCEPT ![t] = "poll_del"]
    /\ pollm' = [pollm EXCEPT ![t] = None]
    /\ UNCHANGED <<mq, handle, arg, ret, scan, stored, rcvd, poll>>

(* cond_wait returns with poll_mutex held; there is no loop around it.     *)
PollWake(t) ==
    /\ pc[t] = "poll_wake"
    /\ mutex_available(pollm[t])
    /\ pollm' = [pollm EXCEPT ![t] = t]
    /\ pc' = [pc EXCEPT ![t] = "poll_recount"]
    /\ poll' = [poll EXCEPT ![t] = Restarted(t)]
    /\ UNCHANGED <<mq, handle, arg, ret, scan, stored, rcvd>>

PollSpurious(t) ==
    /\ Spurious /\ pc[t] = "poll_wait"
    /\ pc' = [pc EXCEPT ![t] = "poll_wake"]
    /\ UNCHANGED <<mq, handle, arg, ret, scan, pollm, stored, rcvd, poll>>

(* list_del between the lock and the unlock of the queue's mutex.  Mutant: *)
(* only the first node is taken out.                                       *)
Unlinked(list, k) == SubSeq(list, 1, k - 1) \o SubSeq(list, k + 1, Len(list))
PlaceOf(list, node) == CHOOSE k \in DOMAIN list : list[k] = node
MutantFirstOnly(q, node) ==
    IF node.i = 1 THEN Unlinked(mq[q].list, PlaceOf(mq[q].list, node)) ELSE mq[q].list
list_del(q, node) == Unlinked(mq[q].list, PlaceOf(mq[q].list, node))

PollDel(t) == LET q == CurrentQueue(t) IN
    /\ pc[t] = "poll_del"
    /\ mutex_available(mq[q].mutex)
    /\ mq' = [mq EXCEPT ![q].list = list_del(q, NodeOf(t, Current(t)))]
    /\ pc' = [pc EXCEPT ![t] = IF EndOfLoop(t) THEN "poll_finish" ELSE @]
    /\ poll' = [poll EXCEPT ![t] = Advanced(t)]
    /\ UNCHANGED <<handle, arg, ret, scan, pollm, stored, rcvd>>

(* The second mutex_unlock of poll_mutex, and free.                        *)
PollFinish(t) ==
    /\ pc[t] = "poll_finish"
    /\ pollm' = [pollm EXCEPT ![t] = None]
    /\ pc' = [pc EXCEPT ![t] = "idle"]
    /\ ret' = [ret EXCEPT ![t] = "OK"]
    /\ UNCHANGED <<mq, handle, arg, scan, stored, rcvd, poll>>

-----------------------------------------------------------------------------
(* One iteration of helper_wakeup, in a read or a write of thread t.       *)
(* A node is signalled if one of its events has occurred.  Only the first  *)
(* node of a poll call has an initialised poll_mutex and is_ready; on the  *)
(* other nodes the lock and the signal have no effect, or the lock never   *)
(* returns.                                                                *)
WakeNode(t) ==
    LET node == Head(scan[t])
        occurred == node.events \cap mq[arg[t].q].queue_event # {} IN
    /\ pc[t] = "wakeup" /\ scan[t] # <<>>
    /\ \/ ~occurred /\ scan' = [scan EXCEPT ![t] = Tail(@)] /\ UNCHANGED pc
       \/ /\ occurred /\ node.i = 1
          /\ mutex_available(pollm[node.p])
          /\ pc' \in cond_signal(pc, {p \in {node.p} : pc[p] = "poll_wait"}, "poll_wake")
          /\ scan' = [scan EXCEPT ![t] = Tail(@)]
       \/ occurred /\ node.i # 1 /\ scan' = [scan EXCEPT ![t] = Tail(@)] /\ UNCHANGED pc
       \/ occurred /\ node.i # 1 /\ pc' = [pc EXCEPT ![t] = "hung"] /\ UNCHANGED scan
    /\ UNCHANGED <<mq, handle, arg, ret, pollm, stored, rcvd, poll>>

-----------------------------------------------------------------------------
PollInit == Init /\ poll = [t \in Threads |-> NoPoll]

(* The steps that lock a mutex, and the others.                            *)
PollLock(t) == PollAdd(t) \/ PollWake(t) \/ PollDel(t)
PollStep(t) == PollCount(t) \/ PollRelease(t) \/ PollFinish(t)

PollNext == \/ Next /\ UNCHANGED poll
            \/ \E c \in PollCalls : msg_queue_poll(c)
            \/ \E t \in Threads : PollLock(t) \/ PollStep(t) \/ PollSpurious(t) \/ WakeNode(t)

PollSpec == PollInit /\ [][PollNext]_pollVars

(* The fairness of MsgQueue for all the steps of the calls in progress;    *)
(* helper_wakeup, too, competes for a mutex.                               *)
PollFairSpec ==
    /\ PollSpec
    /\ \A t \in Threads : /\ WF_pollVars(Progress(t) /\ UNCHANGED poll)
                          /\ SF_pollVars((Lock(t) /\ UNCHANGED poll) \/ WakeNode(t))
                          /\ WF_pollVars(PollStep(t)) /\ SF_pollVars(PollLock(t))

-----------------------------------------------------------------------------
Elements(seq) == {seq[k] : k \in DOMAIN seq}

(* The entries of a poll call whose node is in its queue's list.           *)
Registered(t) == LET all == LiveFds(poll[t].fds) IN
    CASE pc[t] = "poll_add" -> all \ poll[t].todo
      [] pc[t] = "poll_del" -> poll[t].todo
      [] pc[t] \in PollLabels \ {"poll_add", "poll_del", "poll_finish"} -> all
      [] OTHER -> {}

(* A queue's list holds exactly the nodes of the poll calls between their  *)
(* list_add_tail and their list_del, and helper_wakeup only ever touches   *)
(* such nodes: none that a finished call has freed, so the second unlock   *)
(* of poll_mutex finds no one inside.                                      *)
PollNodesLive ==
    /\ \A q \in Queues :
          /\ Elements(mq[q].list) = UNION {{NodeOf(t, i) : i \in {j \in Registered(t) : poll[t].fds[j].queue.q = q}}
                                           : t \in Threads}
          /\ Cardinality(Elements(mq[q].list)) = Len(mq[q].list)
    /\ \A t \in Threads : pc[t] = "wakeup" => Elements(scan[t]) \subseteq Elements(mq[arg[t].q].list)

(* A poll call keeps the queues it refers to alive.                        *)
PolledQueuesLive ==
    \A t \in Threads : pc[t] \in PollLabels =>
        \A i \in DOMAIN poll[t].fds :
            poll[t].fds[i].queue # NullHandle => mq[poll[t].fds[i].queue.q].status = "live"

(* What pollers need of the writers: a non-blocking write stores its       *)
(* message and fails with EAGAIN before it tells the pollers.              *)
WritersBlock == \A c \in CreateCalls \cup OpenCalls : ~({"WRITER", "NONBLOCK"} \subseteq c.flags)

(* A thread asleep in a poll of one queue for READABLE does not sleep      *)
(* through a message: if the queue has one, a thread inside helper_wakeup  *)
(* is about to signal the sleeper, or hangs at the uninitialised mutex of  *)
(* another node on its way to the sleeper's.                               *)
PollerSeesMessages ==
    \A p \in Threads :
        LET fd == poll[p].fds[1] IN
        pc[p] = "poll_wait" /\ Len(poll[p].fds) = 1 /\ "READABLE" \in fd.events
            /\ mq[fd.queue.q].buf # <<>> =>
        \E t \in Threads : pc[t] \in {"wakeup", "hung"} /\ NodeOf(p, 1) \in Elements(scan[t])

(* ... and the poll call returns.                                          *)
PollsEndOnMessage ==
    \A p \in Threads, q \in Queues :
        (/\ pc[p] = "poll_wait" /\ Len(poll[p].fds) = 1 /\ "READABLE" \in poll[p].fds[1].events
         /\ poll[p].fds[1].queue.q = q /\ mq[q].buf # <<>>)
            ~> (pc[p] = "idle")

=============================================================================
