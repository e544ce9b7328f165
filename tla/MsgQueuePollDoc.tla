--------------------------- MODULE MsgQueuePollDoc --------------------------
(***************************************************************************)
(* What msg_queue.h says of msg_queue_poll and of the event flags, and     *)
(* msg_queue.c does not do.  Each property quotes the sentence it states;  *)
(* the runs that check them end in a counterexample.                       *)
(***************************************************************************)
EXTENDS MsgQueuePoll

(* msg_queue.h:65 "In non-blocking mode, a thread performing a read or     *)
(* write operation may still "block" ... waiting for a mutex owned by      *)
(* another thread, but it will never block indefinitely".                  *)
NonblockReadsEnd ==
    \A t \in Threads :
        (pc[t] \in ReadLabels \cup {"wakeup"} /\ "NONBLOCK" \in arg[t].flags) ~> (pc[t] = "idle")

=============================================================================
