----------------------------- MODULE MsgQueueDoc ----------------------------
(***************************************************************************)
(* What msg_queue.h says of the read, write and close calls and            *)
(* msg_queue.c does not do.  Each property quotes the sentence it states;  *)
(* the runs that check them end in a counterexample.                       *)
(***************************************************************************)
EXTENDS MsgQueue

(* msg_queue.h:89 "If this is the last reader (or writer) handle ..., must *)
(* notify all the writer (or reader) threads currently blocked": a writer  *)
(* that waits when the last reader goes returns, unless a reader comes     *)
(* back.                                                                   *)
WritesEndAfterClose ==
    \A t \in Threads, q \in Queues :
        (arg[t].q = q /\ pc[t] = "write_wait" /\ mq[q].no_readers)
            ~> (pc[t] = "idle" \/ ~mq[q].no_readers)

=============================================================================
