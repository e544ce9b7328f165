----------------------------- MODULE MultiProd ------------------------------
(***************************************************************************)
(* The program multiprod.c: main creates one queue per producer, opens a   *)
(* reader handle of each for the consumer and a writer handle of each for  *)
(* its producer.  The consumer polls all its queues, reads from those that *)
(* are readable and closes each at its end of file.  The calls are those   *)
(* of MsgQueuePoll, so that the threads interleave inside them.            *)
(*                                                                         *)
(* The value of a message is the message itself, and a sum of values the   *)
(* set of messages added up: sums of any values agree if these sets do.    *)
(***************************************************************************)
EXTENDS MsgQueuePoll

CONSTANTS
    MainThread, ConsumerThread, ProducerThreads,  \* the last as a sequence
    QueueOf,                           \* the i-th backend
    MainMq, ConsumerMq, ProducerMq,    \* the i-th variables mqs, fds[].queue, pargs[].mq
    MessageSize,                       \* sizeof(message)
    Arguments                          \* of the program: [size, nprod, nmsgs]

Producers == DOMAIN ProducerThreads
EachOwn(f) == \A i, j \in Producers : i # j => f[i] # f[j]

ASSUME MultiProdAssumption ==
    /\ ProducerThreads \in Seq(Threads)
    /\ Threads = {MainThread, ConsumerThread} \cup {ProducerThreads[i] : i \in Producers}
    /\ {MainThread, ConsumerThread} \cap {ProducerThreads[i] : i \in Producers} = {}
    /\ MainThread # ConsumerThread /\ MessageSize \in Nat \ {0} /\ SizeT + MessageSize < SizeMod
    /\ Arguments \subseteq [size : Nat, nprod : Producers, nmsgs : Nat]
    /\ \A i \in Producers :
          /\ {MainMq[i], ConsumerMq[i], ProducerMq[i]} \subseteq Slots /\ QueueOf[i] \in Queues
          /\ SlotOwner[MainMq[i]] = MainThread /\ SlotOwner[ConsumerMq[i]] = ConsumerThread
          /\ SlotOwner[ProducerMq[i]] = ProducerThreads[i]
    /\ EachOwn(ProducerThreads) /\ EachOwn(QueueOf)
    /\ EachOwn(MainMq) /\ EachOwn(ConsumerMq) /\ EachOwn(ProducerMq)
    /\ None \notin Msg

(* The calls of the program.                                               *)
Creation(i, size) == [slot |-> MainMq[i], queue |-> QueueOf[i],
                      capacity |-> size * (MessageSize + SizeT), flags |-> {}]
ReaderOpen(i) == [slot |-> MainMq[i], dst |-> ConsumerMq[i], flags |-> {"READER"}]
WriterOpen(i) == [slot |-> MainMq[i], dst |-> ProducerMq[i], flags |-> {"WRITER"}]
Transfer(s) == [slot |-> s, len |-> MessageSize]
PollAll(t, slots, n, events) == [t |-> t, fds |-> [i \in 1..n |-> [slot |-> slots[i], events |-> events]]]
ConsumerPoll(n) == PollAll(ConsumerThread, ConsumerMq, n, {"READABLE"})
EofPoll(i) == PollAll(ConsumerThread, <<ConsumerMq[i]>>, 1, {"NOWRITERS"})
CheckPoll(n) == PollAll(MainThread, MainMq, n, {"NOREADERS", "NOWRITERS"})

ASSUME MultiProdCalls ==
    /\ CreateCalls = {Creation(i, a.size) : i \in Producers, a \in Arguments}
    /\ OpenCalls = {ReaderOpen(i) : i \in Producers} \cup {WriterOpen(i) : i \in Producers}
    /\ CloseCalls = UNION {{MainMq[i], ConsumerMq[i], ProducerMq[i]} : i \in Producers}
    /\ ReadCalls = {Transfer(ConsumerMq[i]) : i \in Producers}
    /\ WriteCalls = {Transfer(ProducerMq[i]) : i \in Producers}
    /\ PollCalls = UNION {{ConsumerPoll(i), CheckPoll(i), EofPoll(i)} : i \in Producers}

VARIABLES
    argv,  \* size, nprod and nmsgs
    main,  \* the main thread: the statement it is at and its loop variable
    cons,  \* the consumer: statement, i, ready, revents of fds, done and sum
    prod,  \* the producers: statement and number of messages sent
    spurious  \* history: a poll has woken up without a signal

progVars == <<argv, main, cons, prod, spurious>>
allVars == <<pollVars, progVars>>

Entries == 1 .. argv.nprod
Returned(t) == pc[t] = "idle"

(* Where a failed assert leads.  A call that failed for want of memory     *)
(* fails its assert, too; that end of the program is kept apart.           *)
Asserted(t, holds, label) == IF holds THEN label ELSE IF ret[t] = "ENOMEM" THEN "nomem" ELSE "aborted"

-----------------------------------------------------------------------------
(* main: the queues, with handles that neither read nor write.             *)
MainCreate == LET i == main.i IN
    /\ main.at = "create" /\ i \in Entries
    /\ msg_queue_create(Creation(i, argv.size))
    /\ main' = IF ret'[MainThread] = "OK" THEN [main EXCEPT !.i = @ + 1]
               ELSE [main EXCEPT !.at = IF ret'[MainThread] = "ENOMEM" THEN "nomem" ELSE "aborted"]
    /\ UNCHANGED <<argv, spurious, cons, prod, poll>>

MainOpenReaders ==
    /\ main.at = "create" /\ main.i \notin Entries
    /\ main' = [at |-> "open_reader", i |-> 1]
    /\ UNCHANGED <<argv, spurious, cons, prod, pollVars>>

MainOpenReader == LET i == main.i IN
    /\ main.at = "open_reader" /\ Returned(MainThread) /\ i \in Entries
    /\ msg_queue_open(ReaderOpen(i))
    /\ main' = [main EXCEPT !.i = @ + 1]
    /\ UNCHANGED <<argv, spurious, cons, prod, poll>>

(* pthread_create, whose result is asserted.                               *)
StartConsumer ==
    /\ main.at = "open_reader" /\ Returned(MainThread) /\ main.i \notin Entries
    /\ \/ main' = [main EXCEPT !.at = "nomem"] /\ UNCHANGED cons
       \/ main' = [at |-> "open_writer", i |-> 1] /\ cons' = [cons EXCEPT !.at = "loop"]
    /\ UNCHANGED <<argv, spurious, prod, pollVars>>

MainOpenWriter == LET i == main.i IN
    /\ main.at = "open_writer" /\ i \in Entries
    /\ msg_queue_open(WriterOpen(i))
    /\ main' = [main EXCEPT !.at = "start"]
    /\ UNCHANGED <<argv, spurious, cons, prod, poll>>

StartProducer ==
    /\ main.at = "start" /\ Returned(MainThread)
    /\ \/ main' = [main EXCEPT !.at = "nomem"] /\ UNCHANGED prod
       \/ main' = [at |-> "open_writer", i |-> main.i + 1] /\ prod' = [prod EXCEPT ![main.i].at = "loop"]
    /\ UNCHANGED <<argv, spurious, cons, pollVars>>

(* The joins, then the poll that checks that all the handles are closed.   *)
MainPoll ==
    /\ main.at = "open_writer" /\ main.i \notin Entries
    /\ cons.at = "done" /\ \A i \in Entries : prod[i].at = "done"
    /\ msg_queue_poll(CheckPoll(argv.nprod))
    /\ main' = [main EXCEPT !.at = "polled"]
    /\ UNCHANGED <<argv, spurious, cons, prod>>

MainPolled == LET p == poll[MainThread] IN
    /\ main.at = "polled" /\ Returned(MainThread)
    /\ main' = [at |-> Asserted(MainThread, /\ ret[MainThread] = "OK" /\ p.ready = argv.nprod
                                          /\ \A i \in Entries : p.revents[i] = {"NOREADERS", "NOWRITERS"},
                              "close"), i |-> 1]
    /\ UNCHANGED <<argv, spurious, cons, prod, pollVars>>

MainClose == LET i == main.i IN
    /\ main.at = "close" /\ i \in Entries
    /\ msg_queue_close(MainMq[i])
    /\ main' = [main EXCEPT !.at = "closed"]
    /\ UNCHANGED <<argv, spurious, cons, prod, poll>>

MainClosed ==
    /\ main.at = "closed" /\ Returned(MainThread)
    /\ main' = [at |-> Asserted(MainThread, ret[MainThread] = "OK" /\ handle[MainMq[main.i]] = NullHandle, "close"),
                i |-> main.i + 1]
    /\ UNCHANGED <<argv, spurious, cons, prod, pollVars>>

(* The comparison of the sums.                                             *)
prod_sum == UNION {{[q |-> QueueOf[i], id |-> k] : k \in 1 .. prod[i].sent} : i \in Entries}
MainExit ==
    /\ main.at = "close" /\ main.i \notin Entries
    /\ main' = [main EXCEPT !.at = IF cons.sum = prod_sum THEN "exit0" ELSE "exit1"]
    /\ UNCHANGED <<argv, spurious, cons, prod, pollVars>>

MainStep == \/ MainCreate \/ MainOpenReaders \/ MainOpenReader \/ StartConsumer \/ MainOpenWriter
            \/ StartProducer \/ MainPoll \/ MainPolled \/ MainClose \/ MainClosed \/ MainExit

-----------------------------------------------------------------------------
(* prod_thread_f.                                                          *)
ProdWrite(i) ==
    /\ prod[i].at = "loop" /\ prod[i].sent < argv.nmsgs
    /\ msg_queue_write(Transfer(ProducerMq[i]))
    /\ prod' = [prod EXCEPT ![i].at = "wrote"]
    /\ UNCHANGED <<argv, spurious, main, cons, poll>>

ProdWrote(i) == LET t == ProducerThreads[i] IN
    /\ prod[i].at = "wrote" /\ Returned(t)
    /\ prod' = [prod EXCEPT ![i] = [at |-> Asserted(t, ret[t] = "OK", "loop"), sent |-> @.sent + 1]]
    /\ UNCHANGED <<argv, spurious, main, cons, pollVars>>

ProdClose(i) ==
    /\ prod[i].at = "loop" /\ prod[i].sent = argv.nmsgs
    /\ msg_queue_close(ProducerMq[i])
    /\ prod' = [prod EXCEPT ![i].at = "closed"]
    /\ UNCHANGED <<argv, spurious, main, cons, poll>>

ProdClosed(i) == LET t == ProducerThreads[i] IN
    /\ prod[i].at = "closed" /\ Returned(t)
    /\ prod' = [prod EXCEPT ![i].at = Asserted(t, ret[t] = "OK", "done")]
    /\ UNCHANGED <<argv, spurious, main, cons, pollVars>>

ProdStep(i) == ProdWrite(i) \/ ProdWrote(i) \/ ProdClose(i) \/ ProdClosed(i)

-----------------------------------------------------------------------------
(* cons_thread_f: poll until every queue has been closed.                  *)
ConsPoll ==
    /\ cons.at = "loop" /\ cons.done < argv.nprod
    /\ msg_queue_poll(ConsumerPoll(argv.nprod))
    /\ cons' = [cons EXCEPT !.at = "polled"]
    /\ UNCHANGED <<argv, spurious, main, prod>>

ConsEnd ==
    /\ cons.at = "loop" /\ cons.done = argv.nprod
    /\ cons' = [cons EXCEPT !.at = "done"]
    /\ UNCHANGED <<argv, spurious, main, prod, pollVars>>

ConsPolled == LET p == poll[ConsumerThread] IN
    /\ cons.at = "polled" /\ Returned(ConsumerThread)
    /\ cons' = [cons EXCEPT !.at = Asserted(ConsumerThread, ret[ConsumerThread] = "OK" /\ p.ready > 0, "scan"),
                            !.i = 1, !.ready = p.ready, !.revents = p.revents]
    /\ UNCHANGED <<argv, spurious, main, prod, pollVars>>

(* The loop over fds: an entry without events is passed over, a readable   *)
(* one is read.                                                            *)
Following(c) == IF c.i = argv.nprod THEN [c EXCEPT !.at = "loop"]
                ELSE [c EXCEPT !.at = "scan", !.i = @ + 1]
Expected(e) == e \in {{}, {"READABLE"}, {"READABLE", "NOWRITERS"}}
ConsSkip == LET e == cons.revents[cons.i] IN
    /\ cons.at = "scan" /\ "READABLE" \notin e
    /\ cons' = IF Expected(e) THEN Following(cons) ELSE [cons EXCEPT !.at = "aborted"]
    /\ UNCHANGED <<argv, spurious, main, prod, pollVars>>

ConsRead == LET e == cons.revents[cons.i] IN
    /\ cons.at = "scan" /\ "READABLE" \in e
    /\ IF Expected(e)
       THEN /\ msg_queue_read(Transfer(ConsumerMq[cons.i]))
            /\ cons' = [cons EXCEPT !.at = "got"] /\ UNCHANGED poll
       ELSE cons' = [cons EXCEPT !.at = "aborted"] /\ UNCHANGED pollVars
    /\ UNCHANGED <<argv, spurious, main, prod>>

(* The end of an iteration that has read: break when nothing else is ready.*)
NextEntry(c) == IF c.ready = 1 THEN [c EXCEPT !.at = "loop"]
                ELSE Following([c EXCEPT !.ready = @ - 1])

(* What the code does with the result of its read.  Mutant: a queue        *)
(* without writers is taken for finished while it still holds messages.    *)
ReadResult == LET q == QueueOf[cons.i] IN rcvd[q][Len(rcvd[q])]
MutantNoWritersIsEof ==
    ret[ConsumerThread] = "EOF" \/ "NOWRITERS" \in cons.revents[cons.i]
AtEof == ret[ConsumerThread] = "EOF"
ConsGot ==
    /\ cons.at = "got" /\ Returned(ConsumerThread)
    /\ cons' = CASE AtEof -> [cons EXCEPT !.at = "verify"]
                 [] ret[ConsumerThread] = "MSG" /\ ReadResult # None /\ ReadResult.len = MessageSize ->
                        NextEntry([cons EXCEPT !.sum = @ \cup {[q |-> QueueOf[cons.i], id |-> ReadResult.id]}])
                 [] ret[ConsumerThread] = "EAGAIN" -> NextEntry(cons)
                 [] OTHER -> [cons EXCEPT !.at = "aborted"]
    /\ UNCHANGED <<argv, spurious, main, prod, pollVars>>

(* End of file: verified with a poll for NOWRITERS, then the handle goes.  *)
ConsVerify ==
    /\ cons.at = "verify"
    /\ msg_queue_poll(EofPoll(cons.i))
    /\ cons' = [cons EXCEPT !.at = "verified"]
    /\ UNCHANGED <<argv, spurious, main, prod>>

ConsVerified == LET p == poll[ConsumerThread] IN
    /\ cons.at = "verified" /\ Returned(ConsumerThread)
    /\ cons' = [cons EXCEPT !.at = Asserted(ConsumerThread, /\ ret[ConsumerThread] = "OK" /\ p.ready = 1
                                                          /\ p.revents[1] = {"NOWRITERS"}, "close")]
    /\ UNCHANGED <<argv, spurious, main, prod, pollVars>>

ConsClose ==
    /\ cons.at = "close"
    /\ msg_queue_close(ConsumerMq[cons.i])
    /\ cons' = [cons EXCEPT !.at = "closed", !.done = @ + 1]
    /\ UNCHANGED <<argv, spurious, main, prod, poll>>

ConsClosed ==
    /\ cons.at = "closed" /\ Returned(ConsumerThread)
    /\ cons' = IF ret[ConsumerThread] = "OK" /\ handle[ConsumerMq[cons.i]] = NullHandle
               THEN NextEntry(cons) ELSE [cons EXCEPT !.at = "aborted"]
    /\ UNCHANGED <<argv, spurious, main, prod, pollVars>>

ConsStep == \/ ConsPoll \/ ConsEnd \/ ConsPolled \/ ConsSkip \/ ConsRead \/ ConsGot
            \/ ConsVerify \/ ConsVerified \/ ConsClose \/ ConsClosed

-----------------------------------------------------------------------------
(* The steps inside the calls.                                             *)
CallLock(t) == ((Lock(t) /\ UNCHANGED poll) \/ PollLock(t) \/ WakeNode(t)) /\ UNCHANGED progVars
CallStep(t) == ((Progress(t) /\ UNCHANGED poll) \/ PollStep(t)) /\ UNCHANGED progVars
CallSpurious(t) ==
    /\ \/ SpuriousWakeup(t) /\ UNCHANGED <<poll, spurious>>
       \/ PollSpurious(t) /\ spurious' = TRUE
    /\ UNCHANGED <<argv, main, cons, prod>>

(* main's return, or a failed assert, ends the process.                    *)
Ends == {main.at, cons.at} \cup {prod[i].at : i \in DOMAIN prod}
Running == Ends \cap {"exit0", "exit1", "aborted", "nomem"} = {}

MultiProdInit ==
    /\ PollInit
    /\ argv \in Arguments
    /\ main = [at |-> "create", i |-> 1]
    /\ cons = [at |-> "none", i |-> 1, ready |-> 0, revents |-> <<>>, done |-> 0, sum |-> {}]
    /\ prod = [i \in Entries |-> [at |-> "none", sent |-> 0]]
    /\ spurious = FALSE

MultiProdNext ==
    /\ Running
    /\ \/ MainStep \/ ConsStep \/ \E i \in Entries : ProdStep(i)
       \/ \E t \in Threads : CallLock(t) \/ CallStep(t) \/ CallSpurious(t)

MultiProdSpec == MultiProdInit /\ [][MultiProdNext]_allVars

(* Every thread goes on when it can, and none is kept from a mutex for     *)
(* ever.                                                                   *)
MultiProdFairSpec ==
    /\ MultiProdSpec
    /\ WF_allVars(Running /\ MainStep) /\ WF_allVars(Running /\ ConsStep)
    /\ \A i \in DOMAIN ProducerThreads : WF_allVars(Running /\ i \in Entries /\ ProdStep(i))
    /\ \A t \in Threads : /\ WF_allVars(Running /\ CallStep(t))
                          /\ SF_allVars(Running /\ CallLock(t))

-----------------------------------------------------------------------------
(* No assert of multiprod.c fails for want of an event, because of one too *)
(* many, or for a result of a call: a poll that returns has found a        *)
(* readable queue, at the end of file NOWRITERS is raised, and when the    *)
(* threads have ended every queue has both events.  The queue must hold    *)
(* two messages, since one of exactly the capacity is refused, and no poll *)
(* may wake up without a signal, since the assert on its result would fail.*)
ProgramAssertsHold == argv.size >= 2 /\ ~spurious => "aborted" \notin Ends

(* multiprod.c reads from handles that block, relying on there being one   *)
(* reader: a queue that poll reported as readable has a message, or its    *)
(* end of file, when the read comes to it, whatever happened in between.   *)
PolledReadsDontBlock == pc[ConsumerThread] # "read_wait"

(* The sums agree: the consumer closes no queue that still has a message,  *)
(* and a successful end leaves neither messages nor queues behind.         *)
NothingLost ==
    /\ main.at # "exit1"
    /\ main.at = "exit0" => \A i \in Entries : /\ mq[QueueOf[i]].status = "freed"
                                               /\ Len(rcvd[QueueOf[i]]) = argv.nmsgs

(* "Polls and reads from all the queues until all of them are closed by    *)
(* the writers" (multiprod.c:90): once all the producers have sent their   *)
(* messages and closed their queues, and it has yet to see the end of the  *)
(* first of them, the consumer receives what is left.  Either of two       *)
(* repairs would do: a close that wakes the poll, or a signal that reaches *)
(* it through every entry.                                                 *)
ProducersDone == \A i \in Entries : prod[i].at = "done"
AllReceived == \A i \in Entries : Len(rcvd[QueueOf[i]]) = stored[QueueOf[i]]
SentIsReceived == ProducersDone /\ cons.done = 0 ~> AllReceived \/ ~Running
=============================================================================
