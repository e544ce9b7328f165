------------------------------- MODULE ProdCon ------------------------------
(***************************************************************************)
(* The program prodcon.c: the main thread creates a queue, opens a writer  *)
(* handle for a producer thread, reads a count and that many numbers, and  *)
(* compares its sum with the producer's.  The calls are those of MsgQueue, *)
(* so that the two threads interleave inside them.                         *)
(***************************************************************************)
EXTENDS MsgQueue

CONSTANTS
    MainThread, ProducerThread,
    TheQueue, MainQueue, ContextQueue,  \* the backend, and the two variables
    IntSize,                            \* sizeof(int)
    Capacities, Counts,                 \* the arguments of the program
    Numbers                             \* rand() % 64

ASSUME ProdConAssumption ==
    /\ MainThread # ProducerThread /\ {MainThread, ProducerThread} = Threads
    /\ MainQueue # ContextQueue /\ {MainQueue, ContextQueue} = Slots
    /\ SlotOwner[MainQueue] = MainThread /\ SlotOwner[ContextQueue] = ProducerThread
    /\ TheQueue \in Queues /\ IntSize \in Nat \ {0} /\ SizeT + IntSize < SizeMod
    /\ Capacities \subseteq Nat /\ Counts \subseteq Int /\ Numbers \subseteq Nat

(* The calls of the program.                                               *)
Transfer(s) == [slot |-> s, len |-> IntSize]
Creation(capacity) == [slot |-> MainQueue, queue |-> TheQueue, capacity |-> capacity, flags |-> {"READER"}]
WriterOpen == [slot |-> MainQueue, dst |-> ContextQueue, flags |-> {"WRITER"}]

ASSUME ProdConCalls ==
    /\ CreateCalls = {Creation(n) : n \in Capacities} /\ OpenCalls = {WriterOpen}
    /\ CloseCalls = {MainQueue, ContextQueue}
    /\ ReadCalls = {Transfer(MainQueue)} /\ WriteCalls = {Transfer(ContextQueue)}

VARIABLES
    argv,  \* queueCapacity and numberCount
    main,  \* the main thread: the statement it is at, count, i and sum, and whether
           \* it has left its loop because of the other side ("Broken pipe")
    prod,  \* the producer: the statement it is at, the number it writes, i, sum, broken
    data   \* the ints stored in the queue so far, by message number

progVars == <<argv, main, prod, data>>
allVars == <<vars, progVars>>

Returned(t) == pc[t] = "idle"
MainAt(label) == main' = [main EXCEPT !.at = label]
ProdAt(label) == prod' = [prod EXCEPT !.at = label]

(* The int a reader finds in its buffer.                                   *)
Value == data[rcvd[TheQueue][Len(rcvd[TheQueue])].id]

-----------------------------------------------------------------------------
(* main: the queue, the handle for the producer, and its thread.           *)
MainCreate ==
    /\ main.at = "start"
    /\ msg_queue_create(Creation(argv.capacity))
    /\ MainAt("created") /\ UNCHANGED <<argv, prod, data>>

MainOpen ==
    /\ main.at = "created"
    /\ IF ret[MainThread] # "OK" THEN MainAt("exit1") /\ UNCHANGED vars
       ELSE /\ msg_queue_open(WriterOpen)
            /\ MainAt("opened")
    /\ UNCHANGED <<argv, prod, data>>

pthread_create ==
    /\ main.at = "opened" /\ Returned(MainThread)
    /\ \/ MainAt("exit1") /\ UNCHANGED prod
       \/ MainAt("read_count") /\ ProdAt("write_count")
    /\ UNCHANGED <<argv, data>> /\ UNCHANGED vars

(* main reads the count and checks it against its argument.                *)
MainReadCount ==
    /\ main.at = "read_count"
    /\ msg_queue_read(Transfer(MainQueue))
    /\ MainAt("got_count") /\ UNCHANGED <<argv, prod, data>>

MainGotCount ==
    /\ main.at = "got_count" /\ Returned(MainThread)
    /\ IF ret[MainThread] = "MSG" /\ Value = argv.count
       THEN main' = [main EXCEPT !.at = "loop", !.count = Value]
       ELSE MainAt("aborted")
    /\ UNCHANGED <<argv, prod, data>> /\ UNCHANGED vars

(* The reading loop.  Mutant: it stops one number early.                   *)
MutantStopsEarly == main.i + 1 < main.count
MainLoops == main.i < main.count
MainRead ==
    /\ main.at = "loop" /\ MainLoops
    /\ msg_queue_read(Transfer(MainQueue))
    /\ MainAt("got") /\ UNCHANGED <<argv, prod, data>>

MainGot ==
    /\ main.at = "got" /\ Returned(MainThread)
    /\ main' = CASE ret[MainThread] = "EOF" -> [main EXCEPT !.at = "close", !.broken = TRUE]
                 [] ret[MainThread] = "MSG" -> [main EXCEPT !.at = "loop", !.i = @ + 1, !.sum = @ + Value]
                 [] OTHER -> [main EXCEPT !.at = "exit1"]
    /\ UNCHANGED <<argv, prod, data>> /\ UNCHANGED vars

(* main closes its handle, with an assert on the result, joins the         *)
(* producer and compares the sums.                                         *)
MainClose ==
    /\ main.at = "close" \/ (main.at = "loop" /\ ~MainLoops)
    /\ msg_queue_close(MainQueue)
    /\ MainAt("closed") /\ UNCHANGED <<argv, prod, data>>

MainClosed ==
    /\ main.at = "closed" /\ Returned(MainThread)
    /\ MainAt(IF ret[MainThread] = "OK" THEN "join" ELSE "aborted")
    /\ UNCHANGED <<argv, prod, data>> /\ UNCHANGED vars

pthread_join ==
    /\ main.at = "join"
    /\ \/ MainAt("exit1")
       \/ /\ prod.at = "done"
          /\ MainAt(IF prod.sum = main.sum THEN "exit0" ELSE "aborted")
    /\ UNCHANGED <<argv, prod, data>> /\ UNCHANGED vars

-----------------------------------------------------------------------------
(* producer: the count first, with an assert on the result.                *)
ProdWriteCount ==
    /\ prod.at = "write_count"
    /\ msg_queue_write(Transfer(ContextQueue))
    /\ prod' = [prod EXCEPT !.at = "wrote_count", !.number = argv.count]
    /\ UNCHANGED <<argv, main, data>>

ProdWroteCount ==
    /\ prod.at = "wrote_count" /\ Returned(ProducerThread)
    /\ ProdAt(IF ret[ProducerThread] = "OK" THEN "loop" ELSE "aborted")
    /\ UNCHANGED <<argv, main, data>> /\ UNCHANGED vars

(* The writing loop.  Mutant: it sends one number too many.                *)
MutantOneMore == prod.i <= argv.count
ProdLoops == prod.i < argv.count
ProdWrite ==
    /\ prod.at = "loop" /\ ProdLoops
    /\ msg_queue_write(Transfer(ContextQueue))
    /\ \E number \in Numbers : prod' = [prod EXCEPT !.at = "wrote", !.number = number]
    /\ UNCHANGED <<argv, main, data>>

(* A broken pipe ends the loop; the number counts after any other result.  *)
ProdWrote ==
    /\ prod.at = "wrote" /\ Returned(ProducerThread)
    /\ prod' = IF ret[ProducerThread] = "EPIPE" THEN [prod EXCEPT !.at = "close", !.broken = TRUE]
               ELSE [prod EXCEPT !.at = "loop", !.i = @ + 1, !.sum = @ + prod.number]
    /\ UNCHANGED <<argv, main, data>> /\ UNCHANGED vars

ProdClose ==
    /\ prod.at = "close" \/ (prod.at = "loop" /\ ~ProdLoops)
    /\ msg_queue_close(ContextQueue)
    /\ ProdAt("closed") /\ UNCHANGED <<argv, main, data>>

ProdClosed ==
    /\ prod.at = "closed" /\ Returned(ProducerThread)
    /\ ProdAt(IF ret[ProducerThread] = "OK" THEN "done" ELSE "aborted")
    /\ UNCHANGED <<argv, main, data>> /\ UNCHANGED vars

-----------------------------------------------------------------------------
(* The steps inside the calls; a write that stores its message stores the  *)
(* producer's number.                                                      *)
Stores == data' = IF stored'[TheQueue] = stored[TheQueue] THEN data ELSE Append(data, prod.number)
CallLock(t) == Lock(t) /\ UNCHANGED progVars
CallStep(t) == Progress(t) /\ Stores /\ UNCHANGED <<argv, main, prod>>
CallSpurious(t) == SpuriousWakeup(t) /\ UNCHANGED progVars

MainStep == \/ MainCreate \/ MainOpen \/ pthread_create \/ MainReadCount \/ MainGotCount
            \/ MainRead \/ MainGot \/ MainClose \/ MainClosed \/ pthread_join
ProdStep == \/ ProdWriteCount \/ ProdWroteCount \/ ProdWrite \/ ProdWrote
            \/ ProdClose \/ ProdClosed

(* main's return, or a failed assert of either, ends the process.          *)
Running == main.at \notin {"exit0", "exit1", "aborted"} /\ prod.at # "aborted"

ProdConInit ==
    /\ Init
    /\ argv \in [capacity : Capacities, count : Counts]
    /\ main = [at |-> "start", count |-> 0, i |-> 0, sum |-> 0, broken |-> FALSE]
    /\ prod = [at |-> "none", number |-> 0, i |-> 0, sum |-> 0, broken |-> FALSE]
    /\ data = <<>>

ProdConNext ==
    /\ Running
    /\ \/ MainStep \/ ProdStep
       \/ \E t \in Threads : CallLock(t) \/ CallStep(t) \/ CallSpurious(t)

(* Both threads go on when they can, and neither is kept from the mutex    *)
(* for ever.  A join that fails is not counted on: main waits for the      *)
(* producer.                                                               *)
JoinFails == main.at = "join" /\ main'.at = "exit1"
ProdConSpec ==
    /\ ProdConInit /\ [][ProdConNext]_allVars
    /\ WF_allVars(Running /\ MainStep /\ ~JoinFails) /\ WF_allVars(Running /\ ProdStep)
    /\ \A t \in Threads : /\ WF_allVars(Running /\ CallStep(t))
                          /\ SF_allVars(Running /\ CallLock(t))

-----------------------------------------------------------------------------
(* A queue that can hold one int, strictly: msg_queue_write refuses an     *)
(* exact fit.                                                              *)
LargeEnough == argv.capacity > SizeT + IntSize

(* No assert of prodcon.c fails, the comparison of the sums included.      *)
AssertsHold == LargeEnough => "aborted" \notin {main.at, prod.at}

(* The consumer never sees the end of file before its last number and the  *)
(* producer never a broken pipe: neither thread leaves its loop early,     *)
(* whichever of the two closes its handle first.                           *)
NoBrokenPipe == ~main.broken /\ ~prod.broken

(* A successful exit leaves nothing behind: all the numbers were received  *)
(* and the two closes, in either order, have freed the queue once.         *)
CleanExit ==
    main.at = "exit0" =>
        /\ mq[TheQueue].status = "freed"
        /\ Len(rcvd[TheQueue]) = Len(data)
        /\ Len(data) = 1 + (IF argv.count > 0 THEN argv.count ELSE 0)

(* The program ends, whatever its arguments.                               *)
ProgramEnds == <>~Running
=============================================================================
