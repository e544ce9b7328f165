---------------------------- MODULE MCMultiProd -----------------------------
(* multiprod with one and two producers, and queues of too few messages,   *)
(* and of enough.                                                          *)
EXTENDS MultiProd, TLC

CONSTANTS p1, p2, q1, q2, m1, m2, c1, c2, w1, w2

ProducerSeq == <<p1, p2>>
QueueSeq == <<q1, q2>>
MainSeq == <<m1, m2>>
ConsumerSeq == <<c1, c2>>
WriterSeq == <<w1, w2>>
Owner == [s \in {m1, m2} |-> MainThread] @@ [s \in {c1, c2} |-> ConsumerThread] @@ (w1 :> p1) @@ (w2 :> p2)

Args(s, p, n) == [size |-> s, nprod |-> p, nmsgs |-> n]
AllArguments == {Args(0, 1, 1), Args(1, 1, 1), Args(2, 1, 0), Args(2, 1, 3), Args(2, 2, 0), Args(2, 2, 3), Args(3, 2, 2)}
OneEach == {Args(2, 2, 1)}
NoEvents == {{}}

Creates == {Creation(i, a.size) : i \in Producers, a \in Arguments}
Opens == {ReaderOpen(i) : i \in Producers} \cup {WriterOpen(i) : i \in Producers}
Closes == {m1, m2, c1, c2, w1, w2}
Reads == {Transfer(s) : s \in {c1, c2}}
Writes == {Transfer(s) : s \in {w1, w2}}
Polls == UNION {{ConsumerPoll(i), CheckPoll(i), EofPoll(i)} : i \in Producers}
=============================================================================
