------------------------------ MODULE MCProdCon -----------------------------
(* prodcon with a queue that is too small, that holds no int, that holds   *)
(* one and that holds two, and with no number, two and three.              *)
EXTENDS ProdCon, TLC

CONSTANTS q1

Owner == (MainQueue :> MainThread) @@ (ContextQueue :> ProducerThread)
SomeCounts == {0 - 1, 0, 2, 3}
NoEvents == {{}}
Creates == {[slot |-> MainQueue, queue |-> q1, capacity |-> n, flags |-> {"READER"}] : n \in Capacities}
Opens == {[slot |-> MainQueue, dst |-> ContextQueue, flags |-> {"WRITER"}]}
Reads == {[slot |-> MainQueue, len |-> IntSize]}
Writes == {[slot |-> ContextQueue, len |-> IntSize]}
=============================================================================
