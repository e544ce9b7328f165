---------------------------- MODULE MCLinkedList ----------------------------
(* Two threads with three entries, and one that iterates without the mutex. *)
EXTENDS LinkedList, TLC

CONSTANTS t1, t2, t3, e1, e2, e3

Owners == (e1 :> t1) @@ (e2 :> t1) @@ (e3 :> t2)
=============================================================================
