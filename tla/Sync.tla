-------------------------------- MODULE Sync --------------------------------
(***************************************************************************)
(* The primitives of sync.c over the pthread library.  A mutex is its      *)
(* owner, or None.  The threads blocked on a condition variable are the    *)
(* ones whose program counter is at the wait; waking one of them moves its *)
(* program counter to the label where it asks for the mutex again          *)
(* (pthread_cond_wait returns with the mutex re-acquired).                 *)
(***************************************************************************)
CONSTANT None  \* no thread, no queue, no variable

(* mutex_lock proceeds when the mutex is free.  mutex_unlock frees it      *)
(* whoever calls: sync.c initialises every mutex with default attributes,  *)
(* for which the library does not check the owner.                         *)
mutex_available(owner) == owner = None
mutex_unlock(m) == [m EXCEPT !.mutex = None]

(* cond_signal wakes one of the waiters, if there is one: the set of       *)
(* program counter functions the call can produce.                         *)
cond_signal(pcs, waiters, relock) ==
    IF waiters = {} THEN {pcs} ELSE {[pcs EXCEPT ![w] = relock] : w \in waiters}

(* cond_broadcast wakes all of them.                                       *)
cond_broadcast(pcs, waiters, relock) ==
    [t \in DOMAIN pcs |-> IF t \in waiters THEN relock ELSE pcs[t]]
=============================================================================
