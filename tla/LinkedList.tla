----------------------------- MODULE LinkedList -----------------------------
(***************************************************************************)
(* The circular doubly-linked list of list.h, pointer by pointer, with the *)
(* validator of mutex_validator.c that reports concurrent use.  Threads    *)
(* add and delete entries of their own under a mutex, as msg_queue.c does  *)
(* with the waiting_nodes of a poll; Careless threads iterate without it.  *)
(* None stands for NULL and for the thread id 0.                           *)
(***************************************************************************)
EXTENDS Integers, Sequences, FiniteSets, Sync

CONSTANTS Threads, Entries,
          EntryOwner,  \* the thread that adds and deletes the entry
          HeadEntry,   \* &list->head
          Careless     \* threads that iterate without the mutex

ASSUME ListAssumption == /\ IsFiniteSet(Entries)
                         /\ EntryOwner \in [Entries -> Threads]
                         /\ Careless \subseteq Threads
                         /\ None \notin Threads \cup Entries \cup {HeadEntry}
                         /\ HeadEntry \notin Entries

VARIABLES next, prev,   \* the pointers of the entries and of the head
          mutex,        \* the mutex the users of the list take
          owner,        \* validator->owner
          reported,     \* report_error has been called by the validator
          overlapped,   \* two threads have been between enter and exit at once
          pc, op        \* per thread: label; the call with its arguments and locals

listVars == <<next, prev, mutex, owner, reported, overlapped, pc, op>>

Pointer == Entries \cup {HeadEntry, None}
Idle == [kind |-> "none", entry |-> None, p |-> None, n |-> None, seen |-> <<>>]

(* The labels between validator_enter and validator_exit.                  *)
Section == {"link1", "link2", "link3", "link4", "unlink1", "unlink2", "first", "each", "exit"}

-----------------------------------------------------------------------------
(* validator_enter and validator_exit: one compare-and-swap each.          *)
validator_enter(t) ==
    /\ owner' = IF owner = None THEN t ELSE owner
    /\ reported' = (reported \/ owner # None)
    /\ overlapped' = (overlapped \/ \E u \in Threads : u # t /\ pc[u] \in Section)

(* Mutant: exit compares the owner but does not store 0.                   *)
MutantNoRelease(t) ==
    /\ reported' = (reported \/ owner # t)
    /\ UNCHANGED <<owner, overlapped>>
validator_exit(t) ==
    /\ owner' = IF owner = t THEN None ELSE owner
    /\ reported' = (reported \/ owner # t)
    /\ UNCHANGED overlapped

UnchangedValidator == UNCHANGED <<owner, reported, overlapped>>
Goto(t, label) == pc' = [pc EXCEPT ![t] = label]
Return(t) == op' = [op EXCEPT ![t] = Idle] /\ Goto(t, "idle")

-----------------------------------------------------------------------------
(* The calls.  An entry is added when its owner has not added it yet and   *)
(* deleted when it has.                                                    *)
Begin(t, kind, e) ==
    /\ pc[t] = "idle"
    /\ op' = [op EXCEPT ![t] = [Idle EXCEPT !.kind = kind, !.entry = e]]
    /\ Goto(t, IF t \in Careless THEN "enter" ELSE "lock")
    /\ UNCHANGED <<next, prev, mutex>> /\ UnchangedValidator

list_add_head(e) == next[e] = None /\ Begin(EntryOwner[e], "add_head", e)
list_add_tail(e) == next[e] = None /\ Begin(EntryOwner[e], "add_tail", e)
list_del(e) == next[e] # None /\ Begin(EntryOwner[e], "del", e)
list_for_each(t) == Begin(t, "each", None)

Lock(t) ==
    /\ pc[t] = "lock" /\ mutex_available(mutex)
    /\ mutex' = t
    /\ Goto(t, IF op[t].kind \in {"add_head", "add_tail"} THEN "args" ELSE "enter")
    /\ UNCHANGED <<next, prev, op>> /\ UnchangedValidator

(* The neighbours __list_insert is called with are read before it enters   *)
(* the validator.                                                          *)
Neighbours(kind) == IF kind = "add_head" THEN [p |-> HeadEntry, n |-> next[HeadEntry]]
                    ELSE [p |-> prev[HeadEntry], n |-> HeadEntry]
Args(t) == LET at == Neighbours(op[t].kind) IN
    /\ pc[t] = "args"
    /\ op' = [op EXCEPT ![t].p = at.p, ![t].n = at.n]
    /\ Goto(t, "enter")
    /\ UNCHANGED <<next, prev, mutex>> /\ UnchangedValidator

Enter(t) ==
    /\ pc[t] = "enter" /\ validator_enter(t)
    /\ Goto(t, CASE op[t].kind = "del" -> "unlink1"
                 [] op[t].kind = "each" -> "first"
                 [] OTHER -> "link1")
    /\ UNCHANGED <<next, prev, mutex, op>>

(* The four assignments of __list_insert.                                  *)
(* Mutant: the entry is reachable before its own pointer is set.           *)
MutantPublishFirst(t) == LET e == op[t].entry IN
    /\ \/ pc[t] = "link1" /\ next' = [next EXCEPT ![op[t].p] = e] /\ Goto(t, "link2") /\ UNCHANGED prev
       \/ pc[t] = "link2" /\ prev' = [prev EXCEPT ![e] = op[t].p] /\ Goto(t, "link3") /\ UNCHANGED next
       \/ pc[t] = "link3" /\ next' = [next EXCEPT ![e] = op[t].n] /\ Goto(t, "link4") /\ UNCHANGED prev
       \/ pc[t] = "link4" /\ prev' = [prev EXCEPT ![op[t].n] = e] /\ Goto(t, "exit") /\ UNCHANGED next
    /\ UNCHANGED <<mutex, op>> /\ UnchangedValidator
Link(t) == LET e == op[t].entry IN
    /\ \/ pc[t] = "link1" /\ prev' = [prev EXCEPT ![op[t].n] = e] /\ Goto(t, "link2") /\ UNCHANGED next
       \/ pc[t] = "link2" /\ next' = [next EXCEPT ![e] = op[t].n] /\ Goto(t, "link3") /\ UNCHANGED prev
       \/ pc[t] = "link3" /\ prev' = [prev EXCEPT ![e] = op[t].p] /\ Goto(t, "link4") /\ UNCHANGED next
       \/ pc[t] = "link4" /\ next' = [next EXCEPT ![op[t].p] = e] /\ Goto(t, "exit") /\ UNCHANGED prev
    /\ UNCHANGED <<mutex, op>> /\ UnchangedValidator

(* The two assignments of list_del.                                        *)
(* Mutant: list_del forgets the backward pointer.                          *)
MutantForwardOnly(t) == LET e == op[t].entry IN
    /\ \/ pc[t] = "unlink1" /\ Goto(t, "unlink2") /\ UNCHANGED <<prev, next>>
       \/ pc[t] = "unlink2" /\ next' = [next EXCEPT ![prev[e]] = next[e]] /\ Goto(t, "exit") /\ UNCHANGED prev
    /\ UNCHANGED <<mutex, op>> /\ UnchangedValidator

(* Mutant: the last entry has no successor, as in a list that is not circular. *)
MutantNullEnd(t) == LET e == op[t].entry IN
    /\ \/ pc[t] = "unlink1" /\ prev' = [prev EXCEPT ![next[e]] = prev[e]] /\ Goto(t, "unlink2") /\ UNCHANGED next
       \/ /\ pc[t] = "unlink2" /\ Goto(t, "exit") /\ UNCHANGED prev
          /\ next' = [next EXCEPT ![prev[e]] = IF next[e] = HeadEntry THEN None ELSE next[e]]
    /\ UNCHANGED <<mutex, op>> /\ UnchangedValidator
Unlink(t) == LET e == op[t].entry IN
    /\ \/ pc[t] = "unlink1" /\ prev' = [prev EXCEPT ![next[e]] = prev[e]] /\ Goto(t, "unlink2") /\ UNCHANGED next
       \/ pc[t] = "unlink2" /\ next' = [next EXCEPT ![prev[e]] = next[e]] /\ Goto(t, "exit") /\ UNCHANGED prev
    /\ UNCHANGED <<mutex, op>> /\ UnchangedValidator

(* list_for_each: the cursor is op[t].n; following the NULL pointer of an  *)
(* entry that has been deleted meanwhile is a crash.  seen records what an *)
(* iteration under the mutex has visited.                                  *)
Iterate(t) == LET pos == op[t].n IN
    /\ \/ /\ pc[t] = "first" /\ op' = [op EXCEPT ![t].n = next[HeadEntry]] /\ Goto(t, "each")
       \/ /\ pc[t] = "each" /\ pos = HeadEntry /\ Goto(t, "exit") /\ UNCHANGED op
       \/ /\ pc[t] = "each" /\ pos \in Entries /\ UNCHANGED pc
          /\ op' = [op EXCEPT ![t].n = next[pos],
                              ![t].seen = IF t \in Careless THEN @ ELSE Append(@, pos)]
       \/ /\ pc[t] = "each" /\ pos = None /\ Goto(t, "crashed") /\ UNCHANGED op
    /\ UNCHANGED <<next, prev, mutex>> /\ UnchangedValidator

Exit(t) ==
    /\ pc[t] = "exit" /\ validator_exit(t)
    /\ IF t \in Careless THEN Return(t)
       ELSE Goto(t, IF op[t].kind = "del" THEN "init" ELSE "unlock") /\ UNCHANGED op
    /\ UNCHANGED <<next, prev, mutex>>

(* list_entry_init of the deleted entry, after validator_exit.             *)
InitEntry(t) == LET e == op[t].entry IN
    /\ pc[t] = "init"
    /\ next' = [next EXCEPT ![e] = None] /\ prev' = [prev EXCEPT ![e] = None]
    /\ Goto(t, "unlock")
    /\ UNCHANGED <<mutex, op>> /\ UnchangedValidator

Unlock(t) ==
    /\ pc[t] = "unlock" /\ mutex' = None /\ Return(t)
    /\ UNCHANGED <<next, prev>> /\ UnchangedValidator

-----------------------------------------------------------------------------
(* list_init, validator_init and list_entry_init of every entry.           *)
ListInit ==
    /\ next = [x \in Entries \cup {HeadEntry} |-> IF x = HeadEntry THEN HeadEntry ELSE None]
    /\ prev = next
    /\ mutex = None /\ owner = None
    /\ reported = FALSE /\ overlapped = FALSE
    /\ pc = [t \in Threads |-> "idle"] /\ op = [t \in Threads |-> Idle]

ListStep(t) == \/ Lock(t) \/ Args(t) \/ Enter(t) \/ Link(t) \/ Unlink(t)
               \/ Iterate(t) \/ Exit(t) \/ InitEntry(t) \/ Unlock(t)

(* A crash ends the process, and all its threads with it.                  *)
ListNext == /\ \A t \in Threads : pc[t] # "crashed"
            /\ \/ \E e \in {x \in Entries : EntryOwner[x] \notin Careless} :
                     list_add_head(e) \/ list_add_tail(e) \/ list_del(e)
               \/ \E t \in Threads : list_for_each(t) \/ ListStep(t)

ListSpec == ListInit /\ [][ListNext]_listVars

-----------------------------------------------------------------------------
(* Type invariant; the list is circular, so the head is never NULL-linked. *)
ListLabel == Section \cup {"idle", "lock", "args", "enter", "init", "unlock", "crashed"}
ListTypeOK ==
    /\ next \in [Entries \cup {HeadEntry} -> Pointer] /\ next[HeadEntry] # None
    /\ prev \in [Entries \cup {HeadEntry} -> Pointer] /\ prev[HeadEntry] # None
    /\ {mutex, owner} \subseteq Threads \cup {None}
    /\ reported \in BOOLEAN /\ overlapped \in BOOLEAN
    /\ pc \in [Threads -> ListLabel]
    /\ op \in [Threads -> [kind : {"none", "add_head", "add_tail", "del", "each"},
                           entry : Entries \cup {None}, p : Pointer, n : Pointer, seen : Seq(Entries)]]

(* The entries reached from the head along next, and along prev: one more  *)
(* step than there are entries tells a cycle that misses the head.         *)
Reached(link) ==
    LET at[k \in 0..Cardinality(Entries)] ==
            IF k = 0 THEN link[HeadEntry]
            ELSE IF at[k - 1] \in Entries THEN link[at[k - 1]] ELSE at[k - 1]
    IN  at
Walk(link) ==
    LET at == Reached(link) IN
    [k \in 1..Cardinality({i \in 0..Cardinality(Entries) : at[i] # HeadEntry}) |-> at[k - 1]]

(* While the mutex is free the list reads the same in both directions and  *)
(* holds exactly the entries that are linked.                              *)
BothWays ==
    mutex = None =>
        LET forth == Walk(next) back == Walk(prev) IN
        /\ Len(back) = Len(forth)
        /\ \A k \in 1..Len(forth) : back[k] = forth[Len(forth) + 1 - k]
        /\ \A e \in Entries : (next[e] # None) = (\E k \in 1..Len(forth) : forth[k] = e)

(* Seen along next the list is a sequence at every moment, the ones        *)
(* between two assignments of an insertion or a deletion included.         *)
Sequence == INSTANCE SequenceList WITH contents <- Walk(next)
ImplementsSequence == Sequence!SeqSpec

(* The validator is exact: it has reported an error if and only if two     *)
(* threads have been inside at once, whoever comes and goes afterwards.    *)
ValidatorExact == reported = overlapped

(* An iteration under the mutex visits the whole list; one without it      *)
(* follows a NULL pointer only when the validator has said so.             *)
IterationSound ==
    \A t \in Threads :
        /\ pc[t] = "exit" /\ op[t].kind = "each" /\ t \notin Careless => op[t].seen = Walk(next)
        /\ pc[t] = "crashed" => t \in Careless /\ reported
=============================================================================
