---------------------------- MODULE SequenceList ----------------------------
(***************************************************************************)
(* What list.h promises: a sequence of entries that grows at either end    *)
(* ("Add a new entry at the head", "... at the tail of the list") and from *)
(* which any entry can be deleted.                                         *)
(***************************************************************************)
EXTENDS Integers, Sequences

CONSTANT Entries
VARIABLE contents  \* the linked entries, first one first

Present == {contents[k] : k \in DOMAIN contents}

AddHead(e) == e \notin Present /\ contents' = <<e>> \o contents
AddTail(e) == e \notin Present /\ contents' = Append(contents, e)
Delete(e) == \E k \in DOMAIN contents :
                 /\ contents[k] = e
                 /\ contents' = SubSeq(contents, 1, k - 1) \o SubSeq(contents, k + 1, Len(contents))

SeqInit == contents = <<>>
SeqNext == \E e \in Entries : AddHead(e) \/ AddTail(e) \/ Delete(e)
SeqSpec == SeqInit /\ [][SeqNext]_contents
=============================================================================
