--------------------------- MODULE MessageChannel ---------------------------
(***************************************************************************)
(* What msg_queue.h promises of the messages of each queue: a channel that *)
(* loses, duplicates and reorders nothing.  Messages are numbered as they  *)
(* are sent.                                                               *)
(***************************************************************************)
EXTENDS Naturals, Sequences

CONSTANTS Queues,
          Lengths     \* lengths of the messages that are sent

VARIABLES sent,       \* number of messages sent, per queue
          inflight,   \* messages in the queue, oldest first
          delivered   \* messages handed to readers, oldest first

channelVars == <<sent, inflight, delivered>>

ChannelInit == /\ sent = [q \in Queues |-> 0]
               /\ inflight = [q \in Queues |-> <<>>]
               /\ delivered = [q \in Queues |-> <<>>]

Send(q, n) == /\ sent' = [sent EXCEPT ![q] = @ + 1]
              /\ inflight' = [inflight EXCEPT ![q] = Append(@, [id |-> sent[q] + 1, len |-> n])]
              /\ UNCHANGED delivered

Recv(q) == /\ inflight[q] # <<>>
           /\ delivered' = [delivered EXCEPT ![q] = Append(@, Head(inflight[q]))]
           /\ inflight' = [inflight EXCEPT ![q] = Tail(@)]
           /\ UNCHANGED sent

ChannelNext == \E q \in Queues : Recv(q) \/ \E n \in Lengths : Send(q, n)

ChannelSpec == ChannelInit /\ [][ChannelNext]_channelVars

=============================================================================
