--------------------------- MODULE MCMsgQueuePoll ---------------------------
(***************************************************************************)
(* Small instances of MsgQueuePoll: t1 reads and polls, t2 writes and may  *)
(* poll, t3 reads without blocking (with blocking in the liveness run).    *)
(***************************************************************************)
EXTENDS MsgQueuePollDoc, TLC

CONSTANTS t1, t2, t3, q1, s1, s2, s3

Owner == (s1 :> t1) @@ (s2 :> t2) @@ (s3 :> t3)

OpenAs(dst, flags) == [slot |-> s1, dst |-> dst, flags |-> flags]
Xfer(s, n) == [slot |-> s, len |-> n]
Fd(s, events) == [slot |-> s, events |-> events]
Null == Fd(None, {"READABLE"})
PollBy(t, fds) == [t |-> t, fds |-> fds]

Creates == {[slot |-> s1, queue |-> q1, capacity |-> 4, flags |-> {"READER"}]}
Opens == {OpenAs(s2, {"WRITER"}), OpenAs(s3, {"READER", "NONBLOCK"})}
LiveOpens == {OpenAs(s2, {"WRITER"}), OpenAs(s3, {"READER"})}
Reads == {Xfer(s1, 2), Xfer(s3, 2)}
Writes == {Xfer(s2, 2)}
WriterOnly == {s2}

(* Polls of one entry and every poll that is refused; polls with a second  *)
(* entry, after a null one or for the same queue.                          *)
Readable == PollBy(t1, <<Fd(s1, {"READABLE"})>>)
PollMenu == {Readable, PollBy(t2, <<Fd(s2, {"WRITABLE"})>>), PollBy(t1, <<>>), PollBy(t1, <<Null>>),
          PollBy(t1, <<Fd(s1, {})>>), PollBy(t1, <<Fd(s1, {"WRITABLE"})>>),
          PollBy(t1, <<Null, Fd(s1, {"READABLE"})>>),
          PollBy(t1, <<Fd(s1, {"READABLE"}), Fd(s1, {"NOWRITERS"})>>)}
ReadablePolls == {Readable}
TwicePolls == {PollBy(t1, <<Fd(s1, {"READABLE"}), Fd(s1, {"NOWRITERS"})>>)}

(* These calls keep what the theorems of MsgQueuePollProofs ask of callers.*)
ASSUME PollCallersKeepTheirPart == ReadersHaveRoom /\ LengthsDontWrap /\ WritersBlock

NoEvents == {{}}
SomeEvents == {{}, Event}
=============================================================================
