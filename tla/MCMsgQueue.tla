----------------------------- MODULE MCMsgQueue -----------------------------
(***************************************************************************)
(* Small instances of MsgQueue: three threads with one queue variable each,*)
(* and the calls (menus) each configuration lets them make.                *)
(***************************************************************************)
EXTENDS MsgQueueDoc, TLC

CONSTANTS t1, t2, t3,      \* threads
          q1,              \* the queue
          s1, s2, s3       \* their variables

Owner == (s1 :> t1) @@ (s2 :> t2) @@ (s3 :> t3)

Create(cap, flags) == [slot |-> s1, queue |-> q1, capacity |-> cap, flags |-> flags]
OpenAs(dst, flags) == [slot |-> s1, dst |-> dst, flags |-> flags]
Xfer(s, n) == [slot |-> s, len |-> n]

(* t1 creates the queue and either writes, with t2 and t3 reading, or      *)
(* reads, with t2 and t3 writing, t3 without blocking.  t3 may also hold a *)
(* handle that neither reads nor writes.  Every error return is on the     *)
(* menu, except for the EAGAIN of a read (see MCMsgQueuePoll).             *)
Creates == {Create(4, {"WRITER"}), Create(4, {"READER"}), Create(1, {}), Create(4, {"INVALID"})}
Opens == {OpenAs(s2, {"READER"}), OpenAs(s2, {"WRITER"}), OpenAs(s3, {"READER"}), OpenAs(s3, {}),
          OpenAs(s3, {"WRITER", "NONBLOCK"}), OpenAs(s3, {"INVALID"})}
Reads == {Xfer(s1, 2), Xfer(s2, 2), Xfer(s3, 2)}
Writes == {Xfer(s1, 1), Xfer(s1, 2), Xfer(s1, 0), Xfer(s1, 3), Xfer(s2, 2), Xfer(s3, 2)}
All == {s1, s2, s3}

(* A reader, and writers of which one does not block.                      *)
ReaderCreate == {Create(4, {"READER"})}
WriterOpens == {OpenAs(s2, {"WRITER"}), OpenAs(s3, {"WRITER", "NONBLOCK"})}
BodyReads == {Xfer(s1, 2)}
BodyWrites == {Xfer(s2, 2), Xfer(s3, 2)}

(* In these runs every caller keeps its part of the bargain.               *)
ASSUME CallersKeepTheirPart == ReadersHaveRoom /\ LengthsDontWrap

(* What fresh memory can hold as events: nothing, in runs without polls.   *)
NoEvents == {{}}
=============================================================================
