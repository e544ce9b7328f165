------------------------------- MODULE MCA1fs -------------------------------
(* Directories of five entries.  In the passing run files are created in   *)
(* the root and below and removed from the root.                           *)
EXTENDS A1fsFiles

InRoot == {<<n>> : n \in Names}
InDirectory == {<<"a", "b">>}
Mkdirs == {<<"a">>, <<"b">>, <<"a", "a">>, <<"a", "b">>}
Creates == {<<"b">>} \cup InDirectory

(* A write behind a gap in the root, and one below.                        *)
Writes == {[path |-> <<"b">>, offset |-> 2, data |-> <<"x">>],
           [path |-> <<"a", "b">>, offset |-> 0, data |-> <<"x">>]}

(* A file written a unit at a time, and a file below that is truncated.    *)
Appends == {[path |-> <<"b">>, offset |-> n, data |-> <<"x">>] : n \in 0 .. 1}
Truncates == {[path |-> <<"a", "b">>, size |-> n] : n \in {0, 1, 6}}

(* With removals in the root only the instance is one of those about which *)
(* the theorems of A1fsProofs speak.                                       *)
ASSUME InsideLimits == UnlinkPaths \subseteq InRoot => CallsWithinLimits /\ FewPaths
=============================================================================
