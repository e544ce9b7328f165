---------------------------- MODULE DirectoryTree ---------------------------
(***************************************************************************)
(* What a1fs.c promises of the name space, in the comments of its          *)
(* callbacks: once mkfs has made it, a tree of directories and files that  *)
(* a call changes in the path it names and nowhere else.  Nothing is       *)
(* promised once the image is damaged, in one of two ways that the phase   *)
(* tells apart; neither is left again.                                     *)
(***************************************************************************)
EXTENDS Naturals, Sequences

CONSTANTS Paths   \* the paths below the root, as sequences of names

VARIABLES
    tree,  \* for each path: {"dir"}, {"file"}, or {} if there is nothing
    phase  \* "blank" until the image is formatted, then "ready";
           \* "overwritten" once data of a file lies over a directory's entries;
           \* "lost" once a call has used bytes or addresses that are not its own

treeVars == <<tree, phase>>

EmptyTree == [p \in Paths |-> {}]
IsDirectory(t, p) == p = <<>> \/ t[p] = {"dir"}
Above(p) == SubSeq(p, 1, Len(p) - 1)
Below(p) == {q \in Paths : Len(q) > Len(p) /\ SubSeq(q, 1, Len(p)) = p}

(* A new entry appears in a directory.                                     *)
Added(old, new, p) == old[p] = {} /\ new[p] # {} /\ IsDirectory(old, Above(p))

(* A file, or a directory with nothing below it, goes.                     *)
Removed(old, new, p) == old[p] # {} /\ new[p] = {} /\ \A q \in Below(p) : old[q] = {}

(* One path comes or goes, and no other changes.                           *)
OnePath(old, new) ==
    \E p \in Paths : /\ Added(old, new, p) \/ Removed(old, new, p)
                     /\ \A q \in Paths \ {p} : new[q] = old[q]

TreeInit == tree = EmptyTree /\ phase = "blank"

Format == phase = "blank" /\ phase' = "ready" /\ tree' = EmptyTree

ChangeOnePath ==
    /\ phase = "ready" /\ UNCHANGED phase
    /\ \E old \in {tree}, new \in {tree'} : OnePath(old, new)

Overwrite == phase = "ready" /\ phase' = "overwritten" /\ tree' = EmptyTree

Lose == phase \in {"blank", "ready"} /\ phase' = "lost" /\ tree' = EmptyTree

TreeNext == Format \/ ChangeOnePath \/ Overwrite \/ Lose

TreeSpec == TreeInit /\ [][TreeNext]_treeVars
=============================================================================
