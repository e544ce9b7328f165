-------------------------- MODULE LinkedListProofs --------------------------
(***************************************************************************)
(* The linked list of list.h and the mutex validator of                    *)
(* mutex_validator.c, for any threads and entries.                         *)
(*                                                                         *)
(* The validator reports an error if and only if two threads have been     *)
(* inside the list at once.  ValidatorExact alone is not inductive: it     *)
(* needs to know that before the first overlap the owner field names       *)
(* exactly the one thread that is inside.                                  *)
(*                                                                         *)
(* The pointers hold a sequence.  Between two assignments of an insertion  *)
(* or a deletion next and prev disagree, so the invariant names the        *)
(* sequence and the pointers that hold it, and says of the thread with the *)
(* mutex which of its assignments it has made (PointerInv).                *)
(***************************************************************************)
EXTENDS LinkedList, WellFoundedInduction, FiniteSetTheorems, TLAPS

(* A thread that has entered and not left; a crashed one never leaves.     *)
Inside(t) == pc[t] \in Section \cup {"crashed"}

(* Until two threads overlap, the owner is the thread inside, if any.      *)
OwnerInside == ~overlapped => \A t \in Threads : Inside(t) <=> owner = t

ValidatorInv ==
    /\ pc \in [Threads -> ListLabel]
    /\ owner \in Threads \cup {None}
    /\ reported \in BOOLEAN /\ overlapped \in BOOLEAN
    /\ OwnerInside
    /\ ValidatorExact

(* Initially nobody is inside and nothing is reported.                     *)
LEMMA ValidatorInit == ListInit => ValidatorInv
  BY ListAssumption DEF ListInit, ValidatorInv, OwnerInside, Inside, ValidatorExact,
                        ListLabel, Section

(* A step of t that leaves the validator alone and keeps t on its side of  *)
(* enter and exit keeps the invariant.                                     *)
LEMMA SameSide ==
  ASSUME ValidatorInv, NEW t \in Threads, NEW l \in ListLabel,
         pc' = [pc EXCEPT ![t] = l], UnchangedValidator,
         Inside(t) <=> l \in Section \cup {"crashed"}
  PROVE  ValidatorInv'
  <1>1. pc' \in [Threads -> ListLabel]
    BY DEF ValidatorInv
  <1>2. \A u \in Threads : Inside(u)' <=> Inside(u)
    BY DEF Inside, ValidatorInv
  <1> QED
    BY <1>1, <1>2 DEF ValidatorInv, OwnerInside, ValidatorExact, UnchangedValidator

(* The first thread to overlap another finds an owner and reports it.      *)
LEMMA EnterPreserves ==
  ASSUME ValidatorInv, NEW t \in Threads, Enter(t), \A u \in Threads : pc[u] # "crashed"
  PROVE  ValidatorInv'
  <1>1. PICK l \in {"unlink1", "first", "link1"} : pc' = [pc EXCEPT ![t] = l]
    BY DEF Enter, Goto
  <1>2. ~Inside(t)
    BY DEF Enter, Inside, Section
  <1>3. \A u \in Threads : Inside(u) <=> pc[u] \in Section
    BY DEF Inside
  <1>4. pc' \in [Threads -> ListLabel] /\ owner' \in Threads \cup {None}
        /\ reported' \in BOOLEAN /\ overlapped' \in BOOLEAN
    BY <1>1 DEF ValidatorInv, Enter, validator_enter, ListLabel, Section
  <1>5. \A u \in Threads : Inside(u)' <=> (u = t \/ Inside(u))
    BY <1>1 DEF Inside, Section, ValidatorInv
  <1>6. CASE overlapped
    BY <1>4, <1>6 DEF ValidatorInv, OwnerInside, ValidatorExact, Enter, validator_enter
  <1>7. CASE ~overlapped /\ owner = None
    <2>1. \A u \in Threads : ~Inside(u)
      BY <1>7, ListAssumption DEF ValidatorInv, OwnerInside
    <2>2. ~overlapped' /\ ~reported' /\ owner' = t
      BY <1>3, <1>7, <2>1 DEF ValidatorInv, ValidatorExact, Enter, validator_enter
    <2> QED
      BY <1>4, <1>5, <2>1, <2>2 DEF ValidatorInv, OwnerInside, ValidatorExact
  <1>8. CASE ~overlapped /\ owner # None
    <2>1. owner \in Threads /\ Inside(owner) /\ owner # t
      BY <1>2, <1>8 DEF ValidatorInv, OwnerInside
    <2>2. overlapped' /\ reported'
      BY <1>3, <1>8, <2>1 DEF Enter, validator_enter
    <2> QED
      BY <1>4, <2>2 DEF ValidatorInv, OwnerInside, ValidatorExact
  <1> QED
    BY <1>6, <1>7, <1>8 DEF ValidatorInv

(* A thread that leaves alone finds itself the owner.                      *)
LEMMA ExitPreserves ==
  ASSUME ValidatorInv, NEW t \in Threads, Exit(t)
  PROVE  ValidatorInv'
  <1>1. PICK l \in {"idle", "init", "unlock"} : pc' = [pc EXCEPT ![t] = l]
    BY DEF Exit, Return, Goto
  <1>2. Inside(t)
    BY DEF Exit, Inside, Section
  <1>3. pc' \in [Threads -> ListLabel] /\ owner' \in Threads \cup {None}
        /\ reported' \in BOOLEAN /\ overlapped' = overlapped
    BY <1>1 DEF ValidatorInv, Exit, validator_exit, ListLabel
  <1>4. \A u \in Threads : Inside(u)' <=> (u # t /\ Inside(u))
    BY <1>1 DEF Inside, Section, ValidatorInv
  <1>5. CASE overlapped
    BY <1>3, <1>5 DEF ValidatorInv, OwnerInside, ValidatorExact, Exit, validator_exit
  <1>6. CASE ~overlapped
    <2>1. owner = t /\ owner' = None /\ reported' = reported
      BY <1>2, <1>6 DEF ValidatorInv, OwnerInside, Exit, validator_exit
    <2>2. \A u \in Threads : ~Inside(u)'
      BY <1>4, <1>6, <2>1 DEF ValidatorInv, OwnerInside
    <2> QED
      BY <1>3, <2>1, <2>2, ListAssumption DEF ValidatorInv, OwnerInside, ValidatorExact
  <1> QED
    BY <1>5, <1>6 DEF ValidatorInv

(* Every step keeps the invariant.                                         *)
LEMMA ValidatorStep == ValidatorInv /\ [ListNext]_listVars => ValidatorInv'
  <1> SUFFICES ASSUME ValidatorInv, [ListNext]_listVars PROVE ValidatorInv'
    OBVIOUS
  <1>1. CASE UNCHANGED listVars
    BY <1>1 DEF listVars, ValidatorInv, OwnerInside, Inside, ValidatorExact
  <1>2. ASSUME NEW t \in Threads, NEW kind, NEW e, Begin(t, kind, e)
        PROVE  ValidatorInv'
    <2>1. PICK l \in {"enter", "lock"} : pc' = [pc EXCEPT ![t] = l]
      BY <1>2 DEF Begin, Goto
    <2> QED
      BY <1>2, <2>1, SameSide DEF Begin, Inside, Section, ListLabel
  <1>3. ASSUME NEW t \in Threads, Lock(t) PROVE ValidatorInv'
    <2>1. PICK l \in {"args", "enter"} : pc' = [pc EXCEPT ![t] = l]
      BY <1>3 DEF Lock, Goto
    <2> QED
      BY <1>3, <2>1, SameSide DEF Lock, Inside, Section, ListLabel
  <1>4. ASSUME NEW t \in Threads, Args(t) PROVE ValidatorInv'
    BY <1>4, SameSide DEF Args, Goto, Inside, Section, ListLabel
  <1>5. ASSUME NEW t \in Threads, Link(t) PROVE ValidatorInv'
    <2>1. PICK l \in {"link2", "link3", "link4", "exit"} : pc' = [pc EXCEPT ![t] = l]
      BY <1>5 DEF Link, Goto
    <2>2. Inside(t) /\ UnchangedValidator
      BY <1>5 DEF Link, Inside, Section
    <2> QED
      BY <2>1, <2>2, SameSide DEF Section, ListLabel
  <1>6. ASSUME NEW t \in Threads, Unlink(t) PROVE ValidatorInv'
    <2>1. PICK l \in {"unlink2", "exit"} : pc' = [pc EXCEPT ![t] = l]
      BY <1>6 DEF Unlink, Goto
    <2>2. Inside(t) /\ UnchangedValidator
      BY <1>6 DEF Unlink, Inside, Section
    <2> QED
      BY <2>1, <2>2, SameSide DEF Section, ListLabel
  <1>7. ASSUME NEW t \in Threads, Iterate(t) PROVE ValidatorInv'
    <2>1. PICK l \in {"each", "exit", "crashed"} : pc' = [pc EXCEPT ![t] = l]
      BY <1>7 DEF Iterate, Goto, ValidatorInv
    <2>2. Inside(t) /\ UnchangedValidator
      BY <1>7 DEF Iterate, Inside, Section
    <2> QED
      BY <2>1, <2>2, SameSide DEF Section, ListLabel
  <1>8. ASSUME NEW t \in Threads, InitEntry(t) PROVE ValidatorInv'
    BY <1>8, SameSide DEF InitEntry, Goto, Inside, Section, ListLabel
  <1>9. ASSUME NEW t \in Threads, Unlock(t) PROVE ValidatorInv'
    BY <1>9, SameSide DEF Unlock, Return, Goto, Inside, Section, ListLabel
  <1>10. ASSUME NEW e \in Entries, list_add_head(e) \/ list_add_tail(e) \/ list_del(e)
         PROVE  ValidatorInv'
    BY <1>2, <1>10, ListAssumption DEF list_add_head, list_add_tail, list_del
  <1>11. ASSUME NEW t \in Threads, list_for_each(t) \/ ListStep(t),
                \A u \in Threads : pc[u] # "crashed"
         PROVE  ValidatorInv'
    BY <1>2, <1>3, <1>4, <1>5, <1>6, <1>7, <1>8, <1>9, <1>11, EnterPreserves, ExitPreserves
       DEF list_for_each, ListStep
  <1> QED
    BY <1>1, <1>10, <1>11 DEF ListNext

(* ValidatorExact holds in every execution, for any number of threads and  *)
(* entries, with careless users and without: validator_enter and           *)
(* validator_exit (mutex_validator.c) report an overlap at the latest when *)
(* the second thread enters, and never report a list used by one thread    *)
(* at a time.                                                              *)
THEOREM ValidatorCorrect == ListSpec => []ValidatorExact
  <1>1. ListInit => ValidatorInv
    BY ValidatorInit
  <1>2. ValidatorInv /\ [ListNext]_listVars => ValidatorInv'
    BY ValidatorStep
  <1>3. ValidatorInv => ValidatorExact
    BY DEF ValidatorInv
  <1> QED
    BY <1>1, <1>2, <1>3, PTL DEF ListSpec

-----------------------------------------------------------------------------
(* Induction over the naturals, in the form the provers can use: a         *)
(* non-empty set of them has a least element.                              *)
LEMMA NatOrdered == IsWellFoundedOn({ss \in Nat \X Nat : ss[1] < ss[2]}, Nat)
  BY Zenon, NatLessThanWellFounded DEF OpToRel

LEMMA LeastNatural ==
  ASSUME NEW S \in SUBSET Nat, S # {}
  PROVE  \E m \in S : \A k \in S : m <= k
  <1> DEFINE R == {ss \in Nat \X Nat : ss[1] < ss[2]}
  <1>1. \A k, m \in Nat : <<k, m>> \in R <=> k < m
    OBVIOUS
  <1>2. IsWellFoundedOn(R, Nat)
    BY NatOrdered
  <1> HIDE DEF R
  <1>3. PICK m \in S : \A k \in S : ~(<<k, m>> \in R)
    BY <1>2, WFMin
  <1>4. \A k \in S : ~(k < m)
    BY <1>1, <1>3
  <1>5. \A k \in S : m <= k
    BY <1>4
  <1> QED BY <1>5

(* The list as a sequence: its entries are distinct, and with the head on  *)
(* either side of them each is linked to the one that follows.             *)
Nodes == Entries \cup {HeadEntry}
At(s, i) == IF i \in 1..Len(s) THEN s[i] ELSE HeadEntry
Distinct(s) == s \in Seq(Entries) /\ \A i, j \in 1..Len(s) : s[i] = s[j] => i = j
Chain(s, link) == \A i \in 0..Len(s) : link[At(s, i)] = At(s, i + 1)

(* A list is no longer than there are entries.                             *)
LEMMA ListFits ==
  ASSUME NEW s, Distinct(s)
  PROVE  Cardinality(Entries) \in Nat /\ Len(s) \in Nat /\ Len(s) <= Cardinality(Entries)
  <1>1. Len(s) \in Nat /\ s \in [1..Len(s) -> Entries]
    BY DEF Distinct
  <1>2. s \in Injection(1..Len(s), Entries)
    BY <1>1 DEF Distinct, Injection, IsInjective
  <1>3. Cardinality(1..Len(s)) <= Cardinality(Entries)
    BY <1>2, FS_Injection, ListAssumption
  <1>4. Cardinality(1..Len(s)) = IF 1 > Len(s) THEN 0 ELSE Len(s) - 1 + 1
    BY <1>1, FS_Interval
  <1>5. Cardinality(Entries) \in Nat
    BY FS_CardinalityType, ListAssumption
  <1> QED BY <1>1, <1>3, <1>4, <1>5

(* One more step along link.                                               *)
Onward(link, at, k) ==
    IF k = 0 THEN link[HeadEntry]
    ELSE IF at[k - 1] \in Entries THEN link[at[k - 1]] ELSE at[k - 1]

(* Reached satisfies its recursive definition if any function does.        *)
LEMMA ReachedDef ==
  ASSUME NEW link, NEW g, g = [k \in 0..Cardinality(Entries) |-> Onward(link, g, k)]
  PROVE  Reached(link) = [k \in 0..Cardinality(Entries) |-> Onward(link, Reached(link), k)]
  BY Zenon DEF Reached, Onward

(* The steps from the head along a chain are its entries, one by one, and  *)
(* then the head.                                                          *)
LEMMA ReachedIs ==
  ASSUME NEW s, NEW link, Distinct(s), Chain(s, link)
  PROVE  \A k \in 0..Cardinality(Entries) : Reached(link)[k] = At(s, k + 1)
  <1> DEFINE C == Cardinality(Entries)
             g == [k \in 0..C |-> At(s, k + 1)]
             r == Reached(link)
             Wrong == {k \in 0..C : r[k] # g[k]}
  <1>1. C \in Nat /\ Len(s) \in Nat /\ s \in Seq(Entries)
    BY ListFits DEF Distinct
  <1>2. ASSUME NEW k \in 0..C PROVE g[k] = Onward(link, g, k)
    <2>1. CASE k = 0
      <3>1. link[At(s, 0)] = At(s, 0 + 1)
        BY <1>1 DEF Chain
      <3>2. At(s, 0) = HeadEntry
        BY <1>1 DEF At
      <3> QED BY <2>1, <3>1, <3>2, <1>1 DEF Onward
    <2>2. CASE k # 0
      <3>1. k - 1 \in 0..C /\ g[k - 1] = At(s, k) /\ g[k] = At(s, k + 1)
        BY <1>1, <2>2
      <3>2. CASE k <= Len(s)
        <4>1. At(s, k) \in Entries
          BY <1>1, <2>2, <3>2 DEF At
        <4>2. link[At(s, k)] = At(s, k + 1)
          BY <1>1, <2>2, <3>2 DEF Chain
        <4> QED BY <2>2, <3>1, <4>1, <4>2 DEF Onward
      <3>3. CASE k > Len(s)
        <4>1. At(s, k) = HeadEntry /\ At(s, k + 1) = HeadEntry
          BY <1>1, <2>2, <3>3 DEF At
        <4> QED BY <2>2, <3>1, <4>1, ListAssumption DEF Onward
      <3> QED BY <1>1, <3>2, <3>3
    <2> QED BY <2>1, <2>2
  <1>3. g = [k \in 0..C |-> Onward(link, g, k)]
    BY <1>2
  <1>4. r = [k \in 0..C |-> Onward(link, r, k)]
    BY <1>3, ReachedDef
  <1> HIDE DEF g, r
  <1>5. ASSUME Wrong # {} PROVE FALSE
    <2>1. Wrong \in SUBSET Nat
      BY <1>1
    <2>2. PICK m \in Wrong : \A k \in Wrong : m <= k
      BY <1>5, <2>1, LeastNatural
    <2>3. m \in 0..C /\ r[m] = Onward(link, r, m) /\ g[m] = Onward(link, g, m) /\ r[m] # g[m]
      BY <1>2, <1>4, <2>2
    <2>4. m # 0
      BY <2>3 DEF Onward
    <2>5. m - 1 \in 0..C /\ ~(m <= m - 1)
      BY <1>1, <2>3, <2>4
    <2>6. r[m - 1] = g[m - 1]
      BY <2>2, <2>5
    <2> QED BY <2>3, <2>4, <2>6 DEF Onward
  <1> QED BY <1>5 DEF g, r

(* The walk along a chain is the sequence.                                 *)
LEMMA WalkIs ==
  ASSUME NEW s, NEW link, Distinct(s), Chain(s, link)
  PROVE  Walk(link) = s
  <1> DEFINE C == Cardinality(Entries)
             r == Reached(link)
             inner == {i \in 0..C : r[i] # HeadEntry}
  <1>1. C \in Nat /\ Len(s) \in Nat /\ Len(s) <= C /\ s \in Seq(Entries)
    BY ListFits DEF Distinct
  <1>2. \A k \in 0..C : r[k] = At(s, k + 1)
    BY ReachedIs
  <1>3. \A k \in 0..C : At(s, k + 1) # HeadEntry <=> k + 1 <= Len(s)
    BY <1>1, ListAssumption DEF At
  <1> HIDE DEF r, C
  <1>4. \A i : i \in inner <=> i \in 0..(Len(s) - 1)
    BY <1>1, <1>2, <1>3
  <1>5. inner = 0..(Len(s) - 1)
    BY <1>4
  <1>6. Cardinality(inner) = Len(s)
    <2>1. PICK n \in Int : n = Len(s) - 1
      BY <1>1
    <2>2. Cardinality(0..n) = IF 0 > n THEN 0 ELSE n - 0 + 1
      BY FS_Interval
    <2>3. Cardinality(0..n) = Len(s)
      BY <1>1, <2>1, <2>2
    <2> QED BY <1>5, <2>1, <2>3
  <1>7. Walk(link) = [k \in 1..Cardinality(inner) |-> r[k - 1]]
    BY DEF Walk, r, C
  <1>8. \A k \in 1..Len(s) : r[k - 1] = s[k]
    <2> TAKE k \in 1..Len(s)
    <2>1. k - 1 \in 0..C /\ (k - 1) + 1 = k
      BY <1>1
    <2> QED BY <1>2, <2>1 DEF At
  <1>9. s = [k \in 1..Len(s) |-> s[k]]
    BY <1>1
  <1> QED BY <1>6, <1>7, <1>8, <1>9

-----------------------------------------------------------------------------
(* The pointers f and g of next and prev hold the sequence s: chained in   *)
(* both directions, and NULL in the entries that are not in it.            *)
Member(s, e) == \E i \in 1..Len(s) : s[i] = e
BackChain(s, link) == \A i \in 0..Len(s) : link[At(s, i + 1)] = At(s, i)
Holds(s, f, g) ==
    /\ Distinct(s)
    /\ f \in [Nodes -> Pointer] /\ g \in [Nodes -> Pointer]
    /\ Chain(s, f) /\ BackChain(s, g)
    /\ \A e \in Entries : ~Member(s, e) => f[e] = None /\ g[e] = None

(* The places of a list.                                                   *)
LEMMA AtFacts ==
  ASSUME NEW s, Distinct(s)
  PROVE  /\ Len(s) \in Nat /\ s \in Seq(Entries)
         /\ At(s, 0) = HeadEntry /\ At(s, Len(s) + 1) = HeadEntry
         /\ \A i \in 0..(Len(s) + 1) : At(s, i) \in Nodes /\ At(s, i) # None
         /\ \A i \in 1..Len(s) : At(s, i) = s[i] /\ At(s, i) \in Entries /\ At(s, i) # HeadEntry
         /\ \A i, j \in 0..Len(s) : At(s, i) = At(s, j) => i = j
         /\ \A i, j \in 1..(Len(s) + 1) : At(s, i) = At(s, j) => i = j
  <1>1. Len(s) \in Nat /\ s \in Seq(Entries)
    BY DEF Distinct
  <1>2. \A i \in 1..Len(s) : At(s, i) = s[i] /\ At(s, i) \in Entries /\ At(s, i) # HeadEntry
    BY <1>1, ListAssumption DEF At
  <1>3. At(s, 0) = HeadEntry /\ At(s, Len(s) + 1) = HeadEntry
    BY <1>1 DEF At
  <1>4. \A i \in 0..(Len(s) + 1) : i = 0 \/ i = Len(s) + 1 \/ i \in 1..Len(s)
    BY <1>1
  <1>5. \A i \in 0..(Len(s) + 1) : At(s, i) \in Nodes /\ At(s, i) # None
    BY <1>2, <1>3, <1>4, ListAssumption DEF Nodes
  <1>6. ASSUME NEW i \in 0..Len(s), NEW j \in 0..Len(s), At(s, i) = At(s, j) PROVE i = j
    <2>1. (i = 0 \/ i \in 1..Len(s)) /\ (j = 0 \/ j \in 1..Len(s))
      BY <1>1
    <2> QED BY <1>2, <1>3, <1>6, <2>1 DEF Distinct
  <1>7. ASSUME NEW i \in 1..(Len(s) + 1), NEW j \in 1..(Len(s) + 1), At(s, i) = At(s, j) PROVE i = j
    <2>1. (i = Len(s) + 1 \/ i \in 1..Len(s)) /\ (j = Len(s) + 1 \/ j \in 1..Len(s))
      BY <1>1
    <2> QED BY <1>2, <1>3, <1>7, <2>1 DEF Distinct
  <1> QED BY <1>1, <1>2, <1>3, <1>5, <1>6, <1>7

(* What a held list looks like from its pointers.                          *)
LEMMA HeldPointers ==
  ASSUME NEW s, NEW f, NEW g, Holds(s, f, g)
  PROVE  /\ f[HeadEntry] = At(s, 1) /\ g[HeadEntry] = At(s, Len(s))
         /\ f[HeadEntry] \in Nodes /\ g[HeadEntry] \in Nodes
         /\ \A e \in Entries : f[e] # None <=> Member(s, e)
         /\ \A k \in 1..Len(s) : f[s[k]] = At(s, k + 1) /\ g[s[k]] = At(s, k - 1)
         /\ \A k \in 1..Len(s) : f[s[k]] \in Nodes /\ g[s[k]] \in Nodes
  <1>0. /\ Len(s) \in Nat /\ s \in Seq(Entries)
        /\ At(s, 0) = HeadEntry /\ At(s, Len(s) + 1) = HeadEntry
        /\ \A i \in 0..(Len(s) + 1) : At(s, i) \in Nodes /\ At(s, i) # None
        /\ \A i \in 1..Len(s) : At(s, i) = s[i] /\ At(s, i) \in Entries /\ At(s, i) # HeadEntry
    BY AtFacts DEF Holds
  <1>1. f[At(s, 0)] = At(s, 0 + 1) /\ g[At(s, Len(s) + 1)] = At(s, Len(s))
    BY <1>0 DEF Holds, Chain, BackChain
  <1>2. ASSUME NEW k \in 1..Len(s)
        PROVE  f[s[k]] = At(s, k + 1) /\ g[s[k]] = At(s, k - 1) /\ f[s[k]] \in Nodes /\ g[s[k]] \in Nodes /\ f[s[k]] # None
    <2>1. f[At(s, k)] = At(s, k + 1)
      BY <1>0 DEF Holds, Chain
    <2>2. k - 1 \in 0..Len(s) /\ (k - 1) + 1 = k
      BY <1>0
    <2>3. g[At(s, k)] = At(s, k - 1)
      BY <2>2 DEF Holds, BackChain
    <2>4. k + 1 \in 0..(Len(s) + 1) /\ k - 1 \in 0..(Len(s) + 1)
      BY <1>0
    <2> QED BY <1>0, <2>1, <2>3, <2>4
  <1>3. \A e \in Entries : f[e] # None <=> Member(s, e)
    BY <1>2 DEF Holds, Member
  <1>4. 1 \in 0..(Len(s) + 1) /\ Len(s) \in 0..(Len(s) + 1)
    BY <1>0
  <1> QED BY <1>0, <1>1, <1>2, <1>3, <1>4

(* The insertion of list_add_head.                                         *)
LEMMA InsertedHead ==
  ASSUME NEW s, NEW f, NEW g, Holds(s, f, g), NEW e \in Entries, ~Member(s, e)
  PROVE  Holds(<<e>> \o s, [f EXCEPT ![e] = f[HeadEntry], ![HeadEntry] = e],
                           [g EXCEPT ![f[HeadEntry]] = e, ![e] = HeadEntry])
  <1> DEFINE z == <<e>> \o s
             ff == [f EXCEPT ![e] = f[HeadEntry], ![HeadEntry] = e]
             gg == [g EXCEPT ![f[HeadEntry]] = e, ![e] = HeadEntry]
  <1>0. /\ Len(s) \in Nat /\ s \in Seq(Entries)
        /\ At(s, 0) = HeadEntry /\ At(s, Len(s) + 1) = HeadEntry
        /\ \A i \in 0..(Len(s) + 1) : At(s, i) \in Nodes /\ At(s, i) # None
        /\ \A i \in 1..Len(s) : At(s, i) = s[i] /\ At(s, i) \in Entries /\ At(s, i) # HeadEntry
        /\ \A i, j \in 1..(Len(s) + 1) : At(s, i) = At(s, j) => i = j
    BY AtFacts DEF Holds
  <1>1. f[HeadEntry] = At(s, 1) /\ f[HeadEntry] \in Nodes
    BY HeldPointers
  <1>2. /\ f \in [Nodes -> Pointer] /\ g \in [Nodes -> Pointer] /\ e \in Nodes /\ HeadEntry \in Nodes
        /\ e # HeadEntry /\ Nodes \subseteq Pointer
    BY ListAssumption DEF Holds, Nodes, Pointer
  <1>3. \A i \in 0..(Len(s) + 1) : At(s, i) # e
    BY <1>0, <1>2 DEF Member, At
  <1>4. /\ z \in Seq(Entries) /\ Len(z) = Len(s) + 1
        /\ z[1] = e /\ \A i \in 1..Len(s) : z[i + 1] = s[i]
    BY <1>0
  <1> HIDE DEF z
  <1>5. /\ At(z, 0) = HeadEntry /\ At(z, 1) = e
        /\ \A i \in 1..(Len(s) + 1) : At(z, i + 1) = At(s, i)
    BY <1>0, <1>4 DEF At
  <1>6. /\ ff \in [Nodes -> Pointer] /\ ff[HeadEntry] = e /\ ff[e] = f[HeadEntry]
        /\ \A x \in Nodes : x # e /\ x # HeadEntry => ff[x] = f[x]
    BY <1>1, <1>2
  <1>7. /\ gg \in [Nodes -> Pointer] /\ gg[e] = HeadEntry
        /\ f[HeadEntry] # e => gg[f[HeadEntry]] = e
        /\ \A x \in Nodes : x # e /\ x # f[HeadEntry] => gg[x] = g[x]
    BY <1>1, <1>2
  <1> HIDE DEF ff, gg
  <1>8. Distinct(z)
    <2>1. ASSUME NEW i \in 1..Len(z), NEW j \in 1..Len(z), z[i] = z[j] PROVE i = j
      <3>1. (i = 1 \/ i - 1 \in 1..Len(s)) /\ (j = 1 \/ j - 1 \in 1..Len(s))
        BY <1>0, <1>4
      <3>2. i # 1 => z[i] = s[i - 1]
        BY <1>0, <1>4, <3>1
      <3>3. j # 1 => z[j] = s[j - 1]
        BY <1>0, <1>4, <3>1
      <3>4. \A k \in 1..Len(s) : s[k] # e
        BY DEF Member
      <3>5. i # 1 /\ j # 1 => i - 1 = j - 1
        BY <2>1, <3>1, <3>2, <3>3 DEF Holds, Distinct
      <3> QED BY <1>0, <1>4, <2>1, <3>1, <3>2, <3>3, <3>4, <3>5
    <2> QED BY <1>4, <2>1 DEF Distinct
  <1>9. ASSUME NEW i \in 0..Len(z) PROVE ff[At(z, i)] = At(z, i + 1) /\ gg[At(z, i + 1)] = At(z, i)
    <2>1. CASE i = 0
      BY <1>5, <1>6, <1>7, <2>1
    <2>2. CASE i = 1
      <3>1. At(z, 2) = At(s, 1) /\ At(s, 1) # e
        BY <1>0, <1>3, <1>5
      <3> QED BY <1>1, <1>5, <1>6, <1>7, <2>2, <3>1
    <2>3. CASE i # 0 /\ i # 1
      <3>1. i - 1 \in 1..Len(s) /\ i \in 1..(Len(s) + 1) /\ (i - 1) + 1 = i /\ i - 1 \in 1..(Len(s) + 1)
            /\ 1 \in 1..(Len(s) + 1) /\ i - 1 \in 0..Len(s) /\ i \in 0..(Len(s) + 1) /\ i - 1 \in 0..(Len(s) + 1)
        BY <1>0, <1>4, <2>3
      <3>2. At(z, i) = At(s, i - 1) /\ At(z, i + 1) = At(s, i)
        BY <1>5, <3>1
      <3>3. At(s, i - 1) \in Nodes /\ At(s, i - 1) # e /\ At(s, i - 1) # HeadEntry
        BY <1>0, <1>3, <3>1
      <3>4. At(s, i) \in Nodes /\ At(s, i) # e
        BY <1>0, <1>3, <3>1
      <3>5. At(s, i) # At(s, 1)
        BY <1>0, <2>3, <3>1
      <3>6. f[At(s, i - 1)] = At(s, i) /\ g[At(s, i)] = At(s, i - 1)
        BY <3>1 DEF Holds, Chain, BackChain
      <3> QED BY <1>1, <1>6, <1>7, <3>2, <3>3, <3>4, <3>5, <3>6
    <2> QED BY <2>1, <2>2, <2>3
  <1>10. ASSUME NEW x \in Entries, ~Member(z, x) PROVE ff[x] = None /\ gg[x] = None
    <2>1. x # e
      BY <1>0, <1>4, <1>10 DEF Member
    <2>2. ~Member(s, x)
      <3> SUFFICES ASSUME NEW i \in 1..Len(s), s[i] = x PROVE FALSE
        BY DEF Member
      <3>1. i + 1 \in 1..Len(z) /\ z[i + 1] = x
        BY <1>0, <1>4
      <3> QED BY <1>10, <3>1 DEF Member
    <2>3. f[x] = None /\ g[x] = None /\ x \in Nodes /\ x # HeadEntry
      BY <2>2, ListAssumption DEF Holds, Nodes
    <2>4. x # f[HeadEntry]
      <3>1. CASE Len(s) = 0
        BY <1>0, <1>1, <3>1, <2>3
      <3>2. CASE Len(s) # 0
        <4>1. 1 \in 1..Len(s)
          BY <1>0, <3>2
        <4> QED BY <1>0, <1>1, <2>2, <4>1 DEF Member
      <3> QED BY <3>1, <3>2
    <2> QED BY <1>6, <1>7, <2>1, <2>3, <2>4
  <1> QED BY <1>6, <1>7, <1>8, <1>9, <1>10 DEF Holds, Chain, BackChain, z, ff, gg

(* The insertion of list_add_tail.                                         *)
LEMMA InsertedTail ==
  ASSUME NEW s, NEW f, NEW g, Holds(s, f, g), NEW e \in Entries, ~Member(s, e)
  PROVE  Holds(Append(s, e), [f EXCEPT ![e] = HeadEntry, ![g[HeadEntry]] = e],
                             [g EXCEPT ![HeadEntry] = e, ![e] = g[HeadEntry]])
  <1> DEFINE z == Append(s, e)
             ff == [f EXCEPT ![e] = HeadEntry, ![g[HeadEntry]] = e]
             gg == [g EXCEPT ![HeadEntry] = e, ![e] = g[HeadEntry]]
  <1>0. /\ Len(s) \in Nat /\ s \in Seq(Entries)
        /\ At(s, 0) = HeadEntry /\ At(s, Len(s) + 1) = HeadEntry
        /\ \A i \in 0..(Len(s) + 1) : At(s, i) \in Nodes /\ At(s, i) # None
        /\ \A i \in 1..Len(s) : At(s, i) = s[i] /\ At(s, i) \in Entries /\ At(s, i) # HeadEntry
        /\ \A i, j \in 0..Len(s) : At(s, i) = At(s, j) => i = j
    BY AtFacts DEF Holds
  <1>1. g[HeadEntry] = At(s, Len(s)) /\ g[HeadEntry] \in Nodes
    BY HeldPointers
  <1>2. /\ f \in [Nodes -> Pointer] /\ g \in [Nodes -> Pointer] /\ e \in Nodes /\ HeadEntry \in Nodes
        /\ e # HeadEntry /\ Nodes \subseteq Pointer
    BY ListAssumption DEF Holds, Nodes, Pointer
  <1>3. \A i \in 0..(Len(s) + 1) : At(s, i) # e
    BY <1>0, <1>2 DEF Member, At
  <1>4. /\ z \in Seq(Entries) /\ Len(z) = Len(s) + 1
        /\ z[Len(s) + 1] = e /\ \A i \in 1..Len(s) : z[i] = s[i]
    BY <1>0
  <1> HIDE DEF z
  <1>5. /\ At(z, Len(s) + 1) = e /\ At(z, Len(s) + 2) = HeadEntry
        /\ \A i \in 0..Len(s) : At(z, i) = At(s, i)
    BY <1>0, <1>4 DEF At
  <1>6. /\ ff \in [Nodes -> Pointer] /\ ff[g[HeadEntry]] = e
        /\ g[HeadEntry] # e => ff[e] = HeadEntry
        /\ \A x \in Nodes : x # e /\ x # g[HeadEntry] => ff[x] = f[x]
    BY <1>1, <1>2
  <1>7. /\ gg \in [Nodes -> Pointer] /\ gg[e] = g[HeadEntry] /\ gg[HeadEntry] = e
        /\ \A x \in Nodes : x # e /\ x # HeadEntry => gg[x] = g[x]
    BY <1>1, <1>2
  <1> HIDE DEF ff, gg
  <1>8. Distinct(z)
    <2>1. ASSUME NEW i \in 1..Len(z), NEW j \in 1..Len(z), z[i] = z[j] PROVE i = j
      <3>1. (i = Len(s) + 1 \/ i \in 1..Len(s)) /\ (j = Len(s) + 1 \/ j \in 1..Len(s))
        BY <1>0, <1>4
      <3>2. \A k \in 1..Len(s) : z[k] = s[k] /\ s[k] # e
        BY <1>4 DEF Member
      <3>3. i \in 1..Len(s) /\ j \in 1..Len(s) => i = j
        BY <2>1, <3>2 DEF Holds, Distinct
      <3> QED BY <1>4, <2>1, <3>1, <3>2, <3>3
    <2> QED BY <1>4, <2>1 DEF Distinct
  <1>9. ASSUME NEW i \in 0..Len(z) PROVE ff[At(z, i)] = At(z, i + 1) /\ gg[At(z, i + 1)] = At(z, i)
    <2>0. g[HeadEntry] # e
      BY <1>0, <1>1, <1>3
    <2>1. CASE i = Len(s) + 1
      <3>1. At(z, i) = e /\ At(z, i + 1) = HeadEntry
        BY <1>0, <1>5, <2>1
      <3> QED BY <1>6, <1>7, <2>0, <3>1
    <2>2. CASE i = Len(s)
      <3>1. At(z, i) = At(s, Len(s)) /\ At(z, i + 1) = e
        BY <1>0, <1>5, <2>2
      <3> QED BY <1>1, <1>6, <1>7, <3>1
    <2>3. CASE i # Len(s) + 1 /\ i # Len(s)
      <3>1. i \in 0..Len(s) /\ i + 1 \in 1..Len(s) /\ i + 1 \in 0..Len(s) /\ Len(s) \in 0..Len(s)
            /\ i \in 0..(Len(s) + 1) /\ i + 1 \in 0..(Len(s) + 1)
        BY <1>0, <1>4, <2>3
      <3>2. At(z, i) = At(s, i) /\ At(z, i + 1) = At(s, i + 1)
        BY <1>5, <3>1
      <3>3. At(s, i) \in Nodes /\ At(s, i) # e /\ At(s, i) # At(s, Len(s))
        BY <1>0, <1>3, <2>3, <3>1
      <3>4. At(s, i + 1) \in Nodes /\ At(s, i + 1) # e /\ At(s, i + 1) # HeadEntry
        BY <1>0, <1>3, <3>1
      <3>5. f[At(s, i)] = At(s, i + 1) /\ g[At(s, i + 1)] = At(s, i)
        BY <3>1 DEF Holds, Chain, BackChain
      <3> QED BY <1>1, <1>6, <1>7, <3>2, <3>3, <3>4, <3>5
    <2> QED BY <2>1, <2>2, <2>3
  <1>10. ASSUME NEW x \in Entries, ~Member(z, x) PROVE ff[x] = None /\ gg[x] = None
    <2>1. x # e
      <3>1. Len(s) + 1 \in 1..Len(z)
        BY <1>0, <1>4
      <3> QED BY <1>4, <1>10, <3>1 DEF Member
    <2>2. ~Member(s, x)
      <3> SUFFICES ASSUME NEW i \in 1..Len(s), s[i] = x PROVE FALSE
        BY DEF Member
      <3>1. i \in 1..Len(z) /\ z[i] = x
        BY <1>0, <1>4
      <3> QED BY <1>10, <3>1 DEF Member
    <2>3. f[x] = None /\ g[x] = None /\ x \in Nodes /\ x # HeadEntry
      BY <2>2, ListAssumption DEF Holds, Nodes
    <2>4. x # g[HeadEntry]
      <3>1. CASE Len(s) = 0
        BY <1>0, <1>1, <3>1, <2>3
      <3>2. CASE Len(s) # 0
        <4>1. Len(s) \in 1..Len(s)
          BY <1>0, <3>2
        <4> QED BY <1>0, <1>1, <2>2, <4>1 DEF Member
      <3> QED BY <3>1, <3>2
    <2> QED BY <1>6, <1>7, <2>1, <2>3, <2>4
  <1> QED BY <1>6, <1>7, <1>8, <1>9, <1>10 DEF Holds, Chain, BackChain, z, ff, gg

(* No entry is its own neighbour.                                          *)
LEMMA NotItself ==
  ASSUME NEW s, NEW f, NEW g, Holds(s, f, g), NEW k \in 1..Len(s)
  PROVE  f[s[k]] # s[k] /\ g[s[k]] # s[k]
  <1>1. /\ Len(s) \in Nat /\ \A i \in 1..Len(s) : At(s, i) = s[i]
        /\ \A i, j \in 0..Len(s) : At(s, i) = At(s, j) => i = j
        /\ \A i, j \in 1..(Len(s) + 1) : At(s, i) = At(s, j) => i = j
    BY AtFacts DEF Holds
  <1>2. f[s[k]] = At(s, k + 1) /\ g[s[k]] = At(s, k - 1)
    BY HeldPointers
  <1>3. k \in 1..(Len(s) + 1) /\ k + 1 \in 1..(Len(s) + 1) /\ k \in 0..Len(s) /\ k - 1 \in 0..Len(s)
        /\ k # k + 1 /\ k # k - 1
    BY <1>1
  <1> QED BY <1>1, <1>2, <1>3

(* The deletion of the k-th entry by list_del.                             *)
Without(s, k) == SubSeq(s, 1, k - 1) \o SubSeq(s, k + 1, Len(s))
LEMMA Removed ==
  ASSUME NEW s, NEW f, NEW g, Holds(s, f, g), NEW k \in 1..Len(s), NEW e \in Entries, s[k] = e
  PROVE  /\ Holds(Without(s, k), [f EXCEPT ![g[e]] = f[e], ![e] = None],
                                 [g EXCEPT ![f[e]] = g[e], ![e] = None])
         /\ \A x \in Entries : Member(Without(s, k), x) <=> Member(s, x) /\ x # e
  <1> DEFINE z == Without(s, k)
             p == g[e]
             n == f[e]
             ff == [f EXCEPT ![p] = n, ![e] = None]
             gg == [g EXCEPT ![n] = p, ![e] = None]
  <1>0. /\ Len(s) \in Nat /\ s \in Seq(Entries)
        /\ At(s, 0) = HeadEntry /\ At(s, Len(s) + 1) = HeadEntry
        /\ \A i \in 0..(Len(s) + 1) : At(s, i) \in Nodes /\ At(s, i) # None
        /\ \A i \in 1..Len(s) : At(s, i) = s[i] /\ At(s, i) \in Entries /\ At(s, i) # HeadEntry
        /\ \A i, j \in 0..Len(s) : At(s, i) = At(s, j) => i = j
        /\ \A i, j \in 1..(Len(s) + 1) : At(s, i) = At(s, j) => i = j
    BY AtFacts DEF Holds
  <1>1. n = At(s, k + 1) /\ p = At(s, k - 1) /\ n \in Nodes /\ p \in Nodes
    BY HeldPointers
  <1>a. k \in Nat /\ k >= 1 /\ k <= Len(s) /\ e = At(s, k)
    BY <1>0
  <1>2. /\ f \in [Nodes -> Pointer] /\ g \in [Nodes -> Pointer] /\ e \in Nodes /\ HeadEntry \in Nodes
        /\ e # HeadEntry /\ Nodes \subseteq Pointer /\ None \in Pointer
    BY ListAssumption DEF Holds, Nodes, Pointer
  <1>3. n # e /\ p # e
    BY NotItself
  <1> HIDE DEF p, n
  <1>4. /\ z \in Seq(Entries) /\ Len(z) = Len(s) - 1
        /\ \A i \in 1..Len(z) : z[i] = IF i < k THEN s[i] ELSE s[i + 1]
    <2> DEFINE a == SubSeq(s, 1, k - 1)
               b == SubSeq(s, k + 1, Len(s))
    <2>1. a \in Seq(Entries) /\ Len(a) = k - 1 /\ \A i \in 1..(k - 1) : a[i] = s[i]
      BY <1>0, <1>a
    <2>2. b \in Seq(Entries) /\ Len(b) = Len(s) - k /\ \A i \in 1..(Len(s) - k) : b[i] = s[k + i]
      BY <1>0, <1>a
    <2> HIDE DEF a, b
    <2>3. /\ a \o b \in Seq(Entries) /\ Len(a \o b) = Len(a) + Len(b)
          /\ \A i \in 1..(Len(a) + Len(b)) : (a \o b)[i] = IF i <= Len(a) THEN a[i] ELSE b[i - Len(a)]
      <3>1. a \in Seq(Entries) /\ b \in Seq(Entries)
        BY <2>1, <2>2
      <3>2. a \o b \in Seq(Entries) /\ Len(a \o b) = Len(a) + Len(b)
        BY <3>1
      <3>3. \A i \in 1..(Len(a) + Len(b)) : (a \o b)[i] = IF i <= Len(a) THEN a[i] ELSE b[i - Len(a)]
        BY <3>1
      <3> QED BY <3>2, <3>3
    <2>4. z = a \o b
      BY DEF Without, a, b
    <2>5. Len(a) + Len(b) = Len(s) - 1
      BY <1>0, <1>a, <2>1, <2>2
    <2>6. ASSUME NEW i \in 1..(Len(s) - 1) PROVE (a \o b)[i] = IF i < k THEN s[i] ELSE s[i + 1]
      <3>1. CASE i < k
        <4>1. i \in 1..(k - 1) /\ i <= Len(a)
          BY <1>0, <1>a, <2>1, <3>1
        <4> QED BY <2>1, <2>3, <2>5, <3>1, <4>1
      <3>2. CASE ~(i < k)
        <4>1. ~(i <= Len(a)) /\ i - Len(a) \in 1..(Len(s) - k) /\ k + (i - Len(a)) = i + 1
          BY <1>0, <1>a, <2>1, <3>2
        <4> QED BY <2>2, <2>3, <2>5, <3>2, <4>1
      <3> QED BY <3>1, <3>2
    <2> QED BY <2>3, <2>4, <2>5, <2>6
  <1> HIDE DEF z
  <1>5. \A i \in 0..Len(s) : At(z, i) = IF i < k THEN At(s, i) ELSE At(s, i + 1)
    BY <1>0, <1>4, <1>a DEF At
  <1>6. /\ ff \in [Nodes -> Pointer] /\ ff[p] = n /\ ff[e] = None
        /\ \A x \in Nodes : x # e /\ x # p => ff[x] = f[x]
    BY <1>1, <1>2, <1>3
  <1>7. /\ gg \in [Nodes -> Pointer] /\ gg[n] = p /\ gg[e] = None
        /\ \A x \in Nodes : x # e /\ x # n => gg[x] = g[x]
    BY <1>1, <1>2, <1>3
  <1> HIDE DEF ff, gg
  <1>8. Distinct(z)
    <2>1. ASSUME NEW i \in 1..Len(z), NEW j \in 1..Len(z), z[i] = z[j] PROVE i = j
      <3>1. PICK a \in 1..Len(s) : z[i] = s[a] /\ a = IF i < k THEN i ELSE i + 1
        BY <1>0, <1>4, <1>a
      <3>2. PICK b \in 1..Len(s) : z[j] = s[b] /\ b = IF j < k THEN j ELSE j + 1
        BY <1>0, <1>4, <1>a
      <3>3. a = b
        BY <2>1, <3>1, <3>2 DEF Holds, Distinct
      <3> QED BY <1>0, <1>4, <1>a, <3>1, <3>2, <3>3
    <2> QED BY <1>4, <2>1 DEF Distinct
  <1>9. ASSUME NEW i \in 0..Len(z) PROVE ff[At(z, i)] = At(z, i + 1) /\ gg[At(z, i + 1)] = At(z, i)
    <2>0. i \in 0..Len(s) /\ i + 1 \in 0..Len(s)
      BY <1>0, <1>4, <1>a
    <2>1. CASE i < k - 1
      <3>1. /\ At(z, i) = At(s, i) /\ At(z, i + 1) = At(s, i + 1)
        BY <1>5, <1>a, <2>0, <2>1
      <3>2. i # k /\ i # k - 1 /\ k \in 0..Len(s) /\ k - 1 \in 0..Len(s)
            /\ i \in 0..(Len(s) + 1)
        BY <1>0, <1>a, <2>0, <2>1
      <3>3. i + 1 # k /\ i + 1 # k + 1 /\ k \in 1..(Len(s) + 1) /\ k + 1 \in 1..(Len(s) + 1)
            /\ i + 1 \in 1..(Len(s) + 1) /\ i + 1 \in 0..(Len(s) + 1)
        BY <1>0, <1>a, <2>0, <2>1
      <3>4. At(s, i) \in Nodes /\ At(s, i) # e /\ At(s, i) # p
        BY <1>0, <1>1, <1>a, <2>0, <3>2
      <3>5. At(s, i + 1) \in Nodes /\ At(s, i + 1) # e /\ At(s, i + 1) # n
        BY <1>0, <1>1, <1>a, <2>0, <3>3
      <3>6. f[At(s, i)] = At(s, i + 1) /\ g[At(s, i + 1)] = At(s, i)
        BY <2>0 DEF Holds, Chain, BackChain
      <3> QED BY <1>6, <1>7, <3>1, <3>4, <3>5, <3>6
    <2>2. CASE i = k - 1
      <3>1. At(z, i) = At(s, k - 1) /\ At(z, i + 1) = At(s, k + 1)
        BY <1>5, <1>a, <2>0, <2>2
      <3> QED BY <1>1, <1>6, <1>7, <3>1
    <2>3. CASE i > k - 1
      <3>1. /\ At(z, i) = At(s, i + 1) /\ At(z, i + 1) = At(s, i + 2)
        BY <1>5, <1>a, <2>0, <2>3
      <3>2. i + 1 # k /\ i + 1 # k - 1 /\ k \in 0..Len(s) /\ k - 1 \in 0..Len(s)
            /\ i + 1 \in 0..(Len(s) + 1) /\ (i + 1) + 1 = i + 2
        BY <1>0, <1>a, <2>0, <2>3
      <3>3. i + 2 # k /\ i + 2 # k + 1 /\ k \in 1..(Len(s) + 1) /\ k + 1 \in 1..(Len(s) + 1)
            /\ i + 2 \in 1..(Len(s) + 1) /\ i + 2 \in 0..(Len(s) + 1)
        BY <1>0, <1>a, <2>0, <2>3
      <3>4. At(s, i + 1) \in Nodes /\ At(s, i + 1) # e /\ At(s, i + 1) # p
        BY <1>0, <1>1, <1>a, <2>0, <3>2
      <3>5. At(s, i + 2) \in Nodes /\ At(s, i + 2) # e /\ At(s, i + 2) # n
        BY <1>0, <1>1, <1>a, <2>0, <3>3
      <3>6. f[At(s, i + 1)] = At(s, i + 2) /\ g[At(s, i + 2)] = At(s, i + 1)
        BY <2>0, <3>2 DEF Holds, Chain, BackChain
      <3> QED BY <1>6, <1>7, <3>1, <3>4, <3>5, <3>6
    <2> QED BY <1>a, <2>0, <2>1, <2>2, <2>3
  <1>10. ASSUME NEW x \in Entries PROVE Member(z, x) <=> Member(s, x) /\ x # e
    <2>1. ASSUME NEW i \in 1..Len(z), z[i] = x PROVE Member(s, x) /\ x # e
      <3>1. PICK a \in 1..Len(s) : z[i] = s[a] /\ a = IF i < k THEN i ELSE i + 1
        BY <1>0, <1>4, <1>a
      <3>2. a # k
        BY <1>a, <1>4, <3>1
      <3>3. s[a] # s[k]
        BY <3>2 DEF Holds, Distinct
      <3> QED BY <2>1, <3>1, <3>3 DEF Member
    <2>2. ASSUME NEW a \in 1..Len(s), s[a] = x, x # e PROVE Member(z, x)
      <3>1. a # k
        BY <2>2
      <3>2. PICK i \in 1..Len(z) : i = IF a < k THEN a ELSE a - 1
        BY <1>0, <1>4, <1>a, <3>1
      <3>3. z[i] = s[a]
        <4>1. CASE a < k
          BY <1>4, <3>2, <4>1
        <4>2. CASE ~(a < k)
          <5>1. i = a - 1 /\ ~(i < k) /\ i + 1 = a
            BY <1>0, <1>a, <3>1, <3>2, <4>2
          <5> QED BY <1>4, <5>1
        <4> QED BY <4>1, <4>2
      <3> QED BY <2>2, <3>3 DEF Member
    <2> QED BY <2>1, <2>2 DEF Member
  <1>11. ASSUME NEW x \in Entries, ~Member(z, x) PROVE ff[x] = None /\ gg[x] = None
    <2>1. CASE x = e
      BY <1>6, <1>7, <2>1
    <2>2. CASE x # e
      <3>1. ~Member(s, x)
        BY <1>10, <1>11, <2>2
      <3>2. f[x] = None /\ g[x] = None /\ x \in Nodes /\ x # HeadEntry
        BY <3>1, ListAssumption DEF Holds, Nodes
      <3>3. \A i \in 0..(Len(s) + 1) : At(s, i) # x
        BY <3>1, <3>2 DEF Member, At
      <3>4. x # p /\ x # n
        BY <1>0, <1>1, <1>a, <3>3
      <3> QED BY <1>6, <1>7, <2>2, <3>2, <3>4
    <2> QED BY <2>1, <2>2
  <1>12. Holds(z, ff, gg)
    BY <1>6, <1>7, <1>8, <1>9, <1>11 DEF Holds, Chain, BackChain
  <1> QED BY <1>10, <1>12 DEF z, ff, gg, p, n

(* Read backwards, the list is a chain too.                                *)
Reversed(s) == [i \in 1..Len(s) |-> s[Len(s) + 1 - i]]
LEMMA HeldBackwards ==
  ASSUME NEW s, NEW f, NEW g, Holds(s, f, g)
  PROVE  Walk(f) = s /\ Walk(g) = Reversed(s)
  <1> DEFINE r == Reversed(s)
  <1>1. Len(s) \in Nat /\ s \in Seq(Entries) /\ Distinct(s)
    BY DEF Holds, Distinct
  <1>2. /\ r \in Seq(Entries) /\ Len(r) = Len(s)
        /\ \A i \in 1..Len(s) : r[i] = s[Len(s) + 1 - i]
    <2>1. \A i \in 1..Len(s) : Len(s) + 1 - i \in 1..Len(s)
      BY <1>1
    <2>2. \A i \in 1..Len(s) : s[Len(s) + 1 - i] \in Entries
      BY <1>1, <2>1
    <2> QED BY <1>1, <2>2 DEF Reversed
  <1> HIDE DEF r
  <1>3. \A i \in 0..(Len(s) + 1) : At(r, i) = At(s, Len(s) + 1 - i)
    BY <1>1, <1>2 DEF At
  <1>4. Distinct(r)
    <2>1. ASSUME NEW i \in 1..Len(r), NEW j \in 1..Len(r), r[i] = r[j] PROVE i = j
      <3>1. Len(s) + 1 - i \in 1..Len(s) /\ Len(s) + 1 - j \in 1..Len(s)
        BY <1>1, <1>2
      <3>2. Len(s) + 1 - i = Len(s) + 1 - j
        BY <1>1, <1>2, <2>1, <3>1 DEF Distinct
      <3> QED BY <1>1, <1>2, <3>2
    <2> QED BY <1>2, <2>1 DEF Distinct
  <1>5. Chain(r, g)
    <2> SUFFICES ASSUME NEW i \in 0..Len(s) PROVE g[At(r, i)] = At(r, i + 1)
      BY <1>2 DEF Chain
    <2>0. Len(s) - i \in 0..Len(s)
      BY <1>1
    <2>1. PICK j \in 0..Len(s) : j = Len(s) - i
      BY <2>0
    <2>2. At(r, i) = At(s, j + 1) /\ At(r, i + 1) = At(s, j)
      BY <1>1, <1>3, <2>1
    <2> QED BY <2>2 DEF Holds, BackChain
  <1> QED BY <1>1, <1>4, <1>5, WalkIs DEF Holds, r

-----------------------------------------------------------------------------
(* The inductive invariant of the pointers.  s is the list as a sequence,  *)
(* f and g the pointers that hold it; next and prev differ from f and g    *)
(* only in what the thread with the mutex has assigned so far.             *)
Adds == {"add_head", "add_tail"}
Linking == {"link1", "link2", "link3", "link4"}

PointerTypes ==
    /\ next \in [Nodes -> Pointer] /\ prev \in [Nodes -> Pointer]
    /\ mutex \in Threads \cup {None}
    /\ op \in [Threads -> [kind : {"none", "add_head", "add_tail", "del", "each"},
                           entry : Entries \cup {None}, p : Pointer, n : Pointer, seen : Seq(Entries)]]

(* A careless thread only iterates; another one holds the mutex exactly    *)
(* from its lock to its unlock, and never crashes.                         *)
RoleOK(t) ==
    IF t \in Careless
    THEN /\ mutex # t /\ pc[t] \in {"idle", "enter", "first", "each", "exit", "crashed"}
         /\ pc[t] # "idle" => op[t].kind = "each"
    ELSE (mutex = t <=> pc[t] \notin {"idle", "lock"}) /\ pc[t] # "crashed"

(* The label fits the call, the entry is the caller's, and it is in the    *)
(* list exactly as long as the call says.                                  *)
TaskOK(t, s) ==
    LET k == op[t].kind  e == op[t].entry IN
    /\ pc[t] # "idle" => k # "none"
    /\ pc[t] \in {"args"} \cup Linking => k \in Adds
    /\ pc[t] \in {"unlink1", "unlink2", "init"} => k = "del"
    /\ pc[t] \in {"first", "each", "crashed"} => k = "each"
    /\ k \in Adds \cup {"del"} => e \in Entries /\ EntryOwner[e] = t
    /\ k \in Adds /\ pc[t] \in {"lock", "args", "enter"} \cup Linking => ~Member(s, e)
    /\ k = "del" /\ pc[t] \in {"lock", "enter", "unlink1", "unlink2"} => Member(s, e)
    /\ k = "del" /\ pc[t] \in {"exit", "init"} => ~Member(s, e)

(* An iteration under the mutex has seen a prefix of the list; one without *)
(* it is still on the list unless the validator has seen an overlap.       *)
CursorOK(t, s) ==
    /\ t \in Careless /\ pc[t] = "each" /\ ~overlapped => op[t].n = HeadEntry \/ Member(s, op[t].n)
    /\ pc[t] \in {"lock", "args", "enter", "first"} => op[t].seen = <<>>
    /\ t \notin Careless /\ pc[t] = "each" =>
           /\ Len(op[t].seen) <= Len(s) /\ op[t].n = At(s, Len(op[t].seen) + 1)
           /\ \A i \in 1..Len(op[t].seen) : op[t].seen[i] = s[i]
    /\ t \notin Careless /\ pc[t] = "exit" /\ op[t].kind = "each" => op[t].seen = s
    /\ pc[t] = "crashed" => overlapped

(* What the thread with the mutex has assigned.                            *)
Untouched(t) == pc[t] \in {"args", "enter", "link1", "unlink1", "first", "each", "unlock"}
                \/ (pc[t] = "exit" /\ op[t].kind # "del")
Shape(t, f, g) ==
    LET k == op[t].kind  e == op[t].entry  p == op[t].p  n == op[t].n IN
    /\ Untouched(t) => next = f /\ prev = g
    /\ k = "add_head" /\ pc[t] \in {"enter"} \cup Linking => p = HeadEntry /\ n = f[HeadEntry]
    /\ k = "add_tail" /\ pc[t] \in {"enter"} \cup Linking => p = g[HeadEntry] /\ n = HeadEntry
    /\ pc[t] = "link2" => next = f /\ prev = [g EXCEPT ![n] = e]
    /\ pc[t] = "link3" => next = [f EXCEPT ![e] = n] /\ prev = [g EXCEPT ![n] = e]
    /\ pc[t] = "link4" => next = [f EXCEPT ![e] = n] /\ prev = [g EXCEPT ![n] = e, ![e] = p]
    /\ pc[t] = "unlink2" => next = f /\ prev = [g EXCEPT ![f[e]] = g[e]]
    /\ pc[t] = "init" \/ (pc[t] = "exit" /\ k = "del") =>
           \A x \in Nodes : x # e => next[x] = f[x] /\ prev[x] = g[x]
ShapeOK(f, g) ==
    /\ mutex = None => next = f /\ prev = g
    /\ \A t \in Threads : mutex = t => Shape(t, f, g)

Roles == \A t \in Threads : RoleOK(t)
Contents(s, f, g) ==
    /\ Holds(s, f, g) /\ ShapeOK(f, g)
    /\ \A t \in Threads : TaskOK(t, s) /\ CursorOK(t, s)
PointerInv == PointerTypes /\ Roles /\ \E s, f, g : Contents(s, f, g)

(* A step of t is judged by t's own state after it: the other threads keep *)
(* theirs, for t changes the list only between enter and exit and under    *)
(* the mutex.                                                              *)
LEMMA StepKeeps ==
  ASSUME ValidatorInv, PointerTypes, Roles, NEW s, NEW f, NEW g, Contents(s, f, g),
         NEW t \in Threads, NEW l, NEW o, NEW z, NEW ff, NEW gg,
         pc' = [pc EXCEPT ![t] = l], op' = [op EXCEPT ![t] = o],
         PointerTypes', overlapped => overlapped', overlapped' \in BOOLEAN,
         \/ mutex' = mutex
         \/ mutex = None /\ mutex' = t
         \/ mutex = t /\ mutex' = None,
         Holds(z, ff, gg),
         z = s \/ (mutex = t /\ t \notin Careless /\ Inside(t)),
         \A x \in Entries : EntryOwner[x] # t => (Member(z, x) <=> Member(s, x)),
         mutex' = t => Shape(t, ff, gg)',
         mutex' = None => next' = ff /\ prev' = gg,
         mutex' # t /\ mutex' # None => ff = f /\ gg = g /\ next' = next /\ prev' = prev,
         RoleOK(t)', TaskOK(t, z)', CursorOK(t, z)'
  PROVE  PointerInv'
  <1>1. ASSUME NEW u \in Threads, u # t
        PROVE  pc'[u] = pc[u] /\ op'[u] = op[u] /\ (mutex' = u <=> mutex = u)
    BY <1>1, ListAssumption DEF ValidatorInv, PointerTypes
  <1>2. ASSUME NEW u \in Threads PROVE RoleOK(u)'
    BY <1>1 DEF Roles, RoleOK
  <1>3. ASSUME NEW u \in Threads PROVE TaskOK(u, z)'
    <2>1. CASE u # t
      <3>1. TaskOK(u, s)
        BY DEF Contents
      <3>2. pc'[u] = pc[u] /\ op'[u] = op[u]
        BY <1>1, <2>1
      <3>3. op[u].kind \in Adds \cup {"del"} => (Member(z, op[u].entry) <=> Member(s, op[u].entry))
        BY <2>1, <3>1 DEF TaskOK
      <3> QED BY <3>1, <3>2, <3>3 DEF TaskOK
    <2> QED BY <2>1
  <1>4. ASSUME NEW u \in Threads PROVE CursorOK(u, z)'
    <2>1. CASE u # t
      <3>1. CursorOK(u, s)
        BY DEF Contents
      <3>2. pc'[u] = pc[u] /\ op'[u] = op[u]
        BY <1>1, <2>1
      <3>3. CASE z = s
        BY <3>1, <3>2, <3>3 DEF CursorOK
      <3>4. CASE mutex = t /\ t \notin Careless /\ Inside(t)
        <4>1. u \notin Careless => pc[u] \in {"idle", "lock"}
          BY <2>1, <3>4 DEF Roles, RoleOK
        <4>2. pc[u] = "each" => overlapped
          <5>1. pc[u] = "each" => Inside(u)
            BY DEF Inside, Section
          <5> QED BY <2>1, <3>4, <5>1 DEF ValidatorInv, OwnerInside
        <4> QED BY <3>1, <3>2, <4>1, <4>2 DEF CursorOK
      <3> QED BY <3>3, <3>4
    <2> QED BY <2>1
  <1>5. ShapeOK(ff, gg)'
    <2>1. ASSUME NEW u \in Threads, mutex' = u PROVE Shape(u, ff, gg)'
      <3>1. CASE u # t
        <4>1. Shape(u, f, g)
          BY <1>1, <2>1, <3>1 DEF Contents, ShapeOK
        <4>2. ff = f /\ gg = g /\ next' = next /\ prev' = prev
          BY <2>1, <3>1, ListAssumption
        <4> QED BY <1>1, <3>1, <4>1, <4>2 DEF Shape, Untouched
      <3> QED BY <2>1, <3>1
    <2> QED BY <2>1 DEF ShapeOK
  <1> QED BY <1>2, <1>3, <1>4, <1>5 DEF PointerInv, Roles, Contents

(* Only the entry of the thread with the mutex may have a next pointer     *)
(* that is not the list's, and that entry is then not in the list.         *)
LEMMA NextFacts ==
  ASSUME ValidatorInv, PointerTypes, Roles, NEW s, NEW f, NEW g, Contents(s, f, g)
  PROVE  /\ \A x \in Nodes :
               next[x] # f[x] => ~Member(s, x) /\ \E u \in Threads : mutex = u /\ op[u].entry = x /\ x \in Entries
                                                                /\ EntryOwner[x] = u /\ u \notin Careless
         /\ next[HeadEntry] = f[HeadEntry] /\ next[HeadEntry] # None
         /\ prev[HeadEntry] # None
  <1>0. /\ f \in [Nodes -> Pointer] /\ g \in [Nodes -> Pointer] /\ Holds(s, f, g)
        /\ HeadEntry \in Nodes /\ HeadEntry \notin Entries /\ None \notin Nodes
    BY ListAssumption DEF Contents, Holds, Nodes
  <1>h. f[HeadEntry] \in Nodes /\ g[HeadEntry] \in Nodes
    BY <1>0, HeldPointers
  <1>1. CASE mutex = None
    BY <1>0, <1>1, <1>h DEF Contents, ShapeOK
  <1>2. CASE mutex # None
    <2>1. PICK u \in Threads : mutex = u
      BY <1>2 DEF PointerTypes
    <2>2. u \notin Careless /\ pc[u] \notin {"idle", "lock", "crashed"} /\ pc[u] \in ListLabel
      BY <2>1 DEF Roles, RoleOK, ValidatorInv
    <2>3. TaskOK(u, s) /\ Shape(u, f, g)
      BY <2>1 DEF Contents, ShapeOK
    <2>4. CASE Untouched(u)
      BY <1>0, <1>h, <2>3, <2>4 DEF Shape
    <2>5. CASE pc[u] \in {"link2", "link3", "link4"}
      <3>1. op[u].kind \in Adds /\ op[u].entry \in Entries /\ EntryOwner[op[u].entry] = u /\ ~Member(s, op[u].entry)
        BY <2>3, <2>5 DEF TaskOK, Linking
      <3>2. op[u].entry \in Nodes /\ op[u].entry # HeadEntry /\ op[u].entry # None
        BY <3>1, ListAssumption DEF Nodes
      <3>3. \A x \in Nodes : x # op[u].entry => next[x] = f[x]
        BY <1>0, <2>3, <2>5 DEF Shape
      <3>4. op[u].n \in Nodes
        BY <1>0, <1>h, <2>3, <2>5, <3>1 DEF Shape, Adds, Linking
      <3>5. prev[HeadEntry] # None
        BY <1>0, <1>h, <2>3, <2>5, <3>2, <3>4 DEF Shape
      <3> QED BY <1>0, <1>h, <2>1, <2>2, <3>1, <3>2, <3>3, <3>5
    <2>6. CASE pc[u] = "unlink2"
      <3>1. op[u].entry \in Entries /\ Member(s, op[u].entry)
        BY <2>3, <2>6 DEF TaskOK
      <3>2. PICK k \in 1..Len(s) : s[k] = op[u].entry
        BY <3>1 DEF Member
      <3>3. f[op[u].entry] \in Nodes /\ g[op[u].entry] \in Nodes
        BY <1>0, <3>2, HeldPointers
      <3>4. next = f /\ prev = [g EXCEPT ![f[op[u].entry]] = g[op[u].entry]]
        BY <2>3, <2>6 DEF Shape
      <3> QED BY <1>0, <1>h, <3>3, <3>4
    <2>7. CASE pc[u] = "init" \/ (pc[u] = "exit" /\ op[u].kind = "del")
      <3>1. op[u].entry \in Entries /\ EntryOwner[op[u].entry] = u /\ ~Member(s, op[u].entry)
        BY <2>3, <2>7 DEF TaskOK
      <3>2. \A x \in Nodes : x # op[u].entry => next[x] = f[x] /\ prev[x] = g[x]
        BY <2>3, <2>7 DEF Shape
      <3> QED BY <1>0, <1>h, <2>1, <2>2, <3>1, <3>2
    <2> QED
      BY <2>2, <2>4, <2>5, <2>6, <2>7 DEF Untouched, ListLabel, Section
  <1> QED BY <1>1, <1>2

(* The walk along next is the list, the moments between two assignments    *)
(* included.                                                               *)
LEMMA WalkIsContents ==
  ASSUME ValidatorInv, PointerTypes, Roles, NEW s, NEW f, NEW g, Contents(s, f, g)
  PROVE  Walk(next) = s /\ Chain(s, next)
  <1>1. Distinct(s) /\ Chain(s, f)
    BY DEF Contents, Holds
  <1>2. Len(s) \in Nat /\ At(s, 0) = HeadEntry
        /\ \A i \in 1..Len(s) : At(s, i) = s[i] /\ At(s, i) \in Entries
    BY <1>1, AtFacts
  <1>3. ASSUME NEW i \in 0..Len(s) PROVE next[At(s, i)] = f[At(s, i)]
    <2>1. CASE i = 0
      BY <1>2, <2>1, NextFacts
    <2>2. CASE i # 0
      <3>1. i \in 1..Len(s)
        BY <1>2, <2>2
      <3>2. At(s, i) \in Nodes /\ Member(s, At(s, i))
        BY <1>2, <3>1 DEF Nodes, Member
      <3> QED BY <3>2, NextFacts
    <2> QED BY <2>1, <2>2
  <1>4. Chain(s, next)
    BY <1>1, <1>3 DEF Chain
  <1> QED BY <1>1, <1>4, WalkIs

(* What a step may do to the sequence: put an entry at either end, or take *)
(* one out.                                                                *)
OneMore(a, b) == \E e \in Entries : ~Member(a, e) /\ b \in {<<e>> \o a, Append(a, e)}
OneLess(a, b) == \E k \in 1..Len(a) : b = Without(a, k)

(* An assignment to an entry that is not in the list does not show.        *)
LEMMA OffList ==
  ASSUME NEW s, NEW link, NEW new, NEW e \in Entries, Distinct(s), Chain(s, link), ~Member(s, e),
         \A x \in Nodes : x # e => new[x] = link[x]
  PROVE  Walk(new) = s
  <1>1. /\ Len(s) \in Nat /\ At(s, 0) = HeadEntry
        /\ \A i \in 0..(Len(s) + 1) : At(s, i) \in Nodes
        /\ \A i \in 1..Len(s) : At(s, i) = s[i]
    BY AtFacts
  <1>2. ASSUME NEW i \in 0..Len(s) PROVE new[At(s, i)] = At(s, i + 1)
    <2>1. At(s, i) \in Nodes
      BY <1>1
    <2>2. At(s, i) # e
      BY <1>1, ListAssumption DEF Member
    <2> QED BY <2>1, <2>2 DEF Chain
  <1> QED BY <1>2, WalkIs DEF Chain

LEMMA WalkIsSequence ==
  ASSUME ValidatorInv, PointerInv
  PROVE  Walk(next) \in Seq(Entries)
  <1>1. PICK s, f, g : Contents(s, f, g)
    BY DEF PointerInv
  <1> QED BY <1>1, WalkIsContents DEF PointerInv, Contents, Holds, Distinct

(* A step that assigns no pointer.                                         *)
OpType == [kind : {"none", "add_head", "add_tail", "del", "each"},
           entry : Entries \cup {None}, p : Pointer, n : Pointer, seen : Seq(Entries)]
LEMMA QuietStep ==
  ASSUME ValidatorInv, PointerTypes, Roles, NEW s, NEW f, NEW g, Contents(s, f, g),
         NEW t \in Threads, NEW l, NEW o \in OpType,
         pc' = [pc EXCEPT ![t] = l], op' = [op EXCEPT ![t] = o],
         UNCHANGED <<next, prev>>, overlapped => overlapped', overlapped' \in BOOLEAN,
         \/ mutex' = mutex
         \/ mutex = None /\ mutex' = t
         \/ mutex = t /\ mutex' = None,
         mutex' = t => Shape(t, f, g)',
         mutex = t /\ mutex' = None => next = f /\ prev = g,
         RoleOK(t)', TaskOK(t, s)', CursorOK(t, s)'
  PROVE  PointerInv'
  <1>1. PointerTypes'
    BY DEF PointerTypes, OpType
  <1>2. mutex' = None => next' = f /\ prev' = g
    BY DEF Contents, ShapeOK
  <1>3. Holds(s, f, g)
    BY DEF Contents
  <1> QED BY <1>1, <1>2, <1>3, StepKeeps

(* The start of a call.                                                    *)
LEMMA BeginKeeps ==
  ASSUME ValidatorInv, PointerInv, NEW t \in Threads,
         NEW kind \in {"add_head", "add_tail", "del", "each"}, NEW e \in Entries \cup {None},
         kind = "each" \/ (t \notin Careless /\ e \in Entries /\ EntryOwner[e] = t),
         kind \in Adds => next[e] = None, kind = "del" => next[e] # None,
         Begin(t, kind, e)
  PROVE  PointerInv'
  <1>1. PointerTypes /\ Roles
    BY DEF PointerInv
  <1>2. PICK s, f, g : Contents(s, f, g)
    BY DEF PointerInv
  <1> DEFINE l == IF t \in Careless THEN "enter" ELSE "lock"
             o == [Idle EXCEPT !.kind = kind, !.entry = e]
  <1>3. /\ pc[t] = "idle" /\ pc' = [pc EXCEPT ![t] = l] /\ op' = [op EXCEPT ![t] = o]
        /\ UNCHANGED <<next, prev, mutex, overlapped>>
    BY DEF Begin, Goto, UnchangedValidator
  <1>4. o \in OpType /\ o.kind = kind /\ o.entry = e /\ o.seen = <<>>
    <2>1. <<>> \in Seq(Entries) /\ None \in Pointer
      BY DEF Pointer
    <2>2. Idle \in OpType /\ Idle.seen = <<>>
      BY <2>1 DEF OpType, Idle
    <2> QED BY <2>2 DEF OpType
  <1> HIDE DEF l, o
  <1>5. pc'[t] = l /\ op'[t] = o
    BY <1>1, <1>3 DEF ValidatorInv, PointerTypes
  <1>6. mutex # t
    BY <1>1, <1>3 DEF Roles, RoleOK
  <1>7. kind \in Adds \cup {"del"} => next[e] = f[e] /\ (f[e] # None <=> Member(s, e))
    <2> SUFFICES ASSUME kind \in Adds \cup {"del"} PROVE next[e] = f[e] /\ (f[e] # None <=> Member(s, e))
      OBVIOUS
    <2>1. e \in Entries /\ EntryOwner[e] = t /\ e \in Nodes
      BY DEF Adds, Nodes
    <2>2. next[e] = f[e]
      BY <1>1, <1>2, <1>6, <2>1, NextFacts
    <2>3. Holds(s, f, g)
      BY <1>2 DEF Contents
    <2> QED BY <2>1, <2>2, <2>3, HeldPointers
  <1>8. TaskOK(t, s)'
    BY <1>4, <1>5, <1>7 DEF TaskOK, Adds, Linking, l
  <1>9. CursorOK(t, s)'
    BY <1>4, <1>5 DEF CursorOK, l
  <1>10. RoleOK(t)'
    BY <1>3, <1>4, <1>5, <1>6 DEF RoleOK, l
  <1> QED BY <1>1, <1>2, <1>3, <1>4, <1>6, <1>8, <1>9, <1>10, QuietStep DEF ValidatorInv

LEMMA LockKeeps ==
  ASSUME ValidatorInv, PointerInv, NEW t \in Threads, Lock(t)
  PROVE  PointerInv'
  <1>1. PointerTypes /\ Roles
    BY DEF PointerInv
  <1>2. PICK s, f, g : Contents(s, f, g)
    BY DEF PointerInv
  <1>3. PICK l : /\ pc' = [pc EXCEPT ![t] = l]
                 /\ l = IF op[t].kind \in {"add_head", "add_tail"} THEN "args" ELSE "enter"
    BY DEF Lock, Goto
  <1>4. /\ pc[t] = "lock" /\ mutex = None /\ mutex' = t /\ op' = op
        /\ UNCHANGED <<next, prev, overlapped>>
    BY DEF Lock, mutex_available, UnchangedValidator
  <1>5. op' = [op EXCEPT ![t] = op[t]] /\ op[t] \in OpType
    BY <1>1, <1>4 DEF PointerTypes, OpType
  <1>6. pc'[t] = l /\ op'[t] = op[t]
    BY <1>1, <1>3, <1>4 DEF ValidatorInv
  <1>7. TaskOK(t, s) /\ CursorOK(t, s) /\ next = f /\ prev = g
    BY <1>2, <1>4 DEF Contents, ShapeOK
  <1>8. t \notin Careless
    BY <1>1, <1>4 DEF Roles, RoleOK
  <1>9. TaskOK(t, s)'
    BY <1>3, <1>4, <1>6, <1>7 DEF TaskOK, Adds, Linking
  <1>10. CursorOK(t, s)'
    BY <1>3, <1>4, <1>6, <1>7, <1>8 DEF CursorOK
  <1>11. RoleOK(t)'
    BY <1>3, <1>4, <1>6, <1>8 DEF RoleOK
  <1>12. Shape(t, f, g)'
    BY <1>3, <1>4, <1>6, <1>7 DEF Shape, Untouched, Linking
  <1>13. t # None
    BY ListAssumption
  <1> QED BY <1>1, <1>2, <1>3, <1>4, <1>5, <1>9, <1>10, <1>11, <1>12, <1>13, QuietStep DEF ValidatorInv

(* The neighbours are the list's: nobody else assigns pointers.            *)
LEMMA ArgsKeeps ==
  ASSUME ValidatorInv, PointerInv, NEW t \in Threads, Args(t)
  PROVE  PointerInv'
  <1>1. PointerTypes /\ Roles
    BY DEF PointerInv
  <1>2. PICK s, f, g : Contents(s, f, g)
    BY DEF PointerInv
  <1> DEFINE at == Neighbours(op[t].kind)
             o == [op[t] EXCEPT !.p = at.p, !.n = at.n]
  <1>3. /\ pc[t] = "args" /\ pc' = [pc EXCEPT ![t] = "enter"]
        /\ UNCHANGED <<next, prev, mutex, overlapped>>
    BY DEF Args, Goto, UnchangedValidator
  <1>4. op' = [op EXCEPT ![t] = o]
    BY <1>1 DEF Args, PointerTypes
  <1>5. t \notin Careless /\ mutex = t
    BY <1>1, <1>3 DEF Roles, RoleOK
  <1>6. TaskOK(t, s) /\ CursorOK(t, s) /\ next = f /\ prev = g /\ Holds(s, f, g)
    BY <1>2, <1>3, <1>5 DEF Contents, ShapeOK, Shape, Untouched
  <1>7. op[t].kind \in Adds
    BY <1>3, <1>6 DEF TaskOK
  <1>8. /\ op[t].kind = "add_head" => at.p = HeadEntry /\ at.n = f[HeadEntry]
        /\ op[t].kind = "add_tail" => at.p = g[HeadEntry] /\ at.n = HeadEntry
        /\ at.p \in Pointer /\ at.n \in Pointer
    BY <1>6, <1>7 DEF Neighbours, Adds, Holds, Nodes, Pointer
  <1> HIDE DEF at
  <1>9. /\ o \in OpType /\ o.kind = op[t].kind /\ o.entry = op[t].entry /\ o.p = at.p /\ o.n = at.n
        /\ o.seen = op[t].seen
    BY <1>1, <1>8 DEF PointerTypes, OpType
  <1> HIDE DEF o
  <1>10. pc'[t] = "enter" /\ op'[t] = o
    BY <1>1, <1>3, <1>4 DEF ValidatorInv, PointerTypes
  <1>11. TaskOK(t, s)'
    BY <1>3, <1>6, <1>7, <1>9, <1>10 DEF TaskOK, Adds, Linking
  <1>12. RoleOK(t)'
    BY <1>3, <1>5, <1>10 DEF RoleOK
  <1>13. Shape(t, f, g)'
    BY <1>3, <1>6, <1>8, <1>9, <1>10 DEF Shape, Untouched, Linking
  <1>14. CursorOK(t, s)'
    BY <1>3, <1>5, <1>6, <1>9, <1>10 DEF CursorOK
  <1> QED BY <1>1, <1>2, <1>3, <1>4, <1>5, <1>9, <1>11, <1>12, <1>13, <1>14, QuietStep, ListAssumption DEF ValidatorInv

LEMMA EnterKeeps ==
  ASSUME ValidatorInv, PointerInv, NEW t \in Threads, Enter(t)
  PROVE  PointerInv'
  <1>1. PointerTypes /\ Roles
    BY DEF PointerInv
  <1>2. PICK s, f, g : Contents(s, f, g)
    BY DEF PointerInv
  <1>3. PICK l : /\ pc' = [pc EXCEPT ![t] = l]
                 /\ l = CASE op[t].kind = "del" -> "unlink1"
                          [] op[t].kind = "each" -> "first"
                          [] OTHER -> "link1"
    BY DEF Enter, Goto
  <1>4. /\ pc[t] = "enter" /\ op' = op
        /\ UNCHANGED <<next, prev, mutex>> /\ overlapped' \in BOOLEAN /\ (overlapped => overlapped')
    BY DEF Enter, validator_enter
  <1>5. op' = [op EXCEPT ![t] = op[t]] /\ op[t] \in OpType
    BY <1>1, <1>4 DEF PointerTypes, OpType
  <1>6. pc'[t] = l /\ op'[t] = op[t]
    BY <1>1, <1>3, <1>4 DEF ValidatorInv
  <1>7. TaskOK(t, s) /\ CursorOK(t, s)
    BY <1>2 DEF Contents
  <1>a. op[t].kind \in {"add_head", "add_tail", "del", "each"}
    BY <1>4, <1>5, <1>7 DEF TaskOK, OpType
  <1>8. /\ op[t].kind \in Adds => l = "link1"
        /\ op[t].kind = "del" => l = "unlink1"
        /\ op[t].kind = "each" => l = "first"
    BY <1>3, <1>a DEF Adds
  <1>9. TaskOK(t, s)'
    BY <1>4, <1>6, <1>7, <1>8, <1>a DEF TaskOK, Adds, Linking
  <1>10. CursorOK(t, s)'
    BY <1>4, <1>6, <1>7, <1>8, <1>a DEF CursorOK, Adds
  <1>11. RoleOK(t)'
    BY <1>1, <1>4, <1>6, <1>8, <1>a DEF Roles, RoleOK, Adds
  <1>12. mutex' = t => Shape(t, f, g)'
    <2>1. mutex = t => next = f /\ prev = g /\ Shape(t, f, g)
      BY <1>2, <1>4 DEF Contents, ShapeOK, Shape, Untouched
    <2> QED BY <1>4, <1>6, <1>8, <1>a, <2>1 DEF Shape, Untouched, Linking, Adds
  <1>13. t # None
    BY ListAssumption
  <1> QED BY <1>1, <1>2, <1>3, <1>4, <1>5, <1>9, <1>10, <1>11, <1>12, <1>13, QuietStep

(* The four assignments of an insertion; with the last the entry is in.    *)
LEMMA LinkKeeps ==
  ASSUME ValidatorInv, PointerInv, NEW t \in Threads, Link(t)
  PROVE  PointerInv' /\ (Walk(next') = Walk(next) \/ OneMore(Walk(next), Walk(next')))
  <1>1. PointerTypes /\ Roles
    BY DEF PointerInv
  <1>2. PICK s, f, g : Contents(s, f, g)
    BY DEF PointerInv
  <1>3. PICK e : e = op[t].entry
    OBVIOUS
  <1>4. PICK p : p = op[t].p
    OBVIOUS
  <1>5. PICK n : n = op[t].n
    OBVIOUS
  <1>6. /\ pc[t] \in Linking /\ UNCHANGED <<mutex, op, overlapped>>
        /\ \/ pc[t] = "link1" /\ prev' = [prev EXCEPT ![n] = e] /\ pc' = [pc EXCEPT ![t] = "link2"] /\ next' = next
           \/ pc[t] = "link2" /\ next' = [next EXCEPT ![e] = n] /\ pc' = [pc EXCEPT ![t] = "link3"] /\ prev' = prev
           \/ pc[t] = "link3" /\ prev' = [prev EXCEPT ![e] = p] /\ pc' = [pc EXCEPT ![t] = "link4"] /\ next' = next
           \/ pc[t] = "link4" /\ next' = [next EXCEPT ![p] = e] /\ pc' = [pc EXCEPT ![t] = "exit"] /\ prev' = prev
    BY <1>3, <1>4, <1>5 DEF Link, Goto, UnchangedValidator, Linking
  <1>7. t \notin Careless /\ mutex = t /\ Inside(t)
    BY <1>1, <1>6 DEF Roles, RoleOK, Linking, Inside, Section
  <1>8. TaskOK(t, s) /\ CursorOK(t, s) /\ Shape(t, f, g) /\ Holds(s, f, g)
    BY <1>2, <1>7 DEF Contents, ShapeOK
  <1>9. op[t].kind \in Adds /\ e \in Entries /\ EntryOwner[e] = t /\ ~Member(s, e)
    BY <1>3, <1>6, <1>8 DEF TaskOK
  <1>10. /\ op[t].kind = "add_head" => p = HeadEntry /\ n = f[HeadEntry]
         /\ op[t].kind = "add_tail" => p = g[HeadEntry] /\ n = HeadEntry
    BY <1>4, <1>5, <1>6, <1>8 DEF Shape
  <1>11. /\ e \in Nodes /\ p \in Nodes /\ n \in Nodes /\ Nodes \subseteq Pointer
         /\ f \in [Nodes -> Pointer] /\ g \in [Nodes -> Pointer]
    <2>1. f[HeadEntry] \in Nodes /\ g[HeadEntry] \in Nodes
      BY <1>8, HeldPointers
    <2> QED BY <1>8, <1>9, <1>10, <2>1 DEF Adds, Nodes, Pointer, Holds
  <1>12. PointerTypes'
    BY <1>1, <1>6, <1>11 DEF PointerTypes
  <1>13. op' = [op EXCEPT ![t] = op[t]] /\ op'[t] = op[t] /\ t # None
    BY <1>1, <1>6, ListAssumption DEF PointerTypes
  <1>14. PICK l \in {"link2", "link3", "link4", "exit"} : pc' = [pc EXCEPT ![t] = l] /\ pc'[t] = l
    BY <1>6 DEF ValidatorInv
  <1>15. RoleOK(t)'
    BY <1>6, <1>7, <1>14 DEF RoleOK
  <1>16. \A z : CursorOK(t, z)'
    BY <1>7, <1>9, <1>13, <1>14 DEF CursorOK, Adds
  <1>17. /\ (overlapped => overlapped') /\ overlapped' \in BOOLEAN
         /\ mutex' = mutex /\ mutex' = t /\ mutex' # None
    BY <1>6, <1>7, <1>13 DEF ValidatorInv
  <1>18. Walk(next) = s /\ Chain(s, next)
    BY <1>1, <1>2, WalkIsContents
  <1>19. CASE pc[t] # "link4"
    <2>1. l # "exit"
      BY <1>6, <1>14, <1>19 DEF ValidatorInv
    <2>2. TaskOK(t, s)'
      BY <1>3, <1>9, <1>13, <1>14, <2>1 DEF TaskOK, Adds, Linking
    <2>3. Shape(t, f, g)'
      <3>1. CASE pc[t] = "link1"
        <4>1. l = "link2" /\ next' = next /\ prev' = [prev EXCEPT ![n] = e]
          BY <1>6, <1>14, <3>1 DEF ValidatorInv
        <4>2. next = f /\ prev = g
          BY <1>8, <3>1 DEF Shape, Untouched
        <4> QED BY <1>3, <1>4, <1>5, <1>10, <1>13, <1>14, <4>1, <4>2 DEF Shape, Untouched
      <3>2. CASE pc[t] = "link2"
        <4>1. l = "link3" /\ next' = [next EXCEPT ![e] = n] /\ prev' = prev
          BY <1>6, <1>14, <3>2 DEF ValidatorInv
        <4>2. next = f /\ prev = [g EXCEPT ![n] = e]
          BY <1>3, <1>5, <1>8, <3>2 DEF Shape
        <4> QED BY <1>3, <1>4, <1>5, <1>10, <1>13, <1>14, <4>1, <4>2 DEF Shape, Untouched
      <3>3. CASE pc[t] = "link3"
        <4>1. l = "link4" /\ next' = next /\ prev' = [prev EXCEPT ![e] = p]
          BY <1>6, <1>14, <3>3 DEF ValidatorInv
        <4>2. next = [f EXCEPT ![e] = n] /\ prev = [g EXCEPT ![n] = e]
          BY <1>3, <1>5, <1>8, <3>3 DEF Shape
        <4> QED BY <1>3, <1>4, <1>5, <1>10, <1>13, <1>14, <4>1, <4>2 DEF Shape, Untouched
      <3> QED BY <1>6, <1>19, <3>1, <3>2, <3>3 DEF Linking
    <2>4. CursorOK(t, s)'
      BY <1>16
    <2>5. PointerInv'
      BY <1>1, <1>2, <1>8, <1>12, <1>13, <1>14, <1>15, <1>17, <2>2, <2>3, <2>4, StepKeeps
    <2>6. \A x \in Nodes : x # e => next'[x] = next[x]
      BY <1>1, <1>6, <1>19 DEF PointerTypes
    <2>7. Walk(next') = s
      BY <1>8, <1>9, <1>18, <2>6, OffList DEF Holds
    <2> QED BY <1>18, <2>5, <2>7
  <1>20. CASE pc[t] = "link4"
    <2>1. l = "exit" /\ next' = [next EXCEPT ![p] = e] /\ prev' = prev
      BY <1>6, <1>14, <1>20 DEF ValidatorInv
    <2>2. next' = [f EXCEPT ![e] = n, ![p] = e] /\ prev' = [g EXCEPT ![n] = e, ![e] = p]
      BY <1>3, <1>4, <1>5, <1>8, <1>20, <2>1 DEF Shape
    <2>3. PICK z : /\ Holds(z, next', prev') /\ z \in {<<e>> \o s, Append(s, e)}
                   /\ \A x \in Entries : x # e => (Member(z, x) <=> Member(s, x))
      <3>0. s \in Seq(Entries) /\ Len(s) \in Nat
        BY <1>8 DEF Holds, Distinct
      <3>1. CASE op[t].kind = "add_head"
        <4>1. Holds(<<e>> \o s, next', prev')
          BY <1>8, <1>9, <1>10, <2>2, <3>1, InsertedHead
        <4>2. \A x \in Entries : x # e => (Member(<<e>> \o s, x) <=> Member(s, x))
          <5>1. Len(<<e>> \o s) = Len(s) + 1 /\ (<<e>> \o s)[1] = e /\ \A i \in 1..Len(s) : (<<e>> \o s)[i + 1] = s[i]
            BY <1>9, <3>0
          <5>2. \A j \in 1..(Len(s) + 1) : j = 1 \/ (j - 1 \in 1..Len(s) /\ (j - 1) + 1 = j)
            BY <3>0
          <5>3. \A j \in 1..Len(s) : j + 1 \in 1..(Len(s) + 1)
            BY <3>0
          <5> QED BY <5>1, <5>2, <5>3 DEF Member
        <4> QED BY <4>1, <4>2
      <3>2. CASE op[t].kind = "add_tail"
        <4>1. Holds(Append(s, e), next', prev')
          BY <1>8, <1>9, <1>10, <2>2, <3>2, InsertedTail
        <4>2. \A x \in Entries : x # e => (Member(Append(s, e), x) <=> Member(s, x))
          <5>1. Len(Append(s, e)) = Len(s) + 1 /\ Append(s, e)[Len(s) + 1] = e /\ \A i \in 1..Len(s) : Append(s, e)[i] = s[i]
            BY <1>9, <3>0
          <5>2. \A j \in 1..(Len(s) + 1) : j = Len(s) + 1 \/ j \in 1..Len(s)
            BY <3>0
          <5>3. \A j \in 1..Len(s) : j \in 1..(Len(s) + 1)
            BY <3>0
          <5> QED BY <5>1, <5>2, <5>3 DEF Member
        <4> QED BY <4>1, <4>2
      <3> QED BY <1>9, <3>1, <3>2 DEF Adds
    <2>4. TaskOK(t, z)'
      BY <1>3, <1>9, <1>13, <1>14, <2>1 DEF TaskOK, Adds, Linking
    <2>5. PICK ff, gg : ff = next' /\ gg = prev'
      OBVIOUS
    <2>6. Shape(t, ff, gg)'
      BY <1>3, <1>9, <1>13, <1>14, <2>1, <2>5 DEF Shape, Untouched, Adds, Linking
    <2>7. CursorOK(t, z)'
      BY <1>16
    <2>8. \A x \in Entries : EntryOwner[x] # t => (Member(z, x) <=> Member(s, x))
      BY <1>9, <2>3
    <2>9. PointerInv'
      BY <1>1, <1>2, <1>7, <1>12, <1>13, <1>14, <1>15, <1>17, <2>3, <2>4, <2>5, <2>6, <2>7, <2>8, StepKeeps
    <2>10. Walk(next') = z
      BY <2>3, HeldBackwards
    <2> QED BY <1>9, <1>18, <2>3, <2>9, <2>10 DEF OneMore
  <1> QED BY <1>19, <1>20

(* The two assignments of a deletion; with the second the entry is out.    *)
LEMMA UnlinkKeeps ==
  ASSUME ValidatorInv, PointerInv, NEW t \in Threads, Unlink(t)
  PROVE  PointerInv' /\ (Walk(next') = Walk(next) \/ OneLess(Walk(next), Walk(next')))
  <1>1. PointerTypes /\ Roles
    BY DEF PointerInv
  <1>2. PICK s, f, g : Contents(s, f, g)
    BY DEF PointerInv
  <1>3. PICK e : e = op[t].entry
    OBVIOUS
  <1>4. /\ pc[t] \in {"unlink1", "unlink2"} /\ UNCHANGED <<mutex, op, overlapped>>
        /\ \/ pc[t] = "unlink1" /\ prev' = [prev EXCEPT ![next[e]] = prev[e]] /\ pc' = [pc EXCEPT ![t] = "unlink2"] /\ next' = next
           \/ pc[t] = "unlink2" /\ next' = [next EXCEPT ![prev[e]] = next[e]] /\ pc' = [pc EXCEPT ![t] = "exit"] /\ prev' = prev
    BY <1>3 DEF Unlink, Goto, UnchangedValidator
  <1>5. t \notin Careless /\ mutex = t /\ Inside(t)
    BY <1>1, <1>4 DEF Roles, RoleOK, Inside, Section
  <1>6. TaskOK(t, s) /\ Shape(t, f, g) /\ Holds(s, f, g)
    BY <1>2, <1>5 DEF Contents, ShapeOK
  <1>7. op[t].kind = "del" /\ e \in Entries /\ EntryOwner[e] = t /\ Member(s, e)
    BY <1>3, <1>4, <1>6 DEF TaskOK
  <1>8. PICK k \in 1..Len(s) : s[k] = e
    BY <1>7 DEF Member
  <1>9. f[e] \in Nodes /\ g[e] \in Nodes /\ f[e] # e /\ g[e] # e
    <2>1. f[s[k]] \in Nodes /\ g[s[k]] \in Nodes
      BY <1>6, HeldPointers
    <2>2. f[e] # e /\ g[e] # e
      BY <1>6, <1>8, NotItself
    <2> QED BY <1>8, <2>1, <2>2
  <1>10. /\ e \in Nodes /\ Nodes \subseteq Pointer
         /\ f \in [Nodes -> Pointer] /\ g \in [Nodes -> Pointer]
    BY <1>6, <1>7 DEF Nodes, Pointer, Holds
  <1>11. op' = [op EXCEPT ![t] = op[t]] /\ op'[t] = op[t] /\ t # None
    BY <1>1, <1>4, ListAssumption DEF PointerTypes
  <1>12. PICK l \in {"unlink2", "exit"} : pc' = [pc EXCEPT ![t] = l] /\ pc'[t] = l
    BY <1>4 DEF ValidatorInv
  <1>13. RoleOK(t)'
    BY <1>4, <1>5, <1>12 DEF RoleOK
  <1>14. \A z : CursorOK(t, z)'
    BY <1>5, <1>7, <1>11, <1>12 DEF CursorOK
  <1>15. /\ (overlapped => overlapped') /\ overlapped' \in BOOLEAN
         /\ mutex' = mutex /\ mutex' = t /\ mutex' # None
    BY <1>4, <1>5, <1>11 DEF ValidatorInv
  <1>16. CASE pc[t] = "unlink1"
    <2>1. l = "unlink2" /\ next' = next /\ prev' = [prev EXCEPT ![next[e]] = prev[e]]
      BY <1>4, <1>12, <1>16 DEF ValidatorInv
    <2>2. next = f /\ prev = g
      BY <1>6, <1>16 DEF Shape, Untouched
    <2>3. PointerTypes'
      BY <1>1, <1>4, <1>9, <1>10, <2>1, <2>2 DEF PointerTypes
    <2>4. Shape(t, f, g)'
      BY <1>3, <1>7, <1>11, <1>12, <2>1, <2>2 DEF Shape, Untouched, Linking
    <2>5. TaskOK(t, s)'
      BY <1>3, <1>7, <1>11, <1>12, <2>1 DEF TaskOK, Adds, Linking
    <2>6. CursorOK(t, s)'
      BY <1>14
    <2>7. PointerInv'
      BY <1>1, <1>2, <1>6, <1>11, <1>12, <1>13, <1>15, <2>3, <2>4, <2>5, <2>6, StepKeeps
    <2> QED BY <2>1, <2>7
  <1>17. CASE pc[t] = "unlink2"
    <2>1. l = "exit" /\ next' = [next EXCEPT ![prev[e]] = next[e]] /\ prev' = prev
      BY <1>4, <1>12, <1>17 DEF ValidatorInv
    <2>2. next = f /\ prev = [g EXCEPT ![f[e]] = g[e]]
      BY <1>3, <1>6, <1>17 DEF Shape
    <2>3. prev[e] = g[e] /\ next[e] = f[e]
      BY <1>9, <1>10, <2>2
    <2>4. next' = [f EXCEPT ![g[e]] = f[e]] /\ prev' = [g EXCEPT ![f[e]] = g[e]]
      BY <2>1, <2>2, <2>3
    <2>5. PointerTypes'
      BY <1>1, <1>4, <1>9, <1>10, <2>4 DEF PointerTypes
    <2>6. PICK ff, gg : ff = [f EXCEPT ![g[e]] = f[e], ![e] = None] /\ gg = [g EXCEPT ![f[e]] = g[e], ![e] = None]
      OBVIOUS
    <2>7. PICK z : z = Without(s, k)
      OBVIOUS
    <2>8. Holds(z, ff, gg) /\ \A x \in Entries : Member(z, x) <=> Member(s, x) /\ x # e
      BY <1>6, <1>7, <1>8, <2>6, <2>7, Removed
    <2>9. \A x \in Nodes : x # e => next'[x] = ff[x] /\ prev'[x] = gg[x]
      BY <1>9, <1>10, <2>4, <2>6
    <2>10. Shape(t, ff, gg)'
      BY <1>3, <1>7, <1>11, <1>12, <2>1, <2>9 DEF Shape, Untouched, Linking
    <2>11. TaskOK(t, z)'
      BY <1>3, <1>7, <1>11, <1>12, <2>1, <2>8 DEF TaskOK, Adds, Linking
    <2>12. CursorOK(t, z)'
      BY <1>14
    <2>13. \A x \in Entries : EntryOwner[x] # t => (Member(z, x) <=> Member(s, x))
      BY <1>7, <2>8
    <2>14. PointerInv'
      BY <1>1, <1>2, <1>5, <1>11, <1>12, <1>13, <1>15, <2>5, <2>8, <2>10, <2>11, <2>12, <2>13, StepKeeps
    <2>15. Walk(next') = z
      BY <1>7, <2>8, <2>9, OffList DEF Holds
    <2>16. Walk(next) = s
      BY <1>1, <1>2, WalkIsContents
    <2> QED BY <2>7, <2>14, <2>15, <2>16 DEF OneLess
  <1> QED BY <1>4, <1>16, <1>17

(* The deleted entry is unlinked from both sides.                          *)
LEMMA InitEntryKeeps ==
  ASSUME ValidatorInv, PointerInv, NEW t \in Threads, InitEntry(t)
  PROVE  PointerInv' /\ Walk(next') = Walk(next)
  <1>1. PointerTypes /\ Roles
    BY DEF PointerInv
  <1>2. PICK s, f, g : Contents(s, f, g)
    BY DEF PointerInv
  <1>3. PICK e : e = op[t].entry
    OBVIOUS
  <1>4. /\ pc[t] = "init" /\ UNCHANGED <<mutex, op, overlapped>> /\ pc' = [pc EXCEPT ![t] = "unlock"]
        /\ next' = [next EXCEPT ![e] = None] /\ prev' = [prev EXCEPT ![e] = None]
    BY <1>3 DEF InitEntry, Goto, UnchangedValidator
  <1>5. t \notin Careless /\ mutex = t
    BY <1>1, <1>4 DEF Roles, RoleOK
  <1>6. TaskOK(t, s) /\ Shape(t, f, g) /\ Holds(s, f, g)
    BY <1>2, <1>5 DEF Contents, ShapeOK
  <1>7. op[t].kind = "del" /\ e \in Entries /\ EntryOwner[e] = t /\ ~Member(s, e)
    BY <1>3, <1>4, <1>6 DEF TaskOK
  <1>8. /\ e \in Nodes /\ None \in Pointer /\ f[e] = None /\ g[e] = None
        /\ f \in [Nodes -> Pointer] /\ g \in [Nodes -> Pointer]
    BY <1>6, <1>7 DEF Nodes, Pointer, Holds
  <1>9. \A x \in Nodes : x # e => next[x] = f[x] /\ prev[x] = g[x]
    BY <1>3, <1>4, <1>6 DEF Shape
  <1>10. PointerTypes'
    BY <1>1, <1>4, <1>8 DEF PointerTypes
  <1>11. next' = f /\ prev' = g
    <2>1. next' \in [Nodes -> Pointer] /\ prev' \in [Nodes -> Pointer]
      BY <1>10 DEF PointerTypes
    <2>2. \A x \in Nodes : next'[x] = f[x] /\ prev'[x] = g[x]
      BY <1>1, <1>4, <1>8, <1>9 DEF PointerTypes
    <2> QED BY <1>8, <2>1, <2>2
  <1>12. op' = [op EXCEPT ![t] = op[t]] /\ op'[t] = op[t] /\ t # None /\ pc'[t] = "unlock"
    BY <1>1, <1>4, ListAssumption DEF PointerTypes, ValidatorInv
  <1>13. RoleOK(t)' /\ CursorOK(t, s)'
    BY <1>4, <1>5, <1>12 DEF RoleOK, CursorOK
  <1>14. /\ (overlapped => overlapped') /\ overlapped' \in BOOLEAN
         /\ mutex' = mutex /\ mutex' = t /\ mutex' # None
    BY <1>4, <1>5, <1>12 DEF ValidatorInv
  <1>15. Shape(t, f, g)'
    BY <1>11, <1>12 DEF Shape, Untouched, Linking
  <1>16. TaskOK(t, s)'
    BY <1>3, <1>7, <1>12 DEF TaskOK, Adds, Linking
  <1>17. PointerInv'
    BY <1>1, <1>2, <1>4, <1>6, <1>10, <1>12, <1>13, <1>14, <1>15, <1>16, StepKeeps
  <1>18. Walk(next') = s
    BY <1>6, <1>11, HeldBackwards
  <1>19. Walk(next) = s
    BY <1>1, <1>2, WalkIsContents
  <1> QED BY <1>17, <1>18, <1>19

LEMMA ExitKeeps ==
  ASSUME ValidatorInv, PointerInv, NEW t \in Threads, Exit(t)
  PROVE  PointerInv'
  <1>1. PointerTypes /\ Roles
    BY DEF PointerInv
  <1>2. PICK s, f, g : Contents(s, f, g)
    BY DEF PointerInv
  <1>3. /\ pc[t] = "exit" /\ UNCHANGED <<next, prev, mutex, overlapped>> /\ t # None /\ overlapped' \in BOOLEAN
    BY ListAssumption DEF Exit, validator_exit, ValidatorInv
  <1>4. TaskOK(t, s)
    BY <1>2 DEF Contents
  <1>5. CASE t \in Careless
    <2>1. pc' = [pc EXCEPT ![t] = "idle"] /\ op' = [op EXCEPT ![t] = Idle] /\ Idle \in OpType /\ Idle.kind = "none"
      <3>1. <<>> \in Seq(Entries) /\ None \in Pointer
        BY DEF Pointer
      <3> QED BY <1>5, <3>1 DEF Exit, Return, Goto, OpType, Idle
    <2>2. pc'[t] = "idle" /\ op'[t] = Idle
      BY <1>1, <2>1 DEF PointerTypes, ValidatorInv
    <2>3. mutex # t
      BY <1>1, <1>5 DEF Roles, RoleOK
    <2>4. RoleOK(t)' /\ TaskOK(t, s)' /\ CursorOK(t, s)'
      BY <1>3, <1>5, <2>1, <2>2, <2>3 DEF RoleOK, TaskOK, CursorOK, Adds, Linking
    <2> QED BY <1>1, <1>2, <1>3, <2>1, <2>3, <2>4, QuietStep
  <1>6. CASE t \notin Careless
    <2>1. PICK l : /\ pc' = [pc EXCEPT ![t] = l] /\ op' = op
                   /\ l = IF op[t].kind = "del" THEN "init" ELSE "unlock"
      BY <1>6 DEF Exit, Goto
    <2>2. op' = [op EXCEPT ![t] = op[t]] /\ op[t] \in OpType /\ op'[t] = op[t] /\ pc'[t] = l
      BY <1>1, <2>1 DEF PointerTypes, OpType, ValidatorInv
    <2>3. mutex = t
      BY <1>1, <1>3, <1>6 DEF Roles, RoleOK
    <2>4. RoleOK(t)' /\ CursorOK(t, s)'
      BY <1>3, <1>6, <2>1, <2>2, <2>3 DEF RoleOK, CursorOK
    <2>5. TaskOK(t, s)'
      BY <1>3, <1>4, <2>1, <2>2 DEF TaskOK, Adds, Linking
    <2>6. Shape(t, f, g)
      BY <1>2, <2>3 DEF Contents, ShapeOK
    <2>7. Shape(t, f, g)'
      BY <1>3, <2>1, <2>2, <2>6 DEF Shape, Untouched, Linking
    <2> QED BY <1>1, <1>2, <1>3, <2>1, <2>2, <2>3, <2>4, <2>5, <2>7, QuietStep
  <1> QED BY <1>5, <1>6

LEMMA UnlockKeeps ==
  ASSUME ValidatorInv, PointerInv, NEW t \in Threads, Unlock(t)
  PROVE  PointerInv'
  <1>1. PointerTypes /\ Roles
    BY DEF PointerInv
  <1>2. PICK s, f, g : Contents(s, f, g)
    BY DEF PointerInv
  <1>3. /\ pc[t] = "unlock" /\ mutex' = None /\ UNCHANGED <<next, prev, overlapped>> /\ t # None
        /\ overlapped' \in BOOLEAN
    BY ListAssumption DEF Unlock, UnchangedValidator, ValidatorInv
  <1>4. pc' = [pc EXCEPT ![t] = "idle"] /\ op' = [op EXCEPT ![t] = Idle] /\ Idle \in OpType /\ Idle.kind = "none"
    <2>1. <<>> \in Seq(Entries) /\ None \in Pointer
      BY DEF Pointer
    <2> QED BY <2>1 DEF Unlock, Return, Goto, OpType, Idle
  <1>5. pc'[t] = "idle" /\ op'[t] = Idle
    BY <1>1, <1>4 DEF PointerTypes, ValidatorInv
  <1>6. t \notin Careless /\ mutex = t
    BY <1>1, <1>3 DEF Roles, RoleOK
  <1>7. RoleOK(t)' /\ TaskOK(t, s)' /\ CursorOK(t, s)'
    BY <1>3, <1>4, <1>5, <1>6 DEF RoleOK, TaskOK, CursorOK, Adds, Linking
  <1>8. next = f /\ prev = g
    BY <1>2, <1>3, <1>6 DEF Contents, ShapeOK, Shape, Untouched
  <1> QED BY <1>1, <1>2, <1>3, <1>4, <1>6, <1>7, <1>8, QuietStep

(* A cursor on the list moves along the list.                              *)
LEMMA IterateKeeps ==
  ASSUME ValidatorInv, PointerInv, NEW t \in Threads, Iterate(t)
  PROVE  PointerInv'
  <1>1. PointerTypes /\ Roles
    BY DEF PointerInv
  <1>2. PICK s, f, g : Contents(s, f, g)
    BY DEF PointerInv
  <1>3. PICK pos : pos = op[t].n
    OBVIOUS
  <1>4. PICK seen : seen = op[t].seen
    OBVIOUS
  <1>5. /\ pc[t] \in {"first", "each"} /\ UNCHANGED <<next, prev, mutex, overlapped>> /\ t # None
        /\ overlapped' \in BOOLEAN /\ (overlapped => overlapped')
    BY ListAssumption DEF Iterate, UnchangedValidator, ValidatorInv
  <1>6. TaskOK(t, s) /\ CursorOK(t, s) /\ Holds(s, f, g) /\ Chain(s, next)
    BY <1>1, <1>2, WalkIsContents DEF Contents
  <1>7. op[t].kind = "each" /\ op[t] \in OpType /\ seen \in Seq(Entries) /\ Len(seen) \in Nat
    BY <1>1, <1>4, <1>5, <1>6 DEF TaskOK, PointerTypes, OpType
  <1>8. /\ Len(s) \in Nat /\ s \in Seq(Entries)
        /\ At(s, 0) = HeadEntry /\ At(s, Len(s) + 1) = HeadEntry
        /\ \A i \in 0..(Len(s) + 1) : At(s, i) \in Nodes /\ At(s, i) # None
        /\ \A i \in 1..Len(s) : At(s, i) = s[i] /\ At(s, i) \in Entries /\ At(s, i) # HeadEntry
    BY <1>6, AtFacts DEF Holds
  <1>9. \A i \in 1..(Len(s) + 1) : At(s, i) = HeadEntry \/ Member(s, At(s, i))
    <2> TAKE i \in 1..(Len(s) + 1)
    <2>1. i = Len(s) + 1 \/ i \in 1..Len(s)
      BY <1>8
    <2> QED BY <1>8, <2>1 DEF Member
  <1>10. ASSUME NEW l, NEW o \in OpType, pc' = [pc EXCEPT ![t] = l], op' = [op EXCEPT ![t] = o],
                l \in {"each", "exit", "crashed"}, o.kind = "each", CursorOK(t, s)',
                l = "crashed" => t \in Careless
         PROVE  PointerInv'
    <2>1. pc'[t] = l /\ op'[t] = o
      BY <1>1, <1>10 DEF PointerTypes, ValidatorInv
    <2>2. RoleOK(t)'
      BY <1>1, <1>5, <1>10, <2>1 DEF Roles, RoleOK
    <2>3. TaskOK(t, s)'
      BY <1>10, <2>1 DEF TaskOK, Adds, Linking
    <2>4. mutex' = t => Shape(t, f, g)'
      <3>1. mutex = t => next = f /\ prev = g /\ t \notin Careless
        BY <1>1, <1>2, <1>5 DEF Contents, ShapeOK, Shape, Untouched, Roles, RoleOK
      <3> QED BY <1>5, <1>10, <2>1, <3>1 DEF Shape, Untouched, Linking
    <2> QED BY <1>1, <1>2, <1>5, <1>10, <2>2, <2>3, <2>4, QuietStep
  <1>11. CASE pc[t] = "first"
    <2> DEFINE o == [op[t] EXCEPT !.n = next[HeadEntry]]
    <2>1. pc' = [pc EXCEPT ![t] = "each"] /\ op' = [op EXCEPT ![t] = o]
      BY <1>1, <1>11 DEF Iterate, Goto, PointerTypes
    <2>2. next[HeadEntry] = At(s, 1)
      <3>1. next[At(s, 0)] = At(s, 0 + 1)
        BY <1>6, <1>8 DEF Chain
      <3> QED BY <1>8, <3>1
    <2>3. /\ o \in OpType /\ o.kind = "each" /\ o.n = At(s, 1) /\ o.seen = seen
      BY <1>4, <1>7, <1>8, <2>2 DEF OpType, Nodes, Pointer
    <2> HIDE DEF o
    <2>4. pc'[t] = "each" /\ op'[t] = o
      BY <1>1, <2>1 DEF PointerTypes, ValidatorInv
    <2>5. seen = <<>> /\ Len(seen) = 0
      BY <1>4, <1>6, <1>11 DEF CursorOK
    <2>6. o.n = HeadEntry \/ Member(s, o.n)
      BY <1>8, <1>9, <2>3
    <2>7. Len(o.seen) = 0 /\ Len(o.seen) <= Len(s) /\ o.n = At(s, Len(o.seen) + 1)
          /\ \A i \in 1..Len(o.seen) : o.seen[i] = s[i]
      BY <1>8, <2>3, <2>5
    <2>8. CursorOK(t, s)'
      BY <2>4, <2>6, <2>7 DEF CursorOK
    <2> QED BY <1>10, <2>1, <2>3, <2>8
  <1>12. CASE pc[t] = "each" /\ pos = HeadEntry
    <2>1. pc' = [pc EXCEPT ![t] = "exit"] /\ op' = op
      BY <1>3, <1>12, ListAssumption DEF Iterate, Goto
    <2>2. op' = [op EXCEPT ![t] = op[t]] /\ op'[t] = op[t] /\ pc'[t] = "exit"
      BY <1>1, <2>1 DEF PointerTypes, ValidatorInv
    <2>3. t \notin Careless => seen = s
      <3> SUFFICES ASSUME t \notin Careless PROVE seen = s
        OBVIOUS
      <3>1. Len(seen) <= Len(s) /\ At(s, Len(seen) + 1) = HeadEntry /\ \A i \in 1..Len(seen) : seen[i] = s[i]
        BY <1>3, <1>4, <1>6, <1>12 DEF CursorOK
      <3>2. Len(seen) + 1 \notin 1..Len(s)
        BY <1>8, <3>1
      <3>3. Len(seen) = Len(s)
        BY <1>7, <1>8, <3>1, <3>2
      <3> QED BY <1>7, <1>8, <3>1, <3>3
    <2>4. CursorOK(t, s)'
      BY <1>4, <2>2, <2>3 DEF CursorOK
    <2> QED BY <1>7, <1>10, <2>1, <2>2, <2>4
  <1>13. CASE pc[t] = "each" /\ pos \in Entries
    <2> DEFINE o == [op[t] EXCEPT !.n = next[pos], !.seen = IF t \in Careless THEN @ ELSE Append(@, pos)]
    <2>0. pos # HeadEntry /\ pos # None
      BY <1>13, ListAssumption
    <2>1. pc' = pc /\ op' = [op EXCEPT ![t] = o]
      BY <1>1, <1>3, <1>13, <2>0 DEF Iterate, PointerTypes
    <2>2. pc' = [pc EXCEPT ![t] = "each"] /\ pc'[t] = "each"
      BY <1>13, <2>1 DEF ValidatorInv
    <2>3. /\ o \in OpType /\ o.kind = "each" /\ o.n = next[pos]
          /\ t \notin Careless => o.seen = Append(seen, pos)
      <3>1. next[pos] \in Pointer
        BY <1>1, <1>13 DEF PointerTypes, Nodes
      <3>2. (IF t \in Careless THEN seen ELSE Append(seen, pos)) \in Seq(Entries)
        BY <1>7, <1>13
      <3> QED BY <1>4, <1>7, <3>1, <3>2 DEF OpType
    <2> HIDE DEF o
    <2>4. op'[t] = o
      BY <1>1, <2>1 DEF PointerTypes
    <2>5. \A k \in 1..Len(s) : s[k] = pos => o.n = At(s, k + 1)
      <3> SUFFICES ASSUME NEW k \in 1..Len(s), s[k] = pos PROVE o.n = At(s, k + 1)
        OBVIOUS
      <3>1. next[At(s, k)] = At(s, k + 1)
        BY <1>6, <1>8 DEF Chain
      <3> QED BY <1>8, <2>3, <3>1
    <2>6. t \in Careless /\ ~overlapped => o.n = HeadEntry \/ Member(s, o.n)
      <3> SUFFICES ASSUME t \in Careless /\ ~overlapped PROVE o.n = HeadEntry \/ Member(s, o.n)
        OBVIOUS
      <3>1. PICK k \in 1..Len(s) : s[k] = pos
        BY <1>3, <1>6, <1>13, <2>0 DEF CursorOK, Member
      <3>2. k + 1 \in 1..(Len(s) + 1)
        BY <1>8
      <3> QED BY <1>9, <2>5, <3>1, <3>2
    <2>7. t \notin Careless => /\ Len(o.seen) <= Len(s) /\ o.n = At(s, Len(o.seen) + 1)
                               /\ \A i \in 1..Len(o.seen) : o.seen[i] = s[i]
      <3> SUFFICES ASSUME t \notin Careless
                   PROVE  /\ Len(o.seen) <= Len(s) /\ o.n = At(s, Len(o.seen) + 1)
                          /\ \A i \in 1..Len(o.seen) : o.seen[i] = s[i]
        OBVIOUS
      <3>1. Len(seen) <= Len(s) /\ At(s, Len(seen) + 1) = pos /\ \A i \in 1..Len(seen) : seen[i] = s[i]
        BY <1>3, <1>4, <1>6, <1>13 DEF CursorOK
      <3>2. Len(seen) + 1 \in 1..Len(s)
        BY <1>7, <1>8, <2>0, <3>1 DEF At
      <3>3. s[Len(seen) + 1] = pos
        BY <1>8, <3>1, <3>2
      <3>4. Len(o.seen) = Len(seen) + 1 /\ o.seen[Len(seen) + 1] = pos /\ \A i \in 1..Len(seen) : o.seen[i] = seen[i]
        BY <1>7, <1>13, <2>3
      <3>5. \A i \in 1..(Len(seen) + 1) : i \in 1..Len(seen) \/ i = Len(seen) + 1
        BY <1>7
      <3>6. \A i \in 1..Len(o.seen) : o.seen[i] = s[i]
        BY <3>1, <3>3, <3>4, <3>5
      <3>7. o.n = At(s, Len(o.seen) + 1)
        BY <2>5, <3>2, <3>3, <3>4
      <3> QED BY <1>7, <1>8, <3>2, <3>4, <3>6, <3>7
    <2>8. CursorOK(t, s)'
      BY <1>5, <2>2, <2>4, <2>6, <2>7 DEF CursorOK
    <2> QED BY <1>10, <2>1, <2>2, <2>3, <2>8
  <1>14. CASE pc[t] = "each" /\ pos = None
    <2>1. pc' = [pc EXCEPT ![t] = "crashed"] /\ op' = op
      BY <1>3, <1>14, ListAssumption DEF Iterate, Goto
    <2>2. op' = [op EXCEPT ![t] = op[t]] /\ op'[t] = op[t] /\ pc'[t] = "crashed"
      BY <1>1, <2>1 DEF PointerTypes, ValidatorInv
    <2>3. t \in Careless
      <3> SUFFICES ASSUME t \notin Careless PROVE FALSE
        OBVIOUS
      <3>1. Len(seen) <= Len(s) /\ pos = At(s, Len(seen) + 1)
        BY <1>3, <1>4, <1>6, <1>14 DEF CursorOK
      <3>2. Len(seen) + 1 \in 0..(Len(s) + 1)
        BY <1>7, <1>8, <3>1
      <3> QED BY <1>8, <1>14, <3>1, <3>2
    <2>4. overlapped
      <3> SUFFICES ASSUME ~overlapped PROVE FALSE
        OBVIOUS
      <3>1. pos = HeadEntry \/ Member(s, pos)
        BY <1>3, <1>6, <1>14, <2>3 DEF CursorOK
      <3> QED BY <1>8, <1>14, <3>1, ListAssumption DEF Member
    <2>5. CursorOK(t, s)'
      BY <1>5, <2>2, <2>4 DEF CursorOK
    <2> QED BY <1>7, <1>10, <2>1, <2>2, <2>3, <2>5
  <1>15. pc[t] = "first" \/ (pc[t] = "each" /\ (pos = HeadEntry \/ pos \in Entries \/ pos = None))
    BY <1>3, <1>5, <1>7 DEF OpType, Pointer
  <1> QED BY <1>11, <1>12, <1>13, <1>14, <1>15

-----------------------------------------------------------------------------
(* list_init: the empty list.                                              *)
LEMMA PointerInit == ListInit => PointerInv
  <1> SUFFICES ASSUME ListInit PROVE PointerInv
    OBVIOUS
  <1>1. <<>> \in Seq(Entries) /\ Len(<<>>) = 0 /\ None \in Pointer /\ HeadEntry \in Pointer
        /\ HeadEntry \in Nodes /\ HeadEntry # None
    BY ListAssumption DEF Pointer, Nodes
  <1>2. /\ next \in [Nodes -> Pointer] /\ prev = next /\ next[HeadEntry] = HeadEntry
        /\ \A e \in Entries : next[e] = None
    BY <1>1, ListAssumption DEF ListInit, Nodes
  <1>3. Idle \in OpType /\ Idle.kind = "none"
    BY <1>1 DEF OpType, Idle
  <1>4. PointerTypes
    BY <1>2, <1>3 DEF ListInit, PointerTypes, OpType
  <1>5. \A t \in Threads : pc[t] = "idle" /\ op[t] = Idle /\ mutex # t /\ mutex = None
    BY ListAssumption DEF ListInit
  <1>6. Roles
    BY <1>5 DEF Roles, RoleOK
  <1>7. Holds(<<>>, next, prev)
    <2>1. Distinct(<<>>)
      BY <1>1 DEF Distinct
    <2>2. \A i \in 0..Len(<<>>) : At(<<>>, i) = HeadEntry /\ At(<<>>, i + 1) = HeadEntry
      BY <1>1 DEF At
    <2> QED BY <1>2, <2>1, <2>2 DEF Holds, Chain, BackChain
  <1>8. \A t \in Threads : TaskOK(t, <<>>) /\ CursorOK(t, <<>>)
    BY <1>3, <1>5 DEF TaskOK, CursorOK, Adds, Linking
  <1>9. ShapeOK(next, prev)
    BY <1>5 DEF ShapeOK
  <1> QED BY <1>4, <1>6, <1>7, <1>8, <1>9 DEF PointerInv, Contents

(* Every step keeps the invariant, and changes the sequence by one entry   *)
(* at most.                                                                *)
ListMove == Walk(next') = Walk(next) \/ OneMore(Walk(next), Walk(next')) \/ OneLess(Walk(next), Walk(next'))
LEMMA PointerStep ==
  ASSUME ValidatorInv, PointerInv, [ListNext]_listVars
  PROVE  PointerInv' /\ ListMove
  <1>1. CASE UNCHANGED listVars
    <2>1. UNCHANGED <<next, prev, mutex, overlapped, pc, op>>
      BY <1>1 DEF listVars
    <2>2. PointerInv'
      BY <2>1 DEF PointerInv, PointerTypes, Roles, RoleOK, Contents, ShapeOK, Shape, Untouched, TaskOK, CursorOK
    <2> QED BY <2>1, <2>2 DEF ListMove
  <1>2. ASSUME NEW e \in Entries, EntryOwner[e] \notin Careless,
               list_add_head(e) \/ list_add_tail(e) \/ list_del(e)
        PROVE  PointerInv' /\ ListMove
    <2>1. PICK t \in Threads : t = EntryOwner[e]
      BY ListAssumption
    <2>2. PICK kind \in {"add_head", "add_tail", "del"} :
             Begin(t, kind, e) /\ (kind \in Adds => next[e] = None) /\ (kind = "del" => next[e] # None)
      BY <1>2, <2>1 DEF list_add_head, list_add_tail, list_del, Adds
    <2>3. PointerInv'
      BY <1>2, <2>1, <2>2, BeginKeeps
    <2>4. next' = next
      BY <2>2 DEF Begin
    <2> QED BY <2>3, <2>4 DEF ListMove
  <1>3. ASSUME NEW t \in Threads, list_for_each(t)
        PROVE  PointerInv' /\ ListMove
    <2>1. Begin(t, "each", None)
      BY <1>3 DEF list_for_each
    <2>2. PointerInv'
      BY <2>1, BeginKeeps DEF Adds
    <2>3. next' = next
      BY <2>1 DEF Begin
    <2> QED BY <2>2, <2>3 DEF ListMove
  <1>4. ASSUME NEW t \in Threads, Link(t) \/ Unlink(t) \/ InitEntry(t)
        PROVE  PointerInv' /\ ListMove
    BY <1>4, LinkKeeps, UnlinkKeeps, InitEntryKeeps DEF ListMove
  <1>5. ASSUME NEW t \in Threads, Lock(t) \/ Args(t) \/ Enter(t) \/ Iterate(t) \/ Exit(t) \/ Unlock(t)
        PROVE  PointerInv' /\ ListMove
    <2>1. PointerInv'
      BY <1>5, LockKeeps, ArgsKeeps, EnterKeeps, IterateKeeps, ExitKeeps, UnlockKeeps
    <2>2. next' = next
      BY <1>5 DEF Lock, Args, Enter, Iterate, Exit, Unlock
    <2> QED BY <2>1, <2>2 DEF ListMove
  <1> QED BY <1>1, <1>2, <1>3, <1>4, <1>5 DEF ListNext, ListStep

(* What the invariant says of a state.                                     *)
LEMMA PointersSound ==
  ASSUME ValidatorInv, PointerInv
  PROVE  ListTypeOK /\ BothWays /\ IterationSound
  <1>1. PointerTypes /\ Roles
    BY DEF PointerInv
  <1>2. PICK s, f, g : Contents(s, f, g)
    BY DEF PointerInv
  <1>3. Holds(s, f, g) /\ Walk(next) = s
    BY <1>1, <1>2, WalkIsContents DEF Contents
  <1>4. ListTypeOK
    <2>1. next[HeadEntry] # None /\ prev[HeadEntry] # None
      BY <1>1, <1>2, NextFacts
    <2> QED BY <1>1, <2>1 DEF ListTypeOK, PointerTypes, ValidatorInv, Nodes
  <1>5. BothWays
    <2> SUFFICES ASSUME mutex = None
                 PROVE  /\ Len(Walk(prev)) = Len(Walk(next))
                        /\ \A k \in 1..Len(Walk(next)) : Walk(prev)[k] = Walk(next)[Len(Walk(next)) + 1 - k]
                        /\ \A e \in Entries : (next[e] # None) = (\E k \in 1..Len(Walk(next)) : Walk(next)[k] = e)
      BY DEF BothWays
    <2>1. next = f /\ prev = g
      BY <1>2 DEF Contents, ShapeOK
    <2>2. Walk(prev) = Reversed(s) /\ Len(s) \in Nat
      BY <1>3, <2>1, HeldBackwards DEF Holds, Distinct
    <2>3. Len(Reversed(s)) = Len(s) /\ \A k \in 1..Len(s) : Reversed(s)[k] = s[Len(s) + 1 - k]
      BY <2>2 DEF Reversed
    <2>4. \A e \in Entries : next[e] # None <=> Member(s, e)
      BY <1>3, <2>1, HeldPointers
    <2> QED BY <1>3, <2>2, <2>3, <2>4 DEF Member
  <1>6. IterationSound
    <2> SUFFICES ASSUME NEW t \in Threads
                 PROVE  /\ pc[t] = "exit" /\ op[t].kind = "each" /\ t \notin Careless => op[t].seen = Walk(next)
                        /\ pc[t] = "crashed" => t \in Careless /\ reported
      BY DEF IterationSound
    <2>1. CursorOK(t, s) /\ RoleOK(t)
      BY <1>1, <1>2 DEF Contents, Roles
    <2> QED BY <1>3, <2>1 DEF CursorOK, RoleOK, ValidatorInv, ValidatorExact
  <1> QED BY <1>4, <1>5, <1>6

(* For any threads and entries, every interleaving of the single           *)
(* assignments of __list_insert and list_del: while the mutex is free the  *)
(* list reads the same along next and along prev and holds exactly the     *)
(* linked entries; list_for_each under the mutex visits all of it; and     *)
(* one without the mutex follows a NULL pointer only after the validator   *)
(* has reported an overlap.                                                *)
THEOREM ListCorrect == ListSpec => [](ListTypeOK /\ BothWays /\ IterationSound)
  <1>1. ListInit => ValidatorInv /\ PointerInv
    BY ValidatorInit, PointerInit
  <1>2. ValidatorInv /\ PointerInv /\ [ListNext]_listVars => (ValidatorInv /\ PointerInv)'
    BY ValidatorStep, PointerStep
  <1>3. ValidatorInv /\ PointerInv => ListTypeOK /\ BothWays /\ IterationSound
    BY PointersSound
  <1> QED BY <1>1, <1>2, <1>3, PTL DEF ListSpec

(* The list of list.h implements the sequence it promises: seen along next *)
(* every assignment leaves it as it was, or with one entry more at an end, *)
(* or with one entry less.                                                 *)
THEOREM ListRefinesSequence == ListSpec => ImplementsSequence
  <1>1. ListInit => ValidatorInv /\ PointerInv
    BY ValidatorInit, PointerInit
  <1>2. ValidatorInv /\ PointerInv /\ [ListNext]_listVars => (ValidatorInv /\ PointerInv)'
    BY ValidatorStep, PointerStep
  <1>3. ListInit => Sequence!SeqInit
    <2> SUFFICES ASSUME ListInit PROVE Walk(next) = <<>>
      BY DEF Sequence!SeqInit
    <2>1. next[HeadEntry] = HeadEntry
      BY DEF ListInit
    <2>2. Distinct(<<>>) /\ Chain(<<>>, next)
      BY <2>1 DEF Distinct, Chain, At
    <2> QED BY <2>2, WalkIs
  <1>4. ValidatorInv /\ PointerInv /\ [ListNext]_listVars => [Sequence!SeqNext]_(Walk(next))
    <2> SUFFICES ASSUME ListMove, Walk(next) \in Seq(Entries) PROVE Sequence!SeqNext \/ Walk(next') = Walk(next)
      BY PointerStep, WalkIsSequence
    <2>1. ASSUME OneMore(Walk(next), Walk(next')) PROVE Sequence!SeqNext
      BY <2>1 DEF OneMore, Member, Sequence!SeqNext, Sequence!AddHead, Sequence!AddTail, Sequence!Present
    <2>2. ASSUME OneLess(Walk(next), Walk(next')) PROVE Sequence!SeqNext
      <3>1. PICK k \in 1..Len(Walk(next)) : Walk(next') = Without(Walk(next), k)
        BY <2>2 DEF OneLess
      <3>2. k \in DOMAIN Walk(next) /\ Walk(next)[k] \in Entries
        OBVIOUS
      <3>3. Sequence!Delete(Walk(next)[k])
        BY <3>1, <3>2 DEF Sequence!Delete, Without
      <3> QED BY <3>2, <3>3 DEF Sequence!SeqNext
    <2> QED BY <2>1, <2>2 DEF ListMove
  <1> QED BY <1>1, <1>2, <1>3, <1>4, PTL DEF ListSpec, ImplementsSequence, Sequence!SeqSpec

=============================================================================
