----------------------------- MODULE A1fsProofs -----------------------------
(***************************************************************************)
(* The file system within the limits of its code (CallsWithinLimits): the  *)
(* bitmaps match the tree, no block or inode has two owners, links tell    *)
(* emptiness, files keep their first writes, and the callbacks implement a *)
(* tree of names.                                                          *)
(***************************************************************************)
EXTENDS A1fsFiles, FiniteSetTheorems, SequenceTheorems, WellFoundedInduction, TLAPS

(* A set of numbers that is not empty has a least one.                     *)
LEMMA NatOrdered == IsWellFoundedOn({ss \in Nat \X Nat : ss[1] < ss[2]}, Nat)
  BY Zenon, NatLessThanWellFounded DEF OpToRel

LEMMA LeastNatural ==
  ASSUME NEW S \in SUBSET Nat, S # {}
  PROVE  \E m \in S : \A k \in S : m <= k
  <1> DEFINE R == {ss \in Nat \X Nat : ss[1] < ss[2]}
  <1>1. \A k, m \in Nat : <<k, m>> \in R <=> k < m
    OBVIOUS
  <1>2. IsWellFoundedOn(R, Nat)
    BY NatOrdered
  <1> HIDE DEF R
  <1>3. PICK m \in S : \A k \in S : ~(<<k, m>> \in R)
    BY <1>2, WFMin
  <1>4. \A k \in S : ~(k < m)
    BY <1>1, <1>3
  <1>5. \A k \in S : m <= k
    BY <1>4
  <1> QED BY <1>5

(* The search for a free bit finds the lowest one.                         *)
LEMMA FreeBitLeast ==
  ASSUME NEW map \in SUBSET Nat, IsFiniteSet(map)
  PROVE  /\ FreeBit(map) \in Nat \ map
         /\ \A k \in Nat \ map : FreeBit(map) <= k
  <1> DEFINE n == Cardinality(map)
             S == {i \in 0 .. n : i \notin map}
  <1>1. n \in Nat
    BY FS_CardinalityType
  <1>2. IsFiniteSet(0 .. n) /\ Cardinality(0 .. n) = n + 1
    BY <1>1, FS_Interval
  <1>3. S # {}
    <2> SUFFICES ASSUME S = {} PROVE FALSE
      OBVIOUS
    <2>1. 0 .. n \subseteq map
      OBVIOUS
    <2>2. Cardinality(0 .. n) <= n
      BY <2>1, FS_Subset
    <2> QED BY <1>1, <1>2, <2>2
  <1>4. S \in SUBSET Nat
    BY <1>1
  <1>5. PICK m \in S : \A k \in S : m <= k
    BY <1>3, <1>4, LeastNatural
  <1>6. FreeBit(map) \in S /\ \A k \in S : FreeBit(map) <= k
    BY <1>5 DEF FreeBit, Min
  <1>7. ASSUME NEW k \in Nat \ map PROVE FreeBit(map) <= k
    BY <1>1, <1>6, <1>7
  <1> QED BY <1>4, <1>6, <1>7

-----------------------------------------------------------------------------
(* The limits within which the code works are those of module A1fsFiles.   *)
(* A state is within them if there is room in it, or never lacks it.       *)
WithinLimits == CallsWithinLimits /\ (FewPaths \/ RoomLeft)

(* at gives each path in use its inode, and slot the place of its entry in *)
(* the directory above.                                                    *)
Root == <<>>
Used(at) == DOMAIN at \ {Root}
Mode(at, p) == inode[at[p]].mode
Start(i) == extent[i].start

PathsOK(at) ==
    /\ at \in [DOMAIN at -> Inodes] /\ Root \in DOMAIN at /\ at[Root] = 0
    /\ Used(at) \subseteq NewPaths
    /\ \A p, q \in DOMAIN at : at[p] = at[q] => p = q

(* Every directory has a block of its own, with "." and "..", and counts   *)
(* its entries twice; a file may have a block.                             *)
InodeOK(at, p) == LET i == at[p] IN
    /\ \/ /\ inode[i].mode = "dir" /\ inode[i].extent_count = 1
           /\ inode[i].size >= 2 /\ inode[i].links = inode[i].size
           /\ block[Start(i)][0] = Entry(i, ".") /\ block[Start(i)][1] = Entry(at[Parent(p)], "..")
        \/ /\ inode[i].mode = "file" /\ (inode[i].extent_count = 0 => inode[i].size = 0)
    /\ inode[i].extent_count = 1 => i \in Extents /\ extent[i].count = 1 /\ InImage(Start(i))

(* The entries of a directory are those of the paths below it.             *)
EntryOK(at, slot, p) == LET d == at[Parent(p)] IN
    /\ Parent(p) \in DOMAIN at /\ inode[d].mode = "dir"
    /\ slot[p] \in 2 .. inode[d].size - 1
    /\ block[Start(d)][slot[p]] = Entry(at[p], Last(p))
SlotsFilled(at, slot, p) ==
    Mode(at, p) = "dir" =>
        \A e \in 2 .. inode[at[p]].size - 1 : \E q \in Used(at) : Parent(q) = p /\ slot[q] = e

BitsOK(at) ==
    /\ imap \cap Inodes = {at[p] : p \in DOMAIN at}
    /\ \A b \in imap : b \in Inodes \/ b >= BitsPerWord

HasBlock(at, p) == inode[at[p]].extent_count = 1
DataOK(at) ==
    /\ dmap = {Start(at[p]) : p \in {q \in DOMAIN at : HasBlock(at, q)}}
    /\ \A p, q \in DOMAIN at : HasBlock(at, p) /\ HasBlock(at, q) /\ Start(at[p]) = Start(at[q]) => p = q

ContentsOK(at) ==
    "behind" \notin lapses =>
        /\ DOMAIN expect = {p \in DOMAIN at : Mode(at, p) = "file"}
        /\ \A p \in DOMAIN expect : LET i == at[p] IN
              /\ expect[p] \in Seq([ino : Inodes, name : Data \cup {""}])
              /\ inode[i].size = Len(expect[p]) /\ inode[i].size <= EntriesPerBlock
              /\ HasBlock(at, p) => \A k \in 1 .. Len(expect[p]) : block[Start(i)][k - 1] = expect[p][k]

Holds(at, slot) ==
    /\ PathsOK(at) /\ Mode(at, Root) = "dir"
    /\ \A p \in DOMAIN at : InodeOK(at, p) /\ SlotsFilled(at, slot, p)
    /\ \A p \in Used(at) : EntryOK(at, slot, p)
    /\ BitsOK(at) /\ DataOK(at) /\ ContentsOK(at)

Unformatted == expect = <<>> /\ (OldNames = {""} => imap = {})
Image == IF formatted THEN \E at, slot : Holds(at, slot) ELSE Unformatted
A1fsInv == TypeOK /\ NoOvercommit /\ Image

-----------------------------------------------------------------------------
(* Quotients and remainders.                                               *)
LEMMA Quotients ==
  ASSUME NEW n \in Nat, n > 0, NEW b \in Nat, NEW x \in 0 .. n - 1
  PROVE  (b * n + x) \div n = b /\ (b * n + x) % n = x
  OBVIOUS

LEMMA Small ==
  ASSUME NEW n \in Nat, NEW x \in 0 .. n - 1
  PROVE  x \div n = 0 /\ x % n = x
  OBVIOUS

LEMMA Remainders ==
  ASSUME NEW n \in Nat, n > 0, NEW x \in Nat
  PROVE  x % n \in 0 .. n - 1 /\ x % n <= x
  OBVIOUS

LEMMA TableCovers ==
  ASSUME NEW n \in Nat, n > 0, NEW x \in Nat
  PROVE  x \div n \in Nat /\ n * (x \div n + 1) > x
  OBVIOUS

-----------------------------------------------------------------------------
(* The partitions of the image.                                            *)
LEMMA Partitions ==
  /\ EntriesPerBlock \in Nat /\ EntriesPerBlock > 2 /\ EntriesPerBlock < CountMod
  /\ BitsPerByte \in Nat /\ BitsPerByte > 0 /\ BitsPerWord \in Nat /\ BitsPerByte <= BitsPerWord
  /\ CountMod \in Nat /\ NInodes \in Nat /\ 0 < NInodes /\ NInodes < CountMod
  /\ start_data \in Nat /\ \A s \in ImageSizes : s \in Nat /\ s - start_data < CountMod
  /\ Extents \subseteq Inodes /\ Inodes \in SUBSET Nat /\ IsFiniteSet(Inodes)
  /\ 0 \in Extents /\ 1 \in Inodes /\ 0 \in Blocks /\ Blocks \in SUBSET Nat /\ IsFiniteSet(Blocks)
  /\ \A i, j \in Nat : i \in Inodes /\ j <= i => j \in Inodes
  /\ \A i \in Nat : i \notin Extents <=> i >= NInodes
  /\ Slots = 0 .. EntriesPerBlock - 1
  <1> DEFINE tab == InodesPerBlock * inode_size
             m == Max(ImageSizes)
  <1>1. /\ EntriesPerBlock \in Nat /\ InodesPerBlock \in Nat /\ BitsPerByte \in Nat
        /\ BitsPerWord \in Nat /\ CountMod \in Nat /\ NInodes \in Nat /\ NInodes > 0 /\ InodesPerBlock > 0
        /\ CountMod > NInodes /\ BitsPerWord >= BitsPerByte /\ CountMod > EntriesPerBlock
        /\ EntriesPerBlock > 2 /\ BitsPerByte > 0
    <2>1. {EntriesPerBlock, InodesPerBlock, BitsPerByte, BitsPerWord, CountMod} \subseteq Nat
      BY A1fsAssumption
    <2>2. /\ EntriesPerBlock \in Nat /\ InodesPerBlock \in Nat /\ BitsPerByte \in Nat
          /\ BitsPerWord \in Nat /\ CountMod \in Nat
      BY <2>1
    <2> QED BY <2>2, A1fsAssumption
  <1>2. inode_size \in Nat /\ tab \in Nat /\ tab > NInodes
    BY <1>1, TableCovers DEF inode_size
  <1>3. start_data \in Nat
    BY <1>1, <1>2 DEF start_data, start_extent, start_inode
  <1>4. m \in ImageSizes /\ m \in Nat /\ m >= start_data
    <2>1. PICK k \in ImageSizes : k >= start_data /\ \A s \in ImageSizes : s <= k
      BY A1fsAssumption
    <2>2. ImageSizes \subseteq Nat
      BY A1fsAssumption
    <2>3. m \in ImageSizes /\ \A s \in ImageSizes : m >= s
      BY <2>1, <2>2 DEF Max
    <2> HIDE DEF m
    <2>4. m \in Nat /\ k \in Nat /\ m >= k
      BY <2>2, <2>3
    <2> QED BY <1>3, <2>1, <2>3, <2>4
  <1>5. \A s \in ImageSizes : s \in Nat /\ s - start_data < CountMod
    BY <1>1, <1>3, A1fsAssumption
  <1>6. Inodes = 0 .. tab - 1 /\ Blocks = 0 .. m - start_data /\ Extents = 0 .. NInodes - 1
    BY DEF Inodes, Blocks, Extents
  <1>7. IsFiniteSet(Inodes) /\ IsFiniteSet(Blocks)
    BY <1>2, <1>3, <1>4, <1>6, FS_Interval
  <1> HIDE DEF tab, m
  <1>8. /\ Extents \subseteq Inodes /\ Inodes \in SUBSET Nat
        /\ 0 \in Extents /\ 1 \in Inodes /\ 0 \in Blocks /\ Blocks \in SUBSET Nat
    BY <1>1, <1>2, <1>3, <1>4, <1>6
  <1>9. /\ \A i, j \in Nat : i \in Inodes /\ j <= i => j \in Inodes
        /\ \A i \in Nat : i \notin Extents <=> i >= NInodes
    BY <1>1, <1>2, <1>6
  <1> QED BY <1>1, <1>3, <1>5, <1>7, <1>8, <1>9 DEF Slots

(* A block in the image is one of its data blocks.                         *)
LEMMA InImageIsBlock ==
  ASSUME NEW b \in Nat, InImage(b), size \in ImageSizes
  PROVE  b \in Blocks
  <1>1. start_data \in Nat
    BY Partitions
  <1>2. PICK m \in ImageSizes : \A s \in ImageSizes : s <= m
    BY A1fsAssumption
  <1>3. Max(ImageSizes) \in ImageSizes /\ size <= Max(ImageSizes) /\ ImageSizes \subseteq Nat
    BY <1>2, A1fsAssumption DEF Max
  <1>4. start_data + b < size /\ size \in Nat /\ Max(ImageSizes) \in Nat
    BY <1>3 DEF InImage
  <1> QED BY <1>1, <1>3, <1>4 DEF Blocks

(* Counts of one.                                                          *)
LEMMA One == Signed(1) = 1
  <1>1. CountMod \in Nat /\ CountMod >= 4
    BY Partitions
  <1>2. \A n \in Nat : n >= 4 => 1 < n \div 2
    OBVIOUS
  <1> QED BY <1>1, <1>2 DEF Signed

-----------------------------------------------------------------------------
(* Paths: one name below the root, or two.                                 *)
LEMMA RootPath == Parent(Root) = Root /\ Root \notin Paths /\ Len(Root) = 0
  <1>1. Root \notin Paths
    BY DEF Paths, Root
  <1>2. Parent(Root) = Root
    BY DEF Parent, Root
  <1> QED BY <1>1, <1>2 DEF Root

LEMMA PathOfOne ==
  ASSUME NEW n \in Names
  PROVE  Parent(<<n>>) = Root /\ Last(<<n>>) = n /\ <<n>>[1] = n /\ Len(<<n>>) = 1
  <1>1. Len(<<n>>) = 1
    OBVIOUS
  <1>2. SubSeq(<<n>>, 1, 0) = <<>>
    BY SubSeqEmpty
  <1> QED BY <1>1, <1>2 DEF Parent, Last, Root

LEMMA PathOfTwo ==
  ASSUME NEW m \in Names, NEW n \in Names
  PROVE  /\ Parent(<<m, n>>) = <<m>> /\ Last(<<m, n>>) = n /\ Len(<<m, n>>) = 2
         /\ <<m, n>>[1] = m /\ <<m, n>>[2] = n
  <1>1. SubSeq(<<m, n>>, 1, 1) = <<m>>
    <2> DEFINE s == SubSeq(<<m, n>>, 1, 1)
    <2>1. \A i \in 1 .. 1 : <<m, n>>[i] \in Names
      OBVIOUS
    <2>2. s \in Seq(Names) /\ Len(s) = 1 /\ s[1] = m
      BY <2>1, SubSeqProperties
    <2> HIDE DEF s
    <2>3. s = <<m>>
      BY <2>2
    <2> QED BY <2>3 DEF s
  <1>2. Len(<<m, n>>) = 2
    OBVIOUS
  <1> QED BY <1>1, <1>2 DEF Parent, Last

LEMMA PathFacts ==
  ASSUME NEW p \in Paths
  PROVE  /\ Parent(p) \in Paths \cup {Root} /\ Parent(p) # p /\ Last(p) \in Names /\ p # Root
         /\ Len(p) \in 1 .. 2
         /\ Len(p) = 1 => Parent(p) = Root /\ p[1] = Last(p)
         /\ Len(p) = 2 => /\ Parent(p) \in Paths /\ Len(Parent(p)) = 1 /\ Parent(Parent(p)) = Root
                          /\ Last(Parent(p)) = p[1] /\ p[2] = Last(p)
  <1>1. ASSUME NEW n \in Names, p = <<n>>
        PROVE  /\ Parent(p) = Root /\ Last(p) = n /\ p # Root /\ Len(p) = 1 /\ p[1] = n
    BY <1>1, PathOfOne DEF Root
  <1>2. ASSUME NEW m \in Names, NEW n \in Names, p = <<m, n>>
        PROVE  /\ Parent(p) = <<m>> /\ Last(p) = n /\ p # Root /\ Len(p) = 2 /\ <<m>> \in Paths /\ <<m>> # p
               /\ p[1] = m /\ p[2] = n
    BY <1>2, PathOfTwo DEF Root, Paths
  <1>3. ASSUME NEW m \in Names
        PROVE  Len(<<m>>) = 1 /\ Parent(<<m>>) = Root /\ Last(<<m>>) = m
    BY PathOfOne
  <1>4. \/ \E n \in Names : p = <<n>>
        \/ \E m, n \in Names : p = <<m, n>>
    BY DEF Paths
  <1>5. CASE \E n \in Names : p = <<n>>
    BY <1>1, <1>5
  <1>6. CASE \E m, n \in Names : p = <<m, n>>
    <2>1. PICK m \in Names, n \in Names : p = <<m, n>>
      BY <1>6
    <2>2. /\ Parent(p) = <<m>> /\ Last(p) = n /\ p # Root /\ Len(p) = 2 /\ <<m>> \in Paths /\ <<m>> # p
          /\ p[1] = m /\ p[2] = n
      BY <1>2, <2>1
    <2>3. Len(Parent(p)) = 1 /\ Parent(Parent(p)) = Root /\ Last(Parent(p)) = m
      BY <1>3, <2>2
    <2> QED BY <2>2, <2>3
  <1> QED BY <1>4, <1>5, <1>6

LEMMA SamePath ==
  ASSUME NEW p \in Paths, NEW q \in Paths, Parent(p) = Parent(q), Last(p) = Last(q)
  PROVE  p = q
  <1>1. \A r \in Paths : \/ \E n \in Names : r = <<n>> /\ Parent(r) = <<>> /\ Last(r) = n
                         \/ \E m, n \in Names : r = <<m, n>> /\ Parent(r) = <<m>> /\ Last(r) = n
    <2> SUFFICES ASSUME NEW r \in Paths
                 PROVE  \/ \E n \in Names : r = <<n>> /\ Parent(r) = <<>> /\ Last(r) = n
                        \/ \E m, n \in Names : r = <<m, n>> /\ Parent(r) = <<m>> /\ Last(r) = n
      OBVIOUS
    <2>1. CASE \E n \in Names : r = <<n>>
      BY <2>1, PathOfOne DEF Root
    <2>2. CASE \E m, n \in Names : r = <<m, n>>
      BY <2>2, PathOfTwo
    <2> QED BY <2>1, <2>2 DEF Paths
  <1>2. \A m \in Names : <<m>> # <<>>
    OBVIOUS
  <1>3. \A m, n \in Names : <<m>> = <<n>> => m = n
    OBVIOUS
  <1> QED BY <1>1, <1>2, <1>3

-----------------------------------------------------------------------------
(* What the invariant says about a state: the paths in use.                *)
LEMMA UsedPaths ==
  ASSUME NEW at, PathsOK(at)
  PROVE  /\ NewPaths \subseteq Paths /\ Root \notin NewPaths
         /\ Used(at) \subseteq Paths
         /\ \A p \in DOMAIN at : at[p] \in Inodes /\ at[p] \in Nat
         /\ \A p \in Used(at) : p \in DOMAIN at /\ at[p] # 0
         /\ \A p \in DOMAIN at : p = Root \/ p \in Used(at)
  <1>1. NewPaths \subseteq Paths
    BY NamesAssumption DEF NewPaths
  <1>2. Root \notin Paths
    BY RootPath
  <1>3. \A p \in DOMAIN at : at[p] \in Inodes
    BY DEF PathsOK
  <1> QED BY <1>1, <1>2, <1>3, Partitions DEF PathsOK, Used

(* Types of an inode and its extent.                                       *)
LEMMA InodeTypes ==
  ASSUME TypeOK, NEW i \in Inodes
  PROVE  /\ inode[i].size \in Nat /\ inode[i].links \in 0 .. CountMod - 1 /\ inode[i].extent_count \in 0 .. 1
         /\ inode[i].mode \in {"none", "dir", "file"}
         /\ i \in Extents => Start(i) \in Blocks /\ extent[i].count \in Nat
  <1>1. inode[i] \in [mode : {"none", "dir", "file"}, links : 0 .. CountMod - 1,
                      size : Nat, extent_count : 0 .. 1]
    BY DEF TypeOK
  <1>2. i \in Extents => extent[i] \in [start : Blocks, count : 0 .. CountMod - 1]
    BY DEF TypeOK
  <1> QED BY <1>1, <1>2, Partitions DEF Start

(* A directory is smaller than its block: its entries have different       *)
(* names.                                                                  *)
LEMMA DirectorySize ==
  ASSUME TypeOK, WithinLimits, NEW at, NEW slot, Holds(at, slot), NEW p \in DOMAIN at, Mode(at, p) = "dir"
  PROVE  inode[at[p]].size \in 2 .. EntriesPerBlock - 1
  <1>a. CASE RoomLeft
    <2>1. PathsOK(at) /\ InodeOK(at, p) /\ BitsOK(at) /\ at[p] \in Inodes
      BY UsedPaths DEF Holds
    <2>2. at[p] \in imap
      BY <2>1 DEF BitsOK
    <2>3. inode[at[p]].size >= 2 /\ inode[at[p]].size \in Nat
      BY <2>1, InodeTypes DEF InodeOK, Mode
    <2>4. inode[at[p]].size < EntriesPerBlock
      BY <1>a, <2>1, <2>2 DEF RoomLeft, Mode
    <2> QED BY <2>3, <2>4, Partitions
  <1>b. SUFFICES ASSUME FewPaths PROVE inode[at[p]].size \in 2 .. EntriesPerBlock - 1
    BY <1>a DEF WithinLimits
  <1> DEFINE s == inode[at[p]].size
             kid(e) == CHOOSE q \in Used(at) : Parent(q) = p /\ slot[q] = e
             f == [e \in 2 .. s - 1 |-> Last(kid(e))]
  <1>1. PathsOK(at) /\ InodeOK(at, p) /\ SlotsFilled(at, slot, p)
    BY DEF Holds
  <1>2. at[p] \in Inodes /\ Used(at) \subseteq Paths
    BY <1>1, UsedPaths
  <1>3. s \in Nat /\ s >= 2
    BY <1>1, <1>2, InodeTypes DEF InodeOK, Mode
  <1>4. \A e \in 2 .. s - 1 : kid(e) \in Used(at) /\ Parent(kid(e)) = p /\ slot[kid(e)] = e
    BY <1>1 DEF SlotsFilled, Mode
  <1> HIDE DEF kid, s
  <1>5. \A e \in 2 .. s - 1 : f[e] = Last(kid(e)) /\ f[e] \in Names
    BY <1>2, <1>4, PathFacts
  <1>6. \A d, e \in 2 .. s - 1 : f[d] = f[e] => d = e
    BY <1>2, <1>4, <1>5, SamePath
  <1>7. f \in Injection(2 .. s - 1, Names)
    BY <1>5, <1>6 DEF Injection, IsInjective
  <1> HIDE DEF f
  <1>8. Cardinality(2 .. s - 1) <= Cardinality(Names) /\ Cardinality(Names) \in Nat
    BY <1>7, NamesAssumption, FS_Injection, FS_CardinalityType
  <1>9. Cardinality(2 .. s - 1) = s - 2
    BY <1>3, FS_Interval
  <1>10. Cardinality(Names) + 2 < EntriesPerBlock
    BY <1>b DEF FewPaths
  <1> QED BY <1>3, <1>8, <1>9, <1>10, Partitions DEF s

(* The one block of an inode that has one.                                 *)
LEMMA OneBlock ==
  ASSUME TypeOK, NEW at, NEW slot, Holds(at, slot), NEW p \in DOMAIN at, HasBlock(at, p)
  PROVE  /\ at[p] \in Extents /\ Start(at[p]) \in Blocks /\ Start(at[p]) \in Nat /\ InImage(Start(at[p]))
         /\ extent[at[p]].count = 1
         /\ ExtentBlocks(at[p]) = {Start(at[p])} /\ LastBlock(at[p]) = Start(at[p])
  <1>1. PathsOK(at) /\ InodeOK(at, p) /\ at[p] \in Inodes
    BY UsedPaths DEF Holds
  <1>2. inode[at[p]].extent_count = 1
    BY DEF HasBlock
  <1>3. at[p] \in Extents /\ extent[at[p]].count = 1 /\ InImage(Start(at[p]))
    BY <1>1, <1>2 DEF InodeOK
  <1>4. Start(at[p]) \in Blocks /\ Start(at[p]) \in Nat
    BY <1>1, <1>3, InodeTypes, Partitions
  <1>5. \A b \in Nat : b .. b + 1 - 1 = {b} /\ b + 1 - 1 = b
    OBVIOUS
  <1>6. ExtentBlocks(at[p]) = Start(at[p]) .. Start(at[p]) + 1 - 1 /\ LastBlock(at[p]) = Start(at[p]) + 1 - 1
    BY <1>2, <1>3, One DEF ExtentBlocks, LastBlock, Start
  <1> QED BY <1>3, <1>4, <1>5, <1>6

(* The entries of a directory.                                             *)
LEMMA DirectoryView ==
  ASSUME TypeOK, WithinLimits, NEW at, NEW slot, Holds(at, slot), NEW p \in DOMAIN at, Mode(at, p) = "dir"
  PROVE  /\ HasBlock(at, p) /\ inode[at[p]].size \in 2 .. EntriesPerBlock - 1
         /\ EntryNumbers(at[p]) = 0 .. inode[at[p]].size - 1
         /\ \A e \in 0 .. inode[at[p]].size - 1 :
               EntryAt(at[p], e) = block[Start(at[p])][e] /\ e \in Slots
  <1> DEFINE s == inode[at[p]].size
             b == Start(at[p])
  <1>1. s \in 2 .. EntriesPerBlock - 1 /\ EntriesPerBlock \in Nat /\ EntriesPerBlock > 2
    BY DirectorySize, Partitions
  <1>2. HasBlock(at, p)
    BY DEF Holds, InodeOK, Mode, HasBlock
  <1>3. ExtentBlocks(at[p]) = {b} /\ b \in Nat
    BY <1>2, OneBlock
  <1>4. Cardinality(ExtentBlocks(at[p])) = 1
    BY <1>3, FS_Singleton
  <1>5. EntryNumbers(at[p]) = {e \in 0 .. s - 1 : e < 1 * EntriesPerBlock}
    BY <1>4 DEF EntryNumbers
  <1> HIDE DEF s
  <1>6. EntryNumbers(at[p]) = 0 .. s - 1
    BY <1>1, <1>5
  <1>7. ASSUME NEW e \in 0 .. s - 1
        PROVE  EntryAt(at[p], e) = block[b][e] /\ e \in Slots
    <2>1. e \in 0 .. EntriesPerBlock - 1
      BY <1>1
    <2>2. e \div EntriesPerBlock = 0 /\ e % EntriesPerBlock = e
      BY <1>1, <2>1, Small
    <2>3. EntryAt(at[p], e) = block[b + e \div EntriesPerBlock][e % EntriesPerBlock]
      BY DEF EntryAt, Start
    <2> HIDE DEF b
    <2>4. b + 0 = b
      BY <1>3
    <2> QED BY <2>1, <2>2, <2>3, <2>4 DEF Slots
  <1> QED BY <1>1, <1>2, <1>6, <1>7 DEF s

LEMMA DirectoryEntries ==
  ASSUME TypeOK, WithinLimits, NEW at, NEW slot, Holds(at, slot), NEW p \in DOMAIN at, Mode(at, p) = "dir"
  PROVE  /\ EntryAt(at[p], 0) = Entry(at[p], ".") /\ EntryAt(at[p], 1) = Entry(at[Parent(p)], "..")
         /\ \A e \in 2 .. inode[at[p]].size - 1 :
               \E q \in Used(at) : Parent(q) = p /\ slot[q] = e /\ EntryAt(at[p], e) = Entry(at[q], Last(q))
         /\ \A q \in Used(at) : Parent(q) = p =>
               slot[q] \in 2 .. inode[at[p]].size - 1 /\ EntryAt(at[p], slot[q]) = Entry(at[q], Last(q))
  <1> DEFINE s == inode[at[p]].size
             b == Start(at[p])
  <1>1. s \in Nat /\ s >= 2 /\ \A e \in 0 .. s - 1 : EntryAt(at[p], e) = block[b][e]
    BY DirectoryView, Partitions
  <1>2. block[b][0] = Entry(at[p], ".") /\ block[b][1] = Entry(at[Parent(p)], "..")
    BY DEF Holds, InodeOK, Mode
  <1>3. \A q \in Used(at) : Parent(q) = p =>
            slot[q] \in 2 .. s - 1 /\ block[b][slot[q]] = Entry(at[q], Last(q))
    BY DEF Holds, EntryOK
  <1>4. \A e \in 2 .. s - 1 : \E q \in Used(at) : Parent(q) = p /\ slot[q] = e
    BY DEF Holds, SlotsFilled
  <1> HIDE DEF s, b
  <1>5. \A e \in 2 .. s - 1 : e \in 0 .. s - 1
    BY <1>1
  <1>6. 0 \in 0 .. s - 1 /\ 1 \in 0 .. s - 1
    BY <1>1
  <1>7. EntryAt(at[p], 0) = Entry(at[p], ".") /\ EntryAt(at[p], 1) = Entry(at[Parent(p)], "..")
    BY <1>1, <1>2, <1>6
  <1>8. \A q \in Used(at) : Parent(q) = p =>
            slot[q] \in 2 .. s - 1 /\ EntryAt(at[p], slot[q]) = Entry(at[q], Last(q))
    BY <1>1, <1>3, <1>5
  <1>9. \A e \in 2 .. s - 1 :
            \E q \in Used(at) : Parent(q) = p /\ slot[q] = e /\ EntryAt(at[p], e) = Entry(at[q], Last(q))
    BY <1>4, <1>8
  <1> QED BY <1>7, <1>8, <1>9 DEF s

(* A lookup finds the entry with the name, of which there is one at most.  *)
Below(at, p, n) == {q \in Used(at) : Parent(q) = p /\ Last(q) = n}
LEMMA EntriesDiffer ==
  ASSUME TypeOK, WithinLimits, NEW at, NEW slot, Holds(at, slot), NEW p \in DOMAIN at, Mode(at, p) = "dir",
         NEW d \in EntryNumbers(at[p]), NEW e \in EntryNumbers(at[p]),
         EntryAt(at[p], d).name = EntryAt(at[p], e).name
  PROVE  d = e
  <1> DEFINE s == inode[at[p]].size
             names(x) == EntryAt(at[p], x).name
  <1>1. s \in Nat /\ s >= 2 /\ EntryNumbers(at[p]) = 0 .. s - 1
    BY DirectoryView, Partitions
  <1>2. names(0) = "." /\ names(1) = ".."
    BY DirectoryEntries DEF Entry
  <1>3. \A x \in 2 .. s - 1 : \E q \in Used(at) : Parent(q) = p /\ slot[q] = x /\ names(x) = Last(q)
    BY DirectoryEntries DEF Entry
  <1>4. Used(at) \subseteq Paths
    BY UsedPaths DEF Holds
  <1>5. \A x \in 2 .. s - 1 : names(x) \in Names
    BY <1>3, <1>4, PathFacts
  <1>6. "." \notin Names /\ ".." \notin Names /\ "." # ".."
    BY NamesAssumption
  <1>7. \A x, y \in 2 .. s - 1 : names(x) = names(y) => x = y
    BY <1>3, <1>4, SamePath
  <1> HIDE DEF s, names
  <1>8. \A x \in 0 .. s - 1 : x = 0 \/ x = 1 \/ x \in 2 .. s - 1
    BY <1>1
  <1>9. names(d) = names(e) /\ d \in 0 .. s - 1 /\ e \in 0 .. s - 1
    BY <1>1 DEF names
  <1> QED BY <1>2, <1>5, <1>6, <1>7, <1>8, <1>9

LEMMA Lookup ==
  ASSUME TypeOK, WithinLimits, NEW at, NEW slot, Holds(at, slot), NEW p \in DOMAIN at, Mode(at, p) = "dir"
  PROVE  /\ \A n \in Names : helper(at[p], n) = {at[q] : q \in Below(at, p, n)}
         /\ helper(at[p], ".") = {at[p]} /\ helper(at[p], "..") = {at[Parent(p)]}
         /\ \A e \in EntryNumbers(at[p]) : helper(at[p], EntryAt(at[p], e).name) = {EntryAt(at[p], e).ino}
  <1> DEFINE E == EntryNumbers(at[p])
             ent(e) == EntryAt(at[p], e)
             s == inode[at[p]].size
  <1>1. E = 0 .. s - 1 /\ s \in Nat /\ s >= 2
    BY DirectoryView, Partitions
  <1>2. \A d, e \in E : ent(d).name = ent(e).name => d = e
    BY EntriesDiffer
  <1>3. ASSUME NEW e \in E
        PROVE  helper(at[p], ent(e).name) = {ent(e).ino}
    <2> DEFINE n == ent(e).name
    <2>1. helper(at[p], n) = {ent(x).ino : x \in {f \in E : ent(f).name = n /\ \A g \in E : g > f => ent(g).name # n}}
      BY DEF helper
    <2> HIDE DEF ent, E
    <2>2. \A g \in E : ~(g > g)
      BY <1>1
    <2>3. {f \in E : ent(f).name = n /\ \A g \in E : g > f => ent(g).name # n} = {e}
      BY <1>2, <2>2
    <2> HIDE DEF n
    <2> QED BY <2>1, <2>3 DEF n
  <1>4. ent(0) = Entry(at[p], ".") /\ ent(1) = Entry(at[Parent(p)], "..")
    BY DirectoryEntries
  <1>5. /\ \A e \in 2 .. s - 1 : \E q \in Used(at) : Parent(q) = p /\ ent(e) = Entry(at[q], Last(q))
        /\ \A q \in Used(at) : Parent(q) = p => \E e \in 2 .. s - 1 : ent(e) = Entry(at[q], Last(q))
    BY DirectoryEntries
  <1>6. ASSUME NEW n \in Names
        PROVE  helper(at[p], n) = {at[q] : q \in Below(at, p, n)}
    <2>1. CASE \E q \in Below(at, p, n) : TRUE
      <3>1. PICK q \in Below(at, p, n) : TRUE
        BY <2>1
      <3>2. PICK e \in 2 .. s - 1 : ent(e) = Entry(at[q], n)
        BY <1>5, <3>1 DEF Below
      <3>3. ent(e).name = n /\ ent(e).ino = at[q] /\ e \in E
        BY <1>1, <3>2 DEF Entry
      <3>4. helper(at[p], n) = {at[q]}
        BY <1>3, <3>3
      <3>5. Used(at) \subseteq Paths
        BY UsedPaths DEF Holds
      <3>6. Below(at, p, n) = {q}
        BY <3>1, <3>5, SamePath DEF Below
      <3> QED BY <3>4, <3>6
    <2>2. CASE ~\E q \in Below(at, p, n) : TRUE
      <3>1. "." \notin Names /\ ".." \notin Names
        BY NamesAssumption
      <3>2. \A e \in E : e = 0 \/ e = 1 \/ e \in 2 .. s - 1
        BY <1>1
      <3>3. ent(0).name = "." /\ ent(1).name = ".."
        BY <1>4 DEF Entry
      <3>4. \A e \in 2 .. s - 1 : ent(e).name # n
        BY <1>5, <2>2 DEF Below, Entry
      <3>5. \A e \in E : ent(e).name # n
        BY <3>1, <3>2, <3>3, <3>4
      <3>6. helper(at[p], n) = {ent(x).ino : x \in {f \in E : ent(f).name = n /\ \A g \in E : g > f => ent(g).name # n}}
        BY DEF helper
      <3> HIDE DEF ent, E
      <3> QED BY <2>2, <3>5, <3>6
    <2> QED BY <2>1, <2>2
  <1>7. 0 \in E /\ 1 \in E
    BY <1>1
  <1>8. helper(at[p], ".") = {at[p]} /\ helper(at[p], "..") = {at[Parent(p)]}
    BY <1>3, <1>4, <1>7 DEF Entry
  <1> QED BY <1>3, <1>6, <1>8

(* A walk finds the inodes of the paths in use, and nothing else.          *)
LEMMA Resolve ==
  ASSUME TypeOK, WithinLimits, NEW at, NEW slot, Holds(at, slot), NEW p \in Paths \cup {Root}
  PROVE  /\ path_inode(p) = IF p \in DOMAIN at THEN {at[p]} ELSE {}
         /\ Kind(p) = IF p \in DOMAIN at THEN {Mode(at, p)} ELSE {}
  <1>1. Root \in DOMAIN at /\ at[Root] = 0 /\ Mode(at, Root) = "dir" /\ PathsOK(at)
    BY DEF Holds, PathsOK
  <1>2. Used(at) \subseteq Paths /\ Root \notin Paths /\ Len(Root) = 0
        /\ \A q \in DOMAIN at : q = Root \/ q \in Used(at)
    BY <1>1, UsedPaths, RootPath
  <1>3. \A q \in Used(at) : q \in DOMAIN at /\ Parent(q) \in DOMAIN at /\ Mode(at, Parent(q)) = "dir"
    BY DEF Holds, EntryOK, Mode, Used
  <1>4. \A d \in DOMAIN at, n \in Names : Mode(at, d) = "dir" => helper(at[d], n) = {at[q] : q \in Below(at, d, n)}
    BY Lookup
  <1>5. \A q \in Paths : Below(at, Parent(q), Last(q)) = IF q \in DOMAIN at THEN {q} ELSE {}
    BY <1>2, <1>3, SamePath DEF Below, Used
  <1>6. ASSUME NEW q \in Paths, Parent(q) \in DOMAIN at, Mode(at, Parent(q)) = "dir"
        PROVE  helper(at[Parent(q)], Last(q)) = IF q \in DOMAIN at THEN {at[q]} ELSE {}
    <2>1. Last(q) \in Names
      BY PathFacts
    <2> QED BY <1>4, <1>5, <1>6, <2>1
  <1>7. path_inode(p) = IF p \in DOMAIN at THEN {at[p]} ELSE {}
    <2>1. CASE p = Root
      BY <1>1, <1>2, <2>1 DEF path_inode
    <2>2. CASE p \in Paths /\ Len(p) = 1
      <3>1. Parent(p) = Root /\ p[1] = Last(p)
        BY <2>2, PathFacts
      <3>2. path_inode(p) = helper(0, p[1])
        BY <2>2 DEF path_inode
      <3> QED BY <1>1, <1>6, <2>2, <3>1, <3>2
    <2>3. CASE p \in Paths /\ Len(p) = 2
      <3> DEFINE u == Parent(p)
      <3>1. u \in Paths /\ Parent(u) = Root /\ Last(u) = p[1] /\ p[2] = Last(p)
        BY <2>3, PathFacts
      <3>2. path_inode(p) = UNION {helper(i, p[2]) : i \in {j \in helper(0, p[1]) : inode[j].mode = "dir"}}
        BY <2>3 DEF path_inode
      <3>3. helper(0, p[1]) = IF u \in DOMAIN at THEN {at[u]} ELSE {}
        BY <1>1, <1>6, <3>1
      <3>4. CASE u \in DOMAIN at /\ Mode(at, u) = "dir"
        <4>1. {j \in helper(0, p[1]) : inode[j].mode = "dir"} = {at[u]}
          BY <3>3, <3>4 DEF Mode
        <4>2. path_inode(p) = helper(at[u], Last(p))
          BY <3>1, <3>2, <4>1
        <4> QED BY <1>6, <2>3, <3>4, <4>2
      <3>5. CASE ~(u \in DOMAIN at /\ Mode(at, u) = "dir")
        <4>1. {j \in helper(0, p[1]) : inode[j].mode = "dir"} = {}
          BY <3>3, <3>5 DEF Mode
        <4>2. path_inode(p) = {}
          BY <3>2, <4>1
        <4>3. p \notin DOMAIN at
          BY <1>2, <1>3, <2>3, <3>5
        <4> QED BY <4>2, <4>3
      <3> QED BY <3>4, <3>5
    <2>4. p \in Paths => Len(p) \in 1 .. 2
      BY PathFacts
    <2>5. \A l \in 1 .. 2 : l = 1 \/ l = 2
      OBVIOUS
    <2> QED BY <2>1, <2>2, <2>3, <2>4, <2>5
  <1>8. Kind(p) = IF p \in DOMAIN at THEN {Mode(at, p)} ELSE {}
    BY <1>7 DEF Kind, Mode
  <1> QED BY <1>7, <1>8

-----------------------------------------------------------------------------
(* The directories and entries, seen through the paths.                    *)
Dirs(at) == {p \in DOMAIN at : Mode(at, p) = "dir"}
LEMMA ChildrenAre ==
  ASSUME TypeOK, WithinLimits, NEW at, NEW slot, Holds(at, slot), NEW p \in Dirs(at)
  PROVE  /\ Children(at[p]) = 2 .. inode[at[p]].size - 1
         /\ Subdirectories(at[p]) = {at[q] : q \in {r \in Dirs(at) : r \in Used(at) /\ Parent(r) = p}}
  <1> DEFINE s == inode[at[p]].size
             ent(e) == EntryAt(at[p], e)
  <1>1. p \in DOMAIN at /\ Mode(at, p) = "dir"
    BY DEF Dirs
  <1>2. EntryNumbers(at[p]) = 0 .. s - 1 /\ s \in Nat /\ s >= 2
    BY <1>1, DirectoryView, Partitions
  <1>3. /\ ent(0).name = "." /\ ent(1).name = ".."
        /\ \A e \in 2 .. s - 1 : \E q \in Used(at) : Parent(q) = p /\ ent(e) = Entry(at[q], Last(q))
        /\ \A q \in Used(at) : Parent(q) = p => slot[q] \in 2 .. s - 1 /\ ent(slot[q]) = Entry(at[q], Last(q))
    BY <1>1, DirectoryEntries DEF Entry
  <1>4. Used(at) \subseteq Paths /\ "." \notin Names /\ ".." \notin Names
    BY UsedPaths, NamesAssumption DEF Holds
  <1>5. \A e \in 2 .. s - 1 : ent(e).name \notin {".", ".."}
    <2> SUFFICES ASSUME NEW e \in 2 .. s - 1 PROVE ent(e).name \notin {".", ".."}
      OBVIOUS
    <2>1. PICK q \in Used(at) : ent(e) = Entry(at[q], Last(q))
      BY <1>3
    <2>2. ent(e).name = Last(q)
      BY <2>1 DEF Entry
    <2>3. Last(q) \in Names
      BY <1>4, PathFacts
    <2> QED BY <1>4, <2>2, <2>3
  <1>6. \A e \in 0 .. s - 1 : e = 0 \/ e = 1 \/ e \in 2 .. s - 1
    BY <1>2
  <1>7. \A e \in 2 .. s - 1 : e \in 0 .. s - 1
    BY <1>2
  <1>8. Children(at[p]) = {e \in 0 .. s - 1 : ent(e).name \notin {".", ".."}}
    BY <1>2 DEF Children
  <1> HIDE DEF ent, s
  <1>9. Children(at[p]) = 2 .. s - 1
    BY <1>3, <1>5, <1>6, <1>7, <1>8
  <1>10. Subdirectories(at[p]) = {j \in {ent(e).ino : e \in 2 .. s - 1} : inode[j].mode = "dir"}
    BY <1>9 DEF Subdirectories, ent
  <1>11. {ent(e).ino : e \in 2 .. s - 1} = {at[q] : q \in {r \in Used(at) : Parent(r) = p}}
    <2>0. \A i, n : Entry(i, n).ino = i
      BY DEF Entry
    <2>1. \A e \in 2 .. s - 1 : \E q \in {r \in Used(at) : Parent(r) = p} : ent(e).ino = at[q]
      BY <1>3, <2>0
    <2>2. \A q \in {r \in Used(at) : Parent(r) = p} : \E e \in 2 .. s - 1 : ent(e).ino = at[q]
      BY <1>3, <2>0
    <2> QED BY <2>1, <2>2
  <1>12. \A q \in Used(at) : q \in Dirs(at) <=> inode[at[q]].mode = "dir"
    BY DEF Dirs, Used, Mode
  <1>13. Subdirectories(at[p]) = {at[q] : q \in {r \in Dirs(at) : r \in Used(at) /\ Parent(r) = p}}
    BY <1>10, <1>11, <1>12
  <1> QED BY <1>9, <1>13 DEF s

LEMMA DirectoriesAre ==
  ASSUME TypeOK, WithinLimits, NEW at, NEW slot, Holds(at, slot)
  PROVE  Directories = {at[p] : p \in Dirs(at)}
  <1> DEFINE sub(p) == {q \in Dirs(at) : q \in Used(at) /\ Parent(q) = p}
  <1>1. Root \in Dirs(at) /\ at[Root] = 0
    BY DEF Holds, PathsOK, Dirs
  <1>2. \A p \in Dirs(at) : Subdirectories(at[p]) = {at[q] : q \in sub(p)}
    BY ChildrenAre
  <1>3. \A q \in Dirs(at) : q = Root \/ q \in Used(at)
    BY DEF Dirs, Used
  <1>4. Used(at) \subseteq Paths
    BY UsedPaths DEF Holds
  <1>5. \A q \in Dirs(at) : q \in Used(at) => Parent(q) \in Dirs(at)
    BY DEF Holds, EntryOK, Dirs, Mode
  <1>6. \A q \in Used(at) : Parent(q) = Root \/ Parent(Parent(q)) = Root
    <2>1. ASSUME NEW q \in Paths
          PROVE  Parent(q) = Root \/ Parent(Parent(q)) = Root
      <3>1. Len(q) = 1 \/ Len(q) = 2
        <4>1. Len(q) \in 1 .. 2
          BY PathFacts
        <4> QED BY <4>1
      <3> QED BY <3>1, PathFacts
    <2> QED BY <1>4, <2>1
  <1>7. Subdirectories(0) = {at[q] : q \in sub(Root)}
    BY <1>1, <1>2
  <1>8. Directories \subseteq {at[p] : p \in Dirs(at)}
    <2>1. \A i \in Subdirectories(0) : \E p \in Dirs(at) : i = at[p]
      BY <1>7
    <2>2. \A i \in Subdirectories(0) : Subdirectories(i) \subseteq {at[p] : p \in Dirs(at)}
      BY <1>2, <2>1
    <2> QED BY <1>1, <2>1, <2>2 DEF Directories
  <1>9. ASSUME NEW p \in Dirs(at)
        PROVE  at[p] \in Directories
    <2>1. CASE p = Root
      BY <1>1, <2>1 DEF Directories
    <2>2. CASE p \in Used(at) /\ Parent(p) = Root
      BY <1>7, <2>2 DEF Directories
    <2>3. CASE p \in Used(at) /\ Parent(p) # Root
      <3>1. Parent(p) \in Dirs(at) /\ Parent(Parent(p)) = Root /\ Parent(p) \in Used(at)
        BY <1>3, <1>5, <1>6, <2>3
      <3>2. at[Parent(p)] \in Subdirectories(0)
        BY <1>7, <3>1
      <3>3. at[p] \in Subdirectories(at[Parent(p)])
        BY <1>2, <2>3, <3>1
      <3> QED BY <3>2, <3>3 DEF Directories
    <2> QED BY <1>3, <2>1, <2>2, <2>3
  <1> QED BY <1>8, <1>9

LEMMA NamedAre ==
  ASSUME TypeOK, WithinLimits, NEW at, NEW slot, Holds(at, slot)
  PROVE  /\ \A e \in Named : \E p \in Used(at) : e = [dir |-> at[Parent(p)], at |-> slot[p], ino |-> at[p]]
         /\ \A p \in Used(at) : [dir |-> at[Parent(p)], at |-> slot[p], ino |-> at[p]] \in Named
         /\ {0} \cup {e.ino : e \in Named} = {at[p] : p \in DOMAIN at}
  <1> DEFINE node(d, e) == [dir |-> d, at |-> e, ino |-> EntryAt(d, e).ino]
             rec(p) == [dir |-> at[Parent(p)], at |-> slot[p], ino |-> at[p]]
  <1>1. Named = UNION {{node(d, e) : e \in Children(d)} : d \in Directories}
    BY DEF Named
  <1>2. Directories = {at[p] : p \in Dirs(at)}
    BY DirectoriesAre
  <1>3. ASSUME NEW u \in Dirs(at), NEW e \in Children(at[u])
        PROVE  \E p \in Used(at) : node(at[u], e) = rec(p)
    <2>1. e \in 2 .. inode[at[u]].size - 1 /\ u \in DOMAIN at /\ Mode(at, u) = "dir"
      BY ChildrenAre DEF Dirs
    <2>2. PICK q \in Used(at) : Parent(q) = u /\ slot[q] = e /\ EntryAt(at[u], e) = Entry(at[q], Last(q))
      BY <2>1, DirectoryEntries
    <2> QED BY <2>2 DEF Entry
  <1>4. ASSUME NEW p \in Used(at)
        PROVE  rec(p) \in Named
    <2> DEFINE u == Parent(p)
    <2>1. u \in Dirs(at) /\ u \in DOMAIN at /\ Mode(at, u) = "dir"
      BY DEF Holds, EntryOK, Dirs, Mode
    <2>2. slot[p] \in Children(at[u]) /\ EntryAt(at[u], slot[p]) = Entry(at[p], Last(p))
      <3>1. Children(at[u]) = 2 .. inode[at[u]].size - 1
        BY <2>1, ChildrenAre
      <3>2. slot[p] \in 2 .. inode[at[u]].size - 1 /\ EntryAt(at[u], slot[p]) = Entry(at[p], Last(p))
        BY <2>1, DirectoryEntries
      <3> QED BY <3>1, <3>2
    <2>3. rec(p) = node(at[u], slot[p])
      BY <2>2 DEF Entry
    <2> QED BY <1>1, <1>2, <2>1, <2>2, <2>3
  <1>5. \A e \in Named : \E p \in Used(at) : e = rec(p)
    <2> SUFFICES ASSUME NEW e \in Named PROVE \E p \in Used(at) : e = rec(p)
      OBVIOUS
    <2>1. PICK u \in Dirs(at) : \E x \in Children(at[u]) : e = node(at[u], x)
      BY <1>1, <1>2
    <2>2. PICK x \in Children(at[u]) : e = node(at[u], x)
      BY <2>1
    <2> QED BY <1>3, <2>2
  <1> HIDE DEF node
  <1>6. {e.ino : e \in Named} = {at[p] : p \in Used(at)}
    <2>1. \A p : rec(p).ino = at[p]
      OBVIOUS
    <2> HIDE DEF rec
    <2> QED BY <1>4, <1>5, <2>1
  <1>7. {0} \cup {at[p] : p \in Used(at)} = {at[p] : p \in DOMAIN at}
    BY DEF Used, Holds, PathsOK
  <1> QED BY <1>4, <1>5, <1>6, <1>7

-----------------------------------------------------------------------------
(* The invariant implies what the runs check.                              *)
LEMMA HoldsTree ==
  ASSUME TypeOK, WithinLimits, NEW at, NEW slot, Holds(at, slot)
  PROVE  TreeSound
  <1> DEFINE rec(p) == [dir |-> at[Parent(p)], at |-> slot[p], ino |-> at[p]]
  <1>1. imap \cap Inodes = {0} \cup {e.ino : e \in Named}
    BY NamedAre DEF Holds, BitsOK
  <1>2. \A e \in Named : \E p \in Used(at) : e = rec(p)
    BY NamedAre
  <1>3. \A p, q \in Used(at) : at[p] = at[q] => p = q
    BY DEF Holds, PathsOK, Used
  <1>4. \A p : rec(p).ino = at[p] /\ rec(p).dir = at[Parent(p)]
    OBVIOUS
  <1> HIDE DEF rec
  <1>5. \A e, f \in Named : e.ino = f.ino => e = f
    BY <1>2, <1>3, <1>4
  <1>6. \A e \in Named : inode[e.ino].mode = "dir" =>
            helper(e.ino, ".") = {e.ino} /\ helper(e.ino, "..") = {e.dir}
    <2> SUFFICES ASSUME NEW e \in Named, inode[e.ino].mode = "dir"
                 PROVE  helper(e.ino, ".") = {e.ino} /\ helper(e.ino, "..") = {e.dir}
      OBVIOUS
    <2>1. PICK p \in Used(at) : e = rec(p)
      BY <1>2
    <2>2. p \in DOMAIN at /\ Mode(at, p) = "dir"
      BY <1>4, <2>1 DEF Used, Mode
    <2> QED BY <1>4, <2>1, <2>2, Lookup
  <1> QED BY <1>1, <1>5, <1>6 DEF TreeSound

LEMMA HoldsBlocks ==
  ASSUME TypeOK, WithinLimits, NEW at, NEW slot, Holds(at, slot)
  PROVE  BlocksSound
  <1>1. Owners = {at[p] : p \in DOMAIN at}
    <2>1. Directories \subseteq {at[p] : p \in DOMAIN at}
      BY DirectoriesAre DEF Dirs
    <2>2. 0 \in Directories
      BY DEF Directories
    <2> QED BY <2>1, <2>2, NamedAre DEF Owners
  <1>2. PathsOK(at) /\ DataOK(at)
    BY DEF Holds
  <1>3. \A p \in DOMAIN at : ExtentBlocks(at[p]) = IF HasBlock(at, p) THEN {Start(at[p])} ELSE {}
    <2> SUFFICES ASSUME NEW p \in DOMAIN at
                 PROVE  ExtentBlocks(at[p]) = IF HasBlock(at, p) THEN {Start(at[p])} ELSE {}
      OBVIOUS
    <2>1. inode[at[p]].extent_count \in 0 .. 1
      BY <1>2, UsedPaths, InodeTypes
    <2>2. HasBlock(at, p) \/ inode[at[p]].extent_count = 0
      BY <2>1 DEF HasBlock
    <2>3. CASE HasBlock(at, p)
      BY <2>3, OneBlock
    <2>4. CASE ~HasBlock(at, p)
      BY <2>2, <2>4 DEF ExtentBlocks
    <2> QED BY <2>3, <2>4
  <1>4. dmap = UNION {ExtentBlocks(i) : i \in Owners}
    <2>1. dmap = {Start(at[p]) : p \in {q \in DOMAIN at : HasBlock(at, q)}}
      BY <1>2 DEF DataOK
    <2>2. \A b \in dmap : \E i \in Owners : b \in ExtentBlocks(i)
      BY <1>1, <1>3, <2>1
    <2>3. \A i \in Owners : ExtentBlocks(i) \subseteq dmap
      BY <1>1, <1>3, <2>1
    <2> QED BY <2>2, <2>3
  <1>5. \A i, j \in Owners : ExtentBlocks(i) \cap ExtentBlocks(j) # {} => i = j
    BY <1>1, <1>2, <1>3 DEF DataOK
  <1> QED BY <1>4, <1>5 DEF BlocksSound

LEMMA HoldsLinks ==
  ASSUME TypeOK, WithinLimits, NEW at, NEW slot, Holds(at, slot)
  PROVE  LinksTellEmptiness
  <1> SUFFICES ASSUME NEW p \in Dirs(at)
               PROVE  inode[at[p]].links = 2 <=> Children(at[p]) = {}
    BY DirectoriesAre DEF LinksTellEmptiness
  <1>1. p \in DOMAIN at /\ Mode(at, p) = "dir"
    BY DEF Dirs
  <1>2. inode[at[p]].links = inode[at[p]].size
    BY <1>1 DEF Holds, InodeOK, Mode
  <1>3. Children(at[p]) = 2 .. inode[at[p]].size - 1 /\ inode[at[p]].size \in 2 .. EntriesPerBlock - 1
    BY <1>1, ChildrenAre, DirectorySize
  <1>4. \A s \in Nat : s >= 2 => (s = 2 <=> 2 .. s - 1 = {})
    <2> SUFFICES ASSUME NEW s \in Nat, s >= 2 PROVE s = 2 <=> 2 .. s - 1 = {}
      OBVIOUS
    <2>1. s # 2 => 2 \in 2 .. s - 1
      OBVIOUS
    <2>2. s = 2 => 2 .. s - 1 = {}
      OBVIOUS
    <2> QED BY <2>1, <2>2
  <1>5. inode[at[p]].size \in Nat /\ inode[at[p]].size >= 2
    BY <1>3, Partitions
  <1> QED BY <1>2, <1>3, <1>4, <1>5

LEMMA HoldsListing ==
  ASSUME TypeOK, WithinLimits, NEW at, NEW slot, Holds(at, slot)
  PROVE  ListingMatchesLookup
  <1> SUFFICES ASSUME NEW p \in Dirs(at)
               PROVE  /\ IsInjective(a1fs_readdir(at[p]))
                      /\ \A e \in DOMAIN a1fs_readdir(at[p]) :
                            helper(at[p], a1fs_readdir(at[p])[e]) = {EntryAt(at[p], e).ino}
    BY DirectoriesAre DEF ListingMatchesLookup
  <1>1. p \in DOMAIN at /\ Mode(at, p) = "dir"
    BY DEF Dirs
  <1>2. /\ DOMAIN a1fs_readdir(at[p]) = EntryNumbers(at[p])
        /\ \A e \in EntryNumbers(at[p]) : a1fs_readdir(at[p])[e] = EntryAt(at[p], e).name
    BY DEF a1fs_readdir
  <1>3. \A d, e \in EntryNumbers(at[p]) : EntryAt(at[p], d).name = EntryAt(at[p], e).name => d = e
    BY <1>1, EntriesDiffer
  <1>4. \A e \in EntryNumbers(at[p]) : helper(at[p], EntryAt(at[p], e).name) = {EntryAt(at[p], e).ino}
    BY <1>1, Lookup
  <1> QED BY <1>2, <1>3, <1>4 DEF IsInjective

LEMMA HoldsContents ==
  ASSUME TypeOK, WithinLimits, NEW at, NEW slot, Holds(at, slot)
  PROVE  FirstWritesKept
  <1> SUFFICES ASSUME "behind" \notin lapses, NEW p \in Paths
               PROVE  IF p \in DOMAIN expect
                      THEN Kind(p) = {"file"} /\ Contents(p) = {[k \in DOMAIN expect[p] |-> {expect[p][k]}]}
                      ELSE Kind(p) # {"file"}
    BY DEF FirstWritesKept, FilesKeepContents
  <1>1. /\ path_inode(p) = IF p \in DOMAIN at THEN {at[p]} ELSE {}
        /\ Kind(p) = IF p \in DOMAIN at THEN {Mode(at, p)} ELSE {}
    BY Resolve
  <1>2. DOMAIN expect = {q \in DOMAIN at : Mode(at, q) = "file"}
    BY DEF Holds, ContentsOK
  <1>3. CASE p \notin DOMAIN expect
    BY <1>1, <1>2, <1>3
  <1>4. CASE p \in DOMAIN expect
    <2> DEFINE i == at[p]
               l == Len(expect[p])
    <2>1. p \in DOMAIN at /\ Mode(at, p) = "file" /\ i \in Inodes
      BY <1>2, <1>4, UsedPaths DEF Holds
    <2>2. /\ expect[p] \in Seq([ino : Inodes, name : Data \cup {""}])
          /\ inode[i].size = l /\ l <= EntriesPerBlock
          /\ HasBlock(at, p) => \A k \in 1 .. l : block[Start(i)][k - 1] = expect[p][k]
      BY <1>4 DEF Holds, ContentsOK
    <2>3. l \in Nat /\ DOMAIN expect[p] = 1 .. l
      <3>1. \A S : \A s \in Seq(S) : Len(s) \in Nat /\ DOMAIN s = 1 .. Len(s)
        OBVIOUS
      <3> QED BY <2>2, <3>1
    <2>4. inode[i].extent_count = 0 => l = 0
      BY <2>1, <2>2 DEF Holds, InodeOK, Mode
    <2>5. inode[i].extent_count = 0 \/ inode[i].extent_count = 1
      <3>1. inode[i].extent_count \in 0 .. 1
        BY <2>1, InodeTypes
      <3> QED BY <3>1
    <2>6. ASSUME NEW k \in 1 .. l
          PROVE  a1fs_read(i, k - 1) = {expect[p][k]}
      <3>1. inode[i].extent_count = 1 /\ HasBlock(at, p)
        <4> HIDE DEF l
        <4> QED BY <2>3, <2>4, <2>5 DEF HasBlock
      <3>2. Start(i) \in Nat /\ EntriesPerBlock \in Nat /\ EntriesPerBlock > 0
        BY <2>1, <3>1, OneBlock, Partitions
      <3> HIDE DEF l
      <3>3. k - 1 \in 0 .. EntriesPerBlock - 1 /\ ~(k - 1 > l)
        <4>1. l <= EntriesPerBlock
          BY <2>2 DEF l
        <4> QED BY <2>3, <3>2, <4>1
      <3>4. (k - 1) % EntriesPerBlock = k - 1
        BY <3>2, <3>3, Small
      <3>5. /\ (Start(i) * EntriesPerBlock + (k - 1)) \div EntriesPerBlock = Start(i)
            /\ (Start(i) * EntriesPerBlock + (k - 1)) % EntriesPerBlock = k - 1
        BY <3>2, <3>3, Quotients
      <3>6. a1fs_read(i, k - 1) = {At(Start(i) * EntriesPerBlock + ((k - 1) % EntriesPerBlock))}
        <4>1. inode[i].size = l /\ inode[i].extent_count # 0
          <5>1. inode[i].size = l
            BY <2>2
          <5>2. inode[i].extent_count # 0
            BY <3>1
          <5> QED BY <5>1, <5>2
        <4>2. a1fs_read(i, k - 1) = IF k - 1 > l THEN {}
                                    ELSE {At(Start(i) * EntriesPerBlock + ((k - 1) % EntriesPerBlock))}
          BY <4>1 DEF a1fs_read, Start
        <4> QED BY <3>3, <4>2
      <3>7. a1fs_read(i, k - 1) = {block[Start(i)][k - 1]}
        BY <3>4, <3>5, <3>6 DEF At, BlockOf
      <3> QED BY <2>2, <3>1, <3>7
    <2>7. Contents(p) = {[k \in 1 .. l |-> a1fs_read(i, k - 1)]}
      <3>1. path_inode(p) = {i} /\ inode[i].size = l
        BY <1>1, <2>1, <2>2
      <3> DEFINE g(j) == [k \in 1 .. inode[j].size |-> a1fs_read(j, k - 1)]
      <3>2. g(i) = [k \in 1 .. l |-> a1fs_read(i, k - 1)]
        BY <3>1
      <3>3. Contents(p) = UNION {{g(j)} : j \in path_inode(p)}
        BY DEF Contents
      <3> HIDE DEF g
      <3>4. Contents(p) = {g(i)}
        BY <3>1, <3>3
      <3> QED BY <3>2, <3>4
    <2>8. [k \in 1 .. l |-> a1fs_read(i, k - 1)] = [k \in DOMAIN expect[p] |-> {expect[p][k]}]
      BY <2>3, <2>6
    <2> QED BY <1>1, <1>4, <2>1, <2>7, <2>8
  <1> QED BY <1>3, <1>4

-----------------------------------------------------------------------------
(* One byte of a bitmap has a bit for one more path: the numbers below     *)
(* BitsPerByte do not all belong to the other ones.                        *)
LEMMA BitForPath ==
  ASSUME FewPaths, NEW D \in SUBSET (NewPaths \cup {Root}), NEW p \in NewPaths \ D, NEW f
  PROVE  \E b \in 0 .. BitsPerByte - 1 : \A q \in D : f[q] # b
  <1> DEFINE B == 0 .. BitsPerByte - 1
             g == [b \in B |-> CHOOSE q \in D : f[q] = b]
             R == (NewPaths \ {p}) \cup {Root}
  <1>1. IsFiniteSet(NewPaths) /\ Cardinality(NewPaths) < BitsPerByte /\ Cardinality(NewPaths) \in Nat
        /\ BitsPerByte \in Nat /\ BitsPerByte > 0
    BY Partitions, FS_CardinalityType DEF FewPaths
  <1>2. IsFiniteSet(NewPaths \ {p}) /\ Cardinality(NewPaths \ {p}) = Cardinality(NewPaths) - 1
    BY <1>1, FS_RemoveElement
  <1>3. IsFiniteSet(R) /\ Cardinality(R) <= Cardinality(NewPaths)
    <2> DEFINE N == NewPaths \ {p}
    <2>1. IsFiniteSet(N) /\ Cardinality(N) = Cardinality(NewPaths) - 1
      BY <1>2
    <2> HIDE DEF N
    <2>2. /\ IsFiniteSet(N \cup {Root})
          /\ Cardinality(N \cup {Root}) = IF Root \in N THEN Cardinality(N) ELSE Cardinality(N) + 1
      BY <2>1, FS_AddElement
    <2>3. IsFiniteSet(N \cup {Root}) /\ Cardinality(N \cup {Root}) <= Cardinality(NewPaths)
      BY <1>1, <2>1, <2>2
    <2> QED BY <2>3 DEF N
  <1>4. p # Root
    BY RootPath, NamesAssumption DEF NewPaths
  <1>5. D \subseteq R
    BY <1>4
  <1>6. IsFiniteSet(D) /\ Cardinality(D) <= Cardinality(R) /\ Cardinality(D) \in Nat /\ Cardinality(R) \in Nat
    BY <1>3, <1>5, FS_Subset, FS_CardinalityType
  <1>7. Cardinality(B) = BitsPerByte
    BY <1>1, FS_Interval
  <1> HIDE DEF B, R
  <1>8. SUFFICES ASSUME \A b \in B : \E q \in D : f[q] = b
                 PROVE  FALSE
    BY DEF B
  <1>9. \A b \in B : g[b] \in D /\ f[g[b]] = b
    BY <1>8
  <1>10. g \in Injection(B, D)
    BY <1>9 DEF Injection, IsInjective
  <1>11. Cardinality(B) <= Cardinality(D)
    BY <1>6, <1>10, FS_Injection
  <1> QED BY <1>1, <1>3, <1>6, <1>7, <1>11

(* The bitmaps are finite sets of numbers.                                 *)
LEMMA BitmapTypes ==
  ASSUME TypeOK
  PROVE  imap \in SUBSET Nat /\ IsFiniteSet(imap) /\ dmap \in SUBSET Nat /\ IsFiniteSet(dmap)
  <1>1. IsFiniteSet(OldBits) /\ OldBits \in SUBSET Nat
    BY Partitions, FS_Interval DEF OldBits
  <1>2. IsFiniteSet(OldBits \cup Inodes) /\ IsFiniteSet(OldBits \cup Blocks)
    BY <1>1, Partitions, FS_Union
  <1>3. imap \subseteq OldBits \cup Inodes /\ dmap \subseteq OldBits \cup Blocks
    BY DEF TypeOK
  <1>4. IsFiniteSet(imap) /\ IsFiniteSet(dmap)
    BY <1>2, <1>3, FS_Subset
  <1> QED BY <1>1, <1>3, <1>4, Partitions

(* While not all paths are in use the search for a free bit of either      *)
(* bitmap ends in the first byte, at the bit that is then marked.          *)
LEMMA FoundBit ==
  ASSUME NEW map \in SUBSET Nat, IsFiniteSet(map), NEW b \in 0 .. BitsPerByte - 1, b \notin map
  PROVE  /\ FreeBit(map) \in Nat /\ FreeBit(map) \notin map
         /\ FreeBit(map) % BitsPerByte = FreeBit(map) /\ TakeFreeBit(map) = map \cup {FreeBit(map)}
  <1>1. BitsPerByte \in Nat /\ b \in Nat
    BY Partitions
  <1>2. FreeBit(map) \in Nat /\ FreeBit(map) \notin map /\ FreeBit(map) <= b
    BY <1>1, FreeBitLeast
  <1>3. FreeBit(map) \in 0 .. BitsPerByte - 1
    BY <1>1, <1>2
  <1>4. FreeBit(map) % BitsPerByte = FreeBit(map)
    BY <1>1, <1>3, Small
  <1> QED BY <1>2, <1>4 DEF TakeFreeBit, SetBit

LEMMA FreeInode ==
  ASSUME TypeOK, WithinLimits, NEW at, NEW slot, Holds(at, slot), NEW p \in NewPaths \ DOMAIN at
  PROVE  /\ FreeBit(imap) \in Nat /\ FreeBit(imap) \notin imap
         /\ TakeFreeBit(imap) = imap \cup {FreeBit(imap)}
         /\ \A q \in DOMAIN at : at[q] # FreeBit(imap)
  <1>1. PathsOK(at) /\ BitsOK(at)
    BY DEF Holds
  <1>2. DOMAIN at \in SUBSET (NewPaths \cup {Root})
    BY <1>1 DEF PathsOK, Used
  <1>3. \E b \in 0 .. BitsPerByte - 1 : b \notin imap
    <2>1. CASE FewPaths
      <3>1. PICK b \in 0 .. BitsPerByte - 1 : \A q \in DOMAIN at : at[q] # b
        BY <1>2, <2>1, BitForPath
      <3>2. b < BitsPerWord /\ b \in Nat /\ BitsPerWord \in Nat
        BY Partitions
      <3>3. b \in imap => b \in Inodes
        BY <1>1, <3>2 DEF BitsOK
      <3> QED BY <1>1, <3>1, <3>3 DEF BitsOK
    <2>2. CASE RoomLeft
      BY <2>2 DEF RoomLeft
    <2> QED BY <2>1, <2>2 DEF WithinLimits
  <1>4. PICK b \in 0 .. BitsPerByte - 1 : b \notin imap
    BY <1>3
  <1>5. /\ FreeBit(imap) \in Nat /\ FreeBit(imap) \notin imap
        /\ TakeFreeBit(imap) = imap \cup {FreeBit(imap)}
    BY <1>4, BitmapTypes, FoundBit
  <1>6. \A q \in DOMAIN at : at[q] \in imap
    BY <1>1 DEF BitsOK
  <1> QED BY <1>5, <1>6

(* The same for the blocks, also when a file that has none takes one.      *)
LEMMA FreeBlock ==
  ASSUME TypeOK, WithinLimits, NEW at, NEW slot, Holds(at, slot), NEW p \in NewPaths,
         p \in DOMAIN at => ~HasBlock(at, p)
  PROVE  /\ FreeBit(dmap) \in Nat /\ FreeBit(dmap) \notin dmap
         /\ TakeFreeBit(dmap) = dmap \cup {FreeBit(dmap)} /\ FreeBit(dmap) % BitsPerByte = FreeBit(dmap)
         /\ \A q \in DOMAIN at : HasBlock(at, q) => Start(at[q]) # FreeBit(dmap)
  <1> DEFINE D == {q \in DOMAIN at : HasBlock(at, q)}
             f == [q \in D |-> Start(at[q])]
  <1>1. PathsOK(at) /\ DataOK(at)
    BY DEF Holds
  <1>2. D \in SUBSET (NewPaths \cup {Root}) /\ p \notin D
    BY <1>1 DEF PathsOK, Used
  <1>3. \A q \in D : f[q] = Start(at[q])
    OBVIOUS
  <1> HIDE DEF D, f
  <1>4. dmap = {Start(at[q]) : q \in D}
    BY <1>1 DEF DataOK, D
  <1>5. \E b \in 0 .. BitsPerByte - 1 : b \notin dmap
    <2>1. CASE FewPaths
      <3>1. p \in NewPaths \ D
        BY <1>2
      <3>2. PICK b \in 0 .. BitsPerByte - 1 : \A q \in D : f[q] # b
        BY <1>2, <2>1, <3>1, BitForPath
      <3> QED BY <1>3, <1>4, <3>2
    <2>2. CASE RoomLeft
      BY <2>2 DEF RoomLeft
    <2> QED BY <2>1, <2>2 DEF WithinLimits
  <1>6. PICK b \in 0 .. BitsPerByte - 1 : b \notin dmap
    BY <1>5
  <1>7. /\ FreeBit(dmap) \in Nat /\ FreeBit(dmap) \notin dmap
        /\ TakeFreeBit(dmap) = dmap \cup {FreeBit(dmap)} /\ FreeBit(dmap) % BitsPerByte = FreeBit(dmap)
    BY <1>6, BitmapTypes, FoundBit
  <1> QED BY <1>4, <1>7 DEF D

-----------------------------------------------------------------------------
(* A new path p with inode i, whose entry is written behind the last one   *)
(* of the directory u above it.                                            *)
With(f, p, v) == [q \in DOMAIN f \cup {p} |-> IF q = p THEN v ELSE f[q]]

Enters(at, p, i, u, s, w) ==
    /\ i \in Inodes /\ i \notin imap
    /\ Parent(p) \in DOMAIN at /\ Mode(at, Parent(p)) = "dir" /\ u = at[Parent(p)]
    /\ s = inode[u].size /\ w = Start(u)
    /\ inode'[u] = [inode[u] EXCEPT !.size = @ + 1, !.links = @ + 1]
    /\ \A j \in Inodes : j # u /\ j # i => inode'[j] = inode[j]
    /\ \A j \in Extents : j # i => extent'[j] = extent[j]
    /\ block'[w] = [block[w] EXCEPT ![s] = Entry(i, Last(p))]
    /\ \A b \in dmap : b # w => block'[b] = block[b]
    /\ imap' = imap \cup {i} /\ UNCHANGED <<size, lapses>>

(* The new inode is an empty directory, or an empty file.                  *)
BecomesDirectory(at, p, i) == LET d == extent'[i].start IN
    /\ inode'[i] = [mode |-> "dir", links |-> 2, size |-> 2, extent_count |-> 1]
    /\ i \in Extents /\ extent'[i].count = 1 /\ InImage(d)
    /\ block'[d][0] = Entry(i, ".") /\ block'[d][1] = Entry(at[Parent(p)], "..")
    /\ d \notin dmap /\ dmap' = dmap \cup {d} /\ UNCHANGED expect
BecomesFile(p, i) ==
    /\ inode'[i] = [mode |-> "file", links |-> 1, size |-> 0, extent_count |-> 0]
    /\ UNCHANGED dmap /\ expect' = With(expect, p, <<>>)

(* What a call does to the paths in use: one may come, or one with nothing *)
(* below it go, and the others stay what they are.                         *)
Stay(at, at2) == \A q \in DOMAIN at \cap DOMAIN at2 : Mode(at2, q)' = Mode(at, q)
Comes(at, at2, p) ==
    /\ p \in NewPaths \ DOMAIN at /\ DOMAIN at2 = DOMAIN at \cup {p}
    /\ Parent(p) \in DOMAIN at /\ Mode(at, Parent(p)) = "dir"
Goes(at, at2, p) ==
    /\ p \in Used(at) /\ DOMAIN at2 = DOMAIN at \ {p}
    /\ \A q \in Used(at) : Parent(q) # p
NamesChange ==
    \E at, slot, at2, slot2 :
        /\ Holds(at, slot) /\ Holds(at2, slot2)' /\ Stay(at, at2)
        /\ DOMAIN at2 = DOMAIN at \/ \E p : Comes(at, at2, p) \/ Goes(at, at2, p)

(* A step fails, damages the image, formats it, or makes such a change.    *)
NameStep ==
    \/ UNCHANGED <<formatted, wild, inode, extent, block>>
    \/ wild' /\ ~formatted'
    \/ /\ ~formatted /\ ~wild /\ formatted' /\ ~wild'
       /\ \E at, slot : Holds(at, slot)' /\ Used(at) = {}
    \/ Ready /\ Ready' /\ NamesChange

(* Facts about the inodes in use that the steps below need one by one.     *)
LEMMA InUse ==
  ASSUME TypeOK, WithinLimits, NEW at, NEW slot, Holds(at, slot), NEW p \in DOMAIN at
  PROVE  /\ at[p] \in Inodes /\ at[p] \in imap /\ Parent(p) \in DOMAIN at
         /\ Mode(at, p) = "dir" \/ Mode(at, p) = "file"
         /\ HasBlock(at, p) => /\ at[p] \in Extents /\ Start(at[p]) \in dmap /\ Start(at[p]) \in Blocks
                               /\ InImage(Start(at[p])) /\ extent[at[p]].count = 1
         /\ Mode(at, p) = "dir" => /\ HasBlock(at, p) /\ inode[at[p]].size \in 2 .. EntriesPerBlock - 1
                                   /\ inode[at[p]].links = inode[at[p]].size
  <1>1. PathsOK(at) /\ BitsOK(at) /\ DataOK(at) /\ InodeOK(at, p) /\ (p \in Used(at) => EntryOK(at, slot, p))
    BY DEF Holds
  <1>2. at[p] \in Inodes
    BY <1>1, UsedPaths
  <1>3. at[p] \in imap
    BY <1>1, <1>2 DEF BitsOK
  <1>4. Parent(p) \in DOMAIN at
    BY <1>1, RootPath DEF EntryOK, Used, PathsOK
  <1>5. Mode(at, p) = "dir" \/ Mode(at, p) = "file"
    BY <1>1 DEF InodeOK, Mode
  <1>6. Mode(at, p) = "dir" => inode[at[p]].size \in 2 .. EntriesPerBlock - 1 /\ HasBlock(at, p)
    BY DirectoryView
  <1>7. Mode(at, p) = "dir" => inode[at[p]].links = inode[at[p]].size
    BY <1>1 DEF InodeOK, Mode
  <1>8. HasBlock(at, p) => /\ at[p] \in Extents /\ Start(at[p]) \in dmap /\ Start(at[p]) \in Blocks
                           /\ InImage(Start(at[p])) /\ extent[at[p]].count = 1
    BY <1>1, OneBlock DEF DataOK
  <1> QED BY <1>2, <1>3, <1>4, <1>5, <1>6, <1>7, <1>8

LEMMA BlocksDiffer ==
  ASSUME NEW at, NEW slot, Holds(at, slot), NEW p \in DOMAIN at, NEW q \in DOMAIN at,
         HasBlock(at, p), HasBlock(at, q), p # q
  PROVE  Start(at[p]) # Start(at[q]) /\ at[p] # at[q]
  BY DEF Holds, DataOK, PathsOK

LEMMA DotsAre ==
  ASSUME NEW at, NEW slot, Holds(at, slot), NEW p \in DOMAIN at, Mode(at, p) = "dir"
  PROVE  block[Start(at[p])][0] = Entry(at[p], ".") /\ block[Start(at[p])][1] = Entry(at[Parent(p)], "..")
  BY DEF Holds, InodeOK, Mode

(* Adding a path keeps the tree.                                           *)
LEMMA Growth ==
  ASSUME TypeOK, WithinLimits, NEW at, NEW slot, Holds(at, slot),
         NEW p \in NewPaths \ DOMAIN at, NEW i, NEW u, NEW s, NEW w, Enters(at, p, i, u, s, w),
         BecomesDirectory(at, p, i) \/ BecomesFile(p, i)
  PROVE  \E at2, slot2 : Holds(at2, slot2)' /\ Comes(at, at2, p) /\ Stay(at, at2)
  <1> DEFINE at2 == With(at, p, i)
             slot3 == [q \in DOMAIN at \cup {p} |-> IF q = p THEN s ELSE slot[q]]
             v == Parent(p)
  <1>1. PathsOK(at) /\ Root \in DOMAIN at /\ at[Root] = 0 /\ DOMAIN at \subseteq NewPaths \cup {Root}
    BY DEF Holds, PathsOK, Used
  <1>2. /\ p \in Paths /\ p # Root /\ v # p /\ v \in DOMAIN at /\ p \notin DOMAIN at
        /\ \A q \in DOMAIN at : q # p /\ Parent(q) \in DOMAIN at /\ Parent(q) # p
    BY <1>1, UsedPaths, InUse, PathFacts DEF Enters
  <1>3. /\ DOMAIN at2 = DOMAIN at \cup {p} /\ at2[p] = i /\ \A q \in DOMAIN at : at2[q] = at[q]
        /\ slot3[p] = s /\ \A q \in DOMAIN at : slot3[q] = slot[q]
    BY <1>2 DEF With
  <1> HIDE DEF at2, slot3
  <1>4. Used(at2) = Used(at) \cup {p} /\ p \notin Used(at) /\ Used(at) \subseteq DOMAIN at
    BY <1>2, <1>3 DEF Used
  <1>5. /\ i \in Inodes /\ i \notin imap /\ u = at[v] /\ Mode(at, v) = "dir" /\ s = inode[u].size /\ w = Start(u)
        /\ inode'[u] = [inode[u] EXCEPT !.size = @ + 1, !.links = @ + 1]
        /\ \A j \in Inodes : j # u /\ j # i => inode'[j] = inode[j]
        /\ \A j \in Extents : j # i => extent'[j] = extent[j]
        /\ block'[w] = [block[w] EXCEPT ![s] = Entry(i, Last(p))]
        /\ \A b \in dmap : b # w => block'[b] = block[b]
        /\ imap' = imap \cup {i} /\ size' = size /\ lapses' = lapses
    BY DEF Enters
  <1>6. \A q \in DOMAIN at : at[q] \in Inodes /\ at[q] # i /\ (q # v => at[q] # u)
    <2>1. \A q \in DOMAIN at : at[q] \in Inodes /\ at[q] \in imap
      BY InUse
    <2>2. \A q, r \in DOMAIN at : at[q] = at[r] => q = r
      BY <1>1 DEF PathsOK
    <2> QED BY <1>2, <1>5, <2>1, <2>2
  <1>7. PathsOK(at2)
    <2>1. at2 \in [DOMAIN at2 -> Inodes]
      BY <1>3, <1>5, <1>6 DEF at2, With
    <2>2. \A q, r \in DOMAIN at2 : at2[q] = at2[r] => q = r
      BY <1>1, <1>3, <1>6 DEF PathsOK
    <2> QED BY <1>1, <1>2, <1>3, <1>4, <2>1, <2>2 DEF PathsOK, Used
  \* the directory above
  <1>8. /\ s \in 2 .. EntriesPerBlock - 1 /\ s \in Nat /\ s >= 2 /\ s \in Slots
        /\ inode[u].links = s /\ inode[u].mode = "dir" /\ inode[u].extent_count = 1
        /\ u \in Inodes /\ u \in Extents /\ u # i /\ w \in Blocks /\ w \in dmap /\ InImage(w) /\ extent[u].count = 1
    <2>1. s \in 2 .. EntriesPerBlock - 1 /\ inode[u].links = s /\ HasBlock(at, v) /\ u \in Extents /\ u \in Inodes
          /\ w \in Blocks /\ w \in dmap /\ InImage(w) /\ extent[u].count = 1 /\ u # i
      BY <1>2, <1>5, <1>6, InUse
    <2>2. s \in Nat /\ s >= 2 /\ s \in Slots
      BY <2>1, Partitions
    <2> QED BY <1>5, <2>1, <2>2 DEF Mode, HasBlock
  <1>9. /\ inode'[u].size = s + 1 /\ inode'[u].links = s + 1 /\ inode'[u].mode = "dir" /\ inode'[u].extent_count = 1
        /\ extent'[u] = extent[u]
    <2>1. inode[u] \in [mode : {"none", "dir", "file"}, links : 0 .. CountMod - 1, size : Nat, extent_count : 0 .. 1]
      BY <1>8 DEF TypeOK
    <2>2. /\ inode'[u].size = inode[u].size + 1 /\ inode'[u].links = inode[u].links + 1
          /\ inode'[u].mode = inode[u].mode /\ inode'[u].extent_count = inode[u].extent_count
      BY <1>5, <2>1
    <2> QED BY <1>5, <1>8, <2>2
  <1>10. block'[w][s] = Entry(i, Last(p)) /\ \A x \in Slots : x # s => block'[w][x] = block[w][x]
    <2>1. block[w] \in [Slots -> [ino : Inodes, name : Names \cup Data \cup {".", "..", ""}]]
      BY <1>8 DEF TypeOK
    <2> QED BY <1>5, <1>8, <2>1
  <1>11. \A e \in 2 .. s - 1 : e \in Slots /\ e # s
    BY <1>8, Partitions
  <1>12. 0 \in Slots /\ 1 \in Slots /\ s # 0 /\ s # 1
    BY <1>8, Partitions
  \* the inodes that were there
  <1>13. ASSUME NEW q \in DOMAIN at, q # v
         PROVE  /\ inode'[at[q]] = inode[at[q]]
                /\ HasBlock(at, q) => extent'[at[q]] = extent[at[q]] /\ block'[Start(at[q])] = block[Start(at[q])]
    <2>1. inode'[at[q]] = inode[at[q]]
      BY <1>5, <1>6, <1>13
    <2>2. HasBlock(at, q) => Start(at[q]) # w
      BY <1>2, <1>5, <1>8, <1>13, BlocksDiffer DEF HasBlock
    <2>3. HasBlock(at, q) => at[q] \in Extents /\ Start(at[q]) \in dmap
      BY InUse
    <2> QED BY <1>5, <1>6, <2>1, <2>2, <2>3
  <1>14. \A q \in DOMAIN at : HasBlock(at2, q)' = HasBlock(at, q) /\ Mode(at2, q)' = Mode(at, q)
         /\ (HasBlock(at, q) => Start(at2[q])' = Start(at[q]) /\ extent'[at[q]] = extent[at[q]])
    <2> SUFFICES ASSUME NEW q \in DOMAIN at
                 PROVE  /\ HasBlock(at2, q)' = HasBlock(at, q) /\ Mode(at2, q)' = Mode(at, q)
                        /\ HasBlock(at, q) => Start(at2[q])' = Start(at[q]) /\ extent'[at[q]] = extent[at[q]]
      OBVIOUS
    <2>1. inode'[at[q]].mode = inode[at[q]].mode /\ inode'[at[q]].extent_count = inode[at[q]].extent_count
      BY <1>5, <1>8, <1>9, <1>13
    <2>2. HasBlock(at, q) => extent'[at[q]] = extent[at[q]]
      BY <1>5, <1>9, <1>13
    <2> QED BY <1>3, <2>1, <2>2 DEF HasBlock, Mode, Start
  <1>15. ASSUME NEW q \in DOMAIN at
         PROVE  InodeOK(at2, q)'
    <2>1. InodeOK(at, q) /\ at2[q] = at[q] /\ at2[Parent(q)] = at[Parent(q)]
      BY <1>2, <1>3 DEF Holds
    <2>2. CASE q = v
      <3>1. block[w][0] = Entry(u, ".") /\ block[w][1] = Entry(at[Parent(v)], "..")
        BY <1>2, <1>5, DotsAre
      <3>2. block'[w][0] = Entry(u, ".") /\ block'[w][1] = Entry(at[Parent(v)], "..")
        BY <1>10, <1>12, <3>1
      <3>3. extent'[u].start = w /\ extent'[u].count = 1 /\ InImage(w)'
        BY <1>5, <1>8, <1>9 DEF Start, InImage
      <3>4. s + 1 >= 2
        BY <1>8
      <3>5. at2[q] = u /\ at2[Parent(q)] = at[Parent(v)] /\ Start(u)' = w
        BY <1>5, <2>1, <2>2, <3>3 DEF Start
      <3>6. u \in Extents
        BY <1>8
      <3> QED BY <1>9, <3>2, <3>3, <3>4, <3>5, <3>6 DEF InodeOK
    <2>3. CASE q # v
      <3>1. inode'[at[q]] = inode[at[q]]
        BY <1>13, <2>3
      <3>2. CASE HasBlock(at, q)
        <4>1. extent'[at[q]] = extent[at[q]] /\ block'[Start(at[q])] = block[Start(at[q])]
          BY <1>13, <2>3, <3>2
        <4>2. InImage(Start(at[q])) <=> InImage(Start(at[q]))'
          BY <1>5, <4>1 DEF InImage, Start
        <4> QED BY <2>1, <3>1, <4>1, <4>2 DEF InodeOK, Start
      <3>3. CASE ~HasBlock(at, q)
        <4>1. inode[at[q]].extent_count # 1
          BY <3>3 DEF HasBlock
        <4> QED BY <2>1, <3>1, <4>1 DEF InodeOK
      <3> QED BY <3>2, <3>3
    <2> QED BY <2>2, <2>3
  <1>16. ASSUME NEW q \in DOMAIN at
         PROVE  SlotsFilled(at2, slot3, q)'
    <2> SUFFICES ASSUME Mode(at, q) = "dir", NEW e \in 2 .. inode'[at[q]].size - 1
                 PROVE  \E r \in Used(at2) : Parent(r) = q /\ slot3[r] = e
      BY <1>3, <1>14 DEF SlotsFilled
    <2>1. \A d \in 2 .. inode[at[q]].size - 1 : \E r \in Used(at) : Parent(r) = q /\ slot[r] = d
      BY DEF Holds, SlotsFilled
    <2>2. CASE q = v
      <3>1. e \in 2 .. s
        <4>1. inode'[at[q]].size = s + 1
          BY <1>5, <1>9, <2>2
        <4>2. (s + 1) - 1 = s
          BY <1>8
        <4> QED BY <4>1, <4>2
      <3>2. CASE e = s
        BY <1>3, <1>4, <2>2, <3>2
      <3>3. CASE e # s
        <4>1. e \in 2 .. inode[at[q]].size - 1
          BY <1>5, <1>8, <2>2, <3>1, <3>3
        <4> QED BY <1>3, <1>4, <2>1, <4>1
      <3> QED BY <3>2, <3>3
    <2>3. CASE q # v
      BY <1>3, <1>4, <1>13, <2>1, <2>3
    <2> QED BY <2>2, <2>3
  <1>17. ASSUME NEW q \in Used(at)
         PROVE  EntryOK(at2, slot3, q)'
    <2> DEFINE d == at[Parent(q)]
    <2>1. /\ Parent(q) \in DOMAIN at /\ inode[d].mode = "dir" /\ slot[q] \in 2 .. inode[d].size - 1
          /\ block[Start(d)][slot[q]] = Entry(at[q], Last(q))
      BY DEF Holds, EntryOK
    <2>2. at2[q] = at[q] /\ slot3[q] = slot[q] /\ at2[Parent(q)] = d /\ Parent(q) \in DOMAIN at2
      BY <1>3, <1>4, <2>1
    <2>3. CASE Parent(q) = v
      <3>1. slot[q] \in 2 .. s - 1 /\ slot[q] \in 2 .. (s + 1) - 1
        BY <1>5, <1>8, <2>1, <2>3
      <3>2. block'[w][slot[q]] = Entry(at[q], Last(q))
        BY <1>5, <1>10, <1>11, <2>1, <2>3, <3>1
      <3> QED BY <1>5, <1>9, <2>2, <2>3, <3>1, <3>2 DEF EntryOK, Start
    <2>4. CASE Parent(q) # v
      <3>1. HasBlock(at, Parent(q))
        BY <2>1, InUse DEF Mode
      <3>2. inode'[d] = inode[d] /\ extent'[d] = extent[d] /\ block'[Start(d)] = block[Start(d)]
        BY <1>13, <2>1, <2>4, <3>1
      <3> QED BY <2>1, <2>2, <3>2 DEF EntryOK, Start
    <2> QED BY <2>3, <2>4
  <1>18. EntryOK(at2, slot3, p)'
    <2>1. s \in 2 .. (s + 1) - 1
      BY <1>8
    <2>2. at2[Parent(p)] = u /\ Parent(p) \in DOMAIN at2 /\ slot3[p] = s /\ at2[p] = i
      BY <1>2, <1>3, <1>5
    <2>3. Start(u)' = w
      BY <1>5, <1>9 DEF Start
    <2> QED BY <1>9, <1>10, <2>1, <2>2, <2>3 DEF EntryOK
  <1>19. BitsOK(at2)'
    <2>1. imap \cap Inodes = {at[q] : q \in DOMAIN at} /\ \A b \in imap : b \in Inodes \/ b >= BitsPerWord
      BY DEF Holds, BitsOK
    <2>2. {at2[q] : q \in DOMAIN at2} = {at[q] : q \in DOMAIN at} \cup {i}
      BY <1>3
    <2> QED BY <1>5, <2>1, <2>2 DEF BitsOK
  <1>20. Mode(at2, Root)' = "dir"
    BY <1>1, <1>14 DEF Holds
  <1>21. dmap = {Start(at[q]) : q \in {r \in DOMAIN at : HasBlock(at, r)}}
    BY DEF Holds, DataOK
  <1>22. "behind" \notin lapses => DOMAIN expect = {q \in DOMAIN at : Mode(at, q) = "file"}
    BY DEF Holds, ContentsOK
  <1>23. ASSUME NEW q \in DOMAIN at, "behind" \notin lapses, q \in DOMAIN expect
         PROVE  /\ expect[q] \in Seq([ino : Inodes, name : Data \cup {""}])
                /\ inode'[at2[q]].size = Len(expect[q]) /\ inode'[at2[q]].size <= EntriesPerBlock
                /\ HasBlock(at2, q)' => \A k \in 1 .. Len(expect[q]) : block'[Start(at2[q])'][k - 1] = expect[q][k]
    <2>1. Mode(at, q) = "file" /\ q # v
      BY <1>5, <1>22, <1>23
    <2>2. /\ expect[q] \in Seq([ino : Inodes, name : Data \cup {""}])
          /\ inode[at[q]].size = Len(expect[q]) /\ inode[at[q]].size <= EntriesPerBlock
          /\ HasBlock(at, q) => \A k \in 1 .. Len(expect[q]) : block[Start(at[q])][k - 1] = expect[q][k]
      BY <1>23 DEF Holds, ContentsOK
    <2>3. inode'[at2[q]] = inode[at[q]]
      BY <1>3, <1>13, <2>1
    <2>4. HasBlock(at, q) => block'[Start(at2[q])'] = block[Start(at[q])]
      BY <1>13, <1>14, <2>1
    <2> QED BY <1>14, <2>2, <2>3, <2>4
  <1>names. Comes(at, at2, p) /\ Stay(at, at2)
    BY <1>2, <1>3, <1>5, <1>14 DEF Comes, Stay
  <1>24. CASE BecomesDirectory(at, p, i)
    <2> DEFINE d == extent'[i].start
    <2>1. /\ inode'[i] = [mode |-> "dir", links |-> 2, size |-> 2, extent_count |-> 1]
          /\ i \in Extents /\ extent'[i].count = 1 /\ InImage(d)
          /\ block'[d][0] = Entry(i, ".") /\ block'[d][1] = Entry(u, "..")
          /\ d \notin dmap /\ dmap' = dmap \cup {d} /\ expect' = expect
      BY <1>5, <1>24 DEF BecomesDirectory
    <2>2. /\ inode'[i].mode = "dir" /\ inode'[i].links = 2 /\ inode'[i].size = 2 /\ inode'[i].extent_count = 1
      BY <2>1
    <2>3. Start(at2[p])' = d /\ HasBlock(at2, p)' /\ Mode(at2, p)' = "dir" /\ InImage(Start(at2[p]))'
      <3>1. at2[p] = i /\ start_data + extent'[i].start < size' /\ extent'[i].start >= 0
        BY <1>3, <1>5, <2>1 DEF InImage
      <3> QED BY <2>2, <3>1 DEF Start, HasBlock, Mode, InImage
    <2>4. InodeOK(at2, p)'
      <3>1. at2[p] = i /\ at2[Parent(p)] = u /\ 2 >= 2
        BY <1>2, <1>3, <1>5
      <3>2. /\ block'[Start(i)'][0] = Entry(i, ".") /\ block'[Start(i)'][1] = Entry(u, "..")
            /\ InImage(Start(i))' /\ i \in Extents /\ extent'[i].count = 1
        BY <2>1, <2>3, <3>1
      <3> QED BY <2>2, <3>1, <3>2 DEF InodeOK
    <2>5. SlotsFilled(at2, slot3, p)'
      <3>1. ~\E e \in 2 .. 2 - 1 : TRUE
        OBVIOUS
      <3> QED BY <1>3, <2>2, <3>1 DEF SlotsFilled
    <2>6. DataOK(at2)'
      <3>1. {q \in DOMAIN at2 : HasBlock(at2, q)'} = {q \in DOMAIN at : HasBlock(at, q)} \cup {p}
        BY <1>3, <1>14, <2>3
      <3>2. dmap' = {Start(at2[q])' : q \in {r \in DOMAIN at2 : HasBlock(at2, r)'}}
        BY <1>14, <1>21, <2>1, <2>3, <3>1
      <3>3. \A q \in DOMAIN at : HasBlock(at, q) => Start(at2[q])' # d
        BY <1>14, <1>21, <2>1
      <3>4. \A q, r \in DOMAIN at : HasBlock(at, q) /\ HasBlock(at, r) /\ Start(at[q]) = Start(at[r]) => q = r
        BY DEF Holds, DataOK
      <3>5. \A q, r \in DOMAIN at2 : HasBlock(at2, q)' /\ HasBlock(at2, r)' /\ Start(at2[q])' = Start(at2[r])' => q = r
        BY <1>3, <1>14, <2>3, <3>3, <3>4
      <3> QED BY <3>2, <3>5 DEF DataOK
    <2>7. ContentsOK(at2)'
      <3> SUFFICES ASSUME "behind" \notin lapses PROVE ContentsOK(at2)'
        BY <1>5 DEF ContentsOK
      <3>1. DOMAIN expect = {q \in DOMAIN at2 : Mode(at2, q)' = "file"}
        BY <1>3, <1>14, <1>22, <2>3
      <3>2. \A q \in DOMAIN expect : q \in DOMAIN at
        BY <1>22
      <3> QED BY <1>23, <2>1, <3>1, <3>2 DEF ContentsOK
    <2>8. \A q \in DOMAIN at2 : InodeOK(at2, q)' /\ SlotsFilled(at2, slot3, q)'
      BY <1>3, <1>15, <1>16, <2>4, <2>5
    <2>9. \A q \in Used(at2) : EntryOK(at2, slot3, q)'
      BY <1>4, <1>17, <1>18
    <2>10. Holds(at2, slot3)'
      BY <1>7, <1>19, <1>20, <2>6, <2>7, <2>8, <2>9 DEF Holds
    <2> QED BY <1>names, <2>10
  <1>25. CASE BecomesFile(p, i)
    <2>1. /\ inode'[i] = [mode |-> "file", links |-> 1, size |-> 0, extent_count |-> 0]
          /\ dmap' = dmap /\ expect' = With(expect, p, <<>>)
      BY <1>25 DEF BecomesFile
    <2>2. inode'[i].mode = "file" /\ inode'[i].size = 0 /\ inode'[i].extent_count = 0
      BY <2>1
    <2>3. ~HasBlock(at2, p)' /\ Mode(at2, p)' = "file"
      BY <1>3, <2>2 DEF HasBlock, Mode
    <2>4. InodeOK(at2, p)'
      BY <1>3, <2>2 DEF InodeOK
    <2>5. SlotsFilled(at2, slot3, p)'
      BY <2>3 DEF SlotsFilled
    <2>6. DataOK(at2)'
      <3>1. {q \in DOMAIN at2 : HasBlock(at2, q)'} = {q \in DOMAIN at : HasBlock(at, q)}
        BY <1>3, <1>14, <2>3
      <3>2. dmap' = {Start(at2[q])' : q \in {r \in DOMAIN at2 : HasBlock(at2, r)'}}
        BY <1>14, <1>21, <2>1, <3>1
      <3>3. \A q, r \in DOMAIN at : HasBlock(at, q) /\ HasBlock(at, r) /\ Start(at[q]) = Start(at[r]) => q = r
        BY DEF Holds, DataOK
      <3>4. \A q, r \in DOMAIN at2 : HasBlock(at2, q)' /\ HasBlock(at2, r)' /\ Start(at2[q])' = Start(at2[r])' => q = r
        BY <1>3, <1>14, <2>3, <3>3
      <3> QED BY <3>2, <3>4 DEF DataOK
    <2>7. ContentsOK(at2)'
      <3> SUFFICES ASSUME "behind" \notin lapses PROVE ContentsOK(at2)'
        BY <1>5 DEF ContentsOK
      <3>1. DOMAIN expect' = DOMAIN expect \cup {p} /\ expect'[p] = <<>> /\ p \notin DOMAIN expect
            /\ \A q \in DOMAIN expect : expect'[q] = expect[q] /\ q \in DOMAIN at
        BY <1>2, <1>22, <2>1 DEF With
      <3>2. DOMAIN expect' = {q \in DOMAIN at2 : Mode(at2, q)' = "file"}
        BY <1>3, <1>14, <1>22, <2>3, <3>1
      <3>3. Len(<<>>) = 0 /\ <<>> \in Seq([ino : Inodes, name : Data \cup {""}]) /\ 0 <= EntriesPerBlock
        BY Partitions
      <3>4. expect'[p] \in Seq([ino : Inodes, name : Data \cup {""}]) /\ inode'[at2[p]].size = Len(expect'[p])
            /\ inode'[at2[p]].size <= EntriesPerBlock
        BY <1>3, <2>2, <3>1, <3>3
      <3>5. ASSUME NEW q \in DOMAIN expect'
            PROVE  /\ expect'[q] \in Seq([ino : Inodes, name : Data \cup {""}])
                   /\ inode'[at2[q]].size = Len(expect'[q]) /\ inode'[at2[q]].size <= EntriesPerBlock
                   /\ HasBlock(at2, q)' =>
                         \A k \in 1 .. Len(expect'[q]) : block'[Start(at2[q])'][k - 1] = expect'[q][k]
        <4>1. CASE q = p
          BY <2>3, <3>4, <4>1
        <4>2. CASE q \in DOMAIN expect
          <5>1. q \in DOMAIN at /\ expect'[q] = expect[q]
            BY <3>1, <4>2
          <5>2. /\ expect[q] \in Seq([ino : Inodes, name : Data \cup {""}])
                /\ inode'[at2[q]].size = Len(expect[q]) /\ inode'[at2[q]].size <= EntriesPerBlock
                /\ HasBlock(at2, q)' =>
                      \A k \in 1 .. Len(expect[q]) : block'[Start(at2[q])'][k - 1] = expect[q][k]
            BY <1>23, <4>2, <5>1
          <5> QED BY <5>1, <5>2
        <4> QED BY <3>1, <4>1, <4>2
      <3> QED BY <3>2, <3>5 DEF ContentsOK
    <2>8. \A q \in DOMAIN at2 : InodeOK(at2, q)' /\ SlotsFilled(at2, slot3, q)'
      BY <1>3, <1>15, <1>16, <2>4, <2>5
    <2>9. \A q \in Used(at2) : EntryOK(at2, slot3, q)'
      BY <1>4, <1>17, <1>18
    <2>10. Holds(at2, slot3)'
      BY <1>7, <1>19, <1>20, <2>6, <2>7, <2>8, <2>9 DEF Holds
    <2> QED BY <1>names, <2>10
  <1> QED BY <1>24, <1>25

-----------------------------------------------------------------------------
(* A path p goes: the last entry of the directory u above it takes the     *)
(* place of its entry.                                                     *)
Leaves(at, slot, p, u, s, w) ==
    /\ p \in Used(at) /\ (Mode(at, p) = "dir" => inode[at[p]].size = 2)
    /\ u = at[Parent(p)] /\ s = inode[u].size /\ w = Start(u)
    /\ inode'[u] = [inode[u] EXCEPT !.size = s - 1, !.links = s - 1]
    /\ \A j \in Inodes : j # u => inode'[j] = inode[j]
    /\ UNCHANGED <<extent, size, lapses>>
    /\ \A y \in 0 .. s - 2 : block'[w][y] = IF y = slot[p] THEN block[w][s - 1] ELSE block[w][y]
    /\ \A b \in dmap : b # w => block'[b] = block[b]
    /\ imap' = imap \ {at[p]}
    /\ dmap' = dmap \ (IF HasBlock(at, p) THEN {Start(at[p])} ELSE {})
    /\ expect' = IF Mode(at, p) = "file" THEN [q \in DOMAIN expect \ {p} |-> expect[q]] ELSE expect

LEMMA Shrinking ==
  ASSUME TypeOK, WithinLimits, NEW at, NEW slot, Holds(at, slot),
         NEW p, NEW u, NEW s, NEW w, Leaves(at, slot, p, u, s, w)
  PROVE  \E at2, slot2 : Holds(at2, slot2)' /\ Goes(at, at2, p) /\ Stay(at, at2)
  <1> DEFINE v == Parent(p)
             x == slot[p]
             at2 == [q \in DOMAIN at \ {p} |-> at[q]]
             slot2 == [q \in DOMAIN at \ {p} |-> IF Parent(q) = v /\ slot[q] = s - 1 THEN x ELSE slot[q]]
  <1>1. PathsOK(at) /\ Root \in DOMAIN at /\ at[Root] = 0 /\ DOMAIN at \subseteq NewPaths \cup {Root}
    BY DEF Holds, PathsOK, Used
  <1>2. /\ p \in Used(at) /\ (Mode(at, p) = "dir" => inode[at[p]].size = 2)
        /\ u = at[v] /\ s = inode[u].size /\ w = Start(u)
        /\ inode'[u] = [inode[u] EXCEPT !.size = s - 1, !.links = s - 1]
        /\ \A j \in Inodes : j # u => inode'[j] = inode[j]
        /\ extent' = extent /\ size' = size /\ lapses' = lapses
        /\ \A y \in 0 .. s - 2 : block'[w][y] = IF y = x THEN block[w][s - 1] ELSE block[w][y]
        /\ \A b \in dmap : b # w => block'[b] = block[b]
        /\ imap' = imap \ {at[p]}
        /\ dmap' = dmap \ (IF HasBlock(at, p) THEN {Start(at[p])} ELSE {})
        /\ expect' = IF Mode(at, p) = "file" THEN [q \in DOMAIN expect \ {p} |-> expect[q]] ELSE expect
    BY DEF Leaves
  <1>3. p \in Paths /\ p # Root /\ p \in DOMAIN at /\ v # p
    BY <1>1, <1>2, UsedPaths, PathFacts
  <1>4. /\ v \in DOMAIN at /\ Mode(at, v) = "dir" /\ x \in 2 .. s - 1 /\ block[w][x] = Entry(at[p], Last(p))
    BY <1>2 DEF Holds, EntryOK, Mode
  <1>5. /\ s \in 3 .. EntriesPerBlock - 1 /\ s \in Nat /\ s >= 3
        /\ inode[u].links = s /\ inode[u].mode = "dir" /\ inode[u].extent_count = 1
        /\ u \in Inodes /\ u \in Extents /\ u # at[p] /\ w \in Blocks /\ w \in dmap /\ InImage(w) /\ extent[u].count = 1
    <2>1. s \in 2 .. EntriesPerBlock - 1 /\ inode[u].links = s /\ HasBlock(at, v) /\ u \in Extents /\ u \in Inodes
          /\ w \in Blocks /\ w \in dmap /\ InImage(w) /\ extent[u].count = 1
      BY <1>2, <1>4, InUse
    <2>2. s \in Nat /\ s >= 3 /\ s \in 3 .. EntriesPerBlock - 1
      BY <1>4, <2>1, Partitions
    <2>3. u # at[p]
      BY <1>1, <1>2, <1>3, <1>4 DEF PathsOK
    <2> QED BY <1>2, <1>4, <2>1, <2>2, <2>3 DEF Mode, HasBlock
  <1>6. \A q \in Used(at) : Parent(q) # p
    <2> SUFFICES ASSUME NEW q \in Used(at), Parent(q) = p PROVE FALSE
      OBVIOUS
    <2>1. inode[at[p]].mode = "dir" /\ slot[q] \in 2 .. inode[at[p]].size - 1
      BY DEF Holds, EntryOK
    <2>2. inode[at[p]].size = 2
      BY <1>2, <2>1 DEF Mode
    <2> QED BY <2>1, <2>2
  <1>7. \A q \in DOMAIN at : Parent(q) \in DOMAIN at /\ (q # p => Parent(q) # p)
    <2>1. Parent(Root) = Root
      BY RootPath
    <2>2. \A q \in DOMAIN at : q = Root \/ q \in Used(at)
      BY DEF Used
    <2> QED BY <1>3, <1>6, <2>1, <2>2, InUse
  <1>8. \A q \in DOMAIN at : at[q] \in Inodes /\ (q # v => at[q] # u)
    BY <1>1, <1>2, <1>4, InUse DEF PathsOK
  <1>9. /\ DOMAIN at2 = DOMAIN at \ {p} /\ \A q \in DOMAIN at : q # p => at2[q] = at[q]
        /\ \A q \in DOMAIN at : q # p => slot2[q] = IF Parent(q) = v /\ slot[q] = s - 1 THEN x ELSE slot[q]
    OBVIOUS
  <1> HIDE DEF at2, slot2
  <1>10. Used(at2) = Used(at) \ {p} /\ Used(at) \subseteq DOMAIN at
    BY <1>9 DEF Used
  <1>11. PathsOK(at2)
    <2>1. at2 \in [DOMAIN at2 -> Inodes]
      BY <1>8, <1>9 DEF at2
    <2>2. \A q, r \in DOMAIN at2 : at2[q] = at2[r] => q = r
      BY <1>1, <1>9 DEF PathsOK
    <2> QED BY <1>1, <1>3, <1>9, <1>10, <2>1, <2>2 DEF PathsOK, Used
  \* the directory above
  <1>12. /\ inode'[u].size = s - 1 /\ inode'[u].links = s - 1 /\ inode'[u].mode = "dir" /\ inode'[u].extent_count = 1
    <2>1. inode[u] \in [mode : {"none", "dir", "file"}, links : 0 .. CountMod - 1, size : Nat, extent_count : 0 .. 1]
      BY <1>5 DEF TypeOK
    <2>2. /\ inode'[u].size = s - 1 /\ inode'[u].links = s - 1
          /\ inode'[u].mode = inode[u].mode /\ inode'[u].extent_count = inode[u].extent_count
      BY <1>2, <2>1
    <2> QED BY <1>5, <2>2
  <1>13. ASSUME NEW q \in DOMAIN at, q # v
         PROVE  /\ inode'[at[q]] = inode[at[q]]
                /\ HasBlock(at, q) => block'[Start(at[q])] = block[Start(at[q])]
    <2>1. inode'[at[q]] = inode[at[q]]
      BY <1>2, <1>8, <1>13
    <2>2. HasBlock(at, q) => Start(at[q]) # w
      BY <1>2, <1>4, <1>5, <1>13, BlocksDiffer DEF HasBlock
    <2>3. HasBlock(at, q) => Start(at[q]) \in dmap
      BY InUse
    <2> QED BY <1>2, <2>1, <2>2, <2>3
  <1>14. \A q \in DOMAIN at : q # p =>
            /\ HasBlock(at2, q)' = HasBlock(at, q) /\ Mode(at2, q)' = Mode(at, q)
            /\ Start(at2[q])' = Start(at[q])
    <2> SUFFICES ASSUME NEW q \in DOMAIN at, q # p
                 PROVE  /\ HasBlock(at2, q)' = HasBlock(at, q) /\ Mode(at2, q)' = Mode(at, q)
                        /\ Start(at2[q])' = Start(at[q])
      OBVIOUS
    <2>1. inode'[at[q]].mode = inode[at[q]].mode /\ inode'[at[q]].extent_count = inode[at[q]].extent_count
      BY <1>2, <1>5, <1>12, <1>13
    <2>2. at2[q] = at[q] /\ extent' = extent
      BY <1>2, <1>9
    <2> QED BY <2>1, <2>2 DEF HasBlock, Mode, Start
  <1>15. ASSUME NEW q \in DOMAIN at, q # p
         PROVE  InodeOK(at2, q)'
    <2>1. InodeOK(at, q) /\ at2[q] = at[q] /\ at2[Parent(q)] = at[Parent(q)]
      BY <1>7, <1>9, <1>15 DEF Holds
    <2>2. CASE q = v
      <3>1. block[w][0] = Entry(u, ".") /\ block[w][1] = Entry(at[Parent(v)], "..")
        BY <1>2, <1>4, DotsAre
      <3>2. 0 \in 0 .. s - 2 /\ 1 \in 0 .. s - 2 /\ x # 0 /\ x # 1 /\ s - 1 >= 2
        BY <1>4, <1>5
      <3>3. block'[w][0] = Entry(u, ".") /\ block'[w][1] = Entry(at[Parent(v)], "..")
        BY <1>2, <3>1, <3>2
      <3>4. Start(u)' = w /\ extent'[u].count = 1 /\ InImage(w)'
        BY <1>2, <1>5 DEF Start, InImage
      <3>5. at2[q] = u /\ at2[Parent(q)] = at[Parent(v)] /\ u \in Extents
        BY <1>2, <1>5, <2>1, <2>2
      <3> QED BY <1>12, <3>2, <3>3, <3>4, <3>5 DEF InodeOK
    <2>3. CASE q # v
      <3>1. inode'[at[q]] = inode[at[q]] /\ extent' = extent /\ size' = size
        BY <1>2, <1>13, <2>3
      <3>2. CASE HasBlock(at, q)
        <4>1. block'[Start(at[q])] = block[Start(at[q])]
          BY <1>13, <2>3, <3>2
        <4> QED BY <2>1, <3>1, <4>1 DEF InodeOK, Start, InImage
      <3>3. CASE ~HasBlock(at, q)
        <4>1. inode[at[q]].extent_count # 1
          BY <3>3 DEF HasBlock
        <4> QED BY <2>1, <3>1, <4>1 DEF InodeOK
      <3> QED BY <3>2, <3>3
    <2> QED BY <2>2, <2>3
  <1>16. ASSUME NEW q \in DOMAIN at, q # p
         PROVE  SlotsFilled(at2, slot2, q)'
    <2> SUFFICES ASSUME Mode(at, q) = "dir", NEW e \in 2 .. inode'[at[q]].size - 1
                 PROVE  \E r \in Used(at2) : Parent(r) = q /\ slot2[r] = e
      BY <1>9, <1>14, <1>16 DEF SlotsFilled
    <2>1. \A d \in 2 .. inode[at[q]].size - 1 : \E r \in Used(at) : Parent(r) = q /\ slot[r] = d
      BY DEF Holds, SlotsFilled
    <2>2. CASE q = v
      <3>1. e \in 2 .. s - 2 /\ e # s - 1 /\ e \in 2 .. s - 1 /\ s - 1 \in 2 .. s - 1
        <4>1. inode'[at[q]].size = s - 1
          BY <1>2, <1>12, <2>2
        <4>2. e \in 2 .. (s - 1) - 1
          BY <4>1
        <4> QED BY <1>5, <4>2
      <3>2. PICK r \in Used(at) : Parent(r) = v /\ slot[r] = e
        BY <1>2, <2>1, <2>2, <3>1
      <3>3. CASE r # p
        BY <1>9, <1>10, <2>2, <3>1, <3>2, <3>3
      <3>4. CASE r = p
        <4>1. PICK t \in Used(at) : Parent(t) = v /\ slot[t] = s - 1
          BY <1>2, <2>1, <2>2, <3>1
        <4>2. t # p
          BY <3>1, <3>2, <3>4, <4>1
        <4>3. slot2[t] = e
          BY <1>9, <1>10, <3>2, <3>4, <4>1, <4>2
        <4> QED BY <1>10, <2>2, <4>1, <4>2, <4>3
      <3> QED BY <3>3, <3>4
    <2>3. CASE q # v
      <3>1. inode'[at[q]] = inode[at[q]]
        BY <1>13, <2>3
      <3>2. PICK r \in Used(at) : Parent(r) = q /\ slot[r] = e
        BY <2>1, <3>1
      <3>3. r # p
        BY <2>3, <3>2
      <3> QED BY <1>9, <1>10, <2>3, <3>2, <3>3
    <2> QED BY <2>2, <2>3
  <1>17. ASSUME NEW q \in Used(at), q # p
         PROVE  EntryOK(at2, slot2, q)'
    <2> DEFINE d == at[Parent(q)]
    <2>1. /\ Parent(q) \in DOMAIN at /\ inode[d].mode = "dir" /\ slot[q] \in 2 .. inode[d].size - 1
          /\ block[Start(d)][slot[q]] = Entry(at[q], Last(q))
      BY DEF Holds, EntryOK
    <2>2. q \in DOMAIN at /\ at2[q] = at[q] /\ Parent(q) # p /\ at2[Parent(q)] = d /\ Parent(q) \in DOMAIN at2
      BY <1>6, <1>9, <1>10, <1>17, <2>1
    <2>3. CASE Parent(q) = v
      <3>1. slot[q] \in 2 .. s - 1 /\ block[w][slot[q]] = Entry(at[q], Last(q))
        BY <1>2, <2>1, <2>3
      <3>2. slot[q] # x
        <4>1. Entry(at[q], Last(q)).ino = at[q] /\ Entry(at[p], Last(p)).ino = at[p]
          BY DEF Entry
        <4>2. at[q] # at[p]
          BY <1>1, <1>3, <1>17, <2>2 DEF PathsOK
        <4> QED BY <1>4, <3>1, <4>1, <4>2
      <3>3. CASE slot[q] = s - 1
        <4>1. slot2[q] = x
          BY <1>9, <1>17, <2>2, <2>3, <3>3
        <4>2. x \in 2 .. (s - 1) - 1 /\ x \in 0 .. s - 2
          BY <1>4, <1>5, <3>2, <3>3
        <4>3. block'[w][x] = Entry(at[q], Last(q))
          BY <1>2, <3>1, <3>3, <4>2
        <4>4. Start(u)' = w /\ d = u
          BY <1>2, <2>3 DEF Start
        <4> QED BY <1>12, <2>2, <4>1, <4>2, <4>3, <4>4 DEF EntryOK
      <3>4. CASE slot[q] # s - 1
        <4>1. slot2[q] = slot[q]
          BY <1>9, <1>17, <2>2, <3>4
        <4>2. slot[q] \in 2 .. (s - 1) - 1 /\ slot[q] \in 0 .. s - 2
          BY <1>5, <3>1, <3>4
        <4>3. block'[w][slot[q]] = Entry(at[q], Last(q))
          BY <1>2, <3>1, <3>2, <4>2
        <4>4. Start(u)' = w /\ d = u
          BY <1>2, <2>3 DEF Start
        <4> QED BY <1>12, <2>2, <4>1, <4>2, <4>3, <4>4 DEF EntryOK
      <3> QED BY <3>3, <3>4
    <2>4. CASE Parent(q) # v
      <3>1. HasBlock(at, Parent(q))
        BY <2>1, InUse DEF Mode
      <3>2. inode'[d] = inode[d] /\ block'[Start(d)] = block[Start(d)] /\ Start(d)' = Start(d)
        BY <1>2, <1>13, <2>1, <2>4, <3>1 DEF Start
      <3>3. slot2[q] = slot[q]
        BY <1>9, <1>17, <2>2, <2>4
      <3> QED BY <2>1, <2>2, <3>2, <3>3 DEF EntryOK
    <2> QED BY <2>3, <2>4
  <1>18. BitsOK(at2)'
    <2>1. imap \cap Inodes = {at[q] : q \in DOMAIN at} /\ \A b \in imap : b \in Inodes \/ b >= BitsPerWord
      BY DEF Holds, BitsOK
    <2>2. \A q \in DOMAIN at : q # p => at[q] # at[p]
      BY <1>1, <1>3 DEF PathsOK
    <2>3. {at2[q] : q \in DOMAIN at2} = {at[q] : q \in DOMAIN at} \ {at[p]}
      BY <1>3, <1>9, <2>2
    <2>4. imap' = imap \ {at[p]}
      BY <1>2
    <2> QED BY <2>1, <2>3, <2>4 DEF BitsOK
  <1>19. Mode(at2, Root)' = "dir"
    BY <1>1, <1>3, <1>14 DEF Holds
  <1>20. DataOK(at2)'
    <2>1. dmap = {Start(at[q]) : q \in {r \in DOMAIN at : HasBlock(at, r)}}
      BY DEF Holds, DataOK
    <2>2. \A q, r \in DOMAIN at : HasBlock(at, q) /\ HasBlock(at, r) /\ Start(at[q]) = Start(at[r]) => q = r
      BY DEF Holds, DataOK
    <2>3. {q \in DOMAIN at2 : HasBlock(at2, q)'} = {q \in DOMAIN at : HasBlock(at, q) /\ q # p}
      BY <1>9, <1>14
    <2>4. {Start(at2[q])' : q \in {r \in DOMAIN at2 : HasBlock(at2, r)'}} =
              {Start(at[q]) : q \in {r \in DOMAIN at : HasBlock(at, r) /\ r # p}}
      BY <1>14, <2>3
    <2>5. dmap' = {Start(at[q]) : q \in {r \in DOMAIN at : HasBlock(at, r) /\ r # p}}
      <3>1. dmap' = dmap \ (IF HasBlock(at, p) THEN {Start(at[p])} ELSE {})
        BY <1>2
      <3> QED BY <1>3, <2>1, <2>2, <3>1
    <2>6. \A q, r \in DOMAIN at2 : HasBlock(at2, q)' /\ HasBlock(at2, r)' /\ Start(at2[q])' = Start(at2[r])' => q = r
      BY <1>9, <1>14, <2>2
    <2> QED BY <2>4, <2>5, <2>6 DEF DataOK
  <1>21. ContentsOK(at2)'
    <2> SUFFICES ASSUME "behind" \notin lapses PROVE ContentsOK(at2)'
      BY <1>2 DEF ContentsOK
    <2>1. DOMAIN expect = {q \in DOMAIN at : Mode(at, q) = "file"}
      BY DEF Holds, ContentsOK
    <2>2. DOMAIN expect' = DOMAIN expect \ {p} /\ \A q \in DOMAIN expect' : expect'[q] = expect[q]
      <3>1. CASE Mode(at, p) = "file"
        BY <1>2, <3>1
      <3>2. CASE Mode(at, p) # "file"
        <4>1. expect' = expect
          BY <1>2, <3>2
        <4> QED BY <2>1, <3>2, <4>1
      <3> QED BY <3>1, <3>2
    <2>3. DOMAIN expect' = {q \in DOMAIN at2 : Mode(at2, q)' = "file"}
      BY <1>9, <1>14, <2>1, <2>2
    <2>4. ASSUME NEW q \in DOMAIN expect'
          PROVE  /\ expect'[q] \in Seq([ino : Inodes, name : Data \cup {""}])
                 /\ inode'[at2[q]].size = Len(expect'[q]) /\ inode'[at2[q]].size <= EntriesPerBlock
                 /\ HasBlock(at2, q)' =>
                       \A k \in 1 .. Len(expect'[q]) : block'[Start(at2[q])'][k - 1] = expect'[q][k]
      <3>1. q \in DOMAIN expect /\ expect'[q] = expect[q] /\ q \in DOMAIN at /\ q # p /\ q # v
        BY <1>4, <2>1, <2>2
      <3>2. /\ expect[q] \in Seq([ino : Inodes, name : Data \cup {""}])
            /\ inode[at[q]].size = Len(expect[q]) /\ inode[at[q]].size <= EntriesPerBlock
            /\ HasBlock(at, q) => \A k \in 1 .. Len(expect[q]) : block[Start(at[q])][k - 1] = expect[q][k]
        BY <3>1 DEF Holds, ContentsOK
      <3>3. inode'[at2[q]] = inode[at[q]]
        BY <1>9, <1>13, <3>1
      <3>4. HasBlock(at, q) => block'[Start(at2[q])'] = block[Start(at[q])]
        BY <1>13, <1>14, <3>1
      <3> QED BY <1>14, <3>1, <3>2, <3>3, <3>4
    <2> QED BY <2>3, <2>4 DEF ContentsOK
  <1>22. \A q \in DOMAIN at2 : InodeOK(at2, q)' /\ SlotsFilled(at2, slot2, q)'
    BY <1>9, <1>15, <1>16
  <1>23. \A q \in Used(at2) : EntryOK(at2, slot2, q)'
    BY <1>10, <1>17
  <1>24. Holds(at2, slot2)'
    BY <1>11, <1>18, <1>19, <1>20, <1>21, <1>22, <1>23 DEF Holds
  <1>25. Goes(at, at2, p)
    BY <1>2, <1>6, <1>9 DEF Goes
  <1>26. Stay(at, at2)
    BY <1>9, <1>14 DEF Stay
  <1> QED BY <1>24, <1>25, <1>26

-----------------------------------------------------------------------------
(* What the callbacks do to counts and blocks.                             *)
EntryType == [ino : Inodes, name : Names \cup Data \cup {".", "..", ""}]

LEMMA Residues ==
  ASSUME NEW n \in Int
  PROVE  /\ n % CountMod \in 0 .. CountMod - 1
         /\ n \in 0 .. CountMod - 1 => n % CountMod = n
         /\ n >= 0 => n % CountMod <= n
  <1>1. CountMod \in Nat /\ CountMod > 0
    BY Partitions
  <1>2. \A m \in Nat : m > 0 => /\ n % m \in 0 .. m - 1
                                /\ n \in 0 .. m - 1 => n % m = n
                                /\ n >= 0 => n % m <= n
    OBVIOUS
  <1> QED BY <1>1, <1>2

LEMMA Counts ==
  ASSUME TypeOK
  PROVE  free.inodes \in 0 .. CountMod - 1 /\ free.blocks \in 0 .. CountMod - 1
         /\ free = [inodes |-> free.inodes, blocks |-> free.blocks]
  <1>1. free \in [inodes : 0 .. CountMod - 1, blocks : 0 .. CountMod - 1]
    BY DEF TypeOK
  <1> QED BY <1>1

LEMMA PutEntry ==
  ASSUME NEW f \in [Blocks -> [Slots -> EntryType]], NEW b \in Blocks, NEW y \in Slots, NEW e \in EntryType,
         NEW g, g = [f EXCEPT ![b][y] = e]
  PROVE  /\ g \in [Blocks -> [Slots -> EntryType]] /\ g[b] = [f[b] EXCEPT ![y] = e]
         /\ \A c \in Blocks : c # b => g[c] = f[c]
  OBVIOUS

LEMMA Entries ==
  ASSUME NEW i \in Inodes, NEW n \in Names \cup {".", ".."}
  PROVE  Entry(i, n) \in EntryType /\ Entry(i, n).name = n /\ Entry(i, n).ino = i
  BY DEF Entry, EntryType

LEMMA StillPromised ==
  ASSUME TypeOK, NoOvercommit, formatted, size' = size, lapses \subseteq lapses',
         "overdrawn" \notin lapses' => free'.blocks + Cardinality(dmap') <= free.blocks + Cardinality(dmap),
         free'.blocks \in Nat, IsFiniteSet(dmap')
  PROVE  NoOvercommit'
  <1> SUFFICES ASSUME size >= start_data + 3, "overdrawn" \notin lapses'
               PROVE  free'.blocks + Cardinality(dmap') <= size - start_data
    BY DEF NoOvercommit, a1fs_statfs
  <1>1. free.blocks + Cardinality(dmap) <= size - start_data
    BY DEF NoOvercommit, a1fs_statfs
  <1>2. free.blocks \in Nat /\ Cardinality(dmap) \in Nat /\ Cardinality(dmap') \in Nat
        /\ size \in Nat /\ start_data \in Nat
    <2>1. CountMod \in Nat /\ start_data \in Nat /\ size \in Nat
      BY Partitions DEF TypeOK
    <2>2. free.blocks \in Nat
      BY <2>1, Counts
    <2> QED BY <2>1, <2>2, BitmapTypes, FS_CardinalityType
  <1> QED BY <1>1, <1>2

-----------------------------------------------------------------------------
(* Undefined behaviour, and calls that fail.                               *)
LEMMA WildStep ==
  ASSUME TypeOK, GoWild, expect' = <<>>
  PROVE  A1fsInv' /\ NameStep
  <1>1. 0 \in 0 .. CountMod - 1 /\ 0 \in Inodes /\ 0 \in Blocks /\ 0 \in 0 .. 1 /\ 0 \in Nat
    BY Partitions
  <1>2. NoInode \in [mode : {"none", "dir", "file"}, links : 0 .. CountMod - 1, size : Nat, extent_count : 0 .. 1]
    BY <1>1 DEF NoInode
  <1>3. ZeroBlocks \in [Blocks -> [Slots -> EntryType]]
    BY <1>1 DEF ZeroBlocks, Blank, EntryType
  <1>4. [start |-> 0, count |-> 0] \in [start : Blocks, count : 0 .. CountMod - 1]
    BY <1>1
  <1>5. [inodes |-> 0, blocks |-> 0] \in [inodes : 0 .. CountMod - 1, blocks : 0 .. CountMod - 1]
    BY <1>1
  <1>6. size' = size /\ size \in ImageSizes
    BY DEF GoWild, TypeOK
  <1>7. TypeOK'
    BY <1>2, <1>3, <1>4, <1>5, <1>6 DEF TypeOK, GoWild, EntryType
  <1>8. formatted' = FALSE /\ imap' = {}
    BY DEF GoWild
  <1>9. NameStep
    BY DEF GoWild, NameStep
  <1> QED BY <1>7, <1>8, <1>9 DEF A1fsInv, NoOvercommit, Image, Unformatted

LEMMA NewNames ==
  ASSUME Ready, Ready', NEW at, NEW slot, Holds(at, slot), NEW p,
         \E at2, slot2 : Holds(at2, slot2)' /\ (Comes(at, at2, p) \/ Goes(at, at2, p)) /\ Stay(at, at2)
  PROVE  Image' /\ NameStep
  <1>1. Image'
    BY DEF Image, Ready
  <1>2. NamesChange
    BY DEF NamesChange
  <1> QED BY <1>1, <1>2 DEF NameStep

LEMMA HoldsStill ==
  ASSUME NEW at, NEW slot, Holds(at, slot),
         UNCHANGED <<size, imap, dmap, inode, extent, block, expect, lapses>>
  PROVE  Holds(at, slot)'
  <1>1. \A p : (Mode(at, p)' = Mode(at, p)) /\ (HasBlock(at, p)' <=> HasBlock(at, p))
    BY DEF Mode, HasBlock
  <1>2. \A p : InodeOK(at, p) => InodeOK(at, p)'
    BY DEF InodeOK, Start, InImage
  <1>3. \A p : (SlotsFilled(at, slot, p) => SlotsFilled(at, slot, p)') /\ (EntryOK(at, slot, p) => EntryOK(at, slot, p)')
    BY <1>1 DEF SlotsFilled, EntryOK, Start
  <1>4. BitsOK(at) => BitsOK(at)'
    BY DEF BitsOK
  <1>5. DataOK(at) => DataOK(at)'
    BY DEF DataOK, HasBlock, Start
  <1>6. ContentsOK(at) => ContentsOK(at)'
    BY DEF ContentsOK, HasBlock, Start, Mode
  <1> QED BY <1>1, <1>2, <1>3, <1>4, <1>5, <1>6 DEF Holds

(* A call that changes the free counts, if anything.                       *)
LEMMA SameImage ==
  ASSUME A1fsInv, UNCHANGED <<size, magic, formatted, wild, imap, dmap, inode, extent, block, expect, lapses>>,
         free' \in [inodes : 0 .. CountMod - 1, blocks : 0 .. CountMod - 1], free'.blocks = free.blocks
  PROVE  A1fsInv' /\ NameStep
  <1>1. TypeOK'
    BY DEF A1fsInv, TypeOK
  <1>2. NoOvercommit'
    BY DEF A1fsInv, NoOvercommit, a1fs_statfs
  <1>3. Image'
    <2>1. ASSUME NEW at, NEW slot, Holds(at, slot) PROVE Holds(at, slot)'
      BY <2>1, HoldsStill
    <2> QED BY <2>1 DEF A1fsInv, Image, Unformatted
  <1>4. NameStep
    BY DEF NameStep
  <1> QED BY <1>1, <1>2, <1>3, <1>4 DEF A1fsInv

-----------------------------------------------------------------------------
(* mkfs: the root alone.                                                   *)
LEMMA Formatted ==
  ASSUME A1fsInv, CallsWithinLimits, NEW force, NEW zero, Mkfs(force, zero),
         lapses' = lapses, expect' = IF wild' THEN <<>> ELSE expect
  PROVE  A1fsInv' /\ NameStep
  <1>1. TypeOK /\ formatted = FALSE /\ wild = FALSE /\ expect = <<>> /\ (OldNames = {""} => imap = {})
    BY DEF A1fsInv, Image, Unformatted, Mkfs, TypeOK
  <1>2. CASE ~InImage(0)
    <2>1. GoWild
      BY <1>2 DEF Mkfs
    <2>2. expect' = <<>>
      BY <1>1
    <2> QED BY <1>1, <2>1, <2>2, WildStep
  <1>3. CASE InImage(0)
    <2> DEFINE oldInode == IF zero THEN [i \in Inodes |-> NoInode] ELSE inode
               oldExtent == IF zero THEN [i \in Extents |-> [start |-> 0, count |-> 0]] ELSE extent
               oldBlock == IF zero THEN ZeroBlocks ELSE block
               root == [mode |-> "dir", links |-> 2, size |-> 2, extent_count |-> 1]
    <2>1. /\ magic' = TRUE /\ formatted' = TRUE /\ size' = size /\ wild' = wild
          /\ free' = [inodes |-> NInodes, blocks |-> InitialFreeBlocks]
          /\ imap' = SetBit(IF zero THEN {} ELSE {i \in imap : i >= BitsPerWord}, 0) /\ dmap' = SetBit({}, 0)
          /\ inode' = [oldInode EXCEPT ![0] = root] /\ extent' = [oldExtent EXCEPT ![0] = [start |-> 0, count |-> 1]]
          /\ block' = [oldBlock EXCEPT ![0][0] = Entry(0, "."), ![0][1] = Entry(0, "..")]
      BY <1>3 DEF Mkfs
    <2>2. /\ 0 \in 0 .. CountMod - 1 /\ 1 \in 0 .. CountMod - 1 /\ 2 \in 0 .. CountMod - 1 /\ 0 \in 0 .. 1 /\ 1 \in 0 .. 1
          /\ 0 \in Inodes /\ 0 \in Extents /\ 0 \in Blocks /\ 0 \in Slots /\ 1 \in Slots /\ NInodes \in 0 .. CountMod - 1
      BY Partitions
    <2>3. /\ oldInode \in [Inodes -> [mode : {"none", "dir", "file"}, links : 0 .. CountMod - 1,
                                      size : Nat, extent_count : 0 .. 1]]
          /\ oldExtent \in [Extents -> [start : Blocks, count : 0 .. CountMod - 1]]
          /\ oldBlock \in [Blocks -> [Slots -> EntryType]]
      BY <1>1, <2>2 DEF TypeOK, NoInode, ZeroBlocks, Blank, EntryType
    <2> HIDE DEF oldInode, oldExtent, oldBlock
    <2>4. /\ inode'[0] = root /\ extent'[0] = [start |-> 0, count |-> 1]
          /\ inode' \in [Inodes -> [mode : {"none", "dir", "file"}, links : 0 .. CountMod - 1,
                                    size : Nat, extent_count : 0 .. 1]]
          /\ extent' \in [Extents -> [start : Blocks, count : 0 .. CountMod - 1]]
      BY <2>1, <2>2, <2>3
    <2>5. /\ block'[0][0] = Entry(0, ".") /\ block'[0][1] = Entry(0, "..")
          /\ block' \in [Blocks -> [Slots -> EntryType]]
      <3> DEFINE b1 == [oldBlock EXCEPT ![0][0] = Entry(0, ".")]
      <3>0. Entry(0, ".") \in EntryType /\ Entry(0, "..") \in EntryType
        BY <2>2, Entries
      <3>1. b1 \in [Blocks -> [Slots -> EntryType]] /\ b1[0] = [oldBlock[0] EXCEPT ![0] = Entry(0, ".")]
        BY <2>2, <2>3, <3>0, PutEntry
      <3>2. block' = [b1 EXCEPT ![0][1] = Entry(0, "..")]
        BY <2>1
      <3> HIDE DEF b1
      <3>3. block' \in [Blocks -> [Slots -> EntryType]] /\ block'[0] = [b1[0] EXCEPT ![1] = Entry(0, "..")]
        BY <2>2, <3>0, <3>1, <3>2, PutEntry
      <3>4. b1[0] \in [Slots -> EntryType] /\ oldBlock[0] \in [Slots -> EntryType]
        BY <2>2, <2>3, <3>1
      <3>5. 0 # 1 /\ b1[0][0] = Entry(0, ".")
        BY <2>2, <3>1, <3>4
      <3> QED BY <2>2, <3>3, <3>4, <3>5
    <2>6. \A i \in imap' : i = 0 \/ (i >= BitsPerWord /\ i \in imap)
      BY <2>1 DEF SetBit
    <2>7. 0 \in imap' /\ dmap' = {0}
      BY <2>1 DEF SetBit
    <2>8. InitialFreeBlocks \in 0 .. CountMod - 1
      <3>1. size - (start_extent + NInodes + 3) \in Int
        <4>1. size \in Int
          <5>1. size \in ImageSizes
            BY <1>1 DEF TypeOK
          <5> QED BY <5>1, Partitions
        <4>2. start_data \in Nat
          BY Partitions
        <4> QED BY <4>1, <4>2 DEF start_data
      <3> QED BY <3>1, Residues DEF InitialFreeBlocks
    <2>9. TypeOK'
      <3>1. imap' \subseteq OldBits \cup Inodes /\ dmap' \subseteq OldBits \cup Blocks
        BY <1>1, <2>2, <2>6, <2>7 DEF TypeOK
      <3>2. free' \in [inodes : 0 .. CountMod - 1, blocks : 0 .. CountMod - 1]
        BY <2>1, <2>2, <2>8
      <3> QED BY <1>1, <2>1, <2>4, <2>5, <3>1, <3>2 DEF TypeOK, EntryType
    <2>10. NoOvercommit'
      <3> SUFFICES ASSUME size >= start_data + 3
                   PROVE  free'.blocks + Cardinality(dmap') <= size - start_data
        BY <2>1 DEF NoOvercommit, a1fs_statfs
      <3>1. Cardinality(dmap') = 1
        BY <2>7, FS_Singleton
      <3>2. size \in Nat /\ start_data \in Nat /\ CountMod \in Nat /\ size - start_data < CountMod
        BY <1>1, Partitions DEF TypeOK
      <3>3. InitialFreeBlocks = (size - (start_data + 3)) % CountMod
        BY DEF InitialFreeBlocks, start_data
      <3>4. size - (start_data + 3) \in Int /\ size - (start_data + 3) >= 0
        BY <3>2
      <3>5. InitialFreeBlocks <= size - (start_data + 3)
        BY <3>3, <3>4, Residues
      <3>6. InitialFreeBlocks \in Int /\ free'.blocks = InitialFreeBlocks
        BY <2>1, <2>8, <3>2
      <3> QED BY <3>1, <3>2, <3>5, <3>6
    <2>11. Image' /\ NameStep
      <3> DEFINE at == [q \in {Root} |-> 0]
                 slot == <<>>
      <3>1. DOMAIN at = {Root} /\ at[Root] = 0 /\ Used(at) = {} /\ Parent(Root) = Root
        BY RootPath DEF Used
      <3>2. PathsOK(at)
        <4>1. at \in [DOMAIN at -> Inodes]
          BY <2>2
        <4> HIDE DEF at
        <4> QED BY <3>1, <4>1 DEF PathsOK
      <3> HIDE DEF at, slot
      <3>3. /\ inode'[0].mode = "dir" /\ inode'[0].extent_count = 1 /\ inode'[0].size = 2 /\ inode'[0].links = 2
            /\ Start(0)' = 0 /\ extent'[0].count = 1
        BY <2>4 DEF Start
      <3>4. InImage(0)'
        BY <1>3, <2>1 DEF InImage
      <3>5. InodeOK(at, Root)'
        <4>1. 2 >= 2
          OBVIOUS
        <4> QED BY <2>2, <2>5, <3>1, <3>3, <3>4, <4>1 DEF InodeOK
      <3>6. SlotsFilled(at, slot, Root)'
        <4>1. \A e \in 2 .. 2 - 1 : FALSE
          OBVIOUS
        <4> QED BY <3>1, <3>3, <4>1 DEF SlotsFilled
      <3>7. BitsOK(at)'
        <4>1. ASSUME NEW i \in imap', i \in Inodes PROVE i = 0
          <5> SUFFICES ASSUME i # 0 PROVE FALSE
            OBVIOUS
          <5>1. i >= BitsPerWord /\ i \in imap
            BY <2>6
          <5>2. \A j \in Inodes : j < BitsPerWord
            BY <1>1, <5>1 DEF CallsWithinLimits
          <5>3. i \in Nat /\ BitsPerWord \in Nat /\ i < BitsPerWord
            BY <4>1, <5>2, Partitions
          <5> QED BY <5>1, <5>3
        <4>2. imap' \cap Inodes = {0}
          BY <2>2, <2>7, <4>1
        <4>3. {at[q] : q \in DOMAIN at} = {0}
          BY <3>1
        <4> QED BY <2>2, <2>6, <4>2, <4>3 DEF BitsOK
      <3>8. HasBlock(at, Root)' /\ Mode(at, Root)' = "dir"
        BY <3>1, <3>3 DEF HasBlock, Mode
      <3>9. DataOK(at)'
        <4>1. {Start(at[q])' : q \in {r \in DOMAIN at : HasBlock(at, r)'}} = {0}
          BY <3>1, <3>3, <3>8
        <4> QED BY <2>7, <3>1, <4>1 DEF DataOK
      <3>10. ContentsOK(at)'
        <4>1. expect' = <<>> /\ DOMAIN <<>> = {}
          <5>1. expect' = <<>>
            BY <1>1, <2>1
          <5>2. DOMAIN <<>> = {}
            OBVIOUS
          <5> QED BY <5>1, <5>2
        <4>2. {q \in DOMAIN at : Mode(at, q)' = "file"} = {}
          BY <3>1, <3>8
        <4> QED BY <4>1, <4>2 DEF ContentsOK
      <3>11. Holds(at, slot)'
        BY <3>1, <3>2, <3>5, <3>6, <3>7, <3>8, <3>9, <3>10 DEF Holds
      <3> QED BY <1>1, <2>1, <3>1, <3>11 DEF Image, NameStep
    <2> QED BY <2>9, <2>10, <2>11 DEF A1fsInv
  <1> QED BY <1>2, <1>3

-----------------------------------------------------------------------------
(* mkdir and create.                                                       *)
LEMMA WhereAdded ==
  ASSUME TypeOK, WithinLimits, NEW at, NEW slot, Holds(at, slot), NEW p \in NewPaths, CanAdd(p)
  PROVE  /\ p \notin DOMAIN at /\ Parent(p) \in DOMAIN at /\ Mode(at, Parent(p)) = "dir"
         /\ path_inode(Parent(p)) = {at[Parent(p)]} /\ Last(p) \in Names
  <1>1. p \in Paths /\ Parent(p) \in Paths \cup {Root} /\ Last(p) \in Names
    BY PathFacts, NamesAssumption DEF NewPaths
  <1>2. /\ Kind(p) = IF p \in DOMAIN at THEN {Mode(at, p)} ELSE {}
        /\ path_inode(Parent(p)) = IF Parent(p) \in DOMAIN at THEN {at[Parent(p)]} ELSE {}
        /\ Kind(Parent(p)) = IF Parent(p) \in DOMAIN at THEN {Mode(at, Parent(p))} ELSE {}
    BY <1>1, Resolve
  <1>3. Kind(p) = {} /\ Kind(Parent(p)) = {"dir"}
    BY DEF CanAdd
  <1> QED BY <1>1, <1>2, <1>3

LEMMA DirectoryPlace ==
  ASSUME TypeOK, WithinLimits, NEW at, NEW slot, Holds(at, slot), NEW v \in DOMAIN at, Mode(at, v) = "dir"
  PROVE  /\ LastBlock(at[v]) = Start(at[v]) /\ inode[at[v]].size % EntriesPerBlock = inode[at[v]].size
         /\ at[v] \in Extents /\ at[v] \in Inodes /\ Start(at[v]) \in Blocks /\ Start(at[v]) \in dmap
         /\ InImage(Start(at[v])) /\ inode[at[v]].size \in Slots /\ inode[at[v]].size \in Nat
         /\ inode[at[v]].links = inode[at[v]].size /\ inode[at[v]].size + 1 < CountMod
         /\ inode[at[v]].size >= 2
  <1>1. HasBlock(at, v) /\ inode[at[v]].size \in 2 .. EntriesPerBlock - 1 /\ inode[at[v]].links = inode[at[v]].size
    BY InUse
  <1>2. /\ at[v] \in Extents /\ at[v] \in Inodes /\ Start(at[v]) \in Blocks /\ Start(at[v]) \in dmap
        /\ InImage(Start(at[v]))
    BY <1>1, InUse
  <1>3. LastBlock(at[v]) = Start(at[v])
    BY <1>1, OneBlock
  <1> DEFINE s == inode[at[v]].size
  <1> HIDE DEF s
  <1>4. \A m \in Nat : \A t \in 2 .. m - 1 : t \in 0 .. m - 1 /\ t \in Nat /\ t >= 2 /\ t + 1 <= m
    OBVIOUS
  <1>5. s \in Slots /\ s \in Nat /\ s >= 2 /\ s + 1 < CountMod
    <2>1. EntriesPerBlock \in Nat /\ CountMod \in Nat /\ EntriesPerBlock < CountMod /\ Slots = 0 .. EntriesPerBlock - 1
      BY Partitions
    <2>2. s \in 2 .. EntriesPerBlock - 1
      BY <1>1 DEF s
    <2> QED BY <1>4, <2>1, <2>2
  <1>6. s % EntriesPerBlock = s
    BY <1>5, Partitions, Small
  <1> QED BY <1>1, <1>2, <1>3, <1>5, <1>6 DEF s

(* The entry behind the last one, in blocks f that differ from the ones    *)
(* there in a block g only, which is not used yet.                         *)
LEMMA AppendedEntry ==
  ASSUME TypeOK, WithinLimits, NEW at, NEW slot, Holds(at, slot), NEW v \in DOMAIN at, Mode(at, v) = "dir",
         NEW i \in Inodes, NEW n \in Names, NEW f \in [Blocks -> [Slots -> EntryType]],
         f[Start(at[v])] = block[Start(at[v])], block' = Appended(f, at[v], i, n)
  PROVE  /\ block' \in [Blocks -> [Slots -> EntryType]]
         /\ block'[Start(at[v])] = [block[Start(at[v])] EXCEPT ![inode[at[v]].size] = Entry(i, n)]
         /\ \A b \in Blocks : b # Start(at[v]) => block'[b] = f[b]
  <1> DEFINE w == Start(at[v])
             s == inode[at[v]].size
  <1>1. w \in Blocks /\ s \in Slots /\ LastBlock(at[v]) = w /\ s % EntriesPerBlock = s
    BY DirectoryPlace
  <1>2. block' = [f EXCEPT ![w][s] = Entry(i, n)]
    BY <1>1 DEF Appended
  <1>3. Entry(i, n) \in EntryType
    BY Entries
  <1> HIDE DEF w, s
  <1>4. /\ block' \in [Blocks -> [Slots -> EntryType]] /\ block'[w] = [f[w] EXCEPT ![s] = Entry(i, n)]
        /\ \A b \in Blocks : b # w => block'[b] = f[b]
    BY <1>1, <1>2, <1>3, PutEntry
  <1> QED BY <1>4 DEF w, s

(* The new inode and the one of the directory above.                       *)
LEMMA GrownTable ==
  ASSUME TypeOK, WithinLimits, NEW at, NEW slot, Holds(at, slot), NEW v \in DOMAIN at, Mode(at, v) = "dir",
         NEW i \in Inodes, i # at[v], NEW kind,
         NEW r \in [mode : {"none", "dir", "file"}, links : 0 .. CountMod - 1, size : Nat, extent_count : 0 .. 1],
         inode' = [inode EXCEPT ![at[v]] = Grown(@, kind), ![i] = r]
  PROVE  /\ inode' \in [Inodes -> [mode : {"none", "dir", "file"}, links : 0 .. CountMod - 1,
                                   size : Nat, extent_count : 0 .. 1]]
         /\ inode'[at[v]] = [inode[at[v]] EXCEPT !.size = @ + 1, !.links = @ + 1]
         /\ inode'[i] = r
         /\ \A j \in Inodes : j # at[v] /\ j # i => inode'[j] = inode[j]
  <1> DEFINE u == at[v]
             T == [mode : {"none", "dir", "file"}, links : 0 .. CountMod - 1, size : Nat, extent_count : 0 .. 1]
  <1>1. u \in Inodes /\ inode[u].size \in Nat /\ inode[u].links = inode[u].size /\ inode[u].size + 1 < CountMod
    BY DirectoryPlace
  <1>2. inode \in [Inodes -> T]
    BY DEF TypeOK
  <1>3. Grown(inode[u], kind) \in T
    <2>1. inode[u] \in T
      BY <1>1, <1>2
    <2>2. inode[u].size + 1 \in Nat /\ inode[u].links + 1 \in 0 .. CountMod - 1
      BY <1>1, Partitions
    <2> DEFINE upd(rec, x, y) == [rec EXCEPT !.size = x, !.links = y]
    <2>3. \A rec \in T : \A x \in Nat, y \in 0 .. CountMod - 1 : upd(rec, x, y) \in T
      OBVIOUS
    <2>4. Grown(inode[u], kind) = upd(inode[u], inode[u].size + 1, inode[u].links + 1)
      BY DEF Grown
    <2> HIDE DEF T, upd
    <2> QED BY <2>1, <2>2, <2>3, <2>4
  <1>4. Grown(inode[u], kind) = [inode[u] EXCEPT !.size = @ + 1, !.links = @ + 1]
    BY DEF Grown
  <1>5. inode' = [inode EXCEPT ![u] = Grown(inode[u], kind), ![i] = r]
    OBVIOUS
  <1> DEFINE gr == Grown(inode[u], kind)
  <1> HIDE DEF T, u, gr
  <1>6. inode' = [[inode EXCEPT ![u] = gr] EXCEPT ![i] = r]
    BY <1>5 DEF gr
  <1>7. gr \in T /\ r \in T
    BY <1>3 DEF T, gr
  <1>8. inode' \in [Inodes -> T] /\ inode'[u] = gr /\ inode'[i] = r
        /\ \A j \in Inodes : j # u /\ j # i => inode'[j] = inode[j]
    <2>1. i # u
      BY DEF u
    <2> QED BY <1>1, <1>2, <1>6, <1>7, <2>1
  <1> QED BY <1>4, <1>8 DEF T, u, gr

LEMMA Created ==
  ASSUME A1fsInv, WithinLimits, Ready, NEW p \in CreatePaths, CanAdd(p),
         NEW parent \in path_inode(Parent(p)), CreateIn(parent, Last(p)), lapses' = lapses,
         expect' = IF wild' THEN <<>>
                   ELSE IF imap' # imap THEN [q \in DOMAIN expect \cup {p} |-> IF q = p THEN <<>> ELSE expect[q]]
                   ELSE expect
  PROVE  A1fsInv' /\ NameStep
  <1>1. TypeOK /\ NoOvercommit /\ formatted /\ wild = FALSE
    BY DEF A1fsInv, Ready, TypeOK
  <1>2. PICK at, slot : Holds(at, slot)
    BY <1>1 DEF A1fsInv, Image
  <1> DEFINE i == FreeBit(imap)
             v == Parent(p)
             u == at[v]
             s == inode[u].size
             w == Start(u)
             file == [mode |-> "file", links |-> 1, size |-> 0, extent_count |-> 0]
  <1>3. p \in NewPaths
    BY DEF NewPaths
  <1>4. p \notin DOMAIN at /\ v \in DOMAIN at /\ Mode(at, v) = "dir" /\ parent = u /\ Last(p) \in Names
    BY <1>1, <1>2, <1>3, WhereAdded
  <1>5. /\ i \in Nat /\ i \notin imap /\ TakeFreeBit(imap) = imap \cup {i} /\ \A q \in DOMAIN at : at[q] # i
    BY <1>1, <1>2, <1>3, <1>4, FreeInode
  <1>6. /\ LastBlock(u) = w /\ InImage(w) /\ w \in Blocks
    BY <1>1, <1>2, <1>4, DirectoryPlace
  <1>7. CASE i \notin Inodes
    <2>1. GoWild
      BY <1>7 DEF CreateIn
    <2>2. expect' = <<>>
      BY <2>1 DEF GoWild
    <2> QED BY <1>1, <2>1, <2>2, WildStep
  <1>8. CASE i \in Inodes
    <2>1. /\ imap' = imap \cup {i} /\ inode' = [inode EXCEPT ![u] = Grown(@, "file"), ![i] = file]
          /\ block' = Appended(block, u, i, Last(p)) /\ free' = [free EXCEPT !.inodes = Decremented(@)]
          /\ size' = size /\ magic' = magic /\ formatted' = formatted /\ dmap' = dmap /\ extent' = extent /\ wild' = wild
      BY <1>4, <1>5, <1>6, <1>8 DEF CreateIn
    <2>2. 1 \in 0 .. CountMod - 1 /\ 0 \in Nat /\ 0 \in 0 .. 1
      BY Partitions
    <2>3. /\ inode' \in [Inodes -> [mode : {"none", "dir", "file"}, links : 0 .. CountMod - 1,
                                    size : Nat, extent_count : 0 .. 1]]
          /\ inode'[u] = [inode[u] EXCEPT !.size = @ + 1, !.links = @ + 1]
          /\ inode'[i] = file /\ \A j \in Inodes : j # u /\ j # i => inode'[j] = inode[j]
      <3>1. file \in [mode : {"none", "dir", "file"}, links : 0 .. CountMod - 1, size : Nat, extent_count : 0 .. 1]
        BY <2>2
      <3> HIDE DEF file, i
      <3> QED BY <1>1, <1>2, <1>4, <1>5, <1>8, <2>1, <3>1, GrownTable
    <2>4. /\ block' \in [Blocks -> [Slots -> EntryType]]
          /\ block'[w] = [block[w] EXCEPT ![s] = Entry(i, Last(p))]
          /\ \A b \in Blocks : b # w => block'[b] = block[b]
      <3>1. block \in [Blocks -> [Slots -> EntryType]]
        BY <1>1 DEF TypeOK, EntryType
      <3> HIDE DEF i
      <3> QED BY <1>1, <1>2, <1>4, <1>8, <2>1, <3>1, AppendedEntry
    <2>5. /\ free' \in [inodes : 0 .. CountMod - 1, blocks : 0 .. CountMod - 1] /\ free'.blocks = free.blocks
      <3>1. free.inodes - 1 \in Int /\ free \in [inodes : 0 .. CountMod - 1, blocks : 0 .. CountMod - 1]
        <4>1. free.inodes \in 0 .. CountMod - 1 /\ CountMod \in Nat
          BY <1>1, Counts, Partitions
        <4>2. free \in [inodes : 0 .. CountMod - 1, blocks : 0 .. CountMod - 1]
          BY <1>1 DEF TypeOK
        <4>3. free.inodes - 1 \in Int
          BY <4>1
        <4> QED BY <4>2, <4>3
      <3>2. Decremented(free.inodes) \in 0 .. CountMod - 1
        BY <3>1, Residues DEF Decremented
      <3>3. free' = [free EXCEPT !.inodes = Decremented(free.inodes)]
        BY <2>1
      <3> QED BY <3>1, <3>2, <3>3
    <2>6. TypeOK'
      <3>1. imap' \subseteq OldBits \cup Inodes
        BY <1>1, <1>8, <2>1 DEF TypeOK
      <3> QED BY <1>1, <2>1, <2>3, <2>4, <2>5, <3>1 DEF TypeOK, EntryType
    <2>7. NoOvercommit'
      BY <1>1, <2>1, <2>5 DEF NoOvercommit, a1fs_statfs
    <2>8. Enters(at, p, i, u, s, w)
      <3>1. \A b \in dmap : b # w => block'[b] = block[b]
        <4>1. dmap \subseteq Blocks
          <5>1. dmap = {Start(at[q]) : q \in {r \in DOMAIN at : HasBlock(at, r)}}
            BY <1>2 DEF Holds, DataOK
          <5> QED BY <1>1, <1>2, <5>1, InUse
        <4> QED BY <2>4, <4>1
      <3> HIDE DEF i
      <3> QED BY <1>4, <1>5, <1>8, <2>1, <2>3, <2>4, <3>1 DEF Enters
    <2>9. BecomesFile(p, i)
      <3>1. imap' # imap /\ ~wild'
        BY <1>1, <1>5, <2>1
      <3>2. expect' = With(expect, p, <<>>)
        BY <3>1 DEF With
      <3> QED BY <2>1, <2>3, <3>2 DEF BecomesFile
    <2> HIDE DEF i, s, w, u
    <2>10. Image' /\ NameStep
      <3>1. \E at2, slot2 : Holds(at2, slot2)' /\ Comes(at, at2, p) /\ Stay(at, at2)
        BY <1>1, <1>2, <1>3, <1>4, <2>8, <2>9, Growth
      <3>2. formatted' /\ Ready'
        BY <1>1, <2>1 DEF Ready
      <3> QED BY <1>2, <3>1, <3>2, NewNames
    <2> QED BY <2>6, <2>7, <2>10 DEF A1fsInv
  <1> QED BY <1>7, <1>8

LEMMA Added ==
  ASSUME A1fsInv, WithinLimits, Ready, NEW p \in MkdirPaths, CanAdd(p), free.inodes # 0, free.blocks # 0,
         NEW parent \in path_inode(Parent(p)), MkdirIn(parent, Last(p)), lapses' = lapses,
         expect' = IF wild' THEN <<>> ELSE expect
  PROVE  A1fsInv' /\ NameStep
  <1>1. TypeOK /\ NoOvercommit /\ formatted /\ wild = FALSE
    BY DEF A1fsInv, Ready, TypeOK
  <1>2. PICK at, slot : Holds(at, slot)
    BY <1>1 DEF A1fsInv, Image
  <1> DEFINE i == FreeBit(imap)
             d == FreeBit(dmap)
             v == Parent(p)
             u == at[v]
             s == inode[u].size
             w == Start(u)
             dir == [mode |-> "dir", links |-> 2, size |-> 2, extent_count |-> 1]
             f == [block EXCEPT ![d][0] = Entry(i, "."), ![d][1] = Entry(u, "..")]
  <1>3. p \in NewPaths
    BY DEF NewPaths
  <1>4. p \notin DOMAIN at /\ v \in DOMAIN at /\ Mode(at, v) = "dir" /\ parent = u /\ Last(p) \in Names
    BY <1>1, <1>2, <1>3, WhereAdded
  <1>5. /\ i \in Nat /\ i \notin imap /\ TakeFreeBit(imap) = imap \cup {i} /\ \A q \in DOMAIN at : at[q] # i
    BY <1>1, <1>2, <1>3, <1>4, FreeInode
  <1>6. d \in Nat /\ d \notin dmap /\ TakeFreeBit(dmap) = dmap \cup {d}
    BY <1>1, <1>2, <1>3, <1>4, FreeBlock
  <1>7. LastBlock(u) = w /\ InImage(w) /\ w \in Blocks /\ w \in dmap /\ u \in Inodes
    BY <1>1, <1>2, <1>4, DirectoryPlace
  <1>8. CASE i \notin Extents \/ ~InImage(d)
    <2>1. GoWild
      BY <1>8 DEF MkdirIn
    <2>2. expect' = <<>>
      BY <2>1 DEF GoWild
    <2> QED BY <1>1, <2>1, <2>2, WildStep
  <1>9. CASE i \in Extents /\ InImage(d)
    <2>0. i \in Inodes /\ d \in Blocks /\ d # w
      <3>1. size \in ImageSizes
        BY <1>1 DEF TypeOK
      <3>2. d \in Blocks
        BY <1>6, <1>9, <3>1, InImageIsBlock
      <3> QED BY <1>6, <1>7, <1>9, <3>2, Partitions
    <2>1. /\ imap' = imap \cup {i} /\ dmap' = dmap \cup {d}
          /\ inode' = [inode EXCEPT ![u] = Grown(@, "dir"), ![i] = dir]
          /\ extent' = [extent EXCEPT ![i] = [start |-> d, count |-> 1]]
          /\ block' = Appended(f, u, i, Last(p))
          /\ free' = [inodes |-> Decremented(free.inodes), blocks |-> Decremented(free.blocks)]
          /\ size' = size /\ magic' = magic /\ formatted' = formatted /\ wild' = wild
      BY <1>4, <1>5, <1>6, <1>7, <1>9 DEF MkdirIn
    <2>2. 1 \in 0 .. CountMod - 1 /\ 2 \in 0 .. CountMod - 1 /\ 2 \in Nat /\ 1 \in 0 .. 1 /\ 0 \in Slots /\ 1 \in Slots
      BY Partitions
    <2>3. /\ inode' \in [Inodes -> [mode : {"none", "dir", "file"}, links : 0 .. CountMod - 1,
                                    size : Nat, extent_count : 0 .. 1]]
          /\ inode'[u] = [inode[u] EXCEPT !.size = @ + 1, !.links = @ + 1]
          /\ inode'[i] = dir /\ \A j \in Inodes : j # u /\ j # i => inode'[j] = inode[j]
      <3>1. dir \in [mode : {"none", "dir", "file"}, links : 0 .. CountMod - 1, size : Nat, extent_count : 0 .. 1]
        BY <2>2
      <3> HIDE DEF dir, i
      <3> QED BY <1>1, <1>2, <1>4, <1>5, <2>0, <2>1, <3>1, GrownTable
    <2>4. /\ extent' \in [Extents -> [start : Blocks, count : 0 .. CountMod - 1]]
          /\ extent'[i] = [start |-> d, count |-> 1] /\ \A j \in Extents : j # i => extent'[j] = extent[j]
      <3>1. extent \in [Extents -> [start : Blocks, count : 0 .. CountMod - 1]]
        BY <1>1 DEF TypeOK
      <3> HIDE DEF i, d
      <3> QED BY <1>9, <2>0, <2>1, <2>2, <3>1
    <2> HIDE DEF i, d, dir
    <2>5. /\ f \in [Blocks -> [Slots -> EntryType]] /\ f[d][0] = Entry(i, ".") /\ f[d][1] = Entry(u, "..")
          /\ \A b \in Blocks : b # d => f[b] = block[b]
      <3> DEFINE b1 == [block EXCEPT ![d][0] = Entry(i, ".")]
      <3>1. block \in [Blocks -> [Slots -> EntryType]]
        BY <1>1 DEF TypeOK, EntryType
      <3>2. Entry(i, ".") \in EntryType /\ Entry(u, "..") \in EntryType
        BY <1>7, <2>0, Entries
      <3>3. /\ b1 \in [Blocks -> [Slots -> EntryType]] /\ b1[d] = [block[d] EXCEPT ![0] = Entry(i, ".")]
            /\ \A b \in Blocks : b # d => b1[b] = block[b]
        BY <2>0, <2>2, <3>1, <3>2, PutEntry
      <3>4. f = [b1 EXCEPT ![d][1] = Entry(u, "..")]
        OBVIOUS
      <3> HIDE DEF b1, f
      <3>5. /\ f \in [Blocks -> [Slots -> EntryType]] /\ f[d] = [b1[d] EXCEPT ![1] = Entry(u, "..")]
            /\ \A b \in Blocks : b # d => f[b] = b1[b]
        BY <2>0, <2>2, <3>2, <3>3, <3>4, PutEntry
      <3>6. b1[d] \in [Slots -> EntryType] /\ block[d] \in [Slots -> EntryType]
        BY <2>0, <3>1, <3>3
      <3>7. 0 # 1 /\ b1[d][0] = Entry(i, ".")
        BY <2>2, <3>3, <3>6
      <3> QED BY <2>2, <3>3, <3>5, <3>6, <3>7
    <2> HIDE DEF f
    <2>6. /\ block' \in [Blocks -> [Slots -> EntryType]]
          /\ block'[w] = [block[w] EXCEPT ![s] = Entry(i, Last(p))]
          /\ \A b \in Blocks : b # w => block'[b] = f[b]
      <3>1. f[w] = block[w]
        BY <1>7, <2>0, <2>5
      <3> QED BY <1>1, <1>2, <1>4, <2>0, <2>1, <2>5, <3>1, AppendedEntry
    <2>7. /\ free' \in [inodes : 0 .. CountMod - 1, blocks : 0 .. CountMod - 1]
          /\ free'.blocks = free.blocks - 1 /\ free'.blocks \in Nat /\ free.blocks \in Nat
      <3>1. free.inodes \in 0 .. CountMod - 1 /\ free.blocks \in 0 .. CountMod - 1 /\ CountMod \in Nat
        BY <1>1, Counts, Partitions
      <3>2. /\ free.inodes - 1 \in Int /\ free.blocks - 1 \in Int /\ free.blocks - 1 \in 0 .. CountMod - 1
            /\ free.blocks \in Nat /\ free.blocks - 1 \in Nat
        BY <3>1
      <3>3. Decremented(free.inodes) \in 0 .. CountMod - 1 /\ Decremented(free.blocks) = free.blocks - 1
        BY <3>2, Residues DEF Decremented
      <3> QED BY <2>1, <3>2, <3>3
    <2>8. TypeOK'
      <3>1. imap' \subseteq OldBits \cup Inodes /\ dmap' \subseteq OldBits \cup Blocks
        BY <1>1, <2>0, <2>1 DEF TypeOK
      <3> QED BY <1>1, <2>1, <2>3, <2>4, <2>6, <2>7, <3>1 DEF TypeOK, EntryType
    <2>9. NoOvercommit'
      <3>1. IsFiniteSet(dmap') /\ Cardinality(dmap') = Cardinality(dmap) + 1 /\ Cardinality(dmap) \in Nat
        BY <1>1, <1>6, <2>1, BitmapTypes, FS_AddElement, FS_CardinalityType
      <3>2. free'.blocks + Cardinality(dmap') <= free.blocks + Cardinality(dmap)
        BY <2>7, <3>1
      <3> QED BY <1>1, <2>1, <2>7, <3>1, <3>2, StillPromised
    <2>10. Enters(at, p, i, u, s, w)
      <3>1. \A b \in dmap : b # w => block'[b] = block[b]
        <4>1. dmap \subseteq Blocks
          <5>1. dmap = {Start(at[q]) : q \in {r \in DOMAIN at : HasBlock(at, r)}}
            BY <1>2 DEF Holds, DataOK
          <5> QED BY <1>1, <1>2, <5>1, InUse
        <4> QED BY <1>6, <2>5, <2>6, <4>1
      <3> QED BY <1>4, <1>5, <2>0, <2>1, <2>3, <2>4, <2>6, <3>1 DEF Enters
    <2>11. BecomesDirectory(at, p, i)
      <3>1. extent'[i].start = d /\ extent'[i].count = 1
        BY <2>4
      <3>2. block'[d] = f[d] /\ expect' = expect
        BY <1>1, <2>0, <2>1, <2>6
      <3> QED BY <1>6, <1>9, <2>1, <2>3, <2>5, <3>1, <3>2 DEF BecomesDirectory, dir
    <2> HIDE DEF s, w, u
    <2>12. Image' /\ NameStep
      <3>1. \E at2, slot2 : Holds(at2, slot2)' /\ Comes(at, at2, p) /\ Stay(at, at2)
        BY <1>1, <1>2, <1>3, <1>4, <2>10, <2>11, Growth
      <3>2. formatted' /\ Ready'
        BY <1>1, <2>1 DEF Ready
      <3> QED BY <1>2, <3>1, <3>2, NewNames
    <2> QED BY <2>8, <2>9, <2>12 DEF A1fsInv
  <1> QED BY <1>8, <1>9

-----------------------------------------------------------------------------
(* rmdir and unlink.                                                       *)
LEMMA WhereRemoved ==
  ASSUME TypeOK, WithinLimits, NEW at, NEW slot, Holds(at, slot), NEW p \in Paths, NEW m, Kind(p) = {m}
  PROVE  /\ p \in Used(at) /\ p \in DOMAIN at /\ Mode(at, p) = m /\ path_inode(p) = {at[p]}
         /\ Parent(p) \in DOMAIN at /\ Mode(at, Parent(p)) = "dir" /\ path_inode(Parent(p)) = {at[Parent(p)]}
  <1>1. /\ Kind(p) = IF p \in DOMAIN at THEN {Mode(at, p)} ELSE {}
        /\ path_inode(p) = IF p \in DOMAIN at THEN {at[p]} ELSE {}
    BY Resolve
  <1>2. p \in DOMAIN at /\ Mode(at, p) = m /\ path_inode(p) = {at[p]}
    BY <1>1
  <1>3. p # Root /\ Parent(p) \in Paths \cup {Root}
    BY PathFacts
  <1>4. p \in Used(at)
    BY <1>2, <1>3 DEF Used
  <1>5. Parent(p) \in DOMAIN at /\ Mode(at, Parent(p)) = "dir"
    BY <1>4 DEF Holds, EntryOK, Mode
  <1>6. path_inode(Parent(p)) = IF Parent(p) \in DOMAIN at THEN {at[Parent(p)]} ELSE {}
    BY <1>3, Resolve
  <1> QED BY <1>2, <1>4, <1>5, <1>6

(* The search finds the entry of the path, also among what is behind the   *)
(* last entry.                                                             *)
LEMMA FirstMatch ==
  ASSUME TypeOK, WithinLimits, NEW at, NEW slot, Holds(at, slot), NEW p \in Used(at)
  PROVE  LET u == at[Parent(p)] IN
         /\ First(Matches(u, u, Last(p))) = <<Start(u), slot[p]>> /\ Matches(u, u, Last(p)) # {}
         /\ slot[p] \in 2 .. inode[u].size - 1 /\ slot[p] \in Slots
  <1> DEFINE v == Parent(p)
             u == at[v]
             w == Start(u)
             x == slot[p]
             s == inode[u].size
             n == Last(p)
             M == Matches(u, u, n)
  <1>1. v \in DOMAIN at /\ Mode(at, v) = "dir" /\ x \in 2 .. s - 1 /\ block[w][x] = Entry(at[p], n)
    BY DEF Holds, EntryOK, Mode
  <1>2. HasBlock(at, v) /\ LastBlock(u) = w /\ w \in Nat /\ s \in 2 .. EntriesPerBlock - 1
    BY <1>1, DirectoryView, OneBlock
  <1>3. x \in Slots /\ x \in Nat
    BY <1>1, <1>2, Partitions
  <1>4. M = {f \in (w .. w) \X Slots : block[f[1]][f[2]].name = n}
    <2>1. inode[u].extent_count # 0
      BY <1>2 DEF HasBlock
    <2> QED BY <1>2, <2>1 DEF Matches, Start
  <1>5. w .. w = {w}
    BY <1>2
  <1>6. <<w, x>> \in M
    BY <1>1, <1>3, <1>4, <1>5 DEF Entry
  <1>7. ASSUME NEW f \in M
        PROVE  f = <<w, f[2]>> /\ f[2] \in Nat /\ x <= f[2]
    <2>1. f[1] = w /\ f[2] \in Slots /\ f = <<w, f[2]>> /\ block[w][f[2]].name = n
      BY <1>4, <1>5
    <2>2. f[2] \in Nat
      BY <2>1, Partitions
    <2>3. ASSUME f[2] < x PROVE FALSE
      <3> DEFINE y == f[2]
      <3>1. EntryNumbers(u) = 0 .. s - 1 /\ \A e \in 0 .. s - 1 : EntryAt(u, e) = block[w][e]
        BY <1>1, DirectoryView
      <3>2. y \in 0 .. s - 1 /\ x \in 0 .. s - 1
        BY <1>1, <1>2, <1>3, <2>2, <2>3, Partitions
      <3>3. EntryAt(u, y).name = n /\ EntryAt(u, x).name = n
        BY <1>1, <2>1, <3>1, <3>2 DEF Entry
      <3>4. y = x
        <4>1. y \in EntryNumbers(u) /\ x \in EntryNumbers(u) /\ EntryAt(u, y).name = EntryAt(u, x).name
          BY <3>1, <3>2, <3>3
        <4> HIDE DEF y, x
        <4> QED BY <1>1, <4>1, EntriesDiffer
      <3> QED BY <1>3, <2>2, <2>3, <3>4
    <2> QED BY <1>3, <2>1, <2>2, <2>3
  <1> HIDE DEF M
  <1>8. \A f \in M : <<w, x>>[1] = f[1] /\ <<w, x>>[2] <= f[2]
    BY <1>7
  <1>9. \A f \in M : (\A g \in M : f[1] < g[1] \/ (f[1] = g[1] /\ f[2] <= g[2])) => f = <<w, x>>
    BY <1>2, <1>3, <1>6, <1>7
  <1>10. First(M) = <<w, x>>
    BY <1>6, <1>8, <1>9 DEF First
  <1> QED BY <1>1, <1>3, <1>6, <1>10 DEF M

LEMMA MovedBlock ==
  ASSUME TypeOK, WithinLimits, NEW at, NEW slot, Holds(at, slot), NEW p \in Used(at)
  PROVE  LET u == at[Parent(p)]
             new == MovedLast(u, u, Last(p))
             s == inode[u].size
         IN /\ ~LeavesData(u, u, Last(p)) /\ Shrunk(u, u, Last(p)) = 1
            /\ new \in [Blocks -> [Slots -> EntryType]]
            /\ \A y \in 0 .. s - 2 :
                  new[Start(u)][y] = IF y = slot[p] THEN block[Start(u)][s - 1] ELSE block[Start(u)][y]
            /\ \A b \in Blocks : b # Start(u) => new[b] = block[b]
  <1> DEFINE u == at[Parent(p)]
             w == Start(u)
             x == slot[p]
             s == inode[u].size
             n == Last(p)
             new == MovedLast(u, u, n)
             a == LastEntryAt(u, u)
  <1>1. First(Matches(u, u, n)) = <<w, x>> /\ Matches(u, u, n) # {} /\ x \in 2 .. s - 1 /\ x \in Slots
    BY FirstMatch
  <1>2. Parent(p) \in DOMAIN at /\ Mode(at, Parent(p)) = "dir"
    BY DEF Holds, EntryOK, Mode
  <1>3. /\ LastBlock(u) = w /\ s % EntriesPerBlock = s /\ w \in Blocks /\ s \in Slots /\ s \in Nat /\ s >= 2
        /\ w \in Nat /\ EntriesPerBlock \in Nat /\ EntriesPerBlock > 0 /\ Slots = 0 .. EntriesPerBlock - 1
    <2>1. LastBlock(u) = w /\ s % EntriesPerBlock = s /\ w \in Blocks /\ s \in Slots /\ s \in Nat /\ s >= 2
      BY <1>2, DirectoryPlace
    <2>2. /\ Blocks \in SUBSET Nat /\ EntriesPerBlock \in Nat /\ EntriesPerBlock > 0
          /\ Slots = 0 .. EntriesPerBlock - 1
      BY Partitions
    <2> HIDE DEF w, s
    <2> QED BY <2>1, <2>2
  <1>4. a = w * EntriesPerBlock + (s - 1) /\ s - 1 \in 0 .. EntriesPerBlock - 1
    <2>1. a = w * EntriesPerBlock + s - 1
      BY <1>3 DEF LastEntryAt
    <2>2. w * EntriesPerBlock \in Nat
      BY <1>3
    <2> HIDE DEF a, s, w
    <2> QED BY <1>3, <2>1, <2>2
  <1>5. a \div EntriesPerBlock = w /\ a % EntriesPerBlock = s - 1 /\ a >= 0
    <2>1. w * EntriesPerBlock \in Nat
      BY <1>3
    <2> HIDE DEF a, s, w
    <2>2. a >= 0
      BY <1>3, <1>4, <2>1
    <2> QED BY <1>3, <1>4, <2>2, Quotients
  <1>6. ~LeavesData(u, u, n) /\ Shrunk(u, u, n) = 1
    <2>1. ~(a < 0)
      <3>1. a \in Int
        BY <1>3, <1>4
      <3> HIDE DEF a
      <3> QED BY <1>5, <3>1
    <2> QED BY <1>1, <2>1 DEF LeavesData, Shrunk
  <1>7. block \in [Blocks -> [Slots -> EntryType]]
    BY DEF TypeOK, EntryType
  <1>8. new = IF x = s - 1 THEN block ELSE [block EXCEPT ![w][x] = block[w][s - 1]]
    <2>1. IsLast(u, <<w, x>>) <=> x = s - 1
      BY <1>3 DEF IsLast
    <2>2. new = IF IsLast(u, <<w, x>>) THEN block
                ELSE [block EXCEPT ![w][x] = block[a \div EntriesPerBlock][a % EntriesPerBlock]]
      BY <1>1 DEF MovedLast
    <2> HIDE DEF new, a
    <2> QED BY <1>5, <2>1, <2>2
  <1> HIDE DEF new, w, x, s
  <1>9. CASE x = s - 1
    <2>1. \A y \in 0 .. s - 2 : y # x
      BY <1>3, <1>9
    <2> QED BY <1>6, <1>7, <1>8, <1>9, <2>1 DEF new, w, x, s
  <1>10. CASE x # s - 1
    <2>1. block[w][s - 1] \in EntryType
      BY <1>3, <1>4, <1>7
    <2>2. /\ new \in [Blocks -> [Slots -> EntryType]] /\ new[w] = [block[w] EXCEPT ![x] = block[w][s - 1]]
          /\ \A b \in Blocks : b # w => new[b] = block[b]
      <3>1. new = [block EXCEPT ![w][x] = block[w][s - 1]]
        BY <1>8, <1>10
      <3> QED BY <1>1, <1>3, <1>7, <2>1, <3>1, PutEntry DEF x
    <2>3. \A y \in 0 .. s - 2 : y \in Slots
      BY <1>3
    <2>4. \A y \in 0 .. s - 2 : new[w][y] = IF y = x THEN block[w][s - 1] ELSE block[w][y]
      <3>1. block[w] \in [Slots -> EntryType]
        BY <1>3, <1>7
      <3> QED BY <2>2, <2>3, <3>1
    <2> QED BY <1>6, <2>2, <2>4 DEF new, w, x, s
  <1> QED BY <1>9, <1>10

LEMMA ShrunkTable ==
  ASSUME TypeOK, WithinLimits, NEW at, NEW slot, Holds(at, slot), NEW v \in DOMAIN at, Mode(at, v) = "dir",
         inode[at[v]].size > 2,
         \/ inode' = [inode EXCEPT ![at[v]].size = @ - 1, ![at[v]].links = (@ - 1) % CountMod]
         \/ inode' = [inode EXCEPT ![at[v]].links = (@ - 1) % CountMod, ![at[v]].size = @ - 1]
  PROVE  LET u == at[v]
             s == inode[u].size
         IN /\ inode' \in [Inodes -> [mode : {"none", "dir", "file"}, links : 0 .. CountMod - 1,
                                      size : Nat, extent_count : 0 .. 1]]
            /\ inode'[u] = [inode[u] EXCEPT !.size = s - 1, !.links = s - 1]
            /\ \A j \in Inodes : j # u => inode'[j] = inode[j]
  <1> DEFINE u == at[v]
             s == inode[u].size
             T == [mode : {"none", "dir", "file"}, links : 0 .. CountMod - 1, size : Nat, extent_count : 0 .. 1]
             r == [inode[u] EXCEPT !.size = s - 1, !.links = s - 1]
             l == (inode[u].links - 1) % CountMod
  <1>1. u \in Inodes /\ s \in Nat /\ s > 2 /\ inode[u].links = s /\ s + 1 < CountMod
    BY DirectoryPlace
  <1>2. inode \in [Inodes -> T] /\ inode[u] \in T
    BY <1>1 DEF TypeOK
  <1>3. l = s - 1 /\ s - 1 \in Nat /\ s - 1 \in 0 .. CountMod - 1
    <2>1. s - 1 \in 0 .. CountMod - 1 /\ s - 1 \in Int /\ s - 1 \in Nat
      <3>1. CountMod \in Nat
        BY Partitions
      <3> HIDE DEF s, u, l, r, T
      <3> QED BY <1>1, <3>1
    <2>2. (s - 1) % CountMod = s - 1
      BY <2>1, Residues
    <2> QED BY <1>1, <2>1, <2>2
  <1>4. inode' = [inode EXCEPT ![u].size = s - 1, ![u].links = l]
        \/ inode' = [inode EXCEPT ![u].links = l, ![u].size = s - 1]
    OBVIOUS
  <1>5. r \in T
    <2> DEFINE upd(rec, x, y) == [rec EXCEPT !.size = x, !.links = y]
    <2>1. \A rec \in T : \A x \in Nat, y \in 0 .. CountMod - 1 : upd(rec, x, y) \in T
      OBVIOUS
    <2>2. r = upd(inode[u], s - 1, s - 1)
      OBVIOUS
    <2> HIDE DEF T, upd, r, s, u
    <2> QED BY <1>2, <1>3, <2>1, <2>2
  <1>6. inode' = [inode EXCEPT ![u] = r]
    <2> DEFINE t == s - 1
    <2>1. inode' = [inode EXCEPT ![u].size = t, ![u].links = t]
          \/ inode' = [inode EXCEPT ![u].links = t, ![u].size = t]
      BY <1>3, <1>4
    <2>2. r = [inode[u] EXCEPT !.size = t, !.links = t]
      OBVIOUS
    <2> HIDE DEF t, r, s, u, T
    <2>3. [inode EXCEPT ![u].size = t, ![u].links = t] = [inode EXCEPT ![u] = [inode[u] EXCEPT !.size = t, !.links = t]]
      BY <1>1, <1>2
    <2>4. [inode EXCEPT ![u].links = t, ![u].size = t] = [inode EXCEPT ![u] = [inode[u] EXCEPT !.links = t, !.size = t]]
      BY <1>1, <1>2
    <2>5. [inode[u] EXCEPT !.links = t, !.size = t] = [inode[u] EXCEPT !.size = t, !.links = t]
      BY <1>2 DEF T
    <2> QED BY <2>1, <2>2, <2>3, <2>4, <2>5
  <1> HIDE DEF T, r, u
  <1>7. inode' \in [Inodes -> T] /\ inode'[u] = r /\ \A j \in Inodes : j # u => inode'[j] = inode[j]
    BY <1>1, <1>2, <1>5, <1>6
  <1> QED BY <1>7 DEF T, r, u

(* What rmdir and unlink change alike.                                     *)
LEMMA RemovedEntry ==
  ASSUME TypeOK, WithinLimits, NEW at, NEW slot, Holds(at, slot), NEW p \in Used(at),
         Mode(at, p) = "dir" => inode[at[p]].size = 2,
         LET u == at[Parent(p)] IN
            /\ \/ inode' = [inode EXCEPT ![u].size = @ - 1, ![u].links = (@ - 1) % CountMod]
               \/ inode' = [inode EXCEPT ![u].links = (@ - 1) % CountMod, ![u].size = @ - 1]
            /\ block' = MovedLast(u, u, Last(p)),
         imap' = imap \ {at[p]}, dmap' = dmap \ ExtentBlocks(at[p]),
         UNCHANGED <<size, magic, formatted, wild, extent, lapses>>,
         expect' = (IF Mode(at, p) = "file" THEN [q \in DOMAIN expect \ {p} |-> expect[q]] ELSE expect),
         free' \in [inodes : 0 .. CountMod - 1, blocks : 0 .. CountMod - 1]
  PROVE  TypeOK' /\ (\E at2, slot2 : Holds(at2, slot2)' /\ Goes(at, at2, p) /\ Stay(at, at2))
         /\ ExtentBlocks(at[p]) = IF HasBlock(at, p) THEN {Start(at[p])} ELSE {}
  <1> DEFINE v == Parent(p)
             u == at[v]
             s == inode[u].size
             w == Start(u)
  <1>1. /\ p \in DOMAIN at /\ v \in DOMAIN at /\ Mode(at, v) = "dir" /\ slot[p] \in 2 .. s - 1
    BY DEF Holds, EntryOK, Mode, Used
  <1>2. s > 2
    <2>1. s \in Nat
      BY <1>1, DirectoryPlace
    <2> HIDE DEF s
    <2> QED BY <1>1, <2>1
  <1>3. /\ inode' \in [Inodes -> [mode : {"none", "dir", "file"}, links : 0 .. CountMod - 1,
                                  size : Nat, extent_count : 0 .. 1]]
        /\ inode'[u] = [inode[u] EXCEPT !.size = s - 1, !.links = s - 1]
        /\ \A j \in Inodes : j # u => inode'[j] = inode[j]
    BY <1>1, <1>2, ShrunkTable
  <1>4. /\ block' \in [Blocks -> [Slots -> EntryType]]
        /\ \A y \in 0 .. s - 2 : block'[w][y] = IF y = slot[p] THEN block[w][s - 1] ELSE block[w][y]
        /\ \A b \in Blocks : b # w => block'[b] = block[b]
    BY MovedBlock
  <1>5. ExtentBlocks(at[p]) = IF HasBlock(at, p) THEN {Start(at[p])} ELSE {}
    <2>1. inode[at[p]].extent_count \in 0 .. 1
      <3>1. at[p] \in Inodes
        BY <1>1, InUse
      <3> QED BY <3>1, InodeTypes
    <2>2. HasBlock(at, p) \/ inode[at[p]].extent_count = 0
      BY <2>1 DEF HasBlock
    <2>3. CASE HasBlock(at, p)
      BY <1>1, <2>3, OneBlock
    <2>4. CASE ~HasBlock(at, p)
      BY <2>2, <2>4 DEF ExtentBlocks
    <2> QED BY <2>3, <2>4
  <1>6. \A b \in dmap : b \in Blocks
    <2>1. dmap = {Start(at[q]) : q \in {r \in DOMAIN at : HasBlock(at, r)}}
      BY DEF Holds, DataOK
    <2> QED BY <2>1, InUse
  <1>7. Leaves(at, slot, p, u, s, w)
    BY <1>3, <1>4, <1>5, <1>6 DEF Leaves
  <1>8. \E at2, slot2 : Holds(at2, slot2)' /\ Goes(at, at2, p) /\ Stay(at, at2)
    BY <1>7, Shrinking
  <1>9. TypeOK'
    BY <1>3, <1>4 DEF TypeOK, EntryType
  <1> QED BY <1>5, <1>8, <1>9

LEMMA Removed ==
  ASSUME A1fsInv, WithinLimits, Ready, NEW p \in RmdirPaths, Kind(p) = {"dir"},
         NEW dir \in path_inode(p), NEW parent \in path_inode(Parent(p)), ~NotEmpty(dir),
         RmdirIn(dir, parent, Last(p)), lapses' = lapses, expect' = IF wild' THEN <<>> ELSE expect
  PROVE  A1fsInv' /\ NameStep
  <1>1. TypeOK /\ NoOvercommit /\ formatted /\ wild = FALSE
    BY DEF A1fsInv, Ready, TypeOK
  <1>2. PICK at, slot : Holds(at, slot)
    BY <1>1 DEF A1fsInv, Image
  <1> DEFINE u == at[Parent(p)]
  <1>3. /\ p \in Used(at) /\ p \in DOMAIN at /\ Mode(at, p) = "dir" /\ dir = at[p] /\ parent = u
    <2>1. p \in Paths
      BY NamesAssumption
    <2> QED BY <1>1, <1>2, <2>1, WhereRemoved
  <1>4. inode[at[p]].size = 2
    BY <1>1, <1>2, <1>3, InUse DEF NotEmpty
  <1>5. ~LeavesData(u, u, Last(p)) /\ Shrunk(u, u, Last(p)) = 1
    BY <1>1, <1>2, <1>3, MovedBlock
  <1>6. /\ imap' = imap \ {at[p]} /\ dmap' = dmap \ ExtentBlocks(at[p])
        /\ free' = [free EXCEPT !.inodes = (@ + 1) % CountMod]
        /\ block' = MovedLast(u, u, Last(p))
        /\ inode' = [inode EXCEPT ![u].size = @ - 1, ![u].links = (@ - 1) % CountMod]
        /\ UNCHANGED <<size, magic, formatted, extent, wild>>
    BY <1>3, <1>5 DEF RmdirIn, ClearBits, DataMapWithout
  <1>7. /\ free' \in [inodes : 0 .. CountMod - 1, blocks : 0 .. CountMod - 1]
        /\ free'.blocks = free.blocks /\ free.blocks \in Nat
    <2>1. free.inodes \in 0 .. CountMod - 1 /\ free.blocks \in 0 .. CountMod - 1 /\ CountMod \in Nat
      BY <1>1, Counts, Partitions
    <2>2. free.inodes + 1 \in Int /\ free.blocks \in Nat
      BY <2>1
    <2>3. (free.inodes + 1) % CountMod \in 0 .. CountMod - 1
      BY <2>2, Residues
    <2>4. free \in [inodes : 0 .. CountMod - 1, blocks : 0 .. CountMod - 1]
      BY <1>1 DEF TypeOK
    <2>5. free' = [free EXCEPT !.inodes = (free.inodes + 1) % CountMod]
      BY <1>6
    <2> QED BY <2>2, <2>3, <2>4, <2>5
  <1>8. expect' = expect /\ expect' = IF Mode(at, p) = "file" THEN [q \in DOMAIN expect \ {p} |-> expect[q]] ELSE expect
    BY <1>1, <1>3, <1>6
  <1>9. TypeOK' /\ \E at2, slot2 : Holds(at2, slot2)' /\ Goes(at, at2, p) /\ Stay(at, at2)
    BY <1>1, <1>2, <1>3, <1>4, <1>6, <1>7, <1>8, RemovedEntry
  <1>10. NoOvercommit'
    <2>1. dmap' \subseteq dmap /\ IsFiniteSet(dmap)
      BY <1>1, <1>6, BitmapTypes
    <2>2. IsFiniteSet(dmap') /\ Cardinality(dmap') <= Cardinality(dmap)
      BY <2>1, FS_Subset
    <2>3. Cardinality(dmap') \in Nat /\ Cardinality(dmap) \in Nat
      BY <2>1, <2>2, FS_CardinalityType
    <2>4. free'.blocks + Cardinality(dmap') <= free.blocks + Cardinality(dmap) /\ free'.blocks \in Nat
      BY <1>7, <2>2, <2>3
    <2> QED BY <1>1, <1>6, <2>2, <2>4, StillPromised
  <1>11. Image' /\ NameStep
    <2>1. Ready'
      BY <1>1, <1>6 DEF Ready
    <2> QED BY <1>2, <1>9, <2>1, NewNames
  <1> QED BY <1>9, <1>10, <1>11 DEF A1fsInv

LEMMA Unlinked ==
  ASSUME A1fsInv, WithinLimits, Ready, NEW p \in UnlinkPaths, Kind(p) = {"file"},
         NEW file \in path_inode(p), NEW parent \in path_inode(Parent(p)),
         \/ UsesParentPath(p) /\ GoWild
         \/ IF parent < inode_size /\ LeavesData(parent * InodesPerBlock, parent, Last(p))
            THEN GoWild ELSE UnlinkFrom(file, parent, Last(p)),
         lapses' = lapses, expect' = IF wild' THEN <<>> ELSE [q \in DOMAIN expect \ {p} |-> expect[q]]
  PROVE  A1fsInv' /\ NameStep
  <1>1. TypeOK /\ NoOvercommit /\ formatted /\ wild = FALSE
    BY DEF A1fsInv, Ready, TypeOK
  <1>2. PICK at, slot : Holds(at, slot)
    BY <1>1 DEF A1fsInv, Image
  <1>3. /\ p \in Used(at) /\ p \in DOMAIN at /\ Mode(at, p) = "file" /\ file = at[p] /\ parent = at[Parent(p)]
        /\ p \in Paths
    <2>1. p \in Paths
      BY NamesAssumption
    <2> QED BY <1>1, <1>2, <2>1, WhereRemoved
  <1>4. Len(p) = 1 /\ Parent(p) = Root /\ at[Root] = 0
    BY <1>2, <1>3, PathFacts DEF WithinLimits, CallsWithinLimits, Holds, PathsOK
  <1>5. parent = 0 /\ at[Parent(p)] = 0
    BY <1>3, <1>4
  <1>6. 0 < inode_size /\ 0 * InodesPerBlock = 0
    <2>1. NInodes \in Nat /\ InodesPerBlock \in Nat /\ InodesPerBlock > 0
      BY Partitions, A1fsAssumption
    <2>2. \A n \in Nat : \A m \in Nat : m > 0 => n \div m + 1 > 0
      OBVIOUS
    <2> QED BY <2>1, <2>2 DEF inode_size
  <1>7. ~LeavesData(0, 0, Last(p)) /\ Shrunk(0, 0, Last(p)) = 1
    BY <1>1, <1>2, <1>3, <1>5, MovedBlock
  <1>8. UnlinkFrom(at[p], 0, Last(p))
    <2>1. ~UsesParentPath(p)
      BY <1>4 DEF UsesParentPath
    <2> QED BY <1>3, <1>5, <1>6, <1>7, <2>1
  <1>9. /\ imap' = imap \ {at[p]} /\ dmap' = dmap \ ExtentBlocks(at[p])
        /\ free' = [inodes |-> (free.inodes + 1) % CountMod,
                    blocks |-> (free.blocks + Cardinality(ExtentBlocks(at[p]))) % CountMod]
        /\ block' = MovedLast(0, 0, Last(p))
        /\ inode' = [inode EXCEPT ![0].links = (@ - 1) % CountMod, ![0].size = @ - 1]
        /\ UNCHANGED <<size, magic, formatted, extent, wild>>
    BY <1>6, <1>7, <1>8 DEF UnlinkFrom, ClearBits, Decremented
  <1>10. ExtentBlocks(at[p]) \subseteq dmap
    <2>1. CASE HasBlock(at, p)
      BY <1>1, <1>2, <1>3, <2>1, OneBlock, InUse
    <2>2. CASE ~HasBlock(at, p)
      <3>1. inode[at[p]].extent_count \in 0 .. 1
        BY <1>1, <1>2, <1>3, InUse, InodeTypes
      <3>2. inode[at[p]].extent_count = 0
        BY <2>2, <3>1 DEF HasBlock
      <3> QED BY <3>2 DEF ExtentBlocks
    <2> QED BY <2>1, <2>2
  <1> DEFINE c == Cardinality(ExtentBlocks(at[p]))
  <1>11. /\ IsFiniteSet(dmap') /\ Cardinality(dmap') = Cardinality(dmap) - c
         /\ c \in Nat /\ Cardinality(dmap) \in Nat
    <2>1. IsFiniteSet(dmap) /\ IsFiniteSet(ExtentBlocks(at[p]))
      BY <1>1, <1>10, BitmapTypes, FS_Subset
    <2>2. dmap \cap ExtentBlocks(at[p]) = ExtentBlocks(at[p])
      BY <1>10
    <2> QED BY <1>9, <2>1, <2>2, FS_Difference, FS_CardinalityType
  <1> HIDE DEF c
  <1>12. /\ free' \in [inodes : 0 .. CountMod - 1, blocks : 0 .. CountMod - 1]
         /\ free'.blocks <= free.blocks + c /\ free'.blocks \in Nat /\ free.blocks \in Nat
    <2>1. free.inodes \in 0 .. CountMod - 1 /\ free.blocks \in 0 .. CountMod - 1 /\ CountMod \in Nat
      BY <1>1, Counts, Partitions
    <2>2. free.inodes + 1 \in Int /\ free.blocks + c \in Int /\ free.blocks + c >= 0 /\ free.blocks \in Nat
      BY <1>11, <2>1
    <2>3. /\ (free.inodes + 1) % CountMod \in 0 .. CountMod - 1 /\ (free.blocks + c) % CountMod \in 0 .. CountMod - 1
          /\ (free.blocks + c) % CountMod <= free.blocks + c
      BY <2>2, Residues
    <2>4. free'.blocks = (free.blocks + c) % CountMod /\ free'.inodes = (free.inodes + 1) % CountMod
          /\ free' = [inodes |-> free'.inodes, blocks |-> free'.blocks]
      BY <1>9 DEF c
    <2> QED BY <2>1, <2>2, <2>3, <2>4
  <1>13. NoOvercommit'
    <2>1. free'.blocks + Cardinality(dmap') <= free.blocks + Cardinality(dmap)
      BY <1>11, <1>12, FS_CardinalityType
    <2> QED BY <1>1, <1>9, <1>11, <1>12, <2>1, StillPromised
  <1>14. expect' = IF Mode(at, p) = "file" THEN [q \in DOMAIN expect \ {p} |-> expect[q]] ELSE expect
    BY <1>1, <1>3, <1>9
  <1>15. TypeOK' /\ \E at2, slot2 : Holds(at2, slot2)' /\ Goes(at, at2, p) /\ Stay(at, at2)
    BY <1>1, <1>2, <1>3, <1>5, <1>9, <1>12, <1>14, RemovedEntry
  <1>16. Image' /\ NameStep
    <2>1. Ready'
      BY <1>1, <1>9 DEF Ready
    <2> QED BY <1>2, <1>15, <2>1, NewNames
  <1> QED BY <1>13, <1>15, <1>16 DEF A1fsInv

-----------------------------------------------------------------------------
(* write: a file p gets a block or keeps the one it has, and the blocks of *)
(* directories stay as they are.                                           *)
LEMMA Rewriting ==
  ASSUME TypeOK, WithinLimits, NEW at, NEW slot, Holds(at, slot), NEW p \in DOMAIN at, Mode(at, p) = "file",
         at[p] \in Extents, inode'[at[p]].mode = "file", inode'[at[p]].extent_count = 1,
         \A j \in Inodes : j # at[p] => inode'[j] = inode[j],
         \A j \in Extents : j # at[p] => extent'[j] = extent[j],
         NEW w, w = extent'[at[p]].start, extent'[at[p]].count = 1, InImage(w),
         dmap' = dmap \cup {w}, IF HasBlock(at, p) THEN w = Start(at[p]) ELSE w \notin dmap,
         \A q \in Dirs(at) : block'[Start(at[q])] = block[Start(at[q])],
         UNCHANGED <<imap, size>>, ContentsOK(at)'
  PROVE  Holds(at, slot)'
  <1>1. PathsOK(at) /\ Mode(at, Root) = "dir" /\ Root \in DOMAIN at
    BY DEF Holds, PathsOK
  <1>2. \A q \in DOMAIN at : q # p => at[q] \in Inodes /\ at[q] # at[p]
    BY <1>1, InUse DEF PathsOK
  <1>3. ASSUME NEW q \in DOMAIN at, q # p
        PROVE  /\ inode'[at[q]] = inode[at[q]]
               /\ HasBlock(at, q) => extent'[at[q]] = extent[at[q]]
    BY <1>2, <1>3, InUse
  <1>4. \A q \in DOMAIN at : q # p => /\ HasBlock(at, q)' = HasBlock(at, q) /\ Mode(at, q)' = Mode(at, q)
                                      /\ HasBlock(at, q) => Start(at[q])' = Start(at[q])
    BY <1>3 DEF HasBlock, Mode, Start
  <1>5. HasBlock(at, p)' /\ Mode(at, p)' = "file" /\ Start(at[p])' = w
    BY DEF HasBlock, Mode, Start
  <1>6. ASSUME NEW q \in DOMAIN at
        PROVE  InodeOK(at, q)'
    <2>1. CASE q = p
      <3>1. InImage(Start(at[p]))'
        BY <1>5 DEF InImage
      <3> QED BY <2>1, <3>1 DEF InodeOK
    <2>2. CASE q # p
      <3>1. inode'[at[q]] = inode[at[q]] /\ InodeOK(at, q)
        BY <1>3, <2>2 DEF Holds
      <3>2. CASE Mode(at, q) = "dir"
        <4>1. HasBlock(at, q) /\ block'[Start(at[q])] = block[Start(at[q])]
          BY <3>2, InUse DEF Dirs
        <4>2. extent'[at[q]] = extent[at[q]]
          BY <1>3, <2>2, <4>1
        <4>3. InImage(Start(at[q])) <=> InImage(Start(at[q]))'
          BY <4>2 DEF InImage, Start
        <4> QED BY <3>1, <3>2, <4>1, <4>2, <4>3 DEF InodeOK, Start
      <3>3. CASE Mode(at, q) # "dir"
        <4>1. inode[at[q]].mode = "file" /\ (inode[at[q]].extent_count = 0 => inode[at[q]].size = 0)
          BY <3>1, <3>3 DEF InodeOK, Mode
        <4>2. CASE HasBlock(at, q)
          <5>1. extent'[at[q]] = extent[at[q]]
            BY <1>3, <2>2, <4>2
          <5>2. InImage(Start(at[q])) <=> InImage(Start(at[q]))'
            BY <5>1 DEF InImage, Start
          <5> QED BY <3>1, <4>1, <5>1, <5>2 DEF InodeOK
        <4>3. CASE ~HasBlock(at, q)
          BY <3>1, <4>1, <4>3 DEF InodeOK, HasBlock
        <4> QED BY <4>2, <4>3
      <3> QED BY <3>2, <3>3
    <2> QED BY <2>1, <2>2
  <1>7. ASSUME NEW q \in DOMAIN at
        PROVE  SlotsFilled(at, slot, q)'
    <2>1. CASE q = p
      BY <1>5, <2>1 DEF SlotsFilled
    <2>2. CASE q # p
      <3>1. SlotsFilled(at, slot, q)
        BY DEF Holds
      <3>2. inode'[at[q]] = inode[at[q]]
        BY <1>3, <2>2
      <3> QED BY <3>1, <3>2 DEF SlotsFilled, Mode
    <2> QED BY <2>1, <2>2
  <1>8. ASSUME NEW q \in Used(at)
        PROVE  EntryOK(at, slot, q)'
    <2> DEFINE v == Parent(q)
               d == at[v]
    <2>1. v \in DOMAIN at /\ inode[d].mode = "dir" /\ slot[q] \in 2 .. inode[d].size - 1
          /\ block[Start(d)][slot[q]] = Entry(at[q], Last(q))
      BY DEF Holds, EntryOK
    <2>2. v # p /\ Mode(at, v) = "dir" /\ HasBlock(at, v)
      BY <2>1, InUse DEF Mode
    <2>3. inode'[d] = inode[d] /\ extent'[d] = extent[d] /\ block'[Start(d)] = block[Start(d)]
      BY <1>3, <2>1, <2>2 DEF Dirs
    <2> QED BY <2>1, <2>3 DEF EntryOK, Start
  <1>9. DataOK(at)'
    <2> DEFINE H == {q \in DOMAIN at : HasBlock(at, q) /\ q # p}
    <2>1. dmap = {Start(at[q]) : q \in {r \in DOMAIN at : HasBlock(at, r)}}
          /\ \A q, r \in DOMAIN at : HasBlock(at, q) /\ HasBlock(at, r) /\ Start(at[q]) = Start(at[r]) => q = r
      BY DEF Holds, DataOK
    <2>2. \A q \in H : Start(at[q]) # w /\ Start(at[q]) \in dmap
      BY <2>1
    <2>3. {r \in DOMAIN at : HasBlock(at, r)'} = H \cup {p}
      BY <1>4, <1>5
    <2>4. dmap' = {Start(at[q]) : q \in H} \cup {w}
      <3>1. CASE HasBlock(at, p)
        BY <2>1, <3>1
      <3>2. CASE ~HasBlock(at, p)
        <4>1. {r \in DOMAIN at : HasBlock(at, r)} = H
          BY <3>2
        <4> QED BY <2>1, <4>1
      <3> QED BY <3>1, <3>2
    <2>5. {Start(at[q])' : q \in H \cup {p}} = {Start(at[q]) : q \in H} \cup {w}
      BY <1>4, <1>5
    <2>6. \A q, r \in DOMAIN at : HasBlock(at, q)' /\ HasBlock(at, r)' /\ Start(at[q])' = Start(at[r])' => q = r
      BY <1>4, <1>5, <2>1, <2>2
    <2> HIDE DEF H
    <2> QED BY <2>3, <2>4, <2>5, <2>6 DEF DataOK
  <1>10. BitsOK(at)'
    BY DEF Holds, BitsOK
  <1>11. Mode(at, Root)' = "dir"
    BY <1>1, <1>4
  <1> QED BY <1>1, <1>6, <1>7, <1>8, <1>9, <1>10, <1>11 DEF Holds

(* The units of a write: zeros from the old end of the file, then the data. *)
Units(base, old, o, data) ==
    [a \in Gap(base, old, o) \cup (base + o .. base + (o + Len(data)) - 1) |->
        IF a \in base + o .. base + (o + Len(data)) - 1 THEN Unit(data[a - base - o + 1]) ELSE Blank]

InOneBlock(f, base, old, o, data) ==
    /\ \A a \in DOMAIN f : \E y \in Slots : a = base + y
    /\ \A y \in Slots : base + y \in DOMAIN f <=> (old <= y /\ y < o) \/ (o <= y /\ y < o + Len(data))
    /\ \A y \in Slots : o <= y /\ y < o + Len(data) => f[base + y] = Unit(data[y - o + 1])
    /\ \A y \in Slots : old <= y /\ y < o => f[base + y] = Blank
    /\ \A a \in DOMAIN f : f[a] \in EntryType
    /\ o \in Slots /\ base + o \in DOMAIN f /\ f[base + o] # Blank

LEMMA UnitsAre ==
  ASSUME NEW base \in Nat, NEW old \in Nat, NEW o \in Nat, NEW data \in Seq(Data), data # <<>>,
         o + Len(data) <= EntriesPerBlock
  PROVE  InOneBlock(Units(base, old, o, data), base, old, o, data)
  <1> DEFINE f == Units(base, old, o, data)
             l == Len(data)
             W == base + o .. base + (o + l) - 1
             G == base + old .. base + o - 1
  <1>1. l \in Nat /\ l >= 1 /\ \A k \in 1 .. l : data[k] \in Data
    <2>1. l \in Nat /\ (l = 0 => data = <<>>)
      OBVIOUS
    <2>2. \A k \in 1 .. l : data[k] \in Data
      OBVIOUS
    <2> HIDE DEF l
    <2> QED BY <2>1, <2>2
  <1>2. EntriesPerBlock \in Nat /\ Slots = 0 .. EntriesPerBlock - 1
    BY Partitions
  <1>3. DOMAIN f = G \cup W
    BY DEF Units, Gap
  <1>4. \A a \in G \cup W : f[a] = IF a \in W THEN Unit(data[a - base - o + 1]) ELSE Blank
    BY DEF Units, Gap
  <1>5. o + l <= EntriesPerBlock
    OBVIOUS
  <1> HIDE DEF l, f
  <1>6. \A a \in DOMAIN f : \E y \in Slots : a = base + y
    <2> SUFFICES ASSUME NEW a \in G \cup W PROVE \E y \in Slots : a = base + y
      BY <1>3
    <2>1. a - base \in Slots /\ a = base + (a - base)
      BY <1>1, <1>2, <1>5
    <2> QED BY <2>1
  <1>7. \A y \in Slots : (base + y \in W <=> o <= y /\ y < o + l) /\ (base + y \in G <=> old <= y /\ y < o)
    BY <1>1, <1>2
  <1> HIDE DEF W, G
  <1>8. \A y \in Slots : o <= y /\ y < o + l => f[base + y] = Unit(data[y - o + 1])
    <2> SUFFICES ASSUME NEW y \in Slots, o <= y, y < o + l PROVE f[base + y] = Unit(data[y - o + 1])
      OBVIOUS
    <2>1. (base + y) - base - o + 1 = y - o + 1
      BY <1>2
    <2>2. base + y \in W
      BY <1>7
    <2>3. f[base + y] = Unit(data[(base + y) - base - o + 1])
      <3> DEFINE z == base + y
      <3>1. z \in W /\ z \in G \cup W
        BY <2>2
      <3> HIDE DEF z
      <3>2. f[z] = Unit(data[z - base - o + 1])
        BY <1>4, <3>1
      <3> QED BY <3>2 DEF z
    <2> QED BY <2>1, <2>3
  <1>9. \A y \in Slots : old <= y /\ y < o => f[base + y] = Blank
    <2> SUFFICES ASSUME NEW y \in Slots, old <= y, y < o PROVE f[base + y] = Blank
      OBVIOUS
    <2>1. ~(o <= y)
      BY <1>2
    <2> QED BY <1>4, <1>7, <2>1
  <1>10. 0 \in Inodes /\ Blank \in EntryType /\ \A d \in Data : Unit(d) \in EntryType /\ Unit(d) # Blank
    <2>1. 0 \in Inodes
      BY Partitions
    <2>2. "" \notin Data
      BY NamesAssumption
    <2> QED BY <2>1, <2>2 DEF Blank, Unit, Entry, EntryType
  <1>11. \A a \in DOMAIN f : f[a] \in EntryType
    <2> SUFFICES ASSUME NEW a \in G \cup W PROVE f[a] \in EntryType
      BY <1>3
    <2>1. CASE a \in W
      <3>1. a - base - o + 1 \in 1 .. l
        BY <1>1, <2>1 DEF W
      <3> QED BY <1>1, <1>4, <1>10, <2>1, <3>1
    <2>2. CASE a \notin W
      BY <1>4, <1>10, <2>2
    <2> QED BY <2>1, <2>2
  <1>12. o \in Slots /\ o <= o /\ o < o + l
    BY <1>1, <1>2, <1>5
  <1>13. base + o \in DOMAIN f
    BY <1>3, <1>7, <1>12
  <1>14. f[base + o] # Blank
    <2>1. o - o + 1 = 1 /\ 1 \in 1 .. l
      BY <1>1
    <2>2. f[base + o] = Unit(data[1])
      BY <1>8, <1>12, <2>1
    <2> QED BY <1>1, <1>10, <2>1, <2>2
  <1>15. \A y \in Slots : base + y \in DOMAIN f <=> (old <= y /\ y < o) \/ (o <= y /\ y < o + l)
    BY <1>3, <1>7
  <1>16. InOneBlock(f, base, old, o, data)
    BY <1>6, <1>8, <1>9, <1>11, <1>12, <1>13, <1>14, <1>15 DEF InOneBlock, l
  <1> QED BY <1>16 DEF f

LEMMA UnitsWritten ==
  ASSUME TypeOK, NEW w \in Nat, NEW old \in Nat, NEW o \in Nat, NEW data \in Seq(Data), data # <<>>,
         o + Len(data) <= EntriesPerBlock, NEW f, f = Units(w * EntriesPerBlock, old, o, data),
         ~Destroys(f), block' = Overwritten(f)
  PROVE  /\ InImage(w) /\ w \in Blocks /\ w \notin DirectoryBlocks
         /\ block' \in [Blocks -> [Slots -> EntryType]]
         /\ \A b \in Blocks : b # w => block'[b] = block[b]
         /\ \A y \in Slots :
               block'[w][y] = IF o <= y /\ y < o + Len(data) THEN Unit(data[y - o + 1])
                              ELSE IF old <= y /\ y < o THEN Blank ELSE block[w][y]
  <1> DEFINE base == w * EntriesPerBlock
  <1>1. EntriesPerBlock \in Nat /\ EntriesPerBlock > 0 /\ Slots = 0 .. EntriesPerBlock - 1 /\ base \in Nat
        /\ Blocks \in SUBSET Nat
    BY Partitions
  <1>2. /\ \A a \in DOMAIN f : \E y \in Slots : a = base + y
        /\ \A y \in Slots : base + y \in DOMAIN f <=> (old <= y /\ y < o) \/ (o <= y /\ y < o + Len(data))
        /\ \A y \in Slots : o <= y /\ y < o + Len(data) => f[base + y] = Unit(data[y - o + 1])
        /\ \A y \in Slots : old <= y /\ y < o => f[base + y] = Blank
        /\ \A a \in DOMAIN f : f[a] \in EntryType
        /\ o \in Slots /\ base + o \in DOMAIN f /\ f[base + o] # Blank
    <2>1. f = Units(base, old, o, data) /\ base \in Nat
      BY <1>1
    <2> HIDE DEF base
    <2>2. InOneBlock(f, base, old, o, data)
      BY <2>1, UnitsAre
    <2> QED BY <2>2 DEF InOneBlock
  <1>3. \A b \in Nat, y \in Slots : (b * EntriesPerBlock + y) \div EntriesPerBlock = b
    BY <1>1, Quotients
  <1>4. BlockOf(base + o) = w
    BY <1>2, <1>3 DEF BlockOf
  <1>5. InImage(w) /\ w \notin DirectoryBlocks
    <2>1. ~(~InImage(BlockOf(base + o)) \/ (BlockOf(base + o) \in DirectoryBlocks /\ f[base + o] # Blank))
      BY <1>2 DEF Destroys, LeavesImage, HitsDirectory
    <2> QED BY <1>2, <1>4, <2>1
  <1>6. w \in Blocks
    <2>1. size \in ImageSizes
      BY DEF TypeOK
    <2> QED BY <1>5, <2>1, InImageIsBlock
  <1>7. block \in [Blocks -> [Slots -> EntryType]]
    BY DEF TypeOK, EntryType
  <1>8. block' = [b \in Blocks |-> [y \in Slots |->
                     IF b * EntriesPerBlock + y \in DOMAIN f THEN f[b * EntriesPerBlock + y] ELSE block[b][y]]]
    BY DEF Overwritten
  <1>9. block' \in [Blocks -> [Slots -> EntryType]]
    BY <1>2, <1>7, <1>8
  <1>10. ASSUME NEW b \in Blocks, b # w
         PROVE  block'[b] = block[b]
    <2>1. ASSUME NEW y \in Slots, b * EntriesPerBlock + y \in DOMAIN f PROVE FALSE
      <3>1. PICK x \in Slots : b * EntriesPerBlock + y = w * EntriesPerBlock + x
        BY <1>2, <2>1
      <3>2. b \in Nat
        BY <1>1
      <3> QED BY <1>3, <1>10, <3>1, <3>2
    <2>2. block'[b] = [y \in Slots |-> block[b][y]]
      BY <1>8, <2>1
    <2> QED BY <1>7, <2>2
  <1>11. \A y \in Slots : block'[w][y] = IF base + y \in DOMAIN f THEN f[base + y] ELSE block[w][y]
    BY <1>6, <1>8
  <1> HIDE DEF base
  <1>12. \A y \in Slots :
            block'[w][y] = IF o <= y /\ y < o + Len(data) THEN Unit(data[y - o + 1])
                           ELSE IF old <= y /\ y < o THEN Blank ELSE block[w][y]
    <2> SUFFICES ASSUME NEW y \in Slots
                 PROVE  block'[w][y] = IF o <= y /\ y < o + Len(data) THEN Unit(data[y - o + 1])
                                       ELSE IF old <= y /\ y < o THEN Blank ELSE block[w][y]
      OBVIOUS
    <2>1. CASE o <= y /\ y < o + Len(data)
      BY <1>2, <1>11, <2>1
    <2>2. CASE ~(o <= y /\ y < o + Len(data)) /\ old <= y /\ y < o
      BY <1>2, <1>11, <2>2
    <2>3. CASE ~(o <= y /\ y < o + Len(data)) /\ ~(old <= y /\ y < o)
      BY <1>2, <1>11, <2>3
    <2> QED BY <2>1, <2>2, <2>3
  <1> QED BY <1>5, <1>6, <1>9, <1>10, <1>12

LEMMA FileTable ==
  ASSUME TypeOK, NEW i \in Inodes, NEW z \in Nat,
         inode' = [inode EXCEPT ![i].extent_count = 1, ![i].size = z]
  PROVE  /\ inode' \in [Inodes -> [mode : {"none", "dir", "file"}, links : 0 .. CountMod - 1,
                                   size : Nat, extent_count : 0 .. 1]]
         /\ inode'[i].mode = inode[i].mode /\ inode'[i].extent_count = 1 /\ inode'[i].size = z
         /\ \A j \in Inodes : j # i => inode'[j] = inode[j]
  <1> DEFINE T == [mode : {"none", "dir", "file"}, links : 0 .. CountMod - 1, size : Nat, extent_count : 0 .. 1]
             upd(rec) == [rec EXCEPT !.extent_count = 1, !.size = z]
  <1>1. inode \in [Inodes -> T]
    BY DEF TypeOK
  <1>2. inode' = [inode EXCEPT ![i] = upd(inode[i])]
    BY <1>1
  <1>3. \A rec \in T : /\ upd(rec) \in T /\ upd(rec).mode = rec.mode
                       /\ upd(rec).extent_count = 1 /\ upd(rec).size = z
    <2>1. 1 \in 0 .. 1
      OBVIOUS
    <2> QED BY <2>1
  <1> HIDE DEF T, upd
  <1>4. /\ inode' \in [Inodes -> T] /\ inode'[i] = upd(inode[i])
        /\ \A j \in Inodes : j # i => inode'[j] = inode[j]
    <2> DEFINE r == upd(inode[i])
    <2>1. r \in T
      BY <1>1, <1>3
    <2>2. inode' = [inode EXCEPT ![i] = r]
      BY <1>2
    <2> HIDE DEF r
    <2>3. inode' \in [Inodes -> T] /\ inode'[i] = r /\ \A j \in Inodes : j # i => inode'[j] = inode[j]
      BY <1>1, <2>1, <2>2
    <2> QED BY <2>3 DEF r
  <1>5. inode[i] \in T
    BY <1>1
  <1> QED BY <1>3, <1>4, <1>5 DEF T

(* The first write to a file is all it holds.                              *)
LEMMA FirstWrite ==
  ASSUME NEW contents, Len(contents) = 0, NEW o \in Nat, NEW data \in Seq(Data), data # <<>>
  PROVE  LET n == o + Len(data)
             x == Written(contents, o, data)
         IN /\ x \in Seq([ino : Inodes, name : Data \cup {""}]) /\ Len(x) = n
            /\ \A k \in 1 .. n : x[k] = IF o < k THEN Unit(data[k - o]) ELSE Blank
  <1> DEFINE l == Len(data)
             n == o + l
             x == Written(contents, o, data)
             U == [ino : Inodes, name : Data \cup {""}]
             g(k) == IF k \in o + 1 .. n THEN Unit(data[k - o]) ELSE Padded(contents, n)[k]
             y == [k \in 1 .. n |-> IF o < k THEN Unit(data[k - o]) ELSE Blank]
  <1>1. l \in Nat /\ l >= 1 /\ \A k \in 1 .. l : data[k] \in Data
    <2>1. l \in Nat /\ (l = 0 => data = <<>>)
      OBVIOUS
    <2>2. \A k \in 1 .. l : data[k] \in Data
      OBVIOUS
    <2> HIDE DEF l
    <2> QED BY <2>1, <2>2
  <1>2. x = [k \in 1 .. (IF n > Len(contents) THEN n ELSE Len(contents)) |->
                IF k \in o + 1 .. n THEN Unit(data[k - o])
                ELSE Padded(contents, IF n > Len(contents) THEN n ELSE Len(contents))[k]]
    BY DEF Written
  <1>3. n \in Nat /\ n > 0
    <2> HIDE DEF l
    <2> QED BY <1>1
  <1> HIDE DEF x, g, l
  <1>4. (IF n > Len(contents) THEN n ELSE Len(contents)) = n
    BY <1>3
  <1>5. x = [k \in 1 .. n |-> g(k)]
    BY <1>2, <1>4 DEF g
  <1>6. \A k \in 1 .. n : Padded(contents, n)[k] = Blank
    <2>1. \A k \in 1 .. n : ~(k <= Len(contents))
      BY <1>3
    <2> QED BY <2>1 DEF Padded
  <1>7. \A k \in 1 .. n : k \in o + 1 .. n <=> o < k
    BY <1>1
  <1>8. \A k \in 1 .. n : g(k) = IF o < k THEN Unit(data[k - o]) ELSE Blank
    BY <1>6, <1>7 DEF g
  <1>9. x = y
    BY <1>5, <1>8
  <1>10. \A k \in 1 .. n : (IF o < k THEN Unit(data[k - o]) ELSE Blank) \in U
    <2>1. 0 \in Inodes
      BY Partitions
    <2>2. Blank \in U /\ \A d \in Data : Unit(d) \in U
      BY <2>1 DEF Blank, Unit, Entry
    <2>3. \A k \in 1 .. n : o < k => k - o \in 1 .. l
      BY <1>1
    <2> HIDE DEF U
    <2> QED BY <1>1, <2>2, <2>3
  <1> HIDE DEF U, n
  <1>11. y \in [1 .. n -> U]
    BY <1>10
  <1>12. y \in Seq(U) /\ Len(y) = n
    BY <1>3, <1>11
  <1>13. \A k \in 1 .. n : y[k] = IF o < k THEN Unit(data[k - o]) ELSE Blank
    OBVIOUS
  <1> QED BY <1>9, <1>12, <1>13 DEF x, n, U, l

(* Where the data of a write goes: a first write takes a free block.       *)
LEMMA WhereWritten ==
  ASSUME A1fsInv, WithinLimits, formatted, NEW at, NEW slot, Holds(at, slot),
         NEW c \in WriteCalls, a1fs_write(c)
  PROVE  /\ c.path \in DOMAIN at /\ Mode(at, c.path) = "file" /\ path_inode(c.path) = {at[c.path]}
         /\ inode[at[c.path]].extent_count = 0 =>
               /\ ~HasBlock(at, c.path) /\ inode[at[c.path]].size = 0
               /\ find_next_bit(dmap) = FreeBit(dmap) /\ FreeBit(dmap) \in Nat /\ FreeBit(dmap) \notin dmap
  <1> DEFINE p == c.path
             m == "file"
  <1>1. TypeOK
    BY DEF A1fsInv
  <1>2. Kind(p) = {m} /\ p \in Paths
    BY FilesAssumption DEF a1fs_write
  <1> HIDE DEF m, p
  <1>3. p \in DOMAIN at /\ Mode(at, p) = m /\ path_inode(p) = {at[p]}
    BY <1>1, <1>2, WhereRemoved
  <1>4. m = "file"
    BY DEF m
  <1>5. ASSUME inode[at[p]].extent_count = 0
        PROVE  /\ ~HasBlock(at, p) /\ inode[at[p]].size = 0
               /\ find_next_bit(dmap) = FreeBit(dmap) /\ FreeBit(dmap) \in Nat /\ FreeBit(dmap) \notin dmap
    <2>1. InodeOK(at, p)
      BY <1>3 DEF Holds
    <2>2. ~HasBlock(at, p) /\ inode[at[p]].size = 0
      BY <1>3, <1>4, <1>5, <2>1 DEF HasBlock, InodeOK, Mode
    <2>3. p \in NewPaths
      BY <1>2, <1>3, RootPath DEF Holds, PathsOK, Used
    <2>4. FreeBit(dmap) \in Nat /\ FreeBit(dmap) \notin dmap /\ FreeBit(dmap) % BitsPerByte = FreeBit(dmap)
      BY <1>1, <2>2, <2>3, <1>3, FreeBlock
    <2> QED BY <2>2, <2>4 DEF find_next_bit
  <1> QED BY <1>3, <1>4, <1>5 DEF p

LEMMA WriteStep ==
  ASSUME A1fsInv, WithinLimits, NEW c \in WriteCalls, a1fs_write(c)
  PROVE  A1fsInv' /\ NameStep
  <1>1. TypeOK /\ NoOvercommit /\ formatted /\ wild = FALSE
    BY DEF A1fsInv, a1fs_write, Ready, TypeOK
  <1>2. PICK at, slot : Holds(at, slot)
    BY <1>1 DEF A1fsInv, Image
  <1> DEFINE p == c.path
             o == c.offset
             data == c.data
             i == at[p]
  <1>3. p \in Paths /\ o \in Nat /\ data \in Seq(Data) /\ data # <<>> /\ o + Len(data) <= EntriesPerBlock
    BY FilesAssumption DEF WithinLimits, CallsWithinLimits
  <1> HIDE DEF p, o, data
  <1>4. p \in DOMAIN at /\ Mode(at, p) = "file" /\ path_inode(p) = {i}
    BY <1>1, <1>2, WhereWritten DEF p
  <1>5. i \in Inodes /\ PathsOK(at) /\ InodeOK(at, p)
    BY <1>1, <1>2, <1>4, InUse DEF Holds
  <1>6. /\ IF i \in Extents THEN WriteTo(i, o, data) ELSE GoWild /\ UNCHANGED lapses
        /\ expect' = IF wild' THEN <<>> ELSE [expect EXCEPT ![p] = Written(@, o, data)]
    BY <1>4 DEF a1fs_write, p, o, data
  <1> DEFINE fresh == inode[i].extent_count = 0
             w == IF fresh THEN find_next_bit(dmap) ELSE extent[i].start + Signed(extent[i].count)
             old == inode[i].size
             end == o + Len(data)
             f == Units(w * EntriesPerBlock, old, o, data)
             z == IF o > old THEN old + end ELSE IF end > old THEN end ELSE old
  <1>7. CASE i \notin Extents \/ Destroys(f)
    <2>1. GoWild
      BY <1>6, <1>7 DEF WriteTo, Units
    <2>2. expect' = <<>>
      BY <1>6, <2>1 DEF GoWild
    <2> QED BY <1>1, <2>1, <2>2, WildStep
  <1>8. CASE i \in Extents /\ ~Destroys(f)
    <2>1. /\ block' = Overwritten(f)
          /\ dmap' = (IF fresh THEN SetBit(dmap, w) ELSE dmap)
          /\ extent' = (IF fresh THEN [extent EXCEPT ![i] = [start |-> w, count |-> 1]] ELSE extent)
          /\ free' = (IF fresh THEN [free EXCEPT !.blocks = Decremented(@)] ELSE free)
          /\ inode' = [inode EXCEPT ![i].extent_count = 1, ![i].size = z]
          /\ lapses' = lapses \cup (IF ~fresh \/ end > EntriesPerBlock THEN {"behind"} ELSE {})
                              \cup (IF fresh /\ free.blocks = 0 THEN {"overdrawn"} ELSE {})
                              \cup (IF HitsDirectory(f) /\ ~LeavesImage(f) THEN {"directory"} ELSE {})
          /\ size' = size /\ magic' = magic /\ formatted' = formatted /\ imap' = imap /\ wild' = wild
      BY <1>6, <1>8 DEF WriteTo, Units, DataMapWith
    <2>2. fresh \/ (HasBlock(at, p) /\ ~fresh)
      <3>1. inode[i].extent_count \in 0 .. 1
        BY <1>1, <1>5, InodeTypes
      <3> QED BY <3>1 DEF HasBlock
    <2>3. fresh => /\ w = FreeBit(dmap) /\ w \in Nat /\ w \notin dmap /\ ~HasBlock(at, p) /\ old = 0
      <3> SUFFICES ASSUME fresh PROVE /\ w = FreeBit(dmap) /\ w \in Nat /\ w \notin dmap /\ ~HasBlock(at, p) /\ old = 0
        OBVIOUS
      <3>1. /\ ~HasBlock(at, p) /\ old = 0 /\ find_next_bit(dmap) = FreeBit(dmap)
            /\ FreeBit(dmap) \in Nat /\ FreeBit(dmap) \notin dmap
        BY <1>1, <1>2, WhereWritten DEF p
      <3> QED BY <3>1
    <2>4. ~fresh => w = Start(i) + 1 /\ w \in Nat /\ Start(i) \in dmap
      <3> SUFFICES ASSUME ~fresh PROVE w = Start(i) + 1 /\ w \in Nat /\ Start(i) \in dmap
        OBVIOUS
      <3>1. HasBlock(at, p)
        BY <2>2
      <3>2. extent[i].count = 1 /\ Start(i) \in Nat /\ Start(i) \in dmap
        BY <1>1, <1>2, <1>4, <3>1, OneBlock, InUse
      <3>3. w = Start(i) + 1
        BY <3>2, One DEF Start
      <3> QED BY <3>2, <3>3
    <2>5. w \in Nat /\ old \in Nat /\ Len(data) \in Nat /\ Len(data) >= 1
      <3>1. old \in Nat
        BY <1>1, <1>5, InodeTypes
      <3>2. Len(data) \in Nat /\ Len(data) >= 1
        <4>1. Len(data) \in Nat /\ (Len(data) = 0 => data = <<>>)
          BY <1>3
        <4> QED BY <1>3, <4>1
      <3> QED BY <2>2, <2>3, <2>4, <3>1, <3>2
    <2> HIDE DEF w, old, fresh, i
    <2>6. /\ InImage(w) /\ w \in Blocks /\ w \notin DirectoryBlocks
          /\ block' \in [Blocks -> [Slots -> EntryType]]
          /\ \A b \in Blocks : b # w => block'[b] = block[b]
          /\ \A y \in Slots :
                block'[w][y] = IF o <= y /\ y < o + Len(data) THEN Unit(data[y - o + 1])
                               ELSE IF old <= y /\ y < o THEN Blank ELSE block[w][y]
      BY <1>1, <1>3, <1>8, <2>1, <2>5, UnitsWritten
    <2> HIDE DEF f
    <2>7. z \in Nat
      BY <1>3, <2>5
    <2>8. /\ inode' \in [Inodes -> [mode : {"none", "dir", "file"}, links : 0 .. CountMod - 1,
                                    size : Nat, extent_count : 0 .. 1]]
          /\ inode'[i].mode = inode[i].mode /\ inode'[i].extent_count = 1 /\ inode'[i].size = z
          /\ \A j \in Inodes : j # i => inode'[j] = inode[j]
      <3> HIDE DEF z
      <3> QED BY <1>1, <1>5, <2>1, <2>7, FileTable
    <2> HIDE DEF z
    <2>9. /\ extent' \in [Extents -> [start : Blocks, count : 0 .. CountMod - 1]]
          /\ \A j \in Extents : j # i => extent'[j] = extent[j]
          /\ fresh => extent'[i] = [start |-> w, count |-> 1]
          /\ ~fresh => extent' = extent
      <3>1. extent \in [Extents -> [start : Blocks, count : 0 .. CountMod - 1]]
        BY <1>1 DEF TypeOK
      <3>2. 1 \in 0 .. CountMod - 1
        BY Partitions
      <3> QED BY <1>8, <2>1, <2>6, <3>1, <3>2
    <2>10. /\ free' \in [inodes : 0 .. CountMod - 1, blocks : 0 .. CountMod - 1]
           /\ free'.blocks \in Nat /\ free.blocks \in Nat
           /\ ~fresh => free'.blocks = free.blocks
           /\ fresh /\ free.blocks # 0 => free'.blocks = free.blocks - 1
      <3>1. free \in [inodes : 0 .. CountMod - 1, blocks : 0 .. CountMod - 1]
        BY <1>1 DEF TypeOK
      <3>2. free.blocks \in 0 .. CountMod - 1 /\ CountMod \in Nat
        BY <1>1, Counts, Partitions
      <3>3. /\ free.blocks - 1 \in Int /\ free.blocks \in Nat
            /\ free.blocks # 0 => free.blocks - 1 \in 0 .. CountMod - 1
        BY <3>2
      <3>4. /\ Decremented(free.blocks) \in 0 .. CountMod - 1
            /\ free.blocks # 0 => Decremented(free.blocks) = free.blocks - 1
        BY <3>3, Residues DEF Decremented
      <3>5. Decremented(free.blocks) \in Nat
        BY <3>2, <3>4
      <3>6. CASE fresh
        <4>1. free' = [free EXCEPT !.blocks = Decremented(free.blocks)]
          BY <2>1, <3>6
        <4>2. free'.blocks = Decremented(free.blocks) /\ free' \in [inodes : 0 .. CountMod - 1, blocks : 0 .. CountMod - 1]
          BY <3>1, <3>4, <4>1
        <4> QED BY <3>3, <3>4, <3>5, <3>6, <4>2
      <3>7. CASE ~fresh
        BY <2>1, <3>1, <3>3, <3>7
      <3> QED BY <3>6, <3>7
    <2>11. TypeOK'
      <3>1. dmap' \subseteq OldBits \cup Blocks
        BY <1>1, <2>1, <2>6 DEF TypeOK, SetBit
      <3> QED BY <1>1, <2>1, <2>6, <2>8, <2>9, <2>10, <3>1 DEF TypeOK, EntryType
    <2>12. NoOvercommit'
      <3>1. IsFiniteSet(dmap) /\ Cardinality(dmap) \in Nat
        BY <1>1, BitmapTypes, FS_CardinalityType
      <3>2. CASE fresh
        <4>1. dmap' = dmap \cup {w} /\ w \notin dmap
          BY <2>1, <2>3, <3>2 DEF SetBit
        <4>2. IsFiniteSet(dmap') /\ Cardinality(dmap') = Cardinality(dmap) + 1
          BY <3>1, <4>1, FS_AddElement
        <4>3. "overdrawn" \notin lapses' => free.blocks # 0
          BY <2>1, <3>2
        <4>4. "overdrawn" \notin lapses' => free'.blocks + Cardinality(dmap') <= free.blocks + Cardinality(dmap)
          BY <2>10, <3>1, <3>2, <4>2, <4>3
        <4> QED BY <1>1, <2>1, <2>10, <4>2, <4>4, StillPromised
      <3>3. CASE ~fresh
        <4>1. dmap' = dmap /\ lapses \subseteq lapses'
          BY <2>1, <3>3
        <4>2. free'.blocks + Cardinality(dmap') <= free.blocks + Cardinality(dmap)
          BY <2>10, <3>1, <3>3, <4>1
        <4> QED BY <1>1, <2>1, <2>10, <3>1, <4>1, <4>2, StillPromised
      <3> QED BY <3>2, <3>3
    <2>13. \A q \in Dirs(at) : block'[Start(at[q])] = block[Start(at[q])]
      <3> SUFFICES ASSUME NEW q \in Dirs(at) PROVE block'[Start(at[q])] = block[Start(at[q])]
        OBVIOUS
      <3>1. q \in DOMAIN at /\ Mode(at, q) = "dir"
        BY DEF Dirs
      <3>2. ExtentBlocks(at[q]) = {Start(at[q])} /\ Start(at[q]) \in Blocks
        BY <1>1, <1>2, <3>1, DirectoryView, OneBlock
      <3>3. at[q] \in Directories
        BY <1>1, <1>2, DirectoriesAre
      <3>4. Start(at[q]) \in DirectoryBlocks
        BY <3>2, <3>3 DEF DirectoryBlocks
      <3> QED BY <2>6, <3>2, <3>4
    <2>14. ContentsOK(at)'
      <3> SUFFICES ASSUME "behind" \notin lapses' PROVE ContentsOK(at)'
        BY DEF ContentsOK
      <3>1. fresh /\ "behind" \notin lapses
        BY <2>1
      <3>2. w \notin dmap /\ ~HasBlock(at, p) /\ old = 0
        BY <2>3, <3>1
      <3>3. DOMAIN expect = {q \in DOMAIN at : Mode(at, q) = "file"}
        BY <1>2, <3>1 DEF Holds, ContentsOK
      <3>4. p \in DOMAIN expect /\ Len(expect[p]) = 0
        <4>1. p \in DOMAIN expect
          BY <1>4, <3>3
        <4>2. inode[i].size = Len(expect[p])
          BY <1>2, <3>1, <4>1 DEF Holds, ContentsOK, i
        <4> QED BY <3>2, <4>1, <4>2 DEF old
      <3> DEFINE x == Written(expect[p], o, data)
                 U == [ino : Inodes, name : Data \cup {""}]
      <3>5. x \in Seq(U) /\ Len(x) = end /\ \A k \in 1 .. end : x[k] = IF o < k THEN Unit(data[k - o]) ELSE Blank
        BY <1>3, <3>4, FirstWrite
      <3>6. expect' = [expect EXCEPT ![p] = x]
        BY <1>1, <1>6, <2>1
      <3> HIDE DEF x
      <3>7. DOMAIN expect' = DOMAIN expect /\ expect'[p] = x /\ \A q \in DOMAIN expect : q # p => expect'[q] = expect[q]
        BY <3>4, <3>6
      <3>8. \A q \in DOMAIN at : q # p => at[q] \in Inodes /\ at[q] # i
        BY <1>1, <1>2, <1>4, <1>5, InUse DEF PathsOK, i
      <3>9. Mode(at, p)' = "file" /\ \A q \in DOMAIN at : q # p => Mode(at, q)' = Mode(at, q)
        <4>1. inode'[i].mode = "file"
          BY <1>4, <2>8 DEF Mode, i
        <4> QED BY <2>8, <3>8, <4>1 DEF Mode, i
      <3>10. DOMAIN expect' = {q \in DOMAIN at : Mode(at, q)' = "file"}
        BY <1>4, <3>3, <3>7, <3>9
      <3>11. /\ expect'[p] \in Seq(U) /\ inode'[at[p]].size = Len(expect'[p]) /\ inode'[at[p]].size <= EntriesPerBlock
             /\ \A k \in 1 .. Len(expect'[p]) : block'[Start(at[p])'][k - 1] = expect'[p][k]
        <4>1. z = end /\ inode'[i].size = end
          <5>1. z = end
            BY <1>3, <2>5, <3>2 DEF z
          <5> QED BY <2>8, <5>1
        <4>2. Start(i)' = w
          BY <2>9, <3>1 DEF Start
        <4>3. \A k \in 1 .. end : block'[w][k - 1] = IF o < k THEN Unit(data[k - o]) ELSE Blank
          <5> SUFFICES ASSUME NEW k \in 1 .. end PROVE block'[w][k - 1] = IF o < k THEN Unit(data[k - o]) ELSE Blank
            OBVIOUS
          <5>1. /\ k - 1 \in Slots /\ (k - 1) - o + 1 = k - o /\ 0 <= k - 1 /\ k - 1 < o + Len(data)
                /\ (o < k <=> o <= k - 1) /\ (~(o < k) <=> k - 1 < o)
            BY <1>3, <2>5, Partitions
          <5> QED BY <2>6, <3>2, <5>1
        <4> QED BY <1>3, <3>5, <3>7, <4>1, <4>2, <4>3 DEF i
      <3>12. ASSUME NEW q \in DOMAIN expect, q # p
             PROVE  /\ expect'[q] \in Seq(U) /\ inode'[at[q]].size = Len(expect'[q])
                    /\ inode'[at[q]].size <= EntriesPerBlock
                    /\ HasBlock(at, q)' => \A k \in 1 .. Len(expect'[q]) : block'[Start(at[q])'][k - 1] = expect'[q][k]
        <4>1. q \in DOMAIN at /\ expect'[q] = expect[q] /\ inode'[at[q]] = inode[at[q]]
          BY <2>8, <3>3, <3>7, <3>8, <3>12
        <4>2. /\ expect[q] \in Seq(U) /\ inode[at[q]].size = Len(expect[q]) /\ inode[at[q]].size <= EntriesPerBlock
              /\ HasBlock(at, q) => \A k \in 1 .. Len(expect[q]) : block[Start(at[q])][k - 1] = expect[q][k]
          BY <1>2, <3>1, <3>12 DEF Holds, ContentsOK
        <4>3. HasBlock(at, q)' = HasBlock(at, q)
          BY <4>1 DEF HasBlock
        <4>4. HasBlock(at, q) => Start(at[q])' = Start(at[q]) /\ block'[Start(at[q])] = block[Start(at[q])]
          <5>1. HasBlock(at, q) => at[q] \in Extents /\ Start(at[q]) \in dmap /\ Start(at[q]) \in Blocks
            BY <1>1, <1>2, <4>1, InUse
          <5>2. HasBlock(at, q) => extent'[at[q]] = extent[at[q]]
            BY <2>9, <3>8, <3>12, <4>1, <5>1
          <5> QED BY <2>6, <3>2, <5>1, <5>2 DEF Start
        <4> QED BY <4>1, <4>2, <4>3, <4>4
      <3> QED BY <3>4, <3>7, <3>10, <3>11, <3>12 DEF ContentsOK
    <2>15. Holds(at, slot)'
      <3>1. inode'[at[p]].mode = "file" /\ inode'[at[p]].extent_count = 1
        BY <1>4, <2>8 DEF Mode, i
      <3>2. extent'[at[p]].count = 1
            /\ IF HasBlock(at, p) THEN extent'[at[p]].start = Start(at[p]) ELSE extent'[at[p]].start \notin dmap
        <4>1. CASE fresh
          BY <2>3, <2>9, <4>1 DEF i
        <4>2. CASE ~fresh
          <5>1. HasBlock(at, p) /\ extent' = extent
            BY <2>2, <2>9, <4>2
          <5>2. extent[at[p]].count = 1
            BY <1>1, <1>2, <1>4, <5>1, InUse
          <5> QED BY <5>1, <5>2 DEF Start
        <4> QED BY <4>1, <4>2
      <3>3. InImage(extent'[at[p]].start) /\ dmap' = dmap \cup {extent'[at[p]].start}
        <4>1. CASE fresh
          BY <2>1, <2>6, <2>9, <4>1 DEF i, SetBit
        <4>2. CASE ~fresh
          <5>1. HasBlock(at, p) /\ extent' = extent /\ dmap' = dmap
            BY <2>1, <2>2, <2>9, <4>2
          <5>2. InImage(Start(at[p])) /\ Start(at[p]) \in dmap
            BY <1>1, <1>2, <1>4, <5>1, InUse
          <5> QED BY <5>1, <5>2 DEF Start
        <4> QED BY <4>1, <4>2
      <3>4. \A j \in Inodes : j # at[p] => inode'[j] = inode[j]
        BY <2>8 DEF i
      <3>5. \A j \in Extents : j # at[p] => extent'[j] = extent[j]
        BY <2>9 DEF i
      <3>6. at[p] \in Extents /\ UNCHANGED <<imap, size>>
        BY <1>8, <2>1 DEF i
      <3> QED BY <1>1, <1>2, <1>4, <2>13, <2>14, <3>1, <3>2, <3>3, <3>4, <3>5, <3>6, Rewriting
    <2>16. Image' /\ NameStep
      <3>1. inode'[i].mode = inode[i].mode /\ \A j \in Inodes : j # i => inode'[j] = inode[j]
        BY <1>4, <2>8 DEF Mode
      <3>2. Stay(at, at)
        <4>1. \A q \in DOMAIN at : at[q] \in Inodes
          BY <1>5, UsedPaths
        <4> QED BY <3>1, <4>1 DEF Stay, Mode
      <3>3. Ready /\ Ready' /\ formatted'
        BY <1>1, <2>1 DEF Ready
      <3>4. NamesChange
        BY <1>2, <2>15, <3>2 DEF NamesChange
      <3> QED BY <2>15, <3>3, <3>4 DEF Image, NameStep
    <2> QED BY <2>11, <2>12, <2>16 DEF A1fsInv
  <1> QED BY <1>7, <1>8

-----------------------------------------------------------------------------
LEMMA InitInv ==
  ASSUME FilesInit
  PROVE  A1fsInv
  <1>1. /\ size \in ImageSizes /\ formatted = FALSE /\ wild = FALSE
        /\ free = [inodes |-> 0, blocks |-> 0]
        /\ extent = [i \in Extents |-> [start |-> 0, count |-> 0]] /\ expect = <<>>
    BY DEF FilesInit, Init
  <1>2. PICK n \in OldNames :
          /\ magic \in IF n = "" THEN {FALSE} ELSE BOOLEAN
          /\ imap = (IF n = "" THEN {} ELSE OldBits) /\ dmap = imap
          /\ inode = [i \in Inodes |-> [NoInode EXCEPT !.mode = IF n = "" THEN "none" ELSE "dir"]]
          /\ block = [b \in Blocks |-> [x \in Slots |-> Entry(IF n = "" THEN 0 ELSE 1, n)]]
    BY DEF FilesInit, Init
  <1>3. 0 \in 0 .. CountMod - 1 /\ 0 \in Blocks /\ 0 \in Inodes /\ 1 \in Inodes /\ 0 \in Nat /\ 0 \in 0 .. 1
    BY Partitions
  <1>4. TypeOK
    <2>1. free \in [inodes : 0 .. CountMod - 1, blocks : 0 .. CountMod - 1]
      BY <1>1, <1>3
    <2>2. imap \subseteq OldBits \cup Inodes /\ dmap \subseteq OldBits \cup Blocks /\ magic \in BOOLEAN
      BY <1>2
    <2>3. inode \in [Inodes -> [mode : {"none", "dir", "file"}, links : 0 .. CountMod - 1, size : Nat, extent_count : 0 .. 1]]
      <3>1. [NoInode EXCEPT !.mode = IF n = "" THEN "none" ELSE "dir"]
               \in [mode : {"none", "dir", "file"}, links : 0 .. CountMod - 1, size : Nat, extent_count : 0 .. 1]
        BY <1>3 DEF NoInode
      <3> QED BY <1>2, <3>1
    <2>4. extent \in [Extents -> [start : Blocks, count : 0 .. CountMod - 1]]
      BY <1>1, <1>3
    <2>5. block \in [Blocks -> [Slots -> [ino : Inodes, name : Names \cup Data \cup {".", "..", ""}]]]
      <3>1. n \in Names \cup {""}
        BY NamesAssumption
      <3>2. Entry(IF n = "" THEN 0 ELSE 1, n) \in [ino : Inodes, name : Names \cup Data \cup {".", "..", ""}]
        BY <1>3, <3>1 DEF Entry
      <3> QED BY <1>2, <3>2
    <2> QED BY <1>1, <2>1, <2>2, <2>3, <2>4, <2>5 DEF TypeOK
  <1>5. NoOvercommit
    BY <1>1 DEF NoOvercommit
  <1>6. Image
    <2>1. OldNames = {""} => imap = {}
      BY <1>2
    <2> QED BY <1>1, <2>1 DEF Image, Unformatted
  <1> QED BY <1>4, <1>5, <1>6 DEF A1fsInv

LEMMA NextInv ==
  ASSUME A1fsInv, CallsWithinLimits, formatted => FewPaths \/ RoomLeft, [FilesNext]_fileVars
  PROVE  A1fsInv' /\ NameStep
  <1>0. Ready => WithinLimits
    BY DEF Ready, WithinLimits
  <1>1. TypeOK /\ free' = free => free' \in [inodes : 0 .. CountMod - 1, blocks : 0 .. CountMod - 1]
    BY DEF TypeOK
  <1>2. ASSUME UNCHANGED vars, expect' = expect, lapses' = lapses
        PROVE  A1fsInv' /\ NameStep
    BY <1>1, <1>2, SameImage DEF A1fsInv, vars, bitmaps
  <1>3. TypeOK /\ (Ready => wild = FALSE)
    BY DEF A1fsInv, Ready, TypeOK
  <1>4. ASSUME GoWild, expect' = IF wild' THEN <<>> ELSE expect
        PROVE  A1fsInv' /\ NameStep
    <2>1. expect' = <<>>
      BY <1>4 DEF GoWild
    <2> QED BY <1>3, <1>4, <2>1, WildStep
  <1>5. ASSUME FilesOther
        PROVE  A1fsInv' /\ NameStep
    <2>1. expect' = (IF wild' THEN <<>> ELSE expect) /\ lapses' = lapses
      BY <1>5 DEF FilesOther
    <2>2. CASE \E force, zero \in BOOLEAN : Mkfs(force, zero)
      BY <2>1, <2>2, Formatted
    <2>3. ASSUME NEW p \in MkdirPaths, a1fs_mkdir(p)
          PROVE  A1fsInv' /\ NameStep
      <3>1. CASE free.inodes = 0 \/ free.blocks = 0
        <4>1. UNCHANGED vars /\ Ready
          BY <2>3, <3>1 DEF a1fs_mkdir
        <4>2. expect' = expect
          BY <1>3, <2>1, <4>1 DEF vars
        <4> QED BY <1>2, <2>1, <4>1, <4>2
      <3>2. CASE ~(free.inodes = 0 \/ free.blocks = 0)
        <4>1. GoWild \/ \E parent \in path_inode(Parent(p)) : MkdirIn(parent, Last(p))
          BY <2>3, <3>2 DEF a1fs_mkdir
        <4>2. CASE GoWild
          BY <1>4, <2>1, <4>2
        <4>3. CASE \E parent \in path_inode(Parent(p)) : MkdirIn(parent, Last(p))
          BY <1>0, <2>1, <2>3, <3>2, <4>3, Added DEF a1fs_mkdir
        <4> QED BY <4>1, <4>2, <4>3
      <3> QED BY <3>1, <3>2
    <2>4. ASSUME NEW p \in RmdirPaths, a1fs_rmdir(p)
          PROVE  A1fsInv' /\ NameStep
      <3>1. PICK dir \in path_inode(p), parent \in path_inode(Parent(p)) :
              IF NotEmpty(dir) THEN UNCHANGED vars
              ELSE (UsesParentPath(p) /\ GoWild) \/ RmdirIn(dir, parent, Last(p))
        BY <2>4 DEF a1fs_rmdir
      <3>2. Ready /\ Kind(p) = {"dir"}
        BY <2>4 DEF a1fs_rmdir
      <3>3. CASE NotEmpty(dir)
        <4>1. UNCHANGED vars
          BY <3>1, <3>3
        <4>2. expect' = expect
          BY <1>3, <2>1, <3>2, <4>1 DEF vars
        <4> QED BY <1>2, <2>1, <4>1, <4>2
      <3>4. CASE ~NotEmpty(dir) /\ GoWild
        BY <1>4, <2>1, <3>4
      <3>5. CASE ~NotEmpty(dir) /\ RmdirIn(dir, parent, Last(p))
        BY <1>0, <2>1, <3>2, <3>5, Removed
      <3> QED BY <3>1, <3>3, <3>4, <3>5
    <2> QED BY <1>5, <2>2, <2>3, <2>4 DEF FilesOther
  <1>6. ASSUME NEW p \in CreatePaths, FilesCreate(p)
        PROVE  A1fsInv' /\ NameStep
    <2>1. /\ lapses' = lapses /\ Ready /\ CanAdd(p)
          /\ expect' = IF wild' THEN <<>>
                       ELSE IF imap' # imap THEN [q \in DOMAIN expect \cup {p} |-> IF q = p THEN <<>> ELSE expect[q]]
                       ELSE expect
      BY <1>6 DEF FilesCreate, a1fs_create
    <2>2. CASE Decremented(free.inodes) = 0 \/ free.blocks = 0
      <3>1. /\ free' = [free EXCEPT !.inodes = Decremented(@)]
            /\ UNCHANGED <<size, magic, formatted, bitmaps, inode, extent, block, wild>>
        BY <1>6, <2>2 DEF FilesCreate, a1fs_create
      <3>2. imap' = imap /\ dmap' = dmap /\ expect' = expect
        BY <1>3, <2>1, <3>1 DEF bitmaps
      <3>3. free' \in [inodes : 0 .. CountMod - 1, blocks : 0 .. CountMod - 1] /\ free'.blocks = free.blocks
        <4>1. free.inodes \in 0 .. CountMod - 1 /\ CountMod \in Nat
          BY <1>3, Counts, Partitions
        <4>2. free.inodes - 1 \in Int
          BY <4>1
        <4>3. Decremented(free.inodes) \in 0 .. CountMod - 1
          BY <4>2, Residues DEF Decremented
        <4>4. free \in [inodes : 0 .. CountMod - 1, blocks : 0 .. CountMod - 1]
          BY <1>3 DEF TypeOK
        <4>5. free' = [free EXCEPT !.inodes = Decremented(free.inodes)]
          BY <3>1
        <4> QED BY <4>3, <4>4, <4>5
      <3> QED BY <2>1, <3>1, <3>2, <3>3, SameImage
    <2>3. CASE ~(Decremented(free.inodes) = 0 \/ free.blocks = 0)
      <3>1. GoWild \/ \E parent \in path_inode(Parent(p)) : CreateIn(parent, Last(p))
        BY <1>6, <2>3 DEF FilesCreate, a1fs_create
      <3>2. CASE GoWild
        <4>1. expect' = <<>>
          BY <2>1, <3>2 DEF GoWild
        <4> QED BY <1>3, <3>2, <4>1, WildStep
      <3>3. CASE \E parent \in path_inode(Parent(p)) : CreateIn(parent, Last(p))
        BY <1>0, <2>1, <3>3, Created
      <3> QED BY <3>1, <3>2, <3>3
    <2> QED BY <2>2, <2>3
  <1>7. ASSUME NEW p \in UnlinkPaths, FilesUnlink(p)
        PROVE  A1fsInv' /\ NameStep
    <2>1. /\ lapses' = lapses /\ Ready /\ Kind(p) = {"file"}
          /\ expect' = IF wild' THEN <<>> ELSE [q \in DOMAIN expect \ {p} |-> expect[q]]
      BY <1>7 DEF FilesUnlink, a1fs_unlink
    <2>2. PICK file \in path_inode(p), parent \in path_inode(Parent(p)) :
            \/ UsesParentPath(p) /\ GoWild
            \/ IF parent < inode_size /\ LeavesData(parent * InodesPerBlock, parent, Last(p))
               THEN GoWild ELSE UnlinkFrom(file, parent, Last(p))
      BY <1>7 DEF FilesUnlink, a1fs_unlink
    <2> QED BY <1>0, <2>1, <2>2, Unlinked
  <1>8. CASE \E c \in WriteCalls : a1fs_write(c)
    BY <1>0, <1>8, WriteStep DEF a1fs_write
  <1>9. CASE UNCHANGED fileVars
    BY <1>2, <1>9 DEF fileVars
  <1> QED BY <1>5, <1>6, <1>7, <1>8, <1>9 DEF FilesNext

-----------------------------------------------------------------------------
(* How the image is damaged.  A damaged image is not used any more, and    *)
(* data falls on a directory only in a write behind the block of its file. *)
Damage == (wild => ~formatted) /\ ("directory" \in lapses => wild /\ "behind" \in lapses)

DamageStep ==
    \/ UNCHANGED <<formatted, wild, lapses>>
    \/ /\ ~wild /\ (formatted => formatted' \/ wild')
       /\ "directory" \in lapses' => "directory" \in lapses \/ formatted

LEMMA FirstWriteMisses ==
  ASSUME A1fsInv, WithinLimits, formatted, NEW c \in WriteCalls, a1fs_write(c), "directory" \notin lapses
  PROVE  /\ GoWild \/ UNCHANGED <<formatted, wild>>
         /\ "directory" \in lapses' => GoWild /\ "behind" \in lapses'
  <1>1. PICK at, slot : Holds(at, slot)
    BY DEF A1fsInv, Image
  <1> DEFINE p == c.path
             o == c.offset
             data == c.data
             i == at[p]
             fresh == inode[i].extent_count = 0
             w == IF fresh THEN find_next_bit(dmap) ELSE extent[i].start + Signed(extent[i].count)
             old == inode[i].size
             f == Units(w * EntriesPerBlock, old, o, data)
  <1>2. p \in Paths /\ o \in Nat /\ data \in Seq(Data) /\ data # <<>> /\ o + Len(data) <= EntriesPerBlock
    BY FilesAssumption DEF WithinLimits, CallsWithinLimits
  <1>3. /\ path_inode(p) = {i}
        /\ fresh => /\ find_next_bit(dmap) = FreeBit(dmap) /\ old = 0
                    /\ FreeBit(dmap) \in Nat /\ FreeBit(dmap) \notin dmap
    BY <1>1, WhereWritten
  <1>4. IF i \in Extents THEN WriteTo(i, o, data) ELSE GoWild /\ UNCHANGED lapses
    BY <1>3 DEF a1fs_write
  <1>5. CASE i \notin Extents
    BY <1>4, <1>5
  <1>6. CASE i \in Extents
    <2>1. /\ IF Destroys(f) THEN GoWild ELSE UNCHANGED <<formatted, wild>>
          /\ lapses' = lapses \cup (IF ~fresh \/ o + Len(data) > EntriesPerBlock THEN {"behind"} ELSE {})
                              \cup (IF fresh /\ free.blocks = 0 THEN {"overdrawn"} ELSE {})
                              \cup (IF HitsDirectory(f) /\ ~LeavesImage(f) THEN {"directory"} ELSE {})
      BY <1>4, <1>6 DEF WriteTo, Units
    <2>2. ASSUME fresh, HitsDirectory(f) PROVE FALSE
      <3>1. w = FreeBit(dmap) /\ old = 0 /\ w \in Nat /\ w \notin dmap
        BY <1>3, <2>2
      <3> HIDE DEF w, old
      <3>2. PICK a \in DOMAIN f : BlockOf(a) \in DirectoryBlocks
        BY <2>2 DEF HitsDirectory
      <3>3. EntriesPerBlock \in Nat /\ EntriesPerBlock > 0 /\ w * EntriesPerBlock \in Nat
        BY <3>1, Partitions
      <3> DEFINE base == w * EntriesPerBlock
      <3>4. PICK y \in Slots : a = base + y
        <4>1. base \in Nat /\ old \in Nat
          BY <3>1, <3>3
        <4> HIDE DEF base, o, data
        <4>2. InOneBlock(Units(base, old, o, data), base, old, o, data)
          BY <1>2, <4>1, UnitsAre
        <4>3. f = Units(base, old, o, data)
          BY DEF base, o, data
        <4> HIDE DEF f
        <4> QED BY <3>2, <4>2, <4>3 DEF InOneBlock
      <3>5. BlockOf(a) = w
        <4>1. \A x \in Slots : (w * EntriesPerBlock + x) \div EntriesPerBlock = w
          BY <3>1, <3>3, Quotients DEF Slots
        <4> QED BY <3>4, <4>1 DEF BlockOf
      <3>6. BlocksSound
        BY <1>1, HoldsBlocks DEF A1fsInv
      <3>7. DirectoryBlocks \subseteq dmap
        BY <3>6 DEF BlocksSound, DirectoryBlocks, Owners
      <3> QED BY <3>1, <3>2, <3>5, <3>7
    <2>3. HitsDirectory(f) => ~fresh
      BY <2>2
    <2> HIDE DEF f, fresh, o, data
    <2>4. HitsDirectory(f) => Destroys(f) /\ "behind" \in lapses'
      BY <2>1, <2>3 DEF Destroys
    <2>5. "directory" \in lapses' => HitsDirectory(f)
      BY <2>1
    <2> QED BY <2>1, <2>4, <2>5
  <1> QED BY <1>5, <1>6

LEMMA DamageNext ==
  ASSUME A1fsInv, Damage, CallsWithinLimits, formatted => FewPaths \/ RoomLeft, [FilesNext]_fileVars
  PROVE  Damage' /\ DamageStep
  <1>1. CASE UNCHANGED fileVars
    BY <1>1 DEF fileVars, vars, Damage, DamageStep
  <1>2. ASSUME ~wild, lapses' = lapses, GoWild \/ (wild' = wild /\ (formatted => formatted'))
        PROVE  Damage' /\ DamageStep
    BY <1>2 DEF Damage, DamageStep, GoWild
  <1>3. CASE FilesOther
    <2>1. lapses' = lapses
      BY <1>3 DEF FilesOther
    <2>2. ASSUME NEW force, NEW zero, Mkfs(force, zero)
          PROVE  ~wild /\ (GoWild \/ (wild' = wild /\ (formatted => formatted')))
      BY <2>2 DEF Mkfs
    <2>3. ASSUME NEW p, a1fs_mkdir(p)
          PROVE  ~wild /\ (GoWild \/ (wild' = wild /\ (formatted => formatted')))
      BY <2>3 DEF a1fs_mkdir, Ready, MkdirIn, vars
    <2>4. ASSUME NEW p, a1fs_rmdir(p)
          PROVE  ~wild /\ (GoWild \/ (wild' = wild /\ (formatted => formatted')))
      BY <2>4 DEF a1fs_rmdir, Ready, RmdirIn, vars
    <2> QED BY <1>2, <1>3, <2>1, <2>2, <2>3, <2>4 DEF FilesOther
  <1>4. CASE \E p \in CreatePaths : FilesCreate(p)
    BY <1>2, <1>4 DEF FilesCreate, a1fs_create, Ready, CreateIn
  <1>5. CASE \E p \in UnlinkPaths : FilesUnlink(p)
    BY <1>2, <1>5 DEF FilesUnlink, a1fs_unlink, Ready, UnlinkFrom
  <1>6. ASSUME NEW c \in WriteCalls, a1fs_write(c)
        PROVE  Damage' /\ DamageStep
    <2>1. Ready /\ formatted /\ ~wild /\ WithinLimits /\ "directory" \notin lapses
      BY <1>6 DEF a1fs_write, Ready, WithinLimits, Damage
    <2>2. /\ GoWild \/ UNCHANGED <<formatted, wild>>
          /\ "directory" \in lapses' => GoWild /\ "behind" \in lapses'
      BY <1>6, <2>1, FirstWriteMisses
    <2>3. GoWild => wild' /\ ~formatted'
      BY DEF GoWild
    <2>4. CASE GoWild
      BY <2>1, <2>2, <2>3, <2>4 DEF Damage, DamageStep
    <2>5. CASE UNCHANGED <<formatted, wild>> /\ "directory" \notin lapses'
      <3>1. ~wild' /\ formatted'
        BY <2>1, <2>5
      <3> QED BY <2>1, <2>5, <3>1 DEF Damage, DamageStep
    <2> QED BY <2>2, <2>4, <2>5
  <1> QED BY <1>1, <1>3, <1>4, <1>5, <1>6 DEF FilesNext

-----------------------------------------------------------------------------
(* The invariant and what it means for clients, on images of every size.   *)
LEMMA InvImplies ==
  ASSUME A1fsInv, CallsWithinLimits, formatted => FewPaths \/ RoomLeft
  PROVE  TypeOK /\ TreeSound /\ BlocksSound /\ LinksTellEmptiness /\ NoOvercommit
         /\ FirstWritesKept /\ ListingMatchesLookup
  <1>1. TypeOK /\ NoOvercommit
    BY DEF A1fsInv
  <1>2. CASE formatted
    <2>1. PICK at, slot : Holds(at, slot)
      BY <1>2 DEF A1fsInv, Image
    <2>2. WithinLimits
      BY <1>2 DEF WithinLimits
    <2> QED BY <1>1, <2>1, <2>2, HoldsTree, HoldsBlocks, HoldsLinks, HoldsContents, HoldsListing
  <1>3. CASE ~formatted
    BY <1>1, <1>3 DEF TreeSound, BlocksSound, LinksTellEmptiness, FirstWritesKept, FilesKeepContents,
                      ListingMatchesLookup
  <1> QED BY <1>2, <1>3

(* As long as few paths are used, on an image file of any size and with    *)
(* whatever it held before: mkfs.c and the callbacks of a1fs.c keep the    *)
(* bitmaps in step with the entries (TreeSound) and with the extents       *)
(* (BlocksSound); rmdir refuses exactly the directories with entries       *)
(* (LinksTellEmptiness); statfs promises no more blocks than there are     *)
(* (NoOvercommit); a file holds what its first writes gave it              *)
(* (FirstWritesKept); no first write falls on a directory (Directories-    *)
(* Kept); and readdir and the lookup agree (ListingMatchesLookup).         *)
THEOREM A1fsCorrect ==
  ASSUME CallsWithinLimits, FewPaths
  PROVE  FilesSpec => [](TypeOK /\ TreeSound /\ BlocksSound /\ LinksTellEmptiness /\ NoOvercommit
                         /\ FirstWritesKept /\ DirectoriesKept /\ ListingMatchesLookup)
  <1>1. FilesInit => A1fsInv /\ Damage
    BY InitInv DEF FilesInit, Init, Damage
  <1>2. A1fsInv /\ Damage /\ [FilesNext]_fileVars => A1fsInv' /\ Damage'
    BY NextInv, DamageNext
  <1>3. A1fsInv => TypeOK /\ TreeSound /\ BlocksSound /\ LinksTellEmptiness /\ NoOvercommit
                   /\ FirstWritesKept /\ ListingMatchesLookup
    BY InvImplies
  <1>4. Damage => DirectoriesKept
    BY DEF Damage, DirectoriesKept
  <1> QED BY <1>1, <1>2, <1>3, <1>4, PTL DEF FilesSpec

-----------------------------------------------------------------------------
(* The tree of names that clients see, and the paths in use.               *)
Looked ==
    formatted => \A at, slot : Holds(at, slot) =>
        /\ PathsOK(at)
        /\ \A p \in Paths : Kind(p) = IF p \in DOMAIN at THEN {Mode(at, p)} ELSE {}

LEMMA LookedUp ==
  ASSUME A1fsInv, CallsWithinLimits, formatted => FewPaths \/ RoomLeft
  PROVE  Looked
  <1> SUFFICES ASSUME formatted, NEW at, NEW slot, Holds(at, slot), NEW p \in Paths
               PROVE  PathsOK(at) /\ Kind(p) = IF p \in DOMAIN at THEN {Mode(at, p)} ELSE {}
    BY DEF Looked, Holds
  <1>1. TypeOK /\ WithinLimits
    BY DEF A1fsInv, WithinLimits
  <1> QED BY <1>1, Resolve DEF Holds

(* Among paths of two names, what is below a path is in it.                *)
LEMMA BelowIsIn ==
  ASSUME NEW p \in Paths, NEW q \in Tree!Below(p)
  PROVE  q \in Paths /\ Parent(q) = p
  <1>1. q \in Paths /\ Len(q) > Len(p) /\ SubSeq(q, 1, Len(p)) = p
    BY DEF Tree!Below
  <1>2. Len(p) \in 1 .. 2 /\ Len(q) \in 1 .. 2
    BY <1>1, PathFacts
  <1>3. Len(p) = Len(q) - 1
    <2>1. \A a, b \in 1 .. 2 : b > a => a = b - 1
      OBVIOUS
    <2> QED BY <1>1, <1>2, <2>1
  <1> QED BY <1>1, <1>3 DEF Parent

LEMMA TreeStep ==
  ASSUME Looked, Looked', NameStep, Damage, DamageStep
  PROVE  [Tree!TreeNext]_(Tree!treeVars)
  <1> DEFINE old == [p \in Paths |-> IF formatted THEN Kind(p) ELSE {}]
             new == [p \in Paths |-> IF formatted' THEN Kind(p)' ELSE {}]
  <1>1. CASE UNCHANGED <<formatted, wild, inode, extent, block>>
    <2>1. \A p : Kind(p)' = Kind(p)
      BY <1>1 DEF Kind, path_inode, helper, EntryAt, EntryNumbers, ExtentBlocks
    <2>2. wild => lapses' = lapses
      BY DEF DamageStep
    <2>3. CASE wild
      BY <1>1, <2>1, <2>2, <2>3 DEF Tree!treeVars
    <2>4. CASE ~wild
      BY <1>1, <2>1, <2>4 DEF Tree!treeVars
    <2> QED BY <2>3, <2>4
  <1>2. CASE wild' /\ ~formatted'
    <2>1. CASE wild
      <3>1. UNCHANGED <<formatted, wild, lapses>> /\ ~formatted
        BY <2>1 DEF Damage, DamageStep
      <3> QED BY <1>2, <2>1, <3>1 DEF Tree!treeVars
    <2>2. CASE ~wild /\ "directory" \in lapses'
      <3>1. formatted
        BY <2>2 DEF Damage, DamageStep
      <3> QED BY <1>2, <2>2, <3>1 DEF Tree!TreeNext, Tree!Overwrite, Tree!EmptyTree
    <2>3. CASE ~wild /\ "directory" \notin lapses'
      BY <1>2, <2>3 DEF Tree!TreeNext, Tree!Lose, Tree!EmptyTree
    <2> QED BY <2>1, <2>2, <2>3
  <1>3. CASE /\ ~formatted /\ ~wild /\ formatted' /\ ~wild'
             /\ \E at, slot : Holds(at, slot)' /\ Used(at) = {}
    <2>1. PICK at, slot : Holds(at, slot)' /\ Used(at) = {}
      BY <1>3
    <2>2. \A p \in Paths : p \notin DOMAIN at
      BY <2>1, RootPath DEF Used
    <2>3. \A p \in Paths : Kind(p)' = {}
      BY <1>3, <2>1, <2>2 DEF Looked
    <2> QED BY <1>3, <2>3 DEF Tree!TreeNext, Tree!Format, Tree!EmptyTree
  <1>4. CASE Ready /\ Ready' /\ NamesChange
    <2>1. formatted /\ ~wild /\ formatted' /\ ~wild'
      BY <1>4 DEF Ready
    <2>2. PICK at, slot, at2, slot2 :
            /\ Holds(at, slot) /\ Holds(at2, slot2)' /\ Stay(at, at2)
            /\ DOMAIN at2 = DOMAIN at \/ \E p : Comes(at, at2, p) \/ Goes(at, at2, p)
      BY <1>4 DEF NamesChange
    <2>3. \A p \in Paths : /\ Kind(p) = IF p \in DOMAIN at THEN {Mode(at, p)} ELSE {}
                           /\ Kind(p)' = IF p \in DOMAIN at2 THEN {Mode(at2, p)'} ELSE {}
      BY <2>1, <2>2 DEF Looked
    <2>4. PathsOK(at)
      BY <2>1, <2>2 DEF Looked
    <2>5. \A p \in Paths : (p \in DOMAIN at2 <=> p \in DOMAIN at) => Kind(p)' = Kind(p)
      BY <2>2, <2>3 DEF Stay
    <2>6. CASE DOMAIN at2 = DOMAIN at
      <3>1. \A p \in Paths : Kind(p)' = Kind(p)
        BY <2>5, <2>6
      <3> QED BY <2>1, <3>1 DEF Tree!treeVars
    <2>7. ASSUME NEW p \in Paths, \A q \in Paths \ {p} : Kind(q)' = Kind(q),
                 Tree!Added(old, new, p) \/ Tree!Removed(old, new, p)
          PROVE  [Tree!TreeNext]_(Tree!treeVars)
      <3>1. \A q \in Paths \ {p} : new[q] = old[q]
        BY <2>1, <2>7
      <3> HIDE DEF old, new
      <3>2. Tree!OnePath(old, new)
        BY <2>7, <3>1 DEF Tree!OnePath
      <3> QED BY <2>1, <3>2 DEF Tree!TreeNext, Tree!ChangeOnePath, old, new
    <2>8. ASSUME NEW p, Comes(at, at2, p)
          PROVE  [Tree!TreeNext]_(Tree!treeVars)
      <3>1. /\ p \in Paths /\ p \notin DOMAIN at /\ DOMAIN at2 = DOMAIN at \cup {p}
            /\ Parent(p) \in DOMAIN at /\ Mode(at, Parent(p)) = "dir" /\ Parent(p) \in Paths \cup {Root}
        BY <2>4, <2>8, UsedPaths, PathFacts DEF Comes
      <3>2. Kind(p) = {} /\ Kind(p)' = {Mode(at2, p)'} /\ (Parent(p) \in Paths => Kind(Parent(p)) = {"dir"})
        BY <2>3, <3>1
      <3>3. old[p] = {} /\ new[p] # {} /\ (Parent(p) = <<>> \/ old[Parent(p)] = {"dir"})
        BY <2>1, <3>1, <3>2 DEF Root
      <3>4. Tree!Added(old, new, p)
        BY <3>3 DEF Tree!Added, Tree!IsDirectory, Tree!Above, Parent
      <3> QED BY <2>5, <2>7, <3>1, <3>4
    <2>9. ASSUME NEW p, Goes(at, at2, p)
          PROVE  [Tree!TreeNext]_(Tree!treeVars)
      <3>1. /\ p \in Paths /\ p \in DOMAIN at /\ DOMAIN at2 = DOMAIN at \ {p} /\ \A q \in Used(at) : Parent(q) # p
        BY <2>4, <2>9, UsedPaths DEF Goes
      <3>2. Kind(p) = {Mode(at, p)} /\ Kind(p)' = {}
        BY <2>3, <3>1
      <3>3. old[p] # {} /\ new[p] = {}
        BY <2>1, <3>1, <3>2
      <3>4. ASSUME NEW q \in Tree!Below(p) PROVE old[q] = {}
        <4>1. q \in Paths /\ Parent(q) = p
          BY <3>1, BelowIsIn
        <4>2. q \notin DOMAIN at
          BY <3>1, <4>1, RootPath DEF Used
        <4>3. Kind(q) = {}
          BY <2>3, <4>1, <4>2
        <4> QED BY <4>1, <4>3
      <3>5. Tree!Removed(old, new, p)
        BY <3>3, <3>4 DEF Tree!Removed
      <3> QED BY <2>5, <2>7, <3>1, <3>5
    <2> QED BY <2>2, <2>6, <2>8, <2>9
  <1> QED BY <1>1, <1>2, <1>3, <1>4 DEF NameStep

(* The callbacks of a1fs.c, and mkfs.c, implement a tree of names: mkfs    *)
(* makes it, once, and after that, seen through the lookups that clients   *)
(* make, each call leaves the tree as it is, adds one entry to a           *)
(* directory, or removes a file or a directory with nothing in it, and no  *)
(* other path changes, although entries move within their directory and    *)
(* inodes and blocks change hands.  That ends for good with a call that    *)
(* damages the image; a write of data over a directory's entries (1083) is *)
(* told apart from the others, and DirectoriesKept says where it can come  *)
(* from.                                                                   *)
THEOREM A1fsImplementsTree ==
  ASSUME CallsWithinLimits, FewPaths
  PROVE  FilesSpec => ImplementsTree
  <1>1. FilesInit => A1fsInv /\ Damage /\ Tree!TreeInit
    <2>1. FilesInit => Tree!TreeInit
      BY DEF FilesInit, Init, Tree!TreeInit, Tree!EmptyTree
    <2>2. FilesInit => Damage
      BY DEF FilesInit, Init, Damage
    <2> QED BY <2>1, <2>2, InitInv
  <1>2. A1fsInv /\ Damage /\ [FilesNext]_fileVars
            => A1fsInv' /\ Damage' /\ NameStep /\ DamageStep
    BY NextInv, DamageNext
  <1>3. A1fsInv => Looked
    BY LookedUp
  <1>4. Looked /\ Looked' /\ Damage /\ NameStep /\ DamageStep => [Tree!TreeNext]_(Tree!treeVars)
    BY TreeStep
  <1> QED BY <1>1, <1>2, <1>3, <1>4, PTL DEF FilesSpec, ImplementsTree, Tree!TreeSpec

(* All of this for any paths, while the bitmaps have a free bit in their   *)
(* first byte, the only one that mkdir, create and write mark, and no      *)
(* directory has filled its block.                                         *)
THEOREM A1fsCorrectWithRoom ==
  ASSUME CallsWithinLimits
  PROVE  FilesSpec /\ [](formatted => RoomLeft)
            => /\ [](TypeOK /\ TreeSound /\ BlocksSound /\ LinksTellEmptiness /\ NoOvercommit
                     /\ FirstWritesKept /\ DirectoriesKept /\ ListingMatchesLookup)
               /\ ImplementsTree
  <1>1. FilesInit => A1fsInv /\ Damage /\ Tree!TreeInit
    <2>1. FilesInit => Tree!TreeInit
      BY DEF FilesInit, Init, Tree!TreeInit, Tree!EmptyTree
    <2>2. FilesInit => Damage
      BY DEF FilesInit, Init, Damage
    <2> QED BY <2>1, <2>2, InitInv
  <1>2. A1fsInv /\ Damage /\ (formatted => RoomLeft) /\ [FilesNext]_fileVars
            => A1fsInv' /\ Damage' /\ NameStep /\ DamageStep
    BY NextInv, DamageNext
  <1>3. A1fsInv /\ (formatted => RoomLeft)
            => /\ TypeOK /\ TreeSound /\ BlocksSound /\ LinksTellEmptiness /\ NoOvercommit
               /\ FirstWritesKept /\ ListingMatchesLookup
               /\ Looked
    BY InvImplies, LookedUp
  <1>4. Looked /\ Looked' /\ Damage /\ NameStep /\ DamageStep => [Tree!TreeNext]_(Tree!treeVars)
    BY TreeStep
  <1>5. Damage => DirectoriesKept
    BY DEF Damage, DirectoriesKept
  <1> QED BY <1>1, <1>2, <1>3, <1>4, <1>5, PTL DEF FilesSpec, ImplementsTree, Tree!TreeSpec
=============================================================================
