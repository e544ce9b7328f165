-------------------------------- MODULE A1fs --------------------------------
(***************************************************************************)
(* The file system image of a1_filesystem: how mkfs.c formats it, and how  *)
(* the directory callbacks of a1fs.c change it.  FUSE runs one callback at *)
(* a time (options.c passes -s), so a callback is one step.                *)
(*                                                                         *)
(* A block holds EntriesPerBlock directory entries, which are the unit of  *)
(* size here.  A bitmap is the set of its bits that are 1.  Directories    *)
(* and files have one extent at most: nothing in these callbacks adds one. *)
(* A1fsFiles adds the contents of files and the next-state relation.       *)
(***************************************************************************)
EXTENDS Integers, Sequences, FiniteSets, FiniteSetsExt

CONSTANTS
    Names,            \* path components
    Data,             \* what clients write to files, in the unit of size
    ImageSizes,       \* sizes of the image file, in blocks
    NInodes,          \* the argument -i of mkfs
    EntriesPerBlock,  \* A1FS_BLOCK_SIZE / sizeof(a1fs_dentry), 16
    InodesPerBlock,   \* A1FS_BLOCK_SIZE / sizeof(a1fs_inode), 64
    BitsPerByte,      \* 8
    BitsPerWord,      \* bits of the int "start" that mkfs copies over a bitmap, 32
    CountMod,         \* unsigned int and uint32_t count modulo this, 2^32
    OldNames,         \* what an image file may hold before: "" for zeros, or a name
    MkdirPaths, CreatePaths, RmdirPaths, UnlinkPaths  \* paths used in calls

Paths == {<<n>> : n \in Names} \cup {<<m, n>> : m, n \in Names}

(* The partitions of the image; one block for the inode bitmap.            *)
start_inode == 1 + 3
inode_size == NInodes \div InodesPerBlock + 1
start_extent == start_inode + inode_size
start_data == start_extent + NInodes

Inodes == 0 .. InodesPerBlock * inode_size - 1    \* slots of the inode table
Extents == 0 .. NInodes - 1                       \* one extent block each
Blocks == 0 .. Max(ImageSizes) - start_data       \* data blocks
Slots == 0 .. EntriesPerBlock - 1

ASSUME A1fsAssumption ==
    /\ NInodes \in Nat \ {0} /\ ImageSizes \subseteq Nat \ {0}
    /\ {EntriesPerBlock, InodesPerBlock, BitsPerByte, BitsPerWord, CountMod} \subseteq Nat
    /\ EntriesPerBlock > 2 /\ InodesPerBlock > 0 /\ BitsPerByte > 0 /\ BitsPerWord >= BitsPerByte
    /\ CountMod > EntriesPerBlock /\ CountMod > NInodes /\ \A s \in ImageSizes : CountMod > s - start_data
    /\ \E m \in ImageSizes : m >= start_data /\ \A s \in ImageSizes : s <= m  \* the tables fit in the largest

ASSUME NamesAssumption ==
    /\ IsFiniteSet(Names) /\ OldNames \subseteq Names \cup {""}
    /\ {".", "..", ""} \cap Names = {} /\ Data \cap (Names \cup {".", "..", ""}) = {}
    /\ MkdirPaths \cup CreatePaths \cup RmdirPaths \cup UnlinkPaths \subseteq Paths

VARIABLES
    size,     \* blocks in the image file
    magic,    \* the superblock holds A1FS_MAGIC
    formatted,   \* mkfs has run; the file system is mounted from then on
    free,     \* free_inodes_count and free_blocks_count of the superblock
    imap, dmap,  \* the inode bitmap and the data bitmap
    inode,    \* the inode table
    extent,   \* the first extent in each inode's extent block
    block,    \* the data blocks, as directory entries
    wild      \* the bytes of the image are not followed any more

bitmaps == <<imap, dmap>>
vars == <<size, magic, formatted, free, bitmaps, inode, extent, block, wild>>

Blank == [ino |-> 0, name |-> ""]
NoInode == [mode |-> "none", links |-> 0, size |-> 0, extent_count |-> 0]
ZeroBlocks == [b \in Blocks |-> [x \in Slots |-> Blank]]
Entry(i, n) == [ino |-> i, name |-> n]

(* modify: a bit of a bitmap becomes 1, or 0.                              *)
SetBit(map, index) == map \cup {index}
ClearBits(map, indices) == map \ indices

(* The search for a free bit, and the bit mkdir and create then set: they  *)
(* pass the place j in the byte where the search ended, not the index.     *)
FreeBit(map) == Min({i \in 0 .. Cardinality(map) : i \notin map})
TakeFreeBit(map) == SetBit(map, FreeBit(map) % BitsPerByte)

(* a1fs_extent.count read into an int.                                     *)
Signed(c) == IF c < CountMod \div 2 THEN c ELSE c - CountMod
ExtentBlocks(i) ==
    IF inode[i].extent_count = 0 THEN {}
    ELSE extent[i].start .. extent[i].start + Signed(extent[i].count) - 1
LastBlock(i) == extent[i].start + Signed(extent[i].count) - 1

-----------------------------------------------------------------------------
(* helper: the entries of a directory, of which the last with the name     *)
(* counts.  path_inode: a walk from the root.  Both give the inode found,  *)
(* as a set that is empty for -ENOENT and -ENOTDIR.                        *)
EntryNumbers(i) ==
    {e \in 0 .. inode[i].size - 1 : e < Cardinality(ExtentBlocks(i)) * EntriesPerBlock}
EntryAt(i, e) == block[extent[i].start + e \div EntriesPerBlock][e % EntriesPerBlock]
helper(i, n) ==
    {EntryAt(i, e).ino : e \in {f \in EntryNumbers(i) :
        /\ EntryAt(i, f).name = n
        /\ \A g \in EntryNumbers(i) : g > f => EntryAt(i, g).name # n}}

path_inode(p) ==
    CASE Len(p) = 0 -> {0}
      [] Len(p) = 1 -> helper(0, p[1])
      [] OTHER -> UNION {helper(i, p[2]) : i \in {j \in helper(0, p[1]) : inode[j].mode = "dir"}}

Parent(p) == SubSeq(p, 1, Len(p) - 1)
Last(p) == p[Len(p)]
Kind(p) == {inode[i].mode : i \in path_inode(p)}

(* FUSE calls getattr first: the path is new and its parent a directory,   *)
(* or the path exists and is of the right kind.                            *)
CanAdd(p) == Kind(p) = {} /\ Kind(Parent(p)) = {"dir"}
Ready == formatted /\ ~wild

(* Nothing is known of the image any more: the program has used bytes that *)
(* are not initialised or an address outside the image, or it has used a   *)
(* place in one partition as if it were in another, or written data of a   *)
(* file over a directory.                                                  *)
GoWild ==
    /\ wild' = TRUE /\ magic' = FALSE /\ formatted' = FALSE
    /\ free' = [inodes |-> 0, blocks |-> 0] /\ imap' = {} /\ dmap' = {}
    /\ inode' = [i \in Inodes |-> NoInode]
    /\ extent' = [i \in Extents |-> [start |-> 0, count |-> 0]]
    /\ block' = ZeroBlocks /\ UNCHANGED size

-----------------------------------------------------------------------------
(* mkfs and main of mkfs.c.  The bitmap of the inodes is reset by the copy *)
(* of one word, that of the data is zeroed first; the free counts are      *)
(* decremented after the superblock has been copied.  Without -z the       *)
(* tables and the data keep what they held.                                *)
(* Mutant: the count forgets the extent blocks.                            *)
MutantCountsExtents == (size - (start_extent + 3)) % CountMod
InitialFreeBlocks == (size - (start_extent + NInodes + 3)) % CountMod
InImage(b) == b >= 0 /\ start_data + b < size
Mkfs(force, zero) ==
    /\ ~formatted /\ ~wild /\ (force \/ ~magic)
    /\ IF ~InImage(0) THEN GoWild
       ELSE LET oldInode == IF zero THEN [i \in Inodes |-> NoInode] ELSE inode
                oldExtent == IF zero THEN [i \in Extents |-> [start |-> 0, count |-> 0]] ELSE extent
                oldBlock == IF zero THEN ZeroBlocks ELSE block
            IN /\ magic' = TRUE /\ formatted' = TRUE
               /\ free' = [inodes |-> NInodes, blocks |-> InitialFreeBlocks]
               /\ imap' = SetBit(IF zero THEN {} ELSE {i \in imap : i >= BitsPerWord}, 0)
               /\ dmap' = SetBit({}, 0)
               /\ inode' = [oldInode EXCEPT ![0] =
                     [mode |-> "dir", links |-> 2, size |-> 2, extent_count |-> 1]]
               /\ extent' = [oldExtent EXCEPT ![0] = [start |-> 0, count |-> 1]]
               /\ block' = [oldBlock EXCEPT ![0][0] = Entry(0, "."), ![0][1] = Entry(0, "..")]
               /\ UNCHANGED <<size, wild>>

-----------------------------------------------------------------------------
(* In the callbacks parent_path is filled by strncpy, which leaves it      *)
(* unterminated, and is not initialised.  It is the path of the parent if  *)
(* the next byte on the stack is zero (for mkdir and create in the root:   *)
(* if no slash comes before a zero byte), and anything otherwise, hence    *)
(* the alternative GoWild.  rmdir and unlink do not use it in the root.    *)
UsesParentPath(p) == Len(p) > 1

(* The common end of mkdir and create: the entry is written behind the     *)
(* last one of the parent's last block, modulo the block size.             *)
Appended(blocks, parent, i, n) ==
    [blocks EXCEPT ![LastBlock(parent)][inode[parent].size % EntriesPerBlock] = Entry(i, n)]
(* Mutant: only a subdirectory counts as a link.                           *)
MutantDirectoriesOnly(rec, kind) ==
    [rec EXCEPT !.size = @ + 1, !.links = IF kind = "dir" THEN @ + 1 ELSE @]
Grown(rec, kind) == [rec EXCEPT !.size = @ + 1, !.links = @ + 1]
(* The counters are unsigned.  Mutant: they are not.                       *)
MutantSigned(n) == n - 1
Decremented(n) == (n - 1) % CountMod

MkdirIn(parent, n) ==
    LET i == FreeBit(imap)
        d == FreeBit(dmap)
    IN IF i \notin Extents \/ ~InImage(d) \/ ~InImage(LastBlock(parent)) THEN GoWild
       ELSE /\ imap' = TakeFreeBit(imap) /\ dmap' = TakeFreeBit(dmap)
            /\ inode' = [inode EXCEPT ![parent] = Grown(@, "dir"), ![i] =
                  [mode |-> "dir", links |-> 2, size |-> 2, extent_count |-> 1]]
            /\ extent' = [extent EXCEPT ![i] = [start |-> d, count |-> 1]]
            /\ block' = Appended([block EXCEPT ![d][0] = Entry(i, "."), ![d][1] = Entry(parent, "..")],
                                 parent, i, n)
            /\ free' = [inodes |-> Decremented(free.inodes), blocks |-> Decremented(free.blocks)]
            /\ UNCHANGED <<size, magic, formatted, wild>>

a1fs_mkdir(p) ==
    /\ Ready /\ CanAdd(p)
    /\ IF free.inodes = 0 \/ free.blocks = 0
       THEN UNCHANGED vars  \* ENOMEM
       ELSE GoWild \/ \E parent \in path_inode(Parent(p)) : MkdirIn(parent, Last(p))

(* create takes the inode off the free count before it looks at it.        *)
CreateIn(parent, n) ==
    LET i == FreeBit(imap)
    IN IF i \notin Inodes \/ ~InImage(LastBlock(parent)) THEN GoWild
       ELSE /\ imap' = TakeFreeBit(imap)
            /\ inode' = [inode EXCEPT ![parent] = Grown(@, "file"), ![i] =
                  [mode |-> "file", links |-> 1, size |-> 0, extent_count |-> 0]]
            /\ block' = Appended(block, parent, i, n)
            /\ free' = [free EXCEPT !.inodes = Decremented(@)]
            /\ UNCHANGED <<size, magic, formatted, dmap, extent, wild>>

a1fs_create(p) ==
    /\ Ready /\ CanAdd(p)
    /\ IF Decremented(free.inodes) = 0 \/ free.blocks = 0
       THEN /\ free' = [free EXCEPT !.inodes = Decremented(@)]  \* ENOMEM
            /\ UNCHANGED <<size, magic, formatted, bitmaps, inode, extent, block, wild>>
       ELSE GoWild \/ \E parent \in path_inode(Parent(p)) : CreateIn(parent, Last(p))

-----------------------------------------------------------------------------
(* The search of rmdir and unlink for the entry: all the slots of the      *)
(* blocks of parent, if the inode k that stands for it has an extent.      *)
Matches(k, parent, n) ==
    IF inode[k].extent_count = 0 THEN {}
    ELSE {f \in (extent[parent].start .. LastBlock(parent)) \X Slots : block[f[1]][f[2]].name = n}
First(places) == CHOOSE f \in places : \A g \in places : f[1] < g[1] \/ (f[1] = g[1] /\ f[2] <= g[2])

(* The last entry moves to the place of the removed one; (size % block) is *)
(* taken for the number of entries in the last block.  The address of the  *)
(* last entry is counted in entries from the start of the data.            *)
LastEntryAt(k, parent) ==
    LastBlock(parent) * EntriesPerBlock + (inode[k].size % EntriesPerBlock) - 1
IsLast(k, place) == place[2] = (inode[k].size % EntriesPerBlock) - 1
(* Mutant: the last entry stays where it is.                               *)
MutantForgetsMove(k, parent, n) == block
MovedLast(k, parent, n) ==
    LET place == First(Matches(k, parent, n))
        a == LastEntryAt(k, parent)
    IN IF Matches(k, parent, n) = {} \/ IsLast(k, place) THEN block
       ELSE [block EXCEPT ![place[1]][place[2]] = block[a \div EntriesPerBlock][a % EntriesPerBlock]]
(* Mutant: the directory keeps its size.                                   *)
MutantKeepsSize(k, parent, n) == 0
Shrunk(k, parent, n) == IF Matches(k, parent, n) = {} THEN 0 ELSE 1
LeavesData(k, parent, n) ==
    Matches(k, parent, n) # {} /\ ~IsLast(k, First(Matches(k, parent, n))) /\ LastEntryAt(k, parent) < 0

(* The data bits are cleared, the blocks not added to free_blocks_count.   *)
DataMapWithout(dir) == ClearBits(dmap, ExtentBlocks(dir))
RmdirIn(dir, parent, n) ==
    IF LeavesData(parent, parent, n) THEN GoWild
    ELSE /\ imap' = ClearBits(imap, {dir}) /\ dmap' = DataMapWithout(dir)
         /\ free' = [free EXCEPT !.inodes = (@ + 1) % CountMod]
         /\ block' = MovedLast(parent, parent, n)
         /\ inode' = [inode EXCEPT ![parent].size = @ - Shrunk(parent, parent, n),
                                   ![parent].links = (@ - Shrunk(parent, parent, n)) % CountMod]
         /\ UNCHANGED <<size, magic, formatted, extent, wild>>

(* Mutant: the directory is taken for empty whatever it holds.             *)
MutantNeverRefuses(dir) == FALSE
NotEmpty(dir) == inode[dir].links # 2
a1fs_rmdir(p) ==
    /\ Ready /\ Kind(p) = {"dir"}
    /\ \E dir \in path_inode(p), parent \in path_inode(Parent(p)) :
          IF NotEmpty(dir) THEN UNCHANGED vars  \* ENOTEMPTY
          ELSE (UsesParentPath(p) /\ GoWild) \/ RmdirIn(dir, parent, Last(p))

(* unlink computes the address of the parent's inode as if every inode had *)
(* a block: it is the inode InodesPerBlock * parent while that is in the   *)
(* table, and beyond the table an extent block, of which the field links   *)
(* overlays the count of the first extent and all other fields are zero.   *)
UnlinkFrom(file, parent, n) ==
    /\ imap' = ClearBits(imap, {file}) /\ dmap' = ClearBits(dmap, ExtentBlocks(file))
    /\ free' = [inodes |-> (free.inodes + 1) % CountMod,
                blocks |-> (free.blocks + Cardinality(ExtentBlocks(file))) % CountMod]
    /\ IF parent < inode_size
       THEN LET k == parent * InodesPerBlock
            IN /\ block' = MovedLast(k, parent, n)
               /\ inode' = [inode EXCEPT ![k].links = Decremented(@), ![k].size = @ - Shrunk(k, parent, n)]
               /\ UNCHANGED extent
       ELSE /\ extent' = [extent EXCEPT ![parent - inode_size].count = Decremented(@)]
            /\ UNCHANGED <<inode, block>>
    /\ UNCHANGED <<size, magic, formatted, wild>>

a1fs_unlink(p) ==
    /\ Ready /\ Kind(p) = {"file"}
    /\ \E file \in path_inode(p), parent \in path_inode(Parent(p)) :
          \/ UsesParentPath(p) /\ GoWild
          \/ IF parent < inode_size /\ LeavesData(parent * InodesPerBlock, parent, Last(p))
             THEN GoWild ELSE UnlinkFrom(file, parent, Last(p))

-----------------------------------------------------------------------------
(* The image file, before mkfs: zeros, or what an earlier file system left *)
(* in it, here with all bits set and the same entry everywhere.  The file  *)
(* is formatted once.                                                      *)
OldBits == 0 .. BitsPerWord + 1
Init ==
    /\ size \in ImageSizes /\ formatted = FALSE /\ wild = FALSE
    /\ free = [inodes |-> 0, blocks |-> 0]
    /\ extent = [i \in Extents |-> [start |-> 0, count |-> 0]]
    /\ \E n \in OldNames :
          /\ magic \in IF n = "" THEN {FALSE} ELSE BOOLEAN
          /\ imap = (IF n = "" THEN {} ELSE OldBits) /\ dmap = imap
          /\ inode = [i \in Inodes |-> [NoInode EXCEPT !.mode = IF n = "" THEN "none" ELSE "dir"]]
          /\ block = [b \in Blocks |-> [x \in Slots |-> Entry(IF n = "" THEN 0 ELSE 1, n)]]

-----------------------------------------------------------------------------
(* The types of the image: superblock, bitmaps, inodes, extents, entries.  *)
TypeOK ==
    /\ size \in ImageSizes /\ magic \in BOOLEAN /\ formatted \in BOOLEAN /\ wild \in BOOLEAN
    /\ free \in [inodes : 0 .. CountMod - 1, blocks : 0 .. CountMod - 1]
    /\ imap \subseteq OldBits \cup Inodes /\ dmap \subseteq OldBits \cup Blocks
    /\ inode \in [Inodes -> [mode : {"none", "dir", "file"}, links : 0 .. CountMod - 1,
                             size : Nat, extent_count : 0 .. 1]]
    /\ extent \in [Extents -> [start : Blocks, count : 0 .. CountMod - 1]]
    /\ block \in [Blocks -> [Slots -> [ino : Inodes, name : Names \cup Data \cup {".", "..", ""}]]]

(* The directories of the tree, from the root, and the entries in them     *)
(* that are not "." or "..".                                               *)
Children(i) == {e \in EntryNumbers(i) : EntryAt(i, e).name \notin {".", ".."}}
Subdirectories(i) == {j \in {EntryAt(i, e).ino : e \in Children(i)} : inode[j].mode = "dir"}
Directories == {0} \cup Subdirectories(0) \cup UNION {Subdirectories(i) : i \in Subdirectories(0)}
Named == UNION {{[dir |-> d, at |-> e, ino |-> EntryAt(d, e).ino] : e \in Children(d)} : d \in Directories}

(* The allocated inodes are the root and exactly the inodes that entries   *)
(* name, each named once; and ".." of a directory names the one it is in.  *)
(* mkdir, create, rmdir and unlink keep bitmap and entries in step.        *)
TreeSound ==
    formatted =>
        /\ imap \cap Inodes = {0} \cup {e.ino : e \in Named}
        /\ \A e, f \in Named : e.ino = f.ino => e = f
        /\ \A e \in Named : inode[e.ino].mode = "dir" =>
              helper(e.ino, ".") = {e.ino} /\ helper(e.ino, "..") = {e.dir}

(* The data bitmap marks exactly the blocks of the directories and files,  *)
(* and no block belongs to two of them: what mkdir and write take, rmdir   *)
(* and unlink give back.                                                   *)
Owners == Directories \cup {e.ino : e \in Named}
BlocksSound ==
    formatted =>
        /\ dmap = UNION {ExtentBlocks(i) : i \in Owners}
        /\ \A i, j \in Owners : ExtentBlocks(i) \cap ExtentBlocks(j) # {} => i = j

(* rmdir takes a count of links above 2 for a sign that the directory has  *)
(* entries: it refuses exactly the directories that have some, although    *)
(* links and entries are updated in different places.                      *)
LinksTellEmptiness == formatted => \A d \in Directories : inode[d].links = 2 <=> Children(d) = {}
=============================================================================
