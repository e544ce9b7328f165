------------------------------ MODULE A1fsFiles -----------------------------
(***************************************************************************)
(* The callbacks of a1fs.c for the contents of files: write, read and      *)
(* truncate, on the image of module A1fs.  Sizes and offsets are counted   *)
(* in the unit of A1fs, of which a block holds EntriesPerBlock; a unit of  *)
(* user data is an entry with a name in Data, zeros are the entry Blank.   *)
(***************************************************************************)
EXTENDS A1fs

CONSTANTS
    WriteCalls,     \* [path, offset, data]; one call stays within a block of the file
    TruncateCalls,  \* [path, size]
    MaxAfter        \* bound on the calls after the first lapse

ASSUME FilesAssumption ==
    /\ \A c \in WriteCalls :
          /\ c.path \in Paths /\ c.offset \in Nat /\ c.data \in Seq(Data) /\ c.data # <<>>
          /\ (c.offset + Len(c.data) - 1) \div EntriesPerBlock = c.offset \div EntriesPerBlock
    /\ \A c \in TruncateCalls : c.path \in Paths /\ c.size \in Nat
    /\ MaxAfter \in Nat

VARIABLES
    expect,  \* history: the contents of each file that clients have created, by its path
    lapses,  \* history: what the code does not guard against and has happened:
             \* "behind" a write outside the file's block, "overdrawn" a write
             \* that took a block when none was counted as free, "directory" a
             \* write of data over the entries of a directory
    after    \* history: the calls since the first lapse

fileVars == <<vars, expect, lapses, after>>

(* A place in the data partition, and what is there.                       *)
BlockOf(a) == a \div EntriesPerBlock
At(a) == block[BlockOf(a)][a % EntriesPerBlock]
Unit(v) == Entry(0, v)

(* The blocks with the units at the places in the domain of f replaced.    *)
Overwritten(f) ==
    [b \in Blocks |-> [x \in Slots |->
        IF b * EntriesPerBlock + x \in DOMAIN f THEN f[b * EntriesPerBlock + x] ELSE block[b][x]]]

(* Data written over the entries of a directory is still an array of       *)
(* entries to the other callbacks, which can name any inode.               *)
DirectoryBlocks == UNION {ExtentBlocks(d) : d \in Directories}
LeavesImage(f) == \E a \in DOMAIN f : ~InImage(BlockOf(a))
HitsDirectory(f) == \E a \in DOMAIN f : BlockOf(a) \in DirectoryBlocks /\ f[a] # Blank
Destroys(f) == LeavesImage(f) \/ HitsDirectory(f)

(* find_next_bit returns the place in the byte.  Mutant: the bit before.   *)
MutantBitBefore(map) == (FreeBit(map) - 1) % BitsPerByte
find_next_bit(map) == FreeBit(map) % BitsPerByte

-----------------------------------------------------------------------------
(* a1fs_read: one unit at an offset.  The block is the first of the extent *)
(* where the loop stops; start is not initialised for a file without       *)
(* extents (the empty set).                                                *)
a1fs_read(i, offset) ==
    IF offset > inode[i].size \/ inode[i].extent_count = 0 THEN {}
    ELSE {At(extent[i].start * EntriesPerBlock + (offset % EntriesPerBlock))}

(* a1fs_readdir: the names in a directory, in order.  a1fs_statfs: the     *)
(* counts of the superblock.                                               *)
a1fs_readdir(d) == [e \in EntryNumbers(d) |-> EntryAt(d, e).name]
a1fs_statfs == [f_bfree |-> free.blocks, f_ffree |-> free.inodes]

-----------------------------------------------------------------------------
(* a1fs_write.  The first write to a file takes a block for it; later ones *)
(* go to the block behind its extent.                                      *)
(* Mutant: the gap between the old end of the file and the offset is not   *)
(* filled.                                                                 *)
MutantNoFill(base, old, offset) == {}
Gap(base, old, offset) == base + old .. base + offset - 1

(* Mutant: the block is not marked in the bitmap.                          *)
MutantUnmarked(w) == dmap
DataMapWith(w) == SetBit(dmap, w)

WriteTo(file, offset, data) ==
    LET fresh == inode[file].extent_count = 0
        w == IF fresh THEN find_next_bit(dmap) ELSE extent[file].start + Signed(extent[file].count)
        base == w * EntriesPerBlock
        old == inode[file].size
        end == offset + Len(data)
        written == base + offset .. base + end - 1
        f == [a \in Gap(base, old, offset) \cup written |->
                 IF a \in written THEN Unit(data[a - base - offset + 1]) ELSE Blank]
    IN /\ IF Destroys(f) THEN GoWild
          ELSE /\ block' = Overwritten(f)
               /\ dmap' = IF fresh THEN DataMapWith(w) ELSE dmap
               /\ extent' = IF fresh THEN [extent EXCEPT ![file] = [start |-> w, count |-> 1]] ELSE extent
               /\ free' = IF fresh THEN [free EXCEPT !.blocks = Decremented(@)] ELSE free
               /\ inode' = [inode EXCEPT ![file].extent_count = 1,
                                         ![file].size = IF offset > old THEN old + end
                                                        ELSE IF end > old THEN end ELSE old]
               /\ UNCHANGED <<size, magic, formatted, imap, wild>>
       /\ lapses' = lapses \cup (IF ~fresh \/ end > EntriesPerBlock THEN {"behind"} ELSE {})
                           \cup (IF fresh /\ free.blocks = 0 THEN {"overdrawn"} ELSE {})
                           \cup (IF HitsDirectory(f) /\ ~LeavesImage(f) THEN {"directory"} ELSE {})

(* What the file should hold afterwards.                                   *)
Padded(contents, n) == [k \in 1 .. n |-> IF k <= Len(contents) THEN contents[k] ELSE Blank]
Written(contents, offset, data) ==
    LET n == IF offset + Len(data) > Len(contents) THEN offset + Len(data) ELSE Len(contents)
    IN [k \in 1 .. n |-> IF k \in offset + 1 .. offset + Len(data) THEN Unit(data[k - offset])
                         ELSE Padded(contents, n)[k]]

(* The extent block of an inode beyond the first NInodes is in the data.   *)
a1fs_write(c) ==
    /\ Ready /\ Kind(c.path) = {"file"}
    /\ \E file \in path_inode(c.path) :
          IF file \in Extents THEN WriteTo(file, c.offset, c.data) ELSE GoWild /\ UNCHANGED lapses
    /\ expect' = IF wild' THEN <<>>
                 ELSE [expect EXCEPT ![c.path] = Written(@, c.offset, c.data)]

-----------------------------------------------------------------------------
(* a1fs_truncate takes the blocks from the bitmap of the inodes.           *)
(* update_extent lengthens the extent by a block that follows it; another  *)
(* block goes to an extent that is not counted.                            *)
update_extent(e, count, index) ==
    IF count = 1 /\ e.start + Signed(e.count) = index THEN [e EXCEPT !.count = (@ + 1) % CountMod]
    ELSE IF count = 0 THEN [start |-> index, count |-> 1] ELSE e

Quotient(n) == IF n >= 0 THEN n \div EntriesPerBlock ELSE -((-n) \div EntriesPerBlock)  \* of ints in C

(* Growing: the rest of the block behind the last extent is zeroed, then a *)
(* block at a time is taken and zeroed.  s is the state of that loop.  The *)
(* difference of the sizes is unsigned, so this is also what shrinking     *)
(* does; a size that stays the same takes the other branch.                *)
TakeBlock(s) == LET index == find_next_bit(s.imap) IN
    [imap |-> SetBit(s.imap, index), extent |-> update_extent(s.extent, 1, index), zero |-> s.zero \cup {index}]
Grow(s, n) == FoldSet(LAMBDA k, acc : TakeBlock(acc), s, 1 .. n)

(* The other branch: blocks of the one extent after the last that is kept  *)
(* are freed; the number of extents becomes the index of the extent cut.   *)
TruncateTo(file, n) ==
    LET i == inode[file]
        fresh == i.extent_count = 0
        byte_more == i.size % EntriesPerBlock
        new_size == n - byte_more
        index == find_next_bit(imap)
        imap1 == IF fresh THEN SetBit(imap, index) ELSE imap
        e == IF fresh THEN update_extent(extent[file], 0, index) ELSE extent[file]
        last_extent == IF fresh THEN index ELSE e.start + Signed(e.count)
        grown == Grow([imap |-> imap1, extent |-> e, zero |-> {}], IF n # i.size THEN Quotient(new_size) ELSE 0)
        zeros == IF n # i.size
                 THEN (last_extent * EntriesPerBlock + byte_more
                          .. last_extent * EntriesPerBlock + EntriesPerBlock - 1)
                      \cup {b * EntriesPerBlock + x : b \in grown.zero, x \in Slots}
                 ELSE {}
        f == [a \in zeros |-> Blank]
        kept == n \div EntriesPerBlock
        cut == n = i.size /\ kept < Signed(e.count)
    IN IF LeavesImage(f) \/ grown.extent.start \notin Blocks THEN GoWild
       ELSE /\ block' = Overwritten(f)
            /\ imap' = grown.imap
            /\ dmap' = IF cut THEN ClearBits(dmap, e.start + kept + 1 .. e.start + Signed(e.count) - 1) ELSE dmap
            /\ extent' = [extent EXCEPT ![file] = IF cut THEN [e EXCEPT !.count = kept + 1] ELSE grown.extent]
            /\ inode' = [inode EXCEPT ![file].size = n, ![file].extent_count = IF cut THEN 0 ELSE 1]
            /\ free' = [free EXCEPT !.blocks = (@ - (Quotient(new_size) + 1)) % CountMod]
            /\ UNCHANGED <<size, magic, formatted, wild>>

a1fs_truncate(c) ==
    /\ Ready /\ Kind(c.path) = {"file"}
    /\ \E file \in path_inode(c.path) : IF file \in Extents THEN TruncateTo(file, c.size) ELSE GoWild
    /\ expect' = IF wild' THEN <<>> ELSE [expect EXCEPT ![c.path] = Padded(@, c.size)]
    /\ UNCHANGED lapses

-----------------------------------------------------------------------------
(* The calls of A1fs, with what they do to the files.                      *)
FilesInit == Init /\ expect = <<>> /\ lapses = {} /\ after = 0

FilesCreate(p) ==
    /\ a1fs_create(p) /\ UNCHANGED lapses
    /\ expect' = IF wild' THEN <<>>
                 ELSE IF imap' # imap THEN [q \in DOMAIN expect \cup {p} |-> IF q = p THEN <<>> ELSE expect[q]]
                 ELSE expect
FilesUnlink(p) ==
    /\ a1fs_unlink(p) /\ UNCHANGED lapses
    /\ expect' = IF wild' THEN <<>> ELSE [q \in DOMAIN expect \ {p} |-> expect[q]]
FilesOther ==
    /\ \/ \E force, zero \in BOOLEAN : Mkfs(force, zero)
       \/ \E p \in MkdirPaths : a1fs_mkdir(p)
       \/ \E p \in RmdirPaths : a1fs_rmdir(p)
    /\ expect' = (IF wild' THEN <<>> ELSE expect) /\ UNCHANGED lapses

CountCalls == after < MaxAfter /\ after' = IF lapses = {} THEN 0 ELSE after + 1

FilesNext ==
    /\ CountCalls
    /\ \/ FilesOther
       \/ \E p \in CreatePaths : FilesCreate(p)
       \/ \E p \in UnlinkPaths : FilesUnlink(p)
       \/ \E c \in WriteCalls : a1fs_write(c)

FilesSpec == FilesInit /\ [][FilesNext]_fileVars

(* The same with truncate.                                                 *)
AllNext == FilesNext \/ (CountCalls /\ \E c \in TruncateCalls : a1fs_truncate(c))
AllSpec == FilesInit /\ [][AllNext]_fileVars

-----------------------------------------------------------------------------
Contents(p) == UNION {{[k \in 1 .. inode[i].size |-> a1fs_read(i, k - 1)]} : i \in path_inode(p)}

(* Every file has the contents that creating it and writing to it have     *)
(* given it, and a removed one is gone.                                    *)
FilesKeepContents ==
    formatted => \A p \in Paths :
        IF p \in DOMAIN expect
        THEN Kind(p) = {"file"} /\ Contents(p) = {[k \in DOMAIN expect[p] |-> {expect[p][k]}]}
        ELSE Kind(p) # {"file"}

(* ... as long as no write went outside its file's block: the first write  *)
(* to a file, the zeros before it included, is what a read returns, and    *)
(* directories and files that come and go in other blocks leave it alone.  *)
FirstWritesKept == "behind" \notin lapses => FilesKeepContents

(* No first write to a file falls on a directory: the entries of one are   *)
(* lost to data only after a write has gone behind the block of its file.  *)
DirectoriesKept == "directory" \in lapses => "behind" \in lapses

(* statfs never promises more free blocks than the image has, on an image  *)
(* with the three spare blocks that mkfs leaves after the data, as long as *)
(* no write has taken a block with the count at zero.                      *)
NoOvercommit ==
    formatted /\ size >= start_data + 3 /\ "overdrawn" \notin lapses =>
        a1fs_statfs.f_bfree + Cardinality(dmap) <= size - start_data

(* readdir lists each name of a directory once, and a lookup of it finds   *)
(* the entry that is listed: the moves of rmdir and unlink leave no second *)
(* copy.                                                                   *)
ListingMatchesLookup ==
    formatted => \A d \in Directories :
        LET names == a1fs_readdir(d)
        IN /\ IsInjective(names)
           /\ \A e \in DOMAIN names : helper(d, names[e]) = {EntryAt(d, e).ino}

(* The callbacks implement a tree of names, up to the step that damages it. *)
Tree == INSTANCE DirectoryTree WITH
    tree <- [p \in Paths |-> IF formatted THEN Kind(p) ELSE {}],
    phase <- IF wild THEN IF "directory" \in lapses THEN "overwritten" ELSE "lost"
             ELSE IF formatted THEN "ready" ELSE "blank"
ImplementsTree == Tree!TreeSpec

(* The limits of the code, which the proofs assume.  unlink finds the      *)
(* inode of no parent but the root (811).  mkfs resets one word of the     *)
(* inode bitmap unless it zeroes the image.  Zeros written behind a file's *)
(* block may fall on a directory.                                          *)
CallsWithinLimits ==
    /\ \A p \in UnlinkPaths : Len(p) = 1
    /\ OldNames = {""} \/ \A i \in Inodes : i < BitsPerWord
    /\ \A c \in WriteCalls : c.offset + Len(c.data) <= EntriesPerBlock

(* The bitmaps are marked in their first byte only (466, 489, 707).  A     *)
(* directory has one block, and a full one is taken for empty (557, 644).  *)
RoomLeft ==
    /\ \E b \in 0 .. BitsPerByte - 1 : b \notin imap
    /\ \E b \in 0 .. BitsPerByte - 1 : b \notin dmap
    /\ \A i \in imap \cap Inodes : inode[i].mode = "dir" => inode[i].size < EntriesPerBlock

(* ... which holds when few paths are used.                                *)
NewPaths == MkdirPaths \cup CreatePaths
FewPaths ==
    /\ IsFiniteSet(NewPaths) /\ Cardinality(NewPaths) < BitsPerByte
    /\ Cardinality(Names) + 2 < EntriesPerBlock
=============================================================================
