-------------------------------- MODULE Mkfs --------------------------------
(***************************************************************************)
(* mkfs.cmfs (mkfs.cmfs/mkfs.c, main): the layout it computes in memory    *)
(* and the order in which it puts it on the device.                        *)
(*                                                                         *)
(* The bitmap of clusters is cut into groups; group descriptors hang off a *)
(* fixed number of chains.  Two allocators hand out space: clusters from   *)
(* the global bitmap, inode blocks from one group of blocks that is itself *)
(* allocated from the bitmap.  Writes stay in the device's volatile cache  *)
(* until fsync(); a crash, a signal or a failed write may stop the program *)
(* between any two steps.                                                  *)
(***************************************************************************)
EXTENDS Integers, Sequences, FiniteSets, FiniteSetsExt

CONSTANTS
    MaxBits,    \* 8 * cmfs_group_bitmap_size(): most clusters of a group
    Bpc,        \* blocks per cluster
    Recs,       \* cmfs_chain_recs_per_inode(): number of chains
    Clear,      \* CLEAR_CHUNK, in blocks
    Sizes,      \* volume sizes to format, in clusters
    Crashes,    \* those during whose formatting the machine may stop
    MaxLost     \* by size, how many lost blocks end the short writes

SystemFiles == <<"bad_blocks", "global_inode_alloc", "global_bitmap",
                 "extent_alloc", "inode_alloc", "journal", "local_allc",
                 "truncate_log">>
NFiles == Len(SystemFiles)
Dirs == {"root", "sysdir"}
Files == Dirs \cup {SystemFiles[n] : n \in 1 .. NFiles}
Chained == {"global_inode_alloc", "extent_alloc", "inode_alloc"}   \* SFI_CHAIN

\* CMFS_SUPER_BLOCK_BLKNO, and the cluster and block of the first descriptor.
SuperBlk == 2
FirstCg == (SuperBlk + 1 + Bpc - 1) \div Bpc
FirstCgBlk == FirstCg * Bpc

\* blocks_needed(): superblock, root, system and lost+found directories, and
\* one block for each system file (all of them are global).
BlocksNeeded == 3 + 1 + 1 + 1 + NFiles

ClustersFor(blocks) == (blocks + Bpc - 1) \div Bpc

ASSUME GeometryAssumption == /\ Bpc \in Nat \ {0}
                             /\ Recs \in Nat \ {0, 1}
                             /\ Clear \in Nat /\ Clear > SuperBlk
                             /\ Sizes \subseteq Nat \ {0}
\* A full group holds everything mkfs allocates, and its 16-bit counter can
\* count it (a bitmap is smaller than a block of CMFS_MAX_BLOCKSIZE bytes).
ASSUME RoomAssumption ==
    /\ MaxBits \in Nat /\ MaxBits <= 65536
    /\ MaxBits >= FirstCg + 1 + ClustersFor(BlocksNeeded) + 2
\* A cluster has at most CMFS_MAX_CLUSTERSIZE bytes.
ASSUME ClusterAssumption == Bpc <= 8192
ASSUME CrashesAssumption == Crashes \subseteq Sizes
ASSUME LostAssumption == MaxLost \in [Sizes -> Nat]

VARIABLES
    pc,        \* the step of main
    size,      \* volume_size_in_clusters
    journal,   \* CMFS_FEATURE_COMPAT_HAS_JOURNAL
    groups,    \* global_bm->groups
    bm,        \* bi of the global bitmap's record
    sys,       \* system_group, the group of inode blocks
    fe,        \* record -> block of its inode (fe_off)
    ext,       \* directory -> first block and number of clusters of its extent
    dir,       \* directory -> entries, as name -> inode block
    k,         \* index of the loop main is in
    disk,      \* durable contents of the device, by block
    pend,      \* by block, what was written since the last fsync
    lost       \* history: the blocks that a write cut short has left out

memVars == <<groups, bm, sys, fe, ext, dir>>
devVars == <<disk, pend, lost>>
vars == <<pc, size, journal, memVars, k, devVars>>

Blocks == 0 .. size * Bpc - 1

\* cmfs_calc_cluster_groups
Cpg == IF MaxBits > size THEN size ELSE MaxBits
NrGroups == (size + Cpg - 1) \div Cpg
TailBits == IF size % Cpg = 0 THEN Cpg ELSE size % Cpg

U16(n) == n % 65536                       \* bg_free_bits_count

-----------------------------------------------------------------------------
(* Device.                                                                 *)

Old == [type |-> "old"]                   \* whatever was there
OldSuper == [type |-> "oldsuper"]         \* an older volume's superblock
Zero == [type |-> "zero"]

Pending == {b \in Blocks : pend[b] # <<>>}
Nothing == [b \in Blocks |-> <<>>]

\* do_pwrite: `w' maps blocks to contents.  A write that fails ends the program,
\* whatever it has written by then; one that is cut short does not (only a
\* negative result is an error), and the rest of it is never written.
DoPwrite(w, next) ==
    /\ UNCHANGED disk
    /\ \E cut \in (Blocks \cap DOMAIN w) \cup {size * Bpc} :
        /\ pend' = [b \in Blocks |-> IF b \in DOMAIN w /\ b < cut
                                      THEN Append(pend[b], w[b]) ELSE pend[b]]
        /\ \/ pc' = "exit" /\ UNCHANGED lost
           \/ /\ cut < size * Bpc => Cardinality(lost) < MaxLost[size]
              /\ lost' = lost \cup {b \in Blocks \cap DOMAIN w : cut <= b}
              /\ pc' = next

\* Mutant of Fsync: the call returns before the device has the data.
FsyncNoFlush(next) == pc' = next /\ UNCHANGED devVars

\* fsync: its result is ignored, and the device is assumed not to fail it.
Fsync(next) ==
    /\ disk' = [b \in Blocks |-> IF b \in Pending THEN pend[b][Len(pend[b])] ELSE disk[b]]
    /\ pend' = Nothing
    /\ pc' = next
    /\ UNCHANGED lost

-----------------------------------------------------------------------------
(* Allocators.                                                             *)

\* initialize_alloc_group: bit 0 stands for the descriptor.
NewGroup(blkno, chain, bits) ==
    [blkno |-> blkno, chain |-> chain, bits |-> bits, set |-> {0},
     free |-> U16(bits - 1), next |-> 0]

\* Mutant of ClearRun: the run may be one bit too long for the group.
ClearRunOffByOne(g, n) == {s \in 0 .. g.bits - 1 : (s .. s + n - 2) \cap g.set = {}
                                                /\ s + n - 1 <= g.bits}

\* find_clear_bits: where a run of n clear bits starts.
ClearRun(g, n) == {s \in 0 .. g.bits - n : (s .. s + n - 1) \cap g.set = {}}

\* The groups of a chain are linked in the order they were created.
Chain(c) == {j \in DOMAIN groups : groups[j].chain = c}
NumChains == IF NrGroups >= Recs THEN Recs ELSE NrGroups

\* alloc_from_bitmap looks, in each chain, only into the first group with n
\* free bits.
Candidates(n) ==
    {j \in DOMAIN groups :
        /\ groups[j].chain < NumChains
        /\ groups[j].free >= n
        /\ \A l \in Chain(groups[j].chain) : groups[l].free >= n => j <= l
        /\ ClearRun(groups[j], n) # {}}

Better(j, l) == groups[j].chain <= groups[l].chain
FirstFit(n) == CHOOSE j \in Candidates(n) : \A l \in Candidates(n) : Better(j, l)

\* Mutant of Take: the bits are not marked.
TakeUnmarked(g, s, n) == [g EXCEPT !.free = U16(@ - n)]
Take(g, s, n) == [g EXCEPT !.set = @ \cup (s .. s + n - 1), !.free = U16(@ - n)]

\* The first block of the n clusters found, as alloc_from_bitmap computes it.
StartBlk(g, s) == IF g.blkno = FirstCgBlk THEN s * Bpc ELSE s * Bpc + g.blkno

\* alloc_from_bitmap
AllocFromBitmap(n) ==
    LET j == FirstFit(n)
        s == Min(ClearRun(groups[j], n))
    IN  [groups |-> [groups EXCEPT ![j] = Take(@, s, n)],
         bm |-> [bm EXCEPT !.used = @ + n],
         at |-> StartBlk(groups[j], s), n |-> n]

\* alloc_inode: one bit of the inode group.
InodeBit == ClearRun(sys, 1)
AllocInode == [sys |-> Take(sys, Min(InodeBit), 1), blk |-> sys.blkno + Min(InodeBit)]

-----------------------------------------------------------------------------
(* What format_file, write_bitmap_data and the others put into a block.    *)

\* The chain records of a file: head block, free bits and total bits.
BitmapRecs ==
    [c \in 1 .. NumChains |->
        [blkno |-> groups[c - 1].blkno, free |-> groups[c - 1].bits,
         total |-> MapThenSumSet(LAMBDA j : groups[j].bits, Chain(c - 1))]]
NoRec == [blkno |-> 0, free |-> 0, total |-> 0]

ChainList(f) ==
    CASE f = "global_bitmap" ->
            [next |-> IF NrGroups > Recs THEN Recs ELSE NrGroups, recs |-> BitmapRecs]
      [] f = "global_inode_alloc" ->
            [next |-> 1, recs |-> <<[blkno |-> sys.blkno, free |-> sys.free,
                                     total |-> sys.bits]>>]
      [] f \in Chained \ {"global_inode_alloc"} -> [next |-> 1, recs |-> <<NoRec>>]
      [] OTHER -> [next |-> 0, recs |-> <<>>]

Inode(f) ==
    [type |-> "inode", blkno |-> fe[f], chains |-> ChainList(f),
     used |-> IF f = "global_bitmap" THEN bm.used
              ELSE IF f = "global_inode_alloc" THEN Cardinality(sys.set) ELSE 0,
     extent |-> IF f \in Dirs THEN ext[f] ELSE [at |-> 0, n |-> 0]]

Desc(g, parent) == [type |-> "group", blkno |-> g.blkno, set |-> g.set, bits |-> g.bits,
                    free |-> g.free, chain |-> g.chain, next |-> g.next,
                    parent |-> parent]
Entries(d) == [type |-> "dir", entries |-> dir[d]]
Super == [type |-> "super", root |-> fe["root"], sysdir |-> fe["sysdir"]]

\* A structure of one block at the head of a run that is zero otherwise.
Headed(b, n, v) == [x \in b .. b + n - 1 |-> IF x = b THEN v ELSE Zero]

-----------------------------------------------------------------------------
(* The steps of main.                                                      *)

Init ==
    /\ pc = "clear"
    /\ size \in Sizes
    /\ journal \in BOOLEAN
    /\ groups = <<>>
    /\ bm = [used |-> 0, total |-> 0]
    /\ sys = NewGroup(0, 0, 1)
    /\ fe = [f \in Files |-> 0]
    /\ ext = [d \in Dirs |-> [at |-> 0, n |-> 0]]
    /\ dir = [d \in Dirs |-> {}]
    /\ k = 0
    /\ disk = [b \in Blocks |-> IF b = SuperBlk THEN OldSuper ELSE Old]
    /\ pend = Nothing
    /\ lost = {}

\* clear_both_ends: the start, then the end.  On a volume shorter than
\* CLEAR_CHUNK the second write is at a negative offset and fails.
ClearStart ==
    /\ pc = "clear"
    /\ DoPwrite([b \in {x \in Blocks : x < Clear} |-> Zero], "clearend")
    /\ UNCHANGED <<size, journal, memVars, k>>

ClearEnd ==
    /\ pc = "clearend"
    /\ LET last == size * Bpc
       IN  IF last < Clear THEN pc' = "exit" /\ UNCHANGED devVars
           ELSE DoPwrite([b \in {x \in Blocks : last - Clear <= x} |-> Zero], "bitmap")
    /\ UNCHANGED <<size, journal, memVars, k>>

\* bg_next_group: the group that follows in the chain.
Link(j) == IF j + Recs < NrGroups THEN Cpg * Bpc ELSE 0

\* initialize_bitmap.  Every group after the first gets the same block.
InitializeBitmap ==
    /\ pc = "bitmap"
    /\ LET bits(j) == IF j > 0 /\ j = NrGroups - 1 THEN TailBits ELSE Cpg
           new(j) == IF j = 0 THEN Take(NewGroup(FirstCgBlk, 0, Cpg), 1, FirstCg)
                              ELSE NewGroup(Cpg * Bpc, j % Recs, bits(j))
       IN  /\ groups' = [j \in 0 .. NrGroups - 1 |-> [new(j) EXCEPT !.next = Link(j)]]
           /\ bm' = [used |-> NrGroups + FirstCg,
                     total |-> MapThenSumSet(bits, 0 .. NrGroups - 1)]
    /\ pc' = IF bm'.total = size THEN "group" ELSE "mismatch"
    /\ UNCHANGED <<size, journal, sys, fe, ext, dir, k, devVars>>

\* Space for the inode group, or "Could not allocate".
AllocInodeGroup ==
    /\ pc = "group"
    /\ LET n == ClustersFor(BlocksNeeded)
           a == AllocFromBitmap(n)
       IN  IF Candidates(n) = {} THEN pc' = "exit" /\ UNCHANGED memVars
           ELSE /\ groups' = a.groups /\ bm' = a.bm
                /\ sys' = NewGroup(a.at, 0, n * Bpc)
                /\ pc' = "sync1"
                /\ UNCHANGED <<fe, ext, dir>>
    /\ UNCHANGED <<size, journal, k, devVars>>

Sync1 == pc = "sync1" /\ Fsync("root") /\ UNCHANGED <<size, journal, memVars, k>>

\* An extent and an inode for a directory, and its first two entries.
AllocDirectory(d, next) ==
    /\ IF Candidates(1) = {} \/ InodeBit = {} THEN pc' = "exit" /\ UNCHANGED memVars
       ELSE LET a == AllocFromBitmap(1)
                ino == AllocInode
            IN  /\ groups' = a.groups /\ bm' = a.bm
                /\ sys' = ino.sys
                /\ fe' = [fe EXCEPT ![d] = ino.blk]
                /\ ext' = [ext EXCEPT ![d] = [at |-> a.at, n |-> 1]]
                /\ dir' = [dir EXCEPT ![d] = {<<".", ino.blk>>, <<"..", ino.blk>>}]
                /\ pc' = next
    /\ k' = 1
    /\ UNCHANGED <<size, journal, devVars>>

AllocRoot == pc = "root" /\ AllocDirectory("root", "sysdir")
AllocSysdir == pc = "sysdir" /\ AllocDirectory("sysdir", "files")

Skipped(f) == f = "journal" /\ ~ journal          \* feature_skip

\* An inode block and an entry of the system directory for each system file.
AllocFile ==
    /\ pc = "files"
    /\ k <= NFiles
    /\ LET f == SystemFiles[k]
           ino == AllocInode
       IN  IF Skipped(f) THEN UNCHANGED <<sys, fe, dir, pc>>
           ELSE IF InodeBit = {} THEN pc' = "exit" /\ UNCHANGED <<sys, fe, dir>>
           ELSE /\ sys' = ino.sys
                /\ fe' = [fe EXCEPT ![f] = ino.blk]
                /\ dir' = [dir EXCEPT !["sysdir"] = @ \cup {<<f, ino.blk>>}]
                /\ UNCHANGED pc
    /\ k' = k + 1
    /\ UNCHANGED <<size, journal, groups, bm, ext, devVars>>

FilesEnd ==
    /\ pc = "files"
    /\ k > NFiles
    /\ pc' = "sync2" /\ k' = 1
    /\ UNCHANGED <<size, journal, memVars, devVars>>

Sync2 == pc = "sync2" /\ Fsync("inodes") /\ UNCHANGED <<size, journal, memVars, k>>

\* format_file for the directories, the system files, and the bitmap again.
ToFormat == <<"root", "sysdir">> \o SystemFiles \o <<"global_bitmap">>

FormatFile ==
    /\ pc = "inodes"
    /\ k <= Len(ToFormat)
    /\ LET f == ToFormat[k]
       IN  IF Skipped(f) THEN UNCHANGED <<pc, devVars>>
           ELSE DoPwrite(Headed(fe[f], 1, Inode(f)), pc)
    /\ k' = k + 1
    /\ UNCHANGED <<size, journal, memVars>>

FormatEnd ==
    /\ pc = "inodes"
    /\ k > Len(ToFormat)
    /\ pc' = "bitmapdata" /\ k' = 0
    /\ UNCHANGED <<size, journal, memVars, devVars>>

\* write_bitmap_data: one cluster per descriptor.
WriteBitmapData ==
    /\ pc = "bitmapdata"
    /\ k < NrGroups
    /\ DoPwrite(Headed(groups[k].blkno, Bpc, Desc(groups[k], fe["global_bitmap"])), pc)
    /\ k' = k + 1
    /\ UNCHANGED <<size, journal, memVars>>

BitmapDataEnd ==
    /\ pc = "bitmapdata"
    /\ k = NrGroups
    /\ pc' = "groupdata"
    /\ UNCHANGED <<size, journal, memVars, k, devVars>>

\* write_group_data
WriteGroupData ==
    /\ pc = "groupdata"
    /\ DoPwrite(Headed(sys.blkno, 1, Desc(sys, fe["global_inode_alloc"])), "rootdata")
    /\ UNCHANGED <<size, journal, memVars, k>>

\* write_directory_data
WriteDir(d, next) ==
    /\ DoPwrite(Headed(ext[d].at, ext[d].n * Bpc, Entries(d)), next)
    /\ UNCHANGED <<size, journal, memVars, k>>

WriteRoot == pc = "rootdata" /\ WriteDir("root", "sysdirdata")
WriteSysdir == pc = "sysdirdata" /\ WriteDir("sysdir", "sync3")

Sync3 == pc = "sync3" /\ Fsync("leading") /\ UNCHANGED <<size, journal, memVars, k>>

\* format_leading_space: volume header and label, two blocks.
FormatLeadingSpace ==
    /\ pc = "leading"
    /\ DoPwrite([b \in 0 .. 1 |-> [type |-> "header"]], "super")
    /\ UNCHANGED <<size, journal, memVars, k>>

FormatSuperblock ==
    /\ pc = "super"
    /\ DoPwrite(Headed(SuperBlk, 1, Super), "close")
    /\ UNCHANGED <<size, journal, memVars, k>>

\* Mutant of CloseDevice: close() without fsync().
CloseDeviceNoSync == pc = "close" /\ pc' = "done"
                     /\ UNCHANGED <<size, journal, memVars, k, devVars>>
CloseDevice == pc = "close" /\ Fsync("done") /\ UNCHANGED <<size, journal, memVars, k>>

Stopped == {"exit", "mismatch", "done", "crashed"}

\* handle_signal: exit(1), except while signals are blocked.
Interrupt ==
    /\ pc \notin Stopped \cup {"leading", "super"}
    /\ pc' = "exit"
    /\ UNCHANGED <<size, journal, memVars, k, devVars>>

\* The machine stops; of what was not flushed, any part may have survived.
Crash ==
    /\ size \in Crashes
    /\ pc # "crashed"
    /\ pc' = "crashed"
    /\ \E kept \in [Pending -> BOOLEAN] :
        disk' = [b \in Blocks |-> IF b \in Pending /\ kept[b]
                                  THEN pend[b][Len(pend[b])] ELSE disk[b]]
    /\ pend' = Nothing
    /\ UNCHANGED <<size, journal, memVars, k, lost>>

Step == \/ ClearStart \/ ClearEnd \/ InitializeBitmap \/ AllocInodeGroup \/ Sync1
        \/ AllocRoot \/ AllocSysdir \/ AllocFile \/ FilesEnd \/ Sync2
        \/ FormatFile \/ FormatEnd \/ WriteBitmapData \/ BitmapDataEnd
        \/ WriteGroupData \/ WriteRoot \/ WriteSysdir \/ Sync3
        \/ FormatLeadingSpace \/ FormatSuperblock \/ CloseDevice

Next == Step \/ Interrupt \/ Crash

Spec == Init /\ [][Next]_vars

-----------------------------------------------------------------------------
(* Properties.                                                             *)

Bitmaps == DOMAIN groups

TypeOK ==
    /\ pc \in Stopped \cup {"clear", "clearend", "bitmap", "group", "sync1", "root",
                            "sysdir", "files", "sync2", "inodes", "bitmapdata", "groupdata",
                            "rootdata", "sysdirdata", "sync3", "leading", "super",
                            "close"}
    /\ \A j \in Bitmaps : groups[j].blkno \in Nat /\ U16(groups[j].free) = groups[j].free
    /\ \A f \in Files : fe[f] \in Blocks
    /\ \A d \in Dirs : ext[d].at \in Blocks
    /\ DOMAIN disk = Blocks /\ DOMAIN pend = Blocks /\ lost \subseteq Blocks

\* The blocks of everything that has a place on the volume, by owner: the
\* area before the first descriptor, the descriptors' clusters, the inode
\* group and the extents of the directories.
Owned ==
    {<<<<"lead", 0>>, 0 .. FirstCgBlk - 1>>}
    \cup {<<<<"desc", j>>, groups[j].blkno .. groups[j].blkno + Bpc - 1>> : j \in Bitmaps}
    \cup (IF sys.blkno = 0 THEN {}
          ELSE {<<<<"inodes", 0>>, sys.blkno .. sys.blkno + sys.bits - 1>>})
    \cup {<<<<d, 0>>, ext[d].at .. ext[d].at + Bpc - 1>> : d \in {x \in Dirs : ext[x].n > 0}}

\* The one block that is handed out several times: that of the descriptors of
\* the second and all further groups (mkfs.c:1084).
SameDescriptor(s, t) == s[1] = "desc" /\ t[1] = "desc" /\ s[2] > 0 /\ t[2] > 0

\* But for the block the descriptors of all groups behind the first share,
\* which are two descriptors or more on a volume of three groups or more, no
\* block is handed out twice: not to the first descriptor and another, not to
\* a descriptor and the inode group or a directory.  Nothing lies outside the
\* volume and no two inodes share a block, for every volume size, down to the
\* ones that are too small.
AllocDisjoint ==
    /\ \A x, y \in Owned : x[1] = y[1] \/ SameDescriptor(x[1], y[1]) \/ x[2] \cap y[2] = {}
    /\ sys.blkno > 0 => \A x \in Owned : x[2] \subseteq Blocks
    /\ \A f, g \in Files : fe[f] # 0 /\ fe[f] = fe[g] => f = g
    /\ \A f \in Files : fe[f] # 0 => fe[f] \in sys.blkno + 1 .. sys.blkno + sys.bits - 1

\* The free bits of the groups and of the inode group are counted right.
FreeBits ==
    /\ \A j \in Bitmaps : groups[j].set \subseteq 0 .. groups[j].bits - 1 =>
        groups[j].free = groups[j].bits - Cardinality(groups[j].set)
    /\ sys.blkno > 0 => sys.free = sys.bits - Cardinality(sys.set)

\* Every cluster that has an owner is marked in the bitmap.
OwnersMarked ==
    sys.blkno > 0 => \A x \in Owned : \A b \in x[2] :
        (b \div Bpc) % Cpg \in groups[(b \div Bpc) \div Cpg].set

\* The counters agree with the bitmaps they count: free bits of each group,
\* used and total bits of the bitmap file, and every cluster of an owner is
\* marked in the bitmap; a counter that wraps stays in its 16 bits.
CountsMatch ==
    /\ FreeBits
    /\ bm.used = MapThenSumSet(LAMBDA j : Cardinality(groups[j].set), Bitmaps)
    /\ OwnersMarked
    /\ pc # "mismatch"
    /\ TypeOK

\* What the durable superblock leads to, and whether it is what it should be.
IsInode(b) == disk[b].type = "inode" /\ disk[b].blkno = b
DirOk(b) ==
    /\ IsInode(b)
    /\ LET data == disk[disk[b].extent.at]
       IN  data.type = "dir" /\ \A e \in data.entries : IsInode(e[2])
FileBlk(sysdir, f) ==
    (CHOOSE e \in disk[disk[sysdir].extent.at].entries : e[1] = f)[2]

\* From the chain records of inode b and from one bg_next_group to the next
\* one gets to descriptors at the blocks D only, and each of them is one.
ChainsOk(b, D) ==
    LET cl == disk[b].chains
    IN  /\ \A r \in 1 .. cl.next : cl.recs[r].blkno \in D
        /\ \A d \in D : disk[d].type = "group" /\ disk[d].next \in D \cup {0}

\* The global bitmap `gb': each group's descriptor is on the device with its
\* bits, counter, chain and next group, except those another group's has been
\* written over (mkfs.c:1084), of which a volume of two groups has none.
BitmapOk(gb) ==
    /\ ChainsOk(gb, {groups[j].blkno : j \in Bitmaps})
    /\ \A j \in Bitmaps : \/ disk[groups[j].blkno] = Desc(groups[j], gb)
                          \/ 0 < j /\ j < NrGroups - 1
    /\ disk[gb].used = bm.used

\* The allocator of inodes, `ia', with the one group it has.
InodeAllocOk(ia) == ChainsOk(ia, {sys.blkno}) /\ disk[sys.blkno] = Desc(sys, ia)

\* A new superblock is on the device only when everything it leads to is:
\* directories, inodes, and both allocators with their chains.
SuperMeansComplete ==
    SuperBlk \in Blocks /\ disk[SuperBlk].type = "super" =>
        LET sb == disk[SuperBlk]
        IN  /\ DirOk(sb.root) /\ DirOk(sb.sysdir)
            /\ BitmapOk(FileBlk(sb.sysdir, "global_bitmap"))
            /\ InodeAllocOk(FileBlk(sb.sysdir, "global_inode_alloc"))

\* No part of the new volume is durable while the superblock of the old one
\* still is: an interrupted mkfs never leaves an old volume that looks valid
\* and has foreign metadata in it.  Not promised when the write of zeros over
\* that very block was cut short, which do_pwrite does not notice
\* (mkfs.c:85).
OldSuperGone ==
    SuperBlk \in Blocks \ lost /\ disk[SuperBlk].type = "oldsuper" =>
        \A b \in Blocks : disk[b].type \in {"old", "oldsuper", "zero"}

\* mkfs says "successful" only about a complete volume.
SuccessMeansComplete == pc = "done" => disk[SuperBlk].type = "super"
                                       /\ SuperMeansComplete

\* A superblock on the device, or the word of mkfs, means a complete volume,
\* but for the descriptors behind mkfs.c:1084 that BitmapOk names: whatever
\* part of the unflushed writes a crash loses, and whenever a write fails or a
\* signal arrives; but not behind a write that was cut short (mkfs.c:85).
VolumeComplete == lost = {} => SuperMeansComplete /\ SuccessMeansComplete

\* Every descriptor has the first cluster of its own group.
DescriptorPerGroup ==
    pc # "exit" => \A j \in Bitmaps : j > 0 => groups[j].blkno = j * Cpg * Bpc
=============================================================================
