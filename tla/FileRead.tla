------------------------------ MODULE FileRead ------------------------------
(***************************************************************************)
(* Reading a file: cmfs_file_read (libcmfs/fileio.c), the map from file    *)
(* blocks to disk blocks (extent_map.c) and the walk down the extent tree  *)
(* (extent_tree.c), one step per node that is read.                        *)
(*                                                                         *)
(* A disk block holds its own number, so a buffer shows where its contents *)
(* came from; 0 stands for zeroes.  A record list is the sequence of its   *)
(* first l_next_free_rec records.  Any read of the device may fail.  The   *)
(* clusters lo .. hi - 1 that a list is for are not in the block: they are *)
(* what the records above it say, and only the assumptions look at them.   *)
(***************************************************************************)
EXTENDS Integers, Sequences, FiniteSets, FiniteSetsExt

CONSTANTS
    Bsz,        \* bytes of a block
    Bpc,        \* blocks of a cluster
    FsBlocks,   \* fs->fs_blocks
    M32, M64,   \* 2^32 and 2^64
    Trees,      \* inodes: [root, size, ebs]
    Offsets, Counts

\* Clusters are whole blocks, and the narrow type divides the wide one.
ASSUME WidthAssumption ==
    /\ {Bsz, Bpc, M32, M64} \subseteq Nat \ {0}
    /\ M32 % Bpc = 0 /\ M64 % M32 = 0
    /\ FsBlocks \in Nat

SuperBlk == 2     \* CMFS_SUPER_BLOCK_BLKNO
None == -1        \* a place of the buffer that was not written

U32(n) == n % M32
U64(n) == n % M64

\* cmfs_clusters_to_blocks: the shift is done in 32 bits.
ClustersToBlocks(c) == U32(U32(c) * Bpc)
BlocksToClusters(b) == b \div Bpc
RecClusters(r) == BlocksToClusters(r.n)

-----------------------------------------------------------------------------
(* The trees that cmfs writes.                                             *)

Records == [cpos : Nat, n : Nat, unwritten : BOOLEAN, blkno : Nat]
Lists == [depth : Nat, recs : Seq(Records), next : Nat, sig : BOOLEAN, fits : BOOLEAN,
          lo : Nat, hi : Nat]

End(r) == r.cpos + RecClusters(r)
Used(r) == RecClusters(r) # 0

\* A record has whole clusters, and the file ends below 2^32 blocks.
Whole(r) == r.n % Bpc = 0 /\ End(r) * Bpc < M32

\* An extent lies behind the first cluster and below 2^32 blocks.
OnDisk(r) == r.blkno % Bpc = 0 /\ r.blkno >= Bpc /\ r.blkno + r.n <= M32

\* Extents of a leaf are in order and do not overlap; the first record may be
\* empty.  The next leaf begins where this one ends, and only the last one may
\* be without an extent.
LeafSound(t, l) ==
    /\ \A i, j \in DOMAIN l.recs : i < j => End(l.recs[i]) <= l.recs[j].cpos
    /\ \A i \in DOMAIN l.recs :
          /\ End(l.recs[i]) <= l.hi
          /\ Used(l.recs[i]) => l.lo <= l.recs[i].cpos /\ OnDisk(l.recs[i])
          /\ ~ Used(l.recs[i]) => i = 1
    /\ IF l.next = 0 THEN l.hi = M32
       ELSE /\ l.next \in (SuperBlk .. FsBlocks) \cap DOMAIN t.ebs
            /\ t.ebs[l.next].depth = 0 /\ t.ebs[l.next].lo = l.hi
            /\ \E i \in DOMAIN l.recs : Used(l.recs[i])

\* Interior records leave no gap.  The last one is for everything behind it.
InteriorSound(t, l) ==
    /\ l.recs # <<>> /\ l.recs[1].cpos = l.lo
    /\ \A i \in 1 .. Len(l.recs) - 1 : End(l.recs[i]) = l.recs[i + 1].cpos
    /\ \A i \in DOMAIN l.recs : l.recs[i].blkno \in SuperBlk .. FsBlocks =>
          /\ l.recs[i].blkno \in DOMAIN t.ebs
          /\ LET below == t.ebs[l.recs[i].blkno]
             IN  /\ below.depth = l.depth - 1
                 /\ below.lo = l.recs[i].cpos
                 /\ below.hi = IF i < Len(l.recs) THEN l.recs[i + 1].cpos ELSE l.hi

ListSound(t, l) ==
    /\ \A i \in DOMAIN l.recs : Whole(l.recs[i])
    /\ IF l.depth = 0 THEN LeafSound(t, l) ELSE InteriorSound(t, l)

Sound(t) ==
    /\ t.size \in Nat /\ (t.size + Bsz - 1) \div Bsz <= M32
    /\ t.root \in Lists /\ t.root.lo = 0 /\ t.root.hi = M32
    /\ t.root.depth = 0 => t.root.next = 0
    /\ ListSound(t, t.root)
    /\ DOMAIN t.ebs \subseteq Nat
    /\ \A b \in DOMAIN t.ebs :
          /\ t.ebs[b] \in Lists /\ ListSound(t, t.ebs[b])
          /\ t.ebs[b].depth > 0 =>
                \A i \in DOMAIN t.ebs[b].recs : t.ebs[b].recs[i].blkno \in SuperBlk .. FsBlocks
    /\ \A a, b \in DOMAIN t.ebs :
          t.ebs[a].depth = 0 /\ t.ebs[b].depth = 0 /\ a # b
          => t.ebs[a].hi <= t.ebs[b].lo \/ t.ebs[b].hi <= t.ebs[a].lo

\* A block may be damaged (sig, fits) and the root may lead to no block; what
\* else is in a tree is as cmfs writes it.
ASSUME TreesAssumption == \A t \in Trees : Sound(t)
ASSUME CallsAssumption == Offsets \subseteq Nat /\ Counts \subseteq Nat

-----------------------------------------------------------------------------
VARIABLES
    tree, offset, count,        \* the call
    pc,
    el,                         \* the list the walk has reached
    v, wanted,                  \* v_blkno, wanted_blocks
    map,                        \* p_cluster, num_clusters, CMFS_EXT_UNWRITTEN
    got, buf, ret

call == <<tree, offset, count>>
vars == <<call, pc, el, v, wanted, map, got, buf, ret>>

Cpos == BlocksToClusters(v)

Return(r) ==
    /\ ret' = r
    /\ pc' = "done"

Fail(r) == Return(r) /\ UNCHANGED <<call, el, v, wanted, map, got, buf>>

Init ==
    /\ tree \in Trees /\ offset \in Offsets /\ count \in Counts
    /\ pc = "start"
    /\ el = tree.root
    /\ v = 0 /\ wanted = 0
    /\ map = [p |-> 0, num |-> 0, unwritten |-> FALSE]
    /\ got = 0
    /\ buf = [i \in 0 .. (count \div Bsz) - 1 |-> None]
    /\ ret = "none"

-----------------------------------------------------------------------------
(* cmfs_file_read: before the loop, and at the head of its body.           *)

Aligned == offset % Bsz = 0 /\ count % Bsz = 0
NumBlocks == (tree.size + Bsz - 1) \div Bsz

\* cmfs_get_clusters starts at the inode's list.
Enter(list) == /\ el' = list
               /\ pc' = IF list.depth > 0 THEN "descend" ELSE "search"

\* wanted_blocks, cut off at the last block of the file.
Clip(blk, n) == IF blk + n > NumBlocks THEN NumBlocks - blk ELSE n

StartRead ==
    /\ pc = "start"
    /\ LET first == offset \div Bsz
           n == count \div Bsz
       IN  IF ~ Aligned THEN Fail("invalid")
           ELSE IF first >= NumBlocks \/ n = 0 THEN Fail("ok")
           ELSE /\ v' = first
                /\ wanted' = Clip(first, n)
                /\ Enter(tree.root)
                /\ UNCHANGED <<call, map, got, buf, ret>>

-----------------------------------------------------------------------------
(* The walk.                                                               *)

\* cmfs_read_extent_block: what is wrong with block b, or "ok".
ExtentBlock(b) ==
    IF b < SuperBlk \/ b > FsBlocks THEN "badblkno"
    ELSE IF b \notin DOMAIN tree.ebs \/ ~ tree.ebs[b].sig THEN "badmagic"
    ELSE IF ~ tree.ebs[b].fits THEN "corrupt" ELSE "ok"

\* Mutant of Child: the cluster behind a record counts as covered by it.
ChildPast(list, c) ==
    LET in == {i \in 1 .. Len(list.recs) - 1 :
                 c >= list.recs[i].cpos
                 /\ c <= U32(list.recs[i].cpos + RecClusters(list.recs[i]))}
    IN  IF in = {} THEN Len(list.recs) ELSE Min(in)

\* The record of an interior list to follow: the first that covers c, the
\* last one if none of those before it does.
Child(list, c) ==
    LET in == {i \in 1 .. Len(list.recs) - 1 :
                 c >= list.recs[i].cpos
                 /\ c < U32(list.recs[i].cpos + RecClusters(list.recs[i]))}
    IN  IF in = {} THEN Len(list.recs) ELSE Min(in)

\* __cmfs_find_path, one turn.
Descend ==
    /\ pc = "descend"
    /\ IF el.recs = <<>> THEN Fail("corrupt")
       ELSE LET b == el.recs[Child(el, Cpos)].blkno
            IN  \/ b = 0 /\ Fail("corrupt")
                \/ b # 0 /\ ExtentBlock(b) # "ok" /\ Fail(ExtentBlock(b))
                \/ b # 0 /\ ExtentBlock(b) # "badblkno" /\ Fail("io")
                \/ /\ b # 0 /\ ExtentBlock(b) = "ok"
                   /\ Enter(tree.ebs[b])
                   /\ UNCHANGED <<call, v, wanted, map, got, buf, ret>>

Mapped(p, num, unwritten) ==
    /\ map' = [p |-> p, num |-> U64(num), unwritten |-> unwritten]
    /\ pc' = "mapped"
    /\ UNCHANGED <<call, el, v, wanted, got, buf, ret>>

\* cmfs_search_extent_list: the record that holds c, or 0.
Holding(list, c) ==
    LET in == {i \in 1 .. Len(list.recs) :
                 c >= list.recs[i].cpos /\ c < list.recs[i].cpos + RecClusters(list.recs[i])}
    IN  IF in = {} THEN 0 ELSE Min(in)

\* cmfs_get_clusters, when the leaf is there.
Search ==
    /\ pc = "search"
    /\ LET i == Holding(el, Cpos)
           r == el.recs[i]
           coff == U32(Cpos - r.cpos)
       IN  IF i = 0 THEN pc' = "hole" /\ UNCHANGED <<call, el, v, wanted, map, got, buf, ret>>
           ELSE IF r.blkno = 0 THEN Fail("badblkno")
           ELSE Mapped(BlocksToClusters(r.blkno) + coff, RecClusters(r) - coff, r.unwritten)

\* cmfs_search_for_hole_index: the first record that starts behind c.
HoleIndex(list, c) ==
    LET in == {i \in 1 .. Len(list.recs) : c < list.recs[i].cpos}
    IN  IF in = {} THEN Len(list.recs) + 1 ELSE Min(in)

\* The hole reaches up to record i of the list, or it has no end.
HoleTo(list, i) ==
    Mapped(0, IF i > Len(list.recs) THEN M64 - 1 - Cpos ELSE list.recs[i].cpos - Cpos, FALSE)

\* cmfs_figure_hole_clusters: in this leaf, and in the next one if the hole
\* goes beyond it.
Hole ==
    /\ pc = "hole"
    /\ LET i == HoleIndex(el, Cpos)
       IN  IF i > Len(el.recs) /\ el.next # 0
           THEN pc' = "nextleaf" /\ UNCHANGED <<call, el, v, wanted, map, got, buf, ret>>
           ELSE HoleTo(el, i)

NextLeaf ==
    /\ pc = "nextleaf"
    /\ \/ ExtentBlock(el.next) # "ok" /\ Fail(ExtentBlock(el.next))
       \/ ExtentBlock(el.next) # "badblkno" /\ Fail("io")
       \/ /\ ExtentBlock(el.next) = "ok"
          /\ LET next == tree.ebs[el.next]
                 i == HoleIndex(next, Cpos)
             IN  IF i > 1 /\ (i > 2 \/ RecClusters(next.recs[1]) # 0) THEN Fail("corrupt")
                 ELSE HoleTo(next, i)

-----------------------------------------------------------------------------
(* cmfs_extent_map_get_blocks after the lookup, and the rest of the body.  *)

Boff == v % Bpc
PBlkno == IF map.p = 0 THEN 0 ELSE ClustersToBlocks(map.p) + Boff

\* Mutant of Contig: the last block of a run is left for the next turn.
ContigLess == LET n == U64(ClustersToBlocks(map.num) - Boff + M64)
              IN  IF n > wanted THEN wanted ELSE n - 1

\* contig_blocks
Contig == LET n == U64(ClustersToBlocks(map.num) - Boff + M64)
          IN  IF n > wanted THEN wanted ELSE n

\* Mutant of Zeroed: unwritten extents are read like the others.
ZeroedHole == PBlkno = 0

\* A hole or an unwritten extent.
Zeroed == PBlkno = 0 \/ map.unwritten

\* *got after the last turn.
Total(g) == IF g + offset > tree.size THEN tree.size - offset ELSE g

Fill ==
    /\ pc = "mapped"
    /\ \/ ~ Zeroed /\ Fail("io")
       \/ LET c == Contig
              at == v - offset \div Bsz
              g == got + c * Bsz
          IN  /\ buf' = [i \in DOMAIN buf |->
                           IF i \in at .. at + c - 1
                           THEN (IF Zeroed THEN 0 ELSE PBlkno + i - at) ELSE buf[i]]
              /\ wanted' = wanted - c
              /\ IF wanted - c > 0
                 THEN got' = g /\ v' = v + c /\ Enter(tree.root) /\ UNCHANGED ret
                 ELSE got' = Total(g) /\ Return("ok") /\ UNCHANGED <<v, el>>
              /\ UNCHANGED <<call, map>>

-----------------------------------------------------------------------------
Next == StartRead \/ Descend \/ Search \/ Hole \/ NextLeaf \/ Fill

Spec == Init /\ [][Next]_vars
FairSpec == Spec /\ WF_vars(Next)      \* the caller's thread runs

-----------------------------------------------------------------------------
(* Properties.                                                             *)

\* The extents of the file: the records of all leaves.
Leaves == IF tree.root.depth = 0 THEN {tree.root}
          ELSE {tree.ebs[b] : b \in {x \in DOMAIN tree.ebs : tree.ebs[x].depth = 0}}
Extents == UNION {{l.recs[i] : i \in DOMAIN l.recs} : l \in Leaves}
At(c) == {r \in Extents : r.cpos <= c /\ c < r.cpos + RecClusters(r)}

\* What block b of the file holds.
FileBlock(b) ==
    LET in == At(b \div Bpc)
        r == CHOOSE x \in in : TRUE
    IN  IF in = {} \/ r.unwritten THEN 0 ELSE r.blkno + b - r.cpos * Bpc

\* A block of the tree is damaged, or the root leads to no block.
Damage ==
    \/ \E b \in DOMAIN tree.ebs : ~ (tree.ebs[b].sig /\ tree.ebs[b].fits)
    \/ tree.root.depth > 0 /\ \E i \in DOMAIN tree.root.recs :
           tree.root.recs[i].blkno \notin SuperBlk .. FsBlocks

TypeOK ==
    /\ pc \in {"start", "descend", "search", "hole", "nextleaf", "mapped", "done"}
    /\ ret \in {"none", "ok", "io", "invalid", "badblkno", "badmagic", "corrupt"}
    /\ map.num \in 0 .. M64 - 1 /\ map.p \in Nat
    /\ v \in Nat /\ wanted \in 0 .. count \div Bsz
    /\ got \in 0 .. count
    /\ DOMAIN buf = 0 .. count \div Bsz - 1

\* Whatever cmfs_get_clusters returns about a run of clusters is true of
\* every cluster in it: all are a hole, or all lie behind each other on the
\* disk with the same flag.
RunUniform ==
    pc = "mapped" =>
        \A c \in {x \in UNION {{r.cpos + j : j \in 0 .. RecClusters(r)} : r \in Extents} :
                    Cpos <= x /\ x < Cpos + map.num} \cup {Cpos} :
            IF map.p = 0 THEN At(c) = {}
            ELSE \E r \in At(c) : /\ BlocksToClusters(r.blkno) + c - r.cpos = map.p + c - Cpos
                                  /\ r.unwritten = map.unwritten

\* However the read ends, the first *got bytes of the buffer are the file's:
\* an error half-way, a hole, an unwritten extent, a request that spans
\* extents and leaves, a block of the tree that is damaged.
BufferIsFile ==
    \A i \in DOMAIN buf : i * Bsz < got => buf[i] = FileBlock(offset \div Bsz + i)

\* A read that succeeds returns everything that was asked for and is there.
GotAll ==
    pc = "done" /\ ret = "ok" =>
        got = IF offset >= tree.size THEN 0 ELSE Min({count, tree.size - offset})

\* What cmfs_file_read promises its caller, and the runs it puts it together
\* from.
ReadsFile == TypeOK /\ RunUniform /\ BufferIsFile /\ GotAll

\* A read fails only because the device failed, the call was not aligned, or
\* a block of the tree is damaged: the walk always reaches the right leaf, and
\* the checks of cmfs_figure_hole_clusters never refuse a sound tree.
SoundTreeIsRead ==
    pc = "done" /\ ret \in {"badblkno", "badmagic", "corrupt"} => Damage

\* Every read ends.
ReadEnds == <>(pc = "done")
=============================================================================
