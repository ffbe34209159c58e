--------------------------- MODULE DebugfsExtents ---------------------------
(***************************************************************************)
(* debugfs.cmfs walks the extent tree in its own way for bmap and frag     *)
(* (debugfs.cmfs/commands.c).  Both walks are compared with the library's, *)
(* which is FileRead, in every state that has an answer of it.             *)
(***************************************************************************)
EXTENDS FileRead

RECURSIVE FindBlockOffset(_, _), CalcNumExtents(_)

Unread == -1       \* a block of the tree could not be used

\* Mutant of ShownRec: empty records are not skipped.
ShownRecAny(list, c) ==
    LET in == {i \in 1 .. Len(list.recs) :
                 c < list.recs[i].cpos + RecClusters(list.recs[i]) \/ RecClusters(list.recs[i]) = 0}
    IN  IF in = {} THEN 0 ELSE Min(in)

\* find_block_offset: the first record that ends behind c, or 0.
ShownRec(list, c) ==
    LET in == {i \in 1 .. Len(list.recs) :
                 /\ RecClusters(list.recs[i]) # 0
                 /\ c < U32(list.recs[i].cpos + RecClusters(list.recs[i]))}
    IN  IF in = {} THEN 0 ELSE Min(in)

\* find_block_offset: the disk block of block b, 0 in a hole.
FindBlockOffset(list, b) ==
    LET i == ShownRec(list, BlocksToClusters(b))
        r == list.recs[i]
    IN  IF i = 0 THEN 0
        ELSE IF list.depth = 0
             THEN IF BlocksToClusters(b) < r.cpos THEN 0
                  ELSE r.blkno + U32(b - ClustersToBlocks(r.cpos))
        ELSE IF ExtentBlock(r.blkno) # "ok" THEN Unread
        ELSE FindBlockOffset(tree.ebs[r.blkno], b)

\* do_bmap, for an inode with extents.
DoBmap(b) == IF b > tree.size \div Bsz THEN 0 ELSE FindBlockOffset(tree.root, b)

\* calc_num_extents: the records it counts; an empty one ends the list only
\* as its last.
Counted(list) ==
    {i \in DOMAIN list.recs : RecClusters(list.recs[i]) # 0 \/ i < Len(list.recs)}

CalcNumExtents(list) ==
    LET below(i) == CalcNumExtents(tree.ebs[list.recs[i].blkno])
    IN  IF list.depth = 0 THEN Cardinality(Counted(list))
        ELSE IF \E i \in Counted(list) : ExtentBlock(list.recs[i].blkno) # "ok" THEN Unread
        ELSE IF \E i \in Counted(list) : below(i) = Unread THEN Unread
        ELSE MapThenSumSet(below, Counted(list))

-----------------------------------------------------------------------------
(* Properties.                                                             *)

\* debugfs' bmap and the library's extent map, two searches of one tree, give
\* the same block, whether or not it has been written; a damaged tree may
\* stop bmap.
BmapAgrees ==
    pc = "mapped" => \/ DoBmap(v) = PBlkno
                     \/ DoBmap(v) = Unread /\ Damage

\* debugfs' frag counts each extent of the file once, and one more for each
\* leaf that begins with an empty record and goes on.
FragCounts ==
    pc = "start" /\ ~ Damage =>
        CalcNumExtents(tree.root) =
            Cardinality({r \in Extents : RecClusters(r) # 0})
            + Cardinality({l \in Leaves : Len(l.recs) > 1 /\ RecClusters(l.recs[1]) = 0})

\* The two walks that debugfs has for itself agree with the library's.
DebugfsAgrees == BmapAgrees /\ FragCounts
=============================================================================
