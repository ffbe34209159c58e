----------------------------- MODULE MCFileRead -----------------------------
(***************************************************************************)
(* Small files for FileRead: every way to lay extents of one or two        *)
(* clusters out over a few clusters, in the inode, in leaves below it, or  *)
(* below one more level.                                                   *)
(***************************************************************************)
EXTENDS DebugfsExtents, TLC

CONSTANTS
    FileClusters,    \* clusters a file may have
    FirstCluster,    \* where on the disk its extents begin
    MaxRecs,         \* most extents of a file
    Shapes           \* which layouts: subset of {"inode", "leaves", "deep"}

\* An extent; extents further up in the file lie further down on the disk.
Rec(s, n, u) == [cpos |-> s, n |-> n * Bpc, unwritten |-> u,
                 blkno |-> (FirstCluster + FileClusters - s - n) * Bpc]
EmptyRec == [cpos |-> 0, n |-> 0, unwritten |-> FALSE, blkno |-> 0]
RecSet == {Rec(s, n, u) : s \in 0 .. FileClusters - 1, n \in 1 .. 2, u \in BOOLEAN}
Fit(r) == r.cpos + RecClusters(r) <= FileClusters
Before(r, s) == r.cpos + RecClusters(r) <= s.cpos

Files == {f \in UNION {[1 .. k -> {r \in RecSet : Fit(r)}] : k \in 0 .. MaxRecs} :
            \A i, j \in DOMAIN f : i < j => Before(f[i], f[j])}

\* Lists for the clusters from lo to hi - 1; the last one of a level has no end.
List(depth, recs, lo, hi) ==
    [depth |-> depth, recs |-> recs, next |-> 0, sig |-> TRUE, fits |-> TRUE,
     lo |-> lo, hi |-> hi]
Leaf(recs, next, lo, hi) == [List(0, recs, lo, hi) EXCEPT !.next = next]
Last(f) == IF f = <<>> THEN 0 ELSE f[Len(f)].cpos + RecClusters(f[Len(f)])

\* Interior records cover the file from its start, without a gap.
Span(s, e, b) == [cpos |-> s, n |-> (e - s) * Bpc, unwritten |-> FALSE, blkno |-> b]

\* Blocks of the tree, behind all data.
L1 == FsBlocks
L2 == FsBlocks - 1
L3 == FsBlocks - 2
I1 == FsBlocks - 3
I2 == FsBlocks - 4

InInode(f) == {[root |-> List(0, r, 0, M32), ebs |-> <<>>] : r \in {f, <<EmptyRec>> \o f}}

\* Where an interior record may end that leads to f, when g follows.
Cuts(f, g) == Last(f) .. (IF g = <<>> THEN FileClusters ELSE g[1].cpos)

\* The first k extents in one leaf, the others in the next, which may begin
\* with an empty record.
TwoLeaves(f) ==
    UNION {
        LET a == SubSeq(f, 1, k)
            b == SubSeq(f, k + 1, Len(f))
        IN  {[root |-> List(1, <<Span(0, m, L1), Span(m, FileClusters, L2)>>, 0, M32),
              ebs |-> (L1 :> Leaf(a, L2, 0, m)) @@ (L2 :> Leaf(g \o b, 0, m, M32))] :
                m \in Cuts(a, b), g \in {<<>>, <<EmptyRec>>}} :
        k \in 1 .. Len(f)}

\* Three leaves below two interior blocks: the first leaf has k extents, the
\* second has one.
ThreeLeaves(f, k) ==
    LET a == SubSeq(f, 1, k)
        b == <<f[k + 1]>>
        c == SubSeq(f, k + 2, Len(f))
        n == c[1].cpos
        leaves(m) == (L1 :> Leaf(a, L2, 0, m)) @@ (L2 :> Leaf(b, L3, m, n))
                     @@ (L3 :> Leaf(c, 0, n, M32))
        spans(m) == <<Span(0, m, L1), Span(m, n, L2), Span(n, FileClusters, L3)>>
    IN  {[root |-> List(2, <<Span(0, n, I1), Span(n, FileClusters, I2)>>, 0, M32),
          ebs |-> leaves(m) @@ (I1 :> List(1, SubSeq(spans(m), 1, 2), 0, n))
                            @@ (I2 :> List(1, SubSeq(spans(m), 3, 3), n, M32))] : m \in Cuts(a, b)}

Deep(f) == UNION {ThreeLeaves(f, k) : k \in 1 .. Len(f) - 2}

\* One block of the tree is damaged, or none.
Damaged(t) ==
    {t} \cup {[t EXCEPT !.ebs[b].sig = FALSE] : b \in DOMAIN t.ebs}
        \cup {[t EXCEPT !.ebs[b].fits = FALSE] : b \in DOMAIN t.ebs}
        \cup {[t EXCEPT !.root.recs[i].blkno = x] :
                i \in (IF t.root.depth = 0 THEN {} ELSE DOMAIN t.root.recs),
                x \in {0, FsBlocks + 1}}

Laid(f) ==
    (IF "inode" \in Shapes THEN InInode(f) ELSE {})
    \cup (IF "leaves" \in Shapes THEN UNION {Damaged(t) : t \in TwoLeaves(f)} ELSE {})
    \cup (IF "deep" \in Shapes THEN Deep(f) ELSE {})

FileSizes == {FileClusters * Bpc * Bsz - 1, 2 * Bsz}

MCTrees == {[root |-> t.root, ebs |-> t.ebs, size |-> s] :
              t \in UNION {Laid(f) : f \in Files}, s \in FileSizes}
MCOffsets == {i * Bsz : i \in 0 .. FileClusters * Bpc} \cup {1}
MCCounts == {0, 2 * Bsz, FileClusters * Bpc * Bsz}
=============================================================================
