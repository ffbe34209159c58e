------------------------------- MODULE MCMkfs -------------------------------
(***************************************************************************)
(* Volume sizes for Mkfs, in clusters.                                     *)
(***************************************************************************)
EXTENDS Mkfs

\* Too small for the first descriptor, for the inode group and for one or
\* both directories; exactly one full group and one cluster more or less; two
\* and three groups; more groups than chains, and a short last group.
LayoutSizes == {1, 2, 3, 5, 10, MaxBits - 1, MaxBits, MaxBits + 1, 2 * MaxBits - 1,
                2 * MaxBits, 2 * MaxBits + 1, 3 * MaxBits, 3 * MaxBits + 2}

\* Two groups, the second with one cluster; and one that ends behind the
\* first allocation, where a crash may follow a short write.
CrashSizes == {5, MaxBits + 1}

\* One write of a run may be cut short.
LostBlocks == [s \in Sizes |-> IF s = MaxBits + 1 THEN 0 ELSE 1]
=============================================================================
