--------------------------- MODULE FileReadProofs ---------------------------
(***************************************************************************)
(* What cmfs_file_read puts into the caller's buffer is the file, and it   *)
(* gives up on no sound tree, for every geometry, file, tree and request.  *)
(***************************************************************************)
EXTENDS FileRead, FiniteSetTheorems, WellFoundedInduction, TLAPS

-----------------------------------------------------------------------------
(* The inductive invariant.                                                *)

First == offset \div Bsz
Asked == count \div Bsz

\* The call is one of those the model is about.
CallOk == tree \in Trees /\ offset \in Nat /\ count \in Nat

\* The walk is at a list that is for the cluster it looks for.
OnPath ==
    /\ \/ el = tree.root
       \/ tree.root.depth > 0 /\ \E b \in DOMAIN tree.ebs : el = tree.ebs[b]
    /\ pc \in {"descend", "search", "hole", "nextleaf"} => el.lo <= Cpos /\ Cpos < el.hi
    /\ pc = "descend" => el.depth > 0
    /\ pc \in {"search", "hole", "nextleaf"} => el.depth = 0

\* The search for a hole has no extent of the leaf behind it that it missed.
NotHere ==
    /\ pc \in {"hole", "nextleaf"} => \A i \in DOMAIN el.recs :
          ~ (el.recs[i].cpos <= Cpos /\ Cpos < End(el.recs[i]))
    /\ pc = "nextleaf" =>
          el.next # 0 /\ \A i \in DOMAIN el.recs : el.recs[i].cpos <= Cpos

\* No extent has one of the clusters a .. e - 1.
NoExtent(a, e) == \A r \in Extents : Used(r) => End(r) <= a \/ e <= r.cpos

\* The answer of the lookup is a hole, up to e or without an end.
HoleRun ==
    /\ map.p = 0
    /\ \E e \in 1 .. M32 : /\ Cpos < e /\ NoExtent(Cpos, e)
                           /\ e = M32 \/ (map.num = e - Cpos /\ e * Bpc < M32)

\* The answer of the lookup is the rest of an extent.
ExtentRun ==
    \E r \in At(Cpos) :
        map = [p |-> BlocksToClusters(r.blkno) + (Cpos - r.cpos), num |-> End(r) - Cpos,
               unwritten |-> r.unwritten]

MapRight == pc = "mapped" => HoleRun \/ ExtentRun

\* The loop has done the blocks before v and has wanted ones to go.
Progress ==
    /\ pc = "start" => got = 0
    /\ pc \notin {"start", "done"} =>
          /\ Aligned /\ First < NumBlocks /\ Asked > 0
          /\ First <= v /\ wanted > 0
          /\ v + wanted = First + Clip(First, Asked)
          /\ got = (v - First) * Bsz

Inv == /\ CallOk /\ TypeOK /\ OnPath /\ NotHere /\ MapRight /\ Progress
       /\ BufferIsFile /\ GotAll /\ SoundTreeIsRead

-----------------------------------------------------------------------------
(* Arithmetic of blocks and clusters.                                      *)

\* The sizes are positive numbers, and a block number fits the wide type.
LEMMA Widths ==
    /\ Bsz \in Nat /\ Bsz > 0 /\ Bpc \in Nat /\ Bpc > 0
    /\ M32 \in Nat /\ M32 > 0 /\ M64 \in Nat /\ M64 > 0 /\ M32 <= M64
    /\ FsBlocks \in Nat
<1>1. /\ Bsz \in Nat /\ Bsz > 0 /\ Bpc \in Nat /\ Bpc > 0
      /\ M32 \in Nat /\ M32 > 0 /\ M64 \in Nat /\ M64 > 0 /\ M64 % M32 = 0
      /\ FsBlocks \in Nat
  BY WidthAssumption
<1>2. M64 < M32 => M64 % M32 = M64
  BY <1>1
<1>. QED BY <1>1, <1>2

\* Products with a positive number grow.
LEMMA Scaled ==
    ASSUME NEW m \in Nat, m > 0, NEW a \in Nat, NEW b \in Nat
    PROVE  /\ a * m \in Nat /\ a <= a * m
           /\ a <= b => a * m <= b * m
           /\ a < b => a * m + m <= b * m
           /\ (a + b) * m = a * m + b * m
           /\ b <= a => (a - b) * m = a * m - b * m
<1>2. a * m \in Nat /\ a <= a * m
  OBVIOUS
<1>3. (a + b) * m = a * m + b * m
  OBVIOUS
<1>4. ASSUME a <= b PROVE a * m <= b * m
  BY <1>4
<1>5. ASSUME a < b PROVE a * m + m <= b * m
  <2>1. (a + 1) * m <= b * m
    BY <1>5
  <2>. QED BY <2>1
<1>6. ASSUME b <= a PROVE (a - b) * m = a * m - b * m
  BY <1>6
<1>. QED BY <1>2, <1>3, <1>4, <1>5, <1>6

\* A block lies in its cluster, a byte in its block.
LEMMA Within ==
    ASSUME NEW m \in Nat, m > 0, NEW x \in Nat
    PROVE  /\ x \div m \in Nat /\ x % m \in Nat /\ x % m < m
           /\ x = (x \div m) * m + (x % m)
<1> DEFINE q == x \div m
           r == x % m
<1>1. q \in Int /\ r \in 0 .. m - 1 /\ x = m * q + r
  OBVIOUS
<1> HIDE DEF q, r
<1>2. m * q = q * m
  BY <1>1
<1>3. q >= 0
  <2>1. ASSUME q < 0 PROVE FALSE
    <3>1. m * q + m <= 0
      BY <1>1, <2>1
    <3>. QED BY <1>1, <3>1
  <2>. QED BY <1>1, <2>1
<1>4. q \in Nat /\ r \in Nat /\ r < m
  BY <1>1, <1>3
<1>5. x = q * m + r
  BY <1>1, <1>2
<1>. QED BY <1>4, <1>5 DEF q, r

\* A block is before the end of a range of clusters iff its cluster is.
LEMMA Before ==
    ASSUME NEW m \in Nat, m > 0, NEW x \in Nat, NEW e \in Nat
    PROVE  /\ x \div m < e <=> x < e * m
           /\ e <= x \div m <=> e * m <= x
<1> DEFINE q == x \div m
           r == x % m
           a == q * m
           b == e * m
<1>1. q \in Nat /\ r \in Nat /\ r < m /\ x = a + r
  BY Within
<1>2. a \in Nat /\ b \in Nat /\ (q < e => a + m <= b) /\ (e <= q => b <= a)
  BY <1>1, Scaled
<1> HIDE DEF q, r, a, b
<1>3. (q < e <=> x < b) /\ (e <= q <=> b <= x)
  BY <1>1, <1>2
<1>. QED BY <1>3 DEF q, b

\* What is below 2^32 is kept by the narrow type.
LEMMA Fits ==
    ASSUME NEW x \in Nat
    PROVE  /\ x < M32 => U32(x) = x
           /\ x < M64 => U64(x) = x /\ U64(x + M64) = x
           /\ U64(x) \in Nat /\ U64(x) < M64
BY Widths DEF U32, U64

\* Remainders of the wide type, also of what lies just below zero.
LEMMA Wraps ==
    ASSUME NEW x \in Int
    PROVE  U64(x) \in Nat /\ U64(x) < M64
BY Widths DEF U64

\* A set of numbers that is not empty has a least member.
LEMMA LeastIndex ==
    ASSUME NEW S \in SUBSET Nat, S # {}
    PROVE  Min(S) \in S /\ \A y \in S : Min(S) <= y
<1> DEFINE R == OpToRel(<, Nat)
<1>1. IsWellFoundedOn(R, Nat)
  BY NatLessThanWellFounded
<1> HIDE DEF R
<1>2. PICK x \in S : \A y \in S : ~ (<<y, x>> \in R)
  BY <1>1, WFMin
<1>3. \A y \in S : <<y, x>> \in R \/ ~ (y < x)
  BY DEF R, OpToRel
<1>4. \A y \in S : ~ (y < x)
  BY <1>2, <1>3
<1>5. \A y \in S : x <= y
  BY <1>4
<1>. QED BY <1>5 DEF Min

-----------------------------------------------------------------------------
(* What the assumptions say of a tree.                                     *)

\* Records of a list are records, of whole clusters.
LEMMA RecordFacts ==
    ASSUME NEW r \in Records, Whole(r)
    PROVE  /\ r.cpos \in Nat /\ r.n \in Nat /\ r.blkno \in Nat /\ r.unwritten \in BOOLEAN
           /\ RecClusters(r) \in Nat /\ RecClusters(r) * Bpc = r.n
           /\ End(r) \in Nat /\ End(r) = r.cpos + RecClusters(r)
           /\ End(r) * Bpc < M32 /\ End(r) < M32
<1>1. r.cpos \in Nat /\ r.n \in Nat /\ r.blkno \in Nat /\ r.unwritten \in BOOLEAN
  BY DEF Records
<1>2. r.n % Bpc = 0 /\ End(r) * Bpc < M32
  BY DEF Whole
<1> DEFINE q == r.n \div Bpc
<1>3. q \in Nat /\ r.n = q * Bpc + (r.n % Bpc)
  BY <1>1, Within, Widths
<1>4. q * Bpc \in Nat
  BY <1>3, Scaled, Widths
<1>5. RecClusters(r) = q
  BY DEF RecClusters, BlocksToClusters
<1> HIDE DEF q
<1>6. q * Bpc = r.n
  BY <1>1, <1>2, <1>3, <1>4
<1>7. End(r) = r.cpos + RecClusters(r) /\ End(r) \in Nat
  BY <1>1, <1>3, <1>5 DEF End
<1>8. End(r) <= End(r) * Bpc /\ End(r) * Bpc \in Nat
  BY <1>7, Scaled, Widths
<1>9. End(r) < M32
  BY <1>2, <1>7, <1>8, Widths
<1>. QED BY <1>1, <1>2, <1>3, <1>5, <1>6, <1>7, <1>9

\* The lists of a tree: its root and its blocks.
ListIn(l) == l = tree.root \/ \E b \in DOMAIN tree.ebs : l = tree.ebs[b]

\* A list of a tree in Trees has its type and is sound.
LEMMA ListFacts ==
    ASSUME tree \in Trees, NEW l, ListIn(l)
    PROVE  /\ l \in Lists /\ l.depth \in Nat /\ l.next \in Nat /\ l.lo \in Nat /\ l.hi \in Nat
           /\ l.recs \in Seq(Records)
           /\ \A i \in DOMAIN l.recs : l.recs[i] \in Records /\ Whole(l.recs[i])
           /\ l.depth = 0 => LeafSound(tree, l)
           /\ l.depth # 0 => InteriorSound(tree, l)
<1>1. Sound(tree)
  BY TreesAssumption
<1>2. l \in Lists /\ ListSound(tree, l)
  BY <1>1 DEF Sound, ListIn
<1>3. /\ l.depth \in Nat /\ l.next \in Nat /\ l.lo \in Nat /\ l.hi \in Nat
      /\ l.recs \in Seq(Records)
  BY <1>2 DEF Lists
<1>4. \A i \in DOMAIN l.recs : l.recs[i] \in Records
  BY <1>3
<1>. QED BY <1>2, <1>3, <1>4 DEF ListSound

\* A leaf of the file is a list of depth 0.
LEMMA LeafIn ==
    ASSUME tree \in Trees, NEW l
    PROVE  /\ l \in Leaves => ListIn(l) /\ l.depth = 0
           /\ ListIn(l) /\ l.depth = 0 /\ (l = tree.root \/ tree.root.depth > 0) => l \in Leaves
<1>1. tree.root \in Lists /\ tree.root.depth \in Nat
  BY TreesAssumption DEF Sound, Lists
<1>2. ASSUME l \in Leaves PROVE ListIn(l) /\ l.depth = 0
  BY <1>2 DEF Leaves, ListIn
<1>3. ASSUME ListIn(l), l.depth = 0, l = tree.root \/ tree.root.depth > 0 PROVE l \in Leaves
  BY <1>1, <1>3 DEF Leaves, ListIn
<1>. QED BY <1>2, <1>3

\* No two leaves are for the same cluster.
LEMMA LeavesApart ==
    ASSUME tree \in Trees, NEW l \in Leaves, NEW m \in Leaves, l # m
    PROVE  l.hi <= m.lo \/ m.hi <= l.lo
<1>1. Sound(tree)
  BY TreesAssumption
<1>. QED BY <1>1 DEF Sound, Leaves

\* An extent lies inside the range of its leaf, and on the disk.
LEMMA ExtentFacts ==
    ASSUME tree \in Trees, NEW r \in Extents
    PROVE  /\ r \in Records /\ Whole(r)
           /\ \E l \in Leaves : \E i \in DOMAIN l.recs : r = l.recs[i]
           /\ Used(r) => OnDisk(r)
<1>1. PICK l \in Leaves : \E i \in DOMAIN l.recs : r = l.recs[i]
  BY DEF Extents
<1>2. PICK i \in DOMAIN l.recs : r = l.recs[i]
  BY <1>1
<1>3. ListIn(l) /\ l.depth = 0
  BY LeafIn
<1>4. LeafSound(tree, l) /\ l.recs[i] \in Records /\ Whole(l.recs[i])
  BY <1>3, ListFacts
<1>5. Used(r) => OnDisk(r)
  BY <1>2, <1>4 DEF LeafSound
<1>. QED BY <1>1, <1>2, <1>4, <1>5

\* An extent that has a cluster of a leaf's range is a record of that leaf.
LEMMA InItsLeaf ==
    ASSUME tree \in Trees, NEW l \in Leaves, NEW r \in Extents, Used(r),
           NEW c \in Nat, l.lo <= c, c < l.hi, r.cpos <= c, c < End(r)
    PROVE  \E i \in DOMAIN l.recs : r = l.recs[i]
<1>1. PICK m \in Leaves : \E i \in DOMAIN m.recs : r = m.recs[i]
  BY ExtentFacts
<1>2. PICK i \in DOMAIN m.recs : r = m.recs[i]
  BY <1>1
<1>3. m.lo <= r.cpos /\ End(r) <= m.hi
  BY <1>2, LeafIn, ListFacts DEF LeafSound
<1>4. /\ m.lo \in Nat /\ m.hi \in Nat /\ l.lo \in Nat /\ l.hi \in Nat
      /\ r.cpos \in Nat /\ End(r) \in Nat
  BY LeafIn, ListFacts, ExtentFacts, RecordFacts
<1>5. ~ (l.hi <= m.lo \/ m.hi <= l.lo)
  BY <1>3, <1>4
<1>6. l = m
  BY <1>5, LeavesApart
<1>. QED BY <1>2, <1>6

\* What it is to be at a cluster.
LEMMA AtFacts ==
    ASSUME tree \in Trees, NEW c \in Nat, NEW r \in At(c)
    PROVE  /\ r \in Extents /\ Used(r) /\ OnDisk(r) /\ r \in Records /\ Whole(r)
           /\ r.cpos <= c /\ c < End(r)
<1>1. r \in Extents /\ r.cpos <= c /\ c < End(r)
  BY DEF At, End
<1>2. r \in Records /\ Whole(r)
  BY <1>1, ExtentFacts
<1>3. r.cpos \in Nat /\ RecClusters(r) \in Nat /\ End(r) = r.cpos + RecClusters(r)
  BY <1>2, RecordFacts
<1>4. Used(r)
  BY <1>1, <1>3 DEF Used
<1>. QED BY <1>1, <1>2, <1>4, ExtentFacts

\* An extent that ends behind a cluster and does not start behind it is at it.
LEMMA AtIs ==
    ASSUME NEW c \in Nat, NEW r \in Extents, r.cpos <= c, c < End(r)
    PROVE  r \in At(c)
BY DEF At, End

\* Two records of a leaf do not share a cluster.
LEMMA LeafOrder ==
    ASSUME tree \in Trees, NEW l \in Leaves
    PROVE  /\ \A i, j \in DOMAIN l.recs : i < j => End(l.recs[i]) <= l.recs[j].cpos
           /\ \A i \in DOMAIN l.recs :
                /\ End(l.recs[i]) <= l.hi
                /\ Used(l.recs[i]) => l.lo <= l.recs[i].cpos /\ OnDisk(l.recs[i])
                /\ ~ Used(l.recs[i]) => i = 1
           /\ \A i \in DOMAIN l.recs :
                /\ l.recs[i] \in Records /\ Whole(l.recs[i]) /\ l.recs[i] \in Extents
                /\ l.recs[i].cpos \in Nat /\ End(l.recs[i]) \in Nat
                /\ l.recs[i].cpos <= End(l.recs[i]) /\ End(l.recs[i]) < M32
                /\ Used(l.recs[i]) => l.recs[i].cpos < End(l.recs[i])
           /\ l.recs \in Seq(Records) /\ l.lo \in Nat /\ l.hi \in Nat /\ l.next \in Nat
           /\ DOMAIN l.recs = 1 .. Len(l.recs) /\ Len(l.recs) \in Nat
<1>1. ListIn(l) /\ l.depth = 0
  BY LeafIn
<1>2. /\ LeafSound(tree, l) /\ l.recs \in Seq(Records)
      /\ l.lo \in Nat /\ l.hi \in Nat /\ l.next \in Nat
      /\ \A i \in DOMAIN l.recs : l.recs[i] \in Records /\ Whole(l.recs[i])
  BY <1>1, ListFacts
<1>3. ASSUME NEW i \in DOMAIN l.recs
      PROVE  /\ l.recs[i] \in Extents
             /\ l.recs[i].cpos \in Nat /\ End(l.recs[i]) \in Nat
             /\ l.recs[i].cpos <= End(l.recs[i]) /\ End(l.recs[i]) < M32
             /\ Used(l.recs[i]) => l.recs[i].cpos < End(l.recs[i])
  <2>1. l.recs[i] \in Extents
    BY DEF Extents
  <2>2. l.recs[i] \in Records /\ Whole(l.recs[i])
    BY <1>2
  <2> DEFINE r == l.recs[i]
  <2>3. /\ r.cpos \in Nat /\ End(r) \in Nat /\ RecClusters(r) \in Nat
        /\ End(r) = r.cpos + RecClusters(r) /\ End(r) < M32
    BY <2>2, RecordFacts
  <2> HIDE DEF r
  <2>4. r.cpos <= End(r) /\ (Used(r) => r.cpos < End(r))
    BY <2>3 DEF Used
  <2>. QED BY <2>1, <2>3, <2>4 DEF r
<1>4. DOMAIN l.recs = 1 .. Len(l.recs) /\ Len(l.recs) \in Nat
  BY <1>2
<1>5. /\ \A i, j \in DOMAIN l.recs : i < j => End(l.recs[i]) <= l.recs[j].cpos
      /\ \A i \in DOMAIN l.recs :
           /\ End(l.recs[i]) <= l.hi
           /\ Used(l.recs[i]) => l.lo <= l.recs[i].cpos /\ OnDisk(l.recs[i])
           /\ ~ Used(l.recs[i]) => i = 1
  BY <1>2 DEF LeafSound
<1>. QED BY <1>2, <1>3, <1>4, <1>5

\* A cluster has at most one extent.
LEMMA OneAt ==
    ASSUME tree \in Trees, NEW c \in Nat, NEW r \in At(c), NEW s \in At(c)
    PROVE  r = s
<1>1. /\ r \in Extents /\ Used(r) /\ r.cpos <= c /\ c < End(r)
      /\ s \in Extents /\ Used(s) /\ s.cpos <= c /\ c < End(s)
  BY AtFacts
<1>2. PICK l \in Leaves : \E i \in DOMAIN l.recs : r = l.recs[i]
  BY <1>1, ExtentFacts
<1>3. PICK i \in DOMAIN l.recs : r = l.recs[i]
  BY <1>2
<1>4. /\ l.lo <= r.cpos /\ End(r) <= l.hi /\ l.lo \in Nat /\ l.hi \in Nat
      /\ r.cpos \in Nat /\ End(r) \in Nat
  BY <1>1, <1>3, LeafOrder
<1>5. l.lo <= c /\ c < l.hi
  BY <1>1, <1>4
<1>6. PICK j \in DOMAIN l.recs : s = l.recs[j]
  BY <1>1, <1>5, InItsLeaf
<1>7. ~ (i < j) /\ ~ (j < i) /\ i \in Nat /\ j \in Nat
  <2>1. /\ i < j => End(r) <= s.cpos
        /\ j < i => End(s) <= r.cpos
    BY <1>3, <1>6, LeafOrder
  <2>2. s.cpos \in Nat /\ End(s) \in Nat
    BY <1>6, LeafOrder
  <2>3. i \in Nat /\ j \in Nat
    BY LeafOrder
  <2>. QED BY <1>1, <1>4, <2>1, <2>2, <2>3
<1>8. i = j
  BY <1>7
<1>. QED BY <1>3, <1>6, <1>8

\* A block of the file in a hole reads as zeroes.
LEMMA HoleBlock ==
    ASSUME NEW b \in Nat, At(b \div Bpc) = {}
    PROVE  FileBlock(b) = 0
BY DEF FileBlock

\* A block of the file in an extent is where the extent says.
LEMMA ExtentBlockIs ==
    ASSUME tree \in Trees, NEW b \in Nat, NEW r \in At(b \div Bpc)
    PROVE  FileBlock(b) = IF r.unwritten THEN 0 ELSE r.blkno + b - r.cpos * Bpc
<1> DEFINE c == b \div Bpc
<1>1. c \in Nat
  BY Within, Widths
<1> DEFINE s == CHOOSE x \in At(c) : TRUE
<1>2. s \in At(c)
  OBVIOUS
<1>3. s = r
  BY <1>1, <1>2, OneAt
<1>. QED BY <1>3 DEF FileBlock

-----------------------------------------------------------------------------
(* The searches.                                                           *)

\* __cmfs_find_path follows the record that is for the cluster.
LEMMA ChildFacts ==
    ASSUME tree \in Trees, NEW l, ListIn(l), l.depth > 0,
           NEW c \in Nat, l.lo <= c, c < l.hi
    PROVE  /\ Child(l, c) \in DOMAIN l.recs
           /\ l.recs[Child(l, c)].cpos <= c
           /\ c < IF Child(l, c) < Len(l.recs) THEN l.recs[Child(l, c) + 1].cpos ELSE l.hi
<1> DEFINE N == Len(l.recs)
           in == {i \in 1 .. N - 1 : c >= l.recs[i].cpos
                                     /\ c < U32(l.recs[i].cpos + RecClusters(l.recs[i]))}
           k == Child(l, c)
<1>1. /\ l.recs \in Seq(Records) /\ InteriorSound(tree, l) /\ l.lo \in Nat /\ l.hi \in Nat
      /\ \A i \in DOMAIN l.recs : l.recs[i] \in Records /\ Whole(l.recs[i])
  BY ListFacts
<1>2. N \in Nat /\ DOMAIN l.recs = 1 .. N /\ N > 0
  BY <1>1 DEF InteriorSound
<1>3. ASSUME NEW i \in 1 .. N
      PROVE  /\ l.recs[i].cpos \in Nat /\ End(l.recs[i]) \in Nat
             /\ End(l.recs[i]) = l.recs[i].cpos + RecClusters(l.recs[i])
             /\ U32(l.recs[i].cpos + RecClusters(l.recs[i])) = End(l.recs[i])
  <2>1. l.recs[i] \in Records /\ Whole(l.recs[i])
    BY <1>1, <1>2
  <2>2. /\ l.recs[i].cpos \in Nat /\ End(l.recs[i]) \in Nat /\ End(l.recs[i]) < M32
        /\ End(l.recs[i]) = l.recs[i].cpos + RecClusters(l.recs[i])
    BY <2>1, RecordFacts
  <2>3. U32(End(l.recs[i])) = End(l.recs[i])
    BY <2>2, Fits
  <2>. QED BY <2>2, <2>3
<1>4. /\ l.recs[1].cpos = l.lo
      /\ \A i \in 1 .. N - 1 : End(l.recs[i]) = l.recs[i + 1].cpos
  BY <1>1 DEF InteriorSound
<1>5. k = IF in = {} THEN N ELSE Min(in)
  BY DEF Child
<1>6. CASE in # {}
  <2>1. in \in SUBSET Nat
    BY <1>2
  <2>2. k \in in
    BY <1>5, <1>6, <2>1, LeastIndex
  <2>3. k \in 1 .. N - 1 /\ l.recs[k].cpos <= c /\ c < End(l.recs[k])
    BY <1>2, <1>3, <2>2
  <2> HIDE DEF k, in
  <2>4. k \in 1 .. N /\ k < N /\ c < l.recs[k + 1].cpos
    BY <1>2, <1>4, <2>3
  <2>. QED BY <1>2, <2>3, <2>4 DEF k
<1>7. CASE in = {}
  <2>1. k = N
    BY <1>5, <1>7
  <2> DEFINE far == {i \in 1 .. N : l.recs[i].cpos > c}
  <2>2. ASSUME far # {} PROVE FALSE
    <3>1. far \in SUBSET Nat
      BY <1>2
    <3> DEFINE j == Min(far)
    <3>2. j \in far /\ \A y \in far : j <= y
      BY <2>2, <3>1, LeastIndex
    <3> HIDE DEF j
    <3>3. j \in 1 .. N /\ l.recs[j].cpos > c
      BY <3>2
    <3>4. j # 1
      BY <1>1, <1>4, <3>3
    <3>5. j - 1 \in 1 .. N - 1 /\ j - 1 \in 1 .. N /\ (j - 1) + 1 = j
      BY <1>2, <3>3, <3>4
    <3>6. ~ (l.recs[j - 1].cpos > c)
      <4>1. j - 1 \in far => j <= j - 1
        BY <3>2
      <4>. QED BY <3>3, <3>5, <4>1
    <3>7. End(l.recs[j - 1]) = l.recs[j].cpos
      BY <1>4, <3>5
    <3>8. c >= l.recs[j - 1].cpos
      BY <1>3, <3>5, <3>6
    <3>9. c < U32(l.recs[j - 1].cpos + RecClusters(l.recs[j - 1]))
      BY <1>3, <3>3, <3>5, <3>7
    <3>10. j - 1 \in in
      BY <3>5, <3>8, <3>9
    <3>. QED BY <1>7, <3>10
  <2>3. N \in 1 .. N /\ ~ (l.recs[N].cpos > c)
    BY <1>2, <2>2
  <2>4. l.recs[N].cpos <= c
    BY <1>3, <2>3
  <2> HIDE DEF k
  <2>. QED BY <1>2, <2>1, <2>3, <2>4 DEF k
<1>. QED BY <1>6, <1>7

\* cmfs_search_extent_list finds the record that has the cluster.
LEMMA HoldingFacts ==
    ASSUME tree \in Trees, NEW l \in Leaves, NEW c \in Nat
    PROVE  /\ Holding(l, c) = 0 => \A i \in DOMAIN l.recs :
                ~ (l.recs[i].cpos <= c /\ c < End(l.recs[i]))
           /\ Holding(l, c) # 0 =>
                /\ Holding(l, c) \in DOMAIN l.recs
                /\ l.recs[Holding(l, c)] \in At(c)
<1> DEFINE in == {i \in 1 .. Len(l.recs) :
                    c >= l.recs[i].cpos /\ c < l.recs[i].cpos + RecClusters(l.recs[i])}
           k == Holding(l, c)
<1>1. /\ DOMAIN l.recs = 1 .. Len(l.recs) /\ Len(l.recs) \in Nat
      /\ \A i \in DOMAIN l.recs : l.recs[i] \in Extents /\ l.recs[i].cpos \in Nat
  BY LeafOrder
<1>2. k = IF in = {} THEN 0 ELSE Min(in)
  BY DEF Holding
<1>3. in \in SUBSET Nat
  BY <1>1
<1>4. ASSUME in # {}
      PROVE  k # 0 /\ k \in DOMAIN l.recs /\ l.recs[k] \in At(c)
  <2>1. k \in in
    BY <1>2, <1>3, <1>4, LeastIndex
  <2>2. k \in 1 .. Len(l.recs) /\ l.recs[k].cpos <= c /\ c < End(l.recs[k])
    BY <1>1, <2>1 DEF End
  <2> HIDE DEF k
  <2>. QED BY <1>1, <2>2, AtIs
<1>5. ASSUME in = {}
      PROVE  k = 0 /\ \A i \in DOMAIN l.recs : ~ (l.recs[i].cpos <= c /\ c < End(l.recs[i]))
  BY <1>1, <1>2, <1>5 DEF End
<1>. QED BY <1>4, <1>5

\* cmfs_search_for_hole_index finds the first record behind the cluster.
LEMMA HoleIndexFacts ==
    ASSUME tree \in Trees, NEW l \in Leaves, NEW c \in Nat
    PROVE  /\ HoleIndex(l, c) \in 1 .. Len(l.recs) + 1
           /\ \A i \in DOMAIN l.recs : i < HoleIndex(l, c) => l.recs[i].cpos <= c
           /\ HoleIndex(l, c) <= Len(l.recs) =>
                HoleIndex(l, c) \in DOMAIN l.recs /\ c < l.recs[HoleIndex(l, c)].cpos
<1> DEFINE in == {i \in 1 .. Len(l.recs) : c < l.recs[i].cpos}
           k == HoleIndex(l, c)
<1>1. /\ DOMAIN l.recs = 1 .. Len(l.recs) /\ Len(l.recs) \in Nat
      /\ \A i \in DOMAIN l.recs : l.recs[i].cpos \in Nat
  BY LeafOrder
<1>2. k = IF in = {} THEN Len(l.recs) + 1 ELSE Min(in)
  BY DEF HoleIndex
<1>3. in \in SUBSET Nat
  BY <1>1
<1>4. CASE in # {}
  <2>1. k \in in /\ \A y \in in : k <= y
    BY <1>2, <1>3, <1>4, LeastIndex
  <2> HIDE DEF k
  <2>2. k \in 1 .. Len(l.recs) /\ c < l.recs[k].cpos
    BY <2>1
  <2>3. ASSUME NEW i \in DOMAIN l.recs, i < k PROVE l.recs[i].cpos <= c
    <3>1. i \notin in
      BY <1>1, <2>1, <2>2, <2>3
    <3>. QED BY <1>1, <3>1
  <2>. QED BY <1>1, <2>2, <2>3 DEF k
<1>5. CASE in = {}
  BY <1>1, <1>2, <1>5
<1>. QED BY <1>4, <1>5

\* The leaf l is for cluster c, which is in none of its extents.
Lacks(l, c) ==
    /\ l.lo <= c /\ c < l.hi
    /\ \A i \in DOMAIN l.recs : ~ (l.recs[i].cpos <= c /\ c < End(l.recs[i]))

\* Then every extent of the file ends before c, is behind c in this leaf, or
\* lies behind the leaf.
LEMMA AroundHole ==
    ASSUME tree \in Trees, NEW l \in Leaves, NEW c \in Nat, Lacks(l, c),
           NEW r \in Extents, Used(r)
    PROVE  \/ End(r) <= c
           \/ l.hi <= r.cpos
           \/ c < r.cpos /\ \E j \in DOMAIN l.recs : r = l.recs[j]
<1>1. PICK m \in Leaves : \E i \in DOMAIN m.recs : r = m.recs[i]
  BY ExtentFacts
<1>2. PICK i \in DOMAIN m.recs : r = m.recs[i]
  BY <1>1
<1>3. /\ m.lo <= r.cpos /\ End(r) <= m.hi /\ m.lo \in Nat /\ m.hi \in Nat
      /\ r.cpos \in Nat /\ End(r) \in Nat
  BY <1>2, LeafOrder
<1>4. l.lo \in Nat /\ l.hi \in Nat /\ l.lo <= c
  BY LeafOrder DEF Lacks
<1>5. CASE m = l
  <2>1. ~ (r.cpos <= c /\ c < End(r))
    BY <1>2, <1>5 DEF Lacks
  <2>2. End(r) <= c \/ c < r.cpos
    BY <1>3, <2>1
  <2>. QED BY <1>2, <1>5, <2>2
<1>6. CASE m # l
  <2>1. l.hi <= m.lo \/ m.hi <= l.lo
    BY <1>6, LeavesApart
  <2>. QED BY <1>3, <1>4, <2>1
<1>. QED BY <1>5, <1>6

\* A hole that a record of the leaf ends.
LEMMA HoleHere ==
    ASSUME tree \in Trees, NEW l \in Leaves, NEW c \in Nat, Lacks(l, c),
           HoleIndex(l, c) <= Len(l.recs)
    PROVE  NoExtent(c, l.recs[HoleIndex(l, c)].cpos)
<1> DEFINE k == HoleIndex(l, c)
           e == l.recs[k].cpos
<1>1. k \in DOMAIN l.recs /\ \A i \in DOMAIN l.recs : i < k => l.recs[i].cpos <= c
  BY HoleIndexFacts
<1> HIDE DEF k
<1>2. /\ e \in Nat /\ e <= End(l.recs[k]) /\ End(l.recs[k]) \in Nat
      /\ End(l.recs[k]) <= l.hi /\ l.hi \in Nat
      /\ DOMAIN l.recs \subseteq Nat
      /\ \A j \in DOMAIN l.recs : k < j => End(l.recs[k]) <= l.recs[j].cpos
  BY <1>1, LeafOrder
<1>3. ASSUME NEW r \in Extents, Used(r) PROVE End(r) <= c \/ e <= r.cpos
  <2>1. r.cpos \in Nat /\ End(r) \in Nat
    BY ExtentFacts, RecordFacts
  <2>2. CASE l.hi <= r.cpos
    BY <1>2, <2>1, <2>2
  <2>3. CASE c < r.cpos /\ \E j \in DOMAIN l.recs : r = l.recs[j]
    <3>1. PICK j \in DOMAIN l.recs : r = l.recs[j]
      BY <2>3
    <3>2. ~ (j < k)
      BY <1>1, <2>1, <2>3, <3>1
    <3>3. j = k \/ k < j
      BY <1>1, <1>2, <3>2
    <3>4. CASE j = k
      BY <1>2, <3>1, <3>4
    <3>5. CASE k < j
      BY <1>2, <2>1, <3>1, <3>5
    <3>. QED BY <3>3, <3>4, <3>5
  <2>. QED BY <1>3, <2>2, <2>3, AroundHole
<1>. QED BY <1>3 DEF NoExtent, k

\* A hole that nothing in the leaf ends goes on to the leaf's end.
LEMMA HoleBeyond ==
    ASSUME tree \in Trees, NEW l \in Leaves, NEW c \in Nat, Lacks(l, c),
           \A i \in DOMAIN l.recs : l.recs[i].cpos <= c
    PROVE  NoExtent(c, l.hi)
<1>1. ASSUME NEW r \in Extents, Used(r) PROVE End(r) <= c \/ l.hi <= r.cpos
  <2>1. r.cpos \in Nat
    BY ExtentFacts, RecordFacts
  <2>2. ~ (c < r.cpos /\ \E j \in DOMAIN l.recs : r = l.recs[j])
    BY <2>1
  <2>. QED BY <1>1, <2>2, AroundHole
<1>. QED BY <1>1 DEF NoExtent

\* The leaf that follows another one.
LEMMA NextLeafFacts ==
    ASSUME tree \in Trees, NEW l \in Leaves, l.next # 0
    PROVE  /\ tree.root.depth > 0
           /\ l.next \in DOMAIN tree.ebs /\ l.next \in SuperBlk .. FsBlocks
           /\ tree.ebs[l.next] \in Leaves /\ tree.ebs[l.next].lo = l.hi
<1>1. ListIn(l) /\ l.depth = 0
  BY LeafIn
<1>2. /\ l.next \in DOMAIN tree.ebs /\ l.next \in SuperBlk .. FsBlocks
      /\ tree.ebs[l.next].depth = 0 /\ tree.ebs[l.next].lo = l.hi
  BY <1>1, ListFacts DEF LeafSound
<1>3. /\ tree.root.depth \in Nat
      /\ tree.root.depth = 0 => tree.root.next = 0
  BY TreesAssumption DEF Sound, Lists
<1>4. tree.root.depth > 0
  BY <1>3 DEF Leaves
<1>5. tree.ebs[l.next] \in Leaves
  BY <1>2, <1>4 DEF Leaves
<1>. QED BY <1>2, <1>4, <1>5

\* The extents of a leaf begin in the order of the leaf, and before it ends.
LEMMA LeafAscends ==
    ASSUME tree \in Trees, NEW m \in Leaves, NEW k \in DOMAIN m.recs
    PROVE  /\ m.recs[k].cpos \in Nat /\ m.recs[k].cpos <= m.hi
           /\ \A j \in DOMAIN m.recs : k <= j => m.recs[k].cpos <= m.recs[j].cpos
<1> DEFINE first == m.recs[k].cpos
           end == End(m.recs[k])
<1>1. /\ first \in Nat /\ end \in Nat /\ m.hi \in Nat /\ first <= end /\ end <= m.hi
      /\ \A j \in DOMAIN m.recs : k < j => end <= m.recs[j].cpos
      /\ \A j \in DOMAIN m.recs : m.recs[j].cpos \in Nat
      /\ \A j \in DOMAIN m.recs : j \in Nat
  BY LeafOrder
<1>2. ASSUME NEW j \in DOMAIN m.recs, k <= j PROVE first <= m.recs[j].cpos
  <2> DEFINE other == m.recs[j].cpos
  <2>1. other \in Nat /\ (j = k \/ end <= other)
    BY <1>1, <1>2
  <2>2. j = k => other = first
    OBVIOUS
  <2> HIDE DEF first, end, other
  <2>3. first <= other
    BY <1>1, <2>1, <2>2
  <2>. QED BY <2>3 DEF other
<1> HIDE DEF first, end
<1>3. first <= m.hi
  BY <1>1
<1>. QED BY <1>1, <1>2, <1>3 DEF first

\* Where an extent begins.
LEMMA ExtentStart == ASSUME tree \in Trees, NEW r \in Extents PROVE r.cpos \in Nat
<1>1. r \in Records /\ Whole(r)
  BY ExtentFacts
<1>. QED BY <1>1, RecordFacts

\* The next leaf ends a hole with its first extent, which cmfs_figure_hole_clusters
\* finds and does not refuse, or with nothing, and then it is the last one.
LEMMA HoleNext ==
    ASSUME tree \in Trees, NEW l \in Leaves, NEW c \in Nat, Lacks(l, c), l.next # 0,
           \A i \in DOMAIN l.recs : l.recs[i].cpos <= c,
           NEW m, m = tree.ebs[l.next], NEW k, k = HoleIndex(m, c)
    PROVE  /\ ~ (k > 1 /\ (k > 2 \/ RecClusters(m.recs[1]) # 0))
           /\ k <= Len(m.recs) => NoExtent(c, m.recs[k].cpos)
           /\ k > Len(m.recs) => NoExtent(c, M32)
<1>1. m \in Leaves /\ m.lo = l.hi
  BY NextLeafFacts
<1>2. /\ k \in 1 .. Len(m.recs) + 1
      /\ \A i \in DOMAIN m.recs : i < k => m.recs[i].cpos <= c
      /\ k <= Len(m.recs) => k \in DOMAIN m.recs /\ c < m.recs[k].cpos
  BY <1>1, HoleIndexFacts
<1>3. /\ m.recs \in Seq(Records) /\ m.lo \in Nat /\ m.hi \in Nat /\ m.next \in Nat
      /\ DOMAIN m.recs = 1 .. Len(m.recs) /\ Len(m.recs) \in Nat /\ l.hi \in Nat
  BY <1>1, LeafOrder
<1>4. c < m.lo
  BY <1>1 DEF Lacks
<1>5. ASSUME NEW i \in DOMAIN m.recs, i < k PROVE i = 1 /\ ~ Used(m.recs[i])
  <2>1. m.recs[i].cpos <= c /\ m.recs[i].cpos \in Nat
    BY <1>1, <1>2, <1>5, LeafOrder
  <2>2. ~ (m.lo <= m.recs[i].cpos)
    BY <1>3, <1>4, <2>1
  <2>. QED BY <1>1, <2>2, LeafOrder
<1>6. ~ (k > 1 /\ (k > 2 \/ RecClusters(m.recs[1]) # 0))
  <2>1. k > 1 => RecClusters(m.recs[1]) = 0
    <3>1. k > 1 => 1 \in DOMAIN m.recs
      BY <1>2, <1>3
    <3>. QED BY <1>5, <3>1 DEF Used
  <2>2. ~ (k > 2)
    <3>1. k > 2 => 2 \in DOMAIN m.recs
      BY <1>2, <1>3
    <3>. QED BY <1>5, <3>1
  <2>. QED BY <2>1, <2>2
<1>7. NoExtent(c, l.hi)
  BY HoleBeyond
<1>8. ASSUME NEW r \in Extents, Used(r), ~ (End(r) <= c)
      PROVE  \/ \E j \in DOMAIN m.recs : r = m.recs[j] /\ k <= j
             \/ m.hi <= r.cpos
  <2>1. PICK n \in Leaves : \E i \in DOMAIN n.recs : r = n.recs[i]
    BY ExtentFacts
  <2>2. PICK i \in DOMAIN n.recs : r = n.recs[i]
    BY <2>1
  <2>3. /\ n.lo <= r.cpos /\ End(r) <= n.hi /\ n.lo \in Nat /\ n.hi \in Nat
        /\ r.cpos \in Nat /\ End(r) \in Nat /\ r.cpos < End(r)
    BY <1>8, <2>2, LeafOrder
  <2>4. l.hi <= r.cpos
    BY <1>7, <1>8 DEF NoExtent
  <2>5. CASE n = m
    <3>1. ~ (i < k)
      BY <1>5, <1>8, <2>2, <2>5
    <3>2. i \in Nat /\ k \in Nat
      <4>1. i \in DOMAIN m.recs
        BY <2>2, <2>5
      <4>2. i \in Nat
        BY <1>3, <4>1
      <4>3. k \in Nat
        BY <1>2, <1>3
      <4>. QED BY <4>2, <4>3
    <3>3. k <= i
      BY <3>1, <3>2
    <3>. QED BY <2>2, <2>5, <3>3
  <2>6. CASE n # m
    <3>1. n.hi <= m.lo \/ m.hi <= n.lo
      BY <1>1, <2>6, LeavesApart
    <3>. QED BY <1>1, <1>3, <2>3, <2>4, <3>1
  <2>. QED BY <2>5, <2>6
<1>9. ASSUME k <= Len(m.recs) PROVE NoExtent(c, m.recs[k].cpos)
  <2>1. k \in DOMAIN m.recs
    BY <1>2, <1>9
  <2>2. m.recs[k].cpos <= m.hi /\ \A j \in DOMAIN m.recs : k <= j => m.recs[k].cpos <= m.recs[j].cpos
    BY <1>1, <2>1, LeafAscends
  <2>3. ASSUME NEW r \in Extents, Used(r), ~ (End(r) <= c) PROVE m.recs[k].cpos <= r.cpos
    <3>1. CASE m.hi <= r.cpos
      <4> DEFINE first == m.recs[k].cpos
      <4>1. first \in Nat /\ r.cpos \in Nat /\ m.hi \in Nat /\ first <= m.hi
        BY <1>1, <1>3, <2>1, <2>2, LeafAscends, ExtentStart
      <4> HIDE DEF first
      <4>2. first <= r.cpos
        BY <3>1, <4>1
      <4>. QED BY <4>2 DEF first
    <3>2. CASE \E j \in DOMAIN m.recs : r = m.recs[j] /\ k <= j
      BY <2>2, <3>2
    <3>. QED BY <1>8, <2>3, <3>1, <3>2
  <2>. QED BY <2>3 DEF NoExtent
<1>10. ASSUME k > Len(m.recs) PROVE NoExtent(c, M32)
  <2>1. \A i \in DOMAIN m.recs : i < k
    BY <1>2, <1>3, <1>10
  <2>2. \A i \in DOMAIN m.recs : ~ Used(m.recs[i])
    BY <1>5, <2>1
  <2>3. m.hi = M32
    <3>1. LeafSound(tree, m)
      BY <1>1, LeafIn, ListFacts
    <3>. QED BY <2>2, <3>1 DEF LeafSound
  <2>4. ASSUME NEW r \in Extents, Used(r), ~ (End(r) <= c) PROVE M32 <= r.cpos
    <3>1. ~ \E j \in DOMAIN m.recs : r = m.recs[j] /\ k <= j
      BY <2>2, <2>4
    <3>. QED BY <1>8, <2>3, <2>4, <3>1
  <2>. QED BY <2>4 DEF NoExtent
<1>. QED BY <1>6, <1>9, <1>10

-----------------------------------------------------------------------------
(* From the answer of the lookup to the buffer.                            *)

\* contig_blocks is never more than what is wanted, whatever wraps.
LEMMA ContigBounds ==
    ASSUME v \in Nat, wanted \in Nat, map.num \in Nat
    PROVE  Contig \in Nat /\ Contig <= wanted
<1> DEFINE x == ClustersToBlocks(map.num) - Boff + M64
<1>1. Boff \in Nat
  BY Within, Widths DEF Boff
<1>2. ClustersToBlocks(map.num) \in Int
  <2>1. U32(map.num) \in Int
    BY Widths DEF U32
  <2>2. U32(map.num) * Bpc \in Int
    BY <2>1, Widths
  <2>. QED BY <2>2, Widths DEF ClustersToBlocks, U32
<1>3. x \in Int
  BY <1>1, <1>2, Widths
<1> HIDE DEF x
<1>4. U64(x) \in Nat
  BY <1>3, Wraps
<1>5. Contig = IF U64(x) > wanted THEN wanted ELSE U64(x)
  BY DEF Contig, x
<1>. QED BY <1>4, <1>5

\* A run that ends below 2^32 blocks is not left.
LEMMA ContigInside ==
    ASSUME v \in Nat, wanted \in Nat, NEW e \in Nat, Cpos < e, map.num = e - Cpos,
           e * Bpc < M32
    PROVE  v + Contig <= e * Bpc
<1> DEFINE n == e - Cpos
           a == Cpos * Bpc
           b == e * Bpc
           y == n * Bpc
<1>1. /\ Cpos \in Nat /\ Boff \in Nat /\ Boff < Bpc /\ v = a + Boff
  BY Within, Widths DEF Cpos, Boff, BlocksToClusters
<1>2. /\ a \in Nat /\ b \in Nat /\ y = b - a /\ a + Bpc <= b
  BY <1>1, Scaled, Widths
<1>3. n \in Nat
  BY <1>1
<1>4. n <= y
  BY <1>3, Scaled, Widths
<1> HIDE DEF a, b, y, n
<1>5. y \in Nat /\ n < M32 /\ y < M32 /\ Bpc <= y
  BY <1>1, <1>2, <1>3, <1>4, Widths DEF b
<1>6. ClustersToBlocks(n) = y
  <2>1. U32(n) = n
    BY <1>3, <1>5, Fits
  <2>2. U32(y) = y
    BY <1>5, Fits
  <2>3. U32(n * Bpc) = n * Bpc
    BY <2>2 DEF y
  <2>. QED BY <2>1, <2>3 DEF ClustersToBlocks, y
<1> DEFINE d == y - Boff
<1>7. d \in Nat /\ d < M64
  BY <1>1, <1>5, Widths
<1>8. U64(d + M64) = d
  BY <1>7, Fits
<1>9. Contig = IF d > wanted THEN wanted ELSE d
  <2>1. map.num = n
    BY DEF n
  <2>. QED BY <1>6, <1>8, <2>1 DEF Contig, d
<1>10. Contig <= d
  BY <1>7, <1>9
<1>11. v + d = b
  BY <1>1, <1>2
<1>12. Contig \in Nat
  BY <1>7, <1>9
<1> HIDE DEF d
<1>13. v + Contig <= b
  BY <1>7, <1>10, <1>11, <1>12
<1>. QED BY <1>13 DEF b

\* The cluster of the blocks that follow v is between its own and e.
LEMMA RunClusters ==
    ASSUME v \in Nat, NEW k \in Nat, NEW e \in Nat, v + k < e * Bpc
    PROVE  /\ (v + k) \div Bpc \in Nat
           /\ Cpos <= (v + k) \div Bpc /\ (v + k) \div Bpc < e
<1>1. Cpos \in Nat /\ Cpos * Bpc <= v
  <2>1. Cpos \in Nat
    BY Within, Widths DEF Cpos, BlocksToClusters
  <2>2. Cpos <= v \div Bpc
    BY <2>1 DEF Cpos, BlocksToClusters
  <2>. QED BY <2>1, <2>2, Before, Widths
<1>2. v + k \in Nat
  OBVIOUS
<1>3. Cpos * Bpc \in Nat
  BY <1>1, Scaled, Widths
<1>4. Cpos * Bpc <= v + k
  BY <1>1, <1>3
<1>5. Cpos <= (v + k) \div Bpc
  BY <1>1, <1>2, <1>4, Before, Widths
<1>6. (v + k) \div Bpc < e
  BY <1>2, Before, Widths
<1>7. (v + k) \div Bpc \in Nat
  BY <1>2, Within, Widths
<1>. QED BY <1>5, <1>6, <1>7

\* No extent is at a cluster of a hole.
LEMMA HoleAt ==
    ASSUME tree \in Trees, NEW a \in Nat, NEW e \in Nat, NoExtent(a, e),
           NEW c \in Nat, a <= c, c < e
    PROVE  At(c) = {}
<1>1. ASSUME NEW r \in At(c) PROVE FALSE
  <2>1. r \in Extents /\ Used(r) /\ r.cpos <= c /\ c < End(r) /\ r \in Records /\ Whole(r)
    BY AtFacts
  <2>2. r.cpos \in Nat /\ End(r) \in Nat
    BY <2>1, RecordFacts
  <2>3. End(r) <= a \/ e <= r.cpos
    BY <2>1 DEF NoExtent
  <2>. QED BY <2>1, <2>2, <2>3
<1>. QED BY <1>1

\* What the loop puts into the buffer for a hole is the file.
LEMMA HoleFill ==
    ASSUME tree \in Trees, v \in Nat, wanted \in Nat, map.num \in Nat, HoleRun,
           v + wanted <= M32, NEW k \in Nat, k < Contig
    PROVE  Zeroed /\ FileBlock(v + k) = 0
<1>1. PICK e \in 1 .. M32 : /\ Cpos < e /\ NoExtent(Cpos, e)
                            /\ e = M32 \/ (map.num = e - Cpos /\ e * Bpc < M32)
  BY DEF HoleRun
<1>2. map.p = 0
  BY DEF HoleRun
<1>3. Zeroed
  BY <1>2 DEF Zeroed, PBlkno
<1>4. e \in Nat /\ Cpos \in Nat /\ M32 \in Nat
  BY Within, Widths DEF Cpos, BlocksToClusters
<1>5. Contig \in Nat /\ Contig <= wanted
  BY ContigBounds
<1>6. v + k < e * Bpc
  <2>1. CASE e = M32
    <3>1. v + k < M32
      BY <1>4, <1>5
    <3>2. M32 <= M32 * Bpc /\ M32 * Bpc \in Nat
      BY Scaled, Widths
    <3>. QED BY <1>4, <2>1, <3>1, <3>2
  <2>2. CASE map.num = e - Cpos /\ e * Bpc < M32
    <3>1. v + Contig <= e * Bpc
      BY <1>1, <1>4, <2>2, ContigInside
    <3>2. e * Bpc \in Nat
      BY <1>4, Scaled, Widths
    <3>. QED BY <1>5, <3>1, <3>2
  <2>. QED BY <1>1, <2>1, <2>2
<1> DEFINE c == (v + k) \div Bpc
<1>7. c \in Nat /\ Cpos <= c /\ c < e
  BY <1>4, <1>6, RunClusters
<1>8. At(c) = {}
  BY <1>1, <1>4, <1>7, HoleAt
<1>9. FileBlock(v + k) = 0
  BY <1>8, HoleBlock
<1>. QED BY <1>3, <1>9

\* What the loop puts into the buffer for an extent is the file.
LEMMA ExtentFill ==
    ASSUME tree \in Trees, v \in Nat, wanted \in Nat, ExtentRun, NEW k \in Nat, k < Contig
    PROVE  FileBlock(v + k) = (IF Zeroed THEN 0 ELSE PBlkno + k) /\ PBlkno \in Nat
<1>1. PICK r \in At(Cpos) :
        map = [p |-> BlocksToClusters(r.blkno) + (Cpos - r.cpos), num |-> End(r) - Cpos,
               unwritten |-> r.unwritten]
  BY DEF ExtentRun
<1>2. Cpos \in Nat /\ Boff \in Nat /\ v = Cpos * Bpc + Boff
  BY Within, Widths DEF Cpos, Boff, BlocksToClusters
<1>3. r \in Extents /\ Used(r) /\ OnDisk(r) /\ r \in Records /\ Whole(r) /\ r.cpos <= Cpos /\ Cpos < End(r)
  BY <1>2, AtFacts
<1>4. /\ r.cpos \in Nat /\ r.n \in Nat /\ r.blkno \in Nat /\ RecClusters(r) \in Nat
      /\ RecClusters(r) * Bpc = r.n /\ End(r) \in Nat /\ End(r) = r.cpos + RecClusters(r)
      /\ End(r) * Bpc < M32
  BY <1>3, RecordFacts
<1>5. v + Contig <= End(r) * Bpc
  BY <1>1, <1>3, <1>4, ContigInside
<1>6. map.num \in Nat
  BY <1>1, <1>2, <1>3, <1>4
<1>7. Contig \in Nat
  BY <1>6, ContigBounds
<1>8. v + k < End(r) * Bpc
  <2>1. End(r) * Bpc \in Nat
    BY <1>4, Scaled, Widths
  <2>. QED BY <1>5, <1>7, <2>1
<1> DEFINE c == (v + k) \div Bpc
<1>9. c \in Nat /\ Cpos <= c /\ c < End(r)
  BY <1>4, <1>8, RunClusters
<1>10. r \in At(c)
  BY <1>2, <1>3, <1>4, <1>9, AtIs
<1>11. FileBlock(v + k) = IF r.unwritten THEN 0 ELSE r.blkno + (v + k) - r.cpos * Bpc
  BY <1>10, ExtentBlockIs
<1> DEFINE q == r.blkno \div Bpc
           a == q * Bpc
           s == r.cpos * Bpc
           t == Cpos * Bpc
<1>12. q \in Nat /\ a = r.blkno /\ q > 0
  <2>1. r.blkno % Bpc = 0 /\ Bpc <= r.blkno
    BY <1>3 DEF OnDisk
  <2>2. q \in Nat /\ r.blkno = a + (r.blkno % Bpc)
    BY <1>4, Within, Widths
  <2>3. a \in Nat
    BY <2>2, Scaled, Widths
  <2>4. a = r.blkno
    BY <1>4, <2>1, <2>2, <2>3
  <2>5. 1 <= q <=> 1 * Bpc <= r.blkno
    BY <1>4, Before, Widths
  <2>6. 1 * Bpc = Bpc
    BY Widths
  <2> HIDE DEF q, a
  <2>. QED BY <2>1, <2>2, <2>4, <2>5, <2>6
<1>13. s \in Nat /\ t \in Nat /\ s <= t /\ (Cpos - r.cpos) * Bpc = t - s
  BY <1>2, <1>3, <1>4, Scaled, Widths
<1>14. t + Bpc <= s + r.n
  <2>1. Cpos * Bpc + Bpc <= End(r) * Bpc
    BY <1>2, <1>3, <1>4, Scaled, Widths
  <2>2. End(r) * Bpc = r.cpos * Bpc + RecClusters(r) * Bpc
    BY <1>4, Scaled, Widths
  <2>. QED BY <1>4, <2>1, <2>2
<1> DEFINE p == q + (Cpos - r.cpos)
<1>15. p \in Nat /\ p > 0
  BY <1>2, <1>3, <1>4, <1>12
<1>16. p * Bpc = a + (t - s)
  <2>1. Cpos - r.cpos \in Nat
    BY <1>2, <1>3, <1>4
  <2>. QED BY <1>12, <1>13, <2>1, Scaled, Widths
<1>17. p * Bpc < M32 /\ p * Bpc \in Nat /\ p < M32
  <2>1. r.blkno + r.n <= M32
    BY <1>3 DEF OnDisk
  <2>2. p * Bpc \in Nat /\ p <= p * Bpc
    BY <1>15, Scaled, Widths
  <2> HIDE DEF p, a, s, t
  <2>3. p * Bpc < M32
    BY <1>4, <1>12, <1>13, <1>14, <1>16, <2>1, <2>2, Widths
  <2>. QED BY <1>15, <2>2, <2>3, Widths
<1>18. ClustersToBlocks(p) = p * Bpc
  <2>1. U32(p) = p /\ U32(p * Bpc) = p * Bpc
    BY <1>15, <1>17, Fits
  <2> HIDE DEF p
  <2>. QED BY <2>1 DEF ClustersToBlocks
<1>19. map.p = p /\ map.unwritten = r.unwritten
  BY <1>1 DEF BlocksToClusters
<1>20. PBlkno = p * Bpc + Boff
  <2> HIDE DEF p
  <2>. QED BY <1>15, <1>18, <1>19 DEF PBlkno
<1> HIDE DEF p, a, s, t, q
<1>21. PBlkno \in Nat /\ PBlkno > 0
  <2>1. p <= p * Bpc
    BY <1>15, Scaled, Widths
  <2>. QED BY <1>2, <1>15, <1>17, <1>20, <2>1
<1>22. PBlkno + k = r.blkno + (v + k) - s
  <2>1. v = t + Boff
    BY <1>2 DEF t
  <2>. QED BY <1>2, <1>4, <1>12, <1>13, <1>16, <1>20, <2>1
<1>23. Zeroed <=> r.unwritten
  BY <1>19, <1>21 DEF Zeroed
<1>. QED BY <1>11, <1>21, <1>22, <1>23 DEF s

\* What the lookup says of a run is true of each of its clusters.
LEMMA UniformRuns == Inv => RunUniform
<1>1. SUFFICES ASSUME Inv, pc = "mapped" PROVE RunUniform
  BY DEF RunUniform
<1>2. tree \in Trees /\ v \in Nat /\ (HoleRun \/ ExtentRun)
  BY <1>1 DEF Inv, CallOk, TypeOK, MapRight
<1> DEFINE Ends == UNION {{r.cpos + j : j \in 0 .. RecClusters(r)} : r \in Extents}
<1>3. Cpos \in Nat
  BY <1>2, Within, Widths DEF Cpos, BlocksToClusters
<1>4. ASSUME NEW c \in {x \in Ends : Cpos <= x /\ x < Cpos + map.num} \cup {Cpos}
      PROVE  IF map.p = 0 THEN At(c) = {}
             ELSE \E r \in At(c) : /\ BlocksToClusters(r.blkno) + c - r.cpos = map.p + c - Cpos
                                   /\ r.unwritten = map.unwritten
  <2>1. c \in Nat /\ Cpos <= c /\ (c = Cpos \/ (c \in Ends /\ c < Cpos + map.num))
    <3>1. ASSUME c \in Ends PROVE c \in Nat
      <4>1. PICK r \in Extents : c \in {r.cpos + j : j \in 0 .. RecClusters(r)}
        BY <3>1
      <4>2. r.cpos \in Nat /\ RecClusters(r) \in Nat
        BY <1>2, ExtentFacts, RecordFacts
      <4>. QED BY <4>1, <4>2
    <3>. QED BY <1>3, <3>1
  <2>2. CASE HoleRun
    <3>1. PICK e \in 1 .. M32 : /\ Cpos < e /\ NoExtent(Cpos, e)
                                /\ e = M32 \/ (map.num = e - Cpos /\ e * Bpc < M32)
      BY <2>2 DEF HoleRun
    <3>2. e \in Nat
      BY Widths
    <3>3. c < e
      <4>1. CASE c = Cpos
        BY <3>1, <4>1
      <4>2. CASE c \in Ends /\ e = M32
        <5>1. PICK r \in Extents : c \in {r.cpos + j : j \in 0 .. RecClusters(r)}
          BY <4>2
        <5>2. /\ r.cpos \in Nat /\ RecClusters(r) \in Nat /\ End(r) = r.cpos + RecClusters(r)
              /\ End(r) < M32
          BY <1>2, ExtentFacts, RecordFacts
        <5>. QED BY <4>2, <5>1, <5>2, Widths
      <4>3. CASE c < Cpos + map.num /\ map.num = e - Cpos
        BY <1>3, <3>2, <4>3
      <4>. QED BY <2>1, <3>1, <4>1, <4>2, <4>3
    <3>4. At(c) = {}
      BY <1>2, <1>3, <2>1, <3>1, <3>2, <3>3, HoleAt
    <3>5. map.p = 0
      BY <2>2 DEF HoleRun
    <3>. QED BY <3>4, <3>5
  <2>3. CASE ExtentRun
    <3>1. PICK r \in At(Cpos) :
            map = [p |-> BlocksToClusters(r.blkno) + (Cpos - r.cpos), num |-> End(r) - Cpos,
                   unwritten |-> r.unwritten]
      BY <2>3 DEF ExtentRun
    <3>2. /\ r \in Extents /\ r \in Records /\ Whole(r) /\ OnDisk(r)
          /\ r.cpos <= Cpos /\ Cpos < End(r)
      BY <1>2, <1>3, AtFacts
    <3>3. r.cpos \in Nat /\ End(r) \in Nat /\ r.blkno \in Nat
      BY <3>2, RecordFacts
    <3>4. map.num = End(r) - Cpos /\ map.unwritten = r.unwritten
          /\ map.p = BlocksToClusters(r.blkno) + (Cpos - r.cpos)
      BY <3>1
    <3>5. c < End(r)
      BY <1>3, <2>1, <3>2, <3>3, <3>4
    <3>6. r \in At(c)
      BY <1>3, <2>1, <3>2, <3>3, <3>5, AtIs
    <3>7. BlocksToClusters(r.blkno) \in Nat /\ BlocksToClusters(r.blkno) > 0
      <4>1. Bpc <= r.blkno
        BY <3>2 DEF OnDisk
      <4>2. r.blkno \div Bpc \in Nat /\ (1 <= r.blkno \div Bpc <=> 1 * Bpc <= r.blkno)
        BY <3>3, Within, Before, Widths
      <4>3. 1 * Bpc = Bpc
        BY Widths
      <4>. QED BY <4>1, <4>2, <4>3 DEF BlocksToClusters
    <3>8. map.p # 0
      BY <1>3, <3>2, <3>3, <3>4, <3>7
    <3>9. BlocksToClusters(r.blkno) + c - r.cpos = map.p + c - Cpos
      BY <1>3, <2>1, <3>3, <3>4, <3>7
    <3>. QED BY <3>4, <3>6, <3>8, <3>9
  <2>. QED BY <1>2, <2>2, <2>3
<1>. QED BY <1>1, <1>4 DEF RunUniform

-----------------------------------------------------------------------------
(* The steps.                                                              *)

\* What a file is does not change while it is read.
LEMMA SameFile ==
    ASSUME tree' = tree
    PROVE  /\ Leaves' = Leaves /\ Extents' = Extents
           /\ \A c : At(c)' = At(c)
           /\ \A b : FileBlock(b)' = FileBlock(b)
           /\ Damage' <=> Damage
           /\ NumBlocks' = NumBlocks
<1>1. Leaves' = Leaves
  BY DEF Leaves
<1>2. Extents' = Extents
  BY <1>1 DEF Extents
<1>3. \A c : At(c)' = At(c)
  BY <1>2 DEF At
<1>4. ASSUME NEW b PROVE FileBlock(b)' = FileBlock(b)
  <2> DEFINE of(in) == IF in = {} \/ (CHOOSE x \in in : TRUE).unwritten THEN 0
                       ELSE (CHOOSE x \in in : TRUE).blkno + b
                            - (CHOOSE x \in in : TRUE).cpos * Bpc
  <2>1. FileBlock(b) = of(At(b \div Bpc))
    BY DEF FileBlock
  <2>2. FileBlock(b)' = of(At(b \div Bpc)')
    BY DEF FileBlock
  <2>3. At(b \div Bpc)' = At(b \div Bpc)
    BY <1>3
  <2> HIDE DEF of
  <2>. QED BY <2>1, <2>2, <2>3
<1>5. Damage' <=> Damage
  BY DEF Damage
<1>6. NumBlocks' = NumBlocks
  BY DEF NumBlocks
<1>. QED BY <1>1, <1>2, <1>3, <1>4, <1>5, <1>6

\* Whatever leaves the call, the buffer and the count alone keeps what is said
\* of them.
LEMMA SameBuffer ==
    ASSUME BufferIsFile, UNCHANGED <<tree, offset, buf, got>>
    PROVE  BufferIsFile'
<1>1. \A b : FileBlock(b)' = FileBlock(b)
  BY SameFile
<1>. QED BY <1>1 DEF BufferIsFile

\* The call has a first block and a number of blocks.
LEMMA CallFacts ==
    ASSUME CallOk
    PROVE  /\ First \in Nat /\ Asked \in Nat
           /\ tree.size \in Nat /\ NumBlocks \in Nat /\ NumBlocks <= M32
           /\ tree.root \in Lists /\ tree.root.lo = 0 /\ tree.root.hi = M32
           /\ tree.root.depth \in Nat
<1>1. Sound(tree) /\ offset \in Nat /\ count \in Nat
  BY TreesAssumption DEF CallOk
<1>2. First \in Nat /\ Asked \in Nat
  BY <1>1, Within, Widths DEF First, Asked
<1>3. tree.size \in Nat /\ (tree.size + Bsz - 1) \div Bsz <= M32
  BY <1>1 DEF Sound
<1>4. tree.size + Bsz - 1 \in Nat
  BY <1>3, Widths
<1>5. NumBlocks \in Nat /\ NumBlocks <= M32
  BY <1>3, <1>4, Within, Widths DEF NumBlocks
<1>6. tree.root \in Lists /\ tree.root.lo = 0 /\ tree.root.hi = M32 /\ tree.root.depth \in Nat
  BY <1>1 DEF Sound, Lists
<1>. QED BY <1>2, <1>3, <1>5, <1>6

\* A call that has just been made.
LEMMA InitInv == Init => Inv
<1>1. SUFFICES ASSUME Init PROVE Inv
  OBVIOUS
<1>2. CallOk
  BY <1>1, CallsAssumption DEF Init, CallOk
<1>3. Asked \in Nat
  BY <1>2, CallFacts
<1>4. TypeOK
  <2>1. /\ pc = "start" /\ ret = "none" /\ v = 0 /\ wanted = 0 /\ got = 0
        /\ map = [p |-> 0, num |-> 0, unwritten |-> FALSE]
        /\ DOMAIN buf = 0 .. (count \div Bsz) - 1 /\ count \in Nat
    BY <1>1, <1>2 DEF Init, CallOk
  <2>2. map.num = 0 /\ map.p = 0
    BY <2>1
  <2>3. 0 \in 0 .. M64 - 1 /\ 0 \in Nat
    BY Widths
  <2>4. 0 \in 0 .. count \div Bsz /\ 0 \in 0 .. count
    BY <1>3, <2>1 DEF Asked
  <2>. QED BY <2>1, <2>2, <2>3, <2>4 DEF TypeOK
<1>5. OnPath /\ NotHere /\ MapRight /\ Progress /\ GotAll /\ SoundTreeIsRead
  BY <1>1 DEF Init, OnPath, NotHere, MapRight, Progress, GotAll, SoundTreeIsRead
<1>6. BufferIsFile
  <2>1. ASSUME NEW i \in DOMAIN buf PROVE ~ (i * Bsz < got)
    <3>1. i \in Nat /\ got = 0
      BY <1>1, <1>3 DEF Init, Asked
    <3>2. i * Bsz \in Nat
      BY <3>1, Scaled, Widths
    <3>. QED BY <3>1, <3>2
  <2>. QED BY <2>1 DEF BufferIsFile
<1>. QED BY <1>2, <1>4, <1>5, <1>6 DEF Inv

\* Every way to give up: the reason is one of those that the properties allow.
LEMMA FailKeeps ==
    ASSUME Inv, NEW r \in {"io", "invalid", "badblkno", "badmagic", "corrupt"}, Fail(r),
           r \in {"badblkno", "badmagic", "corrupt"} => Damage
    PROVE  Inv'
<1>1. /\ UNCHANGED <<tree, offset, count, el, v, wanted, map, got, buf>>
      /\ pc' = "done" /\ ret' = r
  BY DEF Fail, Return, call
<1>2. CallOk' /\ TypeOK'
  BY <1>1 DEF Inv, CallOk, TypeOK
<1>3. BufferIsFile'
  BY <1>1, SameBuffer DEF Inv
<1>4. OnPath' /\ NotHere' /\ MapRight' /\ Progress'
  BY <1>1 DEF Inv, OnPath, NotHere, MapRight, Progress
<1>5. GotAll'
  BY <1>1 DEF GotAll
<1>6. SoundTreeIsRead'
  BY <1>1, SameFile DEF SoundTreeIsRead
<1>. QED BY <1>2, <1>3, <1>4, <1>5, <1>6 DEF Inv

\* The answer of a lookup.
LEMMA MappedKeeps ==
    ASSUME Inv, pc \notin {"start", "done"}, NEW p \in Nat, NEW num \in Int, NEW u,
           Mapped(p, num, u), HoleRun' \/ ExtentRun'
    PROVE  Inv'
<1>1. /\ UNCHANGED <<tree, offset, count, el, v, wanted, got, buf, ret>>
      /\ pc' = "mapped" /\ map' = [p |-> p, num |-> U64(num), unwritten |-> u]
  BY DEF Mapped, call
<1>2. U64(num) \in 0 .. M64 - 1
  BY Wraps, Widths
<1>3. CallOk' /\ TypeOK'
  BY <1>1, <1>2 DEF Inv, CallOk, TypeOK
<1>4. BufferIsFile'
  BY <1>1, SameBuffer DEF Inv
<1>5. OnPath' /\ NotHere' /\ MapRight'
  BY <1>1 DEF Inv, OnPath, NotHere, MapRight
<1>6. Progress'
  BY <1>1 DEF Inv, Progress, Aligned, First, Asked, Clip, NumBlocks
<1>7. GotAll' /\ SoundTreeIsRead'
  BY <1>1 DEF GotAll, SoundTreeIsRead
<1>. QED BY <1>3, <1>4, <1>5, <1>6, <1>7 DEF Inv

\* A step of the lookup that only moves on.
LEMMA WalkKeeps ==
    ASSUME Inv, pc \notin {"start", "done"}, pc' \in {"descend", "search", "hole", "nextleaf"},
           UNCHANGED <<tree, offset, count, v, wanted, map, got, buf, ret>>,
           OnPath', NotHere'
    PROVE  Inv'
<1>1. CallOk' /\ TypeOK'
  BY DEF Inv, CallOk, TypeOK
<1>2. BufferIsFile'
  BY SameBuffer DEF Inv
<1>3. MapRight'
  BY DEF MapRight
<1>4. Progress'
  BY DEF Inv, Progress, Aligned, First, Asked, Clip, NumBlocks
<1>5. GotAll' /\ SoundTreeIsRead'
  BY DEF GotAll, SoundTreeIsRead
<1>. QED BY <1>1, <1>2, <1>3, <1>4, <1>5 DEF Inv

\* The list the walk is at belongs to the tree; a leaf it is at is one of the
\* file's.
LEMMA ElFacts ==
    ASSUME Inv
    PROVE  /\ ListIn(el) /\ Cpos \in Nat /\ tree \in Trees
           /\ el.depth = 0 => el \in Leaves
<1>1. tree \in Trees /\ OnPath /\ v \in Nat
  BY DEF Inv, CallOk, TypeOK
<1>2. Cpos \in Nat
  BY <1>1, Within, Widths DEF Cpos, BlocksToClusters
<1>3. ListIn(el) /\ (el = tree.root \/ tree.root.depth > 0)
  BY <1>1 DEF OnPath, ListIn
<1>. QED BY <1>1, <1>2, <1>3, LeafIn

\* What a block that may be used is, and why one may not.
LEMMA BlockFacts ==
    ASSUME NEW b \in Nat
    PROVE  /\ ExtentBlock(b) \in {"ok", "badblkno", "badmagic", "corrupt"}
           /\ ExtentBlock(b) = "ok" => b \in DOMAIN tree.ebs /\ b \in SuperBlk .. FsBlocks
           /\ ExtentBlock(b) # "ok" /\ b \in SuperBlk .. FsBlocks /\ b \in DOMAIN tree.ebs
                => Damage
           /\ b = 0 => ExtentBlock(b) = "badblkno"
<1>1. FsBlocks \in Nat /\ SuperBlk = 2
  BY Widths DEF SuperBlk
<1>2. b \in SuperBlk .. FsBlocks <=> ~ (b < SuperBlk \/ b > FsBlocks)
  BY <1>1
<1>. QED BY <1>1, <1>2 DEF ExtentBlock, Damage

\* The loop starts a lookup at the root.
LEMMA EnterRoot ==
    ASSUME CallOk, CallOk', tree' = tree, Enter(tree.root), v' \in Nat, v' < NumBlocks
    PROVE  OnPath' /\ NotHere' /\ MapRight' /\ pc' \in {"descend", "search"}
<1>1. /\ NumBlocks \in Nat /\ NumBlocks <= M32
      /\ tree.root.lo = 0 /\ tree.root.hi = M32 /\ tree.root.depth \in Nat
  BY CallFacts
<1>2. el' = tree.root /\ pc' = IF tree.root.depth > 0 THEN "descend" ELSE "search"
  BY DEF Enter
<1>3. Cpos' \in Nat /\ Cpos' < M32
  <2>1. Cpos' = v' \div Bpc
    BY DEF Cpos, BlocksToClusters
  <2>2. v' \div Bpc \in Nat
    BY Within, Widths
  <2>3. M32 <= M32 * Bpc /\ M32 * Bpc \in Nat
    BY Scaled, Widths
  <2>4. v' < M32 * Bpc
    BY <1>1, <2>3, Widths
  <2>5. v' \div Bpc < M32
    BY <2>4, Before, Widths
  <2>. QED BY <2>1, <2>2, <2>5
<1>4. OnPath'
  BY <1>1, <1>2, <1>3 DEF OnPath
<1>. QED BY <1>2, <1>4 DEF NotHere, MapRight

\* StartRead: the request is cut off at the end of the file.
LEMMA StartKeeps == ASSUME Inv, StartRead PROVE Inv'
<1>1. CallOk /\ pc = "start" /\ got = 0
  BY DEF Inv, StartRead, Progress
<1>2. First \in Nat /\ Asked \in Nat /\ NumBlocks \in Nat /\ tree.size \in Nat
  BY <1>1, CallFacts
<1>3. CASE Fail("invalid")
  BY <1>3, FailKeeps
<1>4. CASE Aligned /\ (First >= NumBlocks \/ Asked = 0) /\ Fail("ok")
  <2>1. /\ UNCHANGED <<tree, offset, count, el, v, wanted, map, got, buf>>
        /\ pc' = "done" /\ ret' = "ok"
    BY <1>4 DEF Fail, Return, call
  <2>2. CallOk' /\ TypeOK'
    BY <2>1 DEF Inv, CallOk, TypeOK
  <2>3. BufferIsFile'
    BY <2>1, SameBuffer DEF Inv
  <2>4. OnPath' /\ NotHere' /\ MapRight' /\ Progress' /\ SoundTreeIsRead'
    BY <2>1 DEF Inv, OnPath, NotHere, MapRight, Progress, SoundTreeIsRead
  <2>5. offset >= tree.size \/ count = 0
    <3>1. offset = First * Bsz /\ count = Asked * Bsz /\ offset \in Nat /\ count \in Nat
      <4>1. offset \in Nat /\ count \in Nat
        BY <1>1 DEF CallOk
      <4>2. /\ offset = First * Bsz + (offset % Bsz) /\ offset % Bsz = 0
            /\ count = Asked * Bsz + (count % Bsz) /\ count % Bsz = 0
        BY <1>4, <4>1, Within, Widths DEF First, Asked, Aligned
      <4>3. First * Bsz \in Nat /\ Asked * Bsz \in Nat
        BY <1>2, Scaled, Widths
      <4>. QED BY <4>1, <4>2, <4>3
    <3>2. CASE Asked = 0
      BY <3>1, <3>2, Widths
    <3>3. CASE First >= NumBlocks
      <4> DEFINE x == tree.size + Bsz - 1
      <4>1. x \in Nat /\ NumBlocks = x \div Bsz
        BY <1>2, Widths DEF NumBlocks
      <4>2. x < (First + 1) * Bsz
        <5>1. x \div Bsz < First + 1
          BY <1>2, <3>3, <4>1
        <5>. QED BY <1>2, <4>1, <5>1, Before, Widths
      <4>3. (First + 1) * Bsz = First * Bsz + Bsz
        BY <1>2, Widths
      <4>. QED BY <1>2, <3>1, <4>2, <4>3, Widths
    <3>. QED BY <1>4, <3>2, <3>3
  <2>6. GotAll'
    <3>1. offset \in Nat /\ count \in Nat
      BY <1>1 DEF CallOk
    <3>2. ASSUME ~ (offset >= tree.size) PROVE Min({count, tree.size - offset}) = 0
      <4>1. count = 0 /\ tree.size - offset \in Nat
        BY <1>2, <2>5, <3>1, <3>2
      <4> DEFINE S == {count, tree.size - offset}
      <4>2. S \in SUBSET Nat /\ S # {} /\ 0 \in S
        BY <4>1
      <4>3. Min(S) \in S /\ Min(S) <= 0
        BY <4>2, LeastIndex
      <4>. QED BY <4>2, <4>3
    <3>. QED BY <1>1, <2>1, <3>2 DEF GotAll
  <2>. QED BY <2>2, <2>3, <2>4, <2>6 DEF Inv
<1>5. CASE /\ Aligned /\ ~ (First >= NumBlocks \/ Asked = 0)
           /\ v' = First /\ wanted' = Clip(First, Asked) /\ Enter(tree.root)
           /\ UNCHANGED <<call, map, got, buf, ret>>
  <2>1. UNCHANGED <<tree, offset, count, map, got, buf, ret>>
    BY <1>5 DEF call
  <2>2. First < NumBlocks /\ Asked > 0
    BY <1>2, <1>5
  <2>3. CallOk'
    BY <1>1, <2>1 DEF CallOk
  <2>4. v' \in Nat /\ v' < NumBlocks
    BY <1>2, <1>5, <2>2
  <2>5. OnPath' /\ NotHere' /\ MapRight' /\ pc' \in {"descend", "search"}
    BY <1>1, <1>5, <2>1, <2>3, <2>4, EnterRoot
  <2>6. Clip(First, Asked) \in Nat /\ Clip(First, Asked) > 0 /\ Clip(First, Asked) <= Asked
    BY <1>2, <2>2 DEF Clip
  <2>7. TypeOK'
    BY <1>2, <1>5, <2>1, <2>5, <2>6 DEF Inv, TypeOK, Asked
  <2>8. BufferIsFile'
    BY <2>1, SameBuffer DEF Inv
  <2>9. Progress'
    <3>1. /\ First' = First /\ Asked' = Asked /\ NumBlocks' = NumBlocks
          /\ Clip(First, Asked)' = Clip(First, Asked) /\ Aligned' = Aligned
      BY <2>1 DEF First, Asked, NumBlocks, Clip, Aligned
    <3>2. (v' - First) * Bsz = 0
      BY <1>2, <1>5, Widths
    <3>3. got' = 0
      BY <1>1, <2>1
    <3>4. v' + wanted' = First + Clip(First, Asked) /\ First <= v' /\ wanted' > 0
      BY <1>2, <1>5, <2>6
    <3>. QED BY <1>5, <2>2, <2>5, <3>1, <3>2, <3>3, <3>4 DEF Progress
  <2>10. GotAll' /\ SoundTreeIsRead'
    BY <2>5 DEF GotAll, SoundTreeIsRead
  <2>. QED BY <2>3, <2>5, <2>7, <2>8, <2>9, <2>10 DEF Inv
<1>. QED BY <1>3, <1>4, <1>5 DEF StartRead, First, Asked

\* Descend: the block below is for the cluster as well.
LEMMA DescendKeeps == ASSUME Inv, Descend PROVE Inv'
<1> DEFINE i == Child(el, Cpos)
           b == el.recs[i].blkno
<1>1. /\ ListIn(el) /\ Cpos \in Nat /\ tree \in Trees
      /\ el.lo <= Cpos /\ Cpos < el.hi /\ el.depth > 0 /\ pc = "descend"
  BY ElFacts DEF Inv, OnPath, Descend
<1>2. /\ i \in DOMAIN el.recs /\ el.recs[i].cpos <= Cpos
      /\ Cpos < IF i < Len(el.recs) THEN el.recs[i + 1].cpos ELSE el.hi
  BY <1>1, ChildFacts
<1>3. /\ InteriorSound(tree, el) /\ el.depth \in Nat /\ el.recs[i] \in Records
  BY <1>1, <1>2, ListFacts
<1>4. b \in Nat
  BY <1>3 DEF Records
<1>5. b \notin SuperBlk .. FsBlocks => Damage
  <2>1. CASE el = tree.root
    BY <1>1, <1>2, <2>1 DEF Damage
  <2>2. CASE \E x \in DOMAIN tree.ebs : el = tree.ebs[x]
    <3>1. Sound(tree)
      BY <1>1, TreesAssumption
    <3>2. \A j \in DOMAIN el.recs : el.recs[j].blkno \in SuperBlk .. FsBlocks
      BY <1>1, <2>2, <3>1 DEF Sound
    <3>. QED BY <1>2, <3>2
  <2>. QED BY <1>1, <2>1, <2>2 DEF ListIn
<1>6. b \in SuperBlk .. FsBlocks =>
        /\ b \in DOMAIN tree.ebs /\ tree.ebs[b].depth = el.depth - 1
        /\ tree.ebs[b].lo = el.recs[i].cpos
        /\ tree.ebs[b].hi = IF i < Len(el.recs) THEN el.recs[i + 1].cpos ELSE el.hi
  BY <1>2, <1>3 DEF InteriorSound
<1>7. el.recs # <<>>
  BY <1>3 DEF InteriorSound
<1> HIDE DEF i, b
<1>8. ExtentBlock(b) # "ok" => Damage
  BY <1>4, <1>5, <1>6, BlockFacts
<1>9. ExtentBlock(b) \in {"ok", "badblkno", "badmagic", "corrupt"}
  BY <1>4, BlockFacts
<1>10. \/ b = 0 /\ Fail("corrupt")
       \/ b # 0 /\ ExtentBlock(b) # "ok" /\ Fail(ExtentBlock(b))
       \/ b # 0 /\ ExtentBlock(b) # "badblkno" /\ Fail("io")
       \/ /\ b # 0 /\ ExtentBlock(b) = "ok"
          /\ Enter(tree.ebs[b])
          /\ UNCHANGED <<call, v, wanted, map, got, buf, ret>>
  BY <1>7 DEF Descend, i, b
<1>11. CASE b = 0 /\ Fail("corrupt")
  <2>1. ExtentBlock(b) = "badblkno"
    BY <1>4, <1>11, BlockFacts
  <2>. QED BY <1>8, <1>11, <2>1, FailKeeps
<1>12. CASE ExtentBlock(b) # "ok" /\ Fail(ExtentBlock(b))
  BY <1>8, <1>9, <1>12, FailKeeps
<1>13. CASE Fail("io")
  BY <1>13, FailKeeps
<1>14. CASE /\ ExtentBlock(b) = "ok" /\ Enter(tree.ebs[b])
            /\ UNCHANGED <<call, v, wanted, map, got, buf, ret>>
  <2>1. UNCHANGED <<tree, offset, count, v, wanted, map, got, buf, ret>>
    BY <1>14 DEF call
  <2>2. b \in DOMAIN tree.ebs /\ b \in SuperBlk .. FsBlocks
    BY <1>4, <1>14, BlockFacts
  <2>3. /\ el' = tree.ebs[b]
        /\ pc' = IF tree.ebs[b].depth > 0 THEN "descend" ELSE "search"
    BY <1>14 DEF Enter
  <2>4. tree.ebs[b].depth \in Nat
    BY <1>1, <2>2, ListFacts DEF ListIn
  <2>5. tree.ebs[b].lo <= Cpos /\ Cpos < tree.ebs[b].hi
    BY <1>2, <1>6, <2>2
  <2>6. Cpos' = Cpos
    BY <2>1 DEF Cpos
  <2>7. tree.root.depth > 0
    <3>1. OnPath
      BY DEF Inv
    <3>. QED BY <1>1, <3>1 DEF OnPath
  <2>8. OnPath' /\ NotHere'
    <3>1. \E x \in DOMAIN tree'.ebs : el' = tree'.ebs[x]
      BY <2>1, <2>2, <2>3
    <3>2. tree'.root.depth > 0
      BY <2>1, <2>7
    <3>3. el'.lo <= Cpos' /\ Cpos' < el'.hi
      BY <2>3, <2>5, <2>6
    <3>4. (pc' = "descend" => el'.depth > 0) /\ (pc' # "descend" => el'.depth = 0)
      BY <2>3, <2>4
    <3>5. pc' \in {"descend", "search"}
      BY <2>3
    <3>. QED BY <3>1, <3>2, <3>3, <3>4, <3>5 DEF OnPath, NotHere
  <2>9. pc' \in {"descend", "search"}
    BY <2>3
  <2>. QED BY <1>1, <2>1, <2>8, <2>9, WalkKeeps
<1>. QED BY <1>10, <1>11, <1>12, <1>13, <1>14

\* Search: the extent that has the cluster, or none.
LEMMA SearchKeeps == ASSUME Inv, Search PROVE Inv'
<1> DEFINE i == Holding(el, Cpos)
           r == el.recs[i]
           coff == U32(Cpos - r.cpos)
<1>1. /\ el \in Leaves /\ Cpos \in Nat /\ tree \in Trees
      /\ el.lo <= Cpos /\ Cpos < el.hi /\ pc = "search" /\ OnPath
  BY ElFacts DEF Inv, OnPath, Search
<1>2. CASE i = 0
  <2>1. /\ pc' = "hole"
        /\ UNCHANGED <<tree, offset, count, el, v, wanted, map, got, buf, ret>>
    BY <1>2 DEF Search, call
  <2>2. \A j \in DOMAIN el.recs : ~ (el.recs[j].cpos <= Cpos /\ Cpos < End(el.recs[j]))
    BY <1>1, <1>2, HoldingFacts
  <2>3. Cpos' = Cpos
    BY <2>1 DEF Cpos
  <2>4. OnPath' /\ NotHere'
    BY <1>1, <2>1, <2>2, <2>3 DEF OnPath, NotHere
  <2>. QED BY <1>1, <2>1, <2>4, WalkKeeps
<1>3. CASE i # 0
  <2>1. i \in DOMAIN el.recs /\ r \in At(Cpos)
    BY <1>1, <1>3, HoldingFacts
  <2> HIDE DEF i
  <2>2. r \in Records /\ Whole(r) /\ OnDisk(r) /\ r.cpos <= Cpos /\ Cpos < End(r)
    BY <1>1, <2>1, AtFacts
  <2>3. /\ r.cpos \in Nat /\ r.blkno \in Nat /\ RecClusters(r) \in Nat /\ End(r) \in Nat
        /\ End(r) = r.cpos + RecClusters(r) /\ End(r) < M32
    BY <2>2, RecordFacts
  <2>4. r.blkno # 0
    BY <2>2, <2>3, Widths DEF OnDisk
  <2>5. coff = Cpos - r.cpos
    <3>1. Cpos - r.cpos \in Nat /\ Cpos - r.cpos < M32
      BY <1>1, <2>2, <2>3, Widths
    <3>. QED BY <3>1, Fits
  <2> DEFINE p == BlocksToClusters(r.blkno) + coff
             num == RecClusters(r) - coff
  <2>6. Mapped(p, num, r.unwritten)
    BY <1>3, <2>4 DEF Search, i
  <2>7. p \in Nat /\ num \in Nat /\ num = End(r) - Cpos /\ num < M64
    <3>1. BlocksToClusters(r.blkno) \in Nat
      BY <2>3, Within, Widths DEF BlocksToClusters
    <3> HIDE DEF coff
    <3>. QED BY <1>1, <2>2, <2>3, <2>5, <3>1, Widths
  <2>8. p = BlocksToClusters(r.blkno) + (Cpos - r.cpos)
    BY <2>5
  <2> HIDE DEF p, num, r, coff
  <2>9. U64(num) = num
    BY <2>7, Fits
  <2>10. map' = [p |-> p, num |-> num, unwritten |-> r.unwritten] /\ v' = v /\ tree' = tree
    BY <2>6, <2>9 DEF Mapped, call
  <2>11. ExtentRun'
    <3>1. Cpos' = Cpos
      BY <2>10 DEF Cpos
    <3>2. At(Cpos)' = At(Cpos)
      <4>1. Extents' = Extents
        BY <2>10, SameFile
      <4>. QED BY <3>1, <4>1 DEF At
    <3>3. r \in At(Cpos)'
      BY <2>1, <3>2
    <3>4. map' = [p |-> BlocksToClusters(r.blkno) + (Cpos' - r.cpos), num |-> End(r) - Cpos',
                  unwritten |-> r.unwritten]
      BY <2>7, <2>8, <2>10, <3>1
    <3>. QED BY <3>3, <3>4 DEF ExtentRun
  <2>12. num \in Int
    BY <2>7
  <2>. QED BY <1>1, <2>6, <2>7, <2>11, <2>12, MappedKeeps
<1>. QED BY <1>2, <1>3

\* A hole up to record i of a leaf, or without an end.
LEMMA HoleToKeeps ==
    ASSUME Inv, pc \in {"hole", "nextleaf"}, NEW l \in Leaves, NEW i \in 1 .. Len(l.recs) + 1,
           HoleTo(l, i), Cpos < M32,
           i <= Len(l.recs) => Cpos < l.recs[i].cpos /\ NoExtent(Cpos, l.recs[i].cpos),
           i > Len(l.recs) => NoExtent(Cpos, M32)
    PROVE  Inv'
<1> DEFINE num == IF i > Len(l.recs) THEN M64 - 1 - Cpos ELSE l.recs[i].cpos - Cpos
<1>1. Cpos \in Nat /\ tree \in Trees
  BY ElFacts
<1>2. Mapped(0, num, FALSE)
  BY DEF HoleTo
<1>3. /\ tree' = tree /\ v' = v
      /\ map' = [p |-> 0, num |-> U64(num), unwritten |-> FALSE]
  BY <1>2 DEF Mapped, call
<1>4. Cpos' = Cpos /\ Extents' = Extents
  BY <1>3, SameFile DEF Cpos
<1>5. NoExtent(Cpos, M32)' <=> NoExtent(Cpos, M32)
  BY <1>4 DEF NoExtent
<1>6. map'.p = 0 /\ map'.num = U64(num)
  BY <1>3
<1>8. CASE i > Len(l.recs)
  <2>1. num \in Int
    BY <1>1, <1>8, Widths
  <2>2. M32 \in 1 .. M32
    BY Widths
  <2>3. HoleRun'
    BY <1>4, <1>5, <1>6, <1>8, <2>2 DEF HoleRun
  <2> HIDE DEF num
  <2>. QED BY <1>2, <2>1, <2>3, MappedKeeps
<1>9. CASE i <= Len(l.recs)
  <2> DEFINE e == l.recs[i].cpos
  <2>1. /\ i \in DOMAIN l.recs /\ l.recs[i] \in Records /\ Whole(l.recs[i])
        /\ e \in Nat /\ e <= End(l.recs[i]) /\ End(l.recs[i]) \in Nat
    <3>1. i \in DOMAIN l.recs
      BY <1>1, <1>9, LeafOrder
    <3>. QED BY <1>1, <3>1, LeafOrder
  <2>2. End(l.recs[i]) * Bpc < M32
    BY <2>1, RecordFacts
  <2>3. e * Bpc <= End(l.recs[i]) * Bpc /\ e * Bpc \in Nat /\ e <= e * Bpc
        /\ End(l.recs[i]) * Bpc \in Nat
    BY <2>1, Scaled, Widths
  <2>4. e * Bpc < M32 /\ e < M32 /\ Cpos < e
    <3> DEFINE a == e * Bpc
               b == End(l.recs[i]) * Bpc
    <3>1. /\ a \in Nat /\ b \in Nat /\ e \in Nat /\ M32 \in Nat
          /\ e <= a /\ a <= b /\ b < M32 /\ Cpos < e
      BY <1>9, <2>1, <2>2, <2>3, Widths
    <3> HIDE DEF a, b, e
    <3>2. a < M32 /\ e < M32
      BY <3>1
    <3>. QED BY <3>1, <3>2 DEF a
  <2>5. num = e - Cpos /\ num \in Nat /\ num < M64
    <3>1. num = e - Cpos
      <4>1. ~ (i > Len(l.recs))
        BY <1>1, <1>9, LeafOrder
      <4>. QED BY <4>1
    <3> HIDE DEF num, e
    <3>. QED BY <1>1, <2>1, <2>4, <3>1, Widths
  <2>6. NoExtent(Cpos, e)
    BY <1>9
  <2> HIDE DEF num, e
  <2>7. U64(num) = num
    BY <2>5, Fits
  <2>8. e \in 1 .. M32
    BY <1>1, <2>1, <2>4, Widths
  <2>9. NoExtent(Cpos, e)'
    BY <1>4, <2>6 DEF NoExtent
  <2>10. HoleRun'
    BY <1>4, <1>6, <2>4, <2>5, <2>7, <2>8, <2>9 DEF HoleRun
  <2>11. num \in Int
    BY <2>5
  <2>. QED BY <1>2, <2>10, <2>11, MappedKeeps
<1>10. i > Len(l.recs) \/ i <= Len(l.recs)
  BY <1>1, LeafOrder
<1>. QED BY <1>8, <1>9, <1>10

\* The loop stays inside the file, and the file below 2^32 clusters.
LEMMA InsideFile ==
    ASSUME Inv, pc \notin {"start", "done"}
    PROVE  /\ v \in Nat /\ wanted \in Nat /\ v + wanted <= NumBlocks /\ NumBlocks <= M32
           /\ Cpos \in Nat /\ Cpos < M32
<1>1. /\ v \in Nat /\ CallOk
      /\ First < NumBlocks /\ wanted > 0 /\ v + wanted = First + Clip(First, Asked)
  BY DEF Inv, TypeOK, Progress
<1>2. First \in Nat /\ Asked \in Nat /\ NumBlocks \in Nat /\ NumBlocks <= M32
  BY <1>1, CallFacts
<1>3. First + Clip(First, Asked) <= NumBlocks
  BY <1>1, <1>2 DEF Clip
<1>4. wanted \in Nat
  <2>1. wanted \in 0 .. Asked
    BY DEF Inv, TypeOK, Asked
  <2>. QED BY <1>2, <2>1
<1>5. v < M32
  BY <1>1, <1>2, <1>3, <1>4, Widths
<1>6. Cpos \in Nat /\ Cpos < M32
  <2>1. M32 <= M32 * Bpc /\ M32 * Bpc \in Nat
    BY Scaled, Widths
  <2>2. v < M32 * Bpc
    BY <1>1, <1>5, <2>1, Widths
  <2>. QED BY <1>1, <2>2, Before, Within, Widths DEF Cpos, BlocksToClusters
<1>. QED BY <1>1, <1>2, <1>3, <1>4, <1>6

\* Hole: up to the next record, or on into the next leaf.
LEMMA HoleKeeps == ASSUME Inv, Hole PROVE Inv'
<1> DEFINE i == HoleIndex(el, Cpos)
<1>1. /\ el \in Leaves /\ Cpos \in Nat /\ tree \in Trees /\ pc = "hole"
      /\ Lacks(el, Cpos) /\ OnPath /\ NotHere
  BY ElFacts DEF Inv, OnPath, NotHere, Hole, Lacks
<1>2. Cpos < M32
  BY <1>1, InsideFile
<1>3. /\ i \in 1 .. Len(el.recs) + 1 /\ \A j \in DOMAIN el.recs : j < i => el.recs[j].cpos <= Cpos
      /\ i <= Len(el.recs) => Cpos < el.recs[i].cpos
  BY <1>1, HoleIndexFacts
<1>4. DOMAIN el.recs = 1 .. Len(el.recs) /\ Len(el.recs) \in Nat
  BY <1>1, LeafOrder
<1>5. i > Len(el.recs) => \A j \in DOMAIN el.recs : el.recs[j].cpos <= Cpos
  <2> HIDE DEF i
  <2>. QED BY <1>3, <1>4
<1>6. CASE i > Len(el.recs) /\ el.next # 0
  <2>1. /\ pc' = "nextleaf"
        /\ UNCHANGED <<tree, offset, count, el, v, wanted, map, got, buf, ret>>
    BY <1>6 DEF Hole, call
  <2>2. Cpos' = Cpos
    BY <2>1 DEF Cpos
  <2>3. OnPath' /\ NotHere'
    BY <1>1, <1>5, <1>6, <2>1, <2>2 DEF OnPath, NotHere
  <2>. QED BY <1>1, <2>1, <2>3, WalkKeeps
<1>7. CASE ~ (i > Len(el.recs) /\ el.next # 0)
  <2>1. HoleTo(el, i)
    BY <1>7 DEF Hole
  <2>2. i <= Len(el.recs) => NoExtent(Cpos, el.recs[i].cpos)
    BY <1>1, HoleHere
  <2>3. i > Len(el.recs) => NoExtent(Cpos, M32)
    <3>1. ASSUME i > Len(el.recs) PROVE el.hi = M32
      <4>1. LeafSound(tree, el)
        BY <1>1, LeafIn, ListFacts
      <4>. QED BY <1>7, <3>1, <4>1 DEF LeafSound
    <3>2. i > Len(el.recs) => NoExtent(Cpos, el.hi)
      BY <1>1, <1>5, HoleBeyond
    <3>. QED BY <3>1, <3>2
  <2> HIDE DEF i
  <2>4. PICK l \in Leaves : l = el
    BY <1>1
  <2>. QED BY <1>1, <1>2, <1>3, <2>1, <2>2, <2>3, <2>4, HoleToKeeps
<1>. QED BY <1>6, <1>7

\* NextLeaf: the first extent of the next leaf ends the hole.
LEMMA NextLeafKeeps == ASSUME Inv, NextLeaf PROVE Inv'
<1> DEFINE b == el.next
<1>1. /\ el \in Leaves /\ Cpos \in Nat /\ tree \in Trees /\ pc = "nextleaf"
      /\ Lacks(el, Cpos) /\ el.next # 0 /\ \A j \in DOMAIN el.recs : el.recs[j].cpos <= Cpos
  BY ElFacts DEF Inv, OnPath, NotHere, NextLeaf, Lacks
<1>2. Cpos < M32
  BY <1>1, InsideFile
<1>3. b \in DOMAIN tree.ebs /\ b \in SuperBlk .. FsBlocks /\ tree.ebs[b] \in Leaves /\ b \in Nat
  BY <1>1, NextLeafFacts, LeafOrder
<1>4. ExtentBlock(b) \in {"ok", "badblkno", "badmagic", "corrupt"}
  BY <1>3, BlockFacts
<1>5. ExtentBlock(b) # "ok" => Damage
  BY <1>3, BlockFacts
<1>6. CASE ExtentBlock(b) # "ok" /\ Fail(ExtentBlock(b))
  BY <1>4, <1>5, <1>6, FailKeeps
<1>7. CASE Fail("io")
  BY <1>7, FailKeeps
<1>8. PICK m \in Leaves : m = tree.ebs[b]
  BY <1>3
<1>9. PICK i : i = HoleIndex(m, Cpos)
  OBVIOUS
<1>10. CASE IF i > 1 /\ (i > 2 \/ RecClusters(m.recs[1]) # 0) THEN Fail("corrupt")
            ELSE HoleTo(m, i)
  <2>1. /\ ~ (i > 1 /\ (i > 2 \/ RecClusters(m.recs[1]) # 0))
        /\ i <= Len(m.recs) => NoExtent(Cpos, m.recs[i].cpos)
        /\ i > Len(m.recs) => NoExtent(Cpos, M32)
    BY <1>1, <1>8, <1>9, HoleNext
  <2>2. HoleTo(m, i)
    BY <1>10, <2>1
  <2>3. i \in 1 .. Len(m.recs) + 1 /\ (i <= Len(m.recs) => Cpos < m.recs[i].cpos)
    BY <1>1, <1>9, HoleIndexFacts
  <2>. QED BY <1>1, <1>2, <2>1, <2>2, <2>3, HoleToKeeps
<1>. QED BY <1>6, <1>7, <1>8, <1>9, <1>10 DEF NextLeaf

\* The smaller of two numbers.
LEMMA Smaller ==
    ASSUME NEW a \in Nat, NEW b \in Nat
    PROVE  Min({a, b}) = IF a <= b THEN a ELSE b
<1> DEFINE S == {a, b}
<1>1. S \in SUBSET Nat /\ S # {}
  OBVIOUS
<1>2. Min(S) \in S /\ \A y \in S : Min(S) <= y
  BY <1>1, LeastIndex
<1>3. PICK x : x = Min(S)
  OBVIOUS
<1>4. (x = a \/ x = b) /\ x <= a /\ x <= b
  BY <1>2, <1>3
<1>5. x = IF a <= b THEN a ELSE b
  BY <1>4
<1>. QED BY <1>3, <1>5

\* The bytes of the blocks that were asked for, and of the file.
LEMMA Bytes ==
    ASSUME CallOk, Aligned
    PROVE  /\ offset \in Nat /\ count \in Nat /\ tree.size \in Nat
           /\ offset = First * Bsz /\ count = Asked * Bsz
           /\ NumBlocks * Bsz \in Nat /\ tree.size <= NumBlocks * Bsz
           /\ First < NumBlocks => offset < tree.size
<1>1. First \in Nat /\ Asked \in Nat /\ NumBlocks \in Nat /\ tree.size \in Nat
  BY CallFacts
<1>2. offset \in Nat /\ count \in Nat
  BY DEF CallOk
<1>3. offset = First * Bsz /\ count = Asked * Bsz
  <2>1. /\ offset = First * Bsz + (offset % Bsz) /\ offset % Bsz = 0
        /\ count = Asked * Bsz + (count % Bsz) /\ count % Bsz = 0
    BY <1>2, Within, Widths DEF First, Asked, Aligned
  <2>2. First * Bsz \in Nat /\ Asked * Bsz \in Nat
    BY <1>1, Scaled, Widths
  <2>. QED BY <1>2, <2>1, <2>2
<1> DEFINE x == tree.size + Bsz - 1
           n == NumBlocks * Bsz
           f == First * Bsz
<1>4. x \in Nat /\ NumBlocks = x \div Bsz
  BY <1>1, Widths DEF NumBlocks
<1>5. x % Bsz \in Nat /\ x % Bsz < Bsz /\ x = n + (x % Bsz)
  BY <1>4, Within, Widths
<1>6. n \in Nat /\ f \in Nat
  BY <1>1, Scaled, Widths
<1>7. First < NumBlocks => f + Bsz <= n
  BY <1>1, Scaled, Widths
<1> HIDE DEF n, f
<1>8. tree.size <= n
  BY <1>1, <1>5, <1>6, Widths
<1>9. First < NumBlocks => f < tree.size
  BY <1>1, <1>5, <1>6, <1>7, Widths
<1>. QED BY <1>1, <1>2, <1>3, <1>6, <1>8, <1>9 DEF n, f

\* The count that is returned when all blocks are done.
LEMMA TotalFacts ==
    ASSUME CallOk, Aligned, First < NumBlocks
    PROVE  /\ Total(Clip(First, Asked) * Bsz) = Min({count, tree.size - offset})
           /\ ~ (offset >= tree.size)
           /\ Total(Clip(First, Asked) * Bsz) \in 0 .. count
           /\ Total(Clip(First, Asked) * Bsz) <= Clip(First, Asked) * Bsz
<1> DEFINE W == Clip(First, Asked)
           g == W * Bsz
           n == NumBlocks * Bsz
           s == tree.size
<1>1. First \in Nat /\ Asked \in Nat /\ NumBlocks \in Nat
  BY CallFacts
<1>2. /\ offset \in Nat /\ count \in Nat /\ s \in Nat /\ n \in Nat /\ s <= n /\ offset < s
      /\ offset = First * Bsz /\ count = Asked * Bsz
  BY Bytes
<1>3. W \in Nat
  BY <1>1 DEF Clip
<1>4. g \in Nat
  BY <1>3, Scaled, Widths
<1>5. \/ g = count
      \/ g = n - offset /\ g <= count
  <2>1. CASE First + Asked > NumBlocks
    <3>1. W = NumBlocks - First /\ W <= Asked
      BY <1>1, <2>1 DEF Clip
    <3>2. (NumBlocks - First) * Bsz = n - First * Bsz
      BY <1>1, Scaled, Widths
    <3>3. W * Bsz <= Asked * Bsz
      BY <1>1, <1>3, <3>1, Scaled, Widths
    <3>. QED BY <1>2, <3>1, <3>2, <3>3
  <2>2. CASE ~ (First + Asked > NumBlocks)
    BY <1>2, <2>2 DEF Clip
  <2>. QED BY <2>1, <2>2
<1>6. Total(g) = IF g + offset > s THEN s - offset ELSE g
  BY DEF Total
<1>7. Min({count, s - offset}) = IF count <= s - offset THEN count ELSE s - offset
  BY <1>2, Smaller
<1> HIDE DEF g, n, s, W
<1>8. /\ Total(g) = Min({count, s - offset}) /\ ~ (offset >= s)
      /\ Total(g) \in 0 .. count /\ Total(g) <= g
  BY <1>2, <1>4, <1>5, <1>6, <1>7
<1>. QED BY <1>8 DEF g, W, s

\* Fill: the blocks of the run go into the buffer, and the loop goes on or ends.
LEMMA FillKeeps == ASSUME Inv, Fill PROVE Inv'
<1>1. /\ CallOk /\ TypeOK /\ MapRight /\ Progress /\ BufferIsFile /\ pc = "mapped"
  BY DEF Inv, Fill
<1>2. /\ v \in Nat /\ wanted \in Nat /\ v + wanted <= NumBlocks /\ NumBlocks <= M32
  BY <1>1, InsideFile
<1>3. tree \in Trees /\ map.num \in Nat /\ DOMAIN buf = 0 .. Asked - 1
  <2>1. map.num \in 0 .. M64 - 1
    BY <1>1 DEF TypeOK
  <2>. QED BY <1>1, <2>1, Widths DEF TypeOK, CallOk, Asked
<1>4. /\ First \in Nat /\ Asked \in Nat /\ NumBlocks \in Nat /\ M32 \in Nat
  BY <1>1, CallFacts, Widths
<1>5. /\ Aligned /\ First < NumBlocks /\ Asked > 0 /\ First <= v /\ wanted > 0
      /\ v + wanted = First + Clip(First, Asked) /\ got = (v - First) * Bsz
  BY <1>1 DEF Progress
<1>6. CASE Fail("io")
  BY <1>6, FailKeeps
<1>7. PICK c : c = Contig
  OBVIOUS
<1>8. c \in Nat /\ c <= wanted
  BY <1>2, <1>3, <1>7, ContigBounds
<1>9. PICK at : at = v - First
  OBVIOUS
<1>10. PICK g : g = got + c * Bsz
  OBVIOUS
<1>11. at \in Nat
  BY <1>2, <1>4, <1>5, <1>9
<1>12. g = (at + c) * Bsz /\ g \in Nat /\ got = at * Bsz
  BY <1>5, <1>8, <1>9, <1>10, <1>11, Scaled, Widths
<1>13. CASE /\ buf' = [i \in DOMAIN buf |->
                         IF i \in at .. at + c - 1
                         THEN (IF Zeroed THEN 0 ELSE PBlkno + i - at) ELSE buf[i]]
            /\ wanted' = wanted - c
            /\ IF wanted - c > 0
               THEN got' = g /\ v' = v + c /\ Enter(tree.root) /\ UNCHANGED ret
               ELSE got' = Total(g) /\ Return("ok") /\ UNCHANGED <<v, el>>
            /\ UNCHANGED <<call, map>>
  <2>1. UNCHANGED <<tree, offset, count, map>>
    BY <1>13 DEF call
  <2>2. CallOk'
    BY <1>1, <2>1 DEF CallOk
  <2>3. DOMAIN buf' = DOMAIN buf
    BY <1>13
  <2>4. ASSUME NEW i \in DOMAIN buf, i < at + c PROVE buf'[i] = FileBlock(First + i)
    <3>1. i \in Nat
      BY <1>3, <1>4
    <3>2. CASE i < at
      <4>1. i * Bsz < got
        <5>1. i * Bsz + Bsz <= at * Bsz /\ i * Bsz \in Nat /\ at * Bsz \in Nat
          BY <1>11, <3>1, <3>2, Scaled, Widths
        <5>. QED BY <1>12, <5>1, Widths
      <4>2. buf[i] = FileBlock(First + i)
        BY <1>1, <4>1 DEF BufferIsFile, First
      <4>3. ~ (i \in at .. at + c - 1)
        BY <1>11, <3>1, <3>2
      <4>. QED BY <1>13, <4>2, <4>3
    <3>3. CASE ~ (i < at)
      <4>1. i \in at .. at + c - 1
        BY <1>8, <1>11, <2>4, <3>1, <3>3
      <4>2. buf'[i] = IF Zeroed THEN 0 ELSE PBlkno + i - at
        BY <1>13, <4>1
      <4>3. PICK k \in Nat : k = i - at
        BY <1>11, <3>1, <3>3
      <4>4. k < c /\ First + i = v + k
        BY <1>2, <1>4, <1>8, <1>9, <1>11, <2>4, <3>1, <4>3
      <4>5. CASE HoleRun
        <5>1. Zeroed /\ FileBlock(v + k) = 0
          BY <1>2, <1>3, <1>4, <1>7, <4>4, <4>5, HoleFill
        <5>. QED BY <4>2, <4>4, <5>1
      <4>6. CASE ExtentRun
        <5>1. FileBlock(v + k) = (IF Zeroed THEN 0 ELSE PBlkno + k) /\ PBlkno \in Nat
          BY <1>2, <1>3, <1>7, <4>4, <4>6, ExtentFill
        <5>2. PBlkno + i - at = PBlkno + k
          BY <1>11, <3>1, <4>3, <5>1
        <5>. QED BY <4>2, <4>4, <5>1, <5>2
      <4>. QED BY <1>1, <4>5, <4>6 DEF MapRight
    <3>. QED BY <3>2, <3>3
  <2>5. ASSUME got' \in Int, got' <= g PROVE BufferIsFile'
    <3>1. ASSUME NEW i \in DOMAIN buf, i * Bsz < got' PROVE buf'[i] = FileBlock(First + i)
      <4>1. i \in Nat
        BY <1>3, <1>4
      <4>2. at + c \in Nat
        BY <1>8, <1>11
      <4>3. i * Bsz \in Nat /\ (at + c <= i => (at + c) * Bsz <= i * Bsz)
        BY <4>1, <4>2, Scaled, Widths
      <4>4. i < at + c
        BY <1>12, <2>5, <3>1, <4>1, <4>2, <4>3
      <4>. QED BY <2>4, <4>4
    <3>2. \A b : FileBlock(b)' = FileBlock(b)
      BY <2>1, SameFile
    <3>3. ASSUME NEW i \in DOMAIN buf', i * Bsz < got'
          PROVE  buf'[i] = FileBlock(offset \div Bsz + i)'
      <4>1. FileBlock(offset \div Bsz + i)' = FileBlock(offset \div Bsz + i)
        BY <2>1, <3>2
      <4>2. buf'[i] = FileBlock(offset \div Bsz + i)
        BY <2>3, <3>1, <3>3 DEF First
      <4>. QED BY <4>1, <4>2
    <3>. QED BY <3>3 DEF BufferIsFile
  <2>6. /\ First' = First /\ Asked' = Asked /\ NumBlocks' = NumBlocks
        /\ Clip(First, Asked)' = Clip(First, Asked) /\ Aligned' = Aligned
    BY <2>1 DEF First, Asked, NumBlocks, Clip, Aligned
  <2>7. CASE wanted - c > 0
    <3>1. got' = g /\ v' = v + c /\ Enter(tree.root) /\ ret' = ret /\ wanted' = wanted - c
      BY <1>13, <2>7
    <3>2. v' \in Nat /\ v' < NumBlocks /\ wanted' \in Nat
      BY <1>2, <1>4, <1>8, <2>7, <3>1
    <3>3. OnPath' /\ NotHere' /\ MapRight' /\ pc' \in {"descend", "search"}
      BY <1>1, <2>1, <2>2, <3>1, <3>2, EnterRoot
    <3>4. BufferIsFile'
      BY <1>12, <2>5, <3>1
    <3>5. Progress'
      <4>1. First <= v' /\ wanted' > 0 /\ v' + wanted' = First + Clip(First, Asked)
        BY <1>2, <1>4, <1>5, <1>8, <2>7, <3>1
      <4>2. v' - First = at + c
        BY <1>2, <1>4, <1>8, <1>9, <3>1
      <4>3. got' = (v' - First) * Bsz
        BY <1>12, <3>1, <4>2
      <4>. QED BY <1>5, <2>6, <3>3, <4>1, <4>3 DEF Progress
    <3>6. TypeOK'
      <4>1. g \in 0 .. count
        <5>1. at + c <= Asked
          BY <1>2, <1>4, <1>5, <1>8, <1>9, <2>7 DEF Clip
        <5>2. (at + c) * Bsz <= Asked * Bsz
          BY <1>4, <1>8, <1>11, <5>1, Scaled, Widths
        <5>3. count = Asked * Bsz /\ count \in Nat
          BY <1>1, <1>5, Bytes
        <5>. QED BY <1>12, <5>2, <5>3
      <4>2. wanted' \in 0 .. Asked
        <5>1. wanted \in 0 .. Asked
          BY <1>1 DEF TypeOK, Asked
        <5>. QED BY <1>4, <1>8, <2>7, <3>1, <5>1
      <4>. QED BY <1>1, <2>1, <2>3, <3>1, <3>2, <3>3, <4>1, <4>2 DEF TypeOK, Asked
    <3>7. GotAll' /\ SoundTreeIsRead'
      BY <3>3 DEF GotAll, SoundTreeIsRead
    <3>. QED BY <2>2, <3>3, <3>4, <3>5, <3>6, <3>7 DEF Inv
  <2>8. CASE ~ (wanted - c > 0)
    <3>1. got' = Total(g) /\ ret' = "ok" /\ pc' = "done" /\ v' = v /\ el' = el /\ wanted' = wanted - c
      BY <1>13, <2>8 DEF Return
    <3>2. c = wanted
      BY <1>2, <1>8, <2>8
    <3>3. at + c = Clip(First, Asked)
      <4>1. Clip(First, Asked) \in Int
        BY <1>4 DEF Clip
      <4>. QED BY <1>2, <1>4, <1>5, <1>9, <3>2, <4>1
    <3>4. /\ Total(g) = Min({count, tree.size - offset}) /\ ~ (offset >= tree.size)
          /\ Total(g) \in 0 .. count /\ Total(g) <= g
      BY <1>1, <1>5, <1>12, <3>3, TotalFacts
    <3>5. count \in Nat
      BY <1>1 DEF CallOk
    <3>6. got' \in Int /\ got' <= g
      BY <3>1, <3>4, <3>5
    <3>7. BufferIsFile'
      BY <2>5, <3>6
    <3>8. TypeOK'
      <4>1. wanted' \in 0 .. Asked
        BY <1>2, <1>4, <3>1, <3>2
      <4>. QED BY <1>1, <2>1, <2>3, <3>1, <3>4, <4>1 DEF TypeOK, Asked
    <3>9. GotAll'
      BY <2>1, <3>1, <3>4 DEF GotAll
    <3>10. SoundTreeIsRead'
      BY <3>1 DEF SoundTreeIsRead
    <3>11. OnPath' /\ NotHere' /\ MapRight' /\ Progress'
      BY <2>1, <3>1 DEF Inv, OnPath, NotHere, MapRight, Progress
    <3>. QED BY <2>2, <3>7, <3>8, <3>9, <3>10, <3>11 DEF Inv
  <2>. QED BY <2>7, <2>8
<1>. QED BY <1>6, <1>7, <1>9, <1>10, <1>13 DEF Fill, First

\* The invariant holds in every state of a read.
LEMMA ReadInvariant == Spec => []Inv
<1>1. Inv /\ [Next]_vars => Inv'
  <2>1. SUFFICES ASSUME Inv, [Next]_vars PROVE Inv'
    OBVIOUS
  <2>2. CASE UNCHANGED vars
    <3>1. UNCHANGED <<tree, offset, count, pc, el, v, wanted, map, got, buf, ret>>
      BY <2>2 DEF vars, call
    <3>2. BufferIsFile'
      BY <2>1, <3>1, SameBuffer DEF Inv
    <3>3. CallOk' /\ TypeOK' /\ OnPath' /\ NotHere' /\ Progress'
      BY <2>1, <3>1 DEF Inv, CallOk, TypeOK, OnPath, NotHere, Progress, Cpos, Aligned, First,
                        Asked, NumBlocks, Clip
    <3>4. MapRight'
      <4>1. Extents' = Extents /\ Cpos' = Cpos
        BY <3>1, SameFile DEF Cpos
      <4>2. HoleRun => HoleRun'
        BY <3>1, <4>1 DEF HoleRun, NoExtent
      <4>3. At(Cpos)' = At(Cpos)
        BY <4>1 DEF At
      <4>4. ExtentRun => ExtentRun'
        BY <3>1, <4>1, <4>3 DEF ExtentRun
      <4>. QED BY <2>1, <3>1, <4>2, <4>4 DEF Inv, MapRight
    <3>5. GotAll'
      BY <2>1, <3>1 DEF Inv, GotAll
    <3>6. SoundTreeIsRead'
      BY <2>1, <3>1, SameFile DEF Inv, SoundTreeIsRead
    <3>. QED BY <3>2, <3>3, <3>4, <3>5, <3>6 DEF Inv
  <2>. QED BY <2>1, <2>2, StartKeeps, DescendKeeps, SearchKeeps, HoleKeeps, NextLeafKeeps,
              FillKeeps DEF Next
<1>. QED BY <1>1, InitInv, PTL DEF Spec

\* However a read ends, the bytes it reports are the file's, success means all
\* of them, and what the lookup says of a run is true of each cluster: for
\* every tree that cmfs writes, intact or with damaged blocks, every request
\* and every device error (cmfs_file_read).
THEOREM ReadsTheFile == Spec => []ReadsFile
<1>1. Inv => ReadsFile
  BY UniformRuns DEF Inv, ReadsFile
<1>. QED BY <1>1, ReadInvariant, PTL

\* No lookup refuses a sound tree: a read gives up only for a device error, a
\* request that is not aligned, or a block of the tree that is damaged
\* (__cmfs_find_path, cmfs_figure_hole_clusters).
THEOREM SoundTreesAreRead == Spec => []SoundTreeIsRead
<1>1. Inv => SoundTreeIsRead
  BY DEF Inv
<1>. QED BY <1>1, ReadInvariant, PTL
=============================================================================
