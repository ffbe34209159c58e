----------------------------- MODULE MkfsProofs -----------------------------
(***************************************************************************)
(* Theorems about mkfs.cmfs, for every geometry: cluster size, bits of a   *)
(* group, number of chains, volume sizes.                                  *)
(***************************************************************************)
EXTENDS Mkfs, SequenceTheorems, FiniteSetTheorems, WellFoundedInduction, TLAPS

-----------------------------------------------------------------------------
(* The device.                                                             *)

IsSeq(s) == s \in Seq({s[i] : i \in 1 .. Len(s)})

\* What a block holds once the device has caught up, if it has writes to come.
Latest(b) == pend[b][Len(pend[b])]

DeviceOK ==
    /\ size \in Nat \ {0}
    /\ disk = [b \in Blocks |-> disk[b]]
    /\ pend = [b \in Blocks |-> pend[b]]
    /\ \A b \in Blocks : IsSeq(pend[b])
    /\ lost \subseteq Blocks

\* The last element of a sequence with one more element is that element.
LEMMA Appended ==
    ASSUME NEW s, IsSeq(s), NEW e
    PROVE  /\ IsSeq(Append(s, e))
           /\ Append(s, e) # <<>>
           /\ Append(s, e)[Len(Append(s, e))] = e
<1> DEFINE t == Append(s, e)
           R == {s[i] : i \in 1 .. Len(s)}
           Q == {t[i] : i \in 1 .. Len(t)}
<1>1. s \in Seq(R \cup {e}) /\ Len(s) \in Nat
  BY DEF IsSeq
<1>2. t \in Seq(R \cup {e}) /\ Len(t) = Len(s) + 1 /\ t[Len(t)] = e
  BY <1>1
<1>3. \A i \in 1 .. Len(t) : t[i] \in Q
  OBVIOUS
<1>4. t \in Seq(Q)
  BY <1>2, <1>3, <1>1, ElementOfSeq, LenProperties
<1>5. t # <<>>
  BY <1>1, <1>2
<1>. QED BY <1>2, <1>4, <1>5 DEF IsSeq

\* No pending writes are a queue too.
LEMMA EmptyIsSeq == IsSeq(<<>>)
BY DEF IsSeq

\* The blocks of the device are the same in every state of a run.
LEMMA SameBlocks == size' = size => Blocks' = Blocks
BY DEF Blocks

\* What do_pwrite changes: a block it covers gets one more pending write,
\* unless the write failed, and then the program ends, or was cut short, and
\* then the block is lost.
LEMMA Written ==
    ASSUME DeviceOK, size' = size, NEW w, NEW next, DoPwrite(w, next)
    PROVE  /\ DeviceOK'
           /\ disk' = disk
           /\ pc' = next \/ pc' = "exit"
           /\ lost \subseteq lost'
           /\ \A b \in Blocks : \/ pend'[b] = pend[b]
                                \/ b \in DOMAIN w /\ pend'[b] # <<>> /\ Latest(b)' = w[b]
           /\ \A b \in Blocks : b \in DOMAIN w => \/ pend'[b] # <<>> /\ Latest(b)' = w[b]
                                                  \/ pc' = "exit" \/ b \in lost'
<1>1. Blocks' = Blocks /\ disk' = disk
  BY SameBlocks DEF DoPwrite
<1>2. PICK cut \in (Blocks \cap DOMAIN w) \cup {size * Bpc} :
        /\ pend' = [b \in Blocks |-> IF b \in DOMAIN w /\ b < cut
                                      THEN Append(pend[b], w[b]) ELSE pend[b]]
        /\ \/ pc' = "exit" /\ UNCHANGED lost
           \/ /\ lost' = lost \cup {b \in Blocks \cap DOMAIN w : cut <= b}
              /\ pc' = next
  BY DEF DoPwrite
<1>3. cut \in Int /\ \A b \in Blocks : b \in Int
  BY GeometryAssumption DEF DeviceOK, Blocks
<1>4. ASSUME NEW b \in Blocks
      PROVE  /\ IsSeq(pend'[b])
             /\ ~ (b \in DOMAIN w /\ b < cut) => pend'[b] = pend[b]
             /\ b \in DOMAIN w /\ b < cut => pend'[b] # <<>> /\ Latest(b)' = w[b]
  <2>1. CASE b \in DOMAIN w /\ b < cut
    <3>1. pend'[b] = Append(pend[b], w[b])
      BY <1>2, <2>1
    <3>2. IsSeq(pend[b])
      BY DEF DeviceOK
    <3>. QED BY <2>1, <3>1, <3>2, Appended DEF Latest
  <2>2. CASE ~ (b \in DOMAIN w /\ b < cut)
    BY <1>2, <2>2 DEF DeviceOK
  <2>. QED BY <2>1, <2>2
<1>5. pend' = [b \in Blocks |-> pend'[b]]
  BY <1>2
<1>6. lost \subseteq lost' /\ lost' \subseteq Blocks
  BY <1>2 DEF DeviceOK
<1>7. DeviceOK'
  BY <1>1, <1>4, <1>5, <1>6 DEF DeviceOK
<1>8. ASSUME NEW b \in Blocks, b \in DOMAIN w, ~ (b < cut) PROVE pc' = "exit" \/ b \in lost'
  BY <1>2, <1>3, <1>8
<1>. QED BY <1>1, <1>2, <1>4, <1>6, <1>7, <1>8

\* After fsync() every block holds the last write to it, and no write is
\* pending.
LEMMA Flushed ==
    ASSUME DeviceOK, size' = size, NEW next, Fsync(next)
    PROVE  /\ DeviceOK'
           /\ pc' = next
           /\ lost' = lost
           /\ \A b \in Blocks : /\ pend'[b] = <<>>
                                /\ pend[b] # <<>> => disk'[b] = Latest(b)
                                /\ pend[b] = <<>> => disk'[b] = disk[b]
<1>1. Blocks' = Blocks
  BY SameBlocks
<1>2. \A b \in Blocks : IsSeq(<<>>)
  BY EmptyIsSeq
<1>. QED BY <1>1, <1>2 DEF Fsync, DeviceOK, Nothing, Pending, Latest

\* A crash leaves a block as it was or with the last write to it.
LEMMA Crashed ==
    ASSUME DeviceOK, Crash
    PROVE  /\ DeviceOK'
           /\ pc' = "crashed" /\ size' = size /\ lost' = lost
           /\ \A b \in Blocks : /\ pend'[b] = <<>>
                                /\ \/ disk'[b] = disk[b]
                                   \/ pend[b] # <<>> /\ disk'[b] = Latest(b)
<1>1. size' = size /\ Blocks' = Blocks /\ pend' = Nothing /\ pc' = "crashed" /\ lost' = lost
  BY SameBlocks DEF Crash
<1>2. PICK kept \in [Pending -> BOOLEAN] :
        disk' = [b \in Blocks |-> IF b \in Pending /\ kept[b]
                                  THEN pend[b][Len(pend[b])] ELSE disk[b]]
  BY DEF Crash
<1>3. \A b \in Blocks : IsSeq(<<>>)
  BY EmptyIsSeq
<1>. QED BY <1>1, <1>2, <1>3 DEF DeviceOK, Nothing, Pending, Latest

-----------------------------------------------------------------------------
(* The old superblock.                                                     *)

Unformatted == {"old", "oldsuper", "zero"}
Erasing == {"clear", "clearend", "bitmap", "group", "sync1"}

\* Nothing of the new volume is on the device or on its way.
NothingNew ==
    \A b \in Blocks : /\ disk[b].type \in Unformatted
                      /\ pend[b] # <<>> => Latest(b).type = "zero"

\* The old superblock is overwritten for good.
SuperErased ==
    SuperBlk \in Blocks =>
        /\ disk[SuperBlk].type # "oldsuper"
        /\ pend[SuperBlk] # <<>> => Latest(SuperBlk).type # "oldsuper"

\* Until the first fsync() only zeros are written, over the superblock first;
\* behind it the old superblock is gone.  A program that has stopped is in
\* one of the two states, according to where it stopped.  All of it is void
\* when a write over the superblock was cut short.
EraseInv ==
    /\ DeviceOK
    /\ pc \in Erasing => NothingNew
    /\ SuperBlk \notin lost =>
        /\ NothingNew \/ SuperErased
        /\ pc \in Erasing \ {"clear"} /\ SuperBlk \in Blocks => pend[SuperBlk] # <<>>
        /\ pc \notin Erasing \cup Stopped => SuperErased

\* The invariant implies the property.
LEMMA EraseMeans == EraseInv => OldSuperGone
BY DEF EraseInv, NothingNew, SuperErased, OldSuperGone, Unformatted

\* Before mkfs starts nothing is written.
LEMMA EraseInit == Init => EraseInv
<1> SUFFICES ASSUME Init PROVE EraseInv
  OBVIOUS
<1>1. DeviceOK
  BY EmptyIsSeq, GeometryAssumption DEF Init, DeviceOK, Nothing
<1>2. NothingNew
  BY DEF Init, NothingNew, Unformatted, Nothing, Old, OldSuper
<1>. QED BY <1>1, <1>2 DEF Init, EraseInv, Erasing, Stopped

\* Writing zeros while erasing.
LEMMA EraseZeros ==
    ASSUME EraseInv, size' = size, NEW S, NEW next \in Erasing \cup {"exit"},
           pc \in Erasing, DoPwrite([b \in S |-> Zero], next),
           next \in Erasing => next # "clear",
           pc = "clear" => SuperBlk \in S \/ SuperBlk \notin Blocks
    PROVE  EraseInv'
<1> DEFINE w == [b \in S |-> Zero]
<1>1. Blocks' = Blocks
  BY SameBlocks
<1>2. /\ DeviceOK' /\ disk' = disk /\ (pc' = next \/ pc' = "exit") /\ lost \subseteq lost'
      /\ \A b \in Blocks : \/ pend'[b] = pend[b]
                           \/ b \in DOMAIN w /\ pend'[b] # <<>> /\ Latest(b)' = w[b]
      /\ \A b \in Blocks : b \in DOMAIN w => pend'[b] # <<>> \/ pc' = "exit" \/ b \in lost'
  BY Written DEF EraseInv
<1>3. \A b \in S : w[b].type = "zero"
  BY DEF Zero
<1>4. NothingNew
  BY DEF EraseInv
<1>5. NothingNew'
  BY <1>1, <1>2, <1>3, <1>4 DEF NothingNew, Latest
<1>6. pc' \in Erasing /\ SuperBlk \in Blocks \ lost' => pend'[SuperBlk] # <<>>
  BY <1>2 DEF EraseInv, Erasing
<1>7. pc' \in Erasing \cup Stopped
  BY <1>2 DEF Erasing, Stopped
<1>. QED BY <1>1, <1>2, <1>5, <1>6, <1>7 DEF EraseInv

\* Writing metadata once the old superblock is gone: no such write has the
\* content of the old superblock.
LEMMA EraseWrite ==
    ASSUME EraseInv, size' = size, NEW w, NEW next, DoPwrite(w, next),
           pc \notin Erasing \cup Stopped, next \notin Erasing,
           \A b \in DOMAIN w : w[b].type # "oldsuper"
    PROVE  EraseInv'
<1>1. Blocks' = Blocks
  BY SameBlocks
<1>2. /\ DeviceOK' /\ disk' = disk /\ (pc' = next \/ pc' = "exit") /\ lost \subseteq lost'
      /\ \A b \in Blocks : \/ pend'[b] = pend[b]
                           \/ b \in DOMAIN w /\ Latest(b)' = w[b]
  BY Written DEF EraseInv
<1>3. SuperBlk \notin lost' => SuperErased'
  BY <1>1, <1>2 DEF EraseInv, SuperErased, Latest
<1>4. pc' \notin Erasing
  BY <1>2 DEF Erasing
<1>. QED BY <1>2, <1>3, <1>4 DEF EraseInv

\* A flush while formatting.
LEMMA EraseFlush ==
    ASSUME EraseInv, size' = size, NEW next, Fsync(next), pc \notin Stopped,
           pc \in Erasing => pc = "sync1", next \notin Erasing
    PROVE  EraseInv'
<1>1. Blocks' = Blocks
  BY SameBlocks
<1>2. /\ DeviceOK' /\ pc' = next /\ lost' = lost
      /\ \A b \in Blocks : /\ pend'[b] = <<>>
                           /\ pend[b] # <<>> => disk'[b] = Latest(b)
                           /\ pend[b] = <<>> => disk'[b] = disk[b]
  BY Flushed DEF EraseInv
<1>3. SuperBlk \in Blocks \ lost => disk'[SuperBlk].type # "oldsuper"
  <2>1. CASE pc \in Erasing
    BY <1>2, <2>1 DEF EraseInv, Erasing, NothingNew
  <2>2. CASE pc \notin Erasing
    BY <1>2, <2>2 DEF EraseInv, SuperErased
  <2>. QED BY <2>1, <2>2
<1>. QED BY <1>1, <1>2, <1>3 DEF EraseInv, SuperErased

\* A step that leaves the device alone and does not go back.
LEMMA EraseIdle ==
    ASSUME EraseInv, size' = size, disk' = disk, pend' = pend, lost' = lost,
           \/ pc' = pc
           \/ pc' \in Stopped
           \/ pc \in Erasing \ {"clear"} /\ pc' \in Erasing \ {"clear"}
           \/ pc \notin Erasing \cup Stopped /\ pc' \notin Erasing
    PROVE  EraseInv'
<1>1. Blocks' = Blocks
  BY SameBlocks
<1>2. DeviceOK' /\ (NothingNew => NothingNew') /\ (SuperErased => SuperErased')
  BY <1>1 DEF EraseInv, DeviceOK, NothingNew, SuperErased, Latest
<1>3. Erasing \cap Stopped = {}
  BY DEF Erasing, Stopped
<1>. QED BY <1>1, <1>2, <1>3 DEF EraseInv

\* Whatever of the pending writes a crash keeps.
LEMMA EraseCrash == ASSUME EraseInv, Crash PROVE EraseInv'
<1>1. /\ DeviceOK' /\ pc' = "crashed" /\ size' = size /\ lost' = lost
      /\ \A b \in Blocks : /\ pend'[b] = <<>>
                           /\ \/ disk'[b] = disk[b]
                              \/ pend[b] # <<>> /\ disk'[b] = Latest(b)
  BY Crashed DEF EraseInv
<1>2. Blocks' = Blocks
  BY <1>1, SameBlocks
<1>3. NothingNew => NothingNew'
  BY <1>1, <1>2 DEF NothingNew, Unformatted
<1>4. SuperErased => SuperErased'
  BY <1>1, <1>2 DEF SuperErased
<1>. QED BY <1>1, <1>3, <1>4 DEF EraseInv, Erasing, Stopped

\* Every step of main keeps the invariant.
LEMMA EraseStep == EraseInv /\ [Next]_vars => EraseInv'
<1> SUFFICES ASSUME EraseInv, [Next]_vars PROVE EraseInv'
  OBVIOUS
<1> USE DEF Erasing, Stopped
<1>1. CASE ClearStart
  <2>1. SuperBlk \in {x \in Blocks : x < Clear} \/ SuperBlk \notin Blocks
    BY GeometryAssumption
  <2>. QED BY <1>1, <2>1, EraseZeros DEF ClearStart
<1>2. CASE ClearEnd
  <2>1. CASE size * Bpc < Clear
    BY <1>2, <2>1, EraseIdle DEF ClearEnd, devVars
  <2>2. CASE ~ (size * Bpc < Clear)
    BY <1>2, <2>2, EraseZeros DEF ClearEnd
  <2>. QED BY <2>1, <2>2
<1>3. CASE InitializeBitmap
  BY <1>3, EraseIdle DEF InitializeBitmap, devVars
<1>4. CASE AllocInodeGroup
  BY <1>4, EraseIdle DEF AllocInodeGroup, devVars
<1>5. CASE Sync1
  BY <1>5, EraseFlush DEF Sync1
<1>6. CASE AllocRoot
  BY <1>6, EraseIdle DEF AllocRoot, AllocDirectory, devVars
<1>7. CASE AllocSysdir
  BY <1>7, EraseIdle DEF AllocSysdir, AllocDirectory, devVars
<1>8. CASE AllocFile
  BY <1>8, EraseIdle DEF AllocFile, devVars
<1>9. CASE FilesEnd
  BY <1>9, EraseIdle DEF FilesEnd, devVars
<1>10. CASE Sync2
  BY <1>10, EraseFlush DEF Sync2
<1>11. CASE FormatFile
  <2>1. \A f : \A b \in DOMAIN Headed(fe[f], 1, Inode(f)) :
            Headed(fe[f], 1, Inode(f))[b].type # "oldsuper"
    BY DEF Headed, Inode, Zero
  <2>2. CASE Skipped(ToFormat[k])
    BY <1>11, <2>2, EraseIdle DEF FormatFile, devVars
  <2>3. CASE ~ Skipped(ToFormat[k])
    <3> DEFINE w == Headed(fe[ToFormat[k]], 1, Inode(ToFormat[k]))
    <3>1. DoPwrite(w, pc) /\ pc = "inodes" /\ size' = size
      BY <1>11, <2>3 DEF FormatFile
    <3>2. \A b \in DOMAIN w : w[b].type # "oldsuper"
      BY <2>1
    <3> HIDE DEF w
    <3>. QED BY <3>1, <3>2, EraseWrite
  <2>. QED BY <2>2, <2>3
<1>12. CASE FormatEnd
  BY <1>12, EraseIdle DEF FormatEnd, devVars
<1>13. CASE WriteBitmapData
  <2>1. \A b \in DOMAIN Headed(groups[k].blkno, Bpc, Desc(groups[k], fe["global_bitmap"])) :
            Headed(groups[k].blkno, Bpc, Desc(groups[k], fe["global_bitmap"]))[b].type # "oldsuper"
    BY DEF Headed, Desc, Zero
  <2>. QED BY <1>13, <2>1, EraseWrite DEF WriteBitmapData
<1>14. CASE BitmapDataEnd
  BY <1>14, EraseIdle DEF BitmapDataEnd, devVars
<1>15. CASE WriteGroupData
  <2>1. \A b \in DOMAIN Headed(sys.blkno, 1, Desc(sys, fe["global_inode_alloc"])) :
            Headed(sys.blkno, 1, Desc(sys, fe["global_inode_alloc"]))[b].type # "oldsuper"
    BY DEF Headed, Desc, Zero
  <2>. QED BY <1>15, <2>1, EraseWrite DEF WriteGroupData
<1>16. ASSUME WriteRoot \/ WriteSysdir PROVE EraseInv'
  <2>1. \A d : \A b \in DOMAIN Headed(ext[d].at, ext[d].n * Bpc, Entries(d)) :
            Headed(ext[d].at, ext[d].n * Bpc, Entries(d))[b].type # "oldsuper"
    BY DEF Headed, Entries, Zero
  <2>. QED BY <1>16, <2>1, EraseWrite DEF WriteRoot, WriteSysdir, WriteDir
<1>17. CASE Sync3
  BY <1>17, EraseFlush DEF Sync3
<1>18. CASE FormatLeadingSpace
  BY <1>18, EraseWrite DEF FormatLeadingSpace
<1>19. CASE FormatSuperblock
  <2>1. \A b \in DOMAIN Headed(SuperBlk, 1, Super) :
            Headed(SuperBlk, 1, Super)[b].type # "oldsuper"
    BY DEF Headed, Super, Zero
  <2>. QED BY <1>19, <2>1, EraseWrite DEF FormatSuperblock
<1>20. CASE CloseDevice
  BY <1>20, EraseFlush DEF CloseDevice
<1>21. CASE Interrupt
  BY <1>21, EraseIdle DEF Interrupt, devVars
<1>22. CASE Crash
  BY <1>22, EraseCrash
<1>23. CASE UNCHANGED vars
  BY <1>23, EraseIdle DEF vars, devVars
<1>. QED
  BY <1>1, <1>2, <1>3, <1>4, <1>5, <1>6, <1>7, <1>8, <1>9, <1>10, <1>11, <1>12, <1>13,
     <1>14, <1>15, <1>16, <1>17, <1>18, <1>19, <1>20, <1>21, <1>22, <1>23 DEF Next, Step

\* For every geometry and at whatever point mkfs is stopped, fails or the
\* machine crashes: as long as the old superblock is on the device, nothing
\* of the new volume is (the fsync() of main before the first metadata is
\* written, behind clear_both_ends).  Writes that are cut short and not
\* noticed (mkfs.c:85) are included, except over the old superblock itself.
THEOREM OldSuperNeverMixed == Spec => []OldSuperGone
BY EraseInit, EraseStep, EraseMeans, PTL DEF Spec

-----------------------------------------------------------------------------
(* The layout.                                                             *)

\* Clusters of the inode group.
NInode == ClustersFor(BlocksNeeded)

\* Rounding blocks up to clusters.
LEMMA RoundUp ==
    ASSUME NEW x \in Nat \ {0}, NEW b \in Nat \ {0}
    PROVE  /\ (x + b - 1) \div b \in Nat \ {0}
           /\ ((x + b - 1) \div b) * b >= x
           /\ ((x + b - 1) \div b) * b < x + b
<1> DEFINE q == (x + b - 1) \div b
           r == (x + b - 1) % b
<1>1. /\ q \in Int /\ r \in 0 .. b - 1
      /\ x + b - 1 = b * q + r
  OBVIOUS
<1>2. b * q = q * b
  BY <1>1
<1>3. q * b >= x /\ q * b < x + b
  BY <1>1, <1>2
<1>4. q > 0
  <2>1. q <= 0 => q * b <= 0
    BY <1>1
  <2>. QED BY <1>1, <1>3, <2>1
<1>. QED BY <1>1, <1>3, <1>4

\* The places mkfs computes before it knows the volume.
LEMMA Geometry ==
    /\ FirstCg \in Nat \ {0} /\ FirstCgBlk \in Nat /\ FirstCgBlk = FirstCg * Bpc
    /\ FirstCgBlk > SuperBlk
    /\ NInode \in Nat \ {0} /\ NInode * Bpc >= BlocksNeeded /\ NInode * Bpc <= 65536
    /\ MaxBits >= FirstCg + NInode + 3
<1>1. NFiles = 8 /\ BlocksNeeded = 14
  BY DEF NFiles, SystemFiles, BlocksNeeded
<1>2. /\ FirstCg \in Nat \ {0} /\ FirstCg * Bpc >= SuperBlk + 1
      /\ FirstCg * Bpc \in Nat
  <2>1. FirstCg = (3 + Bpc - 1) \div Bpc
    BY DEF FirstCg, SuperBlk
  <2>2. 3 \in Nat \ {0} /\ Bpc \in Nat \ {0}
    BY GeometryAssumption
  <2>3. FirstCg \in Nat \ {0} /\ FirstCg * Bpc >= 3
    BY <2>1, <2>2, RoundUp, Zenon
  <2>. QED BY <2>2, <2>3 DEF SuperBlk
<1>3. NInode \in Nat \ {0} /\ NInode * Bpc >= BlocksNeeded /\ NInode * Bpc <= 65536
  <2>1. NInode = (14 + Bpc - 1) \div Bpc
    BY <1>1 DEF NInode, ClustersFor
  <2>2. 14 \in Nat \ {0} /\ Bpc \in Nat \ {0}
    BY GeometryAssumption
  <2>3. NInode \in Nat \ {0} /\ NInode * Bpc >= 14 /\ NInode * Bpc < 14 + Bpc
    BY <2>1, <2>2, RoundUp, Zenon
  <2>4. NInode * Bpc \in Nat
    BY <2>2, <2>3
  <2>. QED BY <1>1, <2>2, <2>3, <2>4, ClusterAssumption
<1>. QED BY <1>1, <1>2, <1>3, RoomAssumption DEF FirstCgBlk, SuperBlk, NInode

\* cmfs_calc_cluster_groups: a volume with more than one group has full ones,
\* and room for the descriptor of the second.
LEMMA GroupCount ==
    ASSUME size \in Nat \ {0}
    PROVE  /\ Cpg \in 1 .. size /\ Cpg <= MaxBits
           /\ NrGroups \in Nat \ {0}
           /\ NrGroups > 1 => Cpg = MaxBits /\ Cpg < size
           /\ TailBits \in 1 .. Cpg
<1>1. Cpg \in 1 .. size /\ Cpg <= MaxBits /\ Cpg \in Nat \ {0} /\ MaxBits \in Nat
  BY Geometry, RoomAssumption DEF Cpg
<1>2. NrGroups \in Nat \ {0} /\ NrGroups * Cpg < size + Cpg
  BY <1>1, RoundUp DEF NrGroups
<1>3. ASSUME NrGroups > 1 PROVE Cpg < size
  <2>1. \A q, c \in Nat : q > 1 => q * c >= 2 * c
    OBVIOUS
  <2>2. NrGroups * Cpg >= 2 * Cpg
    BY <1>1, <1>2, <1>3, <2>1
  <2>. QED BY <1>1, <1>2, <2>2
<1>4. Cpg < size => Cpg = MaxBits
  BY <1>1 DEF Cpg
<1>5. size % Cpg \in 0 .. Cpg - 1
  BY <1>1
<1>6. TailBits \in 1 .. Cpg
  BY <1>1, <1>5 DEF TailBits
<1>. QED BY <1>1, <1>2, <1>3, <1>4, <1>6

GroupType == [blkno : Nat, chain : Nat, bits : Nat, set : SUBSET Nat,
              free : Nat, next : Nat]

\* Clusters 0 to t are taken in the first group, none but the descriptor's in
\* the others; all descriptors but the first have the same block.
Laid(t) ==
    /\ groups \in [0 .. NrGroups - 1 -> GroupType]
    /\ groups[0].blkno = FirstCgBlk /\ groups[0].chain = 0 /\ groups[0].bits = Cpg
    /\ groups[0].set = 0 .. t /\ groups[0].free = U16(Cpg - 1 - t)
    /\ \A j \in 1 .. NrGroups - 1 :
        /\ groups[j].blkno = Cpg * Bpc /\ groups[j].set = {0}
        /\ groups[j].bits \in 1 .. Cpg /\ groups[j].free = U16(groups[j].bits - 1)
    /\ \A j \in 0 .. NrGroups - 1 :
        groups[j].next = 0 \/ (NrGroups > 1 /\ groups[j].next = Cpg * Bpc)

\* A counter of sixteen bits.
LEMMA Counter ==
    ASSUME NEW n \in Int
    PROVE  U16(n) \in Nat /\ U16(n) < 65536 /\ (n >= 0 /\ n < 65536 => U16(n) = n)
BY DEF U16

\* What a new group is: only the bit of its descriptor is set.
LEMMA GroupMade ==
    ASSUME NEW b \in Nat, NEW c \in Nat, NEW n \in Nat
    PROVE  /\ NewGroup(b, c, n) \in GroupType
           /\ NewGroup(b, c, n).blkno = b /\ NewGroup(b, c, n).chain = c
           /\ NewGroup(b, c, n).bits = n /\ NewGroup(b, c, n).set = {0}
           /\ NewGroup(b, c, n).free = U16(n - 1) /\ NewGroup(b, c, n).next = 0
BY Counter DEF NewGroup, GroupType

\* h is g with n bits from s on set, and the free count lower by as many.
Taken(h, g, s, n) ==
    /\ h \in GroupType /\ h.blkno = g.blkno /\ h.chain = g.chain /\ h.bits = g.bits
    /\ h.next = g.next
    /\ \A x : x \in h.set <=> x \in g.set \/ (x \in Nat /\ s <= x /\ x < s + n)
    /\ h.free = U16(g.free - n)

\* What an allocation leaves.
LEMMA GroupTaken ==
    ASSUME NEW g \in GroupType, NEW s \in Nat, NEW n \in Nat
    PROVE  Taken(Take(g, s, n), g, s, n)
<1> DEFINE h == [g EXCEPT !.set = @ \cup (s .. s + n - 1)]
           i == [h EXCEPT !.free = U16(@ - n)]
<1>1. U16(g.free - n) \in Nat
  BY Counter DEF GroupType
<1>2. g.set \cup (s .. s + n - 1) \in SUBSET Nat
  BY DEF GroupType
<1>3. /\ h \in GroupType /\ h.blkno = g.blkno /\ h.chain = g.chain /\ h.bits = g.bits
      /\ h.next = g.next
      /\ h.set = g.set \cup (s .. s + n - 1) /\ h.free = g.free
  BY <1>2 DEF GroupType
<1> HIDE DEF h
<1>4. /\ i \in GroupType /\ i.blkno = h.blkno /\ i.chain = h.chain /\ i.bits = h.bits
      /\ i.next = h.next
      /\ i.set = h.set /\ i.free = U16(h.free - n)
  BY <1>1, <1>3 DEF GroupType
<1>5. Take(g, s, n) = i
  BY DEF Take, h
<1>6. \A x : x \in s .. s + n - 1 <=> x \in Nat /\ s <= x /\ x < s + n
  OBVIOUS
<1>7. \A x : x \in i.set <=> x \in g.set \/ x \in s .. s + n - 1
  BY <1>3, <1>4
<1> HIDE DEF i
<1>8. \A x : x \in i.set <=> x \in g.set \/ (x \in Nat /\ s <= x /\ x < s + n)
  BY <1>6, <1>7, Zenon
<1>9. /\ i \in GroupType /\ i.blkno = g.blkno /\ i.chain = g.chain /\ i.bits = g.bits
      /\ i.next = g.next
      /\ i.free = U16(g.free - n)
  BY <1>3, <1>4, Zenon
<1>10. Taken(i, g, s, n)
  BY <1>8, <1>9, Zenon DEF Taken
<1>. QED BY <1>5, <1>10, Zenon

\* alloc_from_bitmap finds space in the first group or nowhere, and takes the
\* clusters right behind those taken before.
LEMMA FirstGroupServes ==
    ASSUME size \in Nat \ {0}, NEW t \in Nat, Laid(t), NEW n \in Nat \ {0},
           Candidates(n) # {}, NrGroups > 1 => t + n < MaxBits
    PROVE  FirstFit(n) = 0 /\ t + n < Cpg /\ Min(ClearRun(groups[0], n)) = t + 1
<1>1. /\ Cpg \in Nat \ {0} /\ Cpg <= MaxBits /\ NrGroups \in Nat \ {0}
      /\ MaxBits \in Nat /\ MaxBits <= 65536 /\ (NrGroups > 1 => Cpg = MaxBits)
  BY GroupCount, RoomAssumption
<1>2. DOMAIN groups = 0 .. NrGroups - 1 /\ 0 \in DOMAIN groups
  BY <1>1 DEF Laid
<1>3. /\ groups[0].bits = Cpg /\ groups[0].set = 0 .. t /\ groups[0].chain = 0
      /\ groups[0].free = U16(Cpg - 1 - t)
  BY DEF Laid
<1>4. \A s \in ClearRun(groups[0], n) : s \in Nat /\ s > t /\ s + n <= Cpg
  <2> SUFFICES ASSUME NEW s \in ClearRun(groups[0], n)
               PROVE  s \in Nat /\ s > t /\ s + n <= Cpg
    OBVIOUS
  <2>1. s \in 0 .. Cpg - n /\ (s .. s + n - 1) \cap (0 .. t) = {}
    BY <1>3 DEF ClearRun
  <2>2. s \in s .. s + n - 1
    BY <1>1, <2>1
  <2>. QED BY <1>1, <2>1, <2>2
<1>5. t + n < Cpg => t + 1 \in ClearRun(groups[0], n)
  <2>1. (t + 1 .. t + 1 + n - 1) \cap (0 .. t) = {}
    OBVIOUS
  <2>2. t + n < Cpg => t + 1 \in 0 .. Cpg - n
    BY <1>1
  <2>. QED BY <1>3, <2>1, <2>2 DEF ClearRun
<1>6. ASSUME t + n < Cpg PROVE Min(ClearRun(groups[0], n)) = t + 1
  <2>1. t + 1 \in ClearRun(groups[0], n) /\ \A s \in ClearRun(groups[0], n) : t + 1 <= s
    BY <1>4, <1>5, <1>6
  <2>2. \A x \in ClearRun(groups[0], n) :
            (\A y \in ClearRun(groups[0], n) : x =< y) => x = t + 1
    BY <1>4, <2>1
  <2>. QED BY <2>1, <2>2 DEF Min
<1>7. CASE NrGroups = 1
  <2>1. DOMAIN groups = {0}
    BY <1>2, <1>7
  <2>2. Candidates(n) = {0}
    BY <2>1 DEF Candidates
  <2>3. FirstFit(n) = 0
    BY <2>2 DEF FirstFit, Better
  <2>4. ClearRun(groups[0], n) # {}
    BY <2>2 DEF Candidates
  <2>5. t + n < Cpg
    BY <1>1, <1>4, <2>4
  <2>. QED BY <1>6, <2>3, <2>5
<1>8. CASE NrGroups > 1
  <2>1. t + n < Cpg
    BY <1>1, <1>8
  <2>2. groups[0].free >= n
    <3>1. Cpg - 1 - t \in Nat /\ Cpg - 1 - t < 65536
      BY <1>1, <2>1
    <3>. QED BY <1>1, <1>3, <2>1, <3>1, Counter
  <2>3. 0 < NumChains
    BY <1>1, GeometryAssumption DEF NumChains
  <2>4. 0 \in Candidates(n)
    BY <1>2, <1>3, <1>5, <2>1, <2>2, <2>3 DEF Candidates, Chain
  <2>5. \A l \in Candidates(n) : groups[l].chain \in Nat
    BY <1>2 DEF Candidates, Laid, GroupType
  <2>6. \A j \in Candidates(n) : (\A l \in Candidates(n) : Better(j, l)) => j = 0
    <3> SUFFICES ASSUME NEW j \in Candidates(n), Better(j, 0) PROVE j = 0
      BY <2>4
    <3>1. groups[j].chain = 0
      BY <1>3, <2>5 DEF Better
    <3>2. 0 \in Chain(groups[j].chain)
      BY <1>2, <1>3, <3>1 DEF Chain
    <3>3. j <= 0
      BY <2>2, <3>2 DEF Candidates
    <3>. QED BY <1>1, <1>2, <3>3 DEF Candidates
  <2>7. \A l \in Candidates(n) : Better(0, l)
    BY <1>3, <2>5 DEF Better
  <2>8. FirstFit(n) = 0
    BY <2>4, <2>6, <2>7 DEF FirstFit
  <2>. QED BY <1>6, <2>1, <2>8
<1>. QED BY <1>1, <1>7, <1>8

\* The first n clusters behind t are taken, and nothing else changes.
LEMMA AllocLaid ==
    ASSUME size \in Nat \ {0}, NEW t \in Nat, Laid(t), NEW n \in Nat \ {0},
           Candidates(n) # {}, NrGroups > 1 => t + n < MaxBits,
           size' = size, groups' = AllocFromBitmap(n).groups
    PROVE  /\ Laid(t + n)' /\ t + n < Cpg
           /\ AllocFromBitmap(n).at = (t + 1) * Bpc
<1>1. FirstFit(n) = 0 /\ t + n < Cpg /\ Min(ClearRun(groups[0], n)) = t + 1
  BY FirstGroupServes
<1>2. /\ AllocFromBitmap(n).groups = [groups EXCEPT ![0] = Take(groups[0], t + 1, n)]
      /\ AllocFromBitmap(n).at = StartBlk(groups[0], t + 1)
  BY <1>1 DEF AllocFromBitmap
<1>3. StartBlk(groups[0], t + 1) = (t + 1) * Bpc
  BY DEF StartBlk, Laid
<1>4. /\ Cpg \in Nat /\ Cpg <= 65536 /\ Cpg > 0 /\ NrGroups \in Nat \ {0}
      /\ Cpg' = Cpg /\ NrGroups' = NrGroups
  <2>1. Cpg \in Nat /\ Cpg <= 65536 /\ Cpg > 0 /\ NrGroups \in Nat \ {0}
    BY GroupCount, RoomAssumption
  <2>. QED BY <2>1 DEF Cpg, NrGroups
<1>5. groups[0] \in GroupType /\ 0 \in 0 .. NrGroups - 1
  BY <1>4 DEF Laid
<1> DEFINE g == Take(groups[0], t + 1, n)
<1>6. /\ g \in GroupType /\ g.blkno = FirstCgBlk /\ g.chain = 0 /\ g.bits = Cpg
      /\ g.next = groups[0].next
      /\ \A x : x \in g.set <=> x \in 0 .. t \/ (x \in Nat /\ t + 1 <= x /\ x < t + 1 + n)
      /\ g.free = U16(U16(Cpg - 1 - t) - n)
  <2>1. /\ g \in GroupType /\ g.blkno = groups[0].blkno /\ g.chain = groups[0].chain
        /\ g.next = groups[0].next
        /\ g.bits = groups[0].bits /\ g.free = U16(groups[0].free - n)
        /\ \A x : x \in g.set <=> x \in groups[0].set \/ (x \in Nat /\ t + 1 <= x /\ x < t + 1 + n)
    <3>1. groups[0] \in GroupType /\ t + 1 \in Nat /\ n \in Nat
      BY <1>5
    <3>2. Taken(g, groups[0], t + 1, n)
      BY <3>1, GroupTaken
    <3> HIDE DEF g
    <3>. QED BY <3>2, Zenon DEF Taken
  <2>2. /\ groups[0].blkno = FirstCgBlk /\ groups[0].chain = 0 /\ groups[0].bits = Cpg
        /\ groups[0].set = 0 .. t /\ groups[0].free = U16(Cpg - 1 - t)
    BY DEF Laid
  <2>. QED BY <2>1, <2>2, Zenon
<1>7. g.set = 0 .. t + n
  <2>1. \A x : x \in 0 .. t \/ (x \in Nat /\ t + 1 <= x /\ x < t + 1 + n) <=> x \in 0 .. t + n
    OBVIOUS
  <2>2. \A x : x \in g.set <=> x \in 0 .. t + n
    BY <1>6, <2>1, Zenon
  <2>. QED BY <2>2, Zenon
<1>8. g.free = U16(Cpg - 1 - (t + n))
  <2>1. U16(Cpg - 1 - t) = Cpg - 1 - t
    BY <1>1, <1>4, Counter
  <2>2. Cpg - 1 - t - n = Cpg - 1 - (t + n)
    BY <1>4
  <2>. QED BY <1>6, <2>1, <2>2
<1> HIDE DEF g
<1>9. groups' \in [0 .. NrGroups - 1 -> GroupType]
      /\ groups'[0] = g /\ \A j \in 1 .. NrGroups - 1 : groups'[j] = groups[j]
  BY <1>2, <1>4, <1>5, <1>6 DEF Laid, g
<1>. QED BY <1>1, <1>2, <1>3, <1>4, <1>6, <1>7, <1>8, <1>9 DEF Laid

\* The last cluster that is taken in the first group.
Top == FirstCg + (IF sys.blkno = 0 THEN 0 ELSE NInode) + ext["root"].n + ext["sysdir"].n

\* The inode group lies behind the first descriptor; its blocks are handed
\* out one after the other, so those up to some m are in use.
UsedTo(m) ==
    /\ m < sys.bits /\ sys.set = 0 .. m /\ sys.free = sys.bits - 1 - m
    /\ \A f \in Files : fe[f] # 0 => fe[f] \in sys.blkno + 1 .. sys.blkno + m
InodeGroup ==
    /\ DOMAIN groups # {}
    /\ sys.blkno = (FirstCg + 1) * Bpc /\ sys.bits = NInode * Bpc /\ sys.next = 0
    /\ FirstCg + NInode < Cpg
    /\ \E m \in Nat : UsedTo(m)
    /\ \A f, g \in Files : fe[f] # 0 /\ fe[f] = fe[g] => f = g

\* The extent of a directory, i clusters behind the inode group.
ExtentAt(d, i) ==
    IF ext[d].n = 0 THEN ext[d].at = 0
    ELSE ext[d].at = (FirstCg + NInode + i) * Bpc /\ FirstCg + NInode + i < Cpg

\* What is allocated where main stands.
Allocated ==
    /\ pc \in {"clear", "clearend", "bitmap"} => DOMAIN groups = {}
    /\ pc = "group" => DOMAIN groups # {} /\ sys.blkno = 0
    /\ pc \in {"sync1", "root"} => sys.blkno # 0 /\ ext["root"].n = 0
    /\ pc = "sysdir" => ext["root"].n = 1 /\ ext["sysdir"].n = 0
    /\ pc = "files" => k \in Nat \ {0}
    /\ pc \notin Stopped \cup Erasing \cup {"root", "sysdir"} => ext["sysdir"].n = 1

LayoutInv ==
    /\ size \in Nat \ {0} /\ sys \in GroupType
    /\ fe \in [Files -> Nat] /\ ext \in [Dirs -> [at : Nat, n : {0, 1}]]
    /\ DOMAIN groups = {} \/ Laid(Top)
    /\ IF sys.blkno = 0 THEN (\A f \in Files : fe[f] = 0) /\ ext["root"].n = 0
                        ELSE InodeGroup
    /\ ext["root"].n = 0 => ext["sysdir"].n = 0
    /\ ExtentAt("root", 1) /\ ExtentAt("sysdir", 2)
    /\ Allocated

\* The last cluster taken is a number.
LEMMA TopNat == ASSUME LayoutInv PROVE Top \in Nat
<1>1. ext["root"].n \in Nat /\ ext["sysdir"].n \in Nat
  BY DEF LayoutInv, Dirs
<1>2. FirstCg \in Nat /\ NInode \in Nat
  BY Geometry
<1>. QED BY <1>1, <1>2 DEF Top

\* Before the bitmap is made there are no groups and no inodes.
LEMMA LayoutInit == Init => LayoutInv
<1> SUFFICES ASSUME Init PROVE LayoutInv
  OBVIOUS
<1>1. sys \in GroupType /\ sys.blkno = 0
  BY GroupMade DEF Init
<1>2. size \in Nat \ {0} /\ fe \in [Files -> Nat] /\ \A f \in Files : fe[f] = 0
  BY GeometryAssumption DEF Init
<1>3. ext \in [Dirs -> [at : Nat, n : {0, 1}]] /\ \A d \in Dirs : ext[d].at = 0 /\ ext[d].n = 0
  BY DEF Init
<1>4. DOMAIN groups = {}
  BY DEF Init
<1>. QED BY <1>1, <1>2, <1>3, <1>4 DEF Init, LayoutInv, Dirs, ExtentAt, Allocated, Erasing, Stopped

\* A step that allocates nothing.
LEMMA LayoutIdle ==
    ASSUME LayoutInv, UNCHANGED <<size, memVars>>,
           \/ pc' = pc
           \/ pc' \in Stopped
           \/ pc = "clear" /\ pc' = "clearend"
           \/ pc = "clearend" /\ pc' = "bitmap"
           \/ pc = "sync1" /\ pc' = "root"
           \/ /\ pc \notin Stopped \cup Erasing \cup {"root", "sysdir"}
              /\ pc' \notin Stopped \cup Erasing \cup {"root", "sysdir"},
           pc' = "files" => k' \in Nat \ {0}
    PROVE  LayoutInv'
<1>1. /\ size' = size /\ groups' = groups /\ sys' = sys /\ fe' = fe /\ ext' = ext
      /\ Cpg' = Cpg /\ NrGroups' = NrGroups /\ Top' = Top
  BY DEF memVars, Cpg, NrGroups, Top
<1>2. Laid(Top) => Laid(Top)'
  BY <1>1 DEF Laid
<1>3. InodeGroup => InodeGroup'
  BY <1>1 DEF InodeGroup, UsedTo
<1>4. (ExtentAt("root", 1) /\ ExtentAt("sysdir", 2))'
  BY <1>1 DEF LayoutInv, ExtentAt
<1>5. Allocated'
  BY <1>1 DEF LayoutInv, Allocated, Stopped, Erasing
<1>. QED BY <1>1, <1>2, <1>3, <1>4, <1>5 DEF LayoutInv

\* initialize_bitmap lays the groups out.
LEMMA LayoutBitmap == ASSUME LayoutInv, InitializeBitmap PROVE LayoutInv'
<1> DEFINE bits(j) == IF j > 0 /\ j = NrGroups - 1 THEN TailBits ELSE Cpg
           first == Take(NewGroup(FirstCgBlk, 0, Cpg), 1, FirstCg)
           other(j) == NewGroup(Cpg * Bpc, j % Recs, bits(j))
<1>1. /\ size' = size /\ sys' = sys /\ fe' = fe /\ ext' = ext
      /\ groups' = [j \in 0 .. NrGroups - 1 |->
                      [(IF j = 0 THEN first ELSE other(j)) EXCEPT !.next = Link(j)]]
      /\ pc' \in {"group", "mismatch"} /\ pc = "bitmap"
  BY DEF InitializeBitmap
<1>2. /\ Cpg' = Cpg /\ NrGroups' = NrGroups /\ Top' = Top
  BY <1>1 DEF Cpg, NrGroups, Top
<1>3. DOMAIN groups = {} /\ sys.blkno = 0 /\ Top = FirstCg
  BY <1>1, Geometry DEF LayoutInv, Allocated, InodeGroup, Top
<1>4. /\ Cpg \in Nat \ {0} /\ Cpg <= 65536 /\ NrGroups \in Nat \ {0} /\ Cpg * Bpc \in Nat
      /\ \A j \in Nat : j % Recs \in Nat /\ bits(j) \in 1 .. Cpg
      /\ FirstCgBlk \in Nat /\ FirstCg \in Nat
  <2>1. /\ Cpg \in Nat \ {0} /\ Cpg <= 65536 /\ NrGroups \in Nat \ {0}
        /\ TailBits \in 1 .. Cpg
    BY GroupCount, RoomAssumption DEF LayoutInv
  <2>2. Cpg * Bpc \in Nat /\ \A j \in Nat : j % Recs \in Nat
    BY <2>1, GeometryAssumption
  <2>. QED BY <2>1, <2>2, Geometry
<1> HIDE DEF bits
<1>5. /\ first \in GroupType /\ first.blkno = FirstCgBlk /\ first.chain = 0
      /\ first.bits = Cpg /\ first.set = 0 .. FirstCg /\ first.free = U16(Cpg - 1 - FirstCg)
  <2> DEFINE g == NewGroup(FirstCgBlk, 0, Cpg)
  <2>1. /\ g \in GroupType /\ g.blkno = FirstCgBlk /\ g.chain = 0 /\ g.bits = Cpg
        /\ g.set = {0} /\ g.free = U16(Cpg - 1)
    <3>1. FirstCgBlk \in Nat /\ Cpg \in Nat
      BY <1>4
    <3>. QED BY <3>1, GroupMade
  <2> HIDE DEF g
  <2>2. /\ Take(g, 1, FirstCg) \in GroupType /\ Take(g, 1, FirstCg).blkno = FirstCgBlk
        /\ Take(g, 1, FirstCg).chain = 0 /\ Take(g, 1, FirstCg).bits = Cpg
        /\ \A x : x \in Take(g, 1, FirstCg).set <=>
                x \in {0} \/ (x \in Nat /\ 1 <= x /\ x < 1 + FirstCg)
        /\ Take(g, 1, FirstCg).free = U16(U16(Cpg - 1) - FirstCg)
    <3>1. FirstCg \in Nat /\ 1 \in Nat /\ g \in GroupType
      BY <2>1, Geometry
    <3>2. Taken(Take(g, 1, FirstCg), g, 1, FirstCg)
      BY <3>1, GroupTaken
    <3>. QED BY <2>1, <3>2, Zenon DEF Taken
  <2>3. Take(g, 1, FirstCg).set = 0 .. FirstCg
    <3>1. \A x : x \in {0} \/ (x \in Nat /\ 1 <= x /\ x < 1 + FirstCg) <=> x \in 0 .. FirstCg
      BY Geometry
    <3>2. \A x : x \in Take(g, 1, FirstCg).set <=> x \in 0 .. FirstCg
      BY <2>2, <3>1, Zenon
    <3>. QED BY <3>2
  <2>4. U16(Cpg - 1) = Cpg - 1
    BY <1>4, Counter
  <2>. QED BY <2>2, <2>3, <2>4 DEF g
<1>6. \A j \in 1 .. NrGroups - 1 :
        /\ other(j) \in GroupType /\ other(j).blkno = Cpg * Bpc /\ other(j).set = {0}
        /\ other(j).bits = bits(j) /\ other(j).free = U16(bits(j) - 1)
  <2> SUFFICES ASSUME NEW j \in 1 .. NrGroups - 1
               PROVE  /\ other(j) \in GroupType /\ other(j).blkno = Cpg * Bpc
                      /\ other(j).set = {0} /\ other(j).bits = bits(j)
                      /\ other(j).free = U16(bits(j) - 1)
    OBVIOUS
  <2> DEFINE b == Cpg * Bpc
             c == j % Recs
             n == bits(j)
  <2>1. b \in Nat /\ c \in Nat /\ n \in Nat
    BY <1>4
  <2>2. other(j) = NewGroup(b, c, n)
    OBVIOUS
  <2> HIDE DEF b, c, n, other
  <2>3. /\ NewGroup(b, c, n) \in GroupType /\ NewGroup(b, c, n).blkno = b
        /\ NewGroup(b, c, n).set = {0} /\ NewGroup(b, c, n).bits = n
        /\ NewGroup(b, c, n).free = U16(n - 1)
    BY <2>1, GroupMade
  <2>4. /\ other(j) \in GroupType /\ other(j).blkno = b /\ other(j).set = {0}
        /\ other(j).bits = n /\ other(j).free = U16(n - 1)
    BY <2>2, <2>3, Zenon
  <2>. QED BY <2>4, Zenon DEF b, n
<1> HIDE DEF first, other
<1> DEFINE new(j) == IF j = 0 THEN first ELSE other(j)
<1>7. ASSUME NEW j \in 0 .. NrGroups - 1
      PROVE  /\ groups'[j] \in GroupType /\ groups'[j].next = Link(j)
             /\ groups'[j].blkno = new(j).blkno /\ groups'[j].chain = new(j).chain
             /\ groups'[j].bits = new(j).bits /\ groups'[j].set = new(j).set
             /\ groups'[j].free = new(j).free
  <2>1. new(j) \in GroupType
    <3>1. j = 0 \/ j \in 1 .. NrGroups - 1
      BY <1>4
    <3>. QED BY <1>5, <1>6, <3>1, Zenon
  <2>2. groups'[j] = [new(j) EXCEPT !.next = Link(j)]
    BY <1>1
  <2>3. Link(j) \in Nat
    BY <1>4 DEF Link
  <2> HIDE DEF new
  <2>. QED BY <2>1, <2>2, <2>3 DEF GroupType
<1>12. \A j \in 0 .. NrGroups - 1 : Link(j) = 0 \/ (NrGroups > 1 /\ Link(j) = Cpg * Bpc)
  BY <1>4, GeometryAssumption DEF Link
<1>8. Laid(Top)'
  <2>1. 0 \in 0 .. NrGroups - 1 /\ new(0) = first
    BY <1>4
  <2>2. \A j \in 1 .. NrGroups - 1 :
            j \in 0 .. NrGroups - 1 /\ new(j) = other(j) /\ bits(j) \in 1 .. Cpg
    BY <1>4
  <2>3. groups' \in [0 .. NrGroups - 1 -> GroupType]
    BY <1>1, <1>7
  <2>4. /\ groups'[0].blkno = FirstCgBlk /\ groups'[0].chain = 0 /\ groups'[0].bits = Cpg
        /\ groups'[0].set = 0 .. FirstCg /\ groups'[0].free = U16(Cpg - 1 - FirstCg)
    BY <1>5, <1>7, <2>1
  <2>5. \A j \in 1 .. NrGroups - 1 :
            /\ groups'[j].blkno = Cpg * Bpc /\ groups'[j].set = {0}
            /\ groups'[j].bits \in 1 .. Cpg /\ groups'[j].free = U16(groups'[j].bits - 1)
    BY <1>6, <1>7, <2>2
  <2>6. \A j \in 0 .. NrGroups - 1 :
            groups'[j].next = 0 \/ (NrGroups > 1 /\ groups'[j].next = Cpg * Bpc)
    BY <1>7, <1>12
  <2> HIDE DEF new
  <2>7. Laid(FirstCg)'
    BY <1>2, <2>3, <2>4, <2>5, <2>6 DEF Laid
  <2>. QED BY <1>2, <1>3, <2>7
<1>9. DOMAIN groups' # {}
  <2>1. 0 \in 0 .. NrGroups - 1
    BY <1>4
  <2>. QED BY <1>1, <2>1
<1>10. Allocated'
  BY <1>1, <1>3, <1>9 DEF Allocated, Stopped, Erasing
<1>11. (ExtentAt("root", 1) /\ ExtentAt("sysdir", 2))'
  BY <1>1, <1>2 DEF LayoutInv, ExtentAt
<1>. QED BY <1>1, <1>3, <1>8, <1>10, <1>11 DEF LayoutInv

\* alloc_inode hands out the block behind the last one.
LEMMA NextInode ==
    ASSUME sys \in GroupType, NEW m \in Nat, sys.set = 0 .. m, InodeBit # {}
    PROVE  m + 1 < sys.bits /\ Min(InodeBit) = m + 1
<1>1. sys.bits \in Nat
  BY DEF GroupType
<1>2. \A s : s \in InodeBit <=> s \in 0 .. sys.bits - 1 /\ s > m
  <2>1. ASSUME NEW s \in 0 .. sys.bits - 1
        PROVE  (s .. s + 1 - 1) \cap (0 .. m) = {} <=> s > m
    <3>1. s .. s + 1 - 1 = {s} /\ s \in Nat
      BY <1>1
    <3>. QED BY <3>1
  <2>. QED BY <2>1 DEF InodeBit, ClearRun
<1>3. m + 1 \in InodeBit /\ \A s \in InodeBit : m + 1 <= s
  BY <1>1, <1>2
<1>4. \A x \in InodeBit : (\A y \in InodeBit : x =< y) => x = m + 1
  BY <1>1, <1>2, <1>3
<1>5. Min(InodeBit) = m + 1
  BY <1>3, <1>4 DEF Min
<1>. QED BY <1>1, <1>2, <1>3, <1>5

\* One more inode block, for f.
LEMMA InodeTaken ==
    ASSUME sys \in GroupType, fe \in [Files -> Nat], InodeGroup, InodeBit # {},
           NEW f \in Files, sys' = AllocInode.sys, fe' = [fe EXCEPT ![f] = AllocInode.blk],
           size' = size, DOMAIN groups' # {}
    PROVE  /\ sys' \in GroupType /\ sys'.blkno = sys.blkno /\ sys.blkno # 0
           /\ fe' \in [Files -> Nat] /\ InodeGroup'
<1>1. PICK m \in Nat : UsedTo(m)
  BY DEF InodeGroup
<1>2. sys.set = 0 .. m /\ m + 1 < sys.bits /\ Min(InodeBit) = m + 1
  BY <1>1, NextInode DEF UsedTo
<1>3. sys' = Take(sys, m + 1, 1) /\ fe' = [fe EXCEPT ![f] = sys.blkno + (m + 1)]
  BY <1>2 DEF AllocInode
<1>4. /\ sys' \in GroupType /\ sys'.blkno = sys.blkno /\ sys'.bits = sys.bits
      /\ sys'.next = sys.next
      /\ \A x : x \in sys'.set <=> x \in sys.set \/ (x \in Nat /\ m + 1 <= x /\ x < m + 1 + 1)
      /\ sys'.free = U16(sys.free - 1)
  <2>1. m + 1 \in Nat /\ 1 \in Nat
    OBVIOUS
  <2> DEFINE t == Take(sys, m + 1, 1)
  <2>2. /\ t \in GroupType /\ t.blkno = sys.blkno /\ t.bits = sys.bits
        /\ t.next = sys.next /\ t.free = U16(sys.free - 1)
        /\ \A x : x \in t.set <=> x \in sys.set \/ (x \in Nat /\ m + 1 <= x /\ x < m + 1 + 1)
    <3>1. Taken(t, sys, m + 1, 1)
      BY <2>1, GroupTaken
    <3> HIDE DEF t
    <3>. QED BY <3>1, Zenon DEF Taken
  <2>3. sys' = t
    BY <1>3
  <2> HIDE DEF t
  <2>. QED BY <2>2, <2>3, Zenon
<1>5. sys'.set = 0 .. m + 1
  <2>1. \A x : x \in 0 .. m \/ (x \in Nat /\ m + 1 <= x /\ x < m + 1 + 1) <=> x \in 0 .. m + 1
    OBVIOUS
  <2>2. \A x : x \in sys'.set <=> x \in 0 .. m + 1
    BY <1>2, <1>4, <2>1, Zenon
  <2>. QED BY <2>2, Zenon
<1>6. sys.blkno \in Nat /\ sys.bits \in Nat /\ sys.blkno # 0
  <2>1. sys.blkno \in Nat /\ sys.bits \in Nat
    BY DEF GroupType
  <2>2. (FirstCg + 1) * Bpc # 0
    BY Geometry, GeometryAssumption
  <2>. QED BY <2>1, <2>2 DEF InodeGroup
<1>7. fe' \in [Files -> Nat] /\ \A g \in Files : fe'[g] = IF g = f THEN sys.blkno + (m + 1) ELSE fe[g]
  BY <1>3, <1>6
<1>8. \A g \in Files : fe[g] # 0 => fe[g] \in sys.blkno + 1 .. sys.blkno + m
  BY <1>1 DEF UsedTo
<1>9. UsedTo(m + 1)'
  <2>1. \A g \in Files : fe'[g] # 0 => fe'[g] \in sys.blkno + 1 .. sys.blkno + (m + 1)
    BY <1>6, <1>7, <1>8
  <2>2. sys.bits <= 65536
    BY Geometry DEF InodeGroup
  <2>3. sys'.free = sys.bits - 1 - (m + 1)
    <3>1. sys.free - 1 = sys.bits - 1 - (m + 1)
      BY <1>1, <1>6 DEF UsedTo
    <3>2. sys.bits - 1 - (m + 1) >= 0 /\ sys.bits - 1 - (m + 1) < 65536
          /\ sys.bits - 1 - (m + 1) \in Int
      BY <1>2, <1>6, <2>2
    <3>. QED BY <1>4, <3>1, <3>2, Counter
  <2>. QED BY <1>2, <1>4, <1>5, <2>1, <2>3 DEF UsedTo
<1>10. \A g, h \in Files : fe'[g] # 0 /\ fe'[g] = fe'[h] => g = h
  <2>1. \A g \in Files : fe[g] # sys.blkno + (m + 1)
    BY <1>6, <1>8
  <2>. QED BY <1>7, <2>1 DEF InodeGroup
<1>11. InodeGroup'
  <2>1. Cpg' = Cpg
    BY DEF Cpg
  <2>2. m + 1 \in Nat
    OBVIOUS
  <2>. QED BY <1>4, <1>9, <1>10, <2>1, <2>2 DEF InodeGroup
<1>. QED BY <1>4, <1>6, <1>7, <1>11

\* The space of the inode group.
LEMMA LayoutGroup == ASSUME LayoutInv, AllocInodeGroup PROVE LayoutInv'
<1>1. CASE Candidates(NInode) = {}
  <2>1. pc' = "exit" /\ UNCHANGED memVars /\ size' = size
    BY <1>1 DEF AllocInodeGroup, NInode
  <2>. QED BY <2>1, LayoutIdle DEF Stopped
<1>2. CASE Candidates(NInode) # {}
  <2>1. /\ groups' = AllocFromBitmap(NInode).groups
        /\ sys' = NewGroup(AllocFromBitmap(NInode).at, 0, NInode * Bpc)
        /\ pc' = "sync1" /\ pc = "group"
        /\ size' = size /\ fe' = fe /\ ext' = ext
    BY <1>2 DEF AllocInodeGroup, NInode
  <2>2. /\ sys.blkno = 0 /\ DOMAIN groups # {} /\ ext["root"].n = 0 /\ ext["sysdir"].n = 0
        /\ \A f \in Files : fe[f] = 0
    BY <2>1 DEF LayoutInv, Allocated
  <2>3. Laid(FirstCg)
    <3>1. Top = FirstCg /\ Laid(Top)
      BY <2>2, Geometry DEF LayoutInv, Top
    <3>. QED BY <3>1
  <2>4. FirstCg \in Nat /\ NInode \in Nat \ {0} /\ FirstCg + NInode < MaxBits
    BY Geometry, RoomAssumption
  <2>5. /\ Laid(FirstCg + NInode)' /\ FirstCg + NInode < Cpg
        /\ AllocFromBitmap(NInode).at = (FirstCg + 1) * Bpc
    BY <1>2, <2>1, <2>3, <2>4, AllocLaid DEF LayoutInv
  <2>6. (FirstCg + 1) * Bpc \in Nat \ {0} /\ NInode * Bpc \in Nat \ {0}
    BY Geometry, GeometryAssumption
  <2>7. /\ sys' \in GroupType /\ sys'.blkno = (FirstCg + 1) * Bpc
        /\ sys'.bits = NInode * Bpc /\ sys'.set = {0} /\ sys'.free = U16(NInode * Bpc - 1)
        /\ sys'.next = 0
    <3>1. sys' = NewGroup((FirstCg + 1) * Bpc, 0, NInode * Bpc)
      BY <2>1, <2>5
    <3>2. (FirstCg + 1) * Bpc \in Nat /\ 0 \in Nat /\ NInode * Bpc \in Nat
      BY <2>6
    <3> DEFINE g == NewGroup((FirstCg + 1) * Bpc, 0, NInode * Bpc)
    <3>3. /\ g \in GroupType /\ g.blkno = (FirstCg + 1) * Bpc /\ g.bits = NInode * Bpc
          /\ g.set = {0} /\ g.free = U16(NInode * Bpc - 1) /\ g.next = 0
      BY <3>2, GroupMade
    <3> HIDE DEF g
    <3>. QED BY <3>1, <3>3 DEF g
  <2>8. Top' = FirstCg + NInode
    BY <2>1, <2>2, <2>4, <2>6, <2>7 DEF Top
  <2>9. Cpg' = Cpg /\ DOMAIN groups' # {}
    <3>1. NrGroups \in Nat \ {0} /\ NrGroups' = NrGroups
      BY <2>1, GroupCount DEF LayoutInv, NrGroups, Cpg
    <3>2. 0 \in 0 .. NrGroups - 1
      BY <3>1
    <3>. QED BY <2>1, <2>5, <3>1, <3>2 DEF Laid, Cpg
  <2>10. UsedTo(0)'
    <3>1. {0} = 0 .. 0 /\ 0 < NInode * Bpc
      BY <2>6
    <3>2. U16(NInode * Bpc - 1) = NInode * Bpc - 1 /\ NInode * Bpc - 1 - 0 = NInode * Bpc - 1
      BY <2>6, Geometry, Counter
    <3>. QED BY <2>1, <2>2, <2>7, <3>1, <3>2 DEF UsedTo
  <2>11. InodeGroup'
    <3>1. 0 \in Nat
      OBVIOUS
    <3>. QED BY <2>1, <2>2, <2>5, <2>7, <2>9, <2>10, <3>1 DEF InodeGroup
  <2>12. Allocated'
    BY <2>1, <2>2, <2>6, <2>7 DEF Allocated, Stopped, Erasing
  <2>13. (ExtentAt("root", 1) /\ ExtentAt("sysdir", 2))'
    BY <2>1, <2>2 DEF LayoutInv, ExtentAt
  <2>. QED BY <2>1, <2>2, <2>5, <2>6, <2>7, <2>8, <2>11, <2>12, <2>13 DEF LayoutInv
<1>. QED BY <1>1, <1>2

\* A directory takes the next cluster and the next inode block.
LEMMA LayoutDirectory ==
    ASSUME LayoutInv, NEW d, NEW i, NEW next, AllocDirectory(d, next), size' = size,
           \/ pc = "root" /\ d = "root" /\ i = 1 /\ next = "sysdir"
           \/ pc = "sysdir" /\ d = "sysdir" /\ i = 2 /\ next = "files"
    PROVE  LayoutInv'
<1>1. CASE Candidates(1) = {} \/ InodeBit = {}
  <2>1. pc' = "exit" /\ UNCHANGED memVars /\ size' = size
    BY <1>1 DEF AllocDirectory
  <2>. QED BY <2>1, LayoutIdle DEF Stopped
<1>2. CASE Candidates(1) # {} /\ InodeBit # {}
  <2>1. /\ groups' = AllocFromBitmap(1).groups /\ sys' = AllocInode.sys
        /\ fe' = [fe EXCEPT ![d] = AllocInode.blk]
        /\ ext' = [ext EXCEPT ![d] = [at |-> AllocFromBitmap(1).at, n |-> 1]]
        /\ pc' = next /\ k' = 1
    BY <1>2 DEF AllocDirectory
  <2>2. /\ sys.blkno # 0 /\ InodeGroup /\ ext["sysdir"].n = 0 /\ ext["root"].n = i - 1
        /\ i \in {1, 2} /\ d \in Files /\ d \in Dirs
    <3>1. d \in Dirs /\ d \in Files /\ i \in {1, 2}
      BY DEF Dirs, Files
    <3>2. ext["sysdir"].n = 0 /\ ext["root"].n = i - 1
      BY DEF LayoutInv, Allocated
    <3>3. sys.blkno # 0
      <4>1. CASE pc = "root"
        BY <4>1 DEF LayoutInv, Allocated
      <4>2. CASE pc = "sysdir"
        BY <4>2 DEF LayoutInv, Allocated
      <4>. QED BY <4>1, <4>2
    <3>. QED BY <3>1, <3>2, <3>3 DEF LayoutInv
  <2>3. /\ FirstCg \in Nat /\ NInode \in Nat \ {0} /\ MaxBits \in Nat
        /\ FirstCg + NInode + 2 < MaxBits
    BY Geometry, RoomAssumption
  <2> DEFINE t == FirstCg + NInode + (i - 1)
  <2>4. t \in Nat /\ t + 1 < MaxBits /\ t + 1 = FirstCg + NInode + i
    BY <2>2, <2>3
  <2>5. Laid(t)
    <3>1. Top = t
      BY <2>2, <2>3 DEF Top
    <3>2. Laid(Top)
      BY <2>2 DEF LayoutInv, InodeGroup
    <3>. QED BY <3>1, <3>2
  <2> HIDE DEF t
  <2>6. /\ Laid(t + 1)' /\ t + 1 < Cpg /\ AllocFromBitmap(1).at = (t + 1) * Bpc
    BY <1>2, <2>1, <2>4, <2>5, AllocLaid DEF LayoutInv
  <2>7. Cpg' = Cpg /\ DOMAIN groups' # {}
    <3>1. NrGroups \in Nat \ {0} /\ NrGroups' = NrGroups
      BY GroupCount DEF LayoutInv, NrGroups, Cpg
    <3>2. 0 \in 0 .. NrGroups - 1
      BY <3>1
    <3>. QED BY <2>6, <3>1, <3>2 DEF Laid, Cpg
  <2>8. /\ sys' \in GroupType /\ sys'.blkno = sys.blkno /\ fe' \in [Files -> Nat]
        /\ InodeGroup'
    BY <1>2, <2>1, <2>2, <2>7, InodeTaken DEF LayoutInv
  <2>9. /\ ext' \in [Dirs -> [at : Nat, n : {0, 1}]]
        /\ ext'[d].n = 1 /\ ext'[d].at = (t + 1) * Bpc
        /\ \A e \in Dirs : e # d => ext'[e] = ext[e]
    <3>1. (t + 1) * Bpc \in Nat
      BY <2>4, GeometryAssumption
    <3>2. ext' = [ext EXCEPT ![d] = [at |-> (t + 1) * Bpc, n |-> 1]]
      BY <2>1, <2>6
    <3>3. ext \in [Dirs -> [at : Nat, n : {0, 1}]]
      BY DEF LayoutInv
    <3>. QED BY <2>2, <3>1, <3>2, <3>3
  <2>10. "root" \in Dirs /\ "sysdir" \in Dirs
    BY DEF Dirs
  <2>11. ext'["root"].n = 1 /\ ext'["sysdir"].n = i - 1
    BY <2>2, <2>9, <2>10
  <2>12. Top' = t + 1
    <3>1. sys'.blkno # 0
      BY <2>2, <2>8
    <3>. QED BY <2>2, <2>3, <2>4, <2>11, <3>1 DEF Top
  <2>13. ExtentAt("root", 1)'
    <3>1. CASE d = "root"
      BY <2>4, <2>6, <2>7, <2>9, <3>1 DEF ExtentAt
    <3>2. CASE d = "sysdir"
      BY <2>7, <2>9, <2>10, <3>2 DEF LayoutInv, ExtentAt
    <3>. QED BY <3>1, <3>2
  <2>14. ExtentAt("sysdir", 2)'
    <3>1. CASE d = "root"
      BY <2>7, <2>9, <2>10, <3>1 DEF LayoutInv, ExtentAt
    <3>2. CASE d = "sysdir"
      BY <2>4, <2>6, <2>7, <2>9, <3>2 DEF ExtentAt
    <3>. QED BY <3>1, <3>2
  <2>15. Allocated'
    BY <2>1, <2>11 DEF Allocated, Stopped, Erasing
  <2>16. Laid(Top)'
    BY <2>6, <2>12
  <2>. QED BY <2>2, <2>8, <2>9, <2>11, <2>13, <2>14, <2>15, <2>16 DEF LayoutInv
<1>. QED BY <1>1, <1>2

\* A system file takes the next inode block, unless it is skipped.
LEMMA LayoutFile == ASSUME LayoutInv, AllocFile PROVE LayoutInv'
<1> DEFINE f == SystemFiles[k]
<1>1. size' = size /\ groups' = groups /\ bm' = bm /\ ext' = ext /\ pc = "files"
  BY DEF AllocFile
<1>2. CASE Skipped(f) \/ InodeBit = {}
  <2>1. UNCHANGED <<sys, fe, dir>> /\ pc' \in {pc, "exit"} /\ k' = k + 1
    BY <1>2 DEF AllocFile
  <2>2. k \in Nat \ {0}
    BY <1>1 DEF LayoutInv, Allocated
  <2>. QED BY <1>1, <2>1, <2>2, LayoutIdle DEF Stopped, memVars
<1>3. CASE ~ Skipped(f) /\ InodeBit # {}
  <2>1. sys' = AllocInode.sys /\ fe' = [fe EXCEPT ![f] = AllocInode.blk] /\ pc' = pc
    BY <1>3 DEF AllocFile
  <2>2. ext["sysdir"].n = 1 /\ sys.blkno # 0 /\ InodeGroup
    BY <1>1 DEF LayoutInv, Allocated, Stopped, Erasing
  <2>3. k \in Nat \ {0} /\ k' = k + 1
    BY <1>1 DEF LayoutInv, Allocated, AllocFile
  <2>4. f \in Files
    <3>1. k \in 1 .. NFiles /\ NFiles = 8
      BY <2>3 DEF AllocFile, NFiles, SystemFiles
    <3>. QED BY <3>1 DEF Files
  <2>5. QED
    <3>1. /\ sys' \in GroupType /\ sys'.blkno = sys.blkno /\ fe' \in [Files -> Nat]
          /\ InodeGroup'
      <4>1. DOMAIN groups' # {}
        BY <1>1, <2>2 DEF InodeGroup
      <4>. QED BY <1>1, <1>3, <2>1, <2>2, <2>4, <4>1, InodeTaken DEF LayoutInv
    <3>2. Cpg' = Cpg /\ NrGroups' = NrGroups /\ Top' = Top
      BY <1>1, <3>1 DEF Cpg, NrGroups, Top
    <3>3. Laid(Top)'
      <4>1. Laid(Top)
        BY <2>2 DEF LayoutInv, InodeGroup
      <4>. QED BY <1>1, <3>2, <4>1 DEF Laid
    <3>4. (ExtentAt("root", 1) /\ ExtentAt("sysdir", 2))'
      BY <1>1, <3>2 DEF LayoutInv, ExtentAt
    <3>5. Allocated'
      BY <1>1, <2>1, <2>2, <2>3 DEF Allocated, Stopped, Erasing
    <3>. QED BY <1>1, <2>2, <3>1, <3>3, <3>4, <3>5 DEF LayoutInv
<1>. QED BY <1>2, <1>3

\* Every step of main keeps the layout.
LEMMA LayoutStep == LayoutInv /\ [Next]_vars => LayoutInv'
<1> SUFFICES ASSUME LayoutInv, [Next]_vars PROVE LayoutInv'
  OBVIOUS
<1> USE DEF Erasing, Stopped
<1>1. CASE ClearStart
  BY <1>1, LayoutIdle DEF ClearStart, DoPwrite
<1>2. CASE ClearEnd
  BY <1>2, LayoutIdle DEF ClearEnd, DoPwrite
<1>3. CASE InitializeBitmap
  BY <1>3, LayoutBitmap
<1>4. CASE AllocInodeGroup
  BY <1>4, LayoutGroup
<1>5. CASE Sync1
  BY <1>5, LayoutIdle DEF Sync1, Fsync
<1>6. CASE AllocRoot
  <2>1. size' = size
    BY <1>6 DEF AllocRoot, AllocDirectory
  <2>. QED BY <1>6, <2>1, LayoutDirectory DEF AllocRoot
<1>7. CASE AllocSysdir
  <2>1. size' = size
    BY <1>7 DEF AllocSysdir, AllocDirectory
  <2>. QED BY <1>7, <2>1, LayoutDirectory DEF AllocSysdir
<1>8. CASE AllocFile
  BY <1>8, LayoutFile
<1>9. CASE FilesEnd
  BY <1>9, LayoutIdle DEF FilesEnd
<1>10. CASE Sync2
  BY <1>10, LayoutIdle DEF Sync2, Fsync
<1>11. CASE FormatFile
  BY <1>11, LayoutIdle DEF FormatFile, DoPwrite
<1>12. CASE FormatEnd
  BY <1>12, LayoutIdle DEF FormatEnd
<1>13. CASE WriteBitmapData
  BY <1>13, LayoutIdle DEF WriteBitmapData, DoPwrite
<1>14. CASE BitmapDataEnd
  BY <1>14, LayoutIdle DEF BitmapDataEnd
<1>15. CASE WriteGroupData
  BY <1>15, LayoutIdle DEF WriteGroupData, DoPwrite
<1>16. ASSUME WriteRoot \/ WriteSysdir PROVE LayoutInv'
  BY <1>16, LayoutIdle DEF WriteRoot, WriteSysdir, WriteDir, DoPwrite
<1>17. CASE Sync3
  BY <1>17, LayoutIdle DEF Sync3, Fsync
<1>18. CASE FormatLeadingSpace
  BY <1>18, LayoutIdle DEF FormatLeadingSpace, DoPwrite
<1>19. CASE FormatSuperblock
  BY <1>19, LayoutIdle DEF FormatSuperblock, DoPwrite
<1>20. CASE CloseDevice
  BY <1>20, LayoutIdle DEF CloseDevice, Fsync
<1>21. CASE Interrupt
  BY <1>21, LayoutIdle DEF Interrupt
<1>22. CASE Crash
  BY <1>22, LayoutIdle DEF Crash
<1>23. CASE UNCHANGED vars
  BY <1>23, LayoutIdle DEF vars, LayoutInv, Allocated
<1>. QED
  BY <1>1, <1>2, <1>3, <1>4, <1>5, <1>6, <1>7, <1>8, <1>9, <1>10, <1>11, <1>12, <1>13,
     <1>14, <1>15, <1>16, <1>17, <1>18, <1>19, <1>20, <1>21, <1>22, <1>23 DEF Next, Step

\* The layout holds in every state.
LEMMA LayoutInvariant == Spec => []LayoutInv
BY LayoutInit, LayoutStep, PTL DEF Spec

\* The blocks of n clusters from cluster c on.
Clusters(c, n) == c * Bpc .. (c + n) * Bpc - 1

\* Runs of clusters that do not meet have no block in common.
LEMMA ClustersApart ==
    ASSUME NEW c \in Nat, NEW n \in Nat, NEW d \in Nat, NEW m \in Nat, c + n <= d
    PROVE  Clusters(c, n) \cap Clusters(d, m) = {}
<1>1. (c + n) * Bpc <= d * Bpc
  BY GeometryAssumption
<1>2. c * Bpc \in Int /\ (c + n) * Bpc \in Int /\ d * Bpc \in Int /\ (d + m) * Bpc \in Int
  BY GeometryAssumption
<1>. QED BY <1>1, <1>2 DEF Clusters

\* Clusters of the volume are blocks of the device.
LEMMA ClustersInside ==
    ASSUME size \in Nat, NEW c \in Nat, NEW n \in Nat, c + n <= size
    PROVE  Clusters(c, n) \subseteq Blocks
<1>1. (c + n) * Bpc <= size * Bpc /\ c * Bpc >= 0
  BY GeometryAssumption
<1>2. c * Bpc \in Int /\ (c + n) * Bpc \in Int /\ size * Bpc \in Int
  BY GeometryAssumption
<1>. QED BY <1>1, <1>2 DEF Clusters, Blocks

\* The run of blocks of n clusters, written with its first block.
LEMMA ClustersAt ==
    ASSUME NEW c \in Nat, NEW n \in Nat, NEW b, b = c * Bpc
    PROVE  b .. b + n * Bpc - 1 = Clusters(c, n)
<1>1. (c + n) * Bpc = c * Bpc + n * Bpc
  BY GeometryAssumption
<1>2. \A x, y, z \in Int : x = y + z => x - 1 = y + (z - 1)
  OBVIOUS
<1>3. c * Bpc \in Int /\ n * Bpc \in Int /\ (c + n) * Bpc \in Int
  BY GeometryAssumption
<1>4. (c + n) * Bpc - 1 = b + (n * Bpc - 1)
  BY <1>1, <1>2, <1>3
<1>. QED BY <1>4, Zenon DEF Clusters

\* Where each owner of blocks lies, in clusters.
Place(x) ==
    \/ x = <<<<"lead", 0>>, Clusters(0, FirstCg)>>
    \/ x = <<<<"desc", 0>>, Clusters(FirstCg, 1)>>
    \/ /\ \E j \in Nat : j > 0 /\ x = <<<<"desc", j>>, Clusters(Cpg, 1)>>
       /\ FirstCg < Cpg /\ Cpg < size
    \/ x = <<<<"inodes", 0>>, Clusters(FirstCg + 1, NInode)>> /\ FirstCg + NInode < Cpg
    \/ x = <<<<"root", 0>>, Clusters(FirstCg + NInode + 1, 1)>> /\ FirstCg + NInode + 1 < Cpg
    \/ x = <<<<"sysdir", 0>>, Clusters(FirstCg + NInode + 2, 1)>> /\ FirstCg + NInode + 2 < Cpg

\* Each owner is at its place.
LEMMA Places == ASSUME LayoutInv, NEW x \in Owned PROVE Place(x)
<1>1. Bpc \in Nat \ {0} /\ FirstCg \in Nat /\ NInode \in Nat /\ FirstCgBlk = FirstCg * Bpc
      /\ 1 * Bpc = Bpc
  BY GeometryAssumption, Geometry
<1>2. CASE x = <<<<"lead", 0>>, 0 .. FirstCgBlk - 1>>
  <2>1. Clusters(0, FirstCg) = 0 .. FirstCgBlk - 1
    BY <1>1 DEF Clusters
  <2>. QED BY <1>2, <2>1 DEF Place
<1>3. ASSUME NEW j \in Bitmaps,
             x = <<<<"desc", j>>, groups[j].blkno .. groups[j].blkno + Bpc - 1>>
      PROVE  Place(x)
  <2>1. Laid(Top) /\ NrGroups \in Nat \ {0} /\ Cpg \in Nat
    BY <1>3, GroupCount DEF LayoutInv, Bitmaps
  <2>2. CASE j = 0
    <3>1. groups[j].blkno = FirstCg * Bpc
      BY <1>1, <2>1, <2>2 DEF Laid
    <3>2. groups[j].blkno .. groups[j].blkno + 1 * Bpc - 1 = Clusters(FirstCg, 1)
      BY <1>1, <3>1, ClustersAt
    <3>. QED BY <1>1, <1>3, <2>2, <3>2 DEF Place
  <2>3. CASE j # 0
    <3>1. j \in 1 .. NrGroups - 1
      BY <2>1, <2>3 DEF Laid, Bitmaps
    <3>2. groups[j].blkno = Cpg * Bpc /\ NrGroups > 1
      BY <2>1, <3>1 DEF Laid
    <3>3. groups[j].blkno .. groups[j].blkno + 1 * Bpc - 1 = Clusters(Cpg, 1)
      BY <2>1, <3>2, ClustersAt
    <3>4. FirstCg < Cpg /\ Cpg < size
      BY <1>1, <3>2, GroupCount, Geometry, RoomAssumption DEF LayoutInv
    <3>5. j \in Nat /\ j > 0
      BY <2>1, <3>1
    <3>6. x = <<<<"desc", j>>, Clusters(Cpg, 1)>>
      BY <1>1, <1>3, <3>3
    <3>. QED BY <3>4, <3>5, <3>6 DEF Place
  <2>. QED BY <2>2, <2>3
<1>4. ASSUME sys.blkno # 0, x = <<<<"inodes", 0>>, sys.blkno .. sys.blkno + sys.bits - 1>>
      PROVE  Place(x)
  <2>1. /\ sys.blkno = (FirstCg + 1) * Bpc /\ sys.bits = NInode * Bpc
        /\ FirstCg + NInode < Cpg
    BY <1>4 DEF LayoutInv, InodeGroup
  <2>2. sys.blkno .. sys.blkno + NInode * Bpc - 1 = Clusters(FirstCg + 1, NInode)
    BY <1>1, <2>1, ClustersAt
  <2>. QED BY <1>4, <2>1, <2>2 DEF Place
<1>5. ASSUME NEW d \in Dirs, ext[d].n > 0, x = <<<<d, 0>>, ext[d].at .. ext[d].at + Bpc - 1>>
      PROVE  Place(x)
  <2>1. ext[d].n # 0
    BY <1>5
  <2>2. CASE d = "root"
    <3>1. /\ ext[d].at = (FirstCg + NInode + 1) * Bpc /\ FirstCg + NInode + 1 < Cpg
      BY <2>1, <2>2 DEF LayoutInv, ExtentAt
    <3>3. FirstCg + NInode + 1 \in Nat /\ 1 \in Nat
      BY <1>1
    <3>2. ext[d].at .. ext[d].at + 1 * Bpc - 1 = Clusters(FirstCg + NInode + 1, 1)
      BY <3>1, <3>3, ClustersAt, Zenon
    <3>. QED BY <1>1, <1>5, <2>2, <3>1, <3>2 DEF Place
  <2>3. CASE d = "sysdir"
    <3>1. /\ ext[d].at = (FirstCg + NInode + 2) * Bpc /\ FirstCg + NInode + 2 < Cpg
      BY <2>1, <2>3 DEF LayoutInv, ExtentAt
    <3>3. FirstCg + NInode + 2 \in Nat /\ 1 \in Nat
      BY <1>1
    <3>2. ext[d].at .. ext[d].at + 1 * Bpc - 1 = Clusters(FirstCg + NInode + 2, 1)
      BY <3>1, <3>3, ClustersAt, Zenon
    <3>. QED BY <1>1, <1>5, <2>3, <3>1, <3>2 DEF Place
  <2>. QED BY <2>2, <2>3 DEF Dirs
<1>. QED BY <1>2, <1>3, <1>4, <1>5 DEF Owned

\* The invariant implies the property.
LEMMA LayoutMeans == LayoutInv => AllocDisjoint
<1> SUFFICES ASSUME LayoutInv PROVE AllocDisjoint
  OBVIOUS
<1>1. /\ FirstCg \in Nat /\ NInode \in Nat /\ Cpg \in Nat /\ Cpg <= size /\ size \in Nat
  BY Geometry, GroupCount DEF LayoutInv
<1>2. ASSUME NEW x \in Owned, NEW y \in Owned, x[1] # y[1], ~ SameDescriptor(x[1], y[1])
      PROVE  x[2] \cap y[2] = {}
  <2>1. Place(x) /\ Place(y)
    BY Places
  <2> DEFINE lead == Clusters(0, FirstCg)
             d0 == Clusters(FirstCg, 1)
             d1 == Clusters(Cpg, 1)
             ino == Clusters(FirstCg + 1, NInode)
             ro == Clusters(FirstCg + NInode + 1, 1)
             sy == Clusters(FirstCg + NInode + 2, 1)
  <2>2. lead \cap d0 = {} /\ (FirstCg < Cpg => lead \cap d1 = {})
    BY <1>1, ClustersApart
  <2>3. lead \cap ino = {} /\ lead \cap ro = {} /\ lead \cap sy = {}
    BY <1>1, ClustersApart
  <2>4. d0 \cap ino = {} /\ d0 \cap ro = {} /\ d0 \cap sy = {}
    BY <1>1, ClustersApart
  <2>5. ino \cap ro = {} /\ ino \cap sy = {} /\ ro \cap sy = {}
    BY <1>1, ClustersApart
  <2>6. FirstCg + NInode < Cpg => ino \cap d1 = {}
    BY <1>1, ClustersApart
  <2>7. FirstCg + NInode + 1 < Cpg => ro \cap d1 = {}
    BY <1>1, ClustersApart
  <2>8. FirstCg + NInode + 2 < Cpg => sy \cap d1 = {}
    BY <1>1, ClustersApart
  <2> HIDE DEF lead, d0, d1, ino, ro, sy
  <2> DEFINE later(t) == t[1] = "desc" /\ t[2] > 0
             at(z) == \/ z[1] = <<"lead", 0>> /\ z[2] = lead
                      \/ z[1] = <<"desc", 0>> /\ z[2] = d0
                      \/ z[1] = <<"inodes", 0>> /\ z[2] = ino /\ FirstCg + NInode < Cpg
                      \/ z[1] = <<"root", 0>> /\ z[2] = ro /\ FirstCg + NInode + 1 < Cpg
                      \/ z[1] = <<"sysdir", 0>> /\ z[2] = sy /\ FirstCg + NInode + 2 < Cpg
  <2>9. \A z : Place(z) => \/ at(z)
                           \/ later(z[1]) /\ z[2] = d1 /\ FirstCg < Cpg /\ Cpg < size
    BY DEF Place, lead, d0, d1, ino, ro, sy
  <2>10. \A A, B : A \cap B = B \cap A
    OBVIOUS
  <2>11. ~ (later(x[1]) /\ later(y[1]))
    BY <1>2 DEF SameDescriptor
  <2> HIDE DEF later
  <2>12. CASE at(x) /\ at(y)
    BY <1>2, <2>2, <2>3, <2>4, <2>5, <2>10, <2>12
  <2>13. ASSUME NEW z, at(z), FirstCg < Cpg PROVE z[2] \cap d1 = {}
    <3>1. d0 \cap d1 = {}
      BY <1>1, <2>13, ClustersApart DEF d0, d1
    <3>. QED BY <2>2, <2>6, <2>7, <2>8, <2>13, <3>1
  <2> HIDE DEF at
  <2>. QED BY <2>1, <2>9, <2>10, <2>11, <2>12, <2>13
<1>3. ASSUME sys.blkno > 0, NEW x \in Owned PROVE x[2] \subseteq Blocks
  <2>1. sys.blkno # 0
    BY <1>3
  <2>2. FirstCg + NInode < Cpg
    BY <2>1 DEF LayoutInv, InodeGroup
  <2>3. /\ Clusters(0, FirstCg) \subseteq Blocks /\ Clusters(FirstCg, 1) \subseteq Blocks
        /\ Clusters(FirstCg + 1, NInode) \subseteq Blocks
        /\ Cpg < size => Clusters(Cpg, 1) \subseteq Blocks
        /\ FirstCg + NInode + 1 < Cpg => Clusters(FirstCg + NInode + 1, 1) \subseteq Blocks
        /\ FirstCg + NInode + 2 < Cpg => Clusters(FirstCg + NInode + 2, 1) \subseteq Blocks
    BY <1>1, <2>2, ClustersInside, Geometry
  <2>4. Place(x)
    BY Places
  <2>. QED BY <2>3, <2>4 DEF Place
<1>4. ASSUME NEW f \in Files, fe[f] # 0
      PROVE  /\ fe[f] \in sys.blkno + 1 .. sys.blkno + sys.bits - 1
             /\ \A g \in Files : fe[f] = fe[g] => f = g
  <2>1. InodeGroup
    BY <1>4 DEF LayoutInv
  <2>2. PICK m \in Nat : UsedTo(m)
    BY <2>1 DEF InodeGroup
  <2>3. sys.bits \in Nat /\ sys.blkno \in Nat /\ m < sys.bits
    BY <2>2 DEF LayoutInv, GroupType, UsedTo
  <2>4. fe[f] \in sys.blkno + 1 .. sys.blkno + m
    BY <1>4, <2>2 DEF UsedTo
  <2>5. fe[f] \in sys.blkno + 1 .. sys.blkno + sys.bits - 1
    BY <2>3, <2>4
  <2>6. \A g \in Files : fe[f] = fe[g] => f = g
    BY <1>4, <2>1 DEF InodeGroup
  <2>. QED BY <2>5, <2>6
<1>. QED BY <1>2, <1>3, <1>4 DEF AllocDisjoint

\* For every geometry and volume size, also the ones that are too small:
\* what the two allocators hand out (alloc_from_bitmap, alloc_inode) and what
\* is fixed (the leading space, the descriptors) never overlap and lie inside
\* the volume, and no two inodes share a block.  The one exception is that of
\* mkfs.c:1084, which gives the descriptors of the second and all further
\* groups one block; that block has no other owner.
THEOREM NothingAllocatedTwice == Spec => []AllocDisjoint
BY LayoutInvariant, LayoutMeans, PTL

-----------------------------------------------------------------------------
(* Counters and marks.                                                     *)

\* The cluster of a block.
LEMMA ClusterOf ==
    ASSUME NEW c \in Nat, NEW n \in Nat, NEW b \in Clusters(c, n)
    PROVE  b \div Bpc \in Nat /\ c <= b \div Bpc /\ b \div Bpc < c + n
<1> DEFINE q == b \div Bpc
           r == b % Bpc
<1>1. Bpc \in Nat \ {0} /\ c * Bpc \in Nat /\ (c + n) * Bpc \in Nat
  BY GeometryAssumption
<1>2. b \in Nat /\ c * Bpc <= b /\ b < (c + n) * Bpc
  BY <1>1 DEF Clusters
<1>3. q \in Int /\ r \in 0 .. Bpc - 1 /\ b = Bpc * q + r
  BY <1>1, <1>2
<1> HIDE DEF q, r
<1>4. Bpc * q \in Int /\ Bpc * q <= b /\ b < Bpc * q + Bpc
  BY <1>1, <1>2, <1>3
<1>5. \A x, y \in Int : x <= y => Bpc * x <= Bpc * y
  BY <1>1
<1>6. Bpc * q + Bpc = Bpc * (q + 1) /\ c * Bpc = Bpc * c /\ (c + n) * Bpc = Bpc * (c + n)
  BY <1>1, <1>3
<1>7. c <= q
  <2>1. ASSUME ~ (c <= q) PROVE FALSE
    <3>1. q + 1 <= c /\ q + 1 \in Int
      BY <1>3, <2>1
    <3>2. Bpc * (q + 1) <= Bpc * c
      BY <1>5, <3>1
    <3>. QED BY <1>1, <1>2, <1>3, <1>4, <1>6, <3>2
  <2>. QED BY <2>1
<1>8. q < c + n
  <2>1. ASSUME ~ (q < c + n) PROVE FALSE
    <3>1. c + n <= q /\ c + n \in Int
      BY <1>3, <2>1
    <3>2. Bpc * (c + n) <= Bpc * q
      BY <1>3, <1>5, <3>1
    <3>. QED BY <1>1, <1>2, <1>3, <1>4, <1>6, <3>2
  <2>. QED BY <2>1
<1>. QED BY <1>3, <1>7, <1>8 DEF q

\* An owner other than the descriptors of later groups lies in clusters that
\* the first group has marked.
LEMMA OwnersTaken ==
    ASSUME LayoutInv, sys.blkno # 0, NEW x \in Owned
    PROVE  \/ x[2] = Clusters(Cpg, 1) /\ Cpg < size
           \/ \E c, n \in Nat : x[2] = Clusters(c, n) /\ c + n <= Top + 1
<1>1. /\ FirstCg \in Nat /\ NInode \in Nat
      /\ ext["root"].n \in {0, 1} /\ ext["sysdir"].n \in {0, 1}
      /\ ext["root"].n = 0 => ext["sysdir"].n = 0
  BY Geometry DEF LayoutInv, Dirs
<1>2. Top = FirstCg + NInode + ext["root"].n + ext["sysdir"].n
  BY DEF Top
<1>3. Place(x)
  BY Places
<1>4. \A d \in Dirs : x[1] = <<d, 0>> => ext[d].n > 0
  BY DEF Owned, Dirs
<1>5. CASE x = <<<<"lead", 0>>, Clusters(0, FirstCg)>>
  <2>1. 0 \in Nat /\ 0 + FirstCg <= Top + 1
    BY <1>1, <1>2
  <2>. QED BY <1>1, <1>5, <2>1
<1>6. CASE x = <<<<"desc", 0>>, Clusters(FirstCg, 1)>>
  <2>1. 1 \in Nat /\ FirstCg + 1 <= Top + 1
    BY <1>1, <1>2
  <2>. QED BY <1>1, <1>6, <2>1
<1>7. CASE x[2] = Clusters(Cpg, 1) /\ Cpg < size
  BY <1>7
<1>8. CASE x = <<<<"inodes", 0>>, Clusters(FirstCg + 1, NInode)>>
  <2>1. FirstCg + 1 \in Nat /\ FirstCg + 1 + NInode <= Top + 1
    BY <1>1, <1>2
  <2>. QED BY <1>1, <1>8, <2>1
<1>9. CASE x = <<<<"root", 0>>, Clusters(FirstCg + NInode + 1, 1)>>
  <2>1. ext["root"].n > 0
    BY <1>4, <1>9 DEF Dirs
  <2>2. 1 \in Nat /\ FirstCg + NInode + 1 \in Nat /\ FirstCg + NInode + 1 + 1 <= Top + 1
    BY <1>1, <1>2, <2>1
  <2>. QED BY <1>9, <2>2
<1>10. CASE x = <<<<"sysdir", 0>>, Clusters(FirstCg + NInode + 2, 1)>>
  <2>1. ext["sysdir"].n > 0
    BY <1>4, <1>10 DEF Dirs
  <2>2. 1 \in Nat /\ FirstCg + NInode + 2 \in Nat /\ FirstCg + NInode + 2 + 1 <= Top + 1
    BY <1>1, <1>2, <2>1
  <2>. QED BY <1>10, <2>2
<1>. QED BY <1>3, <1>5, <1>6, <1>7, <1>8, <1>9, <1>10 DEF Place

\* The first group is never filled beyond its bits.
LEMMA TopFits ==
    ASSUME LayoutInv, sys.blkno # 0 PROVE Top \in Nat /\ Top < Cpg
<1>1. /\ FirstCg \in Nat /\ NInode \in Nat /\ Cpg \in Nat
      /\ ext["root"].n \in {0, 1} /\ ext["sysdir"].n \in {0, 1}
      /\ ext["root"].n = 0 => ext["sysdir"].n = 0
  BY Geometry, GroupCount DEF LayoutInv, Dirs
<1>2. Top = FirstCg + NInode + ext["root"].n + ext["sysdir"].n
  BY DEF Top
<1>3. FirstCg + NInode < Cpg
  BY DEF LayoutInv, InodeGroup
<1>4. /\ ext["root"].n # 0 => FirstCg + NInode + 1 < Cpg
      /\ ext["sysdir"].n # 0 => FirstCg + NInode + 2 < Cpg
  BY DEF LayoutInv, ExtentAt
<1>. QED BY <1>1, <1>2, <1>3, <1>4

\* The layout marks every cluster that somebody owns.
LEMMA LayoutMarks == LayoutInv => OwnersMarked
<1> SUFFICES ASSUME LayoutInv, sys.blkno > 0, NEW x \in Owned, NEW b \in x[2]
             PROVE  (b \div Bpc) % Cpg \in groups[(b \div Bpc) \div Cpg].set
  BY DEF OwnersMarked
<1> DEFINE q == b \div Bpc
<1>1. sys.blkno # 0 /\ Top \in Nat /\ Top < Cpg /\ Cpg \in Nat \ {0} /\ Laid(Top)
      /\ NrGroups \in Nat \ {0} /\ size \in Nat
  <2>1. sys.blkno # 0
    BY DEF LayoutInv, GroupType
  <2>2. Laid(Top)
    BY <2>1 DEF LayoutInv, InodeGroup
  <2>. QED BY <2>1, <2>2, TopFits, GroupCount DEF LayoutInv
<1>2. CASE x[2] = Clusters(Cpg, 1) /\ Cpg < size
  <2>1. q = Cpg
    <3>1. q \in Nat /\ Cpg <= q /\ q < Cpg + 1
      BY <1>1, <1>2, ClusterOf
    <3>. QED BY <1>1, <3>1
  <2>2. NrGroups > 1
    <3>1. NrGroups * Cpg >= size
      BY <1>1, RoundUp DEF NrGroups, LayoutInv
    <3>2. NrGroups = 1 => NrGroups * Cpg = Cpg
      BY <1>1
    <3>. QED BY <1>1, <1>2, <3>1, <3>2
  <2>3. groups[1].set = {0}
    <3>1. 1 \in 1 .. NrGroups - 1
      BY <1>1, <2>2
    <3>. QED BY <1>1, <3>1 DEF Laid
  <2>4. Cpg % Cpg = 0 /\ Cpg \div Cpg = 1
    BY <1>1
  <2> HIDE DEF q
  <2>5. q % Cpg \in groups[q \div Cpg].set
    BY <2>1, <2>3, <2>4
  <2>. QED BY <2>5 DEF q
<1>3. ASSUME NEW c \in Nat, NEW n \in Nat, x[2] = Clusters(c, n), c + n <= Top + 1
      PROVE  q % Cpg \in groups[q \div Cpg].set
  <2>1. q \in Nat /\ q <= Top /\ q < Cpg
    <3>1. q \in Nat /\ c <= q /\ q < c + n
      BY <1>3, ClusterOf
    <3>. QED BY <1>1, <1>3, <3>1
  <2> HIDE DEF q
  <2>2. q % Cpg = q /\ q \div Cpg = 0
    BY <1>1, <2>1
  <2>3. groups[0].set = 0 .. Top
    BY <1>1 DEF Laid
  <2>. QED BY <1>1, <2>1, <2>2, <2>3
<1>. QED BY <1>1, <1>2, <1>3, OwnersTaken

\* The layout keeps the free counter of each group at its clear bits.
LEMMA LayoutCounts == LayoutInv => FreeBits
<1> SUFFICES ASSUME LayoutInv PROVE FreeBits
  OBVIOUS
<1>1. Cpg \in Nat \ {0} /\ Cpg <= 65536 /\ NrGroups \in Nat \ {0}
  BY GroupCount, RoomAssumption DEF LayoutInv
<1>2. ASSUME NEW t \in Nat PROVE Cardinality(0 .. t) = t + 1
  <2>1. Cardinality(0 .. t) = IF 0 > t THEN 0 ELSE t - 0 + 1
    BY FS_Interval
  <2>. QED BY <2>1
<1>3. ASSUME NEW j \in Bitmaps, groups[j].set \subseteq 0 .. groups[j].bits - 1
      PROVE  groups[j].free = groups[j].bits - Cardinality(groups[j].set)
  <2>1. Laid(Top) /\ j \in 0 .. NrGroups - 1
    BY <1>3 DEF LayoutInv, Laid, Bitmaps
  <2>2. CASE j = 0
    <3>1. groups[j].set = 0 .. Top /\ groups[j].bits = Cpg /\ groups[j].free = U16(Cpg - 1 - Top)
      BY <2>1, <2>2 DEF Laid
    <3>2. Top \in Nat
      BY TopNat
    <3>3. Top < Cpg
      <4>1. Top \in 0 .. Top
        BY <3>2
      <4>. QED BY <1>1, <1>3, <3>1, <3>2, <4>1
    <3>4. U16(Cpg - 1 - Top) = Cpg - 1 - Top
      BY <1>1, <3>2, <3>3, Counter
    <3>5. Cardinality(0 .. Top) = Top + 1
      BY <1>2, <3>2
    <3>. QED BY <1>1, <3>1, <3>2, <3>4, <3>5
  <2>3. CASE j # 0
    <3>1. groups[j].set = {0} /\ groups[j].bits \in 1 .. Cpg /\ groups[j].free = U16(groups[j].bits - 1)
      BY <1>1, <2>1, <2>3 DEF Laid
    <3>2. U16(groups[j].bits - 1) = groups[j].bits - 1
      BY <1>1, <3>1, Counter
    <3>3. Cardinality({0}) = 1
      BY FS_Singleton
    <3>. QED BY <3>1, <3>2, <3>3
  <2>. QED BY <2>2, <2>3
<1>4. ASSUME sys.blkno > 0 PROVE sys.free = sys.bits - Cardinality(sys.set)
  <2>1. sys.blkno # 0 /\ sys.bits \in Nat
    BY <1>4 DEF LayoutInv, GroupType
  <2>2. PICK m \in Nat : UsedTo(m)
    BY <2>1 DEF LayoutInv, InodeGroup
  <2>3. Cardinality(0 .. m) = m + 1
    BY <1>2
  <2>. QED BY <2>1, <2>2, <2>3 DEF UsedTo
<1>. QED BY <1>3, <1>4 DEF FreeBits

\* The values of pc.
Steps == Stopped \cup Erasing \cup
         {"root", "sysdir", "files", "sync2", "inodes", "bitmapdata", "groupdata",
          "rootdata", "sysdirdata", "sync3", "leading", "super", "close"}

InSteps == pc \in Steps

\* main is always at one of its steps.
LEMMA StepsKept == InSteps /\ [Next]_vars => InSteps'
<1> SUFFICES ASSUME InSteps, [Next]_vars PROVE InSteps'
  OBVIOUS
<1> USE DEF InSteps, Steps, Erasing, Stopped
<1>1. CASE ClearStart \/ ClearEnd
  BY <1>1 DEF ClearStart, ClearEnd, DoPwrite
<1>2. CASE InitializeBitmap \/ AllocInodeGroup \/ AllocRoot \/ AllocSysdir \/ AllocFile
  BY <1>2 DEF InitializeBitmap, AllocInodeGroup, AllocRoot, AllocSysdir, AllocDirectory, AllocFile
<1>3. CASE Sync1 \/ Sync2 \/ Sync3 \/ CloseDevice
  BY <1>3 DEF Sync1, Sync2, Sync3, CloseDevice, Fsync
<1>4. CASE FilesEnd \/ FormatEnd \/ BitmapDataEnd
  BY <1>4 DEF FilesEnd, FormatEnd, BitmapDataEnd
<1>5. CASE FormatFile \/ WriteBitmapData \/ WriteGroupData
  BY <1>5 DEF FormatFile, WriteBitmapData, WriteGroupData, DoPwrite
<1>6. CASE WriteRoot \/ WriteSysdir
  BY <1>6 DEF WriteRoot, WriteSysdir, WriteDir, DoPwrite
<1>7. CASE FormatLeadingSpace \/ FormatSuperblock
  BY <1>7 DEF FormatLeadingSpace, FormatSuperblock, DoPwrite
<1>8. CASE Interrupt \/ Crash
  BY <1>8 DEF Interrupt, Crash
<1>9. CASE UNCHANGED vars
  BY <1>9 DEF vars
<1>. QED BY <1>1, <1>2, <1>3, <1>4, <1>5, <1>6, <1>7, <1>8, <1>9 DEF Next, Step

\* The layout has its types.
LEMMA LayoutTypes == LayoutInv /\ DeviceOK /\ InSteps => TypeOK
<1> SUFFICES ASSUME LayoutInv, DeviceOK, InSteps PROVE TypeOK
  OBVIOUS
<1>1. 0 \in Blocks
  <2>1. size * Bpc \in Nat \ {0}
    BY GeometryAssumption DEF LayoutInv
  <2>. QED BY <2>1 DEF Blocks
<1>2. ASSUME NEW j \in Bitmaps
      PROVE  groups[j].blkno \in Nat /\ U16(groups[j].free) = groups[j].free
  <2>1. Laid(Top) /\ j \in 0 .. NrGroups - 1 /\ NrGroups \in Nat
    BY <1>2, GroupCount DEF LayoutInv, Laid, Bitmaps
  <2>2. groups[j] \in GroupType
    BY <2>1 DEF Laid
  <2>3. \E n \in Int : groups[j].free = U16(n)
    <3>1. Cpg \in Int /\ Top \in Int
      BY TopNat, GroupCount DEF LayoutInv
    <3>2. CASE j = 0
      <4>1. groups[j].free = U16(Cpg - 1 - Top) /\ Cpg - 1 - Top \in Int
        BY <2>1, <3>1, <3>2 DEF Laid
      <4>. QED BY <4>1
    <3>3. CASE j # 0
      <4>1. j \in 1 .. NrGroups - 1
        BY <2>1, <3>3
      <4>2. groups[j].free = U16(groups[j].bits - 1)
        BY <2>1, <4>1 DEF Laid
      <4>3. groups[j].bits - 1 \in Int
        BY <2>2 DEF GroupType
      <4>. QED BY <4>2, <4>3
    <3>. QED BY <3>2, <3>3
  <2>4. groups[j].free \in Int /\ groups[j].free >= 0 /\ groups[j].free < 65536
    BY <2>3, Counter
  <2>. QED BY <2>2, <2>4, Counter DEF GroupType
<1>3. AllocDisjoint /\ (sys.blkno > 0 => \A x \in Owned : x[2] \subseteq Blocks)
  BY LayoutMeans DEF AllocDisjoint
<1>4. sys.blkno \in Nat /\ sys.bits \in Nat
  BY DEF LayoutInv, GroupType
<1>7. ASSUME NEW s, NEW A, <<s, A>> \in Owned, sys.blkno # 0 PROVE A \subseteq Blocks
  <2>1. <<s, A>>[2] = A
    OBVIOUS
  <2>. QED BY <1>3, <1>4, <1>7, <2>1
<1>5. ASSUME NEW f \in Files PROVE fe[f] \in Blocks
  <2>1. CASE fe[f] = 0
    BY <1>1, <2>1
  <2>2. CASE fe[f] # 0
    <3>1. sys.blkno # 0
      BY <2>2 DEF LayoutInv
    <3>2. <<<<"inodes", 0>>, sys.blkno .. sys.blkno + sys.bits - 1>> \in Owned
      BY <3>1 DEF Owned
    <3>3. sys.blkno .. sys.blkno + sys.bits - 1 \subseteq Blocks
      BY <1>3, <1>4, <3>1, <3>2
    <3>4. fe[f] \in sys.blkno + 1 .. sys.blkno + sys.bits - 1
      BY <1>3, <2>2 DEF AllocDisjoint
    <3>. QED BY <1>4, <3>3, <3>4
  <2>. QED BY <2>1, <2>2
<1>6. ASSUME NEW d \in Dirs PROVE ext[d].at \in Blocks
  <2>1. ext[d].n \in {0, 1} /\ ext[d].at \in Nat
    BY DEF LayoutInv
  <2>2. CASE ext[d].n = 0
    BY <1>1, <2>2 DEF LayoutInv, ExtentAt, Dirs
  <2>3. CASE ext[d].n = 1
    <3>1. sys.blkno # 0
      <4>1. /\ sys.blkno = 0 => ext["root"].n = 0
            /\ ext["root"].n = 0 => ext["sysdir"].n = 0
        BY DEF LayoutInv
      <4>. QED BY <2>3, <4>1 DEF Dirs
    <3>2. <<<<d, 0>>, ext[d].at .. ext[d].at + Bpc - 1>> \in Owned
      BY <2>3 DEF Owned
    <3>3. ext[d].at .. ext[d].at + Bpc - 1 \subseteq Blocks
      BY <1>7, <3>1, <3>2
    <3>. QED BY <2>1, <3>3, GeometryAssumption
  <2>. QED BY <2>1, <2>2, <2>3
<1>. QED BY <1>2, <1>5, <1>6 DEF TypeOK, DeviceOK, InSteps, Steps, Stopped, Erasing

\* In every state the 16-bit counter of each group and of the inode group
\* equals its clear bits, every cluster that belongs to something is marked
\* in the bitmap at the place cmfs computes for it, and every block number is
\* one of the volume: what alloc_from_bitmap, alloc_inode and
\* initialize_bitmap keep in step, for every geometry.
LEMMA CountersInStep == Spec => [](FreeBits /\ OwnersMarked /\ TypeOK)
<1>1. Spec => []InSteps
  <2>1. Init => InSteps
    BY DEF Init, InSteps, Steps, Erasing
  <2>. QED BY <2>1, StepsKept, PTL DEF Spec
<1>2. Spec => []EraseInv
  BY EraseInit, EraseStep, PTL DEF Spec
<1>3. EraseInv => DeviceOK
  BY DEF EraseInv
<1>. QED BY <1>1, <1>2, <1>3, LayoutInvariant, LayoutTypes, LayoutCounts, LayoutMarks, PTL

\* F is what adding up the numbers v[x] over a set gives, whichever element
\* is taken first.
AddsUp(F, v, S) ==
    /\ F \in [SUBSET S -> Int]
    /\ F[{}] = 0
    /\ \A s \in SUBSET S : \A x \in s : F[s] = v[x] + F[s \ {x}]

\* it is computed by the recursion of MapThenSumSet over S.
Sums(it, v, S) ==
    it = [s \in SUBSET S |->
            IF s = {} THEN 0
            ELSE v[CHOOSE x \in s : TRUE] + it[s \ {CHOOSE x \in s : TRUE}]]

\* A function that adds up the numbers obeys the recursion.
LEMMA SumExists ==
    ASSUME NEW S, NEW v, NEW F, AddsUp(F, v, S)
    PROVE  Sums(F, v, S)
<1> DEFINE body(s) == IF s = {} THEN 0
                      ELSE v[CHOOSE x \in s : TRUE] + F[s \ {CHOOSE x \in s : TRUE}]
<1>1. ASSUME NEW s \in SUBSET S PROVE F[s] = body(s)
  <2>1. CASE s = {}
    BY <2>1 DEF AddsUp
  <2>2. CASE s # {}
    <3>1. (CHOOSE x \in s : TRUE) \in s
      BY <2>2, Zenon
    <3>2. F[s] = v[CHOOSE x \in s : TRUE] + F[s \ {CHOOSE x \in s : TRUE}]
      BY <3>1, Zenon DEF AddsUp
    <3>. QED BY <2>2, <3>2, Zenon
  <2>. QED BY <2>1, <2>2
<1> HIDE DEF body
<1>2. F = [s \in SUBSET S |-> body(s)]
  BY <1>1 DEF AddsUp
<1>. QED BY <1>2, Zenon DEF Sums, body

\* A set of numbers has a least one.
LEMMA LeastOf ==
    ASSUME NEW T \in SUBSET Nat, T # {}
    PROVE  \E x \in T : \A y \in T : x <= y
<1> DEFINE R == OpToRel(<, Nat)
<1>1. IsWellFoundedOn(R, Nat)
  BY NatLessThanWellFounded
<1> HIDE DEF R
<1>2. PICK x \in T : \A y \in T : ~ (<<y, x>> \in R)
  BY <1>1, WFMin
<1>3. \A y \in T : <<y, x>> \in R \/ ~ (y < x)
  BY DEF R, OpToRel
<1>4. \A y \in T : ~ (y < x)
  BY <1>2, <1>3
<1>. QED BY <1>4

\* The recursion has one solution only: of two, take a smallest set on which
\* they differ.
LEMMA SumUnique ==
    ASSUME NEW S, IsFiniteSet(S), NEW v, NEW F, AddsUp(F, v, S), NEW it, Sums(it, v, S)
    PROVE  it[S] = F[S]
<1> DEFINE Bad == {s \in SUBSET S : it[s] # F[s]}
           T == {Cardinality(s) : s \in Bad}
<1>1. SUFFICES ASSUME Bad # {} PROVE FALSE
  OBVIOUS
<1>2. \A s \in SUBSET S : IsFiniteSet(s) /\ Cardinality(s) \in Nat
  BY FS_Subset, FS_CardinalityType
<1>3. T \in SUBSET Nat /\ T # {}
  BY <1>1, <1>2
<1>4. PICK n \in T : \A y \in T : n <= y
  <2> HIDE DEF T
  <2>. QED BY <1>3, LeastOf
<1>5. PICK s \in Bad : n = Cardinality(s)
  OBVIOUS
<1> DEFINE x == CHOOSE y \in s : TRUE
<1>6. s \in SUBSET S /\ it[s] # F[s] /\ IsFiniteSet(s)
  BY <1>2
<1>7. s # {}
  <2>1. it[{}] = 0 /\ F[{}] = 0
    BY DEF Sums, AddsUp
  <2>. QED BY <1>6, <2>1
<1>8. x \in s
  BY <1>7
<1>9. it[s] = v[x] + it[s \ {x}]
  BY <1>6, <1>7 DEF Sums
<1> HIDE DEF x
<1>10. F[s] = v[x] + F[s \ {x}]
  BY <1>6, <1>8 DEF AddsUp
<1>11. it[s \ {x}] # F[s \ {x}] /\ s \ {x} \in SUBSET S
  BY <1>6, <1>9, <1>10
<1>12. Cardinality(s \ {x}) = Cardinality(s) - 1
  BY <1>6, <1>8, FS_RemoveElement
<1>13. n <= Cardinality(s \ {x})
  BY <1>4, <1>11
<1>14. n \in Nat
  BY <1>3
<1>. QED BY <1>5, <1>12, <1>13, <1>14

\* The recursion of MapThenSumSet over the sets of clusters in use.
LEMMA UsedSum ==
    ASSUME NEW F, NEW v, AddsUp(F, v, Bitmaps), IsFiniteSet(Bitmaps),
           \A j \in Bitmaps : v[j] = Cardinality(groups[j].set)
    PROVE  MapThenSumSet(LAMBDA j : Cardinality(groups[j].set), Bitmaps) = F[Bitmaps]
<1> DEFINE body(it) == [s \in SUBSET Bitmaps |->
                IF s = {} THEN 0
                ELSE Cardinality(groups[CHOOSE x \in s : TRUE].set)
                     + it[s \ {CHOOSE x \in s : TRUE}]]
           res == CHOOSE it : it = body(it)
<1>1. ASSUME NEW it PROVE it = body(it) <=> Sums(it, v, Bitmaps)
  <2> DEFINE C(s) == CHOOSE x \in s : TRUE
  <2>1. \A s \in SUBSET Bitmaps : s # {} => C(s) \in s
    OBVIOUS
  <2> HIDE DEF C
  <2>2. \A s \in SUBSET Bitmaps : s # {} => v[C(s)] = Cardinality(groups[C(s)].set)
    BY <2>1
  <2>3. [s \in SUBSET Bitmaps |-> IF s = {} THEN 0
                ELSE Cardinality(groups[C(s)].set) + it[s \ {C(s)}]]
      = [s \in SUBSET Bitmaps |-> IF s = {} THEN 0 ELSE v[C(s)] + it[s \ {C(s)}]]
    BY <2>2
  <2>. QED BY <2>3 DEF Sums, C
<1>2. MapThenSumSet(LAMBDA j : Cardinality(groups[j].set), Bitmaps) = res[Bitmaps]
  BY DEF MapThenSumSet, MapThenFoldSet
<1>3. F = body(F)
  BY <1>1, SumExists
<1>4. res = body(res)
  <2> HIDE DEF body
  <2>. QED BY <1>3
<1>5. Sums(res, v, Bitmaps)
  <2> HIDE DEF res, body
  <2>. QED BY <1>1, <1>4
<1>. QED
  <2> HIDE DEF res
  <2>. QED BY <1>2, <1>5, SumUnique

\* The clusters of a set of groups: all of them full but the last.
\* initialize_bitmap adds up the volume's clusters, so it never stops with
\* "bitmap total mismatch".
LEMMA TotalSum ==
    ASSUME size \in Nat \ {0}
    PROVE  MapThenSumSet(LAMBDA j : IF j > 0 /\ j = NrGroups - 1 THEN TailBits ELSE Cpg,
                         0 .. NrGroups - 1) = size
<1> DEFINE S == 0 .. NrGroups - 1
           bits(j) == IF j > 0 /\ j = NrGroups - 1 THEN TailBits ELSE Cpg
           v == [j \in S |-> bits(j)]
           short == IF NrGroups > 1 THEN Cpg - TailBits ELSE 0
           F == [s \in SUBSET S |-> Cardinality(s) * Cpg
                                    - (IF NrGroups - 1 \in s THEN short ELSE 0)]
<1>1. /\ Cpg \in 1 .. size /\ NrGroups \in Nat \ {0} /\ TailBits \in 1 .. Cpg
      /\ Cpg \in Nat \ {0}
  BY GroupCount
<1>2. IsFiniteSet(S) /\ Cardinality(S) = NrGroups
  BY <1>1, FS_Interval
<1>3. \A s \in SUBSET S : IsFiniteSet(s) /\ Cardinality(s) \in Nat
  BY <1>2, FS_Subset, FS_CardinalityType
<1>4. short \in Int
  BY <1>1
<1>5. F \in [SUBSET S -> Int]
  <2>1. \A n \in Nat : n * Cpg \in Int
    BY <1>1
  <2>. QED BY <1>3, <1>4, <2>1
<1>6. F[{}] = 0
  <2>1. Cardinality({}) = 0 /\ 0 * Cpg = 0
    BY <1>1, FS_EmptySet
  <2>. QED BY <2>1
<1>7. ASSUME NEW s \in SUBSET S, NEW x \in s PROVE F[s] = v[x] + F[s \ {x}]
  <2>1. Cardinality(s \ {x}) = Cardinality(s) - 1
    BY <1>3, FS_RemoveElement
  <2> DEFINE n == Cardinality(s)
             p == n * Cpg
  <2>2. n \in Nat /\ (n - 1) * Cpg = p - Cpg /\ p \in Int
    BY <1>1, <1>3
  <2>3. v[x] = IF x = NrGroups - 1 THEN Cpg - short ELSE Cpg
    BY <1>1
  <2>4. F[s] = p - (IF NrGroups - 1 \in s THEN short ELSE 0)
    OBVIOUS
  <2>5. F[s \ {x}] = p - Cpg - (IF NrGroups - 1 \in s \ {x} THEN short ELSE 0)
    BY <2>1, <2>2
  <2> HIDE DEF short, v, F, p
  <2>6. CASE x = NrGroups - 1
    BY <1>1, <1>4, <2>2, <2>3, <2>4, <2>5, <2>6
  <2>7. CASE x # NrGroups - 1
    BY <1>1, <1>4, <2>2, <2>3, <2>4, <2>5, <2>7
  <2>. QED BY <2>6, <2>7
<1>8. AddsUp(F, v, S)
  BY <1>5, <1>6, <1>7 DEF AddsUp
<1> DEFINE body(it) == [s \in SUBSET S |->
                IF s = {} THEN 0
                ELSE bits(CHOOSE x \in s : TRUE) + it[s \ {CHOOSE x \in s : TRUE}]]
           res == CHOOSE it : it = body(it)
<1>9. ASSUME NEW it PROVE it = body(it) <=> Sums(it, v, S)
  <2> DEFINE C(s) == CHOOSE x \in s : TRUE
  <2>1. \A s \in SUBSET S : s # {} => C(s) \in s
    OBVIOUS
  <2> HIDE DEF C, bits
  <2>2. \A s \in SUBSET S : s # {} => v[C(s)] = bits(C(s))
    BY <2>1
  <2>3. [s \in SUBSET S |-> IF s = {} THEN 0 ELSE bits(C(s)) + it[s \ {C(s)}]]
      = [s \in SUBSET S |-> IF s = {} THEN 0 ELSE v[C(s)] + it[s \ {C(s)}]]
    BY <2>2
  <2>. QED BY <2>3 DEF Sums, C
<1>10. MapThenSumSet(LAMBDA j : IF j > 0 /\ j = NrGroups - 1 THEN TailBits ELSE Cpg, S)
       = res[S]
  BY DEF MapThenSumSet, MapThenFoldSet
<1>11. F = body(F)
  <2> HIDE DEF body, F, v, S
  <2>. QED BY <1>8, <1>9, SumExists
<1>12. res = body(res)
  <2> HIDE DEF body, F
  <2>. QED BY <1>11
<1>13. res[S] = F[S]
  <2> HIDE DEF res, body, F, v, S
  <2>. QED BY <1>2, <1>8, <1>9, <1>12, SumUnique
<1>14. F[S] = size
  <2>1. F[S] = NrGroups * Cpg - short /\ S \in SUBSET S /\ NrGroups - 1 \in S
    BY <1>1, <1>2
  <2>2. NrGroups * Cpg - short = size
    <3> DEFINE q == size \div Cpg
               r == size % Cpg
               d == NrGroups - q
    <3>1. q \in Int /\ r \in 0 .. Cpg - 1 /\ size = Cpg * q + r /\ Cpg * q = q * Cpg
      BY <1>1
    <3>2. NrGroups * Cpg >= size /\ NrGroups * Cpg < size + Cpg
      BY <1>1, RoundUp DEF NrGroups
    <3>3. TailBits = IF r = 0 THEN Cpg ELSE r
      BY DEF TailBits
    <3> HIDE DEF q, r
    <3>4. d \in Int /\ d * Cpg = NrGroups * Cpg - q * Cpg
      BY <1>1, <3>1
    <3>5. d * Cpg >= r /\ d * Cpg < r + Cpg /\ NrGroups * Cpg = q * Cpg + d * Cpg
      BY <1>1, <3>1, <3>2, <3>4
    <3>6. /\ d < 0 => d * Cpg < 0
          /\ d >= 2 => d * Cpg >= Cpg + Cpg
          /\ d >= 1 => d * Cpg >= Cpg
          /\ d = 0 => d * Cpg = 0
          /\ d = 1 => d * Cpg = Cpg
      BY <1>1, <3>4
    <3> DEFINE dc == d * Cpg
               qc == q * Cpg
    <3>7. CASE r = 0
      <4>1. NrGroups * Cpg = size
        <5>1. d = 0
          BY <1>1, <3>4, <3>5, <3>6, <3>7
        <5>. QED BY <1>1, <3>1, <3>5, <3>6, <3>7, <5>1
      <4>. QED BY <1>1, <3>3, <3>7, <4>1
    <3>8. CASE r # 0
      <4>1. d = 1
        <5>1. r > 0 /\ r < Cpg /\ dc >= r /\ dc < r + Cpg /\ dc \in Int
          BY <1>1, <3>1, <3>4, <3>5, <3>8
        <5> HIDE DEF dc, d
        <5>2. ~ (d < 0) /\ d # 0 /\ ~ (d >= 2)
          BY <1>1, <3>1, <3>4, <3>6, <5>1 DEF dc
        <5>. QED BY <3>4, <5>2
      <4>2. NrGroups * Cpg = size - r + Cpg
        BY <1>1, <3>1, <3>5, <3>6, <4>1
      <4>3. NrGroups > 1
        <5>1. SUFFICES ASSUME NrGroups = 1 PROVE FALSE
          BY <1>1
        <5>2. NrGroups * Cpg = Cpg
          BY <1>1, <5>1
        <5>3. Cpg <= size /\ r < Cpg /\ size - r + Cpg = Cpg /\ r \in Nat
          BY <1>1, <3>1, <4>2, <5>2
        <5>. QED BY <1>1, <5>3
      <4>4. short = Cpg - r
        BY <3>3, <3>8, <4>3
      <4>. QED BY <1>1, <3>1, <4>2, <4>4
    <3>. QED BY <3>7, <3>8
  <2>. QED BY <2>1, <2>2
<1>. QED BY <1>10, <1>13, <1>14

\* bm.used as a closed formula: one bit for each descriptor, and those that
\* are taken behind the first one.
UsedInv ==
    /\ bm \in [used : Nat, total : Nat]
    /\ bm.used = IF DOMAIN groups = {} THEN 0 ELSE NrGroups + Top
    /\ pc # "mismatch"

\* The groups are never gone once they are made.
LEMMA GroupsMade == LayoutInv => (DOMAIN groups = {} \/ DOMAIN groups = 0 .. NrGroups - 1)
BY DEF LayoutInv, Laid

\* A step that leaves the bitmap, the inode group's place and the extents.
LEMMA UsedIdle ==
    ASSUME UsedInv, UNCHANGED <<size, groups, bm, ext>>, sys'.blkno = sys.blkno, pc' # "mismatch"
    PROVE  UsedInv'
BY DEF UsedInv, NrGroups, Cpg, Top

\* The steps that allocate clusters count them.
LEMMA UsedBitmap == ASSUME LayoutInv, InitializeBitmap PROVE UsedInv'
<1>1. /\ size' = size /\ sys' = sys /\ ext' = ext /\ pc = "bitmap"
      /\ bm'.used = NrGroups + FirstCg
      /\ bm'.total = MapThenSumSet(LAMBDA j : IF j > 0 /\ j = NrGroups - 1 THEN TailBits ELSE Cpg,
                                   0 .. NrGroups - 1)
      /\ pc' = IF bm'.total = size THEN "group" ELSE "mismatch"
      /\ DOMAIN groups' = 0 .. NrGroups - 1
  BY DEF InitializeBitmap
<1>2. bm'.total = size
  BY <1>1, TotalSum DEF LayoutInv
<1>3. NrGroups' = NrGroups /\ Top' = Top
  BY <1>1 DEF NrGroups, Cpg, Top
<1>4. Top = FirstCg
  BY <1>1, Geometry DEF LayoutInv, Allocated, InodeGroup, Top
<1>5. 0 \in DOMAIN groups' /\ NrGroups + FirstCg \in Nat /\ size \in Nat
  BY <1>1, GroupCount, Geometry DEF LayoutInv
<1>6. bm' = [used |-> bm'.used, total |-> bm'.total]
  BY DEF InitializeBitmap
<1>. QED BY <1>1, <1>2, <1>3, <1>4, <1>5, <1>6 DEF UsedInv

\* alloc_from_bitmap counts what it hands out, once.
LEMMA UsedAlloc ==
    ASSUME LayoutInv, LayoutInv', UsedInv, NEW n \in Nat, size' = size, pc' # "mismatch",
           DOMAIN groups # {}, DOMAIN groups' # {}, bm' = AllocFromBitmap(n).bm, Top' = Top + n
    PROVE  UsedInv'
<1>1. bm' = [bm EXCEPT !.used = @ + n] /\ bm.used = NrGroups + Top
  BY DEF AllocFromBitmap, UsedInv
<1>2. NrGroups' = NrGroups /\ NrGroups \in Nat
  BY GroupCount DEF NrGroups, Cpg, LayoutInv
<1>3. Top \in Nat
  BY TopNat
<1>. QED BY <1>1, <1>2, <1>3 DEF UsedInv

\* The inode group and the two directories.
LEMMA UsedGroup ==
    ASSUME LayoutInv, LayoutInv', UsedInv, AllocInodeGroup PROVE UsedInv'
<1>1. CASE Candidates(NInode) = {}
  <2>1. pc' = "exit" /\ UNCHANGED memVars /\ size' = size
    BY <1>1 DEF AllocInodeGroup, NInode
  <2>. QED BY <2>1, UsedIdle DEF memVars
<1>2. CASE Candidates(NInode) # {}
  <2>1. /\ bm' = AllocFromBitmap(NInode).bm /\ pc' = "sync1" /\ pc = "group"
        /\ size' = size /\ ext' = ext
    BY <1>2 DEF AllocInodeGroup, NInode
  <2>2. sys.blkno = 0 /\ DOMAIN groups # {} /\ sys'.blkno # 0 /\ DOMAIN groups' # {}
    BY <2>1 DEF LayoutInv, Allocated, InodeGroup
  <2>3. NInode \in Nat /\ FirstCg \in Nat /\ ext["root"].n \in Nat /\ ext["sysdir"].n \in Nat
    BY Geometry DEF LayoutInv, Dirs
  <2>4. Top' = Top + NInode
    BY <2>1, <2>2, <2>3 DEF Top
  <2>. QED BY <2>1, <2>2, <2>3, <2>4, UsedAlloc
<1>. QED BY <1>1, <1>2

\* A directory's extent is one cluster more.
LEMMA UsedDirectory ==
    ASSUME LayoutInv, LayoutInv', UsedInv, NEW d, NEW next, AllocDirectory(d, next), size' = size,
           \/ pc = "root" /\ d = "root" /\ next = "sysdir"
           \/ pc = "sysdir" /\ d = "sysdir" /\ next = "files"
    PROVE  UsedInv'
<1>1. CASE Candidates(1) = {} \/ InodeBit = {}
  <2>1. pc' = "exit" /\ UNCHANGED memVars /\ size' = size
    BY <1>1 DEF AllocDirectory
  <2>. QED BY <2>1, UsedIdle DEF memVars
<1>2. CASE Candidates(1) # {} /\ InodeBit # {}
  <2>1. /\ bm' = AllocFromBitmap(1).bm /\ pc' = next /\ sys' = AllocInode.sys
        /\ ext' = [ext EXCEPT ![d] = [at |-> AllocFromBitmap(1).at, n |-> 1]]
    BY <1>2 DEF AllocDirectory
  <2>2. /\ sys.blkno # 0 /\ DOMAIN groups # {} /\ ext[d].n = 0
        /\ d \in Dirs /\ ext \in [Dirs -> [at : Nat, n : {0, 1}]]
    <3>1. d \in Dirs /\ ext \in [Dirs -> [at : Nat, n : {0, 1}]]
      BY DEF Dirs, LayoutInv
    <3>2. sys.blkno # 0 /\ ext[d].n = 0
      <4>1. CASE pc = "root"
        BY <4>1 DEF LayoutInv, Allocated
      <4>2. CASE pc = "sysdir"
        BY <4>2 DEF LayoutInv, Allocated
      <4>. QED BY <4>1, <4>2
    <3>. QED BY <3>1, <3>2 DEF LayoutInv, InodeGroup
  <2>3. sys'.blkno = sys.blkno
    <3>1. sys \in GroupType
      BY DEF LayoutInv
    <3>. QED BY <2>1, <3>1 DEF AllocInode, Take, GroupType
  <2>4. ext'[d].n = 1 /\ \A e \in Dirs : e # d => ext'[e] = ext[e]
    BY <2>1, <2>2
  <2>5. DOMAIN groups' # {}
    BY <2>2, <2>3 DEF LayoutInv, InodeGroup
  <2>6. Top' = Top + 1
    <3>1. NInode \in Nat /\ FirstCg \in Nat /\ ext["root"].n \in Nat /\ ext["sysdir"].n \in Nat
      BY Geometry DEF LayoutInv, Dirs
    <3>2. "root" \in Dirs /\ "sysdir" \in Dirs
      BY DEF Dirs
    <3>3. CASE d = "root"
      BY <2>2, <2>3, <2>4, <3>1, <3>2, <3>3 DEF Top
    <3>4. CASE d = "sysdir"
      BY <2>2, <2>3, <2>4, <3>1, <3>2, <3>4 DEF Top
    <3>. QED BY <3>3, <3>4
  <2>7. next # "mismatch"
    OBVIOUS
  <2>. QED BY <2>1, <2>2, <2>5, <2>6, <2>7, UsedAlloc
<1>. QED BY <1>1, <1>2

\* Every step of main keeps the count.
LEMMA UsedStep == LayoutInv /\ LayoutInv' /\ UsedInv /\ [Next]_vars => UsedInv'
<1> SUFFICES ASSUME LayoutInv, LayoutInv', UsedInv, [Next]_vars PROVE UsedInv'
  OBVIOUS
<1>1. CASE InitializeBitmap
  BY <1>1, UsedBitmap
<1>2. CASE AllocInodeGroup
  BY <1>2, UsedGroup
<1>3. CASE AllocRoot
  <2>1. size' = size
    BY <1>3 DEF AllocRoot, AllocDirectory
  <2>. QED BY <1>3, <2>1, UsedDirectory DEF AllocRoot
<1>4. CASE AllocSysdir
  <2>1. size' = size
    BY <1>4 DEF AllocSysdir, AllocDirectory
  <2>. QED BY <1>4, <2>1, UsedDirectory DEF AllocSysdir
<1>5. CASE AllocFile
  <2>1. sys \in GroupType /\ pc # "mismatch"
    BY DEF LayoutInv, UsedInv
  <2>2. sys'.blkno = sys.blkno /\ pc' # "mismatch" /\ UNCHANGED <<size, groups, bm, ext>>
    BY <1>5, <2>1 DEF AllocFile, AllocInode, Take, GroupType
  <2>. QED BY <2>2, UsedIdle
<1>6. CASE ClearStart \/ ClearEnd
  BY <1>6, UsedIdle DEF ClearStart, ClearEnd, DoPwrite, memVars
<1>7. CASE Sync1 \/ Sync2 \/ Sync3 \/ CloseDevice
  BY <1>7, UsedIdle DEF Sync1, Sync2, Sync3, CloseDevice, Fsync, memVars
<1>8. CASE FilesEnd \/ FormatEnd \/ BitmapDataEnd
  BY <1>8, UsedIdle DEF FilesEnd, FormatEnd, BitmapDataEnd, memVars
<1>9. CASE FormatFile \/ WriteBitmapData \/ WriteGroupData
  BY <1>9, UsedIdle DEF FormatFile, WriteBitmapData, WriteGroupData, DoPwrite, memVars
<1>10. CASE WriteRoot \/ WriteSysdir
  BY <1>10, UsedIdle DEF WriteRoot, WriteSysdir, WriteDir, DoPwrite, memVars
<1>11. CASE FormatLeadingSpace \/ FormatSuperblock
  BY <1>11, UsedIdle DEF FormatLeadingSpace, FormatSuperblock, DoPwrite, memVars
<1>12. CASE Interrupt \/ Crash
  BY <1>12, UsedIdle DEF Interrupt, Crash, memVars
<1>13. CASE UNCHANGED vars
  <2>1. pc' # "mismatch"
    BY <1>13 DEF vars, UsedInv
  <2>. QED BY <1>13, <2>1, UsedIdle DEF vars, memVars
<1>. QED BY <1>1, <1>2, <1>3, <1>4, <1>5, <1>6, <1>7, <1>8, <1>9, <1>10, <1>11, <1>12, <1>13
         DEF Next, Step

\* The closed formula is the sum of the bits that are set in the groups.
LEMMA UsedMeans ==
    ASSUME LayoutInv, UsedInv
    PROVE  bm.used = MapThenSumSet(LAMBDA j : Cardinality(groups[j].set), Bitmaps)
<1> DEFINE v == [j \in Bitmaps |-> Cardinality(groups[j].set)]
           F == [s \in SUBSET Bitmaps |-> Cardinality(s) + (IF 0 \in s THEN Top ELSE 0)]
<1>1. Top \in Nat /\ NrGroups \in Nat \ {0}
  BY TopNat, GroupCount DEF LayoutInv
<1>2. /\ IsFiniteSet(Bitmaps)
      /\ Bitmaps = {} \/ (Bitmaps = 0 .. NrGroups - 1 /\ Cardinality(Bitmaps) = NrGroups)
  BY <1>1, GroupsMade, FS_Interval, FS_EmptySet DEF Bitmaps
<1>3. \A s \in SUBSET Bitmaps : IsFiniteSet(s) /\ Cardinality(s) \in Nat
  BY <1>2, FS_Subset, FS_CardinalityType
<1>4. Cardinality({}) = 0
  BY FS_EmptySet
<1>5. \A j \in Bitmaps : v[j] = 1 + (IF j = 0 THEN Top ELSE 0)
  <2>1. SUFFICES ASSUME NEW j \in Bitmaps
                 PROVE  Cardinality(groups[j].set) = 1 + (IF j = 0 THEN Top ELSE 0)
    OBVIOUS
  <2>2. Laid(Top) /\ j \in 0 .. NrGroups - 1
    BY <1>2 DEF LayoutInv, Bitmaps
  <2>3. CASE j = 0
    <3>1. groups[0].set = 0 .. Top /\ Cardinality(0 .. Top) = Top + 1
      BY <1>1, <2>2, FS_Interval DEF Laid
    <3>. QED BY <1>1, <2>3, <3>1
  <2>4. CASE j # 0
    <3>1. groups[j].set = {0}
      BY <1>1, <2>2, <2>4 DEF Laid
    <3>. QED BY <2>4, <3>1, FS_Singleton
  <2>. QED BY <2>3, <2>4
<1> HIDE DEF v
<1>6. ASSUME NEW s \in SUBSET Bitmaps, NEW x \in s PROVE F[s] = v[x] + F[s \ {x}]
  <2>1. Cardinality(s \ {x}) = Cardinality(s) - 1
    BY <1>3, FS_RemoveElement
  <2>. QED BY <1>1, <1>3, <1>5, <2>1
<1>7. AddsUp(F, v, Bitmaps)
  <2>1. F \in [SUBSET Bitmaps -> Int] /\ F[{}] = 0
    BY <1>1, <1>3, <1>4
  <2> HIDE DEF F
  <2>. QED BY <1>6, <2>1 DEF AddsUp
<1>8. F[Bitmaps] = bm.used
  <2>1. F[Bitmaps] = Cardinality(Bitmaps) + (IF 0 \in Bitmaps THEN Top ELSE 0)
    OBVIOUS
  <2>2. CASE Bitmaps = {}
    BY <1>4, <2>1, <2>2 DEF UsedInv, Bitmaps
  <2>3. CASE Bitmaps # {}
    <3>1. 0 \in Bitmaps /\ Cardinality(Bitmaps) = NrGroups
      BY <1>1, <1>2, <2>3
    <3>. QED BY <2>1, <2>3, <3>1 DEF UsedInv, Bitmaps
  <2>. QED BY <2>2, <2>3
<1>9. \A j \in Bitmaps : v[j] = Cardinality(groups[j].set)
  BY DEF v
<1> HIDE DEF F
<1>. QED BY <1>2, <1>7, <1>8, <1>9, UsedSum

\* In every state the counters of mkfs agree with the bitmaps they count: the
\* 16-bit counters of the groups and of the inode group, the used bits of the
\* bitmap file (the sum over all groups, however many there are) and its total,
\* which never fails the comparison with the volume's size; and every cluster
\* of an owner is marked.
THEOREM CountersMatch == Spec => []CountsMatch
<1>1. Init => UsedInv
  BY DEF Init, UsedInv
<1>2. Spec => []UsedInv
  BY <1>1, UsedStep, LayoutInvariant, PTL DEF Spec
<1>3. LayoutInv /\ UsedInv /\ FreeBits /\ OwnersMarked /\ TypeOK => CountsMatch
  BY UsedMeans DEF CountsMatch, UsedInv
<1>. QED BY <1>2, <1>3, LayoutInvariant, CountersInStep, PTL
=============================================================================
