---------------------------- MODULE MkfsComplete ----------------------------
(***************************************************************************)
(* A superblock that mkfs.cmfs has put on the device leads to a complete   *)
(* volume, for every geometry and wherever it was stopped.                 *)
(***************************************************************************)
EXTENDS MkfsProofs

-----------------------------------------------------------------------------
(* Names.                                                                  *)

SysFiles == {SystemFiles[n] : n \in 1 .. NFiles}
Formatting == {"files", "sync2", "inodes", "bitmapdata", "groupdata", "rootdata",
               "sysdirdata", "sync3", "leading", "super", "close", "done"}

\* An entry leads to an inode, and one that has a file's name to that file's.
EntryOK(e) == /\ \E f \in Files : fe[f] # 0 /\ e[2] = fe[f]
              /\ e[1] \in Files => e[2] = fe[e[1]]

\* Which inodes have a block where main stands.
Numbered ==
    /\ pc \in Erasing \cup {"root"} => \A f \in Files : fe[f] = 0
    /\ pc = "sysdir" => fe["root"] # 0 /\ \A f \in Files \ {"root"} : fe[f] = 0
    /\ pc \in Formatting => fe["root"] # 0 /\ fe["sysdir"] # 0
    /\ pc = "files" => \A i \in 1 .. NFiles :
                          /\ i >= k => fe[SystemFiles[i]] = 0
                          /\ i < k /\ ~ Skipped(SystemFiles[i]) => fe[SystemFiles[i]] # 0
    /\ pc \in Formatting \ {"files"} => \A f \in Files : ~ Skipped(f) => fe[f] # 0

NamesInv ==
    /\ dir = [d \in Dirs |-> dir[d]]
    /\ \A d \in Dirs : \A e \in dir[d] : EntryOK(e)
    /\ \A f \in SysFiles : fe[f] # 0 => <<f, fe[f]>> \in dir["sysdir"]
    /\ ~ journal => fe["journal"] = 0
    /\ Numbered

\* The names of the system files, all different and none of a directory.
LEMMA FileNames ==
    /\ NFiles = 8
    /\ \A i, j \in 1 .. NFiles : SystemFiles[i] = SystemFiles[j] => i = j
    /\ SysFiles \cap Dirs = {} /\ Files = Dirs \cup SysFiles
    /\ "." \notin Files /\ ".." \notin Files
    /\ \A f \in {"journal", "global_bitmap", "global_inode_alloc"} : f \in SysFiles
<1>1. NFiles = 8
  BY DEF NFiles, SystemFiles
<1>2. \A i \in 1 .. 8 : \/ i = 1 \/ i = 2 \/ i = 3 \/ i = 4 \/ i = 5 \/ i = 6 \/ i = 7 \/ i = 8
  OBVIOUS
<1>3. /\ SystemFiles[1] = "bad_blocks" /\ SystemFiles[2] = "global_inode_alloc"
      /\ SystemFiles[3] = "global_bitmap" /\ SystemFiles[4] = "extent_alloc"
      /\ SystemFiles[5] = "inode_alloc" /\ SystemFiles[6] = "journal"
      /\ SystemFiles[7] = "local_allc" /\ SystemFiles[8] = "truncate_log"
  BY DEF SystemFiles
<1>4. \A i, j \in 1 .. 8 : SystemFiles[i] = SystemFiles[j] => i = j
  BY <1>2, <1>3
<1>5. SysFiles = {"bad_blocks", "global_inode_alloc", "global_bitmap", "extent_alloc",
                  "inode_alloc", "journal", "local_allc", "truncate_log"}
  <2>1. \A i \in 1 .. 8 : SystemFiles[i] \in
            {"bad_blocks", "global_inode_alloc", "global_bitmap", "extent_alloc",
             "inode_alloc", "journal", "local_allc", "truncate_log"}
    BY <1>2, <1>3
  <2>2. 1 \in 1 .. 8 /\ 2 \in 1 .. 8 /\ 3 \in 1 .. 8 /\ 4 \in 1 .. 8 /\ 5 \in 1 .. 8
        /\ 6 \in 1 .. 8 /\ 7 \in 1 .. 8 /\ 8 \in 1 .. 8
    OBVIOUS
  <2>. QED BY <1>1, <1>3, <2>1, <2>2 DEF SysFiles
<1>6. Files = Dirs \cup SysFiles
  BY DEF Files, SysFiles
<1>. QED BY <1>1, <1>4, <1>5, <1>6 DEF Dirs

\* Before mkfs lays anything out no directory has an entry.
LEMMA NamesInit == Init => NamesInv
<1> SUFFICES ASSUME Init PROVE NamesInv
  OBVIOUS
<1>1. /\ pc = "clear" /\ \A f \in Files : fe[f] = 0
      /\ dir = [d \in Dirs |-> {}]
  BY DEF Init
<1>2. SysFiles \subseteq Files /\ "journal" \in Files
  BY FileNames
<1>. QED BY <1>1, <1>2 DEF NamesInv, Numbered, Erasing, Formatting

\* A step that names nothing.
LEMMA NamesIdle ==
    ASSUME NamesInv, UNCHANGED <<memVars, journal>>,
           \/ pc' = pc /\ k' = k
           \/ pc' = pc /\ pc # "files"
           \/ pc' \in Stopped \ {"done"}
           \/ pc \in Erasing /\ pc' \in Erasing \cup {"root"}
           \/ pc \in Formatting \ {"files"} /\ pc' \in Formatting \ {"files"}
    PROVE  NamesInv'
<1>1. fe' = fe /\ dir' = dir /\ journal' = journal
  BY DEF memVars
<1>2. Numbered'
  BY <1>1 DEF NamesInv, Numbered, Erasing, Formatting, Stopped, Skipped
<1>. QED BY <1>1, <1>2 DEF NamesInv, EntryOK

\* The block of a new inode is not block 0.
LEMMA InodeBlk ==
    ASSUME sys \in GroupType, InodeGroup, InodeBit # {}
    PROVE  AllocInode.blk \in Nat \ {0}
<1>1. PICK m \in Nat : UsedTo(m)
  BY DEF InodeGroup
<1>2. sys.set = 0 .. m /\ Min(InodeBit) = m + 1
  BY <1>1, NextInode DEF UsedTo
<1>3. sys.blkno \in Nat
  BY DEF GroupType
<1>. QED BY <1>2, <1>3 DEF AllocInode

\* An inode block for f, which had none, and entries of directory d for it.
LEMMA Named ==
    ASSUME NamesInv, NEW f, f \in Files, fe[f] = 0, fe'[f] # 0,
           \A g \in Files : g # f => fe'[g] = fe[g],
           NEW d \in Dirs, \A x \in Dirs : x # d => dir'[x] = dir[x],
           \A e \in dir'[d] : \/ e \in dir[d]
                              \/ e[2] = fe'[f] /\ (e[1] \in Files => e[1] = f),
           \/ /\ d = "sysdir" /\ f \in SysFiles
              /\ <<f, fe'[f]>> \in dir'[d] /\ dir[d] \subseteq dir'[d]
           \/ f \notin SysFiles /\ \A g \in SysFiles : fe[g] = 0
    PROVE  /\ \A x \in Dirs : \A e \in dir'[x] : EntryOK(e)'
           /\ \A g \in SysFiles : fe'[g] # 0 => <<g, fe'[g]>> \in dir'["sysdir"]
<1>1. ASSUME NEW e, EntryOK(e) PROVE EntryOK(e)'
  <2>1. PICK g \in Files : fe[g] # 0 /\ e[2] = fe[g]
    BY <1>1 DEF EntryOK
  <2>2. fe'[g] # 0 /\ e[2] = fe'[g]
    BY <2>1
  <2>3. e[1] \in Files => e[1] # f
    BY <1>1, <2>1 DEF EntryOK
  <2>. QED BY <1>1, <2>2, <2>3 DEF EntryOK
<1>2. ASSUME NEW e, e[2] = fe'[f], e[1] \in Files => e[1] = f PROVE EntryOK(e)'
  BY <1>2 DEF EntryOK
<1>3. \A x \in Dirs : \A e \in dir'[x] : EntryOK(e)'
  BY <1>1, <1>2 DEF NamesInv
<1>4. ASSUME NEW g \in SysFiles, fe'[g] # 0 PROVE <<g, fe'[g]>> \in dir'["sysdir"]
  <2>1. g \in Files /\ "sysdir" \in Dirs
    BY FileNames DEF Dirs
  <2>2. CASE g = f
    BY <2>2
  <2>3. CASE g # f
    <3>1. fe[g] # 0 /\ fe'[g] = fe[g] /\ <<g, fe[g]>> \in dir["sysdir"]
      BY <1>4, <2>1, <2>3 DEF NamesInv
    <3>. QED BY <3>1
  <2>. QED BY <2>2, <2>3
<1>. QED BY <1>3, <1>4

\* A directory names itself and its parent.
LEMMA NamesDirectory ==
    ASSUME NamesInv, LayoutInv, NEW d, NEW next, AllocDirectory(d, next),
           \/ pc = "root" /\ d = "root" /\ next = "sysdir"
           \/ pc = "sysdir" /\ d = "sysdir" /\ next = "files"
    PROVE  NamesInv'
<1>1. CASE Candidates(1) = {} \/ InodeBit = {}
  <2>1. pc' = "exit" /\ UNCHANGED memVars /\ journal' = journal
    BY <1>1 DEF AllocDirectory
  <2>. QED BY <2>1, NamesIdle DEF Stopped
<1>2. CASE Candidates(1) # {} /\ InodeBit # {}
  <2> DEFINE b == AllocInode.blk
             E == {<<".", b>>, <<"..", b>>}
  <2>1. /\ fe' = [fe EXCEPT ![d] = b] /\ dir' = [dir EXCEPT ![d] = E]
        /\ pc' = next /\ k' = 1 /\ journal' = journal
    BY <1>2 DEF AllocDirectory
  <2>2. InodeGroup /\ sys \in GroupType /\ fe \in [Files -> Nat]
    BY DEF LayoutInv, Allocated
  <2>3. b \in Nat \ {0}
    BY <1>2, <2>2, InodeBlk
  <2> HIDE DEF b
  <2>4. d \in Dirs /\ d \in Files /\ d \notin SysFiles /\ SysFiles \subseteq Files
    BY FileNames DEF Dirs
  <2>5. fe[d] = 0 /\ \A g \in SysFiles : fe[g] = 0
    BY <2>4, FileNames DEF NamesInv, Numbered, Dirs
  <2>6. \A e \in E : e[2] = b /\ e[1] \notin Files
    BY FileNames
  <2> HIDE DEF E
  <2>7. /\ dir' = [x \in Dirs |-> dir'[x]] /\ dir'[d] = E
        /\ \A x \in Dirs : x # d => dir'[x] = dir[x]
    BY <2>1, <2>4 DEF NamesInv
  <2>8. \A f \in Files : fe'[f] = IF f = d THEN b ELSE fe[f]
    BY <2>1, <2>2
  <2>11. /\ \A x \in Dirs : \A e \in dir'[x] : EntryOK(e)'
         /\ \A g \in SysFiles : fe'[g] # 0 => <<g, fe'[g]>> \in dir'["sysdir"]
    <3>1. fe'[d] = b /\ b # 0 /\ \A g \in Files : g # d => fe'[g] = fe[g]
      BY <2>3, <2>4, <2>8
    <3>2. \A e \in dir'[d] : e[2] = fe'[d] /\ (e[1] \in Files => e[1] = d)
      BY <2>6, <2>7, <3>1
    <3>3. d \in Files /\ d \in Dirs /\ fe[d] = 0 /\ fe'[d] # 0
      BY <2>4, <2>5, <3>1
    <3>4. d \notin SysFiles /\ \A g \in SysFiles : fe[g] = 0
      BY <2>4, <2>5
    <3>5. /\ \A x \in Dirs : x # d => dir'[x] = dir[x]
          /\ \A g \in Files : g # d => fe'[g] = fe[g]
      BY <2>7, <3>1
    <3>6. \A e \in dir'[d] : \/ e \in dir[d]
                             \/ e[2] = fe'[d] /\ (e[1] \in Files => e[1] = d)
      BY <3>2
    <3>7. \/ /\ d = "sysdir" /\ d \in SysFiles
             /\ <<d, fe'[d]>> \in dir'[d] /\ dir[d] \subseteq dir'[d]
          \/ d \notin SysFiles /\ \A g \in SysFiles : fe[g] = 0
      BY <3>4
    <3>. QED BY <3>3, <3>5, <3>6, <3>7, Named, Zenon
  <2>9. journal' \/ fe'["journal"] = 0
    BY <2>4, <2>5, <2>8, FileNames
  <2>10. Numbered'
    <3>1. CASE pc = "root"
      <4>1. \A f \in Files : fe[f] = 0
        BY <3>1 DEF NamesInv, Numbered
      <4>2. d = "root" /\ pc' = "sysdir"
        BY <2>1, <3>1
      <4>. QED BY <2>3, <2>4, <2>8, <4>1, <4>2 DEF Numbered, Erasing, Formatting
    <3>2. CASE pc = "sysdir"
      <4>1. fe["root"] # 0 /\ d = "sysdir" /\ pc' = "files"
        BY <2>1, <3>2 DEF NamesInv, Numbered
      <4>2. fe'["root"] # 0 /\ fe'["sysdir"] # 0
        BY <2>3, <2>8, <4>1, FileNames DEF Dirs
      <4>3. \A i \in 1 .. NFiles : i >= k' /\ fe'[SystemFiles[i]] = 0
        <5>1. \A i \in 1 .. NFiles : SystemFiles[i] \in SysFiles
          BY DEF SysFiles
        <5>2. \A i \in 1 .. NFiles : i >= 1
          BY FileNames
        <5>. QED BY <2>1, <2>4, <2>5, <2>8, <5>1, <5>2
      <4>4. \A i \in 1 .. NFiles : ~ (i < k')
        BY <2>1, FileNames
      <4>. QED BY <4>1, <4>2, <4>3, <4>4 DEF Numbered, Erasing, Formatting
    <3>. QED BY <3>1, <3>2
  <2>. QED BY <2>7, <2>9, <2>10, <2>11 DEF NamesInv
<1>. QED BY <1>1, <1>2

\* A system file gets an inode and an entry of the system directory.
LEMMA NamesFile == ASSUME NamesInv, LayoutInv, AllocFile PROVE NamesInv'
<1> DEFINE f == SystemFiles[k]
<1>1. /\ journal' = journal /\ pc = "files" /\ k' = k + 1 /\ k \in 1 .. NFiles
      /\ NFiles = 8 /\ bm' = bm /\ groups' = groups /\ ext' = ext
  BY FileNames DEF AllocFile, LayoutInv, Allocated
<1>2. f \in SysFiles /\ SysFiles \subseteq Files /\ f \in Files /\ fe[f] = 0
      /\ "root" # f /\ "sysdir" # f
  <2>1. f \in SysFiles
    BY <1>1 DEF SysFiles
  <2>2. fe[f] = 0
    BY <1>1 DEF NamesInv, Numbered
  <2>. QED BY <2>1, <2>2, FileNames DEF Dirs
<1>3. ASSUME NEW i \in 1 .. NFiles, i # k
      PROVE  SystemFiles[i] # f /\ SystemFiles[i] \in Files /\ (i >= k + 1 => i >= k)
             /\ (i < k + 1 => i < k)
  <2>1. SystemFiles[i] # f
    BY <1>1, <1>3, FileNames
  <2>2. SystemFiles[i] \in Files
    BY <1>2 DEF SysFiles
  <2>. QED BY <1>1, <1>3, <2>1, <2>2
<1>4. CASE Skipped(f)
  <2>1. fe' = fe /\ dir' = dir /\ pc' = pc
    BY <1>4 DEF AllocFile
  <2>2. \A i \in 1 .. NFiles : /\ i >= k' => fe'[SystemFiles[i]] = 0
                               /\ i < k' /\ ~ Skipped(SystemFiles[i])' => fe'[SystemFiles[i]] # 0
    BY <1>1, <1>3, <1>4, <2>1 DEF NamesInv, Numbered, Skipped
  <2>3. Numbered'
    BY <1>1, <2>1, <2>2 DEF NamesInv, Numbered, Erasing, Formatting
  <2>. QED BY <1>1, <2>1, <2>3 DEF NamesInv, EntryOK
<1>5. CASE ~ Skipped(f) /\ InodeBit = {}
  <2>1. fe' = fe /\ dir' = dir /\ pc' = "exit"
    BY <1>5 DEF AllocFile
  <2>2. Numbered'
    BY <2>1 DEF Numbered, Erasing, Formatting
  <2>. QED BY <1>1, <2>1, <2>2 DEF NamesInv, EntryOK
<1>6. CASE ~ Skipped(f) /\ InodeBit # {}
  <2> DEFINE b == AllocInode.blk
             E == dir["sysdir"] \cup {<<f, b>>}
  <2>1. fe' = [fe EXCEPT ![f] = b] /\ dir' = [dir EXCEPT !["sysdir"] = E] /\ pc' = pc
    BY <1>6 DEF AllocFile
  <2>2. InodeGroup /\ sys \in GroupType /\ fe \in [Files -> Nat]
    BY <1>1 DEF LayoutInv, Allocated, Stopped, Erasing
  <2>3. b \in Nat \ {0}
    BY <1>6, <2>2, InodeBlk
  <2> HIDE DEF b
  <2>4. "sysdir" \in Dirs /\ dir' = [x \in Dirs |-> dir'[x]] /\ dir'["sysdir"] = E
        /\ \A x \in Dirs : x # "sysdir" => dir'[x] = dir[x]
    <3>1. "sysdir" \in Dirs
      BY DEF Dirs
    <3>2. dir' = [dir EXCEPT !["sysdir"] = E]
      BY <2>1
    <3> HIDE DEF E
    <3>. QED BY <3>1, <3>2 DEF NamesInv
  <2>5. fe'[f] = b /\ \A g \in Files : g # f => fe'[g] = fe[g]
    BY <1>2, <2>1, <2>2
  <2>10. /\ \A x \in Dirs : \A e \in dir'[x] : EntryOK(e)'
         /\ \A g \in SysFiles : fe'[g] # 0 => <<g, fe'[g]>> \in dir'["sysdir"]
    <3>1. \A e \in E : e \in dir["sysdir"] \/ e = <<f, b>>
      OBVIOUS
    <3>2. <<f, b>>[2] = b /\ <<f, b>>[1] = f /\ <<f, b>> \in E /\ dir["sysdir"] \subseteq E
      OBVIOUS
    <3> HIDE DEF E, f
    <3>3. \A e \in dir'["sysdir"] : \/ e \in dir["sysdir"]
                                    \/ e[2] = fe'[f] /\ (e[1] \in Files => e[1] = f)
      BY <2>4, <2>5, <3>1, <3>2
    <3>4. <<f, fe'[f]>> \in dir'["sysdir"] /\ dir["sysdir"] \subseteq dir'["sysdir"]
      BY <2>4, <2>5, <3>2
    <3>. QED BY <1>2, <2>3, <2>4, <2>5, <3>3, <3>4, Named
  <2> HIDE DEF E
  <2>6. journal' \/ fe'["journal"] = 0
    <3>1. journal \/ f # "journal"
      BY <1>6 DEF Skipped
    <3>2. "journal" \in Files
      BY FileNames
    <3>. QED BY <1>1, <2>5, <3>1, <3>2 DEF NamesInv
  <2>7. ASSUME NEW i \in 1 .. NFiles
        PROVE  /\ i >= k' => fe'[SystemFiles[i]] = 0
               /\ i < k' /\ ~ Skipped(SystemFiles[i])' => fe'[SystemFiles[i]] # 0
    <3>1. CASE i = k
      BY <1>1, <2>3, <2>5, <3>1
    <3>2. CASE i # k
      <4>1. fe'[SystemFiles[i]] = fe[SystemFiles[i]]
        BY <1>3, <2>5, <3>2
      <4>. QED BY <1>1, <1>3, <3>2, <4>1 DEF NamesInv, Numbered, Skipped
    <3>. QED BY <3>1, <3>2
  <2>8. fe'["root"] # 0 /\ fe'["sysdir"] # 0
    <3>1. "root" \in Files /\ "sysdir" \in Files
      BY FileNames DEF Dirs
    <3>. QED BY <1>1, <1>2, <2>5, <3>1 DEF NamesInv, Numbered, Formatting
  <2>9. Numbered'
    BY <1>1, <2>1, <2>7, <2>8 DEF Numbered, Erasing, Formatting
  <2>. QED BY <2>4, <2>6, <2>9, <2>10 DEF NamesInv
<1>. QED BY <1>4, <1>5, <1>6

\* Every step of main keeps the names.
LEMMA NamesStep == NamesInv /\ LayoutInv /\ [Next]_vars => NamesInv'
<1> SUFFICES ASSUME NamesInv, LayoutInv, [Next]_vars PROVE NamesInv'
  OBVIOUS
<1> USE DEF Erasing, Stopped, Formatting
<1>1. CASE ClearStart
  BY <1>1, NamesIdle DEF ClearStart, DoPwrite
<1>2. CASE ClearEnd
  <2>1. UNCHANGED <<memVars, journal>> /\ pc = "clearend" /\ pc' \in {"exit", "bitmap"}
    BY <1>2 DEF ClearEnd, DoPwrite
  <2>. QED BY <2>1, NamesIdle
<1>3. ASSUME InitializeBitmap \/ AllocInodeGroup PROVE NamesInv'
  <2>1. /\ fe' = fe /\ dir' = dir /\ journal' = journal /\ pc \in {"bitmap", "group"}
        /\ pc' \in {"group", "mismatch", "sync1", "exit"}
    <3>1. CASE InitializeBitmap
      BY <3>1 DEF InitializeBitmap
    <3>2. CASE AllocInodeGroup
      BY <3>2 DEF AllocInodeGroup, memVars
    <3>. QED BY <1>3, <3>1, <3>2
  <2>2. Numbered'
    BY <2>1 DEF NamesInv, Numbered
  <2>. QED BY <2>1, <2>2 DEF NamesInv, EntryOK
<1>4. CASE Sync1
  BY <1>4, NamesIdle DEF Sync1, Fsync
<1>5. CASE AllocRoot
  BY <1>5, NamesDirectory DEF AllocRoot
<1>6. CASE AllocSysdir
  BY <1>6, NamesDirectory DEF AllocSysdir
<1>7. CASE AllocFile
  BY <1>7, NamesFile
<1>8. CASE FilesEnd
  <2>1. /\ fe' = fe /\ dir' = dir /\ journal' = journal /\ pc = "files" /\ pc' = "sync2"
        /\ k > NFiles /\ k \in Nat /\ NFiles = 8
    BY <1>8, FileNames DEF FilesEnd, memVars, LayoutInv, Allocated
  <2>2. \A i \in 1 .. NFiles : ~ Skipped(SystemFiles[i]) => fe[SystemFiles[i]] # 0
    BY <2>1 DEF NamesInv, Numbered
  <2>3. \A f \in Files : ~ Skipped(f) => fe[f] # 0
    BY <2>1, <2>2 DEF Files, Dirs, NamesInv, Numbered
  <2>4. Numbered'
    BY <2>1, <2>3 DEF NamesInv, Numbered, Skipped
  <2>. QED BY <2>1, <2>4 DEF NamesInv, EntryOK
<1>9. CASE Sync2
  BY <1>9, NamesIdle DEF Sync2, Fsync
<1>10. CASE FormatFile
  BY <1>10, NamesIdle DEF FormatFile, DoPwrite
<1>11. CASE FormatEnd
  BY <1>11, NamesIdle DEF FormatEnd
<1>12. CASE WriteBitmapData
  BY <1>12, NamesIdle DEF WriteBitmapData, DoPwrite
<1>13. CASE BitmapDataEnd
  BY <1>13, NamesIdle DEF BitmapDataEnd
<1>14. CASE WriteGroupData
  BY <1>14, NamesIdle DEF WriteGroupData, DoPwrite
<1>15. ASSUME WriteRoot \/ WriteSysdir PROVE NamesInv'
  BY <1>15, NamesIdle DEF WriteRoot, WriteSysdir, WriteDir, DoPwrite
<1>16. CASE Sync3
  BY <1>16, NamesIdle DEF Sync3, Fsync
<1>17. CASE FormatLeadingSpace
  BY <1>17, NamesIdle DEF FormatLeadingSpace, DoPwrite
<1>18. CASE FormatSuperblock
  BY <1>18, NamesIdle DEF FormatSuperblock, DoPwrite
<1>19. CASE CloseDevice
  BY <1>19, NamesIdle DEF CloseDevice, Fsync
<1>20. CASE Interrupt
  BY <1>20, NamesIdle DEF Interrupt
<1>21. CASE Crash
  BY <1>21, NamesIdle DEF Crash
<1>22. CASE UNCHANGED vars
  BY <1>22, NamesIdle DEF vars, memVars
<1>. QED
  BY <1>1, <1>2, <1>3, <1>4, <1>5, <1>6, <1>7, <1>8, <1>9, <1>10, <1>11, <1>12, <1>13,
     <1>14, <1>15, <1>16, <1>17, <1>18, <1>19, <1>20, <1>21, <1>22 DEF Next, Step

-----------------------------------------------------------------------------
(* Places.                                                                 *)

LeadBlks == 0 .. FirstCgBlk - 1
DescBlks(j) == groups[j].blkno .. groups[j].blkno + Bpc - 1
InodeBlks == sys.blkno .. sys.blkno + sys.bits - 1
DirBlks(d) == ext[d].at .. ext[d].at + Bpc - 1

\* Both allocators have served everything.
Ready == /\ ext["sysdir"].n = 1
         /\ \A f \in {"root", "sysdir", "global_bitmap", "global_inode_alloc"} : fe[f] # 0

\* When everything has its place, the places do not overlap.
LEMMA Apart ==
    ASSUME LayoutInv, ext["sysdir"].n = 1
    PROVE  /\ DOMAIN groups = 0 .. NrGroups - 1 /\ NrGroups \in Nat \ {0}
           /\ InodeBlks \subseteq Blocks /\ InodeBlks \cap LeadBlks = {}
           /\ \A d \in Dirs : /\ DirBlks(d) \subseteq Blocks /\ DirBlks(d) \cap LeadBlks = {}
                              /\ DirBlks(d) \cap InodeBlks = {}
           /\ DirBlks("root") \cap DirBlks("sysdir") = {}
           /\ \A j \in 0 .. NrGroups - 1 :
                /\ DescBlks(j) \subseteq Blocks /\ DescBlks(j) \cap LeadBlks = {}
                /\ DescBlks(j) \cap InodeBlks = {}
                /\ \A d \in Dirs : DescBlks(j) \cap DirBlks(d) = {}
<1>1. /\ sys.blkno # 0 /\ InodeGroup /\ ext["root"].n = 1 /\ sys.blkno \in Nat
      /\ sys.blkno > 0
  <2>1. ext["root"].n \in {0, 1} /\ sys.blkno \in Nat
    BY DEF LayoutInv, Dirs, GroupType
  <2>2. ext["root"].n = 1 /\ sys.blkno # 0
    BY <2>1 DEF LayoutInv
  <2>. QED BY <2>1, <2>2 DEF LayoutInv
<1>2. DOMAIN groups = 0 .. NrGroups - 1 /\ NrGroups \in Nat \ {0}
  <2>1. Laid(Top)
    BY <1>1 DEF LayoutInv, InodeGroup
  <2>. QED BY <2>1, GroupCount DEF Laid, LayoutInv
<1>3. /\ <<<<"lead", 0>>, LeadBlks>> \in Owned
      /\ <<<<"inodes", 0>>, InodeBlks>> \in Owned
      /\ \A d \in Dirs : <<<<d, 0>>, DirBlks(d)>> \in Owned
      /\ \A j \in 0 .. NrGroups - 1 : <<<<"desc", j>>, DescBlks(j)>> \in Owned
  <2>1. \A d \in Dirs : ext[d].n > 0
    BY <1>1 DEF Dirs
  <2>2. <<<<"lead", 0>>, LeadBlks>> \in Owned
    BY DEF Owned, LeadBlks
  <2>3. <<<<"inodes", 0>>, InodeBlks>> \in Owned
    BY <1>1 DEF Owned, InodeBlks
  <2>4. \A d \in Dirs : <<<<d, 0>>, DirBlks(d)>> \in Owned
    BY <2>1 DEF Owned, DirBlks
  <2>5. \A j \in 0 .. NrGroups - 1 : <<<<"desc", j>>, DescBlks(j)>> \in Owned
    BY <1>2 DEF Owned, DescBlks, Bitmaps
  <2>. QED BY <2>2, <2>3, <2>4, <2>5
<1>4. /\ \A x, y \in Owned : x[1] = y[1] \/ SameDescriptor(x[1], y[1]) \/ x[2] \cap y[2] = {}
      /\ \A x \in Owned : x[2] \subseteq Blocks
  BY <1>1, LayoutMeans DEF AllocDisjoint
<1>5. ASSUME NEW s, NEW t, NEW i, NEW j, NEW A, NEW B,
             <<<<s, i>>, A>> \in Owned, <<<<t, j>>, B>> \in Owned, s # t
      PROVE  A \cap B = {}
  <2>1. <<s, i>> # <<t, j>>
    BY <1>5
  <2>2. ~ SameDescriptor(<<s, i>>, <<t, j>>)
    BY <1>5 DEF SameDescriptor
  <2>. QED BY <1>4, <1>5, <2>1, <2>2
<1>6. ASSUME NEW s, NEW A, <<s, A>> \in Owned PROVE A \subseteq Blocks
  BY <1>4, <1>6
<1>7. \A d \in Dirs : d # "lead" /\ d # "inodes" /\ d # "desc"
  BY DEF Dirs
<1>8. InodeBlks \subseteq Blocks /\ InodeBlks \cap LeadBlks = {}
  BY <1>3, <1>5, <1>6
<1>9. \A d \in Dirs : /\ DirBlks(d) \subseteq Blocks /\ DirBlks(d) \cap LeadBlks = {}
                      /\ DirBlks(d) \cap InodeBlks = {}
  BY <1>3, <1>5, <1>6, <1>7
<1>10. DirBlks("root") \cap DirBlks("sysdir") = {}
  BY <1>3, <1>5 DEF Dirs
<1>11. \A j \in 0 .. NrGroups - 1 :
                /\ DescBlks(j) \subseteq Blocks /\ DescBlks(j) \cap LeadBlks = {}
                /\ DescBlks(j) \cap InodeBlks = {}
                /\ \A d \in Dirs : DescBlks(j) \cap DirBlks(d) = {}
  BY <1>3, <1>5, <1>6, <1>7
<1>. QED BY <1>2, <1>8, <1>9, <1>10, <1>11

\* Where the heads of the structures are.
LEMMA Heads ==
    ASSUME LayoutInv, ext["sysdir"].n = 1
    PROVE  /\ sys.blkno \in InodeBlks
           /\ \A f \in Files : fe[f] # 0 => fe[f] \in InodeBlks /\ fe[f] # sys.blkno
           /\ \A f, g \in Files : fe[f] # 0 /\ fe[f] = fe[g] => f = g
           /\ \A d \in Dirs : ext[d].at \in DirBlks(d) /\ ext[d].n = 1
           /\ \A j \in 0 .. NrGroups - 1 : groups[j].blkno \in DescBlks(j)
           /\ \A i, j \in 0 .. NrGroups - 1 :
                groups[i].blkno # groups[j].blkno => groups[i].blkno \notin DescBlks(j)
<1>1. /\ sys.blkno # 0 /\ InodeGroup /\ ext["root"].n = 1 /\ sys.blkno \in Nat
      /\ sys.bits \in Nat
  <2>1. ext["root"].n \in {0, 1} /\ sys.blkno \in Nat /\ sys.bits \in Nat
    BY DEF LayoutInv, Dirs, GroupType
  <2>2. ext["root"].n = 1 /\ sys.blkno # 0
    BY <2>1 DEF LayoutInv
  <2>. QED BY <2>1, <2>2 DEF LayoutInv
<1>2. Bpc \in Nat \ {0} /\ FirstCg \in Nat /\ FirstCgBlk = FirstCg * Bpc /\ 1 * Bpc = Bpc
  BY GeometryAssumption, Geometry
<1>3. sys.blkno \in InodeBlks
  <2>1. sys.bits > 0
    BY <1>1, Geometry, GeometryAssumption DEF InodeGroup
  <2>. QED BY <1>1, <2>1 DEF InodeBlks
<1>4. ASSUME NEW f \in Files, fe[f] # 0 PROVE fe[f] \in InodeBlks /\ fe[f] # sys.blkno
  <2>1. fe[f] \in sys.blkno + 1 .. sys.blkno + sys.bits - 1
    BY <1>4, LayoutMeans DEF AllocDisjoint
  <2>. QED BY <1>1, <2>1 DEF InodeBlks
<1>5. \A f, g \in Files : fe[f] # 0 /\ fe[f] = fe[g] => f = g
  BY LayoutMeans DEF AllocDisjoint
<1>6. \A d \in Dirs : ext[d].at \in DirBlks(d) /\ ext[d].n = 1
  <2>1. \A d \in Dirs : ext[d].at \in Nat
    BY DEF LayoutInv
  <2>. QED BY <1>1, <1>2, <2>1 DEF DirBlks, Dirs
<1>7. Laid(Top) /\ NrGroups \in Nat \ {0} /\ Cpg \in Nat
  BY <1>1, GroupCount DEF LayoutInv, InodeGroup
<1>8. \A j \in 0 .. NrGroups - 1 : groups[j].blkno \in DescBlks(j)
  <2>1. \A j \in 0 .. NrGroups - 1 : groups[j].blkno \in Nat
    BY <1>7 DEF Laid, GroupType
  <2>. QED BY <1>2, <2>1 DEF DescBlks
<1>9. ASSUME NEW i \in 0 .. NrGroups - 1, NEW j \in 0 .. NrGroups - 1,
             groups[i].blkno # groups[j].blkno
      PROVE  groups[i].blkno \notin DescBlks(j)
  <2>1. \A l \in 0 .. NrGroups - 1 : l = 0 \/ l \in 1 .. NrGroups - 1
    BY <1>7
  <2>2. /\ groups[0].blkno = FirstCg * Bpc
        /\ \A l \in 1 .. NrGroups - 1 : groups[l].blkno = Cpg * Bpc
    BY <1>2, <1>7 DEF Laid
  <2>3. FirstCg < Cpg /\ FirstCg + 1 <= Cpg
    BY <1>1, <1>2, <1>7, Geometry DEF InodeGroup
  <2>4. Clusters(FirstCg, 1) \cap Clusters(Cpg, 1) = {}
    BY <1>2, <1>7, <2>3, ClustersApart
  <2>5. \A l \in 0 .. NrGroups - 1 : groups[l].blkno \in DescBlks(l)
    BY <1>8
  <2>6. DescBlks(0) = Clusters(FirstCg, 1)
    <3>1. groups[0].blkno .. groups[0].blkno + 1 * Bpc - 1 = Clusters(FirstCg, 1)
      BY <1>2, <2>2, ClustersAt
    <3>. QED BY <1>2, <3>1 DEF DescBlks
  <2>7. ASSUME NEW l \in 1 .. NrGroups - 1 PROVE DescBlks(l) = Clusters(Cpg, 1)
    <3>1. groups[l].blkno .. groups[l].blkno + 1 * Bpc - 1 = Clusters(Cpg, 1)
      BY <1>7, <2>2, ClustersAt
    <3>. QED BY <1>2, <3>1 DEF DescBlks
  <2>8. CASE i = 0
    BY <1>9, <2>1, <2>4, <2>5, <2>6, <2>7, <2>8
  <2>9. CASE i # 0
    <3>1. i \in 1 .. NrGroups - 1 /\ j = 0
      BY <1>9, <2>1, <2>2, <2>9
    <3>. QED BY <2>4, <2>5, <2>6, <2>7, <3>1
  <2>. QED BY <2>8, <2>9
<1>. QED BY <1>3, <1>4, <1>5, <1>6, <1>8, <1>9

\* The groups are laid out and the first one has its block for itself.
LEMMA LaidOut ==
    ASSUME LayoutInv, ext["sysdir"].n = 1
    PROVE  /\ Laid(Top) /\ sys.next = 0 /\ DOMAIN groups = 0 .. NrGroups - 1
           /\ \A i \in 1 .. NrGroups - 1 : groups[i].blkno # groups[0].blkno
<1>1. sys.blkno # 0 /\ InodeGroup
  <2>1. ext["root"].n \in {0, 1}
    BY DEF LayoutInv, Dirs
  <2>2. sys.blkno # 0
    BY <2>1 DEF LayoutInv
  <2>. QED BY <2>2 DEF LayoutInv
<1>2. Laid(Top) /\ sys.next = 0 /\ FirstCg < Cpg
  <2>1. Laid(Top) /\ sys.next = 0 /\ FirstCg + NInode < Cpg
    BY <1>1 DEF LayoutInv, InodeGroup
  <2>. QED BY <2>1, Geometry, GroupCount DEF LayoutInv
<1>3. FirstCg * Bpc # Cpg * Bpc
  <2>1. Bpc \in Nat \ {0} /\ FirstCg \in Nat /\ Cpg \in Nat
    BY GeometryAssumption, Geometry, GroupCount DEF LayoutInv
  <2>2. \A a, b, c \in Nat : c # 0 /\ a < b => a * c # b * c
    OBVIOUS
  <2>. QED BY <1>2, <2>1, <2>2
<1>. QED BY <1>2, <1>3, Geometry DEF Laid

-----------------------------------------------------------------------------
(* What has been written.                                                  *)

\* The device once it has caught up with all writes.
Image == [b \in Blocks |-> IF pend[b] # <<>> THEN Latest(b) ELSE disk[b]]

\* The content c of a block, when n descriptors are written: the descriptor of
\* group j, or of a later one that has the same block.
IsDescIn(c, j, n) ==
    \E i \in j .. n - 1 : /\ groups[i].blkno = groups[j].blkno
                         /\ c = Desc(groups[i], fe["global_bitmap"])

\* The content c of a block is the inode of f: it knows its block, a directory
\* knows its extent, the bitmap its use and the heads of its chains, the
\* inode allocator its group.
IsInodeOf(c, f) ==
    /\ c.type = "inode" /\ c.blkno = fe[f]
    /\ f \in Dirs => c.extent = ext[f]
    /\ f = "global_bitmap" =>
        /\ c.used = bm.used
        /\ \A r \in 1 .. c.chains.next :
            r \in 1 .. NrGroups /\ c.chains.recs[r].blkno = groups[r - 1].blkno
    /\ f = "global_inode_alloc" =>
        c.chains.next = 1 /\ c.chains.recs[1].blkno = sys.blkno

FormattedIn(img, n) ==
    \A i \in 1 .. n :
        ~ Skipped(ToFormat[i]) => IsInodeOf(img[fe[ToFormat[i]]], ToFormat[i])
InodesIn(img) == \A f \in Files : fe[f] # 0 => IsInodeOf(img[fe[f]], f)
DescsIn(img, n) ==
    \A j \in 0 .. n - 1 : IsDescIn(img[groups[j].blkno], j, n)
GroupIn(img) == img[sys.blkno] = Desc(sys, fe["global_inode_alloc"])
DirIn(img, d) == img[ext[d].at] = Entries(d)

Volume(img) == /\ InodesIn(img) /\ DescsIn(img, NrGroups) /\ GroupIn(img)
               /\ DirIn(img, "root") /\ DirIn(img, "sysdir")

\* How much of the volume is written where main stands.
Staged ==
    /\ pc = "sync2" => k = 1
    /\ pc = "inodes" => k \in Nat \ {0} /\ FormattedIn(Image, k - 1)
    /\ pc \in {"bitmapdata", "groupdata", "rootdata", "sysdirdata", "sync3"} => InodesIn(Image)
    /\ pc = "bitmapdata" => k \in 0 .. NrGroups /\ DescsIn(Image, k)
    /\ pc \in {"groupdata", "rootdata", "sysdirdata", "sync3"} => DescsIn(Image, NrGroups)
    /\ pc \in {"rootdata", "sysdirdata", "sync3"} => GroupIn(Image)
    /\ pc \in {"sysdirdata", "sync3"} => DirIn(Image, "root")
    /\ pc = "sync3" => DirIn(Image, "sysdir")

\* do_pwrite puts what it writes into the image, unless it fails or is cut
\* short.
LEMMA ImageWritten ==
    ASSUME DeviceOK, size' = size, NEW w, NEW next, DoPwrite(w, next), pc' # "exit",
           lost' = {}
    PROVE  \A b \in Blocks : Image'[b] = IF b \in DOMAIN w THEN w[b] ELSE Image[b]
<1>1. Blocks' = Blocks
  BY SameBlocks
<1>2. /\ disk' = disk /\ pc' = next
      /\ \A b \in Blocks : pend'[b] = pend[b] \/ b \in DOMAIN w
      /\ \A b \in Blocks : b \in DOMAIN w => pend'[b] # <<>> /\ Latest(b)' = w[b]
  BY Written
<1>3. \A b \in Blocks : Image'[b] = IF pend'[b] # <<>> THEN Latest(b)' ELSE disk'[b]
  BY <1>1 DEF Image
<1>4. \A b \in Blocks : pend'[b] = pend[b] => Latest(b)' = Latest(b)
  BY DEF Latest
<1>. QED BY <1>2, <1>3, <1>4 DEF Image

\* What a headed run holds.
LEMMA HeadedRun ==
    ASSUME NEW b \in Nat, NEW n \in Nat \ {0}, NEW v
    PROVE  /\ DOMAIN Headed(b, n, v) = b .. b + n - 1
           /\ b \in DOMAIN Headed(b, n, v) /\ Headed(b, n, v)[b] = v
<1>1. b \in b .. b + n - 1
  OBVIOUS
<1>. QED BY <1>1 DEF Headed

\* format_file writes the inode of the file.
LEMMA InodeFormatted ==
    ASSUME NrGroups \in Nat, NEW f PROVE IsInodeOf(Inode(f), f)
<1>1. /\ Inode(f).type = "inode" /\ Inode(f).blkno = fe[f] /\ Inode(f).chains = ChainList(f)
      /\ f \in Dirs => Inode(f).extent = ext[f]
      /\ f = "global_bitmap" => Inode(f).used = bm.used
  BY DEF Inode
<1>2. ASSUME f = "global_inode_alloc"
      PROVE  ChainList(f).next = 1 /\ ChainList(f).recs[1].blkno = sys.blkno
  BY <1>2 DEF ChainList
<1>3. ASSUME f = "global_bitmap", NEW r \in 1 .. ChainList(f).next
      PROVE  r \in 1 .. NrGroups /\ ChainList(f).recs[r].blkno = groups[r - 1].blkno
  <2>1. ChainList(f).recs = BitmapRecs /\ ChainList(f).next = NumChains
    <3>1. /\ ChainList(f).next = IF NrGroups > Recs THEN Recs ELSE NrGroups
          /\ ChainList(f).recs = BitmapRecs
      <4>1. f # "global_inode_alloc" /\ f \notin Chained
        BY <1>3 DEF Chained
      <4>. QED BY <1>3, <4>1 DEF ChainList
    <3>2. (IF NrGroups > Recs THEN Recs ELSE NrGroups) = NumChains
      BY GeometryAssumption DEF NumChains
    <3>. QED BY <3>1, <3>2
  <2>2. NumChains \in Nat /\ NumChains <= NrGroups
    BY GeometryAssumption DEF NumChains
  <2>3. r \in 1 .. NumChains
    BY <1>3, <2>1
  <2>4. BitmapRecs[r].blkno = groups[r - 1].blkno
    BY <2>3 DEF BitmapRecs
  <2>. QED BY <2>1, <2>2, <2>3, <2>4
<1>. QED BY <1>1, <1>2, <1>3 DEF IsInodeOf

\* format_file is called for every file, and only for files.
LEMMA EveryFile ==
    /\ Len(ToFormat) = 11
    /\ \A i \in 1 .. 11 : ToFormat[i] \in Files
    /\ \A f \in Files : \E i \in 1 .. 11 : ToFormat[i] = f
<1>1. Len(ToFormat) = 11
  BY DEF ToFormat, SystemFiles
<1>2. ToFormat[1] = "root" /\ ToFormat[2] = "sysdir" /\ ToFormat[11] = "global_bitmap"
  BY DEF ToFormat, SystemFiles
<1>3. /\ ToFormat[3] = SystemFiles[1] /\ ToFormat[4] = SystemFiles[2]
      /\ ToFormat[5] = SystemFiles[3] /\ ToFormat[6] = SystemFiles[4]
      /\ ToFormat[7] = SystemFiles[5] /\ ToFormat[8] = SystemFiles[6]
      /\ ToFormat[9] = SystemFiles[7] /\ ToFormat[10] = SystemFiles[8]
  BY DEF ToFormat, SystemFiles
<1>4. /\ NFiles = 8 /\ Files = Dirs \cup SysFiles /\ "global_bitmap" \in Files
      /\ \A i \in 1 .. 8 : SystemFiles[i] \in SysFiles
  BY FileNames DEF SysFiles
<1>5. \A i \in 1 .. 11 : \/ i = 1 \/ i = 2 \/ i = 11 \/ i = 3 \/ i = 4 \/ i = 5 \/ i = 6
                         \/ i = 7 \/ i = 8 \/ i = 9 \/ i = 10
  OBVIOUS
<1>6. \A i \in 1 .. 8 : \/ i = 1 \/ i = 2 \/ i = 3 \/ i = 4 \/ i = 5 \/ i = 6 \/ i = 7 \/ i = 8
  OBVIOUS
<1>7. /\ SystemFiles[1] \in Files /\ SystemFiles[2] \in Files /\ SystemFiles[3] \in Files
      /\ SystemFiles[4] \in Files /\ SystemFiles[5] \in Files /\ SystemFiles[6] \in Files
      /\ SystemFiles[7] \in Files /\ SystemFiles[8] \in Files
  BY <1>4
<1>8. \A i \in 1 .. 11 : ToFormat[i] \in Files
  BY <1>2, <1>3, <1>4, <1>5, <1>7 DEF Dirs
<1>9. ASSUME NEW f \in Files PROVE \E i \in 1 .. 11 : ToFormat[i] = f
  <2>1. CASE f \in SysFiles
    <3>1. PICK i \in 1 .. 8 : f = SystemFiles[i]
      BY <1>4, <2>1 DEF SysFiles
    <3>2. ToFormat[i + 2] = f
      BY <1>3, <1>6, <3>1
    <3>3. i + 2 \in 1 .. 11
      OBVIOUS
    <3>. QED BY <3>2, <3>3
  <2>2. CASE f \in Dirs
    <3>1. 1 \in 1 .. 11 /\ 2 \in 1 .. 11
      OBVIOUS
    <3>. QED BY <1>2, <2>2, <3>1 DEF Dirs
  <2>. QED BY <1>4, <2>1, <2>2
<1>. QED BY <1>1, <1>8, <1>9

\* Where main stands between the second and the third fsync().
Writing == {"inodes", "bitmapdata", "groupdata", "rootdata", "sysdirdata", "sync3"}

\* Inodes are written one after the other.
LEMMA StageFormat ==
    ASSUME Staged, LayoutInv, NamesInv, DeviceOK, FormatFile, lost' = {} PROVE Staged'
<1> DEFINE f == ToFormat[k]
<1>1. /\ UNCHANGED <<size, memVars, journal>> /\ size' = size /\ fe' = fe /\ k' = k + 1
      /\ pc = "inodes" /\ journal' = journal /\ ext' = ext /\ bm' = bm /\ groups' = groups
      /\ sys' = sys
  BY DEF FormatFile, memVars
<1>2. k \in 1 .. 11 /\ FormattedIn(Image, k - 1) /\ ext["sysdir"].n = 1 /\ f \in Files
  <2>1. k \in Nat \ {0} /\ FormattedIn(Image, k - 1)
    BY <1>1 DEF Staged
  <2>2. ext["sysdir"].n = 1
    BY <1>1 DEF LayoutInv, Allocated, Stopped, Erasing
  <2>3. k \in 1 .. 11
    BY <2>1, EveryFile DEF FormatFile
  <2>. QED BY <2>1, <2>2, <2>3, EveryFile
<1>3. NrGroups' = NrGroups /\ NrGroups \in Nat
  BY <1>1, GroupCount DEF NrGroups, Cpg, LayoutInv
<1>5. \A i \in 1 .. k : i = k \/ i \in 1 .. k - 1
  BY <1>2
<1>6. CASE pc' = "exit"
  BY <1>6 DEF Staged
<1>9. ASSUME \A i \in 1 .. k : ~ Skipped(ToFormat[i]) => IsInodeOf(Image'[fe[ToFormat[i]]], ToFormat[i])
      PROVE  FormattedIn(Image, k - 1)'
  <2>1. (k - 1)' = k
    BY <1>1, <1>2
  <2>2. \A g : Skipped(g)' <=> Skipped(g)
    BY <1>1 DEF Skipped
  <2>3. \A i \in 1 .. k : (~ Skipped(ToFormat[i]) => IsInodeOf(Image[fe[ToFormat[i]]], ToFormat[i]))'
    BY <1>1, <1>3, <1>9, <2>2 DEF IsInodeOf
  <2>. QED BY <2>1, <2>3 DEF FormattedIn
<1>7. CASE pc' # "exit" /\ Skipped(f)
  <2>1. disk' = disk /\ pend' = pend /\ pc' = pc
    BY <1>7 DEF FormatFile, devVars
  <2>2. Image' = Image
    BY <1>1, <2>1 DEF Image, Latest, Blocks
  <2>3. ASSUME NEW i \in 1 .. k, ~ Skipped(ToFormat[i])
        PROVE  IsInodeOf(Image'[fe[ToFormat[i]]], ToFormat[i])
    <3>1. i \in 1 .. k - 1
      BY <1>5, <1>7, <2>3
    <3>. QED BY <1>2, <2>2, <2>3, <3>1 DEF FormattedIn
  <2>4. FormattedIn(Image, k - 1)'
    BY <1>9, <2>3
  <2>. QED BY <1>1, <1>2, <2>1, <2>4 DEF Staged
<1>8. CASE pc' # "exit" /\ ~ Skipped(f)
  <2>1. DoPwrite(Headed(fe[f], 1, Inode(f)), pc) /\ pc' = pc
    BY <1>7, <1>8 DEF FormatFile, DoPwrite
  <2>2. \A g \in Files : ~ Skipped(g) => fe[g] # 0 /\ fe[g] \in Blocks /\ fe[g] \in Nat
    <3>1. \A g \in Files : ~ Skipped(g) => fe[g] # 0
      BY <1>1 DEF NamesInv, Numbered, Formatting
    <3>. QED BY <1>2, <3>1, Heads, Apart DEF LayoutInv
  <2> DEFINE w == Headed(fe[f], 1, Inode(f))
  <2>3. DOMAIN w = {fe[f]} /\ w[fe[f]] = Inode(f)
    <3>1. fe[f] \in Nat
      BY <1>2, <1>8, <2>2
    <3>2. fe[f] .. fe[f] + 1 - 1 = {fe[f]}
      BY <3>1
    <3>3. 1 \in Nat \ {0}
      OBVIOUS
    <3>4. DOMAIN w = fe[f] .. fe[f] + 1 - 1 /\ w[fe[f]] = Inode(f)
      BY <3>1, <3>3, HeadedRun
    <3>. QED BY <3>2, <3>4
  <2>4. \A b \in Blocks : Image'[b] = IF b \in DOMAIN w THEN w[b] ELSE Image[b]
    BY <1>1, <1>8, <2>1, ImageWritten
  <2> HIDE DEF w
  <2>5. IsInodeOf(Inode(f), f)
    BY <1>3, InodeFormatted
  <2>6. ASSUME NEW i \in 1 .. k, ~ Skipped(ToFormat[i])
        PROVE  IsInodeOf(Image'[fe[ToFormat[i]]], ToFormat[i])
    <3>1. ToFormat[i] \in Files
      BY <1>2, EveryFile
    <3>2. fe[ToFormat[i]] \in Blocks /\ fe[ToFormat[i]] # 0
      BY <2>2, <2>6, <3>1
    <3>3. CASE fe[ToFormat[i]] = fe[f]
      <4>1. ToFormat[i] = f
        BY <1>2, <3>1, <3>2, <3>3, Heads
      <4>2. Image'[fe[f]] = Inode(f)
        BY <2>3, <2>4, <3>2, <3>3
      <4>. QED BY <2>5, <4>1, <4>2
    <3>4. CASE fe[ToFormat[i]] # fe[f]
      <4>1. i \in 1 .. k - 1
        BY <1>5, <3>4
      <4>2. Image'[fe[ToFormat[i]]] = Image[fe[ToFormat[i]]]
        BY <2>3, <2>4, <3>2, <3>4
      <4>. QED BY <1>2, <2>6, <4>1, <4>2 DEF FormattedIn
    <3>. QED BY <3>3, <3>4
  <2>7. FormattedIn(Image, k - 1)'
    BY <1>9, <2>6
  <2>. QED BY <1>1, <1>2, <2>1, <2>7 DEF Staged
<1>. QED BY <1>6, <1>7, <1>8

\* Nothing of the layout changes.
SameLayout == UNCHANGED <<size, journal, memVars>>

\* A step that only writes or syncs leaves every name the layout is made of.
LEMMA LayoutFixed ==
    ASSUME SameLayout, LayoutInv
    PROVE  /\ size' = size /\ journal' = journal /\ groups' = groups /\ bm' = bm
           /\ sys' = sys /\ fe' = fe /\ ext' = ext /\ dir' = dir
           /\ NrGroups' = NrGroups /\ NrGroups \in Nat \ {0} /\ Blocks' = Blocks
<1>1. /\ size' = size /\ journal' = journal /\ groups' = groups /\ bm' = bm
      /\ sys' = sys /\ fe' = fe /\ ext' = ext /\ dir' = dir
  BY DEF SameLayout, memVars
<1>2. NrGroups' = NrGroups /\ Blocks' = Blocks
  BY <1>1 DEF NrGroups, Cpg, Blocks
<1>3. NrGroups \in Nat \ {0}
  BY GroupCount DEF LayoutInv
<1>. QED BY <1>1, <1>2, <1>3

\* What is written stays written while its blocks are not written again.
LEMMA InodesKept ==
    ASSUME SameLayout, LayoutInv, InodesIn(Image),
           \A f \in Files : fe[f] # 0 => Image'[fe[f]] = Image[fe[f]]
    PROVE  InodesIn(Image)'
<1>1. \A f \in Files : (fe[f] # 0 => IsInodeOf(Image[fe[f]], f))'
  BY LayoutFixed DEF InodesIn, IsInodeOf
<1>. QED BY <1>1 DEF InodesIn

\* The same for the descriptors of the groups written so far.
LEMMA DescsKept ==
    ASSUME SameLayout, LayoutInv, NEW CONSTANT n, DescsIn(Image, n),
           \A j \in 0 .. n - 1 : Image'[groups[j].blkno] = Image[groups[j].blkno]
    PROVE  DescsIn(Image, n)'
<1>1. ASSUME NEW j \in 0 .. n - 1 PROVE IsDescIn(Image'[groups[j].blkno], j, n)
  BY DEF DescsIn
<1>2. groups' = groups /\ fe' = fe
  BY LayoutFixed
<1>. QED BY <1>1, <1>2 DEF DescsIn, IsDescIn, Desc

\* The same for the descriptors of all groups.
LEMMA AllDescsKept ==
    ASSUME SameLayout, LayoutInv, DescsIn(Image, NrGroups),
           \A j \in 0 .. NrGroups - 1 : Image'[groups[j].blkno] = Image[groups[j].blkno]
    PROVE  DescsIn(Image, NrGroups)'
<1>1. ASSUME NEW j \in 0 .. NrGroups - 1
      PROVE  IsDescIn(Image'[groups[j].blkno], j, NrGroups)
  BY DEF DescsIn
<1>2. groups' = groups /\ fe' = fe /\ NrGroups' = NrGroups
  BY LayoutFixed
<1>. QED BY <1>1, <1>2 DEF DescsIn, IsDescIn, Desc

\* The same for the descriptor of the inode group.
LEMMA GroupKept ==
    ASSUME SameLayout, LayoutInv, GroupIn(Image), Image'[sys.blkno] = Image[sys.blkno]
    PROVE  GroupIn(Image)'
BY LayoutFixed DEF GroupIn, Desc

\* The same for the block of a directory.
LEMMA DirKept ==
    ASSUME SameLayout, LayoutInv, NEW d, DirIn(Image, d), Image'[ext[d].at] = Image[ext[d].at]
    PROVE  DirIn(Image, d)'
BY LayoutFixed DEF DirIn, Entries

\* A step that writes nothing, or only makes writes durable.
LEMMA VolumeKept ==
    ASSUME SameLayout, LayoutInv, ext["sysdir"].n = 1, Volume(Image),
           \A b \in Blocks \ LeadBlks : Image'[b] = Image[b]
    PROVE  Volume(Image)'
<1>1. /\ sys.blkno \in Blocks \ LeadBlks
      /\ \A f \in Files : fe[f] # 0 => fe[f] \in Blocks \ LeadBlks
      /\ \A d \in Dirs : ext[d].at \in Blocks \ LeadBlks
      /\ \A j \in 0 .. NrGroups - 1 : groups[j].blkno \in Blocks \ LeadBlks
  BY Apart, Heads
<1>2. InodesIn(Image)'
  BY <1>1, InodesKept DEF Volume
<1>3. DescsIn(Image, NrGroups)'
  <2>1. DescsIn(Image, NrGroups)
    BY DEF Volume
  <2>2. \A j \in 0 .. NrGroups - 1 : Image'[groups[j].blkno] = Image[groups[j].blkno]
    BY <1>1
  <2>. QED BY <2>1, <2>2, AllDescsKept
<1>4. GroupIn(Image)'
  BY <1>1, GroupKept DEF Volume
<1>5. DirIn(Image, "root")' /\ DirIn(Image, "sysdir")'
  BY <1>1, DirKept DEF Volume, Dirs
<1>. QED BY <1>2, <1>3, <1>4, <1>5 DEF Volume

\* All inodes are written when the loop over the files is done.
LEMMA StageFormatEnd ==
    ASSUME Staged, LayoutInv, NamesInv, FormatEnd PROVE Staged'
<1>1. SameLayout /\ pc = "inodes" /\ pc' = "bitmapdata" /\ k' = 0 /\ k > Len(ToFormat)
      /\ disk' = disk /\ pend' = pend
  BY DEF FormatEnd, SameLayout, devVars
<1>2. k \in Nat \ {0} /\ FormattedIn(Image, k - 1)
  BY <1>1 DEF Staged
<1>3. \A i \in 1 .. 11 : i \in 1 .. k - 1
  BY <1>1, <1>2, EveryFile
<1>4. ASSUME NEW f \in Files, fe[f] # 0 PROVE IsInodeOf(Image[fe[f]], f)
  <2>1. PICK i \in 1 .. 11 : ToFormat[i] = f
    BY EveryFile
  <2>2. ~ Skipped(f)
    BY <1>4 DEF Skipped, NamesInv
  <2>. QED BY <1>2, <1>3, <2>1, <2>2 DEF FormattedIn
<1>5. InodesIn(Image)
  BY <1>4 DEF InodesIn
<1>6. Image' = Image
  BY <1>1, LayoutFixed DEF Image, Latest
<1>7. InodesIn(Image)'
  BY <1>1, <1>5, <1>6, InodesKept
<1>9. 0 \in 0 .. NrGroups'
  BY <1>1, LayoutFixed
<1>10. DescsIn(Image, k)'
  BY <1>1 DEF DescsIn
<1>. QED BY <1>1, <1>7, <1>9, <1>10 DEF Staged

\* One descriptor more is written, and no inode or other descriptor under it.
LEMMA StageBitmapData ==
    ASSUME Staged, LayoutInv, DeviceOK, WriteBitmapData, lost' = {} PROVE Staged'
<1> DEFINE w == Headed(groups[k].blkno, Bpc, Desc(groups[k], fe["global_bitmap"]))
<1>1. SameLayout /\ pc = "bitmapdata" /\ k' = k + 1 /\ DoPwrite(w, pc) /\ k < NrGroups
  BY DEF WriteBitmapData, SameLayout
<1>2. /\ k \in 0 .. NrGroups /\ DescsIn(Image, k) /\ InodesIn(Image)
      /\ ext["sysdir"].n = 1
  BY <1>1 DEF Staged, LayoutInv, Allocated, Stopped, Erasing
<1>3. k \in 0 .. NrGroups - 1 /\ k + 1 \in 0 .. NrGroups
  BY <1>1, <1>2, LayoutFixed
<1>4. groups[k].blkno \in Nat /\ groups[k].blkno \in DescBlks(k)
  BY <1>2, <1>3, Heads, Apart DEF Blocks
<1>5. /\ DOMAIN w = DescBlks(k)
      /\ w[groups[k].blkno] = Desc(groups[k], fe["global_bitmap"])
  <2> DEFINE b == groups[k].blkno
             v == Desc(groups[k], fe["global_bitmap"])
  <2>1. b \in Nat /\ Bpc \in Nat \ {0} /\ w = Headed(b, Bpc, v)
    BY <1>4, GeometryAssumption
  <2>2. DescBlks(k) = b .. b + Bpc - 1
    BY DEF DescBlks
  <2> HIDE DEF b, v, w
  <2>3. DOMAIN w = b .. b + Bpc - 1 /\ w[b] = v
    BY <2>1, HeadedRun
  <2>. QED BY <2>2, <2>3 DEF b, v
<1>6. CASE pc' = "exit"
  BY <1>6 DEF Staged
<1>7. CASE pc' # "exit"
  <2>1. /\ pc' = pc
        /\ \A b \in Blocks : Image'[b] = IF b \in DOMAIN w THEN w[b] ELSE Image[b]
    <3>1. size' = size
      BY <1>1, LayoutFixed
    <3> HIDE DEF w
    <3>. QED BY <1>1, <1>7, <3>1, ImageWritten DEF DoPwrite
  <2> HIDE DEF w
  <2>2. ASSUME NEW f \in Files, fe[f] # 0 PROVE Image'[fe[f]] = Image[fe[f]]
    <3>1. fe[f] \in InodeBlks /\ fe[f] \in Blocks /\ fe[f] \notin DescBlks(k)
      BY <1>2, <1>3, <2>2, Heads, Apart
    <3>. QED BY <1>5, <2>1, <3>1
  <2>3. InodesIn(Image)'
    BY <1>1, <1>2, <2>2, InodesKept
  <2>4. ASSUME NEW j \in 0 .. k
        PROVE  \E i \in j .. k :
                  /\ groups[i].blkno = groups[j].blkno
                  /\ Image'[groups[j].blkno] = Desc(groups[i], fe["global_bitmap"])
    <3>1. j \in 0 .. NrGroups - 1 /\ groups[j].blkno \in Blocks
      BY <1>2, <1>3, Heads, Apart
    <3>2. CASE groups[j].blkno = groups[k].blkno
      <4>1. Image'[groups[j].blkno] = Desc(groups[k], fe["global_bitmap"])
        BY <1>4, <1>5, <2>1, <3>1, <3>2
      <4>2. k \in j .. k
        BY <1>3
      <4>. QED BY <3>2, <4>1, <4>2
    <3>3. CASE groups[j].blkno # groups[k].blkno
      <4>1. Image'[groups[j].blkno] = Image[groups[j].blkno]
        BY <1>2, <1>3, <1>5, <2>1, <3>1, <3>3, Heads
      <4>2. j \in 0 .. k - 1
        BY <1>3, <3>3
      <4>3. PICK i \in j .. k - 1 :
                /\ groups[i].blkno = groups[j].blkno
                /\ Image[groups[j].blkno] = Desc(groups[i], fe["global_bitmap"])
        BY <1>2, <4>2 DEF DescsIn, IsDescIn
      <4>4. i \in j .. k
        BY <1>3, <4>3
      <4>. QED BY <4>1, <4>3, <4>4
    <3>. QED BY <3>2, <3>3
  <2>5. DescsIn(Image, k)'
    <3>1. k' - 1 = k
      BY <1>1, <1>3
    <3>2. groups' = groups /\ fe' = fe
      BY <1>1, LayoutFixed
    <3>3. ASSUME NEW j \in 0 .. k' - 1
          PROVE  \E i \in j .. k' - 1 :
                    /\ groups'[i].blkno = groups'[j].blkno
                    /\ Image'[groups'[j].blkno] = Desc(groups'[i], fe'["global_bitmap"])
      BY <2>4, <3>1, <3>2
    <3>. QED BY <3>3 DEF DescsIn, IsDescIn, Desc
  <2>6. k' \in 0 .. NrGroups'
    BY <1>1, <1>3, LayoutFixed
  <2>. QED BY <1>1, <2>1, <2>3, <2>5, <2>6 DEF Staged
<1>. QED BY <1>6, <1>7

\* When the loop over the groups ends every descriptor is written.
LEMMA StageBitmapEnd == ASSUME Staged, LayoutInv, BitmapDataEnd PROVE Staged'
<1>1. SameLayout /\ pc = "bitmapdata" /\ pc' = "groupdata" /\ k = NrGroups
      /\ disk' = disk /\ pend' = pend
  BY DEF BitmapDataEnd, SameLayout, devVars
<1>2. InodesIn(Image) /\ DescsIn(Image, NrGroups)
  BY <1>1 DEF Staged
<1>3. Image' = Image /\ NrGroups' = NrGroups
  BY <1>1, LayoutFixed DEF Image, Latest
<1>4. InodesIn(Image)'
  BY <1>1, <1>2, <1>3, InodesKept
<1>5. DescsIn(Image, NrGroups)'
  BY <1>1, <1>2, <1>3, AllDescsKept
<1>. QED BY <1>1, <1>4, <1>5 DEF Staged

\* The descriptor of the inode group is the first block of the group.
LEMMA StageGroupData ==
    ASSUME Staged, LayoutInv, DeviceOK, WriteGroupData, lost' = {} PROVE Staged'
<1> DEFINE w == Headed(sys.blkno, 1, Desc(sys, fe["global_inode_alloc"]))
<1>1. SameLayout /\ pc = "groupdata" /\ DoPwrite(w, "rootdata")
  BY DEF WriteGroupData, SameLayout
<1>2. /\ InodesIn(Image) /\ DescsIn(Image, NrGroups) /\ ext["sysdir"].n = 1
  BY <1>1 DEF Staged, LayoutInv, Allocated, Stopped, Erasing
<1>3. sys.blkno \in Nat /\ sys.blkno \in Blocks /\ sys.blkno \in InodeBlks
  BY <1>2, Heads, Apart DEF LayoutInv, GroupType
<1>4. DOMAIN w = {sys.blkno} /\ w[sys.blkno] = Desc(sys, fe["global_inode_alloc"])
  <2>1. sys.blkno .. sys.blkno + 1 - 1 = {sys.blkno} /\ 1 \in Nat \ {0}
    BY <1>3
  <2> DEFINE b == sys.blkno
             v == Desc(sys, fe["global_inode_alloc"])
  <2>2. b \in Nat /\ w = Headed(b, 1, v)
    BY <1>3
  <2> HIDE DEF b, v, w
  <2>3. DOMAIN w = b .. b + 1 - 1 /\ w[b] = v
    BY <2>1, <2>2, HeadedRun
  <2>. QED BY <2>1, <2>3 DEF b, v
<1>5. CASE pc' = "exit"
  BY <1>5 DEF Staged
<1>6. CASE pc' # "exit"
  <2>1. /\ pc' = "rootdata"
        /\ \A b \in Blocks : Image'[b] = IF b \in DOMAIN w THEN w[b] ELSE Image[b]
    <3>1. size' = size
      BY <1>1, LayoutFixed
    <3> HIDE DEF w
    <3>. QED BY <1>1, <1>6, <3>1, ImageWritten DEF DoPwrite
  <2> HIDE DEF w
  <2>2. \A f \in Files : fe[f] # 0 => Image'[fe[f]] = Image[fe[f]]
    BY <1>2, <1>4, <2>1, Heads, Apart
  <2>3. InodesIn(Image)'
    BY <1>1, <1>2, <2>2, InodesKept
  <2>4. \A j \in 0 .. NrGroups - 1 : Image'[groups[j].blkno] = Image[groups[j].blkno]
    BY <1>2, <1>3, <1>4, <2>1, Heads, Apart
  <2>5. DescsIn(Image, NrGroups)'
    BY <1>1, <1>2, <2>4, AllDescsKept
  <2>6. GroupIn(Image)'
    BY <1>1, <1>3, <1>4, <2>1, LayoutFixed DEF GroupIn, Desc
  <2>. QED BY <2>1, <2>3, <2>5, <2>6 DEF Staged
<1>. QED BY <1>5, <1>6

\* The entries of a directory are its extent's, and nobody else's.
LEMMA StageDir ==
    ASSUME Staged, LayoutInv, DeviceOK, NEW d, NEW next, WriteDir(d, next), lost' = {},
           \/ pc = "rootdata" /\ d = "root" /\ next = "sysdirdata"
           \/ pc = "sysdirdata" /\ d = "sysdir" /\ next = "sync3"
    PROVE  Staged'
<1> DEFINE w == Headed(ext[d].at, ext[d].n * Bpc, Entries(d))
<1>1. SameLayout /\ DoPwrite(w, next) /\ d \in Dirs
  BY DEF WriteDir, SameLayout, Dirs
<1>2. /\ InodesIn(Image) /\ DescsIn(Image, NrGroups) /\ GroupIn(Image)
      /\ d = "sysdir" => DirIn(Image, "root")
      /\ ext["sysdir"].n = 1
  BY DEF Staged, LayoutInv, Allocated, Stopped, Erasing
<1>3. ext[d].at \in Nat /\ ext[d].n * Bpc = Bpc /\ ext[d].at \in DirBlks(d)
  <2>1. ext[d].at \in Nat
    BY <1>1 DEF LayoutInv
  <2>2. ext[d].n = 1 /\ ext[d].at \in DirBlks(d)
    BY <1>1, <1>2, Heads
  <2>. QED BY <2>1, <2>2, GeometryAssumption
<1>4. DOMAIN w = DirBlks(d) /\ w[ext[d].at] = Entries(d)
  <2>1. w = Headed(ext[d].at, Bpc, Entries(d))
    BY <1>3
  <2>2. Bpc \in Nat \ {0}
    BY GeometryAssumption
  <2> HIDE DEF w
  <2>. QED BY <1>3, <2>1, <2>2, HeadedRun DEF DirBlks
<1>5. CASE pc' = "exit"
  BY <1>5 DEF Staged
<1>6. CASE pc' # "exit"
  <2>1. /\ pc' = next
        /\ \A b \in Blocks : Image'[b] = IF b \in DOMAIN w THEN w[b] ELSE Image[b]
    <3>1. size' = size
      BY <1>1, LayoutFixed
    <3> HIDE DEF w
    <3>. QED BY <1>1, <1>6, <3>1, ImageWritten DEF DoPwrite
  <2> HIDE DEF w
  <2>2. \A f \in Files : fe[f] # 0 => Image'[fe[f]] = Image[fe[f]]
    BY <1>1, <1>2, <1>4, <2>1, Heads, Apart
  <2>3. InodesIn(Image)'
    BY <1>1, <1>2, <2>2, InodesKept
  <2>4. \A j \in 0 .. NrGroups - 1 : Image'[groups[j].blkno] = Image[groups[j].blkno]
    BY <1>1, <1>2, <1>4, <2>1, Heads, Apart
  <2>5. DescsIn(Image, NrGroups)'
    BY <1>1, <1>2, <2>4, AllDescsKept
  <2>6. GroupIn(Image)'
    <3>1. Image'[sys.blkno] = Image[sys.blkno]
      BY <1>1, <1>2, <1>4, <2>1, Heads, Apart
    <3>. QED BY <1>1, <1>2, <3>1, GroupKept
  <2>7. DirIn(Image, d)'
    <3>1. Image'[ext[d].at] = Entries(d)
      BY <1>1, <1>2, <1>3, <1>4, <2>1, Apart
    <3>. QED BY <1>1, <3>1, LayoutFixed DEF DirIn, Entries
  <2>8. d = "sysdir" => DirIn(Image, "root")'
    <3>1. d = "sysdir" => Image'[ext["root"].at] = Image[ext["root"].at]
      BY <1>1, <1>2, <1>4, <2>1, Heads, Apart DEF Dirs
    <3>. QED BY <1>1, <1>2, <3>1, DirKept
  <2>9. d = "root" => DirIn(Image, "root")'
    BY <2>7
  <2>10. d = "sysdir" => DirIn(Image, "sysdir")'
    BY <2>7
  <2>. QED BY <2>1, <2>3, <2>5, <2>6, <2>8, <2>9, <2>10 DEF Staged
<1>. QED BY <1>5, <1>6

\* Every step of main writes the volume in this order.
LEMMA StageStep ==
    Staged /\ LayoutInv /\ NamesInv /\ DeviceOK /\ [Next]_vars /\ lost' = {} => Staged'
<1> SUFFICES ASSUME Staged, LayoutInv, NamesInv, DeviceOK, [Next]_vars, lost' = {}
             PROVE  Staged'
  OBVIOUS
<1>1. ASSUME pc' \notin Writing \cup {"sync2"} PROVE Staged'
  BY <1>1 DEF Staged, Writing
<1>2. ASSUME \/ ClearStart \/ ClearEnd \/ InitializeBitmap \/ AllocInodeGroup \/ Sync1
             \/ AllocRoot \/ AllocSysdir \/ AllocFile \/ Sync3 \/ FormatLeadingSpace
             \/ FormatSuperblock \/ CloseDevice \/ Interrupt \/ Crash
      PROVE  pc' \notin Writing \cup {"sync2"}
  <2>1. CASE ClearStart \/ ClearEnd
    BY <2>1 DEF ClearStart, ClearEnd, DoPwrite, Writing
  <2>2. CASE InitializeBitmap \/ AllocInodeGroup \/ Sync1
    BY <2>2 DEF InitializeBitmap, AllocInodeGroup, Sync1, Fsync, Writing
  <2>3. CASE AllocRoot \/ AllocSysdir
    BY <2>3 DEF AllocRoot, AllocSysdir, AllocDirectory, Writing
  <2>4. CASE AllocFile
    BY <2>4 DEF AllocFile, Writing
  <2>5. CASE Sync3 \/ FormatLeadingSpace \/ FormatSuperblock \/ CloseDevice
    BY <2>5 DEF Sync3, FormatLeadingSpace, FormatSuperblock, CloseDevice, DoPwrite, Fsync, Writing
  <2>6. CASE Interrupt \/ Crash
    BY <2>6 DEF Interrupt, Crash, Writing
  <2>. QED BY <1>2, <2>1, <2>2, <2>3, <2>4, <2>5, <2>6
<1>3. CASE FilesEnd
  BY <1>3 DEF FilesEnd, Staged
<1>4. CASE Sync2
  <2>1. pc = "sync2" /\ pc' = "inodes" /\ k' = k
    BY <1>4 DEF Sync2, Fsync
  <2>2. k = 1
    BY <2>1 DEF Staged
  <2>3. FormattedIn(Image, k - 1)'
    BY <2>1, <2>2 DEF FormattedIn
  <2>. QED BY <2>1, <2>2, <2>3 DEF Staged
<1>5. CASE FormatFile
  BY <1>5, StageFormat
<1>6. CASE FormatEnd
  BY <1>6, StageFormatEnd
<1>7. CASE WriteBitmapData
  BY <1>7, StageBitmapData
<1>8. CASE BitmapDataEnd
  BY <1>8, StageBitmapEnd
<1>9. CASE WriteGroupData
  BY <1>9, StageGroupData
<1>10. CASE WriteRoot \/ WriteSysdir
  BY <1>10, StageDir DEF WriteRoot, WriteSysdir
<1>11. CASE UNCHANGED vars
  <2>1. SameLayout /\ pc' = pc /\ k' = k /\ disk' = disk /\ pend' = pend
    BY <1>11 DEF vars, SameLayout, devVars
  <2>2. Image' = Image /\ NrGroups' = NrGroups
    BY <2>1, LayoutFixed DEF Image, Latest
  <2>3. InodesIn(Image) => InodesIn(Image)'
    BY <2>1, <2>2, InodesKept
  <2>5. DescsIn(Image, k) => DescsIn(Image, k)'
    BY <2>1, <2>2, LayoutFixed DEF DescsIn, IsDescIn, Desc
  <2>6. DescsIn(Image, NrGroups) => DescsIn(Image, NrGroups)'
    BY <2>1, <2>2, AllDescsKept
  <2>7. GroupIn(Image) => GroupIn(Image)'
    BY <2>1, <2>2, GroupKept
  <2>8. /\ DirIn(Image, "root") => DirIn(Image, "root")'
        /\ DirIn(Image, "sysdir") => DirIn(Image, "sysdir")'
    BY <2>1, <2>2, LayoutFixed DEF DirIn, Entries
  <2>9. FormattedIn(Image, k - 1) => FormattedIn(Image, k - 1)'
    BY <2>1, <2>2, LayoutFixed DEF FormattedIn, Skipped, IsInodeOf
  <2>. QED BY <2>1, <2>2, <2>3, <2>5, <2>6, <2>7, <2>8, <2>9 DEF Staged
<1>. QED
  BY <1>1, <1>2, <1>3, <1>4, <1>5, <1>6, <1>7, <1>8, <1>9, <1>10, <1>11 DEF Next, Step

-----------------------------------------------------------------------------
(* The superblock.                                                         *)

Closing == {"leading", "super", "close", "done"}

\* No new superblock is on the device or on its way.
NoSuper ==
    SuperBlk \in Blocks =>
        /\ disk[SuperBlk].type # "super"
        /\ pend[SuperBlk] # <<>> => Latest(SuperBlk).type # "super"

\* All of the volume behind the leading space is on the device, and a new
\* superblock, there or on its way, is this volume's.
Sealed ==
    /\ Ready /\ Volume(Image)
    /\ \A b \in Blocks \ LeadBlks : pend[b] = <<>>
    /\ disk[SuperBlk].type = "super" => disk[SuperBlk] = Super
    /\ pend[SuperBlk] # <<>> => Latest(SuperBlk) = Super

SealInv ==
    /\ NoSuper \/ Sealed
    /\ pc \notin Closing \cup Stopped => NoSuper
    /\ pc \in Closing => Sealed
    /\ pc = "close" => pend[SuperBlk] # <<>>
    /\ pc = "done" => disk[SuperBlk] = Super

\* The superblock lies in the leading space of a volume that has one.
LEMMA SuperPlace ==
    ASSUME LayoutInv PROVE /\ SuperBlk \in LeadBlks /\ 0 \in LeadBlks /\ 1 \in LeadBlks
                           /\ ext["sysdir"].n = 1 => SuperBlk \in Blocks
<1>1. FirstCgBlk \in Nat /\ FirstCgBlk > SuperBlk /\ SuperBlk = 2
  BY Geometry DEF SuperBlk
<1>2. SuperBlk \in LeadBlks /\ 0 \in LeadBlks /\ 1 \in LeadBlks
  BY <1>1 DEF LeadBlks
<1>3. ASSUME ext["sysdir"].n = 1 PROVE SuperBlk \in Blocks
  <2>1. sys.blkno \in Blocks /\ sys.blkno \notin LeadBlks
    BY <1>3, Heads, Apart
  <2>2. size * Bpc \in Nat
    BY GeometryAssumption DEF LayoutInv
  <2>. QED BY <1>1, <2>1, <2>2 DEF Blocks, LeadBlks
<1>. QED BY <1>2, <1>3

\* Before mkfs starts the device has no superblock of the new volume.
LEMMA SealInit == Init => SealInv
<1> SUFFICES ASSUME Init PROVE SealInv
  OBVIOUS
<1>1. NoSuper
  BY DEF Init, NoSuper, Nothing, Old, OldSuper
<1>. QED BY <1>1 DEF Init, SealInv, Closing, Stopped

\* A step that leaves the device alone.
LEMMA SealIdle ==
    ASSUME SealInv, size' = size, disk' = disk, pend' = pend,
           \/ pc \notin Closing \cup Stopped /\ pc' \notin Closing
           \/ LayoutInv /\ SameLayout /\ (pc' = pc \/ pc' \in Stopped \ {"done"})
    PROVE  SealInv'
<1>1. NoSuper => NoSuper'
  BY SameBlocks DEF NoSuper, Latest
<1>2. CASE pc \notin Closing \cup Stopped /\ pc' \notin Closing
  BY <1>1, <1>2 DEF SealInv, Closing
<1>3. CASE LayoutInv /\ SameLayout /\ (pc' = pc \/ pc' \in Stopped \ {"done"})
  <2>1. Image' = Image /\ Super' = Super /\ Blocks' = Blocks
    BY <1>3, LayoutFixed DEF Image, Latest, Super
  <2>2. ASSUME Sealed PROVE Sealed'
    <3>1. Volume(Image)'
      BY <1>3, <2>1, <2>2, VolumeKept DEF Sealed, Ready
    <3>2. Ready'
      BY <1>3, <2>2, LayoutFixed DEF Sealed, Ready
    <3>. QED BY <2>1, <2>2, <3>1, <3>2 DEF Sealed, Latest
  <2>. QED BY <1>1, <1>3, <2>1, <2>2 DEF SealInv, Closing, Stopped
<1>. QED BY <1>2, <1>3

\* A write before the superblock's is not one of a superblock.
LEMMA SealWrite ==
    ASSUME SealInv, DeviceOK, size' = size, NEW w, NEW next, DoPwrite(w, next),
           pc \notin Closing \cup Stopped, next \notin Closing,
           \A b \in DOMAIN w : w[b].type # "super"
    PROVE  SealInv'
<1>1. Blocks' = Blocks
  BY SameBlocks
<1>2. /\ disk' = disk /\ (pc' = next \/ pc' = "exit")
      /\ \A b \in Blocks : \/ pend'[b] = pend[b]
                           \/ b \in DOMAIN w /\ Latest(b)' = w[b]
  BY Written
<1>3. NoSuper'
  BY <1>1, <1>2 DEF SealInv, NoSuper, Latest
<1>. QED BY <1>2, <1>3 DEF SealInv, Closing

\* A flush before the superblock is written.
LEMMA SealFlush ==
    ASSUME SealInv, DeviceOK, size' = size, NEW next, Fsync(next),
           pc \notin Closing \cup Stopped
    PROVE  NoSuper' /\ pc' = next
<1>1. Blocks' = Blocks
  BY SameBlocks
<1>. QED BY <1>1, Flushed DEF SealInv, NoSuper

\* The third fsync() seals the volume.
LEMMA SealSync ==
    ASSUME SealInv, Staged, LayoutInv, NamesInv, DeviceOK, Sync3 PROVE SealInv'
<1>1. SameLayout /\ pc = "sync3" /\ Fsync("leading") /\ size' = size
  BY DEF Sync3, SameLayout
<1>2. NoSuper' /\ pc' = "leading"
  BY <1>1, SealFlush DEF Closing, Stopped
<1>3. Blocks' = Blocks /\ ext["sysdir"].n = 1 /\ Volume(Image)
  <2>1. Volume(Image)
    BY <1>1 DEF Staged, Volume
  <2>. QED BY <1>1, <2>1, LayoutFixed DEF LayoutInv, Allocated, Stopped, Erasing
<1>4. \A b \in Blocks : pend'[b] = <<>> /\ Image'[b] = Image[b]
  <2>1. \A b \in Blocks : /\ pend'[b] = <<>>
                          /\ pend[b] # <<>> => disk'[b] = Latest(b)
                          /\ pend[b] = <<>> => disk'[b] = disk[b]
    BY <1>1, Flushed
  <2>2. \A b \in Blocks : Image'[b] = disk'[b]
    BY <1>3, <2>1 DEF Image
  <2>. QED BY <2>1, <2>2 DEF Image
<1>5. Volume(Image)'
  BY <1>1, <1>3, <1>4, VolumeKept
<1>6. Ready'
  <2>1. \A f \in Files : ~ Skipped(f) => fe[f] # 0
    BY <1>1 DEF NamesInv, Numbered, Formatting
  <2>2. \A f \in {"root", "sysdir", "global_bitmap", "global_inode_alloc"} :
            f \in Files /\ ~ Skipped(f)
    BY FileNames DEF Dirs, Skipped
  <2>. QED BY <1>1, <1>3, <2>1, <2>2, LayoutFixed DEF Ready
<1>7. SuperBlk \in Blocks
  BY <1>3, SuperPlace
<1>8. Sealed'
  <2>1. disk'[SuperBlk].type # "super" /\ pend'[SuperBlk] = <<>>
    BY <1>2, <1>3, <1>4, <1>7 DEF NoSuper
  <2>2. \A b \in Blocks' \ LeadBlks' : pend'[b] = <<>>
    BY <1>3, <1>4
  <2>. QED BY <1>5, <1>6, <2>1, <2>2 DEF Sealed
<1>. QED BY <1>2, <1>8 DEF SealInv, Closing, Stopped

\* What is sealed stays so while only the leading space is written, with the
\* volume's own superblock.
LEMMA SealedWrite ==
    ASSUME Sealed, LayoutInv, SameLayout, DeviceOK, NEW w, NEW next, DoPwrite(w, next),
           lost' = {},
           DOMAIN w \subseteq LeadBlks, SuperBlk \in DOMAIN w => w[SuperBlk] = Super
    PROVE  /\ Sealed' /\ disk' = disk /\ (pc' = next \/ pc' = "exit")
           /\ SuperBlk \in DOMAIN w /\ pc' # "exit" => pend'[SuperBlk] # <<>>
<1>1. ext["sysdir"].n = 1 /\ Volume(Image)
  BY DEF Sealed, Ready
<1>2. size' = size /\ Blocks' = Blocks /\ SuperBlk \in Blocks /\ Super' = Super
  BY <1>1, LayoutFixed, SuperPlace DEF Super
<1>3. /\ disk' = disk /\ (pc' = next \/ pc' = "exit")
      /\ \A b \in Blocks : \/ pend'[b] = pend[b]
                           \/ b \in DOMAIN w /\ Latest(b)' = w[b]
      /\ \A b \in Blocks : b \in DOMAIN w => pend'[b] # <<>> \/ pc' = "exit"
  BY <1>2, Written
<1>4. \A b \in Blocks \ LeadBlks : pend'[b] = pend[b]
  BY <1>3
<1>5. \A b \in Blocks \ LeadBlks : Image'[b] = Image[b]
  BY <1>2, <1>3, <1>4 DEF Image, Latest
<1>6. Volume(Image)'
  BY <1>1, <1>5, VolumeKept
<1>7. Ready'
  BY LayoutFixed DEF Sealed, Ready
<1>8. pend'[SuperBlk] # <<>> => Latest(SuperBlk)' = Super
  BY <1>2, <1>3 DEF Sealed, Latest
<1>9. LeadBlks' = LeadBlks
  BY DEF LeadBlks
<1>10. Sealed'
  BY <1>2, <1>3, <1>4, <1>6, <1>7, <1>8, <1>9 DEF Sealed
<1>. QED BY <1>2, <1>3, <1>10

\* What is sealed stays so when some of the pending writes become durable and
\* none is pending any more.
LEMMA SealedFlush ==
    ASSUME Sealed, LayoutInv, SameLayout,
           \A b \in Blocks : /\ pend'[b] = <<>>
                             /\ \/ disk'[b] = disk[b]
                                \/ pend[b] # <<>> /\ disk'[b] = Latest(b)
    PROVE  Sealed'
<1>1. ext["sysdir"].n = 1 /\ Volume(Image)
  BY DEF Sealed, Ready
<1>2. Blocks' = Blocks /\ SuperBlk \in Blocks /\ Super' = Super /\ LeadBlks' = LeadBlks
  BY <1>1, LayoutFixed, SuperPlace DEF Super, LeadBlks
<1>3. \A b \in Blocks \ LeadBlks : Image'[b] = Image[b]
  BY <1>2 DEF Image, Sealed
<1>4. Volume(Image)'
  BY <1>1, <1>3, VolumeKept
<1>5. Ready'
  BY LayoutFixed DEF Sealed, Ready
<1>6. (disk'[SuperBlk].type = "super" => disk'[SuperBlk] = Super) /\ pend'[SuperBlk] = <<>>
  BY <1>2 DEF Sealed
<1>. QED BY <1>2, <1>4, <1>5, <1>6 DEF Sealed

\* Every step of main keeps a superblock from the device until what it leads
\* to is there.
LEMMA SealStep ==
    SealInv /\ Staged /\ LayoutInv /\ NamesInv /\ DeviceOK /\ [Next]_vars /\ lost' = {}
    => SealInv'
<1> SUFFICES ASSUME SealInv, Staged, LayoutInv, NamesInv, DeviceOK, [Next]_vars, lost' = {}
             PROVE  SealInv'
  OBVIOUS
<1> USE DEF devVars
<1>1. ASSUME ClearStart \/ ClearEnd PROVE SealInv'
  <2>1. CASE ClearStart
    BY <2>1, SealWrite DEF ClearStart, Zero, Closing, Stopped
  <2>2. CASE ClearEnd /\ size * Bpc < Clear
    BY <2>2, SealIdle DEF ClearEnd, Closing, Stopped
  <2>3. CASE ClearEnd /\ ~ (size * Bpc < Clear)
    BY <2>3, SealWrite DEF ClearEnd, Zero, Closing, Stopped
  <2>. QED BY <1>1, <2>1, <2>2, <2>3
<1>2. ASSUME InitializeBitmap \/ AllocInodeGroup PROVE SealInv'
  BY <1>2, SealIdle DEF InitializeBitmap, AllocInodeGroup, Closing, Stopped
<1>3. ASSUME Sync1 \/ Sync2 PROVE SealInv'
  <2>1. NoSuper' /\ pc' \notin Closing \cup Stopped
    BY <1>3, SealFlush DEF Sync1, Sync2, Closing, Stopped
  <2>. QED BY <2>1 DEF SealInv, Closing, Stopped
<1>4. ASSUME AllocRoot \/ AllocSysdir PROVE SealInv'
  BY <1>4, SealIdle DEF AllocRoot, AllocSysdir, AllocDirectory, Closing, Stopped
<1>5. CASE AllocFile
  BY <1>5, SealIdle DEF AllocFile, Closing, Stopped
<1>6. ASSUME FilesEnd \/ FormatEnd \/ BitmapDataEnd PROVE SealInv'
  BY <1>6, SealIdle DEF FilesEnd, FormatEnd, BitmapDataEnd, Closing, Stopped
<1>7. CASE FormatFile
  <2>1. \A f : \A b \in DOMAIN Headed(fe[f], 1, Inode(f)) :
            Headed(fe[f], 1, Inode(f))[b].type # "super"
    BY DEF Headed, Inode, Zero
  <2>2. size' = size /\ pc = "inodes"
    BY <1>7 DEF FormatFile
  <2>3. CASE Skipped(ToFormat[k])
    BY <1>7, <2>2, <2>3, SealIdle DEF FormatFile, Closing, Stopped
  <2>4. CASE DoPwrite(Headed(fe[ToFormat[k]], 1, Inode(ToFormat[k])), pc)
    <3> DEFINE w == Headed(fe[ToFormat[k]], 1, Inode(ToFormat[k]))
    <3>1. DoPwrite(w, pc) /\ \A b \in DOMAIN w : w[b].type # "super"
      BY <2>1, <2>4
    <3> HIDE DEF w
    <3>. QED BY <2>2, <3>1, SealWrite DEF Closing, Stopped
  <2>. QED BY <1>7, <2>3, <2>4 DEF FormatFile
<1>8. CASE WriteBitmapData
  <2>1. \A b \in DOMAIN Headed(groups[k].blkno, Bpc, Desc(groups[k], fe["global_bitmap"])) :
            Headed(groups[k].blkno, Bpc, Desc(groups[k], fe["global_bitmap"]))[b].type # "super"
    BY DEF Headed, Desc, Zero
  <2>. QED BY <1>8, <2>1, SealWrite DEF WriteBitmapData, Closing, Stopped
<1>9. CASE WriteGroupData
  <2>1. \A b \in DOMAIN Headed(sys.blkno, 1, Desc(sys, fe["global_inode_alloc"])) :
            Headed(sys.blkno, 1, Desc(sys, fe["global_inode_alloc"]))[b].type # "super"
    BY DEF Headed, Desc, Zero
  <2>. QED BY <1>9, <2>1, SealWrite DEF WriteGroupData, Closing, Stopped
<1>10. ASSUME WriteRoot \/ WriteSysdir PROVE SealInv'
  <2>1. \A d : \A b \in DOMAIN Headed(ext[d].at, ext[d].n * Bpc, Entries(d)) :
            Headed(ext[d].at, ext[d].n * Bpc, Entries(d))[b].type # "super"
    BY DEF Headed, Entries, Zero
  <2>2. ASSUME NEW d, NEW next, WriteDir(d, next), pc \notin Closing \cup Stopped, next \notin Closing
        PROVE  SealInv'
    <3> DEFINE w == Headed(ext[d].at, ext[d].n * Bpc, Entries(d))
    <3>1. DoPwrite(w, next) /\ size' = size /\ \A b \in DOMAIN w : w[b].type # "super"
      BY <2>1, <2>2 DEF WriteDir
    <3> HIDE DEF w
    <3>. QED BY <2>2, <3>1, SealWrite
  <2>. QED BY <1>10, <2>2 DEF WriteRoot, WriteSysdir, Closing, Stopped
<1>11. CASE Sync3
  BY <1>11, SealSync
<1>12. CASE FormatLeadingSpace
  <2> DEFINE w == [b \in 0 .. 1 |-> [type |-> "header"]]
  <2>1. Sealed /\ SameLayout /\ DoPwrite(w, "super")
    BY <1>12 DEF FormatLeadingSpace, SealInv, Closing, SameLayout
  <2>2. DOMAIN w \subseteq LeadBlks /\ SuperBlk \notin DOMAIN w
    BY SuperPlace DEF SuperBlk
  <2> HIDE DEF w
  <2>3. Sealed' /\ pc' \in {"super", "exit"}
    BY <2>1, <2>2, SealedWrite
  <2>. QED BY <2>3 DEF SealInv, Closing, Stopped
<1>13. CASE FormatSuperblock
  <2> DEFINE w == Headed(SuperBlk, 1, Super)
  <2>1. Sealed /\ SameLayout /\ DoPwrite(w, "close")
    BY <1>13 DEF FormatSuperblock, SealInv, Closing, SameLayout
  <2>2. DOMAIN w = {SuperBlk} /\ w[SuperBlk] = Super
    <3>1. SuperBlk \in Nat /\ 1 \in Nat \ {0} /\ SuperBlk .. SuperBlk + 1 - 1 = {SuperBlk}
      BY DEF SuperBlk
    <3>. QED BY <3>1, HeadedRun
  <2> HIDE DEF w
  <2>3. DOMAIN w \subseteq LeadBlks
    BY <2>2, SuperPlace
  <2>4. Sealed' /\ pc' \in {"close", "exit"} /\ (pc' # "exit" => pend'[SuperBlk] # <<>>)
    BY <2>1, <2>2, <2>3, SealedWrite
  <2>. QED BY <2>4 DEF SealInv, Closing, Stopped
<1>14. CASE CloseDevice
  <2>1. /\ Sealed /\ SameLayout /\ Fsync("done") /\ pend[SuperBlk] # <<>>
        /\ size' = size
    BY <1>14 DEF CloseDevice, SealInv, Closing, SameLayout
  <2>2. /\ pc' = "done"
        /\ \A b \in Blocks : /\ pend'[b] = <<>>
                             /\ pend[b] # <<>> => disk'[b] = Latest(b)
                             /\ pend[b] = <<>> => disk'[b] = disk[b]
    BY <2>1, Flushed
  <2>3. Sealed'
    BY <2>1, <2>2, SealedFlush
  <2>4. disk'[SuperBlk] = Super /\ Super' = Super
    <3>1. SuperBlk \in Blocks
      BY <2>1, SuperPlace DEF Sealed, Ready
    <3>2. Super' = Super
      BY <2>1, LayoutFixed DEF Super
    <3>. QED BY <2>1, <2>2, <3>1, <3>2 DEF Sealed
  <2>. QED BY <2>2, <2>3, <2>4 DEF SealInv, Closing, Stopped
<1>15. CASE Interrupt
  BY <1>15, SealIdle DEF Interrupt, SameLayout, Stopped
<1>16. CASE Crash
  <2>1. SameLayout
    BY <1>16 DEF Crash, SameLayout
  <2>2. /\ pc' = "crashed" /\ size' = size
        /\ \A b \in Blocks : /\ pend'[b] = <<>>
                             /\ \/ disk'[b] = disk[b]
                                \/ pend[b] # <<>> /\ disk'[b] = Latest(b)
    BY <1>16, Crashed
  <2>3. NoSuper => NoSuper'
    BY <2>2, SameBlocks DEF NoSuper
  <2>4. Sealed => Sealed'
    BY <2>1, <2>2, SealedFlush
  <2>. QED BY <2>2, <2>3, <2>4 DEF SealInv, Closing, Stopped
<1>17. CASE UNCHANGED vars
  BY <1>17, SealIdle DEF vars, SameLayout
<1>. QED
  BY <1>1, <1>2, <1>3, <1>4, <1>5, <1>6, <1>7, <1>8, <1>9, <1>10, <1>11, <1>12, <1>13,
     <1>14, <1>15, <1>16, <1>17 DEF Next, Step

-----------------------------------------------------------------------------
(* What the superblock leads to.                                           *)

\* The system directory has one entry for each of the allocators' files.
LEMMA FoundByName ==
    ASSUME NamesInv, NEW f \in SysFiles, fe[f] # 0,
           disk[disk[fe["sysdir"]].extent.at].entries = dir["sysdir"]
    PROVE  FileBlk(fe["sysdir"], f) = fe[f]
<1> DEFINE e == CHOOSE x \in dir["sysdir"] : x[1] = f
<1>1. <<f, fe[f]>> \in dir["sysdir"] /\ f \in Files /\ "sysdir" \in Dirs
  BY FileNames DEF NamesInv, Dirs
<1>2. \E x \in dir["sysdir"] : x[1] = f
  <2>1. <<f, fe[f]>>[1] = f
    OBVIOUS
  <2>. QED BY <1>1, <2>1
<1>3. e \in dir["sysdir"] /\ e[1] = f
  BY <1>2
<1>4. FileBlk(fe["sysdir"], f) = e[2]
  BY DEF FileBlk
<1> HIDE DEF e
<1>5. e[2] = fe[f]
  BY <1>1, <1>3 DEF NamesInv, EntryOK
<1>. QED BY <1>4, <1>5

\* A sealed volume with a superblock is complete.
LEMMA SealedMeans ==
    ASSUME Sealed, NamesInv, LayoutInv PROVE SuperMeansComplete
<1> SUFFICES ASSUME SuperBlk \in Blocks, disk[SuperBlk].type = "super"
             PROVE  /\ DirOk(disk[SuperBlk].root) /\ DirOk(disk[SuperBlk].sysdir)
                    /\ BitmapOk(FileBlk(disk[SuperBlk].sysdir, "global_bitmap"))
                    /\ InodeAllocOk(FileBlk(disk[SuperBlk].sysdir, "global_inode_alloc"))
  BY DEF SuperMeansComplete
<1>1. disk[SuperBlk].root = fe["root"] /\ disk[SuperBlk].sysdir = fe["sysdir"]
  BY DEF Sealed, Super
<1>2. Ready /\ Volume(Image) /\ ext["sysdir"].n = 1 /\ NrGroups \in Nat
  BY GroupCount DEF Sealed, Ready, LayoutInv
<1>3. \A b \in Blocks \ LeadBlks : Image[b] = disk[b]
  BY DEF Sealed, Image
<1>4. ASSUME NEW f \in Files, fe[f] # 0 PROVE IsInodeOf(disk[fe[f]], f)
  <2>1. fe[f] \in Blocks \ LeadBlks
    BY <1>2, <1>4, Heads, Apart
  <2>2. IsInodeOf(Image[fe[f]], f)
    BY <1>2, <1>4 DEF Volume, InodesIn
  <2>. QED BY <1>3, <2>1, <2>2
<1>5. ASSUME NEW f \in Files, fe[f] # 0 PROVE IsInode(fe[f])
  BY <1>4, <1>5 DEF IsInodeOf, IsInode
<1>6. ASSUME NEW d \in Dirs
      PROVE  /\ d \in Files /\ fe[d] # 0 /\ disk[fe[d]].extent = ext[d]
             /\ disk[ext[d].at] = Entries(d) /\ disk[ext[d].at].entries = dir[d]
  <2>1. d \in Files /\ fe[d] # 0
    BY <1>2, FileNames DEF Ready, Dirs
  <2>2. disk[fe[d]].extent = ext[d]
    BY <1>4, <2>1 DEF IsInodeOf
  <2>3. ext[d].at \in Blocks \ LeadBlks
    BY <1>2, Heads, Apart
  <2>4. DirIn(Image, d)
    BY <1>2 DEF Volume, Dirs
  <2>5. disk[ext[d].at] = Entries(d)
    BY <1>3, <2>3, <2>4 DEF DirIn
  <2>. QED BY <2>1, <2>2, <2>5 DEF Entries
<1>7. ASSUME NEW d \in Dirs PROVE DirOk(fe[d])
  <2>1. IsInode(fe[d])
    BY <1>5, <1>6
  <2>2. disk[disk[fe[d]].extent.at] = Entries(d)
    BY <1>6
  <2>3. \A e \in dir[d] : IsInode(e[2])
    BY <1>5 DEF NamesInv, EntryOK
  <2>. QED BY <2>1, <2>2, <2>3 DEF DirOk, Entries
<1>8. ASSUME NEW f \in {"global_bitmap", "global_inode_alloc"}
      PROVE  f \in Files /\ fe[f] # 0 /\ FileBlk(fe["sysdir"], f) = fe[f]
  <2>1. f \in SysFiles /\ f \in Files /\ fe[f] # 0
    BY <1>2, FileNames DEF Ready
  <2>2. disk[disk[fe["sysdir"]].extent.at].entries = dir["sysdir"]
    BY <1>6 DEF Dirs
  <2>. QED BY <2>1, <2>2, FoundByName
<1>9. BitmapOk(fe["global_bitmap"])
  <2> DEFINE b == fe["global_bitmap"]
             cl == disk[b].chains
             D == {groups[j].blkno : j \in Bitmaps}
  <2>1. Laid(Top) /\ DOMAIN groups = 0 .. NrGroups - 1 /\ NrGroups \in Nat \ {0}
    BY <1>2, LaidOut, GroupCount DEF LayoutInv
  <2>2. IsInodeOf(disk[b], "global_bitmap")
    BY <1>4, <1>8
  <2>3. ASSUME NEW j \in 0 .. NrGroups - 1
        PROVE  \E i \in j .. NrGroups - 1 :
                  /\ groups[i].blkno = groups[j].blkno
                  /\ disk[groups[j].blkno] = Desc(groups[i], b)
    <3>1. groups[j].blkno \in Blocks \ LeadBlks
      BY <1>2, Heads, Apart
    <3>2. IsDescIn(Image[groups[j].blkno], j, NrGroups)
      BY <1>2 DEF Volume, DescsIn
    <3>. QED BY <1>3, <3>1, <3>2 DEF IsDescIn
  <2>4. \A r \in 1 .. cl.next : cl.recs[r].blkno \in D
    <3>1. \A r \in 1 .. NrGroups : r - 1 \in 0 .. NrGroups - 1
      BY <2>1
    <3>2. \A r \in 1 .. cl.next : r \in 1 .. NrGroups /\ cl.recs[r].blkno = groups[r - 1].blkno
      BY <2>2 DEF IsInodeOf
    <3>. QED BY <2>1, <3>1, <3>2 DEF Bitmaps
  <2>5. ASSUME NEW j \in 0 .. NrGroups - 1
        PROVE  disk[groups[j].blkno].type = "group" /\ disk[groups[j].blkno].next \in D \cup {0}
    <3>1. PICK i \in j .. NrGroups - 1 : disk[groups[j].blkno] = Desc(groups[i], b)
      BY <2>3
    <3>2. i \in 0 .. NrGroups - 1
      BY <2>1
    <3>3. groups[i].next = 0 \/ (NrGroups > 1 /\ groups[i].next = groups[1].blkno)
      BY <2>1, <3>2 DEF Laid
    <3>4. groups[i].next \in D \cup {0}
      BY <2>1, <3>3 DEF Bitmaps
    <3>. QED BY <3>1, <3>4 DEF Desc
  <2>6. ChainsOk(b, D)
    BY <2>1, <2>4, <2>5 DEF ChainsOk, Bitmaps
  <2>7. ASSUME NEW j \in 0 .. NrGroups - 1, ~ (0 < j /\ j < NrGroups - 1)
        PROVE  disk[groups[j].blkno] = Desc(groups[j], b)
    <3>1. PICK i \in j .. NrGroups - 1 : /\ groups[i].blkno = groups[j].blkno
                                         /\ disk[groups[j].blkno] = Desc(groups[i], b)
      BY <2>3
    <3>2. CASE j = NrGroups - 1
      BY <3>1, <3>2
    <3>3. CASE j = 0
      <4>1. i = 0 \/ i \in 1 .. NrGroups - 1
        BY <3>3
      <4>2. i \notin 1 .. NrGroups - 1
        BY <1>2, <3>1, <3>3, LaidOut
      <4>. QED BY <3>1, <3>3, <4>1, <4>2
    <3>. QED BY <2>1, <2>7, <3>2, <3>3
  <2>8. disk[b].used = bm.used
    BY <2>2 DEF IsInodeOf
  <2>. QED BY <2>1, <2>6, <2>7, <2>8 DEF BitmapOk, Bitmaps
<1>10. InodeAllocOk(fe["global_inode_alloc"])
  <2> DEFINE b == fe["global_inode_alloc"]
             cl == disk[b].chains
  <2>1. cl.next = 1 /\ cl.recs[1].blkno = sys.blkno
    <3>1. IsInodeOf(disk[b], "global_inode_alloc")
      BY <1>4, <1>8
    <3>. QED BY <3>1 DEF IsInodeOf
  <2>2. disk[sys.blkno] = Desc(sys, b) /\ sys.next = 0
    <3>1. sys.blkno \in Blocks \ LeadBlks
      BY <1>2, Heads, Apart
    <3>2. sys.next = 0
      BY <1>2, LaidOut
    <3>. QED BY <1>2, <1>3, <3>1, <3>2 DEF Volume, GroupIn
  <2>3. \A r \in 1 .. cl.next : r = 1
    BY <2>1
  <2>. QED BY <2>1, <2>2, <2>3 DEF InodeAllocOk, ChainsOk, Desc
<1>. QED BY <1>1, <1>7, <1>8, <1>9, <1>10 DEF Dirs

\* Everything together.  What is on the device is only known while no write
\* has been cut short.
FormatInv == EraseInv /\ LayoutInv /\ NamesInv /\ (lost = {} => Staged /\ SealInv)

\* A block that a write has left out stays on record.
LEMMA LostGrows == DeviceOK /\ [Next]_vars => lost \subseteq lost'
<1> SUFFICES ASSUME DeviceOK, [Next]_vars PROVE lost \subseteq lost'
  OBVIOUS
<1> USE DEF devVars
<1>1. ASSUME NEW w, NEW next, DoPwrite(w, next) PROVE lost \subseteq lost'
  BY <1>1 DEF DoPwrite
<1>2. CASE ClearStart \/ ClearEnd \/ FormatFile \/ WriteBitmapData \/ WriteGroupData
  BY <1>1, <1>2 DEF ClearStart, ClearEnd, FormatFile, WriteBitmapData, WriteGroupData
<1>3. CASE WriteRoot \/ WriteSysdir \/ FormatLeadingSpace \/ FormatSuperblock
  BY <1>1, <1>3 DEF WriteRoot, WriteSysdir, WriteDir, FormatLeadingSpace, FormatSuperblock
<1>4. CASE Sync1 \/ Sync2 \/ Sync3 \/ CloseDevice
  BY <1>4 DEF Sync1, Sync2, Sync3, CloseDevice, Fsync
<1>5. CASE InitializeBitmap \/ AllocInodeGroup \/ AllocRoot \/ AllocSysdir \/ AllocFile
  BY <1>5 DEF InitializeBitmap, AllocInodeGroup, AllocRoot, AllocSysdir, AllocDirectory,
              AllocFile
<1>6. CASE FilesEnd \/ FormatEnd \/ BitmapDataEnd \/ Interrupt \/ Crash \/ UNCHANGED vars
  BY <1>6 DEF FilesEnd, FormatEnd, BitmapDataEnd, Interrupt, Crash, vars
<1>. QED BY <1>2, <1>3, <1>4, <1>5, <1>6 DEF Next, Step

\* The invariant implies that a superblock on the device means a whole volume.
LEMMA FormatMeans == FormatInv => VolumeComplete
<1> SUFFICES ASSUME FormatInv, lost = {}
             PROVE  SuperMeansComplete /\ SuccessMeansComplete
  BY DEF VolumeComplete
<1>1. NoSuper => SuperMeansComplete
  BY DEF NoSuper, SuperMeansComplete
<1>2. SuperMeansComplete
  BY <1>1, SealedMeans DEF FormatInv, SealInv
<1>3. pc = "done" => disk[SuperBlk].type = "super"
  BY DEF FormatInv, SealInv, Super
<1>. QED BY <1>2, <1>3 DEF SuccessMeansComplete

\* For every geometry and volume size, as long as no write has been cut short,
\* which mkfs.cmfs does not notice (mkfs.c:85): whenever the device holds the
\* new superblock, it also holds everything the superblock leads to, the root
\* and system directories with their inodes and entries, the inodes these
\* name, and the descriptors of the bitmap's and the inode allocator's groups
\* with bits, counters and links along each chain, except those that share
\* their block with a later group's (mkfs.c:1084); and mkfs.cmfs ends with
\* success only with that superblock on the device.  A crash that keeps any
\* part of the unflushed writes, a write that fails after any part of it, and
\* a signal are included.
THEOREM SuperblockLast == Spec => []VolumeComplete
<1>1. Init => FormatInv
  <2>1. Init => Staged
    BY DEF Init, Staged
  <2>. QED BY <2>1, EraseInit, LayoutInit, NamesInit, SealInit DEF FormatInv
<1>2. FormatInv /\ [Next]_vars => FormatInv'
  <2> SUFFICES ASSUME FormatInv, [Next]_vars PROVE FormatInv'
    OBVIOUS
  <2>1. DeviceOK /\ EraseInv /\ LayoutInv /\ NamesInv
    BY DEF FormatInv, EraseInv
  <2>2. EraseInv' /\ LayoutInv' /\ NamesInv'
    BY <2>1, EraseStep, LayoutStep, NamesStep
  <2>3. ASSUME lost' = {} PROVE Staged' /\ SealInv'
    <3>1. lost = {}
      BY <2>1, <2>3, LostGrows
    <3>. QED BY <2>1, <2>3, <3>1, StageStep, SealStep DEF FormatInv
  <2>. QED BY <2>2, <2>3 DEF FormatInv
<1>3. Spec => []FormatInv
  BY <1>1, <1>2, PTL DEF Spec
<1>. QED BY <1>3, FormatMeans, PTL
=============================================================================
