--------------------------- MODULE ExtentIterate ---------------------------
(***************************************************************************)
(* cmfs_extent_iterate_inode (libcmfs/extents.c): a function of the caller *)
(* is called for the records of an extent tree and may change them, stop   *)
(* the walk or report an error.  The recursion between extent_iterate_el   *)
(* and extent_iterate_eb is a stack of frames, one per list being walked;  *)
(* a step handles one record or ends one list.  Any read and any write of  *)
(* the device may fail.                                                    *)
(*                                                                         *)
(* A record list is the sequence of its first l_next_free_rec records; the *)
(* records behind them are zero.  What a function changes in a record is   *)
(* its mark.                                                               *)
(***************************************************************************)
EXTENDS Integers, Sequences, FiniteSets, SequencesExt

CONSTANTS
    FsBlocks,   \* fs->fs_blocks
    Inputs      \* calls: [tree, kind, flags, results, ebResults]

SuperBlk == 2                        \* CMFS_SUPER_BLOCK_BLKNO
Stop == {"abort", "error"}           \* CMFS_EXTENT_ABORT, CMFS_EXTENT_ERROR

VARIABLES
    in,        \* the call
    pc,
    inode,     \* [list, last]: the caller's inode, with i_last_eb_blk
    disk,      \* [inode, ebs]: what is on the device
    stack,     \* frames: [blk, list, i, iret, pend]
    ctx,       \* ccount, errcode, lastBlk, lastCpos of extent_context
    log,       \* the calls of the function
    lost,      \* history: errcode became success behind an error of the walk
    ret

vars == <<in, pc, inode, disk, stack, ctx, log, lost, ret>>

Root == in.tree.root
Frame(blk, list) == [blk |-> blk, list |-> list, i |-> 1, iret |-> {}, pend |-> {}]

\* errcode of the context is not initialised.
Init ==
    /\ in \in Inputs
    /\ pc = "start"
    /\ inode = [list |-> Root, last |-> in.tree.last]
    /\ disk = [inode |-> inode, ebs |-> in.tree.ebs]
    /\ stack = <<>>
    /\ \E e \in {"ok", "garbage"} :
        ctx = [ccount |-> 0, errcode |-> e, lastBlk |-> 0, lastCpos |-> 0]
    /\ log = <<>>
    /\ lost = FALSE
    /\ ret = "none"

\* Up to the walk of the inode's list.  A tree needs buffers for its blocks.
Start ==
    /\ pc = "start"
    /\ \/ /\ in.kind = "file"
          /\ pc' = "walk" /\ stack' = <<Frame(0, Root)>>
          /\ UNCHANGED ret
       \/ /\ in.kind # "file" \/ Root.depth > 0
          /\ pc' = "done"
          /\ ret' = CASE in.kind = "file" -> "nomem"
                      [] in.kind = "invalid" -> "notvalid" [] OTHER -> "cannot"
          /\ UNCHANGED stack
    /\ UNCHANGED <<in, inode, disk, ctx, log, lost>>

-----------------------------------------------------------------------------
Top == stack[Len(stack)]
Rec == Top.list.recs[Top.i]

More == Top.i <= Len(Top.list.recs) /\ Top.iret \cap Stop = {}

Touched(rec, r) == IF "changed" \in r THEN [rec EXCEPT !.mark = TRUE] ELSE rec

\* A call of the function for a record, with the result r.
Call(rec, depth, r) == Append(log, [depth |-> depth, rec |-> rec, ccount |-> ctx.ccount, r |-> r])

\* The frame f after its current record, which came to be `rec', returned r.
Done(f, rec, r) == [f EXCEPT !.list.recs[f.i] = rec, !.iret = @ \cup r, !.i = @ + 1,
                             !.pend = {}]

\* An empty record is skipped where it may be: at the left end.
Skipped == Top.i = 1 /\ Rec.n = 0

\* Mutant of LeafRec: the clusters are counted before the call.
LeafRecCountFirst ==
    /\ pc = "walk" /\ More /\ Top.list.depth = 0
    /\ \E r \in in.results :
        /\ ctx' = [ctx EXCEPT !.ccount = @ + Rec.n]
        /\ stack' = Append(Front(stack), Done(Top, Touched(Rec, r), r))
        /\ log' = Append(log, [depth |-> 0, rec |-> Rec, ccount |-> ctx'.ccount, r |-> r])
    /\ UNCHANGED <<in, pc, inode, disk, lost, ret>>

\* Mutant of LeafRec: the loop stays at a record that is skipped.
LeafRecStuck ==
    /\ pc = "walk" /\ More /\ Top.list.depth = 0 /\ ~ Skipped
    /\ \E r \in in.results :
        /\ stack' = Append(Front(stack), Done(Top, Touched(Rec, r), r))
        /\ log' = Call(Rec, 0, r)
        /\ ctx' = [ctx EXCEPT !.ccount = @ + Rec.n]
    /\ UNCHANGED <<in, pc, inode, disk, lost, ret>>

\* extent_iterate_el for a record of a leaf.
LeafRec ==
    /\ pc = "walk" /\ More /\ Top.list.depth = 0
    /\ IF Skipped
       THEN stack' = Append(Front(stack), [Top EXCEPT !.i = @ + 1]) /\ UNCHANGED <<ctx, log>>
       ELSE \E r \in in.results :
               /\ stack' = Append(Front(stack), Done(Top, Touched(Rec, r), r))
               /\ log' = Call(Rec, 0, r)
               /\ ctx' = [ctx EXCEPT !.ccount = @ + Rec.n]
    /\ UNCHANGED <<in, pc, inode, disk, lost, ret>>

\* Mutant of Rightmost: a leaf further left counts too.
RightmostAny(c, f, rec) ==
    IF rec.n = 0 THEN c
    ELSE [c EXCEPT !.lastCpos = rec.cpos,
                   !.lastBlk = IF c.lastBlk = 0 THEN rec.blk ELSE @]

\* The context c after a record of an interior list f: the last leaf.
Rightmost(c, f, rec) ==
    IF rec.n = 0 \/ rec.cpos < c.lastCpos THEN c
    ELSE [c EXCEPT !.lastCpos = rec.cpos,
                   !.lastBlk = IF f.list.depth = 1 THEN rec.blk ELSE @]

\* extent_iterate_eb returned r to the list at the top of s.
BackIn(s, rec, r, err) ==
    LET f == s[Len(s)]
    IN  /\ stack' = Append(Front(s), Done(f, rec, r))
        /\ ctx' = Rightmost([ctx EXCEPT !.errcode = err], f, rec)

\* What is wrong with the block b that should be a list of this depth.
ExtentBlock(b, depth) ==
    IF b < SuperBlk \/ b > FsBlocks THEN "badblkno"
    ELSE IF b \notin DOMAIN disk.ebs THEN "badmagic"
    ELSE IF disk.ebs[b].depth # depth THEN "corrupt" ELSE "ok"

\* The function is called for an interior record before its block, or after.
Before == in.flags = {}
After == in.flags = {"depth"}

\* extent_iterate_eb up to the walk of the block's own list.
EbRec ==
    /\ pc = "walk" /\ More /\ Top.list.depth > 0
    /\ \E r \in (IF Before THEN in.ebResults ELSE {{}}) :
        LET rec == Touched(Rec, r)
            err == ExtentBlock(Rec.blk, Top.list.depth - 1)
        IN  /\ log' = IF Before THEN Call(Rec, Top.list.depth, r) ELSE log
            /\ \/ /\ rec.blk = 0 \/ "abort" \in r
                  /\ BackIn(stack, rec, r, ctx.errcode)
               \/ /\ rec.blk # 0 /\ "abort" \notin r
                  /\ err # "ok"
                  /\ BackIn(stack, rec, r \cup {"error"}, err)
               \/ /\ rec.blk # 0 /\ "abort" \notin r
                  /\ err # "badblkno"
                  /\ BackIn(stack, rec, r \cup {"error"}, "io")
               \/ /\ rec.blk # 0 /\ "abort" \notin r
                  /\ err = "ok"
                  /\ stack' = Append(Front(stack),
                                     [Top EXCEPT !.list.recs[Top.i] = rec, !.pend = r])
                              \o <<Frame(rec.blk, disk.ebs[rec.blk])>>
                  /\ ctx' = [ctx EXCEPT !.errcode = "ok"]
    /\ UNCHANGED <<in, pc, inode, disk, lost, ret>>

\* A list that was changed ends before its first empty record.
Trim(list) == IF \E i \in DOMAIN list.recs : list.recs[i].n = 0
              THEN [list EXCEPT !.recs =
                      SubSeq(@, 1, SelectInSeq(@, LAMBDA x : x.n = 0) - 1)]
              ELSE list
Result == IF "changed" \in Top.iret THEN Trim(Top.list) ELSE Top.list

\* Mutant of EndList: the list is not written when the walk was stopped.
EndListStopped ==
    /\ pc = "walk" /\ ~ More /\ Len(stack) > 1
    /\ LET s == Front(stack)
           f == s[Len(s)]
           rec == f.list.recs[f.i]
           r0 == f.pend \cup (Top.iret \cap Stop)
       IN  /\ disk' = (IF "changed" \in Top.iret /\ Top.iret \cap Stop = {}
                       THEN [disk EXCEPT !.ebs[Top.blk] = Result] ELSE disk)
           /\ BackIn(s, rec, r0, ctx.errcode)
           /\ UNCHANGED log
    /\ UNCHANGED <<in, pc, inode, lost, ret>>

\* The end of a block's list: extent_iterate_el returns, extent_iterate_eb
\* writes the block if it was changed and may call the function for it.  The
\* result of the write replaces an error from below in errcode.
EndList ==
    /\ pc = "walk" /\ ~ More /\ Len(stack) > 1
    /\ LET s == Front(stack)
           f == s[Len(s)]
           rec == f.list.recs[f.i]
           r0 == f.pend \cup (Top.iret \cap Stop)
           changed == "changed" \in Top.iret
       IN  \/ /\ changed
              /\ UNCHANGED <<disk, log, lost>>
              /\ BackIn(s, rec, r0 \cup {"error"}, "io")
           \/ /\ lost' = (lost \/ (changed /\ "error" \in Top.iret))
              /\ disk' = (IF changed THEN [disk EXCEPT !.ebs[Top.blk] = Result] ELSE disk)
              /\ LET err == IF changed THEN "ok" ELSE ctx.errcode
                 IN  IF After /\ r0 \cap Stop = {}
                     THEN \E r \in in.ebResults :
                            /\ log' = Call(rec, f.list.depth, r)
                            /\ BackIn(s, Touched(rec, r), r, err)
                     ELSE UNCHANGED log /\ BackIn(s, rec, r0, err)
    /\ UNCHANGED <<in, pc, inode, ret>>

\* Mutant of LastEb: set whenever the walk ends.
LastEbAlways(iret) == ctx.lastBlk

\* i_last_eb_blk after the walk.
LastEb(iret) == IF "abort" \in iret THEN inode.last ELSE ctx.lastBlk

\* The end of the inode's list, and of the call.
EndRoot ==
    /\ pc = "walk" /\ ~ More /\ Len(stack) = 1
    /\ LET iret == Top.iret
           err == IF "error" \in iret THEN ctx.errcode ELSE "ok"
           write == err = "ok" /\ ("changed" \in iret \/ LastEb(iret) # inode.last)
       IN  /\ inode' = [list |-> Result, last |-> LastEb(iret)]
           /\ \/ ~ write /\ ret' = err /\ UNCHANGED disk
              \/ write /\ ret' = "io" /\ UNCHANGED disk
              \/ write /\ ret' = "ok" /\ disk' = [disk EXCEPT !.inode = inode']
    /\ pc' = "done"
    /\ stack' = <<>>
    /\ UNCHANGED <<in, ctx, log, lost>>

Next == Start \/ LeafRec \/ EbRec \/ EndList \/ EndRoot

Spec == Init /\ [][Next]_vars
FairSpec == Spec /\ WF_vars(Next)     \* the caller's thread runs

-----------------------------------------------------------------------------
(* Properties.                                                             *)

TypeOK ==
    /\ pc \in {"start", "walk", "done"}
    /\ Len(stack) <= Root.depth + 1
    /\ \A k \in DOMAIN stack : /\ stack[k].iret \subseteq {"changed", "abort", "error"}
                               /\ stack[k].list.depth = Root.depth + 1 - k
                               /\ stack[k].i \in 1 .. Len(stack[k].list.recs) + 1
    /\ ctx.ccount \in Nat
    /\ lost \in BOOLEAN
    /\ ret \in {"none", "ok", "io", "garbage", "nomem", "notvalid", "cannot",
                "badblkno", "badmagic", "corrupt"}

\* The data records of a tree from left to right, empty ones left out.
Below(ebs, recs) == FlattenSeq([i \in DOMAIN recs |->
                                  IF recs[i].blk \in DOMAIN ebs THEN ebs[recs[i].blk].recs
                                  ELSE <<>>])
Data(root, ebs) ==
    SelectSeq(CASE root.depth = 0 -> root.recs
                [] root.depth = 1 -> Below(ebs, root.recs)
                [] OTHER -> Below(ebs, Below(ebs, root.recs)),
              LAMBDA r : r.n # 0)
FileData == Data(Root, in.tree.ebs)

DataCalls == SelectSeq(log, LAMBDA c : c.depth = 0)
Aborted == \E k \in DOMAIN log : log[k].r \cap Stop # {}
Clusters(recs) == FoldSeq(LAMBDA r, n : r.n + n, 0, recs)
Unmarked(recs) == [k \in DOMAIN recs |-> [recs[k] EXCEPT !.mark = FALSE]]

\* The function sees the file's extents from left to right, each once, with
\* the number of clusters before it.  A call that succeeds has shown it all of
\* them, with the two exceptions the code makes: the function itself reported
\* an error, which errcode never hears of (extents.c, line 474), or an error of
\* the walk was overwritten by the success of writing a block above (line 383).
EachOnceInOrder ==
    /\ Len(DataCalls) <= Len(FileData)
    /\ \A k \in DOMAIN DataCalls :
        /\ DataCalls[k].rec = FileData[k]
        /\ DataCalls[k].ccount = Clusters(SubSeq(FileData, 1, k - 1))
    /\ pc = "done" /\ ret = "ok" /\ ~ Aborted /\ ~ lost => Len(DataCalls) = Len(FileData)

\* Record x lies below record b in the tree.
Under(x, b) == x.depth < b.depth /\ b.rec.cpos <= x.rec.cpos /\ x.rec.cpos < b.rec.cpos + b.rec.n

\* With CMFS_EXTENT_FLAG_DEPTH_TRAVERSE the function sees a block of the tree
\* after everything below it, otherwise before (cmfs.h, lines 86-90).
BlocksInOrder ==
    \A j, k \in DOMAIN log : Under(log[k], log[j]) => IF After THEN k < j ELSE j < k

\* Nothing follows a call that stops the walk, but an error reported for an
\* interior record stops it only behind the records below that one.
StopStops ==
    \A j, k \in DOMAIN log :
        j < k /\ log[j].r \cap Stop # {} => "abort" \notin log[j].r /\ Under(log[k], log[j])

\* What the function is shown: every extent once, blocks of the tree on the
\* right side of what they hold, and nothing behind a stop.
ShownInOrder == TypeOK /\ EachOnceInOrder /\ BlocksInOrder /\ StopStops

\* The records of a tree whose mark is set, by depth and position.
Marked(root, ebs) ==
    UNION {{<<l.depth, l.recs[i].cpos>> : i \in {j \in DOMAIN l.recs : l.recs[j].mark}} :
              l \in {root} \cup {ebs[b] : b \in DOMAIN ebs}}

\* The calls in which the function changed its record.
Changes == {k \in DOMAIN log : "changed" \in log[k].r}

\* The data records of lists that begin with an empty record and of which the
\* function changed one: these lists are cut before the empty record (line 318).
Cut == UNION {{<<r.cpos, r.n, r.blk>> : r \in ToSet(l.recs)} :
                 l \in {x \in {Root} \cup {in.tree.ebs[b] : b \in DOMAIN in.tree.ebs} :
                          /\ x.depth = 0 /\ x.recs # <<>> /\ x.recs[1].n = 0
                          /\ \E k \in Changes : log[k].rec \in ToSet(x.recs)}}
Spared(recs) == SelectSeq(recs, LAMBDA r : <<r.cpos, r.n, r.blk>> \notin Cut)

\* When the call succeeds and no error was overwritten on the way, the records
\* the function changed are changed on the device, those of interior blocks
\* too, also when it stopped the walk afterwards; and no others ever are.
ChangesDurable ==
    LET marked == Marked(disk.inode.list, disk.ebs)
    IN  /\ marked \subseteq {<<log[k].depth, log[k].rec.cpos>> : k \in Changes}
        /\ pc = "done" /\ ret = "ok" /\ ~ lost =>
            \A k \in Changes :
                LET r == log[k].rec
                IN  <<log[k].depth, r.cpos>> \in marked \/ <<r.cpos, r.n, r.blk>> \in Cut

\* The extents of the file on the device are never lost, whatever fails and
\* wherever the walk stops, except by a change in a list that begins with an
\* empty record: that empties the list, and no other.
DataKept == Unmarked(Spared(Data(disk.inode.list, disk.ebs))) = Unmarked(Spared(FileData))

\* What the walk leaves on the device: the changes, and the file.
WriteBack == ChangesDurable /\ DataKept

\* The leaf that holds the end of the file.
LastLeaf ==
    LET leaves == CASE Root.depth = 0 -> <<>>
                    [] Root.depth = 1 -> Root.recs
                    [] OTHER -> Below(in.tree.ebs, Root.recs)
        used == SelectSeq(leaves, LAMBDA r : r.n # 0)
    IN  IF used = <<>> THEN 0 ELSE used[Len(used)].blk

\* The function reported CMFS_EXTENT_ERROR: errcode is then what the last
\* block read left in it, or garbage, and the call may go on as if it had
\* succeeded.
FuncFailed == \E k \in DOMAIN log : "error" \in log[k].r

\* "We can only trust ctxt.last_eb_blkno if we walked the whole tree"
\* (extents.c, line 479): i_last_eb_blk of the inode on the device is the one
\* from before, or it is right.
LastEbFromWholeWalk == disk.inode.last \in {in.tree.last, LastLeaf}

\* That holds with two exceptions, in both of which the call also claims to
\* have succeeded: the function failed, or an error was overwritten.
LastEbTrusted == LastEbFromWholeWalk \/ (ret = "ok" /\ (FuncFailed \/ lost))

\* A walk that changes nothing writes nothing: not after an I/O error, not
\* when it was stopped, not because of i_last_eb_blk.
NoNeedlessWrite ==
    [][(\A k \in DOMAIN log' : log'[k].r \subseteq {"abort"}) /\ in.tree.last = LastLeaf
         => disk' = disk]_vars

\* The walk ends.
WalkEnds == <>(pc = "done")
=============================================================================
