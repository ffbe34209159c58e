------------------------------- MODULE Namei -------------------------------
(***************************************************************************)
(* From a path to an inode: cmfs_namei, open_namei, dir_namei, follow_link *)
(* (libcmfs/namei.c), with cmfs_lookup, cmfs_read_inode and                *)
(* cmfs_check_directory as single steps (DirIterate models the lookup).    *)
(*                                                                         *)
(* open_namei and follow_link call each other; the calls that have not     *)
(* returned are a stack of frames.  A path is the sequence of what its     *)
(* slashes separate, so that "d/" ends in the empty name, and whether it   *)
(* begins with a slash.                                                    *)
(***************************************************************************)
EXTENDS Integers, Sequences, SequencesExt

CONSTANTS
    Names,      \* the names in paths, "" among them
    Vols        \* [devices -> volumes], a volume's inodes by block and super block

SuperBlk == 2       \* CMFS_SUPER_BLOCK_BLKNO
LinkLimit == 5      \* follow_link: link_count++ > 5

VARIABLES
    query,      \* the call: device, root, cwd, path
    stack,      \* frames, the innermost first
    result      \* [code, blkno]

namei == <<query, stack, result>>

Ok(b) == [code |-> "ok", blkno |-> b]
Err(code) == [code |-> code, blkno |-> 0]
Pending == Err("pending")
NoQuery == [dev |-> "none"]

-----------------------------------------------------------------------------
(* Inodes and directories.                                                 *)

\* fs_blocks: cmfs_clusters_to_blocks of the super block's i_clusters.
Blocks(vol) == vol.super.clusters * 2 ^ (vol.super.cbits - vol.super.bits)

Paths == [abs : BOOLEAN, comps : Seq(Names)]

\* Block numbers are numbers and links hold paths, whatever else a volume holds.
ASSUME VolsAssumption ==
    \A d \in DOMAIN Vols :
        LET vol == Vols[d]
        IN  /\ {vol.super.root, vol.super.sysdir, Blocks(vol)} \subseteq Nat
            /\ DOMAIN vol.inodes \subseteq Nat
            /\ \A b \in DOMAIN vol.inodes : vol.inodes[b].mode = "link" =>
                   vol.inodes[b].target \in Paths
            /\ \A b \in DOMAIN vol.inodes : vol.inodes[b].mode = "dir" =>
                   \A n \in DOMAIN vol.inodes[b].entries : vol.inodes[b].entries[n] \in Nat

\* cmfs_read_inode: what is wrong with block b, or "ok".
ReadInode(vol, b) ==
    IF b < SuperBlk \/ b > Blocks(vol) THEN "bad blkno"
    ELSE IF b \notin DOMAIN vol.inodes THEN "bad magic" ELSE "ok"

CheckDirectory(vol, b) ==
    IF ReadInode(vol, b) # "ok" THEN ReadInode(vol, b)
    ELSE IF vol.inodes[b].mode # "dir" THEN "no directory" ELSE "ok"

\* cmfs_lookup
Lookup(vol, dir, name) ==
    IF CheckDirectory(vol, dir) # "ok" THEN Err(CheckDirectory(vol, dir))
    ELSE IF name \notin DOMAIN vol.inodes[dir].entries THEN Err("not found")
    ELSE Ok(vol.inodes[dir].entries[name])

-----------------------------------------------------------------------------
(* The walk.                                                               *)

\* Mutant of Frame: an absolute path starts where the link is.
FrameRelative(root, base, path, follow, lc) ==
    [dir |-> base, comps |-> path.comps, follow |-> follow, lc |-> lc]

\* A call of open_namei: dir_namei begins at the root or at the base.
Frame(root, base, path, follow, lc) ==
    [dir |-> IF path.abs THEN root ELSE base, comps |-> path.comps,
     follow |-> follow, lc |-> lc]

StartNamei(dev, root, cwd, path) ==
    /\ query' = [dev |-> dev, root |-> root, cwd |-> cwd, path |-> path]
    /\ stack' = <<Frame(root, cwd, path, FALSE, 0)>>
    /\ result' = Pending

Resolving == stack # <<>>
Top == Head(stack)
Vol == Vols[query.dev]

Fail(code) == stack' = <<>> /\ result' = Err(code)

\* Back to the caller with inode b: for the last name it is the caller's
\* result as well, for another one it is the caller's next directory.
Return(b) ==
    LET waiting == SelectInSeq(Tail(stack), LAMBDA f : Len(f.comps) > 1)
        rest == SubSeq(stack, waiting + 1, Len(stack))
    IN  IF waiting = 0 THEN stack' = <<>> /\ result' = Ok(b)
        ELSE /\ stack' = <<[Head(rest) EXCEPT !.dir = b, !.comps = Tail(@)]>> \o Tail(rest)
             /\ UNCHANGED result

\* follow_link of a symbolic link: its target is looked up from the directory
\* that holds it.  A link without clusters is refused.
FollowLink(b) ==
    LET i == Vol.inodes[b]
    IN  IF Top.lc > LinkLimit THEN Fail("symlink loop")
        ELSE IF i.mode = "fast" THEN Fail("internal failure")
        ELSE /\ stack' = <<Frame(query.root, Top.dir, i.target, TRUE, Top.lc + 1)>> \o stack
             /\ UNCHANGED result

IsLink(b) == Vol.inodes[b].mode \in {"link", "fast"}

\* Mutant of DirNamei: the name is not consumed.
DirNameiStays ==
    /\ Resolving /\ Len(Top.comps) > 1
    /\ LET r == Lookup(Vol, Top.dir, Head(Top.comps))
       IN  IF r.code # "ok" THEN Fail(r.code)
           ELSE IF ReadInode(Vol, r.blkno) # "ok" THEN Fail(ReadInode(Vol, r.blkno))
           ELSE IF IsLink(r.blkno) THEN FollowLink(r.blkno)
           ELSE UNCHANGED <<stack, result>>
    /\ UNCHANGED query

\* dir_namei, one name: it is looked up and links are followed.
DirNamei ==
    /\ Resolving /\ Len(Top.comps) > 1
    /\ LET r == Lookup(Vol, Top.dir, Head(Top.comps))
       IN  IF r.code # "ok" THEN Fail(r.code)
           ELSE IF ReadInode(Vol, r.blkno) # "ok" THEN Fail(ReadInode(Vol, r.blkno))
           ELSE IF IsLink(r.blkno) THEN FollowLink(r.blkno)
           ELSE /\ stack' = <<[Top EXCEPT !.dir = r.blkno, !.comps = Tail(@)]>> \o Tail(stack)
                /\ UNCHANGED result
    /\ UNCHANGED query

\* open_namei, the last name; the empty one stands for the directory.  A link
\* is followed unless the caller of cmfs_namei named it.
OpenNamei ==
    /\ Resolving /\ Len(Top.comps) = 1
    /\ IF Head(Top.comps) = "" THEN Return(Top.dir)
       ELSE LET r == Lookup(Vol, Top.dir, Head(Top.comps))
            IN  IF r.code # "ok" THEN Fail(r.code)
                ELSE IF ~ Top.follow THEN Return(r.blkno)
                ELSE IF ReadInode(Vol, r.blkno) # "ok" THEN Fail(ReadInode(Vol, r.blkno))
                ELSE IF IsLink(r.blkno) THEN FollowLink(r.blkno)
                ELSE Return(r.blkno)
    /\ UNCHANGED query

\* Every lookup reads blocks, which may fail.
NameiIo == Resolving /\ Fail("io") /\ UNCHANGED query

NameiStep == DirNamei \/ OpenNamei \/ NameiIo

-----------------------------------------------------------------------------
(* What a path means: links are replaced by their targets in the path      *)
(* itself, without a stack and without a limit other than MaxSteps.        *)

MaxSteps == 30

Trim(comps) == IF Last(comps) = "" THEN Front(comps) ELSE comps

Meaning(vol, root, cwd, path) ==
    LET walk[n \in 0 .. MaxSteps, d \in Nat, c \in Seq(Names)] ==
            LET r == Lookup(vol, d, Head(c))
                i == vol.inodes[r.blkno]
            IN  IF n = 0 THEN Err("symlink loop")
                ELSE IF Len(c) = 1 THEN IF Head(c) = "" THEN Ok(d) ELSE r
                ELSE IF r.code # "ok" THEN r
                ELSE IF ReadInode(vol, r.blkno) # "ok" THEN Err(ReadInode(vol, r.blkno))
                ELSE IF i.mode = "fast" THEN Err("internal failure")
                ELSE IF i.mode = "link"
                     THEN walk[n - 1, IF i.target.abs THEN root ELSE d,
                               Trim(i.target.comps) \o Tail(c)]
                     ELSE walk[n - 1, r.blkno, Tail(c)]
    IN  walk[MaxSteps, IF path.abs THEN root ELSE cwd, path.comps]

\* cmfs_namei finds what the path means, or fails for the same reason: calls
\* that return out of nested links continue in the right directory.  More than
\* six nested links are an error even if they end.
NameiRight ==
    query # NoQuery /\ ~ Resolving /\ result.code \notin {"io", "symlink loop"} =>
        result = Meaning(Vol, query.root, query.cwd, query.path)

\* Links that lead to links are given up at the seventh, so that a loop of
\* links ends in an error: the recursion is at most that deep.
LinkDepth == Len(stack) <= LinkLimit + 2

\* A path leads where it means to, through a bounded number of links.
PathsResolve == NameiRight /\ LinkDepth
=============================================================================
