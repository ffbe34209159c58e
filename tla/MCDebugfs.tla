---------------------------- MODULE MCDebugfs ----------------------------
(***************************************************************************)
(* Two volumes with links, one that is refused, and the commands.          *)
(***************************************************************************)
EXTENDS Debugfs

MCNames == {"", ".", "..", "d", "e", "f", "x", "l", "up", "loop", "fast", "gone",
            "journal", "c1", "c2", "c3", "c4", "c5", "c6", "c7"}

Dir(self, up, entries) ==
    [mode |-> "dir", entries |-> ("." :> self @@ ".." :> up) @@ entries]
File == [mode |-> "file"]
Rel(comps) == [abs |-> FALSE, comps |-> comps]
Abs(comps) == [abs |-> TRUE, comps |-> comps]
Link(path) == [mode |-> "link", target |-> path]

Super(root, sys, clusters, cbits) ==
    [magic |-> TRUE, bits |-> 12, blkno |-> SuperBlk, cbits |-> cbits,
     root |-> root, sysdir |-> sys, clusters |-> clusters]

\* d holds links upwards and absolute ones; "gone" names a block that holds
\* no inode.
Vol1 == [super |-> Super(3, 4, 10, 13), extents |-> (15 :> TRUE @@ 16 :> FALSE),
         inodes |-> (3 :> Dir(3, 3, "d" :> 5 @@ "l" :> 7 @@ "loop" :> 8 @@ "gone" :> 17))
                 @@ (4 :> Dir(4, 4, "journal" :> 12))
                 @@ (5 :> Dir(5, 3, "f" :> 6 @@ "up" :> 9 @@ "e" :> 11 @@ "fast" :> 10))
                 @@ (6 :> File)
                 @@ (7 :> Link(Abs(<<"d">>)))
                 @@ (8 :> Link(Rel(<<"loop">>)))
                 @@ (9 :> Link(Rel(<<"..", "l", "e", "">>)))
                 @@ (10 :> [mode |-> "fast"])
                 @@ (11 :> Dir(11, 5, "x" :> 6))
                 @@ (12 :> File)]

\* c1 leads through seven links, c2 through six.
Vol2 == [super |-> Super(3, 4, 24, 12), extents |-> <<>>,
         inodes |-> (3 :> Dir(3, 3, "d" :> 5 @@ "c1" :> 11 @@ "c2" :> 12 @@ "c3" :> 13
                                    @@ "c4" :> 14 @@ "c5" :> 15 @@ "c6" :> 16 @@ "c7" :> 17))
                 @@ (4 :> Dir(4, 4, <<>>))
                 @@ (5 :> Dir(5, 3, "f" :> 6))
                 @@ (6 :> File)
                 @@ (11 :> Link(Rel(<<"c2">>))) @@ (12 :> Link(Rel(<<"c3">>)))
                 @@ (13 :> Link(Rel(<<"c4">>))) @@ (14 :> Link(Rel(<<"c5">>)))
                 @@ (15 :> Link(Rel(<<"c6">>))) @@ (16 :> Link(Rel(<<"c7">>)))
                 @@ (17 :> Link(Rel(<<"d">>)))]

MCVols == ("v1" :> Vol1) @@ ("v2" :> Vol2)
          @@ ("v3" :> [super |-> [Super(3, 0, 8, 12) EXCEPT !.sysdir = 0],
                       inodes |-> <<>>, extents |-> <<>>])

Num(n) == [kind |-> "num", n |-> n]
Path(p) == [kind |-> "path", sys |-> FALSE, path |-> p]
Sys(p) == [kind |-> "path", sys |-> TRUE, path |-> p]
NoArg == [kind |-> "none"]

Dirs == {Path(Abs(<<"">>)), Path(Rel(<<"d">>)), Path(Rel(<<"..">>)), Path(Rel(<<"l", "">>)),
         Path(Rel(<<"l">>)), Path(Rel(<<"d", "up", "">>)), Path(Rel(<<"">>)), Num(5)}
Walks == {Path(Rel(<<"loop", "">>)), Path(Rel(<<"d", "", "f">>)), Path(Rel(<<"f", "x">>)),
          Path(Abs(<<"d", "up", "..", "f">>)), Path(Rel(<<"up", "x">>)),
          Path(Rel(<<"d", "fast", "">>)), Path(Rel(<<"gone", "">>)), Path(Rel(<<"gone">>)),
          Path(Rel(<<"c1", "">>)), Path(Rel(<<"c2", "f">>)), Sys(Abs(<<"journal">>))}

MCCmds ==
    {[name |-> "open", arg |-> [kind |-> "dev", dev |-> d]] : d \in DOMAIN MCVols}
    \cup {[name |-> n, arg |-> NoArg] :
             n \in {"open", "close", "quit", "stats", "ls", "cd", "stat -t", "group"}}
    \cup {[name |-> n, arg |-> a] : n \in {"cd", "chroot"}, a \in Dirs}
    \cup {[name |-> "stat", arg |-> a] : a \in Walks \cup {Num(20), Num(99)}}
    \cup {[name |-> n, arg |-> Path(Rel(<<"d", "f">>))] : n \in {"cat", "frag", "bmap"}}
    \cup {[name |-> n, arg |-> Path(Rel(<<"d">>))] : n \in {"cat", "ls", "dirblocks"}}
    \cup {[name |-> n, arg |-> Num(b)] : n \in {"group", "extent"}, b \in {0, 1, 6, 15, 16, 20}}
    \cup {[name |-> "frag", arg |-> Num(20)]}
=============================================================================
