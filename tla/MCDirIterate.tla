---------------------------- MODULE MCDirIterate ----------------------------
(* Blocks of 48 bytes: sound ones, ones with removed entries between the   *)
(* live ones, and broken ones.                                             *)
EXTENDS DirIterate

E(ino, len, name, nlen) == [inode |-> ino, rec_len |-> len, name |-> name, name_len |-> nlen]

MCJunk == E(7, 97, "?", 97)

\* "." and "..", a removed entry behind "..".
Dots == [o \in {0, 16, 32} |->
    CASE o = 0 -> E(1, 16, ".", 1) [] o = 16 -> E(1, 32, "..", 2) [] o = 32 -> E(5, 16, "a", 1)]
\* An entry without an inode between two others.
Three == [o \in {0, 16, 32} |->
    CASE o = 0 -> E(3, 16, "a", 1) [] o = 16 -> E(0, 16, "b", 1) [] o = 32 -> E(4, 16, "bbbb", 4)]
\* Two removed entries behind the only one.
Slack == [o \in {0, 16, 32} |->
    CASE o = 0 -> E(6, 48, "b", 1) [] o = 16 -> E(8, 16, "a", 1) [] o = 32 -> E(9, 16, "b", 1)]
\* A removed entry whose length leads past the next live one.
Long == [o \in {0, 16, 32} |->
    CASE o = 0 -> E(6, 32, "b", 1) [] o = 16 -> E(8, 32, "?", 17) [] o = 32 -> E(9, 16, "a", 1)]
Broken(e) == [o \in {0, 16} |-> IF o = 0 THEN E(3, 16, "a", 1) ELSE e]
\* An entry in the last twelve bytes.
AtEnd(o1, e) == [o \in {0, o1} |-> IF o = 0 THEN E(3, o1, "a", 1) ELSE e]

MCBlocks == {Three, Slack, Long, Broken(E(4, 0, "b", 1)), Broken(E(4, 36, "b", 1)),
             Broken(E(4, 12, "b", 1)), Broken(E(4, 32, "b", 24)), AtEnd(36, E(4, 12, "b", 4)), AtEnd(36, E(4, 0, "b", 0)),
             AtEnd(40, E(4, 8, "b", 0))}

\* Two clusters of two blocks; the second cluster is the one before the first
\* on the device.
MCRecs == <<[cpos |-> 0, clusters |-> 1, blkno |-> 3], [cpos |-> 1, clusters |-> 1, blkno |-> 1]>>
MCDirectories ==
    {[mode |-> "dir", size |-> 3 * BlockSize, recs |-> MCRecs],
     [mode |-> "file", size |-> 0, recs |-> <<>>], [mode |-> "bad", size |-> 0, recs |-> <<>>]}

MCVolumes == {[b \in 1 .. 4 |-> CASE b = 1 -> z [] b = 2 -> Three [] b = 3 -> Dots [] b = 4 -> y] :
                 y \in MCBlocks, z \in MCBlocks}

MCNameLen == [n \in {"..", "a", "b", "bbbb", "z"} |->
                CASE n = ".." -> 2 [] n = "bbbb" -> 4 [] OTHER -> 1]

MCWalks == {[flags |-> {}, name |-> n] : n \in DOMAIN MCNameLen}
           \cup {[flags |-> f, name |-> NoName] :
                    f \in {{}, {"removed"}, {"empty", "removed"}, {"nodots"}}}
=============================================================================
