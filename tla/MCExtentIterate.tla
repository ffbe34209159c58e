-------------------------- MODULE MCExtentIterate --------------------------
(***************************************************************************)
(* Trees of depth 0, 1 and 2 for ExtentIterate.                            *)
(***************************************************************************)
EXTENDS ExtentIterate, TLC

Rec0(cpos, n, blk) == [cpos |-> cpos, n |-> n, blk |-> blk, mark |-> FALSE]
List(depth, recs) == [depth |-> depth, recs |-> recs]
Empty == Rec0(0, 0, 0)

\* Data of the file: extents at clusters 0, 2, 3 and 6, with two holes.
E1 == Rec0(0, 1, 100)
E2 == Rec0(2, 1, 101)
E3 == Rec0(3, 2, 102)
E4 == Rec0(6, 1, 104)

Flat == [root |-> List(0, <<E1, E2, E3>>), ebs |-> <<>>, last |-> 0]
Nil == [root |-> List(0, <<>>), ebs |-> <<>>, last |-> 0]
Tree1(last) ==
    [root |-> List(1, <<Rec0(0, 3, 11), Rec0(3, 4, 12)>>),
     ebs |-> (11 :> List(0, <<E1, E2>>)) @@ (12 :> List(0, <<E3, E4>>)), last |-> last]
Tree2 ==
    [root |-> List(2, <<Rec0(0, 3, 14), Rec0(3, 4, 15)>>),
     ebs |-> (11 :> List(0, <<E1>>)) @@ (12 :> List(0, <<E2>>)) @@ (13 :> List(0, <<E3, E4>>))
             @@ (14 :> List(1, <<Rec0(0, 2, 11), Rec0(2, 1, 12)>>))
             @@ (15 :> List(1, <<Rec0(3, 4, 13)>>)),
     last |-> 13]

\* Lists with an empty record at their left end, and an empty leaf.
FlatSparse == [root |-> List(0, <<Empty, E2, E3>>), ebs |-> <<>>, last |-> 0]
Sparse1 ==
    [root |-> List(1, <<Rec0(0, 3, 11), Rec0(3, 4, 12)>>),
     ebs |-> (11 :> List(0, <<Empty, E2>>)) @@ (12 :> List(0, <<E3, E4>>)), last |-> 12]
Sparse2 ==
    [root |-> List(1, <<Rec0(0, 3, 11), Rec0(3, 3, 12), Rec0(6, 1, 13)>>),
     ebs |-> (11 :> List(0, <<E1, E2>>)) @@ (12 :> List(0, <<>>)) @@ (13 :> List(0, <<E4>>)),
     last |-> 13]

\* A tree with a bad block number, a block that is none of the tree's, or a
\* block of another depth.
Broken(b) == [root |-> List(1, <<Rec0(0, 3, 11), Rec0(3, 4, b)>>),
              ebs |-> (11 :> List(0, <<E1, E2>>)) @@ (14 :> List(1, <<>>)), last |-> b]

AllFlags == {{}, {"depth"}, {"dataonly"}, {"depth", "dataonly"}}
Changing == {{}, {"changed"}, {"abort"}, {"changed", "abort"}}
Quiet == {{}, {"abort"}}
Failing == {{}, {"error"}, {"changed"}, {"changed", "error"}}

Calls(trees, kinds, results, ebResults) ==
    {[tree |-> t, kind |-> k, flags |-> f, results |-> results, ebResults |-> ebResults] :
        t \in trees, k \in kinds, f \in AllFlags}

WalkInputs ==
    Calls({Flat, FlatSparse, Nil, Tree1(12), Tree1(11), Tree2, Sparse1, Sparse2}
          \cup {Broken(b) : b \in {1, 13, 14, FsBlocks + 1}}, {"file"}, Changing, Changing)
    \cup Calls({[Tree2 EXCEPT !.root.recs[2].blk = 0]}, {"file"}, Quiet, Quiet)
    \cup Calls({Flat, Tree1(12), Tree2}, {"file"}, Failing, Failing)
    \cup Calls({Flat}, {"invalid", "chain"}, Quiet, Quiet)

\* A function that changes interior records and nothing else.
LostErrorInputs == Calls({Tree2}, {"file"}, {{}}, {{}, {"changed"}})
=============================================================================
