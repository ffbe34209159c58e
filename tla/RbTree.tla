------------------------------- MODULE RbTree -------------------------------
(***************************************************************************)
(* The red-black tree of libcmfs/kernel-rbtree.c as the block cache uses   *)
(* it: io_cache_insert links a node and calls rb_insert_color,             *)
(* io_cache_disconnect calls rb_erase and clears the node, io_cache_lookup *)
(* walks down.  A node is named by the block number it holds while it is   *)
(* in the tree.  One case of an iteration of the colouring loops is a      *)
(* step.                                                                   *)
(*                                                                         *)
(* The mirrored halves of the C functions are one definition with the side *)
(* as a parameter.                                                         *)
(***************************************************************************)
EXTENDS Integers, FiniteSets

CONSTANT Blocks     \* the block numbers

ASSUME BlocksAssumption == Blocks \subseteq Nat \ {0}

NULL == 0
Side == {"left", "right"}
Opp(s) == IF s = "left" THEN "right" ELSE "left"

VARIABLES
    t,          \* [root, kid, up, color]: ic_lookup and the rb_nodes
    pc,         \* "idle", "insert" (rb_insert_color), "erase" (__rb_erase_color)
    node,       \* node and parent of the running loop
    parent,
    victim      \* the node io_cache_disconnect is taking out

vars == <<t, pc, node, parent, victim>>

-----------------------------------------------------------------------------
(* Pointers and colours.  A NULL node counts as black.                     *)

IsRed(tr, n) == n # NULL /\ tr.color[n] = "red"
Paint(tr, n, c) == IF n = NULL THEN tr ELSE [tr EXCEPT !.color[n] = c]
SetUp(tr, n, p) == IF n = NULL THEN tr ELSE [tr EXCEPT !.up[n] = p]
SideOf(tr, p, n) == IF tr.kid.left[p] = n THEN "left" ELSE "right"

\* The link of p that points to old, or the root, now points to new.
Relink(tr, p, old, new) ==
    IF p = NULL THEN [tr EXCEPT !.root = new]
    ELSE [tr EXCEPT !.kid[SideOf(tr, p, old)][p] = new]

\* __rb_rotate_left and __rb_rotate_right: n moves down to side s, and its
\* child on the other side takes its place.
Rotate(tr, n, s) ==
    LET c == tr.kid[Opp(s)][n]
        g == tr.kid[s][c]
        p == tr.up[n]
        moved == SetUp([tr EXCEPT !.kid[Opp(s)][n] = g, !.kid[s][c] = n,
                                  !.up[c] = p], g, n)
    IN  [Relink(moved, p, n, c) EXCEPT !.up[n] = c]

\* The node without a child on side s that is reached from n by going to s.
Outermost(tr, n, s) ==
    LET go[m \in Blocks] == IF tr.kid[s][m] = NULL THEN m ELSE go[tr.kid[s][m]]
    IN  go[n]

\* The nodes io_cache_lookup visits for b, from n downwards.
Walk(tr, n, b) ==
    LET go[m \in Blocks \cup {NULL}] ==
            IF m = NULL THEN {}
            ELSE {m} \cup (CASE b < m -> go[tr.kid.left[m]]
                             [] b > m -> go[tr.kid.right[m]]
                             [] OTHER -> {})
    IN  go[n]

\* io_cache_lookup
Lookup(tr, b) == IF b \in Walk(tr, tr.root, b) THEN b ELSE NULL

\* Where io_cache_insert ends: the last node its walk visits.
LinkParent(tr, b) ==
    LET go[m \in Blocks] ==
            LET c == tr.kid[IF b < m THEN "left" ELSE "right"][m]
            IN  IF c = NULL THEN m ELSE go[c]
    IN  IF tr.root = NULL THEN NULL ELSE go[tr.root]

First(tr) == IF tr.root = NULL THEN NULL ELSE Outermost(tr, tr.root, "left")
Last(tr) == IF tr.root = NULL THEN NULL ELSE Outermost(tr, tr.root, "right")

\* Mutant of Neighbour: it climbs one level at most.
NeighbourParent(tr, n, s) ==
    IF tr.kid[s][n] # NULL THEN Outermost(tr, tr.kid[s][n], Opp(s))
    ELSE tr.up[n]

\* rb_next (s = "right") and rb_prev (s = "left").
Neighbour(tr, n, s) ==
    LET climb[m \in Blocks] ==
            IF tr.up[m] # NULL /\ m = tr.kid[s][tr.up[m]]
            THEN climb[tr.up[m]] ELSE tr.up[m]
    IN  IF tr.kid[s][n] # NULL THEN Outermost(tr, tr.kid[s][n], Opp(s))
        ELSE climb[n]

-----------------------------------------------------------------------------
Blank == [n \in Blocks |-> NULL]

Init ==
    /\ t = [root |-> NULL, kid |-> [s \in Side |-> Blank], up |-> Blank,
            color |-> [n \in Blocks |-> "red"]]
    /\ pc = "idle" /\ node = NULL /\ parent = NULL /\ victim = NULL

InTree(n) == t.root = n \/ t.up[n] # NULL

\* rb_link_node
LinkNode(tr, n, p) ==
    LET blank == [tr EXCEPT !.up[n] = p, !.color[n] = "red",
                            !.kid.left[n] = NULL, !.kid.right[n] = NULL]
    IN  IF p = NULL THEN [blank EXCEPT !.root = n]
        ELSE [blank EXCEPT !.kid[IF n < p THEN "left" ELSE "right"][p] = n]

\* io_cache_insert of a block that was not found.
Insert(b) ==
    /\ pc = "idle"
    /\ Lookup(t, b) = NULL
    /\ t' = LinkNode(t, b, LinkParent(t, b))
    /\ pc' = "insert"
    /\ node' = b
    /\ UNCHANGED <<parent, victim>>

RedParent == t.up[node] # NULL /\ IsRed(t, t.up[node])

\* The uncle is red: the conflict moves up to the grandparent.
InsertRecolor ==
    LET p == t.up[node]
        g == t.up[p]
        uncle == t.kid[Opp(SideOf(t, g, p))][g]
    IN  /\ pc = "insert"
        /\ RedParent
        /\ IsRed(t, uncle)
        /\ t' = Paint(Paint(Paint(t, uncle, "black"), p, "black"), g, "red")
        /\ node' = g
        /\ UNCHANGED <<pc, parent, victim>>

BlackUncle(g, p) == ~ IsRed(t, t.kid[Opp(SideOf(t, g, p))][g])

\* The uncle is black and node lies between its parent and grandparent: the
\* parent is rotated below node, and the two change names.
InsertInner ==
    LET p == t.up[node]
        s == SideOf(t, t.up[p], p)
    IN  /\ pc = "insert"
        /\ RedParent
        /\ BlackUncle(t.up[p], p)
        /\ t.kid[Opp(s)][p] = node
        /\ t' = Rotate(t, p, s)
        /\ node' = p
        /\ UNCHANGED <<pc, parent, victim>>

\* Otherwise the grandparent is rotated below the parent: no conflict is left.
InsertOuter ==
    LET p == t.up[node]
        g == t.up[p]
        s == SideOf(t, g, p)
    IN  /\ pc = "insert"
        /\ RedParent
        /\ BlackUncle(g, p)
        /\ t.kid[Opp(s)][p] # node
        /\ t' = Rotate(Paint(Paint(t, p, "black"), g, "red"), g, Opp(s))
        /\ UNCHANGED <<pc, node, parent, victim>>

InsertDone ==
    /\ pc = "insert"
    /\ ~ RedParent
    /\ t' = Paint(t, t.root, "black")
    /\ pc' = "idle" /\ node' = NULL
    /\ UNCHANGED <<parent, victim>>

-----------------------------------------------------------------------------
(* rb_erase takes a node out; the result is the tree, the child that moved *)
(* up, its parent and the colour that is now missing.                      *)

UnlinkOne(tr, n) ==
    LET c == IF tr.kid.left[n] = NULL THEN tr.kid.right[n] ELSE tr.kid.left[n]
        p == tr.up[n]
    IN  [tree |-> Relink(SetUp(tr, c, p), p, n, c),
         child |-> c, parent |-> p, color |-> tr.color[n]]

\* Mutant of UnlinkTwo: the right subtree of n is not taken over.
UnlinkTwoLost(tr, n) ==
    LET y == Outermost(tr, tr.kid.right[n], "left")
        moved == [tr EXCEPT !.up[y] = tr.up[n], !.color[y] = tr.color[n],
                            !.kid.left[y] = tr.kid.left[n]]
        placed == Relink(moved, moved.up[n], n, y)
    IN  [tree |-> SetUp(placed, placed.kid.left[n], y),
         child |-> tr.kid.right[y], parent |-> y, color |-> "red"]

\* With two children, the next node in order takes the place of n.
UnlinkTwo(tr, n) ==
    LET y == Outermost(tr, tr.kid.right[n], "left")
        c == tr.kid.right[y]
        p == tr.up[y]
        out == Relink(SetUp(tr, c, p), p, y, c)
        moved == [out EXCEPT !.up[y] = out.up[n], !.color[y] = out.color[n],
                             !.kid.right[y] = out.kid.right[n],
                             !.kid.left[y] = out.kid.left[n]]
        placed == Relink(moved, moved.up[n], n, y)
    IN  [tree |-> SetUp(SetUp(placed, placed.kid.left[n], y), placed.kid.right[n], y),
         child |-> c, parent |-> IF p = n THEN y ELSE p, color |-> tr.color[y]]

Unlink(tr, n) ==
    IF tr.kid.left[n] # NULL /\ tr.kid.right[n] # NULL
    THEN UnlinkTwo(tr, n) ELSE UnlinkOne(tr, n)

\* The memset of the node in io_cache_disconnect.
Clear(tr, n) ==
    [tr EXCEPT !.up[n] = NULL, !.kid.left[n] = NULL, !.kid.right[n] = NULL,
               !.color[n] = "red"]

\* io_cache_disconnect: colours are only repaired if a black node is missing.
Erase(b) ==
    LET u == Unlink(t, b)
    IN  /\ pc = "idle"
        /\ InTree(b)
        /\ IF u.color = "black"
           THEN /\ t' = u.tree
                /\ pc' = "erase" /\ node' = u.child /\ parent' = u.parent
                /\ victim' = b
           ELSE /\ t' = Clear(u.tree, b)
                /\ UNCHANGED <<pc, node, parent, victim>>

\* __rb_erase_color: the paths through node lack a black node.
Lacking == ~ IsRed(t, node) /\ node # t.root

EraseSide == SideOf(t, parent, node)
Sibling == t.kid[Opp(EraseSide)][parent]
Near == t.kid[EraseSide][Sibling]
Far == t.kid[Opp(EraseSide)][Sibling]

\* A red sibling is rotated above the parent; the next sibling is black.
EraseRedSibling ==
    /\ pc = "erase"
    /\ Lacking
    /\ IsRed(t, Sibling)
    /\ t' = Rotate(Paint(Paint(t, Sibling, "black"), parent, "red"),
                   parent, EraseSide)
    /\ UNCHANGED <<pc, node, parent, victim>>

\* Both children of the sibling are black: the lack moves up to the parent.
EraseRecolor ==
    /\ pc = "erase"
    /\ Lacking
    /\ ~ IsRed(t, Sibling) /\ ~ IsRed(t, Near) /\ ~ IsRed(t, Far)
    /\ t' = Paint(t, Sibling, "red")
    /\ node' = parent
    /\ parent' = t.up[parent]
    /\ UNCHANGED <<pc, victim>>

\* Only the child next to node is red: it is rotated above the sibling.
EraseInner ==
    /\ pc = "erase"
    /\ Lacking
    /\ ~ IsRed(t, Sibling) /\ IsRed(t, Near) /\ ~ IsRed(t, Far)
    /\ t' = Rotate(Paint(Paint(t, Near, "black"), Sibling, "red"),
                   Sibling, Opp(EraseSide))
    /\ UNCHANGED <<pc, node, parent, victim>>

\* Mutant of EraseOuter: the sibling does not take the colour of the parent.
EraseOuterBlack ==
    /\ pc = "erase"
    /\ Lacking
    /\ ~ IsRed(t, Sibling) /\ IsRed(t, Far)
    /\ t' = Rotate(Paint(Paint(t, parent, "black"), Far, "black"), parent, EraseSide)
    /\ node' = t'.root
    /\ UNCHANGED <<pc, parent, victim>>

\* The far child is red: a last rotation makes up for the lack.
EraseOuter ==
    /\ pc = "erase"
    /\ Lacking
    /\ ~ IsRed(t, Sibling) /\ IsRed(t, Far)
    /\ t' = Rotate(Paint(Paint(Paint(t, Sibling, t.color[parent]),
                               parent, "black"), Far, "black"),
                   parent, EraseSide)
    /\ node' = t'.root
    /\ UNCHANGED <<pc, parent, victim>>

EraseDone ==
    /\ pc = "erase"
    /\ ~ Lacking
    /\ t' = Clear(Paint(t, node, "black"), victim)
    /\ pc' = "idle" /\ node' = NULL /\ parent' = NULL /\ victim' = NULL

Fixup == \/ InsertRecolor \/ InsertInner \/ InsertOuter \/ InsertDone
         \/ EraseRedSibling \/ EraseRecolor \/ EraseInner \/ EraseOuter
         \/ EraseDone

Next == \/ \E b \in Blocks : Insert(b) \/ Erase(b)
        \/ Fixup

Spec == Init /\ [][Next]_vars

-----------------------------------------------------------------------------
(* Properties                                                              *)

TypeOK ==
    LET ptr == Blocks \cup {NULL}
    IN  /\ t \in [root : ptr, kid : [Side -> [Blocks -> ptr]],
                  up : [Blocks -> ptr], color : [Blocks -> {"red", "black"}]]
        /\ pc \in {"idle", "insert", "erase"}
        /\ node \in ptr /\ parent \in ptr /\ victim \in ptr

\* The nodes below n, n included.
Below(tr, n) ==
    LET go[m \in Blocks \cup {NULL}] ==
            IF m = NULL THEN {}
            ELSE {m} \cup go[tr.kid.left[m]] \cup go[tr.kid.right[m]]
    IN  go[n]

Members == Below(t, t.root)

\* Rotations and unlinking keep the tree a search tree at every step: parent
\* and child links agree, everything left of a node is smaller and everything
\* right of it larger, and what is not in the tree points nowhere.
SearchTree ==
    /\ t.root # NULL => t.up[t.root] = NULL
    /\ \A n \in Members : \A s \in Side :
        LET c == t.kid[s][n]
        IN  /\ c # NULL => t.up[c] = n
            /\ \A m \in Below(t, c) : IF s = "left" THEN m < n ELSE m > n
    /\ \A n \in Blocks \ (Members \cup {victim}) :
        t.up[n] = NULL /\ \A s \in Side : t.kid[s][n] = NULL

\* Two red nodes in a row exist only where the running loop is about to look:
\* at node while inserting, at node or right below it while erasing, and then
\* node is itself red and about to be painted black.
NoRedRed ==
    LET conflict == {n \in Members : IsRed(t, n) /\ IsRed(t, t.up[n])}
    IN  CASE pc = "insert" -> conflict \subseteq {node}
          [] pc = "erase" -> \A n \in conflict :
                                 IsRed(t, node) /\ node \in {n, t.up[n]}
          [] OTHER -> conflict = {} /\ ~ IsRed(t, t.root)

\* All paths from a node down pass the same number of black nodes; while
\* __rb_erase_color runs, exactly the paths through node lack one.
BlackBalanced ==
    LET lack(n, s) == IF pc = "erase" /\ node # t.root /\ parent = n /\ EraseSide = s
                      THEN 1 ELSE 0
        h[n \in Blocks \cup {NULL}] ==
            IF n = NULL THEN 0
            ELSE h[t.kid.left[n]] + lack(n, "left")
                 + (IF IsRed(t, n) THEN 0 ELSE 1)
    IN  \A n \in Members :
            h[t.kid.left[n]] + lack(n, "left") = h[t.kid.right[n]] + lack(n, "right")

\* A red-black search tree at every step of both loops, up to the one place
\* that the running loop is about to repair.
RedBlack == TypeOK /\ SearchTree /\ NoRedRed /\ BlackBalanced

\* Between calls io_cache_lookup finds exactly the blocks of the tree, and it
\* visits no more than 2 log2(n + 1) nodes.
LookupFinds ==
    pc = "idle" => \A b \in Blocks :
        LET visited == Cardinality(Walk(t, t.root, b))
        IN  /\ Lookup(t, b) = (IF b \in Members THEN b ELSE NULL)
            /\ 2 ^ ((visited + 1) \div 2) <= Cardinality(Members) + 1

\* rb_first, rb_last, rb_next and rb_prev go through the tree in order.
InOrder ==
    pc = "idle" =>
        /\ First(t) = (IF Members = {} THEN NULL
                       ELSE CHOOSE n \in Members : \A m \in Members : n <= m)
        /\ Last(t) = (IF Members = {} THEN NULL
                      ELSE CHOOSE n \in Members : \A m \in Members : n >= m)
        /\ \A n \in Members :
            LET above == {m \in Members : m > n}
                nx == Neighbour(t, n, "right")
            IN  /\ IF above = {} THEN nx = NULL
                   ELSE nx \in above /\ \A m \in above : nx <= m
                /\ nx # NULL => Neighbour(t, nx, "left") = n

\* What the users of the tree see between calls: lookups find what is there,
\* in logarithmic time, and the iterators pass it in order.
Searches == LookupFinds /\ InOrder

\* The tree is a set: a call adds or removes its block and no other, and the
\* colouring loops change nothing (refinement of OrderedSet).
Abstract == INSTANCE OrderedSet WITH Keys <- Blocks, set <- Members
IsOrderedSet == Abstract!Spec
=============================================================================
