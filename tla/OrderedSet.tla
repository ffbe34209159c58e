---------------------------- MODULE OrderedSet ----------------------------
(***************************************************************************)
(* What the users of libcmfs/kernel-rbtree.c rely on: a set of keys that   *)
(* changes by one key at a time.                                           *)
(***************************************************************************)
CONSTANT Keys

VARIABLE set

Init == set = {}

Add(k) == k \notin set /\ set' = set \cup {k}

Remove(k) == k \in set /\ set' = set \ {k}

Next == \E k \in Keys : Add(k) \/ Remove(k)

Spec == Init /\ [][Next]_set
=============================================================================
