---------------------------- MODULE MCBlockCache ----------------------------
(* Small instances of BlockCache for TLC.                                  *)
EXTENDS BlockCache, TLC

Symmetry == Permutations(Chans) \cup Permutations(Data)
=============================================================================
