------------------------------ MODULE MCBcache ------------------------------
(* Instances of Bcache. *)
EXTENDS Bcache, TLC

CONSTANTS p1, p2, p3, n1, n2, n3
MCThree == {p1, p2, p3}
MCBlocks == {n1, n2, n3}
MCSymmetry == Permutations(MCThree) \cup Permutations(MCBlocks)
=============================================================================
