------------------------------ MODULE MCVirtio ------------------------------
(* Instances of Virtio. *)
EXTENDS Virtio, TLC

CONSTANTS p1, p2, p3
MCThree == {p1, p2, p3}
MCSymmetry == Permutations(MCThree)
=============================================================================
