------------------------------ MODULE MCFiles ------------------------------
(* Instances of Files. *)
EXTENDS Files, TLC

CONSTANTS p1, p2, i1, i2, v1, v2
MCProcs == {p1, p2}
MCInums == {i1, i2}
MCVals == {v1, v2}
(* An empty disk, and one with a file that needs an indirect block. *)
Append2(i, v, w) == <<[inum |-> i, n |-> BSIZE, v |-> v], [inum |-> i, n |-> 1, v |-> w]>>
MCImages == {<<>>} \cup {Append2(i, v, w) : i \in MCInums, v \in MCVals, w \in MCVals}
MCSymmetry == Permutations(MCProcs) \cup Permutations(MCInums) \cup Permutations(MCVals)
=============================================================================
