------------------------------- MODULE MCProc -------------------------------
(* Two CPUs and three slots; pid 0 is that of the unused slots. *)
EXTENDS Proc, TLC

CONSTANTS c1, c2
MCCpus == {c1, c2}
MCSymmetry == Permutations(MCCpus)
=============================================================================
