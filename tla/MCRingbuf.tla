----------------------------- MODULE MCRingbuf ------------------------------
(* Three processes, two names and two ring buffers of two pages.          *)
EXTENDS Ringbuf

CONSTANTS p1, p2, p3, na, nb
MCProcs == {p1, p2, p3}
MCNames == {na, nb}
MCSymmetry == Permutations(MCProcs) \cup Permutations(MCNames)
=============================================================================
