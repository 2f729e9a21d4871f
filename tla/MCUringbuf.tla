----------------------------- MODULE MCUringbuf -----------------------------
(* Instance of Uringbuf. *)
EXTENDS Uringbuf
=============================================================================
