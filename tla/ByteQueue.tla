----------------------------- MODULE ByteQueue ------------------------------
(* What a ring buffer promises its two owners: a bounded queue of bytes.    *)
EXTENDS Naturals, Sequences

CONSTANTS Byte, Capacity
VARIABLES
  q,      \* the bytes, oldest first
  shown   \* how many of them the reader may look at and take

Init == q = <<>> /\ shown = 0

(* Bytes are appended; those in the queue stay as they are. *)
Send ==
  /\ q' \in Seq(Byte) /\ Len(q') >= Len(q) /\ Len(q') <= Capacity
  /\ \A j \in 1..Len(q) : q'[j] = q[j]
  /\ shown' = shown

(* The reader looks at some of the oldest bytes. *)
Show == shown' \in 0..Len(q) /\ q' = q

(* Bytes the reader has seen, the oldest ones, are taken away. *)
Receive ==
  /\ q' \in Seq(Byte) /\ Len(q') <= Len(q) /\ Len(q) - Len(q') <= shown
  /\ \A j \in 1..Len(q') : q'[j] = q[j + Len(q) - Len(q')]
  /\ shown' = 0

Next == Send \/ Show \/ Receive

Spec == Init /\ [][Next]_<<q, shown>>
=============================================================================
