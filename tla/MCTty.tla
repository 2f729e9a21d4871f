------------------------------- MODULE MCTty -------------------------------
(* Two CPUs and two threads, in the pairings that share something. *)
EXTENDS Tty

CONSTANTS t1, t2

Pair(a, b) == [t \in Threads |-> IF t = t1 THEN a ELSE b]

MCScenarios == {
  [prog |-> Pair("read", "write"), keys |-> <<"nl">>, out |-> 1, ticks |-> 0, kills |-> 0],
  [prog |-> Pair("write", "write"), keys |-> <<>>, out |-> 5, ticks |-> 0, kills |-> 0],
  [prog |-> Pair("read", "none"), keys |-> <<"a", "bs", "a", "a", "kill", "a", "eof">>,
   out |-> 0, ticks |-> 0, kills |-> 0],
  [prog |-> Pair("sleep", "read"), keys |-> <<>>, out |-> 0, ticks |-> 3, kills |-> 1]}
MCLocks == {"tx", "cons", "ticks"}
=============================================================================
