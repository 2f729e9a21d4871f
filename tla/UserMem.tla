------------------------------ MODULE UserMem ------------------------------
(***************************************************************************)
(* What the kernel promises a process about its memory: pages 0..n-1 that  *)
(* nobody else changes, zero when they are new, copied by fork, replaced   *)
(* as a whole by exec, and kept when one of these fails.                   *)
(***************************************************************************)
EXTENDS Naturals

CONSTANTS Procs, First, Images, Vals, Sizes, NoMem

VARIABLE mem   \* content of the pages of each process

Init == mem = [p \in Procs |-> IF p = First THEN [k \in {0} |-> "img"] ELSE NoMem]

Exists(p) == mem[p] # NoMem

Write(p, k, v) ==
  /\ Exists(p) /\ k \in DOMAIN mem[p] /\ mem[p][k] # "guard"
  /\ mem' = [mem EXCEPT ![p][k] = v]

Resize(p, n) ==
  /\ Exists(p)
  /\ mem' = [mem EXCEPT ![p] = [k \in 0..n - 1 |-> IF k \in DOMAIN @ THEN @[k] ELSE "zero"]]

Fork(p, q) == Exists(p) /\ ~Exists(q) /\ mem' = [mem EXCEPT ![q] = mem[p]]
Exec(p, i) == Exists(p) /\ mem' = [mem EXCEPT ![p] = i]
Exit(p) == Exists(p) /\ mem' = [mem EXCEPT ![p] = NoMem]

Next == \E p \in Procs :
  \/ \E k \in DOMAIN mem[p], v \in Vals : Write(p, k, v)
  \/ \E n \in Sizes : Resize(p, n)
  \/ \E q \in Procs : Fork(p, q)
  \/ \E i \in Images : Exec(p, i)
  \/ Exit(p)

Spec == Init /\ [][Next]_mem
=============================================================================
