-------------------------------- MODULE MCVm --------------------------------
(* Two processes and the smallest memory in which fork and exec succeed. *)
EXTENDS Vm

(* A program of one page, and one of two segments with a page of bss. *)
MCImages == {<<[vaddr |-> 0, memsz |-> 2, filesz |-> 1]>>,
             <<[vaddr |-> 0, memsz |-> 1, filesz |-> 1], [vaddr |-> 1, memsz |-> 3, filesz |-> 2]>>}
MCIncrements == {[up |-> TRUE, n |-> 1], [up |-> TRUE, n |-> 6], [up |-> FALSE, n |-> 1], [up |-> FALSE, n |-> 3]}
=============================================================================
