----------------------------- MODULE AtomicDisk -----------------------------
(***************************************************************************)
(* What the logging system promises to the file system (the head comment   *)
(* of kernel/log.c): FS system calls run inside operations, the effects of *)
(* a group of operations reach the disk all at once, only when no          *)
(* operation of the group is still running, and a crash brings back the    *)
(* state of the last group that reached it.                                *)
(***************************************************************************)
CONSTANTS Procs,   \* processes that run FS system calls
          Blocks,  \* home blocks of the file system
          Val,     \* contents of a block
          InitVal  \* contents written by mkfs

VARIABLES durable,  \* contents of every block that survive a crash
          current,  \* contents of every block as FS code sees them
          active    \* processes between begin_op and end_op

vars == <<durable, current, active>>

Init ==
  /\ durable = [b \in Blocks |-> InitVal]
  /\ current = durable
  /\ active = {}

Begin(p) ==
  /\ p \notin active
  /\ active' = active \cup {p}
  /\ UNCHANGED <<durable, current>>

Write(p, b, v) ==
  /\ p \in active
  /\ current' = [current EXCEPT ![b] = v]
  /\ UNCHANGED <<durable, active>>

End(p) ==
  /\ p \in active
  /\ active' = active \ {p}
  /\ UNCHANGED <<durable, current>>

Commit ==
  /\ active = {}
  /\ durable' = current
  /\ UNCHANGED <<current, active>>

Crash ==
  /\ current' = durable
  /\ active' = {}
  /\ UNCHANGED durable

Next ==
  \/ \E p \in Procs : Begin(p) \/ End(p)
  \/ \E p \in Procs, b \in Blocks, v \in Val : Write(p, b, v)
  \/ Commit
  \/ Crash

Spec == Init /\ [][Next]_vars
=============================================================================
