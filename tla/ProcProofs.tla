----------------------------- MODULE ProcProofs -----------------------------
(***************************************************************************)
(* Proc for any number of CPUs and any size of the process table: the      *)
(* invariant ProcInv, kept by scheduler(), fork, yield, kill, exit and     *)
(* wait, and what follows from it.                                         *)
(***************************************************************************)
EXTENDS Proc, TLAPS

States == {"UNUSED", "USED", "RUNNABLE", "RUNNING", "SLEEPING", "ZOMBIE"}
Labels == {"user", "fork_parent", "fork_run", "exit", "exit_reparent", "exit_zombie",
           "wait", "wait_scan", "wait_sleep"}

ProcTypes ==
  /\ state \in [Slots -> States] /\ parent \in [Slots -> Slots \cup {None}]
  /\ pid \in [Slots -> Nat] /\ nextpid \in Nat
  /\ killed \in [Slots -> {0, 1}] /\ chan \in [Slots -> Slots \cup {None}]
  /\ lock \in [Slots -> Cpus \cup {"free"}] /\ wait_lock \in Cpus \cup {"free"}
  /\ on \in [Cpus -> Slots \cup {None}] /\ cpuproc \in [Cpus -> Slots \cup {None}]
  /\ pc \in [Slots -> Labels] /\ run \in [Slots -> {"running", "swtch", "off", "resume"}]
  /\ child \in [Slots -> Slots \cup {None}]

(* A CPU runs on the stack of the process in c->proc or on its own, and    *)
(* no two have the same one.                                               *)
CpuExact ==
  /\ \A c \in Cpus : on[c] = None \/ (on[c] = cpuproc[c] /\ run[on[c]] # "off")
  /\ \A c \in Cpus : on[c] = None /\ cpuproc[c] # None => run[cpuproc[c]] = "off"
  /\ \A c, d \in Cpus : c # d /\ cpuproc[c] # None => cpuproc[d] # cpuproc[c]
  /\ \A s \in Slots : run[s] # "off" => \E c \in Cpus : on[c] = s

(* p->lock is held exactly by a CPU that gives the process up or takes it  *)
(* over, and only in the meantime is a process not RUNNING on a CPU.       *)
HeldBy(s, c) == cpuproc[c] = s /\ (on[c] = None \/ run[s] \in {"swtch", "resume"})
LockExact ==
  /\ \A s \in Slots, c \in Cpus : lock[s] = c <=> HeldBy(s, c)
  /\ \A s \in Slots : state[s] = "RUNNING" <=> run[s] \in {"running", "resume"}
  /\ \A c \in Cpus : cpuproc[c] # None => state[cpuproc[c]] \notin {"UNUSED", "USED"}

(* wait_lock is held exactly by a CPU whose process is at one of these     *)
(* labels; a dead process keeps the last of them.                          *)
Waiters == {"exit_reparent", "exit_zombie", "wait_scan", "wait_sleep"}
WaitLockExact ==
  /\ wait_lock # "free" =>
       on[wait_lock] # None /\ run[on[wait_lock]] = "running" /\ pc[on[wait_lock]] \in Waiters
  /\ \A c \in Cpus :
       on[c] # None /\ run[on[c]] = "running" /\ pc[on[c]] \in Waiters => wait_lock = c
  /\ \A s \in Slots : pc[s] \in Waiters =>
       run[s] = "running" \/ (pc[s] = "exit_zombie" /\ state[s] \in {"ZOMBIE", "UNUSED"})

(* Where the processes are that do not run. *)
StateExact == \A s \in Slots :
  /\ state[s] = "ZOMBIE" => pc[s] = "exit_zombie"
  /\ state[s] = "UNUSED" => pc[s] \in {"user", "exit_zombie"} /\ parent[s] = None
  /\ state[s] = "USED" => pc[s] = "user"
  /\ state[s] = "SLEEPING" => chan[s] = s

(* A process that fork has not finished belongs to one parent. *)
Forking == {"fork_parent", "fork_run"}
ForkExact ==
  /\ \A s \in Slots : pc[s] \in Forking =>
       /\ child[s] \in Slots /\ state[child[s]] = "USED"
       /\ parent[child[s]] = IF pc[s] = "fork_run" THEN s ELSE None
  /\ \A s, t \in Slots : s # t /\ pc[s] \in Forking /\ pc[t] \in Forking => child[s] # child[t]

(* Who is past reparent has no children, and initproc is never there. *)
Exiting == {"exit", "exit_reparent", "exit_zombie"}
ParentExact ==
  /\ \A s \in Slots : pc[s] = "exit_zombie" => \A t \in Slots : parent[t] # s
  /\ pc[initproc] \notin Exiting
  /\ state[initproc] \notin {"UNUSED", "USED", "ZOMBIE"}

(* Who is about to sleep has a child that lives, and the parent of a       *)
(* process that is about to be a zombie is awake.                          *)
SleepExact ==
  /\ \A s \in Slots : pc[s] = "wait_sleep" =>
       Children(s) # {} /\ \A t \in Slots : parent[t] = s => state[t] # "ZOMBIE"
  /\ \A t \in Slots : pc[t] = "exit_zombie" /\ parent[t] # None => state[parent[t]] # "SLEEPING"

TableInv ==
  /\ StateExact /\ ForkExact /\ ParentExact /\ SleepExact
  /\ PidsExact /\ ParentAlive /\ NoMissedExit

ProcInv == ProcTypes /\ CpuExact /\ LockExact /\ WaitLockExact /\ TableInv

-----------------------------------------------------------------------------
(* What a running process and its CPU know of each other and of the locks. *)
LEMMA RunningFacts ==
  ASSUME ProcInv, NEW c \in Cpus, NEW s \in Slots, on[c] = s, run[s] = "running"
  PROVE  /\ state[s] = "RUNNING" /\ cpuproc[c] = s /\ lock[s] = "free"
         /\ \A d \in Cpus : d # c => on[d] # s /\ cpuproc[d] # s
         /\ \A t \in Slots : lock[t] # c
         /\ wait_lock = c <=> pc[s] \in Waiters
<1> USE DEF ProcInv, ProcTypes, None, Slots
<1>1. state[s] = "RUNNING" /\ cpuproc[c] = s BY DEF CpuExact, LockExact
<1>2. \A d \in Cpus : d # c => on[d] # s /\ cpuproc[d] # s BY <1>1 DEF CpuExact
<1>3. \A t \in Slots : lock[t] # c BY <1>1 DEF LockExact, HeldBy
<1>4. lock[s] = "free"
  <2>1. \A d \in Cpus : lock[s] # d BY <1>2 DEF LockExact, HeldBy
  <2> QED BY <2>1, Zenon
<1>5. wait_lock = c <=> pc[s] \in Waiters BY ProcAssumption DEF WaitLockExact
<1> QED BY <1>1, <1>2, <1>3, <1>4, <1>5, Zenon

(* Two processes that live are not both past the acquire of wait_lock. *)
LEMMA OneWaiter ==
  ASSUME ProcInv, NEW c \in Cpus, NEW s \in Slots,
         on[c] = s, run[s] = "running", pc[s] \in Waiters
  PROVE  \A q \in Slots : q # s /\ pc[q] \in Waiters =>
           pc[q] = "exit_zombie" /\ state[q] \in {"ZOMBIE", "UNUSED"}
<1>1. wait_lock = c BY RunningFacts, Zenon
<1>2. ASSUME NEW q \in Slots, q # s, pc[q] \in Waiters, run[q] = "running" PROVE FALSE
  <2>1. PICK d \in Cpus : on[d] = q BY <1>2, Zenon DEF ProcInv, CpuExact
  <2>2. wait_lock = d BY <1>2, <2>1 DEF ProcInv, WaitLockExact, Slots, None
  <2> QED BY <1>1, <1>2, <2>1, <2>2, Zenon
<1> QED BY <1>2, Zenon DEF ProcInv, WaitLockExact

Awake == {"RUNNABLE", "RUNNING"}

(* Whatever leaves parents, pids and program counters alone and only wakes *)
(* processes or switches between them keeps the table right.               *)
LEMMA TableKept ==
  ASSUME ProcTypes, TableInv,
         \A u \in Slots : state'[u] = state[u] \/
           (state[u] \in Awake \cup {"SLEEPING"} /\ state'[u] \in Awake),
         \A u \in Slots : state'[u] = "SLEEPING" => chan'[u] = chan[u],
         UNCHANGED <<parent, pid, nextpid, pc, child>>
  PROVE  TableInv'
<1> USE DEF ProcTypes, TableInv, Awake
<1>0. initproc \in Slots BY ProcAssumption DEF initproc, Slots
<1>1. StateExact' BY DEF StateExact
<1>2. ForkExact' BY DEF ForkExact
<1>3. ParentExact' BY <1>0 DEF ParentExact
<1>4. SleepExact' BY DEF SleepExact, Children
<1>5. PidsExact' BY DEF PidsExact, Live
<1>6. ParentAlive' BY DEF ParentAlive, Live
<1>7. NoMissedExit' BY DEF NoMissedExit, Children
<1> QED BY <1>1, <1>2, <1>3, <1>4, <1>5, <1>6, <1>7, Zenon

(* Whatever leaves the CPUs and the locks alone and makes no process start *)
(* or stop to be RUNNING keeps them right.                                 *)
LEMMA CpusKept ==
  ASSUME ProcTypes, CpuExact, LockExact,
         \A u \in Slots : state'[u] = "RUNNING" <=> state[u] = "RUNNING",
         \A u \in Slots : state'[u] \in {"UNUSED", "USED"} =>
           state[u] \in {"UNUSED", "USED"} \/ \A d \in Cpus : cpuproc[d] # u,
         UNCHANGED <<lock, on, cpuproc, run>>
  PROVE  CpuExact' /\ LockExact'
<1>1. CpuExact' BY Zenon DEF CpuExact
<1>2. LockExact' BY DEF ProcTypes, LockExact, HeldBy
<1> QED BY <1>1, <1>2, Zenon

(* swtch: the CPU leaves the stack and keeps the lock. *)
LEMMA StepSwtch ==
  ASSUME ProcInv, NEW c \in Cpus, swtch(c)
  PROVE  ProcInv'
<1>i. /\ ProcTypes /\ CpuExact /\ LockExact /\ WaitLockExact /\ TableInv
  BY Zenon DEF ProcInv
<1>0. None \notin Slots /\ "free" \notin Cpus BY ProcAssumption DEF None, Slots
<1>1. PICK s \in Slots :
        /\ on[c] = s /\ run[s] = "swtch"
        /\ on' = [on EXCEPT ![c] = None] /\ run' = [run EXCEPT ![s] = "off"]
        /\ UNCHANGED <<state, parent, pid, killed, chan, nextpid, lock, wait_lock,
                       cpuproc, pc, child>>
  BY Zenon DEF swtch, table
<1>11. ProcTypes'
  BY <1>1, <1>i, Zenon DEF ProcTypes
<1>12. CpuExact'
  BY <1>1, <1>i DEF ProcTypes, CpuExact
<1>13. LockExact'
  <2>1. ASSUME NEW u \in Slots, NEW d \in Cpus PROVE lock'[u] = d <=> HeldBy(u, d)'
    BY <1>1, <1>i DEF ProcTypes, CpuExact, LockExact, HeldBy
  <2>2. \A u \in Slots : state'[u] = "RUNNING" <=> run'[u] \in {"running", "resume"}
    BY <1>1, <1>i DEF LockExact
  <2>3. \A d \in Cpus : cpuproc'[d] # None => state'[cpuproc'[d]] \notin {"UNUSED", "USED"}
    BY <1>1, <1>i, Zenon DEF LockExact
  <2> QED BY <2>1, <2>2, <2>3, Zenon DEF LockExact
<1>14. WaitLockExact'
  BY <1>1, <1>i DEF WaitLockExact
<1>15. TableInv'
  BY <1>1, <1>i, TableKept, Zenon
<1> QED BY <1>11, <1>12, <1>13, <1>14, <1>15, Zenon DEF ProcInv

(* scheduler() releases the lock of the process that was given up. *)
LEMMA StepRelease ==
  ASSUME ProcInv, NEW c \in Cpus, sched_release(c)
  PROVE  ProcInv'
<1>i. /\ ProcTypes /\ CpuExact /\ LockExact /\ WaitLockExact /\ TableInv
  BY Zenon DEF ProcInv
<1>0. None \notin Slots /\ "free" \notin Cpus BY ProcAssumption DEF None, Slots
<1>1. PICK s \in Slots :
        /\ on[c] = None /\ cpuproc[c] = s
        /\ cpuproc' = [cpuproc EXCEPT ![c] = None] /\ lock' = [lock EXCEPT ![s] = "free"]
        /\ UNCHANGED <<state, parent, pid, killed, chan, nextpid, wait_lock, on, pc, run, child>>
  BY Zenon DEF sched_release, table
<1>11. ProcTypes'
  BY <1>1, <1>i, Zenon DEF ProcTypes
<1>12. CpuExact'
  BY <1>1, <1>i DEF CpuExact
<1>13. LockExact'
  <2>1. ASSUME NEW u \in Slots, NEW d \in Cpus PROVE lock'[u] = d <=> HeldBy(u, d)'
    BY <1>0, <1>1, <1>i DEF ProcTypes, LockExact, HeldBy
  <2>2. \A u \in Slots : state'[u] = "RUNNING" <=> run'[u] \in {"running", "resume"}
    BY <1>1, <1>i, Zenon DEF LockExact
  <2>3. \A d \in Cpus : cpuproc'[d] # None => state'[cpuproc'[d]] \notin {"UNUSED", "USED"}
    BY <1>1, <1>i DEF LockExact
  <2> QED BY <2>1, <2>2, <2>3, Zenon DEF LockExact
<1>14. WaitLockExact'
  BY <1>1, <1>i, Zenon DEF WaitLockExact
<1>15. TableInv'
  BY <1>1, <1>i, TableKept, Zenon
<1> QED BY <1>11, <1>12, <1>13, <1>14, <1>15, Zenon DEF ProcInv

(* scheduler() passes the lock of a RUNNABLE process on to it. *)
LEMMA StepDispatch ==
  ASSUME ProcInv, NEW c \in Cpus, NEW s \in Slots, dispatch(c, s)
  PROVE  ProcInv'
<1>i. /\ ProcTypes /\ CpuExact /\ LockExact /\ WaitLockExact /\ TableInv
  BY Zenon DEF ProcInv
<1>0. None \notin Slots /\ "free" \notin Cpus BY ProcAssumption DEF None, Slots
<1>1. /\ on[c] = None /\ cpuproc[c] = None /\ lock[s] = "free" /\ state[s] = "RUNNABLE"
      /\ lock' = [lock EXCEPT ![s] = c] /\ state' = [state EXCEPT ![s] = "RUNNING"]
      /\ cpuproc' = [cpuproc EXCEPT ![c] = s] /\ on' = [on EXCEPT ![c] = s]
      /\ run' = [run EXCEPT ![s] = "resume"]
      /\ UNCHANGED <<parent, pid, killed, chan, nextpid, wait_lock, pc, child>>
  BY Zenon DEF dispatch
<1>11. ProcTypes'
  BY <1>1, <1>i, Zenon DEF ProcTypes, States
<1>12. CpuExact'
  BY <1>0, <1>1, <1>i DEF ProcTypes, CpuExact, LockExact, HeldBy
<1>13. LockExact'
  <2>1. ASSUME NEW u \in Slots, NEW d \in Cpus PROVE lock'[u] = d <=> HeldBy(u, d)'
    BY <1>0, <1>1, <1>i DEF ProcTypes, CpuExact, LockExact, HeldBy
  <2>2. \A u \in Slots : state'[u] = "RUNNING" <=> run'[u] \in {"running", "resume"}
    BY <1>1, <1>i, Zenon DEF ProcTypes, LockExact
  <2>3. \A d \in Cpus : cpuproc'[d] # None => state'[cpuproc'[d]] \notin {"UNUSED", "USED"}
    BY <1>1, <1>i DEF LockExact
  <2> QED BY <2>1, <2>2, <2>3, Zenon DEF LockExact
<1>14. WaitLockExact'
  BY <1>1, <1>i DEF LockExact, WaitLockExact
<1>15. TableInv'
  <2>1. \A u \in Slots : state'[u] = state[u] \/
          (state[u] \in Awake \cup {"SLEEPING"} /\ state'[u] \in Awake)
    BY <1>1 DEF Awake
  <2> QED BY <2>1, <1>1, <1>i, TableKept, Zenon
<1> QED BY <1>11, <1>12, <1>13, <1>14, <1>15, Zenon DEF ProcInv

(* The process is back and releases its lock. *)
LEMMA StepResume ==
  ASSUME ProcInv, NEW c \in Cpus, resume(c)
  PROVE  ProcInv'
<1>i. /\ ProcTypes /\ CpuExact /\ LockExact /\ WaitLockExact /\ TableInv
  BY Zenon DEF ProcInv
<1>0. None \notin Slots /\ "free" \notin Cpus BY ProcAssumption DEF None, Slots
<1>1. PICK s \in Slots :
        /\ on[c] = s /\ run[s] = "resume"
        /\ run' = [run EXCEPT ![s] = "running"] /\ chan' = [chan EXCEPT ![s] = None]
        /\ lock' = [lock EXCEPT ![s] = "free"]
        /\ UNCHANGED <<state, parent, pid, killed, nextpid, wait_lock, on, cpuproc, pc, child>>
  BY Zenon DEF resume, cpus
<1>11. ProcTypes'
  BY <1>1, <1>i, Zenon DEF ProcTypes
<1>12. CpuExact'
  BY <1>1, <1>i DEF CpuExact
<1>13. LockExact'
  <2>1. ASSUME NEW u \in Slots, NEW d \in Cpus PROVE lock'[u] = d <=> HeldBy(u, d)'
    BY <1>0, <1>1, <1>i DEF ProcTypes, CpuExact, LockExact, HeldBy
  <2>2. \A u \in Slots : state'[u] = "RUNNING" <=> run'[u] \in {"running", "resume"}
    BY <1>1, <1>i DEF LockExact
  <2>3. \A d \in Cpus : cpuproc'[d] # None => state'[cpuproc'[d]] \notin {"UNUSED", "USED"}
    BY <1>1, <1>i, Zenon DEF LockExact
  <2> QED BY <2>1, <2>2, <2>3, Zenon DEF LockExact
<1>14. WaitLockExact'
  BY <1>1, <1>i DEF LockExact, WaitLockExact
<1>15. TableInv'
  <2>1. \A u \in Slots : state'[u] = "SLEEPING" => chan'[u] = chan[u]
    BY <1>1, <1>i DEF LockExact
  <2> QED BY <2>1, <1>1, <1>i, TableKept, Zenon
<1> QED BY <1>11, <1>12, <1>13, <1>14, <1>15, Zenon DEF ProcInv

(* A running process goes from one label to another, and takes or gives up *)
(* wait_lock on the way; the table and the CPUs stay.                      *)
LEMMA StepPc ==
  ASSUME ProcInv, NEW c \in Cpus, NEW s \in Slots, NEW m \in Labels,
         on[c] = s, run[s] = "running",
         pc[s] \notin Forking \cup {"exit_zombie"}, m \notin Forking \cup {"exit_zombie"},
         m \in Exiting => s # initproc,
         m \in Waiters => wait_lock \in {c, "free"} /\ wait_lock' = c,
         m \notin Waiters => wait_lock' = IF wait_lock = c THEN "free" ELSE wait_lock,
         m = "wait_sleep" =>
           Children(s) # {} /\ \A t \in Slots : parent[t] = s => state[t] # "ZOMBIE",
         Goto(s, m), UNCHANGED <<table, lock, cpus, run, child>>
  PROVE  ProcInv'
<1>i. /\ ProcTypes /\ CpuExact /\ LockExact /\ WaitLockExact /\ StateExact
      /\ ForkExact /\ ParentExact /\ SleepExact /\ PidsExact /\ ParentAlive /\ NoMissedExit
  BY Zenon DEF ProcInv, TableInv
<1>0. None \notin Slots /\ "free" \notin Cpus BY ProcAssumption DEF None, Slots
<1>1. /\ on[c] = s /\ run[s] = "running"
      /\ pc' = [pc EXCEPT ![s] = m]
      /\ UNCHANGED <<state, parent, pid, killed, chan, nextpid, lock, on, cpuproc, run, child>>
  BY Zenon DEF Goto, table, cpus
<1>2. /\ state[s] = "RUNNING" /\ cpuproc[c] = s /\ lock[s] = "free"
      /\ \A d \in Cpus : d # c => on[d] # s /\ cpuproc[d] # s
      /\ \A t \in Slots : lock[t] # c
      /\ wait_lock = c <=> pc[s] \in Waiters
  BY <1>1, RunningFacts, Zenon
<1>11. ProcTypes'
  BY <1>1, <1>i, Zenon DEF ProcTypes
<1>12. CpuExact' /\ LockExact'
  BY <1>1, <1>i, CpusKept, Zenon
<1>14. WaitLockExact'
  BY <1>0, <1>1, <1>2, <1>i DEF ProcTypes, WaitLockExact
<1>15. StateExact'
  BY <1>1, <1>2, <1>i DEF StateExact
<1>16. ForkExact'
  BY <1>1, <1>i DEF ForkExact
<1>17. ParentExact'
  BY <1>1, <1>i DEF ParentExact
<1>18. SleepExact'
  BY <1>1, <1>i DEF SleepExact, Children
<1>19. PidsExact'
  BY <1>1, <1>i, Zenon DEF PidsExact, Live
<1>20. ParentAlive'
  BY <1>1, <1>i, Zenon DEF ParentAlive, Live
<1>21. NoMissedExit'
  BY <1>1, <1>i, Zenon DEF NoMissedExit, Children
<1> QED
  BY <1>11, <1>12, <1>14, <1>15, <1>16, <1>17, <1>18, <1>19, <1>20, <1>21, Zenon DEF ProcInv,
     TableInv

(* yield: the process stays RUNNABLE and gives up its CPU. *)
LEMMA StepYield ==
  ASSUME ProcInv, NEW c \in Cpus, yield(c)
  PROVE  ProcInv'
<1>i. /\ ProcTypes /\ CpuExact /\ LockExact /\ WaitLockExact /\ TableInv
  BY Zenon DEF ProcInv
<1>0. None \notin Slots /\ "free" \notin Cpus BY ProcAssumption DEF None, Slots
<1>1. PICK s \in Slots :
        /\ on[c] = s /\ run[s] = "running" /\ wait_lock # c
        /\ lock' = [lock EXCEPT ![s] = c] /\ state' = [state EXCEPT ![s] = "RUNNABLE"]
        /\ run' = [run EXCEPT ![s] = "swtch"]
        /\ UNCHANGED <<parent, pid, killed, chan, nextpid, wait_lock, on, cpuproc, pc, child>>
  BY Zenon DEF yield, sched, Runs, cpus
<1>2. /\ state[s] = "RUNNING" /\ cpuproc[c] = s /\ lock[s] = "free"
      /\ \A d \in Cpus : d # c => on[d] # s /\ cpuproc[d] # s
      /\ \A t \in Slots : lock[t] # c
      /\ wait_lock = c <=> pc[s] \in Waiters
  BY <1>1, RunningFacts
<1>11. ProcTypes'
  BY <1>1, <1>i, Zenon DEF ProcTypes, States
<1>12. CpuExact'
  BY <1>1, <1>i DEF CpuExact
<1>13. LockExact'
  <2>1. ASSUME NEW u \in Slots, NEW d \in Cpus PROVE lock'[u] = d <=> HeldBy(u, d)'
    BY <1>1, <1>2, <1>i DEF ProcTypes, LockExact, HeldBy
  <2>2. \A u \in Slots : state'[u] = "RUNNING" <=> run'[u] \in {"running", "resume"}
    BY <1>1, <1>i, Zenon DEF ProcTypes, LockExact
  <2>3. \A d \in Cpus : cpuproc'[d] # None => state'[cpuproc'[d]] \notin {"UNUSED", "USED"}
    BY <1>1, <1>i DEF LockExact
  <2> QED BY <2>1, <2>2, <2>3, Zenon DEF LockExact
<1>14. WaitLockExact'
  BY <1>1, <1>2, <1>i DEF WaitLockExact
<1>15. TableInv'
  <2>1. \A u \in Slots : state'[u] = state[u] \/
          (state[u] \in Awake \cup {"SLEEPING"} /\ state'[u] \in Awake)
    BY <1>1, <1>2 DEF Awake
  <2> QED BY <2>1, <1>1, <1>i, TableKept, Zenon
<1> QED BY <1>11, <1>12, <1>13, <1>14, <1>15, Zenon DEF ProcInv

(* fork takes an unused slot; nobody else is at work on it. *)
LEMMA StepFork ==
  ASSUME ProcInv, NEW c \in Cpus, NEW np \in Slots, fork(c, np)
  PROVE  ProcInv'
<1>i. /\ ProcTypes /\ CpuExact /\ LockExact /\ WaitLockExact /\ StateExact
      /\ ForkExact /\ ParentExact /\ SleepExact /\ PidsExact /\ ParentAlive /\ NoMissedExit
  BY Zenon DEF ProcInv, TableInv
<1>0. None \notin Slots /\ "free" \notin Cpus BY ProcAssumption DEF None, Slots
<1>1. PICK s \in Slots :
        /\ on[c] = s /\ run[s] = "running" /\ pc[s] = "user"
        /\ lock[np] = "free" /\ state[np] = "UNUSED"
        /\ pid' = [pid EXCEPT ![np] = nextpid] /\ nextpid' = nextpid + 1
        /\ state' = [state EXCEPT ![np] = "USED"] /\ child' = [child EXCEPT ![s] = np]
        /\ pc' = [pc EXCEPT ![s] = "fork_parent", ![np] = "user"]
        /\ UNCHANGED <<parent, killed, chan, lock, wait_lock, on, cpuproc, run>>
  BY Zenon DEF fork, Syscall, At, Runs, cpus
<1>2. /\ state[s] = "RUNNING" /\ cpuproc[c] = s /\ lock[s] = "free"
      /\ \A d \in Cpus : d # c => on[d] # s /\ cpuproc[d] # s
      /\ \A t \in Slots : lock[t] # c
      /\ wait_lock = c <=> pc[s] \in Waiters
  BY <1>1, RunningFacts
<1>3. np # s /\ pc'[s] = "fork_parent" /\ pc'[np] = "user"
      /\ \A t \in Slots : t # s /\ t # np => pc'[t] = pc[t]
  BY <1>1, <1>i DEF ProcTypes
<1>11. ProcTypes'
  <2>1. pid' \in [Slots -> Nat] /\ nextpid' \in Nat BY <1>1, <1>i DEF ProcTypes
  <2>2. state' \in [Slots -> States] /\ pc' \in [Slots -> Labels]
    BY <1>1, <1>i, Zenon DEF ProcTypes, States, Labels
  <2>3. child' \in [Slots -> Slots \cup {None}] BY <1>1, <1>i, Zenon DEF ProcTypes
  <2> QED BY <2>2, <2>3, <1>1, <1>i DEF ProcTypes
<1>12. CpuExact' /\ LockExact'
  <2>1. \A u \in Slots :
          /\ state'[u] = "RUNNING" <=> state[u] = "RUNNING"
          /\ state'[u] \in {"UNUSED", "USED"} => state[u] \in {"UNUSED", "USED"}
    BY <1>1, <1>i, Zenon DEF ProcTypes
  <2> QED BY <1>1, <1>i, CpusKept
<1>14. WaitLockExact'
  BY <1>1, <1>i DEF ProcTypes, LockExact, WaitLockExact, Waiters
<1>15. StateExact'
  BY <1>1, <1>2, <1>i, Zenon DEF ProcTypes, StateExact
<1>16. ForkExact'
  BY <1>1, <1>i DEF ProcTypes, ForkExact, StateExact, Forking
<1>17. ParentExact'
  <2>1. initproc \in Slots BY ProcAssumption DEF initproc, Slots
  <2>2. np # initproc BY <1>1, <1>i, Zenon DEF ParentExact
  <2>3. \A t \in Slots : pc'[t] \in Exiting => pc[t] = pc'[t] BY <1>3, Zenon DEF Exiting
  <2>4. pc'[initproc] \notin Exiting /\ state'[initproc] = state[initproc]
    BY <2>1, <2>3, <1>1, <1>i, Zenon DEF ParentExact, ProcTypes
  <2>5. \A t \in Slots : pc'[t] = "exit_zombie" => pc[t] = "exit_zombie" BY <2>3, Zenon DEF Exiting
  <2>6. parent' = parent BY <1>1, Zenon
  <2> QED BY <2>4, <2>5, <2>6, <1>i, Zenon DEF ParentExact
<1>18. SleepExact'
  BY <1>1, <1>i DEF ProcTypes, SleepExact, Children
<1>19. PidsExact'
  BY <1>1, <1>i DEF ProcTypes, PidsExact, Live
<1>20. ParentAlive'
  BY <1>1, <1>i DEF ParentAlive, Live
<1>21. NoMissedExit'
  BY <1>1, <1>i DEF NoMissedExit, Children
<1> QED
  BY <1>11, <1>12, <1>14, <1>15, <1>16, <1>17, <1>18, <1>19, <1>20, <1>21, Zenon DEF ProcInv,
     TableInv

(* fork that fails gives its slot back as it was. *)
LEMMA StepForkFail ==
  ASSUME ProcInv, NEW c \in Cpus, NEW np \in Slots, fork_fail(c, np)
  PROVE  ProcInv'
<1>i. /\ ProcTypes /\ CpuExact /\ LockExact /\ WaitLockExact /\ StateExact
      /\ ForkExact /\ ParentExact /\ SleepExact /\ PidsExact /\ ParentAlive /\ NoMissedExit
  BY Zenon DEF ProcInv, TableInv
<1>0. None \notin Slots /\ "free" \notin Cpus BY ProcAssumption DEF None, Slots
<1>1. /\ state[np] = "UNUSED" /\ nextpid' = nextpid + 1
      /\ state' = [state EXCEPT ![np] = "UNUSED"] /\ pid' = [pid EXCEPT ![np] = 0]
      /\ parent' = [parent EXCEPT ![np] = None] /\ chan' = [chan EXCEPT ![np] = None]
      /\ killed' = [killed EXCEPT ![np] = 0]
      /\ UNCHANGED <<lock, wait_lock, on, cpuproc, pc, run, child>>
  BY Zenon DEF fork_fail, freeproc, cpus
<1>2. state' = state /\ parent' = parent /\ pid' = pid
  BY <1>1, <1>i DEF ProcTypes, StateExact, PidsExact
<1>11. ProcTypes'
  BY <1>1, <1>i DEF ProcTypes
<1>12. CpuExact' /\ LockExact'
  BY <1>1, <1>i, CpusKept
<1>14. WaitLockExact'
  BY <1>1, <1>i DEF WaitLockExact
<1>15. StateExact'
  BY <1>1, <1>i DEF StateExact
<1>16. ForkExact'
  BY <1>1, <1>i DEF ForkExact
<1>17. ParentExact'
  BY <1>1, <1>2, <1>i DEF ParentExact
<1>18. SleepExact'
  BY <1>1, <1>2, <1>i DEF SleepExact, Children
<1>19. PidsExact'
  BY <1>1, <1>i DEF ProcTypes, PidsExact, Live
<1>20. ParentAlive'
  BY <1>2, <1>i, Zenon DEF ParentAlive, Live
<1>21. NoMissedExit'
  BY <1>2, <1>i, Zenon DEF NoMissedExit, Children
<1> QED
  BY <1>11, <1>12, <1>14, <1>15, <1>16, <1>17, <1>18, <1>19, <1>20, <1>21, Zenon DEF ProcInv,
     TableInv

(* fork sets the parent of the new process under wait_lock. *)
LEMMA StepForkParent ==
  ASSUME ProcInv, NEW c \in Cpus, fork_parent(c)
  PROVE  ProcInv'
<1>i. /\ ProcTypes /\ CpuExact /\ LockExact /\ WaitLockExact /\ StateExact
      /\ ForkExact /\ ParentExact /\ SleepExact /\ PidsExact /\ ParentAlive /\ NoMissedExit
  BY Zenon DEF ProcInv, TableInv
<1>0. None \notin Slots /\ "free" \notin Cpus BY ProcAssumption DEF None, Slots
<1>1. PICK s \in Slots :
        /\ on[c] = s /\ run[s] = "running" /\ pc[s] = "fork_parent" /\ wait_lock = "free"
        /\ parent' = [parent EXCEPT ![child[s]] = s] /\ pc' = [pc EXCEPT ![s] = "fork_run"]
        /\ UNCHANGED <<state, pid, killed, chan, nextpid, lock, wait_lock, on, cpuproc,
                       run, child>>
  BY Zenon DEF fork_parent, At, Runs, Goto, cpus
<1>2. /\ state[s] = "RUNNING" /\ cpuproc[c] = s /\ lock[s] = "free"
      /\ \A d \in Cpus : d # c => on[d] # s /\ cpuproc[d] # s
      /\ \A t \in Slots : lock[t] # c
      /\ wait_lock = c <=> pc[s] \in Waiters
  BY <1>1, RunningFacts
<1>3. /\ child[s] \in Slots /\ state[child[s]] = "USED"
      /\ parent[child[s]] = None /\ pc[child[s]] = "user"
  BY <1>1, <1>i, Zenon DEF ForkExact, Forking, StateExact
<1>11. ProcTypes'
  BY <1>1, <1>i, <1>3, Zenon DEF ProcTypes, Labels
<1>12. CpuExact' /\ LockExact'
  BY <1>1, <1>i, CpusKept, Zenon
<1>14. WaitLockExact'
  BY <1>1, <1>i DEF WaitLockExact, Waiters
<1>15. StateExact'
  BY <1>1, <1>i, <1>3 DEF StateExact
<1>16. ForkExact'
  BY <1>1, <1>i DEF ProcTypes, ForkExact, Forking
<1>17. ParentExact'
  BY <1>1, <1>i DEF ParentExact, Exiting
<1>18. SleepExact'
  BY <1>0, <1>1, <1>i, <1>3 DEF SleepExact, Children
<1>19. PidsExact'
  BY <1>1, <1>i, Zenon DEF PidsExact, Live
<1>20. ParentAlive'
  BY <1>1, <1>2, <1>i, <1>3 DEF ParentAlive, Live
<1>21. NoMissedExit'
  BY <1>0, <1>1, <1>i, <1>3 DEF NoMissedExit, Children
<1> QED
  BY <1>11, <1>12, <1>14, <1>15, <1>16, <1>17, <1>18, <1>19, <1>20, <1>21, Zenon DEF ProcInv,
     TableInv

(* fork makes the new process RUNNABLE, with a parent. *)
LEMMA StepForkRun ==
  ASSUME ProcInv, NEW c \in Cpus, fork_run(c)
  PROVE  ProcInv'
<1>i. /\ ProcTypes /\ CpuExact /\ LockExact /\ WaitLockExact /\ StateExact
      /\ ForkExact /\ ParentExact /\ SleepExact /\ PidsExact /\ ParentAlive /\ NoMissedExit
  BY Zenon DEF ProcInv, TableInv
<1>0. None \notin Slots /\ "free" \notin Cpus BY ProcAssumption DEF None, Slots
<1>1. PICK s \in Slots :
        /\ on[c] = s /\ run[s] = "running" /\ pc[s] = "fork_run" /\ lock[child[s]] = "free"
        /\ state' = [state EXCEPT ![child[s]] = "RUNNABLE"] /\ child' = [child EXCEPT ![s] = None]
        /\ pc' = [pc EXCEPT ![s] = "user"]
        /\ UNCHANGED <<parent, pid, killed, chan, nextpid, lock, wait_lock, on, cpuproc, run>>
  BY Zenon DEF fork_run, At, Runs, Goto, cpus
<1>2. /\ state[s] = "RUNNING" /\ cpuproc[c] = s /\ lock[s] = "free"
      /\ \A d \in Cpus : d # c => on[d] # s /\ cpuproc[d] # s
      /\ \A t \in Slots : lock[t] # c
      /\ wait_lock = c <=> pc[s] \in Waiters
  BY <1>1, RunningFacts
<1>3. /\ child[s] \in Slots /\ state[child[s]] = "USED"
      /\ parent[child[s]] = s /\ pc[child[s]] = "user"
  BY <1>1, <1>i, Zenon DEF ForkExact, Forking, StateExact
<1>11. ProcTypes'
  <2>1. state' \in [Slots -> States] BY <1>1, <1>i, Zenon DEF ProcTypes, States
  <2>2. pc' \in [Slots -> Labels] BY <1>1, <1>i, Zenon DEF ProcTypes, Labels
  <2>3. child' \in [Slots -> Slots \cup {None}] BY <1>1, <1>i, Zenon DEF ProcTypes
  <2> QED BY <2>1, <2>2, <1>1, <1>i, Zenon DEF ProcTypes
<1>12. CpuExact' /\ LockExact'
  <2>1. \A u \in Slots :
          /\ state'[u] = "RUNNING" <=> state[u] = "RUNNING"
          /\ state'[u] \in {"UNUSED", "USED"} => state[u] \in {"UNUSED", "USED"}
    BY <1>1, <1>3
  <2> QED BY <2>1, <1>1, <1>i, CpusKept, Zenon
<1>14. WaitLockExact'
  BY <1>1, <1>i, <1>3 DEF WaitLockExact, Waiters
<1>15. StateExact'
  BY <1>1, <1>i DEF StateExact
<1>16. ForkExact'
  <2>1. \A q \in Slots : pc'[q] \in Forking => q # s /\ pc'[q] = pc[q] /\ child'[q] = child[q]
    BY <1>1, <1>i, Zenon DEF ProcTypes, Forking
  <2>2. \A q \in Slots : q # s /\ pc[q] \in Forking => child[q] # child[s]
    BY <1>1, <1>i, Zenon DEF ForkExact, Forking
  <2> QED BY <2>1, <2>2, <1>1, <1>i DEF ForkExact
<1>17. ParentExact'
  BY <1>1, <1>i DEF ParentExact, Exiting
<1>18. SleepExact'
  BY <1>1, <1>i DEF SleepExact, Children
<1>19. PidsExact'
  BY <1>1, <1>i, <1>3 DEF PidsExact, Live
<1>20. ParentAlive'
  BY <1>0, <1>1, <1>i, <1>3 DEF ParentAlive, Live
<1>21. NoMissedExit'
  BY <1>1, <1>i DEF NoMissedExit, Children
<1> QED
  BY <1>11, <1>12, <1>14, <1>15, <1>16, <1>17, <1>18, <1>19, <1>20, <1>21, Zenon DEF ProcInv,
     TableInv

(* kill wakes a sleeper. *)
LEMMA StepKill ==
  ASSUME ProcInv, NEW c \in Cpus, NEW x \in KillPids, kill(c, x)
  PROVE  ProcInv'
<1>i. /\ ProcTypes /\ CpuExact /\ LockExact /\ WaitLockExact /\ TableInv
  BY Zenon DEF ProcInv
<1>0. None \notin Slots /\ "free" \notin Cpus BY ProcAssumption DEF None, Slots
<1>1. PICK z \in Slots :
        /\ lock[z] = "free" /\ killed' = [killed EXCEPT ![z] = 1]
        /\ state' = [state EXCEPT ![z] = IF @ = "SLEEPING" THEN "RUNNABLE" ELSE @]
        /\ UNCHANGED <<parent, pid, chan, nextpid, lock, wait_lock, on, cpuproc, pc, run, child>>
  BY Zenon DEF kill, Victims, cpus
<1>11. ProcTypes'
  <2>1. state' \in [Slots -> States] BY <1>1, <1>i, Zenon DEF ProcTypes, States
  <2>2. killed' \in [Slots -> {0, 1}] BY <1>1, <1>i, Zenon DEF ProcTypes
  <2> QED BY <2>1, <1>1, <1>i, Zenon DEF ProcTypes
<1>12. CpuExact' /\ LockExact'
  <2>1. \A u \in Slots :
          /\ state'[u] = "RUNNING" <=> state[u] = "RUNNING"
          /\ state'[u] \in {"UNUSED", "USED"} => state[u] \in {"UNUSED", "USED"}
    BY <1>1, <1>i, Zenon DEF ProcTypes
  <2> QED BY <1>1, <1>i, CpusKept
<1>14. WaitLockExact'
  BY <1>1, <1>i DEF WaitLockExact
<1>15. TableInv'
  <2>1. \A u \in Slots : state'[u] = state[u] \/
          (state[u] \in Awake \cup {"SLEEPING"} /\ state'[u] \in Awake)
    BY <1>1 DEF Awake
  <2> QED BY <2>1, <1>1, <1>i, TableKept, Zenon
<1> QED BY <1>11, <1>12, <1>14, <1>15, Zenon DEF ProcInv

-----------------------------------------------------------------------------
(* The invariant of the process table holds at boot, with initproc alone,  *)
(* No process is on two kernel stacks and sched() never panics, on any     *)
(* number of CPUs: p->lock is kept across swtch by the CPU that gives the  *)
(* No parent sleeps in wait() while a child of it is a zombie: exit wakes  *)
(* the parent and becomes a zombie within one wait_lock section, and wait  *)

-----------------------------------------------------------------------------

(* The end of exit: a zombie without children, whose parent is awake. *)
LEMMA StepZombie ==
  ASSUME ProcInv, NEW c \in Cpus, exit_zombie(c)
  PROVE  ProcInv'
<1>i. /\ ProcTypes /\ CpuExact /\ LockExact /\ WaitLockExact /\ StateExact
      /\ ForkExact /\ ParentExact /\ SleepExact /\ PidsExact /\ ParentAlive /\ NoMissedExit
  BY Zenon DEF ProcInv, TableInv
<1>0. None \notin Slots /\ "free" \notin Cpus BY ProcAssumption DEF None, Slots
<1>1. PICK s \in Slots :
        /\ on[c] = s /\ run[s] = "running" /\ pc[s] = "exit_zombie"
        /\ lock' = [lock EXCEPT ![s] = c] /\ state' = [state EXCEPT ![s] = "ZOMBIE"]
        /\ run' = [run EXCEPT ![s] = "swtch"]
        /\ wait_lock' = "free"
        /\ UNCHANGED <<parent, pid, killed, chan, nextpid, on, cpuproc, pc, child>>
  BY Zenon DEF exit_zombie, sched, Runs, At, cpus
<1>2. /\ state[s] = "RUNNING" /\ cpuproc[c] = s /\ lock[s] = "free"
      /\ \A d \in Cpus : d # c => on[d] # s /\ cpuproc[d] # s
      /\ \A t \in Slots : lock[t] # c
      /\ wait_lock = c <=> pc[s] \in Waiters
  BY <1>1, RunningFacts
<1>3. \A q \in Slots : q # s /\ pc[q] \in Waiters =>
        pc[q] = "exit_zombie" /\ state[q] \in {"ZOMBIE", "UNUSED"}
  <2>1. pc[s] \in Waiters BY <1>1, Zenon DEF Waiters
  <2> QED BY <2>1, <1>1, OneWaiter, Zenon
<1>11. ProcTypes'
  BY <1>1, <1>i, Zenon DEF ProcTypes, States
<1>12. CpuExact'
  BY <1>1, <1>i DEF CpuExact
<1>13. LockExact'
  <2>1. ASSUME NEW u \in Slots, NEW d \in Cpus PROVE lock'[u] = d <=> HeldBy(u, d)'
    BY <1>1, <1>2, <1>i DEF ProcTypes, LockExact, HeldBy
  <2>2. \A u \in Slots : state'[u] = "RUNNING" <=> run'[u] \in {"running", "resume"}
    BY <1>1, <1>i, Zenon DEF ProcTypes, LockExact
  <2>3. \A d \in Cpus : cpuproc'[d] # None => state'[cpuproc'[d]] \notin {"UNUSED", "USED"}
    BY <1>1, <1>i DEF LockExact
  <2> QED BY <2>1, <2>2, <2>3, Zenon DEF LockExact
<1>14. WaitLockExact'
  BY <1>1, <1>2, <1>i DEF ProcTypes, WaitLockExact, Waiters
<1>15. StateExact'
  BY <1>1, <1>i DEF StateExact
<1>16. ForkExact'
  BY <1>1, <1>i DEF ForkExact, StateExact
<1>17. ParentExact'
  BY <1>1, <1>i DEF ParentExact, Exiting
<1>18. SleepExact'
  <2>1. \A q \in Slots : pc[q] # "wait_sleep" BY <1>1, <1>3, Zenon DEF Waiters
  <2> QED BY <2>1, <1>1, <1>i DEF SleepExact
<1>19. PidsExact'
  BY <1>1, <1>2, <1>i DEF PidsExact, Live
<1>20. ParentAlive'
  <2>1. \A t \in Slots : parent[t] # s BY <1>1, <1>i, Zenon DEF ParentExact
  <2> QED BY <2>1, <1>1, <1>2, <1>i DEF ParentAlive, Live
<1>21. NoMissedExit'
  <2>1. parent[s] # None => state[parent[s]] # "SLEEPING" BY <1>1, <1>i, Zenon DEF SleepExact
  <2>2. ASSUME NEW q \in Slots, state'[q] = "SLEEPING"
        PROVE  Children(q)' # {} /\ \A t \in Children(q)' : state'[t] # "ZOMBIE"
    <3>1. q # s /\ state[q] = "SLEEPING" /\ parent[s] # q /\ Children(q)' = Children(q)
      BY <2>1, <2>2, <1>0, <1>1, <1>i, Zenon DEF ProcTypes, Children
    <3> QED BY <3>1, <1>1, <1>i DEF NoMissedExit, Children
  <2> QED BY <2>2, Zenon DEF NoMissedExit
<1> QED
  BY <1>11, <1>12, <1>13, <1>14, <1>15, <1>16, <1>17, <1>18, <1>19, <1>20, <1>21, Zenon
     DEF ProcInv, TableInv

(* sleep in wait: the process has a child that lives. *)
LEMMA StepSleep ==
  ASSUME ProcInv, NEW c \in Cpus, wait_sleep(c)
  PROVE  ProcInv'
<1>i. /\ ProcTypes /\ CpuExact /\ LockExact /\ WaitLockExact /\ StateExact
      /\ ForkExact /\ ParentExact /\ SleepExact /\ PidsExact /\ ParentAlive /\ NoMissedExit
  BY Zenon DEF ProcInv, TableInv
<1>0. None \notin Slots /\ "free" \notin Cpus BY ProcAssumption DEF None, Slots
<1>1. PICK s \in Slots :
        /\ on[c] = s /\ run[s] = "running" /\ pc[s] = "wait_sleep"
        /\ lock' = [lock EXCEPT ![s] = c] /\ state' = [state EXCEPT ![s] = "SLEEPING"]
        /\ run' = [run EXCEPT ![s] = "swtch"]
        /\ chan' = [chan EXCEPT ![s] = s]
        /\ wait_lock' = "free" /\ pc' = [pc EXCEPT ![s] = "wait"]
        /\ UNCHANGED <<parent, pid, killed, nextpid, on, cpuproc, child>>
  BY Zenon DEF wait_sleep, sched, Runs, At, Goto, cpus
<1>2. /\ state[s] = "RUNNING" /\ cpuproc[c] = s /\ lock[s] = "free"
      /\ \A d \in Cpus : d # c => on[d] # s /\ cpuproc[d] # s
      /\ \A t \in Slots : lock[t] # c
      /\ wait_lock = c <=> pc[s] \in Waiters
  BY <1>1, RunningFacts
<1>3. \A q \in Slots : q # s /\ pc[q] \in Waiters =>
        pc[q] = "exit_zombie" /\ state[q] \in {"ZOMBIE", "UNUSED"}
  <2>1. pc[s] \in Waiters BY <1>1, Zenon DEF Waiters
  <2> QED BY <2>1, <1>1, OneWaiter, Zenon
<1>11. ProcTypes'
  BY <1>1, <1>i, Zenon DEF ProcTypes, States, Labels
<1>12. CpuExact'
  BY <1>1, <1>i DEF CpuExact
<1>13. LockExact'
  <2>1. ASSUME NEW u \in Slots, NEW d \in Cpus PROVE lock'[u] = d <=> HeldBy(u, d)'
    BY <1>1, <1>2, <1>i DEF ProcTypes, LockExact, HeldBy
  <2>2. \A u \in Slots : state'[u] = "RUNNING" <=> run'[u] \in {"running", "resume"}
    BY <1>1, <1>i, Zenon DEF ProcTypes, LockExact
  <2>3. \A d \in Cpus : cpuproc'[d] # None => state'[cpuproc'[d]] \notin {"UNUSED", "USED"}
    BY <1>1, <1>i DEF LockExact
  <2> QED BY <2>1, <2>2, <2>3, Zenon DEF LockExact
<1>14. WaitLockExact'
  BY <1>1, <1>2, <1>i DEF ProcTypes, WaitLockExact, Waiters
<1>15. StateExact'
  BY <1>1, <1>i, Zenon DEF ProcTypes, StateExact
<1>16. ForkExact'
  BY <1>1, <1>2, <1>i DEF ForkExact, Forking
<1>17. ParentExact'
  BY <1>1, <1>i DEF ParentExact, Exiting
<1>18. SleepExact'
  <2>1. ASSUME NEW t \in Slots, pc[t] = "exit_zombie", parent[t] = s PROVE FALSE
    <3>1. t # s BY <2>1, <1>1, Zenon
    <3>2. state[t] = "ZOMBIE" BY <2>1, <3>1, <1>0, <1>3, <1>i, Zenon DEF Waiters, StateExact
    <3> QED BY <2>1, <3>2, <1>1, <1>i, Zenon DEF SleepExact
  <2>2. \A t \in Slots : pc'[t] = "exit_zombie" /\ parent'[t] # None =>
          state'[parent'[t]] # "SLEEPING"
    BY <2>1, <1>1, <1>i DEF SleepExact
  <2>3. \A q \in Slots : pc'[q] # "wait_sleep" BY <1>1, <1>3, <1>i, Zenon DEF ProcTypes, Waiters
  <2> QED BY <2>2, <2>3, Zenon DEF SleepExact
<1>19. PidsExact'
  BY <1>1, <1>2, <1>i DEF PidsExact, Live
<1>20. ParentAlive'
  BY <1>1, <1>2, <1>i DEF ProcTypes, ParentAlive, Live
<1>21. NoMissedExit'
  <2>1. Children(s) # {} /\ \A t \in Children(s) : state[t] # "ZOMBIE"
    BY <1>1, <1>i, Zenon DEF SleepExact, Children
  <2>2. ASSUME NEW q \in Slots, state'[q] = "SLEEPING"
        PROVE  Children(q)' # {} /\ \A t \in Children(q)' : state'[t] # "ZOMBIE"
    <3>1. Children(q)' = Children(q) BY <1>1, Zenon DEF Children
    <3>2. \A t \in Slots : state'[t] = "ZOMBIE" => state[t] = "ZOMBIE" BY <1>1, <1>i, Zenon DEF ProcTypes
    <3>3. q = s \/ state[q] = "SLEEPING" BY <2>2, <1>1
    <3> QED BY <2>1, <3>1, <3>2, <3>3, <1>i, Zenon DEF NoMissedExit, Children
  <2> QED BY <2>2, Zenon DEF NoMissedExit
<1> QED
  BY <1>11, <1>12, <1>13, <1>14, <1>15, <1>16, <1>17, <1>18, <1>19, <1>20, <1>21, Zenon
     DEF ProcInv, TableInv

(* wait frees a zombie that has left its stack. *)
LEMMA StepReap ==
  ASSUME ProcInv, NEW c \in Cpus, NEW z \in Slots, wait_reap(c, z)
  PROVE  ProcInv'
<1>i. /\ ProcTypes /\ CpuExact /\ LockExact /\ WaitLockExact /\ StateExact
      /\ ForkExact /\ ParentExact /\ SleepExact /\ PidsExact /\ ParentAlive /\ NoMissedExit
  BY Zenon DEF ProcInv, TableInv
<1>0. None \notin Slots /\ "free" \notin Cpus BY ProcAssumption DEF None, Slots
<1>1. PICK s \in Slots :
        /\ on[c] = s /\ run[s] = "running" /\ pc[s] = "wait_scan"
        /\ parent[z] = s /\ lock[z] = "free" /\ state[z] = "ZOMBIE"
        /\ state' = [state EXCEPT ![z] = "UNUSED"] /\ pid' = [pid EXCEPT ![z] = 0]
        /\ parent' = [parent EXCEPT ![z] = None] /\ chan' = [chan EXCEPT ![z] = None]
        /\ killed' = [killed EXCEPT ![z] = 0]
        /\ wait_lock' = "free" /\ pc' = [pc EXCEPT ![s] = "user"]
        /\ UNCHANGED <<nextpid, lock, on, cpuproc, run, child>>
  BY Zenon DEF wait_reap, Reapable, Children, freeproc, At, Runs, Goto, cpus
<1>2. /\ state[s] = "RUNNING" /\ cpuproc[c] = s /\ lock[s] = "free"
      /\ \A d \in Cpus : d # c => on[d] # s /\ cpuproc[d] # s
      /\ \A t \in Slots : lock[t] # c
      /\ wait_lock = c <=> pc[s] \in Waiters
  BY <1>1, RunningFacts, Zenon
<1>3. \A q \in Slots : q # s /\ pc[q] \in Waiters =>
        pc[q] = "exit_zombie" /\ state[q] \in {"ZOMBIE", "UNUSED"}
  <2>1. pc[s] \in Waiters BY <1>1, Zenon DEF Waiters
  <2> QED BY <2>1, <1>1, OneWaiter, Zenon
<1>11. ProcTypes'
  BY <1>1, <1>i, Zenon DEF ProcTypes, States, Labels
<1>12. CpuExact' /\ LockExact'
  <2>1. \A d \in Cpus : cpuproc[d] # z
    BY <1>0, <1>1, <1>i DEF ProcTypes, CpuExact, LockExact, HeldBy
  <2>2. \A u \in Slots :
          /\ state'[u] = "RUNNING" <=> state[u] = "RUNNING"
          /\ state'[u] \in {"UNUSED", "USED"} => u = z \/ state[u] \in {"UNUSED", "USED"}
    BY <1>1, <1>i, Zenon DEF ProcTypes
  <2> QED BY <2>1, <2>2, <1>1, <1>i, CpusKept, Zenon
<1>14. WaitLockExact'
  BY <1>1, <1>2, <1>i DEF ProcTypes, WaitLockExact, Waiters
<1>15. StateExact'
  BY <1>1, <1>i, Zenon DEF ProcTypes, StateExact
<1>16. ForkExact'
  BY <1>1, <1>i DEF ForkExact, Forking
<1>17. ParentExact'
  BY <1>0, <1>1, <1>i DEF ProcTypes, ParentExact, Exiting
<1>18. SleepExact'
  BY <1>0, <1>1, <1>i DEF SleepExact, Children
<1>19. PidsExact'
  BY <1>1, <1>i DEF ProcTypes, PidsExact, Live
<1>20. ParentAlive'
  BY <1>1, <1>i DEF ProcTypes, ParentAlive, Live, StateExact
<1>21. NoMissedExit'
  BY <1>0, <1>1, <1>i DEF NoMissedExit, Children
<1> QED
  BY <1>11, <1>12, <1>14, <1>15, <1>16, <1>17, <1>18, <1>19, <1>20, <1>21, Zenon
     DEF ProcInv, TableInv

(* exit hands its children to initproc and wakes who has to know. *)
LEMMA StepReparent ==
  ASSUME ProcInv, NEW c \in Cpus, exit_reparent(c)
  PROVE  ProcInv'
<1>i. /\ ProcTypes /\ CpuExact /\ LockExact /\ WaitLockExact /\ StateExact
      /\ ForkExact /\ ParentExact /\ SleepExact /\ PidsExact /\ ParentAlive /\ NoMissedExit
  BY Zenon DEF ProcInv, TableInv
<1>0. None \notin Slots /\ "free" \notin Cpus BY ProcAssumption DEF None, Slots
<1>1. PICK s \in Slots :
        /\ on[c] = s /\ run[s] = "running" /\ pc[s] = "exit_reparent"
        /\ parent' = reparent(s) /\ pc' = [pc EXCEPT ![s] = "exit_zombie"]
        /\ state' = [t \in Slots |-> 
               IF t \in {u \in Slots : state[u] = "SLEEPING" /\ chan[u] \in Notified(s)}
               THEN "RUNNABLE" ELSE state[t]]
        /\ UNCHANGED <<pid, killed, chan, nextpid, lock, wait_lock, on, cpuproc, run, child>>
  BY Zenon DEF exit_reparent, At, Runs, Goto, cpus
<1>2. /\ state[s] = "RUNNING" /\ cpuproc[c] = s /\ lock[s] = "free"
      /\ \A d \in Cpus : d # c => on[d] # s /\ cpuproc[d] # s
      /\ \A t \in Slots : lock[t] # c
      /\ wait_lock = c <=> pc[s] \in Waiters
  BY <1>1, RunningFacts
<1>3. \A q \in Slots : q # s /\ pc[q] \in Waiters =>
        pc[q] = "exit_zombie" /\ state[q] \in {"ZOMBIE", "UNUSED"}
  <2>1. pc[s] \in Waiters BY <1>1, Zenon DEF Waiters
  <2> QED BY <2>1, <1>1, OneWaiter, Zenon
<1>4. initproc \in Slots BY ProcAssumption DEF initproc, Slots
<1>5. s # initproc BY <1>1, <1>i, Zenon DEF ParentExact, Exiting
<1>6. \A t \in Slots : parent'[t] = IF parent[t] = s THEN initproc ELSE parent[t]
  BY <1>1, Zenon DEF reparent
<1>7. /\ \A t \in Slots : state'[t] = state[t] \/
           (state[t] = "SLEEPING" /\ state'[t] = "RUNNABLE")
      /\ \A t \in Slots : state'[t] = "SLEEPING" =>
           t # parent[s] /\ (t = initproc => \A u \in Slots : parent[u] # s)
  BY <1>1, <1>i, Zenon DEF StateExact, Notified
<1>u. /\ on[c] = s /\ run[s] = "running" /\ pc[s] = "exit_reparent"
      /\ pid' = pid /\ killed' = killed /\ chan' = chan /\ nextpid' = nextpid /\ lock' = lock
      /\ wait_lock' = wait_lock /\ on' = on /\ cpuproc' = cpuproc /\ run' = run /\ child' = child
  BY <1>1, Zenon
<1>11. ProcTypes'
  <2>1. state' \in [Slots -> States] BY <1>1, <1>i, Zenon DEF ProcTypes, States
  <2>2. parent' \in [Slots -> Slots \cup {None}] BY <1>1, <1>4, <1>i, Zenon DEF ProcTypes, reparent
  <2>3. pc' \in [Slots -> Labels] BY <1>1, <1>i, Zenon DEF ProcTypes, Labels
  <2> QED BY <2>1, <2>2, <2>3, <1>1, <1>i, Zenon DEF ProcTypes
<1>12. CpuExact' /\ LockExact'
  <2>1. \A u \in Slots :
          /\ state'[u] = "RUNNING" <=> state[u] = "RUNNING"
          /\ state'[u] \in {"UNUSED", "USED"} => state[u] \in {"UNUSED", "USED"}
    BY <1>7, Zenon
  <2> QED BY <2>1, <1>1, <1>i, CpusKept, Zenon
<1>a. /\ pc'[s] = "exit_zombie" /\ \A q \in Slots : q # s => pc'[q] = pc[q]
  BY <1>1, <1>i, Zenon DEF ProcTypes
<1>b. \A q \in Slots : pc'[q] \in Waiters <=> pc[q] \in Waiters BY <1>a, <1>1, Zenon DEF Waiters
<1>14. WaitLockExact'
  <2>0. wait_lock' = wait_lock /\ on' = on /\ run' = run
    BY <1>1, Zenon
  <2>4. wait_lock = c /\ on[c] = s /\ s # None /\ run[s] = "running"
    BY <1>0, <1>1, <1>i, Zenon DEF WaitLockExact, Waiters
  <2>5. \A d \in Cpus : on[d] # None => on[d] \in Slots
    BY <1>i DEF ProcTypes
  <2>1. wait_lock' # "free" => /\ on'[wait_lock'] # None /\ run'[on'[wait_lock']] = "running"
                             /\ pc'[on'[wait_lock']] \in Waiters
    BY <2>0, <2>4, <1>a, Zenon DEF Waiters
  <2>2. \A d \in Cpus : on'[d] # None /\ run'[on'[d]] = "running" /\ pc'[on'[d]] \in Waiters
                        => wait_lock' = d
    BY <2>0, <2>5, <1>b, <1>i, Zenon DEF WaitLockExact
  <2>3. \A q \in Slots : pc'[q] \in Waiters =>
          run'[q] = "running" \/ (pc'[q] = "exit_zombie" /\ state'[q] \in {"ZOMBIE", "UNUSED"})
    BY <1>u, <1>a, <1>7, <1>i, Zenon DEF WaitLockExact
  <2> QED BY <2>1, <2>2, <2>3, Zenon DEF WaitLockExact
<1>15. StateExact'
  <2>1. ASSUME NEW q \in Slots, state'[q] = "ZOMBIE" PROVE pc'[q] = "exit_zombie"
    <3>1. state[q] = "ZOMBIE"
      BY <2>1, <1>7, Zenon
    <3>2. pc[q] = "exit_zombie"
      BY <3>1, <1>i, Zenon DEF StateExact
    <3> QED BY <3>2, <1>a, Zenon
  <2>4. ASSUME NEW q \in Slots, state'[q] = "USED" PROVE pc'[q] = "user"
    <3>1. state[q] = "USED"
      BY <2>4, <1>7, Zenon
    <3>2. pc[q] = "user" /\ q # s
      BY <3>1, <1>i, <1>u, Zenon DEF StateExact
    <3> QED BY <3>2, <1>a, Zenon
  <2>2. ASSUME NEW q \in Slots, state'[q] = "UNUSED"
        PROVE  pc'[q] \in {"user", "exit_zombie"} /\ parent'[q] = None
    <3>1. state[q] = "UNUSED"
      BY <2>2, <1>7, Zenon
    <3>2. pc[q] \in {"user", "exit_zombie"} /\ parent[q] = None
      BY <3>1, <1>i, Zenon DEF StateExact
    <3> QED BY <3>2, <1>0, <1>a, <1>6, Zenon
  <2>3. ASSUME NEW q \in Slots, state'[q] = "SLEEPING" PROVE chan'[q] = q
    BY <2>3, <1>u, <1>7, <1>i, Zenon DEF StateExact
  <2> QED BY <2>1, <2>2, <2>3, <2>4, Zenon DEF StateExact
<1>16. ForkExact'
  <2>1. \A q \in Slots : pc'[q] \in Forking => q # s /\ pc[q] = pc'[q] BY <1>a, Zenon DEF Forking
  <2>2. ASSUME NEW q \in Slots, pc'[q] \in Forking
        PROVE  /\ child'[q] \in Slots /\ state'[child'[q]] = "USED"
               /\ parent'[child'[q]] = IF pc'[q] = "fork_run" THEN q ELSE None
    <3>1. /\ child[q] \in Slots /\ state[child[q]] = "USED"
          /\ parent[child[q]] = IF pc[q] = "fork_run" THEN q ELSE None
      BY <2>1, <2>2, <1>i, Zenon DEF ForkExact
    <3>2. parent[child[q]] # s BY <2>1, <2>2, <3>1, <1>0, Zenon
    <3>3. child'[q] = child[q] /\ pc'[q] = pc[q]
      BY <2>1, <2>2, <1>u, Zenon
    <3>4. state'[child[q]] = "USED" /\ parent'[child[q]] = parent[child[q]]
      BY <3>1, <3>2, <1>6, <1>7, Zenon
    <3> QED BY <3>1, <3>3, <3>4, Zenon
  <2> QED BY <2>1, <2>2, <1>1, <1>i, Zenon DEF ForkExact
<1>17. ParentExact'
  BY <1>0, <1>u, <1>a, <1>2, <1>3, <1>4, <1>6, <1>7, <1>i DEF ProcTypes, ParentExact, Exiting, initproc
<1>18. SleepExact'
  <2>1. \A q \in Slots : pc'[q] # "wait_sleep" BY <1>a, <1>3, Zenon DEF Waiters
  <2>2. ASSUME NEW q \in Slots, pc'[q] = "exit_zombie", parent'[q] # None,
               state'[parent'[q]] = "SLEEPING"
        PROVE  FALSE
    <3>1. CASE q = s
      <4>1. CASE parent[s] = s
        <5>1. parent'[s] = initproc BY <4>1, <1>6, Zenon
        <5> QED BY <2>2, <3>1, <4>1, <5>1, <1>4, <1>7, Zenon
      <4>2. CASE parent[s] # s
        <5>1. parent'[s] = parent[s] BY <4>2, <1>6, Zenon
        <5>2. parent[s] \in Slots BY <2>2, <3>1, <5>1, <1>i DEF ProcTypes
        <5> QED BY <2>2, <3>1, <5>1, <5>2, <1>7, Zenon
      <4> QED BY <4>1, <4>2, Zenon
    <3>2. CASE q # s /\ parent[q] = s
      <4>1. parent'[q] = initproc BY <3>2, <1>6, Zenon
      <4> QED BY <2>2, <3>2, <4>1, <1>4, <1>7, Zenon
    <3>3. CASE q # s /\ parent[q] # s
      <4>1. parent'[q] = parent[q] /\ pc[q] = "exit_zombie"
        BY <2>2, <3>3, <1>a, <1>6, Zenon
      <4>2. parent[q] \in Slots BY <2>2, <4>1, <1>i, Zenon DEF ProcTypes
      <4> QED BY <2>2, <4>1, <4>2, <1>7, <1>i, Zenon DEF SleepExact
    <3> QED BY <3>1, <3>2, <3>3, Zenon
  <2> QED BY <2>1, <2>2, Zenon DEF SleepExact
<1>19. PidsExact'
  BY <1>0, <1>u, <1>5, <1>7, <1>i DEF ProcTypes, PidsExact, Live
<1>20. ParentAlive'
  <2>1. state'[initproc] \notin {"UNUSED", "USED", "ZOMBIE"}
    BY <1>4, <1>7, <1>i, Zenon DEF ParentExact
  <2>2. ASSUME NEW q \in Slots, parent'[q] # None
        PROVE  state'[parent'[q]] \notin {"UNUSED", "USED", "ZOMBIE"}
    <3>1. CASE parent[q] = s BY <2>1, <3>1, <1>6, Zenon
    <3>2. CASE parent[q] # s
      <4>1. parent'[q] = parent[q] /\ parent[q] \in Slots
        BY <2>2, <3>2, <1>6, <1>i DEF ProcTypes
      <4>2. state[parent[q]] \notin {"UNUSED", "USED", "ZOMBIE"}
        BY <2>2, <4>1, <1>i, Zenon DEF ParentAlive
      <4> QED BY <4>1, <4>2, <1>7, Zenon
    <3> QED BY <3>1, <3>2, Zenon
  <2>3. ASSUME NEW q \in Slots, state'[q] \notin {"UNUSED", "USED"}, q # initproc
        PROVE  parent'[q] # None
    <3>1. parent[q] # None BY <2>3, <1>7, <1>i, Zenon DEF ParentAlive, Live
    <3> QED BY <3>1, <1>0, <1>4, <1>6, Zenon
  <2> QED BY <2>2, <2>3, Zenon DEF ParentAlive, Live
<1>21. NoMissedExit'
  <2>1. ASSUME NEW q \in Slots, state'[q] = "SLEEPING"
        PROVE  Children(q)' # {} /\ \A t \in Children(q)' : state'[t] # "ZOMBIE"
    <3>1. state[q] = "SLEEPING" /\ q # s BY <2>1, <1>2, <1>7, Zenon
    <3>2. Children(q)' = Children(q) BY <2>1, <3>1, <1>6, <1>7, Zenon DEF Children
    <3>3. \A t \in Slots : state'[t] = "ZOMBIE" => state[t] = "ZOMBIE" BY <1>7, Zenon
    <3> QED BY <3>1, <3>2, <3>3, <1>i, Zenon DEF NoMissedExit, Children
  <2> QED BY <2>1, Zenon DEF NoMissedExit
<1> QED
  BY <1>11, <1>12, <1>14, <1>15, <1>16, <1>17, <1>18, <1>19, <1>20, <1>21, Zenon
     DEF ProcInv, TableInv

(* The system calls that move on with or without wait_lock. *)
LEMMA StepCalls ==
  ASSUME ProcInv, NEW c \in Cpus,
         exit(c) \/ exit_lock(c) \/ wait(c) \/ wait_acquire(c) \/ wait_fault(c) \/ wait_check(c)
  PROVE  ProcInv'
<1> USE DEF At, Runs, Goto, cpus
<1>f. "free" \notin Cpus BY ProcAssumption, Zenon
<1>w. \A s \in Slots : on[c] = s /\ run[s] = "running" => (wait_lock = c <=> pc[s] \in Waiters)
  BY RunningFacts, Zenon
<1>1. CASE exit(c)
  <2>1. PICK s \in Slots :
          /\ on[c] = s /\ run[s] = "running" /\ pc[s] = "user" /\ s # initproc
          /\ wait_lock' = wait_lock /\ pc' = [pc EXCEPT ![s] = "exit"]
          /\ UNCHANGED <<table, lock, cpus, run, child>>
    BY <1>1, Zenon DEF exit, Syscall
  <2>2. "exit" \in Labels /\ "exit" \notin Forking \cup {"exit_zombie"}
        /\ pc[s] \notin Forking \cup {"exit_zombie"}
    BY <2>1, Zenon DEF Labels, Forking
  <2>3. "exit" \notin Waiters /\ wait_lock # c BY <2>1, <1>w, Zenon DEF Waiters
  <2> QED BY <2>1, <2>2, <2>3, StepPc, Zenon
<1>2. CASE exit_lock(c)
  <2>1. PICK s \in Slots :
          /\ on[c] = s /\ run[s] = "running" /\ pc[s] = "exit"
          /\ wait_lock = "free" /\ wait_lock' = c /\ pc' = [pc EXCEPT ![s] = "exit_reparent"]
          /\ UNCHANGED <<table, lock, cpus, run, child>>
    BY <1>2, Zenon DEF exit_lock, Syscall
  <2>2. "exit_reparent" \in Labels /\ "exit_reparent" \notin Forking \cup {"exit_zombie"}
        /\ pc[s] \notin Forking \cup {"exit_zombie"}
    BY <2>1, Zenon DEF Labels, Forking
  <2>3. "exit_reparent" \in Waiters /\ s # initproc
    BY <2>1, Zenon DEF Waiters, ProcInv, TableInv, ParentExact, Exiting
  <2> QED BY <2>1, <2>2, <2>3, StepPc, Zenon
<1>3. CASE wait(c)
  <2>1. PICK s \in Slots :
          /\ on[c] = s /\ run[s] = "running" /\ pc[s] = "user"
          /\ wait_lock' = wait_lock /\ pc' = [pc EXCEPT ![s] = "wait"]
          /\ UNCHANGED <<table, lock, cpus, run, child>>
    BY <1>3, Zenon DEF wait, Syscall
  <2>2. "wait" \in Labels /\ "wait" \notin Forking \cup {"exit_zombie"}
        /\ pc[s] \notin Forking \cup {"exit_zombie"}
    BY <2>1, Zenon DEF Labels, Forking
  <2>3. "wait" \notin Waiters /\ "wait" \notin Exiting /\ wait_lock # c
    BY <2>1, <1>w, Zenon DEF Waiters, Exiting
  <2> QED BY <2>1, <2>2, <2>3, StepPc, Zenon
<1>4. CASE wait_acquire(c)
  <2>1. PICK s \in Slots :
          /\ on[c] = s /\ run[s] = "running" /\ pc[s] = "wait"
          /\ wait_lock = "free" /\ wait_lock' = c /\ pc' = [pc EXCEPT ![s] = "wait_scan"]
          /\ UNCHANGED <<table, lock, cpus, run, child>>
    BY <1>4, Zenon DEF wait_acquire, Syscall
  <2>2. "wait_scan" \in Labels /\ "wait_scan" \notin Forking \cup {"exit_zombie"}
        /\ pc[s] \notin Forking \cup {"exit_zombie"}
    BY <2>1, Zenon DEF Labels, Forking
  <2>3. "wait_scan" \in Waiters /\ "wait_scan" \notin Exiting BY Zenon DEF Waiters, Exiting
  <2> QED BY <2>1, <2>2, <2>3, StepPc, Zenon
<1>5. CASE wait_fault(c)
  <2>1. PICK s \in Slots :
          /\ on[c] = s /\ run[s] = "running" /\ pc[s] = "wait_scan"
          /\ wait_lock' = "free" /\ pc' = [pc EXCEPT ![s] = "user"]
          /\ UNCHANGED <<table, lock, cpus, run, child>>
    BY <1>5, Zenon DEF wait_fault, Syscall
  <2>2. "user" \in Labels /\ "user" \notin Forking \cup {"exit_zombie"}
        /\ pc[s] \notin Forking \cup {"exit_zombie"}
    BY <2>1, Zenon DEF Labels, Forking
  <2>3. "user" \notin Waiters /\ "user" \notin Exiting /\ wait_lock = c
    BY <2>1, <1>w, Zenon DEF Waiters, Exiting
  <2> QED BY <2>1, <2>2, <2>3, StepPc, Zenon
<1>6. CASE wait_check(c)
  <2> DEFINE stay(s) == Children(s) # {} /\ killed[s] = 0
  <2>1. PICK s \in Slots :
          /\ on[c] = s /\ run[s] = "running" /\ pc[s] = "wait_scan"
          /\ \A t \in Children(s) : state[t] # "ZOMBIE"
          /\ wait_lock' = IF stay(s) THEN c ELSE "free"
          /\ pc' = [pc EXCEPT ![s] = IF stay(s) THEN "wait_sleep" ELSE "user"]
          /\ UNCHANGED <<table, lock, cpus, run, child>>
    BY <1>6, Zenon DEF wait_check, KeepLock
  <2>2. pc[s] \notin Forking \cup {"exit_zombie"} /\ wait_lock = c
    BY <2>1, <1>w, Zenon DEF Forking, Waiters
  <2>3. CASE stay(s)
    <3>1. /\ Children(s) # {} /\ \A t \in Slots : parent[t] = s => state[t] # "ZOMBIE"
          /\ wait_lock' = c /\ pc' = [pc EXCEPT ![s] = "wait_sleep"]
      BY <2>1, <2>3, Zenon DEF Children
    <3>2. /\ "wait_sleep" \in Labels /\ "wait_sleep" \notin Forking \cup {"exit_zombie"}
          /\ "wait_sleep" \in Waiters /\ "wait_sleep" \notin Exiting
      BY Zenon DEF Labels, Forking, Waiters, Exiting
    <3> HIDE DEF stay
    <3> QED BY <2>1, <2>2, <3>1, <3>2, StepPc, Zenon
  <2>4. CASE ~stay(s)
    <3>1. wait_lock' = "free" /\ pc' = [pc EXCEPT ![s] = "user"]
      BY <2>1, <2>4, Zenon
    <3>2. /\ "user" \in Labels /\ "user" \notin Forking \cup {"exit_zombie"}
          /\ "user" \notin Waiters /\ "user" \notin Exiting
      BY Zenon DEF Labels, Forking, Waiters, Exiting
    <3> HIDE DEF stay
    <3> QED BY <2>1, <2>2, <3>1, <3>2, StepPc, Zenon
  <2> QED BY <2>3, <2>4, Zenon
<1> QED BY <1>1, <1>2, <1>3, <1>4, <1>5, <1>6, Zenon

(* and through every step of scheduler, fork, exit, wait and kill.         *)
THEOREM ProcInvariant == Spec => []ProcInv
<1>1. Init => ProcInv
  <2> SUFFICES ASSUME Init PROVE ProcInv OBVIOUS
  <2>0. None \notin Slots /\ initproc \in Slots BY ProcAssumption DEF None, Slots, initproc
  <2>1. ProcTypes BY Zenon DEF Init, ProcTypes, States, Labels
  <2>2. CpuExact /\ LockExact BY <2>0, ProcAssumption, Zenon DEF Init, CpuExact, LockExact, HeldBy
  <2>3. WaitLockExact /\ StateExact /\ ForkExact
    BY Zenon DEF Init, WaitLockExact, Waiters, StateExact, ForkExact, Forking
  <2>4. ParentExact /\ SleepExact
    BY <2>0, Zenon DEF Init, ParentExact, Exiting, SleepExact
  <2>5. PidsExact BY DEF Init, PidsExact, Live
  <2>6. ParentAlive /\ NoMissedExit BY Zenon DEF Init, ParentAlive, Live, NoMissedExit
  <2> QED BY <2>1, <2>2, <2>3, <2>4, <2>5, <2>6, Zenon DEF ProcInv, TableInv
<1>2. ProcInv /\ [Next]_vars => ProcInv'
  <2> SUFFICES ASSUME ProcInv, [Next]_vars PROVE ProcInv' OBVIOUS
  <2>1. CASE UNCHANGED vars
    <3>1. UNCHANGED <<state, parent, pid, killed, chan, nextpid, lock, wait_lock, on, cpuproc,
                      pc, run, child>>
      BY <2>1, Zenon DEF vars, table, cpus
    <3>2. ProcTypes' BY <3>1, Zenon DEF ProcInv, ProcTypes
    <3>3. CpuExact' /\ LockExact' BY <3>1, CpusKept, Zenon DEF ProcInv
    <3>4. WaitLockExact' BY <3>1, Zenon DEF ProcInv, WaitLockExact
    <3>5. TableInv' BY <3>1, TableKept, Zenon DEF ProcInv
    <3> QED BY <3>2, <3>3, <3>4, <3>5, Zenon DEF ProcInv
  <2>2. CASE Next
    <3>1. PICK c \in Cpus :
            \/ Switch(c) \/ Work(c) \/ yield(c) \/ exit(c) \/ wait(c)
            \/ \E s \in Slots : dispatch(c, s) \/ fork(c, s) \/ fork_fail(c, s)
            \/ \E x \in KillPids : kill(c, x)
      BY <2>2, Zenon DEF Next
    <3>2. CASE Switch(c) BY <3>2, StepSwtch, StepRelease, StepResume, Zenon DEF Switch
    <3>3. CASE Work(c)
      BY <3>3, StepForkParent, StepForkRun, StepCalls, StepReparent, StepZombie, StepSleep,
         StepReap, Zenon DEF Work
    <3>4. CASE yield(c) \/ exit(c) \/ wait(c) BY <3>4, StepYield, StepCalls, Zenon
    <3>5. CASE \E s \in Slots : dispatch(c, s) \/ fork(c, s) \/ fork_fail(c, s)
      BY <3>5, StepDispatch, StepFork, StepForkFail, Zenon
    <3>6. CASE \E x \in KillPids : kill(c, x) BY <3>6, StepKill, Zenon
    <3> QED BY <3>1, <3>2, <3>3, <3>4, <3>5, <3>6, Zenon
  <2> QED BY <2>1, <2>2, Zenon
<1> QED BY <1>1, <1>2, PTL DEF Spec

(* process up, and yield, sleep and exit hold no other lock then.          *)
THEOREM ProcessesExclusive == Spec => []Exclusive
<1>1. ProcInv => Exclusive
  <2> SUFFICES ASSUME ProcInv PROVE Exclusive OBVIOUS
  <2>i. ProcTypes /\ CpuExact /\ LockExact /\ WaitLockExact /\ PidsExact BY Zenon DEF ProcInv, TableInv
  <2>0. None \notin Slots BY ProcAssumption DEF None, Slots
  <2>1. StackOwned
    <3> SUFFICES ASSUME NEW c \in Cpus, on[c] # None
                 PROVE  /\ \A d \in Cpus \ {c} : on[d] # on[c]
                        /\ state[on[c]] = "RUNNING" \/ lock[on[c]] = c
                        /\ Live(on[c]) /\ cpuproc[c] = on[c]
      BY Zenon DEF StackOwned
    <3>1. on[c] \in Slots /\ cpuproc[c] = on[c] /\ run[on[c]] # "off"
      BY <2>i DEF ProcTypes, CpuExact
    <3>2. \A d \in Cpus \ {c} : on[d] # on[c] BY <3>1, <2>i, Zenon DEF CpuExact
    <3>3. state[on[c]] = "RUNNING" \/ lock[on[c]] = c
      BY <3>1, <2>i DEF ProcTypes, LockExact, HeldBy
    <3>4. Live(on[c]) BY <3>1, <2>i, Zenon DEF LockExact, Live
    <3> QED BY <3>1, <3>2, <3>3, <3>4, Zenon
  <2>2. SchedHoldsOneLock
    <3> SUFFICES ASSUME NEW c \in Cpus, NEW s \in Slots, on[c] = s, run[s] = "swtch"
                 PROVE  /\ {t \in Slots : lock[t] = c} = {s}
                        /\ wait_lock # c /\ state[s] # "RUNNING"
      BY Zenon DEF SchedHoldsOneLock
    <3>1. cpuproc[c] = s BY <2>0, <2>i, Zenon DEF CpuExact
    <3>2. \A t \in Slots : lock[t] = c <=> t = s BY <3>1, <2>i DEF LockExact, HeldBy
    <3>3. wait_lock # c BY <2>i, ProcAssumption, Zenon DEF WaitLockExact
    <3>4. state[s] # "RUNNING" BY <2>i, Zenon DEF LockExact
    <3> QED BY <3>2, <3>3, <3>4, Zenon
  <2> QED BY <2>1, <2>2, <2>i, Zenon DEF Exclusive
<1> QED BY <1>1, ProcInvariant, PTL

(* Every process but initproc has a parent that lives and can wait for it. *)
THEOREM ParentsAlive == Spec => []ParentAlive
<1>1. ProcInv => ParentAlive BY Zenon DEF ProcInv, TableInv
<1> QED BY <1>1, ProcInvariant, PTL

(* looks for zombies and goes to sleep within one.                         *)
THEOREM ExitsNoticed == Spec => []NoMissedExit
<1>1. ProcInv => NoMissedExit BY Zenon DEF ProcInv, TableInv
<1> QED BY <1>1, ProcInvariant, PTL
=============================================================================
