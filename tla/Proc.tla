-------------------------------- MODULE Proc --------------------------------
(***************************************************************************)
(* kernel/proc.c: the process table, the per-CPU scheduler and fork, exit, *)
(* wait and kill.  p->lock and wait_lock are explicit, because the code    *)
(* keeps p->lock across swtch: a CPU that gives up a process still runs on *)
(* its kernel stack until the scheduler has taken over.                    *)
(***************************************************************************)
EXTENDS Naturals

CONSTANTS
  NPROC,     \* size of the process table; slot 1 is initproc
  Cpus,      \* harts
  MaxPid,    \* bound: the last pid that allocpid gives out
  KillPids   \* bound: arguments of the kill system call

ASSUME ProcAssumption == NPROC \in Nat \ {0} /\ MaxPid \in Nat /\ "free" \notin Cpus

Slots == 1..NPROC
initproc == 1
None == 0

VARIABLES
  state, parent, pid, killed,  \* fields of struct proc
  chan,      \* p->chan; the channels used here are struct procs (wait)
  nextpid,
  lock,      \* lock[s]: the CPU that holds proc[s].lock, or "free"
  wait_lock, \* the CPU that holds wait_lock, or "free"
  on,        \* the stack a CPU runs on: a process, or None in scheduler()
  cpuproc,   \* c->proc
  pc,        \* where each process is in the kernel, or will resume
  run,       \* its context switch: running, swtch (giving up), off, resume
  child      \* local np of fork

table == <<state, parent, pid, killed, chan, nextpid>>
cpus  == <<on, cpuproc>>
vars  == <<table, lock, wait_lock, cpus, pc, run, child>>

Init ==
  /\ state = [s \in Slots |-> IF s = initproc THEN "RUNNABLE" ELSE "UNUSED"]
  /\ parent = [s \in Slots |-> None]
  /\ pid = [s \in Slots |-> IF s = initproc THEN 1 ELSE 0]
  /\ killed = [s \in Slots |-> 0]
  /\ chan = [s \in Slots |-> None]
  /\ nextpid = 2
  /\ lock = [s \in Slots |-> "free"] /\ wait_lock = "free"
  /\ on = [c \in Cpus |-> None] /\ cpuproc = [c \in Cpus |-> None]
  /\ pc = [s \in Slots |-> "user"] /\ run = [s \in Slots |-> "off"]
  /\ child = [s \in Slots |-> None]

Runs(c, s) == on[c] = s /\ run[s] = "running"
At(c, s, l) == Runs(c, s) /\ pc[s] = l
Goto(s, l) == pc' = [pc EXCEPT ![s] = l]
Live(s) == state[s] # "UNUSED"

(* usertrap runs no system call of a process that is killed already. *)
Syscall(c, s) == At(c, s, "user") /\ killed[s] = 0

-----------------------------------------------------------------------------
(* acquire(&p->lock), p->state = st, and sched() up to its swtch. *)
sched(c, s, st) ==
  /\ lock[s] = "free"
  /\ lock' = [lock EXCEPT ![s] = c]
  /\ state' = [state EXCEPT ![s] = st]
  /\ run' = [run EXCEPT ![s] = "swtch"]

(* swtch(&p->context, &mycpu()->context): the CPU leaves the stack of p. *)
swtch(c) == \E s \in Slots :
  /\ on[c] = s /\ run[s] = "swtch"
  /\ on' = [on EXCEPT ![c] = None]
  /\ run' = [run EXCEPT ![s] = "off"]
  /\ UNCHANGED <<table, lock, wait_lock, cpuproc, pc, child>>

(* scheduler() after swtch: c->proc = 0 and release(&p->lock). *)
sched_release(c) == \E s \in Slots :
  /\ on[c] = None /\ cpuproc[c] = s
  /\ cpuproc' = [cpuproc EXCEPT ![c] = None]
  /\ lock' = [lock EXCEPT ![s] = "free"]
  /\ UNCHANGED <<table, wait_lock, on, pc, run, child>>

(* scheduler() before swtch: the lock is passed on to the process. *)
dispatch(c, s) ==
  /\ on[c] = None /\ cpuproc[c] = None
  /\ lock[s] = "free" /\ state[s] = "RUNNABLE"
  /\ lock' = [lock EXCEPT ![s] = c]
  /\ state' = [state EXCEPT ![s] = "RUNNING"]
  /\ cpuproc' = [cpuproc EXCEPT ![c] = s]
  /\ on' = [on EXCEPT ![c] = s]
  /\ run' = [run EXCEPT ![s] = "resume"]
  /\ UNCHANGED <<parent, pid, killed, chan, nextpid, wait_lock, pc, child>>

(* The ends of yield, sleep and forkret: sleep clears p->chan (it is clear *)
(* in the other two), and p->lock is released.                             *)
resume(c) == \E s \in Slots :
  /\ on[c] = s /\ run[s] = "resume"
  /\ run' = [run EXCEPT ![s] = "running"]
  /\ chan' = [chan EXCEPT ![s] = None]
  /\ lock' = [lock EXCEPT ![s] = "free"]
  /\ UNCHANGED <<state, parent, pid, killed, nextpid, wait_lock, cpus, pc, child>>

(* A timer interrupt, in user space or in the kernel where no lock is held. *)
yield(c) == \E s \in Slots :
  /\ Runs(c, s) /\ wait_lock # c
  /\ sched(c, s, "RUNNABLE")
  /\ UNCHANGED <<parent, pid, killed, chan, nextpid, wait_lock, cpus, pc, child>>

-----------------------------------------------------------------------------
(* What freeproc(np) writes; the caller holds np->lock. *)
freeproc(np) ==
  /\ state' = [state EXCEPT ![np] = "UNUSED"]
  /\ pid' = [pid EXCEPT ![np] = 0]
  /\ parent' = [parent EXCEPT ![np] = None]
  /\ chan' = [chan EXCEPT ![np] = None]
  /\ killed' = [killed EXCEPT ![np] = 0]

(* fork: allocproc takes an unused slot (a concurrent scan may have passed *)
(* over any of them), and uvmcopy succeeds.                                *)
fork(c, np) == \E s \in Slots :
  /\ Syscall(c, s)
  /\ lock[np] = "free" /\ state[np] = "UNUSED" /\ nextpid <= MaxPid
  /\ pid' = [pid EXCEPT ![np] = nextpid] /\ nextpid' = nextpid + 1
  /\ state' = [state EXCEPT ![np] = "USED"]
  /\ child' = [child EXCEPT ![s] = np]
  /\ pc' = [pc EXCEPT ![s] = "fork_parent", ![np] = "user"]
  /\ UNCHANGED <<parent, killed, chan, lock, wait_lock, cpus, run>>

(* fork when memory runs out in allocproc or uvmcopy: the pid is used up. *)
fork_fail(c, np) == \E s \in Slots :
  /\ Syscall(c, s)
  /\ lock[np] = "free" /\ state[np] = "UNUSED" /\ nextpid <= MaxPid
  /\ nextpid' = nextpid + 1
  /\ freeproc(np)
  /\ UNCHANGED <<lock, wait_lock, cpus, pc, run, child>>

fork_parent(c) == \E s \in Slots :
  /\ At(c, s, "fork_parent") /\ wait_lock = "free"
  /\ parent' = [parent EXCEPT ![child[s]] = s]
  /\ Goto(s, "fork_run")
  /\ UNCHANGED <<state, pid, killed, chan, nextpid, lock, wait_lock, cpus, run, child>>

fork_run(c) == \E s \in Slots :
  /\ At(c, s, "fork_run") /\ lock[child[s]] = "free"
  /\ state' = [state EXCEPT ![child[s]] = "RUNNABLE"]
  /\ child' = [child EXCEPT ![s] = None]
  /\ Goto(s, "user")
  /\ UNCHANGED <<parent, pid, killed, chan, nextpid, lock, wait_lock, cpus, run>>

-----------------------------------------------------------------------------
(* exit, called by the process or by usertrap when it is killed.  Closing  *)
(* its files is the business of other modules.  init.c does not exit.      *)
exit(c) == \E s \in Slots \ {initproc} :
  /\ At(c, s, "user")
  /\ Goto(s, "exit")
  /\ UNCHANGED <<table, lock, wait_lock, cpus, run, child>>

exit_lock(c) == \E s \in Slots :
  /\ At(c, s, "exit") /\ wait_lock = "free"
  /\ wait_lock' = c
  /\ Goto(s, "exit_reparent")
  /\ UNCHANGED <<table, lock, cpus, run, child>>

(* Mutant: the children keep their dead parent. *)
reparent_none(s) == parent

reparent(s) == [t \in Slots |-> IF parent[t] = s THEN initproc ELSE parent[t]]

(* The channels on which exit calls wakeup. *)
Notified(s) == {parent[s]} \cup
  (IF \E t \in Slots : parent[t] = s THEN {initproc} ELSE {})

(* reparent(p) and wakeup(p->parent); every sleeper is woken under its     *)
(* p->lock.  No process can go to sleep in wait here: wait_lock is held.   *)
exit_reparent(c) == \E s \in Slots :
  LET woken == {t \in Slots : state[t] = "SLEEPING" /\ chan[t] \in Notified(s)}
  IN  /\ At(c, s, "exit_reparent") /\ \A t \in woken : lock[t] = "free"
      /\ parent' = reparent(s)
      /\ state' = [t \in Slots |-> IF t \in woken THEN "RUNNABLE" ELSE state[t]]
      /\ Goto(s, "exit_zombie")
      /\ UNCHANGED <<pid, killed, chan, nextpid, lock, wait_lock, cpus, run, child>>

exit_zombie(c) == \E s \in Slots :
  /\ At(c, s, "exit_zombie")
  /\ sched(c, s, "ZOMBIE")
  /\ wait_lock' = "free"
  /\ UNCHANGED <<parent, pid, killed, chan, nextpid, cpus, pc, child>>

-----------------------------------------------------------------------------
Children(s) == {t \in Slots : parent[t] = s}

wait(c) == \E s \in Slots :
  /\ Syscall(c, s)
  /\ Goto(s, "wait")
  /\ UNCHANGED <<table, lock, wait_lock, cpus, run, child>>

wait_acquire(c) == \E s \in Slots :
  /\ At(c, s, "wait") /\ wait_lock = "free"
  /\ wait_lock' = c
  /\ Goto(s, "wait_scan")
  /\ UNCHANGED <<table, lock, cpus, run, child>>

(* Mutant: wait does not take pp->lock. *)
Reapable_unlocked(s, t) == t \in Children(s) /\ state[t] = "ZOMBIE"

(* The lock makes sure that the child is no longer in exit or swtch. *)
Reapable(s, t) == t \in Children(s) /\ lock[t] = "free" /\ state[t] = "ZOMBIE"

wait_reap(c, t) == \E s \in Slots :
  /\ At(c, s, "wait_scan") /\ Reapable(s, t)
  /\ freeproc(t)
  /\ wait_lock' = "free"
  /\ Goto(s, "user")
  /\ UNCHANGED <<nextpid, lock, cpus, run, child>>

(* wait when copyout of the status fails: the zombie stays.  init passes 0. *)
wait_fault(c) == \E s \in Slots \ {initproc} :
  /\ At(c, s, "wait_scan") /\ \E t \in Slots : Reapable(s, t)
  /\ wait_lock' = "free"
  /\ Goto(s, "user")
  /\ UNCHANGED <<table, lock, cpus, run, child>>

(* Mutant: wait_lock is released before sleep takes p->lock. *)
KeepLock_dropped(c, stay) == wait_lock' = "free"

KeepLock(c, stay) == wait_lock' = IF stay THEN c ELSE "free"

(* No child is a zombie: return -1, or go to sleep. *)
wait_check(c) == \E s \in Slots :
  LET stay == Children(s) # {} /\ killed[s] = 0
  IN  /\ At(c, s, "wait_scan") /\ \A t \in Children(s) : state[t] # "ZOMBIE"
      /\ KeepLock(c, stay)
      /\ Goto(s, IF stay THEN "wait_sleep" ELSE "user")
      /\ UNCHANGED <<table, lock, cpus, run, child>>

(* sleep(p, &wait_lock); it takes wait_lock again when it returns. *)
wait_sleep(c) == \E s \in Slots :
  /\ At(c, s, "wait_sleep")
  /\ sched(c, s, "SLEEPING")
  /\ chan' = [chan EXCEPT ![s] = s]
  /\ wait_lock' = "free"
  /\ Goto(s, "wait")
  /\ UNCHANGED <<parent, pid, killed, nextpid, cpus, child>>

-----------------------------------------------------------------------------
Victims(x) == {t \in Slots : pid[t] = x}

(* kill(x): the first slot whose pid is x.  A sleeper is woken. *)
kill(c, x) == \E s \in Slots, t \in Victims(x) :
  /\ Syscall(c, s) /\ lock[t] = "free" /\ \A u \in Victims(x) : t <= u
  /\ killed' = [killed EXCEPT ![t] = 1]
  /\ state' = [state EXCEPT ![t] = IF @ = "SLEEPING" THEN "RUNNABLE" ELSE @]
  /\ UNCHANGED <<parent, pid, chan, nextpid, lock, wait_lock, cpus, pc, run, child>>

Switch(c) == swtch(c) \/ sched_release(c) \/ resume(c)

Work(c) ==
  \/ fork_parent(c) \/ fork_run(c)
  \/ exit_lock(c) \/ exit_reparent(c) \/ exit_zombie(c)
  \/ wait_acquire(c) \/ wait_fault(c) \/ wait_check(c) \/ wait_sleep(c)
  \/ \E t \in Slots : wait_reap(c, t)

Next == \E c \in Cpus :
  \/ Switch(c) \/ Work(c) \/ yield(c) \/ exit(c) \/ wait(c)
  \/ \E s \in Slots : dispatch(c, s) \/ fork(c, s) \/ fork_fail(c, s)
  \/ \E x \in KillPids : kill(c, x)

Spec == Init /\ [][Next]_vars

-----------------------------------------------------------------------------
(* The kernel stack of a process is used by at most one CPU, and only      *)
(* while the process is RUNNING or that CPU holds its p->lock: whatever    *)
(* yield, sleep and exit do to p->state, no other CPU resumes the process  *)
(* and no wait() frees it before swtch has left its stack.                 *)
StackOwned == \A c \in Cpus : on[c] # None =>
  /\ \A d \in Cpus \ {c} : on[d] # on[c]
  /\ state[on[c]] = "RUNNING" \/ lock[on[c]] = c
  /\ Live(on[c]) /\ cpuproc[c] = on[c]

(* The panics of sched() are unreachable: it runs with p->lock and no      *)
(* other lock, after p->state has been changed.                            *)
SchedHoldsOneLock == \A c \in Cpus, s \in Slots : on[c] = s /\ run[s] = "swtch" =>
  /\ {t \in Slots : lock[t] = c} = {s}
  /\ wait_lock # c
  /\ state[s] # "RUNNING"

(* allocproc, freeproc and fork keep the table: exactly the unused slots   *)
(* have no pid, and no two processes have the same one.                    *)
PidsExact ==
  /\ \A s \in Slots : pid[s] < nextpid /\ (pid[s] = 0 <=> state[s] = "UNUSED")
  /\ \A s, t \in Slots : s # t /\ Live(s) => pid[s] # pid[t]

(* Processes do not get in the way of one another in the table, on a       *)
(* kernel stack or in sched(), whatever the other CPUs do.                 *)
Exclusive == StackOwned /\ SchedHoldsOneLock /\ PidsExact

(* Every process that runs or has run has a parent that can still wait for *)
(* it: exit() hands the children over before it becomes a zombie, whatever *)
(* their own exit and their parent's fork are doing.                       *)
ParentAlive == \A s \in Slots :
  /\ parent[s] # None => state[parent[s]] \notin {"UNUSED", "USED", "ZOMBIE"}
  /\ Live(s) /\ state[s] # "USED" /\ s # initproc => parent[s] # None

(* No exit is missed: a process asleep in wait() has children, and none of *)
(* them is a zombie.                                                       *)
NoMissedExit == \A s \in Slots : state[s] = "SLEEPING" =>
  /\ Children(s) # {}
  /\ \A t \in Children(s) : state[t] # "ZOMBIE"
=============================================================================
