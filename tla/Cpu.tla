-------------------------------- MODULE Cpu --------------------------------
(***************************************************************************)
(* What runs on the CPUs: spinlock.c (locks that switch interrupts off),   *)
(* sleep, wakeup, yield, sched and scheduler of proc.c, and entering and   *)
(* leaving a trap (trap.c).  A context is a thread or the scheduler of a   *)
(* CPU; a trap runs on the stack of the context that it interrupts, and    *)
(* moves to another CPU with it.  A thread at pc "user" is in user mode.   *)
(* p->lock is held only within the steps here: Proc has its detail.        *)
(***************************************************************************)
EXTENDS Naturals, Sequences, FiniteSets

CONSTANTS CPUs, Threads, Locks

VARIABLES
  cpu,      \* intr (interrupts enabled), stvec (the handler of traps, that of
            \* "user" or "kernel" code), noff, intena, cur (context)
  lock,     \* the CPU that holds each lock, or "free"
  ctx,      \* pc, trap (pc in the handler), want (lock it spins for),
            \* state, chan, intena (as sched saved it), killed, and locals
  panicked

cpuVars == <<cpu, lock, ctx, panicked>>

(* The context that CPU c runs, and where it is. *)
Cur(c) == ctx[cpu[c].cur]
Where(x) == IF x.trap # "none" THEN x.trap ELSE x.pc
Goto(x, pc) == IF x.trap # "none" THEN [x EXCEPT !.trap = pc] ELSE [x EXCEPT !.pc = pc]

(* CPU c executes the step at pc. *)
At(c, pc) == ~panicked /\ Cur(c).want = "none" /\ Where(Cur(c)) = pc
Set(c, x) == ctx' = [ctx EXCEPT ![cpu[c].cur] = x]

(* Mutant: acquire leaves interrupts enabled. *)
push_off_on(x) == [x EXCEPT !.intena = IF x.noff = 0 THEN x.intr ELSE @, !.noff = @ + 1]

push_off(x) ==
  [x EXCEPT !.intr = 0, !.intena = IF x.noff = 0 THEN x.intr ELSE @, !.noff = @ + 1]

pop_off(x) ==
  [x EXCEPT !.noff = @ - 1, !.intr = IF x.noff = 1 /\ x.intena = 1 THEN 1 ELSE @]

CannotPop(x) == x.intr = 1 \/ x.noff < 1

(* acquire: interrupts go off, then the CPU spins. *)
acquire(c, lk, x, next) ==
  /\ cpu' = [cpu EXCEPT ![c] = push_off(@)]
  /\ Set(c, [Goto(x, next) EXCEPT !.want = lk])
  /\ panicked' = (lock[lk] = c)
  /\ UNCHANGED lock

spin(c) ==
  LET lk == Cur(c).want
  IN  /\ ~panicked /\ lk # "none" /\ lock[lk] = "free"
      /\ lock' = [lock EXCEPT ![lk] = c]
      /\ Set(c, [Cur(c) EXCEPT !.want = "none"])
      /\ UNCHANGED <<cpu, panicked>>

release(c, lk, x, next) ==
  /\ lock' = [lock EXCEPT ![lk] = "free"]
  /\ cpu' = [cpu EXCEPT ![c] = pop_off(@)]
  /\ Set(c, Goto(x, next))
  /\ panicked' = (lock[lk] # c \/ CannotPop(cpu[c]))

(* Mutant: wakeup stops at the first thread that it finds. *)
Woken_first(cs, chan) ==
  LET asleep == {k \in DOMAIN cs : cs[k].state = "SLEEPING" /\ cs[k].chan = chan}
  IN  IF asleep = {} THEN cs ELSE [cs EXCEPT ![CHOOSE k \in asleep : TRUE].state = "RUNNABLE"]

(* wakeup: everything that sleeps on chan becomes runnable. *)
Woken(cs, chan) ==
  [k \in DOMAIN cs |-> IF cs[k].state = "SLEEPING" /\ cs[k].chan = chan
                       THEN [cs[k] EXCEPT !.state = "RUNNABLE"] ELSE cs[k]]

(* sched, and the rest of the loop of scheduler: the thread keeps intena;  *)
(* the scheduler releases p->lock with what it finds in the CPU.           *)
sched(c, x) ==
  /\ Set(c, [x EXCEPT !.intena = cpu[c].intena])
  /\ cpu' = [cpu EXCEPT ![c] = [pop_off(@) EXCEPT !.cur = c]]
  /\ panicked' = (cpu[c].noff # 1 \/ cpu[c].intr = 1)

(* sleep: p->lock is taken and lk is released, so noff stays. *)
sleep(c, lk, chan, x, next) ==
  /\ sched(c, [Goto(x, next) EXCEPT !.state = "SLEEPING", !.chan = chan])
  /\ lock' = [lock EXCEPT ![lk] = "free"]

(* yield at the end of a trap: acquire of p->lock, then sched. *)
yield(c, x) ==
  LET y == push_off(cpu[c])
  IN  /\ Set(c, [x EXCEPT !.intena = y.intena, !.state = "RUNNABLE"])
      /\ cpu' = [cpu EXCEPT ![c] = [pop_off(y) EXCEPT !.cur = c]]
      /\ panicked' = (y.noff # 1)
      /\ UNCHANGED lock

(* Mutant: sched does not put intena back. *)
Restored_not(x, t) == x
Restored(x, t) == [x EXCEPT !.intena = ctx[t].intena]

(* scheduler picks thread t, which comes back from sched and releases      *)
(* p->lock; and the top of its loop, which enables interrupts.             *)
scheduler(c, t) ==
  /\ At(c, "scheduler") /\ ctx[t].state = "RUNNABLE"
  /\ cpu' = [cpu EXCEPT ![c] = [pop_off(Restored(push_off(@), t)) EXCEPT !.cur = t]]
  /\ ctx' = [ctx EXCEPT ![t].state = "RUNNING", ![t].chan = "none", ![t].intena = 1]
  /\ UNCHANGED <<lock, panicked>>

scheduler_on(c) ==
  /\ At(c, "scheduler") /\ cpu[c].intr = 0
  /\ cpu' = [cpu EXCEPT ![c].intr = 1]
  /\ UNCHANGED <<lock, ctx, panicked>>

(* An interrupt.  usertrap and kerneltrap both check where it came from;   *)
(* usertrap sends further traps to kerneltrap.                             *)
FromUser(x) == x.pc = "user"
Expected(x) == IF FromUser(x) THEN "user" ELSE "kernel"

trap(c, handler) ==
  /\ ~panicked /\ cpu[c].intr = 1
  /\ cpu' = [cpu EXCEPT ![c].intr = 0, ![c].stvec = "kernel"]
  /\ Set(c, [Cur(c) EXCEPT !.trap = handler])
  /\ panicked' = (cpu[c].stvec # Expected(Cur(c)))
  /\ UNCHANGED lock

(* kerneltrap returns and restores sstatus. *)
trapret(c) ==
  /\ At(c, "trapret") /\ ~FromUser(Cur(c))
  /\ cpu' = [cpu EXCEPT ![c].intr = 1]
  /\ Set(c, [Cur(c) EXCEPT !.trap = "none"])
  /\ UNCHANGED <<lock, panicked>>

(* exit, as far as this CPU is concerned. *)
exit(c) ==
  /\ Set(c, [Cur(c) EXCEPT !.state = "ZOMBIE"])
  /\ cpu' = [cpu EXCEPT ![c].cur = c, ![c].stvec = "kernel"]
  /\ UNCHANGED <<lock, panicked>>

(* The way of an interrupt from usertrap to usertrapret. *)
Leaving(x) == [x EXCEPT !.trap = "none", !.pc = "usertrapret"]

usertrap_intr(c) ==
  /\ At(c, "trapret") /\ FromUser(Cur(c))
  /\ IF Cur(c).killed = 1 THEN exit(c)
     ELSE Set(c, Leaving(Cur(c))) /\ UNCHANGED <<cpu, lock, panicked>>

(* usertrap of an exception or of a killed thread. *)
Exited(c) ==
  /\ Set(c, [Cur(c) EXCEPT !.state = "ZOMBIE"])
  /\ cpu' = [cpu EXCEPT ![c].cur = c, ![c].stvec = "kernel", ![c].intr = 0]

usertrap_fault(c) ==
  /\ At(c, "user") /\ Exited(c)
  /\ panicked' = (cpu[c].stvec # "user")
  /\ UNCHANGED lock

(* A system call: usertrap, which enables interrupts, and what it does     *)
(* after syscall() has returned.                                           *)
usertrap(c) ==
  /\ At(c, "user")
  /\ IF Cur(c).killed = 1
     THEN Exited(c)
     ELSE /\ Set(c, Goto(Cur(c), "syscall"))
          /\ cpu' = [cpu EXCEPT ![c].stvec = "kernel"]
  /\ panicked' = (cpu[c].stvec # "user")
  /\ UNCHANGED lock

usertrap_killed(c) == At(c, "sysret") /\ Cur(c).killed = 1 /\ exit(c)

(* usertrapret switches interrupts off before it redirects traps; sret     *)
(* switches them on again.                                                 *)
usertrapret(c) ==
  /\ At(c, "usertrapret") \/ (At(c, "sysret") /\ Cur(c).killed = 0)
  /\ cpu' = [cpu EXCEPT ![c].intr = 0, ![c].stvec = "user"]
  /\ Set(c, Goto(Cur(c), "sret"))
  /\ UNCHANGED <<lock, panicked>>

sret(c) ==
  /\ At(c, "sret")
  /\ cpu' = [cpu EXCEPT ![c].intr = 1]
  /\ Set(c, Goto(Cur(c), "user"))
  /\ UNCHANGED <<lock, panicked>>

kill(t) ==
  /\ ~panicked /\ ctx[t].killed = 0 /\ ctx[t].state # "ZOMBIE"
  /\ ctx' = [ctx EXCEPT ![t].killed = 1, ![t].state = IF @ = "SLEEPING" THEN "RUNNABLE" ELSE @]
  /\ UNCHANGED <<cpu, lock, panicked>>
=============================================================================
