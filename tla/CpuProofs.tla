----------------------------- MODULE CpuProofs -----------------------------
(***************************************************************************)
(* The inductive invariant of Tty, for any number of CPUs and of threads:  *)
(* CpuInv, interrupts, locks and the contexts that move between CPUs are   *)
(* consistent, and IoInv, what the rings, the devices and the sleepers are *)
(* like.  The steps of Cpu and the output path of Tty (uartputc, uartintr, *)
(* consoleintr) preserve it; TtyProofs has the other steps and the         *)
(* theorems.                                                               *)
(***************************************************************************)
EXTENDS Tty, Integers, TLAPS

(* Where a handler and where a thread or a scheduler can be. *)
Handler ==
  {"claim", "getc", "consoleintr", "echo", "echo_thr", "store", "cons_rel", "start", "thr",
   "tx_rel", "complete", "clockintr", "tick", "ticks_rel", "yield", "trapret"}
Body ==
  {"scheduler", "usertrapret", "sret", "user", "syscall", "sysret", "w_full", "w_wake", "start",
   "thr", "tx_rel", "r_loop", "r_sleep", "r_wake", "cons_rel", "s_start", "s_loop", "s_sleep",
   "s_wake", "ticks_rel"}

(* The lock that is held, or waited for, at a place, and how often push_off *)
(* has been called.                                                         *)
Holds(p) ==
  IF p \in {"w_full", "start", "thr", "tx_rel"} THEN "tx"
  ELSE IF p \in {"consoleintr", "echo", "echo_thr", "store", "cons_rel", "r_loop", "r_sleep"} THEN "cons"
  ELSE IF p \in {"tick", "ticks_rel", "s_start", "s_loop", "s_sleep"} THEN "ticks"
  ELSE "none"
Nest(p) == IF p = "echo_thr" THEN 2 ELSE IF Holds(p) = "none" THEN 0 ELSE 1

(* The places at which a lock has just been asked for. *)
Entry == {"w_full", "start", "consoleintr", "r_loop", "tick", "s_start", "s_loop"}

(* The places between usertrapret and the next trap. *)
Outside == {"sret", "user"}

-----------------------------------------------------------------------------
(* What can run on a CPU: a thread, or the scheduler of a CPU. *)
Contexts == CPUs \cup Threads

Fields == {"pc", "trap", "want", "state", "chan", "intena", "killed", "c", "ch", "n", "arg"}

(* A record with the fields of a context, where the steps below look at    *)
(* them.                                                                   *)
IsContext(x) ==
  /\ DOMAIN x = Fields
  /\ x.pc \in Body /\ x.trap \in Handler \cup {"none"} /\ x.want \in Locks \cup {"none"}
  /\ x.intena \in {0, 1}

(* A record with the fields of a CPU. *)
IsCpu(d) ==
  /\ DOMAIN d = {"intr", "stvec", "noff", "intena", "cur"}
  /\ d.intr \in {0, 1} /\ d.noff \in Nat /\ d.intena \in {0, 1} /\ d.cur \in Contexts

(* The types of the variables of Cpu. *)
CpuTypes ==
  /\ DOMAIN cpu = CPUs /\ cpu = [c \in CPUs |-> cpu[c]]
  /\ \A c \in CPUs : IsCpu(cpu[c])
  /\ lock \in [Locks -> CPUs \cup {"free"}]
  /\ DOMAIN ctx = Contexts /\ ctx = [k \in Contexts |-> ctx[k]]
  /\ \A k \in Contexts : IsContext(ctx[k])

(* CPU d can run context x. *)
Fits(d, x) ==
  /\ d.noff = Nest(Where(x))
  /\ d.noff > 0 => d.intr = 0
  /\ x.trap # "none" => /\ d.intr = 0 /\ (d.noff > 0 => d.intena = 0)
                        /\ Nest(x.pc) = 0 /\ x.pc # "sret"
  /\ d.stvec = IF Where(x) \in Outside THEN "user" ELSE "kernel"
  /\ Where(x) = "sret" => d.intr = 0
  /\ x.want # "none" => Where(x) \in Entry /\ x.want = Holds(Where(x))

(* A thread that does not run has left no lock behind, and an interrupted  *)
(* handler comes back with interrupts off.                                 *)
Off(x) ==
  /\ x.want = "none" /\ Nest(Where(x)) = 0 /\ Where(x) \notin Outside
  /\ x.trap # "none" => /\ x.trap = "trapret" /\ x.intena = 0
                        /\ Nest(x.pc) = 0 /\ x.pc # "sret"

(* The CPUs and their locks: what runs fits its CPU, runs on one CPU only, *)
(* and a lock belongs to the CPU that is within its critical section.      *)
CpuInv ==
  /\ CpuTypes
  /\ ~panicked
  /\ \A c \in CPUs : Fits(cpu[c], Cur(c))
  /\ \A c \in CPUs : /\ ctx[c].pc = "scheduler" /\ ctx[c].state = "RUNNING"
                     /\ Cur(c).state = "RUNNING"
                     /\ cpu[c].cur # c => /\ cpu[c].cur \in Threads
                                          /\ ctx[c].trap = "none" /\ ctx[c].want = "none"
  /\ \A c \in CPUs, d \in CPUs : c # d => cpu[c].cur # cpu[d].cur
  /\ \A c \in CPUs, k \in Locks : lock[k] = c <=> (Cur(c).want = "none" /\ Holds(Where(Cur(c))) = k)
  /\ \A t \in Threads : /\ ctx[t].pc # "scheduler"
                        /\ ctx[t].state \in {"RUNNABLE", "SLEEPING"} => Off(ctx[t])


-----------------------------------------------------------------------------
(* x is on its way to the call of uartstart, or in it. *)
OnItsWay(x) ==
  \/ x.trap \in {"getc", "consoleintr", "echo", "echo_thr", "store", "cons_rel"}
  \/ Where(x) \in {"start", "thr"}

-----------------------------------------------------------------------------
(* The records of the rings and of the devices. *)
IoTypes ==
  /\ DOMAIN tx = {"r", "w", "buf"} /\ DOMAIN cons = {"r", "w", "e", "buf"}
  /\ DOMAIN uart = {"fifo", "rx"} /\ DOMAIN plic = {"pending", "claimed"}

(* uart_tx_buf holds the numbers of the characters from r to w. *)
TxRing ==
  /\ tx.r \in Nat /\ tx.w \in Nat /\ tx.r <= tx.w /\ tx.w <= tx.r + UART_TX_BUF_SIZE
  /\ DOMAIN tx.buf = 0..UART_TX_BUF_SIZE - 1
  /\ \A i \in Nat : tx.r <= i /\ i < tx.w => tx.buf[i % UART_TX_BUF_SIZE] = i + 1

(* The CPUs that have found THR empty and are about to write to it. *)
Writers == {c \in CPUs : Where(Cur(c)) \in {"thr", "echo_thr"}}

(* All characters up to r have been sent, but for the one that a CPU has   *)
(* taken from the buffer; and no character finds the FIFO full.            *)
SentExact ==
  /\ sent \in Nat /\ uart.fifo \in Nat
  /\ (\A c \in CPUs : Where(Cur(c)) # "thr") => sent = tx.r
  /\ \A c \in CPUs : Where(Cur(c)) = "thr" => sent + 1 = tx.r /\ Cur(c).ch = tx.r
  /\ uart.fifo + Cardinality(Writers) <= Cardinality(CPUs)

(* Who sleeps, or is about to, has a reason. *)
SleepExact ==
  /\ \A t \in Threads : ctx[t].state = "SLEEPING" =>
       \/ ctx[t].chan = "tx" /\ Full
       \/ ctx[t].chan = "cons" /\ cons.r = cons.w
       \/ ctx[t].chan = "ticks" /\ TooEarly(ctx[t])
  /\ \A c \in CPUs : /\ Where(Cur(c)) = "r_sleep" => cons.r = cons.w
                     /\ Where(Cur(c)) = "s_sleep" => TooEarly(Cur(c))

(* What waits in the ring will be sent. *)
Moving == tx.r # tx.w => uart.fifo > 0 \/ plic.pending \/ \E c \in CPUs : OnItsWay(Cur(c))

IoInv == TxRing /\ SentExact /\ SleepExact /\ Moving

(* The inductive invariant, but for the types of the records. *)
TtyInv == CpuInv /\ IoInv

-----------------------------------------------------------------------------
(* What is needed of the numbers of CPUs. *)
Counting ==
  \A S \in SUBSET CPUs : /\ Cardinality(S) \in Nat /\ Cardinality(S) <= Cardinality(CPUs)
                         /\ \A c \in S : Cardinality(S \ {c}) = Cardinality(S) - 1

(* The invariant holds at the start. *)
LEMMA InitCpu ==
  ASSUME Init
  PROVE  CpuInv
<1>1. /\ cpu = [c \in CPUs |-> [intr |-> 1, stvec |-> "kernel", noff |-> 0, intena |-> 1, cur |-> c]]
      /\ lock = [k \in Locks |-> "free"] /\ ~panicked
      /\ ctx = [k \in Contexts |->
                 IF k \in CPUs THEN Context("scheduler", "RUNNING")
                 ELSE Context("usertrapret", IF left.prog[k] = "none" THEN "UNUSED" ELSE "RUNNABLE")]
  BY Zenon DEF Init, Contexts
<1>2. ASSUME NEW p \in Body, NEW s
      PROVE  /\ IsContext(Context(p, s)) /\ Where(Context(p, s)) = p /\ Context(p, s).pc = p
             /\ Context(p, s).state = s /\ Context(p, s).trap = "none" /\ Context(p, s).want = "none"
  BY DEF Context, IsContext, Fields, Where
<1>3. /\ "scheduler" \in Body /\ "usertrapret" \in Body /\ Nest("scheduler") = 0 /\ Holds("scheduler") = "none"
      /\ Nest("usertrapret") = 0 /\ "usertrapret" \notin Outside /\ "scheduler" \notin Outside
  BY DEF Body, Nest, Holds, Outside
<1>4. ASSUME NEW c \in CPUs
      PROVE  /\ IsCpu(cpu[c]) /\ cpu[c].cur = c /\ cpu[c].noff = 0 /\ cpu[c].intr = 1 /\ cpu[c].stvec = "kernel"
             /\ ctx[c] = Context("scheduler", "RUNNING") /\ Cur(c) = Context("scheduler", "RUNNING")
  BY <1>1 DEF IsCpu, Contexts, Cur
<1>5. ASSUME NEW t \in Threads
      PROVE  ctx[t] = Context("usertrapret", IF left.prog[t] = "none" THEN "UNUSED" ELSE "RUNNABLE")
  BY <1>1, TtyAssumption DEF Contexts
<1>6. ASSUME NEW c \in CPUs
      PROVE  /\ Fits(cpu[c], Cur(c)) /\ ctx[c].pc = "scheduler" /\ ctx[c].state = "RUNNING"
             /\ Cur(c).state = "RUNNING" /\ Cur(c).want = "none" /\ Where(Cur(c)) = "scheduler" /\ IsContext(ctx[c])
  BY <1>2, <1>3, <1>4 DEF Fits
<1>7. ASSUME NEW t \in Threads
      PROVE  IsContext(ctx[t]) /\ ctx[t].pc = "usertrapret" /\ Off(ctx[t]) /\ ctx[t].state # "SLEEPING"
  <2>1. PICK s \in {"UNUSED", "RUNNABLE"} : ctx[t] = Context("usertrapret", s)
    BY <1>5
  <2> QED BY <2>1, <1>2, <1>3 DEF Off
<1>8. \A c \in CPUs, k \in Locks : lock[k] # c /\ Holds(Where(Cur(c))) # k
  BY <1>1, <1>3, <1>6, TtyAssumption, Zenon
<1>9. CpuTypes
  <2>1. \A k \in Contexts : IsContext(ctx[k])
    BY <1>6, <1>7, Zenon DEF Contexts
  <2>2. lock \in [Locks -> CPUs \cup {"free"}]
    BY <1>1
  <2>3. /\ DOMAIN cpu = CPUs /\ cpu = [c \in CPUs |-> cpu[c]]
        /\ DOMAIN ctx = Contexts /\ ctx = [k \in Contexts |-> ctx[k]]
    BY <1>1
  <2> QED BY <1>4, <2>1, <2>2, <2>3, Zenon DEF CpuTypes
<1>10. \A c \in CPUs, d \in CPUs : c # d => cpu[c].cur # cpu[d].cur
  BY <1>4, Zenon
<1>11. \A c \in CPUs : cpu[c].cur = c
  BY <1>4, Zenon
<1>12. ~panicked
  BY <1>1, Zenon
<1>13. \A t \in Threads : ctx[t].pc # "scheduler"
  BY <1>7
<1> QED BY <1>6, <1>7, <1>8, <1>9, <1>10, <1>11, <1>12, <1>13, Zenon DEF CpuInv

(* The rings are empty, nobody runs and nobody sleeps. *)
LEMMA InitTty ==
  ASSUME Init, Counting
  PROVE  TtyInv /\ IoTypes
<1>1. /\ tx = [r |-> 0, w |-> 0, buf |-> [i \in 0..UART_TX_BUF_SIZE - 1 |-> 0]]
      /\ uart = [fifo |-> 0, rx |-> <<>>] /\ sent = 0
  BY Zenon DEF Init
<1>2. IoTypes
  BY DEF Init, IoTypes
<1>3. TxRing
  BY <1>1, TtyAssumption DEF TxRing
<1>4. ASSUME NEW c \in CPUs
      PROVE  Where(Cur(c)) = "scheduler"
  BY DEF Init, Cur, Where, Context
<1>5. SentExact
  <2>1. Writers \in SUBSET CPUs
    BY Zenon DEF Writers
  <2>2. Cardinality(Writers) \in Nat /\ Cardinality(Writers) <= Cardinality(CPUs)
    BY <2>1, Zenon DEF Counting
  <2>3. uart.fifo = 0 /\ tx.r = 0 /\ sent = 0
    BY <1>1
  <2> QED BY <1>4, <2>2, <2>3 DEF SentExact
<1>6. SleepExact
  <2>1. ASSUME NEW t \in Threads PROVE ctx[t].state # "SLEEPING"
    BY TtyAssumption DEF Init, Context
  <2> QED BY <1>4, <2>1 DEF SleepExact
<1>7. Moving
  BY <1>1 DEF Moving
<1> QED BY <1>2, <1>3, <1>5, <1>6, <1>7, InitCpu, Zenon DEF TtyInv, IoInv

(* Who sleeps has a reason, whether the lock is free or not. *)
LEMMA InvWakeups ==
  ASSUME TtyInv
  PROVE  NoLostWakeup
<1>1. ASSUME NEW t \in Threads, ctx[t].state = "SLEEPING"
      PROVE  CASE ctx[t].chan = "tx" -> lock["tx"] = "free" => Full
               [] ctx[t].chan = "cons" -> lock["cons"] = "free" => cons.r = cons.w
               [] ctx[t].chan = "ticks" -> lock["ticks"] = "free" => TooEarly(ctx[t])
  <2>1. \/ ctx[t].chan = "tx" /\ Full
        \/ ctx[t].chan = "cons" /\ cons.r = cons.w
        \/ ctx[t].chan = "ticks" /\ TooEarly(ctx[t])
    BY <1>1, Zenon DEF TtyInv, IoInv, SleepExact
  <2> QED BY <2>1, Zenon
<1> QED BY <1>1, Zenon DEF NoLostWakeup

-----------------------------------------------------------------------------
(* Context x goes on as y, at place q. *)
Becomes(x, y, q) ==
  /\ IsContext(y) /\ Where(y) = q /\ y.state = x.state
  /\ y.pc = "scheduler" <=> x.pc = "scheduler"

(* The same within a handler or outside any. *)
To(x, y, q) ==
  /\ Becomes(x, y, q)
  /\ y.trap = "none" <=> x.trap = "none"
  /\ x.trap # "none" => y.pc = x.pc

(* q is a place of a handler if x is in one, and of a thread otherwise. *)
Legal(x, q) == IF x.trap = "none" THEN q \in Body \ {"scheduler"} ELSE q \in Handler

(* Goto changes the place of a context, within its handler or outside any. *)
LEMMA GotoIs ==
  ASSUME NEW x, NEW q, IsContext(x), Where(x) # "scheduler", Legal(x, q)
  PROVE  /\ To(x, Goto(x, q), q)
         /\ Goto(x, q).want = x.want /\ Goto(x, q).ch = x.ch /\ Goto(x, q).chan = x.chan
         /\ Goto(x, q).n = x.n /\ Goto(x, q).arg = x.arg
<1> USE DEF IsContext, Where, Legal, Goto, To, Becomes, Fields
<1>0. "none" \notin Handler
  BY Zenon DEF Handler
<1>1. CASE x.trap = "none"
  BY <1>1, <1>0, Zenon
<1>2. CASE x.trap # "none"
  BY <1>2, <1>0, Zenon
<1> QED BY <1>1, <1>2, Zenon

(* A context that asks for a lock, or has got it, is where it was. *)
LEMMA WantIs ==
  ASSUME NEW x, NEW y, NEW q, NEW k \in Locks \cup {"none"}, To(x, y, q)
  PROVE  To(x, [y EXCEPT !.want = k], q) /\ [y EXCEPT !.want = k].want = k
BY Zenon DEF To, Becomes, IsContext, Where, Fields

-----------------------------------------------------------------------------
(* What a step on another CPU may do to a context. *)
Same(x, y) ==
  /\ IsContext(y) /\ y.pc = x.pc /\ y.trap = x.trap /\ y.want = x.want /\ y.intena = x.intena
  /\ y.ch = x.ch /\ y.chan = x.chan /\ y.n = x.n /\ y.arg = x.arg
  /\ y.state = x.state \/ (x.state = "SLEEPING" /\ y.state = "RUNNABLE")

(* The context of CPU c becomes y. *)
Moves(c, y) ==
  /\ DOMAIN ctx' = Contexts /\ ctx' = [k \in Contexts |-> ctx'[k]]
  /\ ctx'[cpu[c].cur] = y
  /\ \A k \in Contexts : k # cpu[c].cur => Same(ctx[k], ctx'[k])

(* An assignment to the context of CPU c changes no other context. *)
LEMMA SetMoves ==
  ASSUME CpuInv, NEW c \in CPUs, NEW y, Set(c, y)
  PROVE  Moves(c, y) /\ \A k \in Contexts : k # cpu[c].cur => ctx'[k] = ctx[k]
<1>1. cpu[c].cur \in Contexts /\ DOMAIN ctx = Contexts
  BY Zenon DEF CpuInv, CpuTypes, IsCpu
<1>2. \A k \in Contexts : IsContext(ctx[k])
  BY Zenon DEF CpuInv, CpuTypes
<1>3. /\ DOMAIN ctx' = Contexts /\ ctx' = [k \in Contexts |-> ctx'[k]]
      /\ ctx'[cpu[c].cur] = y
      /\ \A k \in Contexts : k # cpu[c].cur => ctx'[k] = ctx[k]
  BY <1>1, Zenon DEF Set
<1>4. \A k \in Contexts : k # cpu[c].cur => Same(ctx[k], ctx'[k])
  BY <1>2, <1>3, Zenon DEF Same
<1> QED BY <1>3, <1>4, Zenon DEF Moves

(* After a wakeup on chan nobody sleeps on it, and only states have        *)
(* changed.                                                                *)
LEMMA WokenMoves ==
  ASSUME CpuInv, NEW c \in CPUs, NEW y, NEW chan,
         ctx' = [Woken(ctx, chan) EXCEPT ![cpu[c].cur] = y]
  PROVE  /\ Moves(c, y)
         /\ \A k \in Contexts : k # cpu[c].cur => ~(ctx'[k].state = "SLEEPING" /\ ctx'[k].chan = chan)
<1>1. cpu[c].cur \in Contexts /\ DOMAIN ctx = Contexts
  BY Zenon DEF CpuInv, CpuTypes, IsCpu
<1>2. \A k \in Contexts : IsContext(ctx[k])
  BY Zenon DEF CpuInv, CpuTypes
<1>3. /\ DOMAIN ctx' = Contexts /\ ctx' = [k \in Contexts |-> ctx'[k]]
      /\ ctx'[cpu[c].cur] = y
      /\ \A k \in Contexts : k # cpu[c].cur => 
           ctx'[k] = IF ctx[k].state = "SLEEPING" /\ ctx[k].chan = chan
                     THEN [ctx[k] EXCEPT !.state = "RUNNABLE"] ELSE ctx[k]
  BY <1>1, Zenon DEF Woken
<1>4. ASSUME NEW k \in Contexts, k # cpu[c].cur
      PROVE  Same(ctx[k], ctx'[k]) /\ ~(ctx'[k].state = "SLEEPING" /\ ctx'[k].chan = chan)
  BY <1>2, <1>3, <1>4 DEF Same, IsContext, Fields
<1> QED BY <1>3, <1>4, Zenon DEF Moves

(* What the invariant says of the CPU that takes a step. *)
LEMMA CurFacts ==
  ASSUME CpuInv, NEW c \in CPUs
  PROVE  /\ IsCpu(cpu[c]) /\ cpu[c].cur \in Contexts /\ IsContext(Cur(c))
         /\ Fits(cpu[c], Cur(c)) /\ Cur(c).state = "RUNNING"
         /\ lock \in [Locks -> CPUs \cup {"free"}]
         /\ \A k \in Locks : lock[k] = c <=> (Cur(c).want = "none" /\ Holds(Where(Cur(c))) = k)
<1>1. IsCpu(cpu[c]) /\ lock \in [Locks -> CPUs \cup {"free"}]
  BY Zenon DEF CpuInv, CpuTypes
<1>2. cpu[c].cur \in Contexts
  BY <1>1, Zenon DEF IsCpu
<1>3. IsContext(Cur(c))
  BY <1>2, Zenon DEF CpuInv, CpuTypes, Cur
<1> QED BY <1>1, <1>2, <1>3, Zenon DEF CpuInv

(* What the invariant says of the three properties. *)
LEMMA InvSafe ==
  ASSUME TtyInv
  PROVE  InterruptsSafe
<1>1. CpuInv
  BY Zenon DEF TtyInv
<1>2. ASSUME NEW c \in CPUs, Cur(c).trap # "none" PROVE cpu[c].intr = 0
  BY <1>1, <1>2, CurFacts, Zenon DEF Fits
<1> QED BY <1>1, <1>2, Zenon DEF InterruptsSafe, CpuInv

(* Who is on the way to uartstart holds the lock, waits for it or is a     *)
(* handler before it.                                                      *)
LEMMA InvMoves ==
  ASSUME TtyInv
  PROVE  OutputMoves
<1>0. CpuInv /\ Moving /\ "tx" \in Locks /\ "free" \notin CPUs
  BY TtyAssumption, Zenon DEF TtyInv, IoInv
<1>1. ASSUME NEW c \in CPUs, OnItsWay(Cur(c))
      PROVE  \/ lock["tx"] # "free"
             \/ \E k \in DOMAIN ctx :
                  \/ ctx[k].want = "tx"
                  \/ ctx[k].trap \in {"getc", "consoleintr", "echo", "echo_thr", "store", "cons_rel"}
  <2>1. /\ cpu[c].cur \in DOMAIN ctx /\ Fits(cpu[c], Cur(c))
        /\ lock["tx"] = c <=> (Cur(c).want = "none" /\ Holds(Where(Cur(c))) = "tx")
    <3>1. DOMAIN ctx = Contexts
      BY <1>0, Zenon DEF CpuInv, CpuTypes
    <3> QED BY <1>0, <3>1, CurFacts, Zenon
  <2>2. CASE Where(Cur(c)) \in {"start", "thr"}
    <3>1. Holds(Where(Cur(c))) = "tx"
      BY <2>2 DEF Holds
    <3>2. CASE Cur(c).want = "none"
      BY <1>0, <2>1, <3>1, <3>2, Zenon
    <3>3. CASE Cur(c).want # "none"
      <4>1. Cur(c).want = "tx"
        BY <2>1, <3>1, <3>3, Zenon DEF Fits
      <4> QED BY <2>1, <4>1, Zenon DEF Cur
    <3> QED BY <3>2, <3>3, Zenon
  <2>3. CASE Cur(c).trap \in {"getc", "consoleintr", "echo", "echo_thr", "store", "cons_rel"}
    BY <2>1, <2>3, Zenon DEF Cur
  <2> QED BY <1>1, <2>2, <2>3, Zenon DEF OnItsWay
<1> QED BY <1>0, <1>1, Zenon DEF Moving, OutputMoves

(* What has to be shown of a thread or a scheduler. *)
Sound(k, x) ==
  /\ IsContext(x)
  /\ k \in CPUs => x.pc = "scheduler" /\ x.state = "RUNNING"
  /\ k \in Threads => /\ x.pc # "scheduler"
                      /\ x.state \in {"RUNNABLE", "SLEEPING"} => Off(x)

(* The locks of CPU c, which runs x. *)
LocksOf(c, x) ==
  /\ lock' \in [Locks -> CPUs \cup {"free"}]
  /\ \A k \in Locks : lock'[k] = c <=> (x.want = "none" /\ Holds(Where(x)) = k)
  /\ \A k \in Locks, e \in CPUs : e # c => (lock'[k] = e <=> lock[k] = e)

(* The other CPUs go on with what they do, and nobody falls asleep but the *)
(* context of CPU c.                                                       *)
Calm(c) ==
  /\ \A e \in CPUs : e # c => Same(Cur(e), Cur(e)')
  /\ \A t \in Threads : t # cpu[c].cur /\ ctx'[t].state = "SLEEPING" => Same(ctx[t], ctx'[t])

(* CPU c has kept the invariant and goes on with x. *)
GoesOn(c, x) == CpuInv' /\ Calm(c) /\ Cur(c)' = x

(* The same, in the context in which it was, now at place q. *)
Steps(c, x, q) ==
  /\ GoesOn(c, x) /\ Where(x) = q
  /\ ctx'[cpu[c].cur].state # "SLEEPING"

(* CPU c becomes d, in the same context or in another one that nobody runs; *)
(* all contexts but these two stay.                                         *)
LEMMA Step ==
  ASSUME CpuInv, NEW c \in CPUs, NEW d, IsCpu(d), cpu' = [cpu EXCEPT ![c] = d], ~panicked',
         DOMAIN ctx' = Contexts, ctx' = [k \in Contexts |-> ctx'[k]],
         \A k \in Contexts : \/ Same(ctx[k], ctx'[k])
                             \/ k \in {cpu[c].cur, d.cur} /\ Sound(k, ctx'[k]),
         \A e \in CPUs : e # c => d.cur # cpu[e].cur,
         Fits(d, ctx'[d.cur]), ctx'[d.cur].state = "RUNNING", LocksOf(c, ctx'[d.cur]),
         d.cur # c => d.cur \in Threads /\ ctx'[c].trap = "none" /\ ctx'[c].want = "none"
  PROVE  GoesOn(c, ctx'[d.cur])
<1>1. /\ DOMAIN cpu' = CPUs /\ cpu' = [e \in CPUs |-> cpu'[e]] /\ cpu'[c] = d
      /\ \A e \in CPUs : e # c => cpu'[e] = cpu[e]
      /\ \A e \in CPUs : IsCpu(cpu'[e])
  BY DEF CpuInv, CpuTypes
<1>2. ASSUME NEW k \in Contexts PROVE Sound(k, ctx'[k])
  <2>1. Sound(k, ctx[k])
    BY Zenon DEF Sound, CpuInv, CpuTypes
  <2>2. CASE Same(ctx[k], ctx'[k])
    BY <2>1, <2>2, TtyAssumption DEF Sound, Same, Off, Where
  <2> QED BY <2>2, Zenon
<1>3. CpuTypes'
  <2>1. lock' \in [Locks -> CPUs \cup {"free"}] /\ \A k \in Contexts : IsContext(ctx'[k])
    BY <1>2, Zenon DEF LocksOf, Sound
  <2> QED BY <1>1, <2>1, Zenon DEF CpuTypes, IsContext
<1>4. ASSUME NEW e \in CPUs, e # c
      PROVE  /\ cpu'[e] = cpu[e] /\ Same(Cur(e), ctx'[cpu[e].cur])
             /\ Fits(cpu[e], ctx'[cpu[e].cur]) /\ ctx'[cpu[e].cur].state = "RUNNING"
             /\ \A k \in Locks : lock'[k] = e <=> (ctx'[cpu[e].cur].want = "none" /\ Holds(Where(ctx'[cpu[e].cur])) = k)
             /\ cpu[e].cur # e => cpu[e].cur \in Threads /\ ctx'[e].trap = "none" /\ ctx'[e].want = "none"
  <2> DEFINE x == ctx[cpu[e].cur]
             y == ctx'[cpu[e].cur]
  <2>1. /\ cpu[e].cur \in Contexts /\ e \in Contexts /\ cpu[e].cur # cpu[c].cur /\ cpu[e].cur # d.cur
        /\ Fits(cpu[e], x) /\ x.state = "RUNNING"
        /\ \A k \in Locks : lock[k] = e <=> (x.want = "none" /\ Holds(Where(x)) = k)
        /\ cpu[e].cur # e => /\ cpu[e].cur \in Threads /\ ctx[e].trap = "none" /\ ctx[e].want = "none"
    <3>1. /\ cpu[e].cur \in Contexts /\ Fits(cpu[e], x) /\ x.state = "RUNNING"
          /\ \A k \in Locks : lock[k] = e <=> (x.want = "none" /\ Holds(Where(x)) = k)
      BY CurFacts, Zenon DEF Cur
    <3>2. /\ cpu[e].cur # cpu[c].cur
          /\ cpu[e].cur # e => /\ cpu[e].cur \in Threads /\ ctx[e].trap = "none" /\ ctx[e].want = "none"
      BY <1>4 DEF CpuInv
    <3> QED BY <1>4, <3>1, <3>2, Zenon DEF Contexts
  <2>2. Same(x, y)
    BY <2>1, Zenon
  <2>3. y.pc = x.pc /\ y.trap = x.trap /\ y.want = x.want /\ y.state = "RUNNING" /\ Where(y) = Where(x)
    BY <2>1, <2>2, Zenon DEF Same, Where
  <2>4. e # cpu[c].cur /\ e # d.cur
    BY <1>4, TtyAssumption DEF CpuInv
  <2>5. Same(ctx[e], ctx'[e])
    BY <2>1, <2>4, Zenon
  <2>6. ctx'[e].trap = ctx[e].trap /\ ctx'[e].want = ctx[e].want
    BY <2>5, Zenon DEF Same
  <2> HIDE DEF x, y
  <2>7. Fits(cpu[e], y)
    BY <2>1, <2>3, Zenon DEF Fits
  <2> QED BY <1>1, <1>4, <2>1, <2>2, <2>3, <2>6, <2>7 DEF x, y, LocksOf, Cur
<1>5. \A e \in CPUs, f \in CPUs : e # f => cpu'[e].cur # cpu'[f].cur
  BY <1>1 DEF CpuInv
<1>6. ASSUME NEW e \in CPUs
      PROVE  /\ Fits(cpu'[e], ctx'[cpu'[e].cur]) /\ ctx'[cpu'[e].cur].state = "RUNNING"
             /\ \A k \in Locks : lock'[k] = e <=> (ctx'[cpu'[e].cur].want = "none" /\ Holds(Where(ctx'[cpu'[e].cur])) = k)
             /\ cpu'[e].cur # e => cpu'[e].cur \in Threads /\ ctx'[e].trap = "none" /\ ctx'[e].want = "none"
  <2>1. CASE e = c
    BY <2>1, <1>1, Zenon DEF LocksOf
  <2>2. CASE e # c
    BY <2>2, <1>4
  <2> QED BY <2>1, <2>2, Zenon
<1>7. /\ \A e \in CPUs : ctx'[e].pc = "scheduler" /\ ctx'[e].state = "RUNNING"
      /\ \A t \in Threads : /\ ctx'[t].pc # "scheduler"
                            /\ ctx'[t].state \in {"RUNNABLE", "SLEEPING"} => Off(ctx'[t])
  BY <1>2, Zenon DEF Sound, Contexts
<1>8. Calm(c)
  <2>1. \A e \in CPUs : e # c => Same(Cur(e), Cur(e)')
    BY <1>4, Zenon DEF Cur
  <2>2. \A t \in Threads : t # cpu[c].cur /\ ctx'[t].state = "SLEEPING" => Same(ctx[t], ctx'[t])
    BY Zenon DEF Contexts
  <2> QED BY <2>1, <2>2, Zenon DEF Calm
<1>9. Cur(c)' = ctx'[d.cur]
  BY <1>1, Zenon DEF Cur
<1>10. CpuInv'
  BY <1>3, <1>5, <1>6, <1>7 DEF CpuInv, Cur
<1> QED BY <1>8, <1>9, <1>10, Zenon DEF GoesOn

(* CPU c goes on in the same context. *)
LEMMA Advance ==
  ASSUME CpuInv, NEW c \in CPUs, NEW d, NEW y, NEW q, Moves(c, y), IsCpu(d),
         cpu' = [cpu EXCEPT ![c] = d], d.cur = cpu[c].cur, ~panicked', Fits(d, y),
         Becomes(Cur(c), y, q), LocksOf(c, y)
  PROVE  Steps(c, y, q)
<1> DEFINE u == cpu[c].cur
<1>1. /\ u \in Contexts /\ Cur(c).state = "RUNNING" /\ (u # c => u \in Threads)
      /\ u # c => ctx[c].trap = "none" /\ ctx[c].want = "none"
      /\ Cur(c).pc = "scheduler" <=> u \notin Threads
      /\ \A e \in CPUs : e # c => u # cpu[e].cur
  BY TtyAssumption DEF CpuInv, Contexts, Cur
<1>0. /\ IsContext(y) /\ y.state = Cur(c).state /\ Where(y) = q
      /\ y.pc = "scheduler" <=> Cur(c).pc = "scheduler"
  BY Zenon DEF Becomes
<1>2. Sound(u, y)
  BY <1>0, <1>1, TtyAssumption, Zenon DEF Sound
<1>3. /\ DOMAIN ctx' = Contexts /\ ctx' = [k \in Contexts |-> ctx'[k]] /\ ctx'[u] = y
      /\ \A k \in Contexts : k # u => Same(ctx[k], ctx'[k])
  BY Zenon DEF Moves
<1>4. u # c => ctx'[c].trap = "none" /\ ctx'[c].want = "none"
  BY <1>1, <1>3, Zenon DEF Same, Contexts
<1> HIDE DEF u
<1>5. d.cur = u /\ cpu[c].cur = u
  BY Zenon DEF u
<1>6. \A k \in Contexts : \/ Same(ctx[k], ctx'[k])
                          \/ k \in {cpu[c].cur, d.cur} /\ Sound(k, ctx'[k])
  BY <1>2, <1>3, <1>5, Zenon
<1>7. /\ Fits(d, ctx'[d.cur]) /\ ctx'[d.cur].state = "RUNNING" /\ LocksOf(c, ctx'[d.cur])
      /\ d.cur # c => d.cur \in Threads /\ ctx'[c].trap = "none" /\ ctx'[c].want = "none"
      /\ \A e \in CPUs : e # c => d.cur # cpu[e].cur
  BY <1>0, <1>1, <1>3, <1>4, <1>5, Zenon
<1>8. GoesOn(c, ctx'[d.cur])
  BY <1>3, <1>6, <1>7, Step, Zenon
<1>9. ctx'[cpu[c].cur].state # "SLEEPING"
  BY <1>0, <1>1, <1>3, <1>5, Zenon
<1>10. ctx'[d.cur] = y
  BY <1>3, <1>5, Zenon
<1> QED BY <1>0, <1>8, <1>9, <1>10, Zenon DEF Steps

-----------------------------------------------------------------------------
(* Locks and push_off go together. *)
LEMMA NestIs ==
  ASSUME NEW p
  PROVE  /\ Holds(p) = "none" => Nest(p) = 0
         /\ Nest(p) = 0 => Holds(p) = "none"
         /\ p \in Entry => Nest(p) = 1 /\ p \notin Outside /\ Holds(p) \in Locks
         /\ Holds(p) # "none" => p \notin Outside
BY TtyAssumption DEF Holds, Nest, Entry, Outside

(* What push_off does to a CPU. *)
LEMMA PushIs ==
  ASSUME NEW x, IsCpu(x)
  PROVE  /\ IsCpu(push_off(x)) /\ push_off(x).cur = x.cur /\ push_off(x).noff = x.noff + 1
         /\ push_off(x).intr = 0 /\ push_off(x).stvec = x.stvec
         /\ push_off(x).intena = IF x.noff = 0 THEN x.intr ELSE x.intena
BY DEF push_off, IsCpu

(* What pop_off does to a CPU. *)
LEMMA PopIs ==
  ASSUME NEW x, IsCpu(x), x.noff > 0
  PROVE  /\ IsCpu(pop_off(x)) /\ pop_off(x).cur = x.cur /\ pop_off(x).noff = x.noff - 1
         /\ pop_off(x).intr = IF x.noff = 1 /\ x.intena = 1 THEN 1 ELSE x.intr
         /\ pop_off(x).stvec = x.stvec /\ pop_off(x).intena = x.intena
BY DEF pop_off, IsCpu

(* A step within the same critical section, or outside any. *)
LEMMA Walk ==
  ASSUME CpuInv, NEW c \in CPUs, NEW p, NEW q, NEW y, At(c, p),
         Moves(c, y), To(Cur(c), y, q), y.want = "none",
         Holds(q) = Holds(p), Nest(q) = Nest(p), p \notin Outside, q \notin Outside,
         UNCHANGED <<cpu, lock, panicked>>
  PROVE  Steps(c, y, q)
<1>1. /\ IsCpu(cpu[c]) /\ Fits(cpu[c], Cur(c)) /\ lock \in [Locks -> CPUs \cup {"free"}]
      /\ \A k \in Locks : lock[k] = c <=> (Cur(c).want = "none" /\ Holds(Where(Cur(c))) = k)
  BY CurFacts, Zenon
<1>2. Where(Cur(c)) = p /\ Cur(c).want = "none" /\ ~panicked
  BY Zenon DEF At
<1>3. /\ IsContext(y) /\ Where(y) = q /\ y.state = Cur(c).state
      /\ y.pc = "scheduler" <=> Cur(c).pc = "scheduler"
      /\ y.trap = "none" <=> Cur(c).trap = "none"
      /\ Cur(c).trap # "none" => y.pc = Cur(c).pc
  BY Zenon DEF To, Becomes
<1>4. Fits(cpu[c], y)
  BY <1>1, <1>2, <1>3, Zenon DEF Fits, Outside
<1>5. cpu' = [cpu EXCEPT ![c] = cpu[c]]
  BY DEF CpuInv, CpuTypes
<1>6. ~panicked' /\ LocksOf(c, y)
  BY <1>1, <1>2, <1>3, Zenon DEF LocksOf
<1>7. Becomes(Cur(c), y, q)
  BY Zenon DEF To
<1> QED BY <1>1, <1>4, <1>5, <1>6, <1>7, Advance, Zenon

(* acquire, from a place without a lock. *)
LEMMA Acquires ==
  ASSUME CpuInv, NEW c \in CPUs, NEW p, NEW q, NEW k \in Locks, NEW x, At(c, p),
         acquire(c, k, x, q), To(Cur(c), Goto(x, q), q),
         Holds(p) = "none", p \notin Outside, q \in Entry, Holds(q) = k
  PROVE  Steps(c, [Goto(x, q) EXCEPT !.want = k], q)
<1> DEFINE y == [Goto(x, q) EXCEPT !.want = k]
           d == push_off(cpu[c])
<1>1. /\ IsCpu(cpu[c]) /\ Fits(cpu[c], Cur(c)) /\ lock \in [Locks -> CPUs \cup {"free"}]
      /\ \A l \in Locks : lock[l] = c <=> (Cur(c).want = "none" /\ Holds(Where(Cur(c))) = l)
  BY CurFacts, Zenon
<1>2. Where(Cur(c)) = p /\ Cur(c).want = "none" /\ ~panicked
  BY Zenon DEF At
<1>3. "none" \notin Locks
  BY TtyAssumption, Zenon
<1>4. To(Cur(c), y, q) /\ Becomes(Cur(c), y, q) /\ y.want = k
  BY WantIs DEF To
<1>5. /\ IsContext(y) /\ Where(y) = q /\ y.state = Cur(c).state
      /\ y.pc = "scheduler" <=> Cur(c).pc = "scheduler"
      /\ y.trap = "none" <=> Cur(c).trap = "none"
      /\ Cur(c).trap # "none" => y.pc = Cur(c).pc
  BY <1>4, Zenon DEF To, Becomes
<1>6. /\ cpu' = [cpu EXCEPT ![c] = d] /\ Set(c, y) /\ panicked' = (lock[k] = c) /\ lock' = lock
  BY Zenon DEF acquire, CpuInv, CpuTypes
<1>7. cpu[c].noff = 0 /\ Nest(p) = 0 /\ Nest(q) = 1 /\ q \notin Outside
  BY <1>1, <1>2, NestIs, Zenon DEF Fits
<1>8. /\ IsCpu(d) /\ d.cur = cpu[c].cur /\ d.noff = 1 /\ d.intr = 0 /\ d.intena = cpu[c].intr
      /\ d.stvec = cpu[c].stvec
  BY <1>1, <1>7, PushIs
<1> HIDE DEF y, d
<1>9. Fits(d, y)
  BY <1>1, <1>2, <1>4, <1>5, <1>7, <1>8, Zenon DEF Fits, Outside
<1>10. ~panicked'
  BY <1>1, <1>2, <1>3, <1>6, Zenon
<1>11. Moves(c, y)
  BY <1>6, SetMoves, Zenon
<1>12. LocksOf(c, y)
  BY <1>1, <1>2, <1>3, <1>4, <1>5, <1>6, Zenon DEF LocksOf
<1>13. Steps(c, y, q)
  BY <1>4, <1>6, <1>8, <1>9, <1>10, <1>11, <1>12, Advance, Zenon
<1> QED BY <1>13, Zenon DEF y

(* release, of the lock that is held. *)
LEMMA Releases ==
  ASSUME CpuInv, NEW c \in CPUs, NEW p, NEW q, NEW k \in Locks, NEW x, At(c, p),
         release(c, k, x, q), To(Cur(c), Goto(x, q), q), Goto(x, q).want = "none",
         Holds(p) = k, Nest(p) = 1, Holds(q) = "none", q \notin Outside
  PROVE  Steps(c, Goto(x, q), q)
<1> DEFINE y == Goto(x, q)
           d == pop_off(cpu[c])
<1>1. /\ IsCpu(cpu[c]) /\ Fits(cpu[c], Cur(c)) /\ lock \in [Locks -> CPUs \cup {"free"}]
      /\ \A l \in Locks : lock[l] = c <=> (Cur(c).want = "none" /\ Holds(Where(Cur(c))) = l)
  BY CurFacts, Zenon
<1>2. Where(Cur(c)) = p /\ Cur(c).want = "none" /\ ~panicked
  BY Zenon DEF At
<1>3. "none" \notin Locks /\ "free" \notin CPUs
  BY TtyAssumption, Zenon
<1>4. Becomes(Cur(c), y, q)
  BY Zenon DEF To
<1>5. /\ IsContext(y) /\ Where(y) = q /\ y.state = Cur(c).state
      /\ y.pc = "scheduler" <=> Cur(c).pc = "scheduler"
      /\ y.trap = "none" <=> Cur(c).trap = "none"
      /\ Cur(c).trap # "none" => y.pc = Cur(c).pc
  BY Zenon DEF To, Becomes
<1>6. /\ cpu' = [cpu EXCEPT ![c] = d] /\ Set(c, y) /\ lock' = [lock EXCEPT ![k] = "free"]
      /\ panicked' = (lock[k] # c \/ CannotPop(cpu[c]))
  BY Zenon DEF release, CpuInv, CpuTypes
<1>7. /\ cpu[c].noff = 1 /\ cpu[c].intr = 0 /\ Nest(q) = 0 /\ p \notin Outside
      /\ Cur(c).trap # "none" => cpu[c].intena = 0
  BY <1>1, <1>2, <1>3, NestIs DEF Fits
<1>8. /\ IsCpu(d) /\ d.cur = cpu[c].cur /\ d.noff = 0 /\ d.stvec = cpu[c].stvec
      /\ Cur(c).trap # "none" => d.intr = 0
  BY <1>1, <1>7, PopIs
<1>10. ~panicked'
  <2>1. lock[k] = c
    BY <1>1, <1>2, Zenon
  <2>2. ~CannotPop(cpu[c])
    BY <1>7 DEF CannotPop
  <2> QED BY <2>1, <2>2, <1>6, Zenon
<1> HIDE DEF y, d
<1>9. Fits(d, y)
  BY <1>1, <1>2, <1>5, <1>7, <1>8 DEF Fits, Outside, y
<1>11. Moves(c, y)
  BY <1>6, SetMoves, Zenon
<1>12. LocksOf(c, y)
  BY <1>1, <1>2, <1>3, <1>5, <1>6 DEF LocksOf, y
<1>13. Steps(c, y, q)
  BY <1>4, <1>6, <1>8, <1>9, <1>10, <1>11, <1>12, Advance, Zenon
<1> QED BY <1>13, Zenon DEF y

(* CPU c goes back to its scheduler, and its thread stays behind as y. *)
LEMMA Leave ==
  ASSUME CpuInv, NEW c \in CPUs, NEW d, NEW y, Set(c, y), IsCpu(d), IsContext(y),
         cpu[c].cur # c, cpu' = [cpu EXCEPT ![c] = d], d.cur = c, d.noff = 0, d.stvec = "kernel",
         ~panicked', y.pc # "scheduler", y.state \in {"RUNNABLE", "SLEEPING"} => Off(y),
         lock' \in [Locks -> CPUs \cup {"free"}],
         \A k \in Locks : lock'[k] # c,
         \A k \in Locks, e \in CPUs : e # c => (lock'[k] = e <=> lock[k] = e)
  PROVE  GoesOn(c, ctx[c]) /\ ctx[c].trap = "none" /\ ctx[c].pc = "scheduler"
<1> DEFINE u == cpu[c].cur
<1>1. /\ u \in Threads /\ c \in Contexts /\ u \notin CPUs
      /\ \A e \in CPUs : e # c => c # cpu[e].cur
      /\ ctx[c].trap = "none" /\ ctx[c].want = "none"
      /\ ctx[c].pc = "scheduler" /\ ctx[c].state = "RUNNING"
  BY TtyAssumption DEF CpuInv, Contexts
<1>2. /\ DOMAIN ctx' = Contexts /\ ctx' = [k \in Contexts |-> ctx'[k]] /\ ctx'[u] = y
      /\ \A k \in Contexts : k # u => Same(ctx[k], ctx'[k]) /\ ctx'[k] = ctx[k]
  BY SetMoves, Zenon DEF Moves
<1>3. Sound(u, y)
  BY <1>1, Zenon DEF Sound
<1>4. ctx'[c] = ctx[c] /\ Where(ctx[c]) = "scheduler"
  BY <1>1, <1>2, Zenon DEF Where
<1>5. Fits(d, ctx'[c])
  BY <1>1, <1>4 DEF Fits, Nest, Holds, Outside, IsCpu
<1>6. LocksOf(c, ctx'[c])
  BY <1>4, TtyAssumption, Zenon DEF LocksOf, Holds
<1>7. \A k \in Contexts : \/ Same(ctx[k], ctx'[k])
                          \/ k \in {cpu[c].cur, d.cur} /\ Sound(k, ctx'[k])
  BY <1>2, <1>3, Zenon
<1>8. /\ Fits(d, ctx'[d.cur]) /\ ctx'[d.cur].state = "RUNNING" /\ LocksOf(c, ctx'[d.cur])
      /\ \A e \in CPUs : e # c => d.cur # cpu[e].cur
  BY <1>1, <1>4, <1>5, <1>6, Zenon
<1>9. GoesOn(c, ctx'[d.cur])
  BY <1>2, <1>7, <1>8, Step, Zenon
<1> QED BY <1>1, <1>4, <1>9, Zenon

-----------------------------------------------------------------------------
(* The places that the properties of the console are about. *)
Special ==
  {"thr", "echo_thr", "r_sleep", "s_sleep", "start", "getc", "consoleintr", "echo", "store", "cons_rel"}

Plain(x) == Where(x) \notin {"thr", "echo_thr", "r_sleep", "s_sleep"} /\ ~OnItsWay(x)

(* A step of CPU c that does not concern the console. *)
Quiet(c) == CpuInv' /\ Calm(c) /\ Plain(Cur(c)') /\ ctx'[cpu[c].cur].state # "SLEEPING"

(* Everything outside the special places is plain. *)
LEMMA PlainIs ==
  ASSUME NEW x, Where(x) \notin Special
  PROVE  Plain(x)
BY Zenon DEF Plain, Special, OnItsWay, Where

(* A step to a place that is not special is quiet. *)
LEMMA QuietSteps ==
  ASSUME NEW c \in CPUs, NEW y, NEW q, Steps(c, y, q), q \notin Special
  PROVE  Quiet(c)
BY PlainIs, Zenon DEF Steps, GoesOn, Quiet

(* The context of CPU c, unchanged. *)
LEMMA Stands ==
  ASSUME CpuInv, NEW c \in CPUs
  PROVE  To(Cur(c), Cur(c), Where(Cur(c)))
BY CurFacts, Zenon DEF To, Becomes

(* A place outside the handlers is a place of a thread or a scheduler. *)
LEMMA NoTrap ==
  ASSUME NEW x, IsContext(x), Where(x) \notin Handler
  PROVE  x.trap = "none" /\ x.pc = Where(x)
BY Zenon DEF IsContext, Where

(* A place that only handlers have is a place of a handler. *)
LEMMA InTrap ==
  ASSUME NEW x, IsContext(x), Where(x) \notin Body
  PROVE  x.trap = Where(x) /\ x.trap # "none"
BY Zenon DEF IsContext, Where

(* A CPU gets the lock that it spins for. *)
LEMMA StepSpin ==
  ASSUME CpuInv, NEW c \in CPUs, spin(c)
  PROVE  Steps(c, [Cur(c) EXCEPT !.want = "none"], Where(Cur(c)))
<1> DEFINE k == Cur(c).want
           y == [Cur(c) EXCEPT !.want = "none"]
<1>1. /\ IsCpu(cpu[c]) /\ Fits(cpu[c], Cur(c)) /\ lock \in [Locks -> CPUs \cup {"free"}] /\ IsContext(Cur(c))
      /\ \A l \in Locks : lock[l] = c <=> (Cur(c).want = "none" /\ Holds(Where(Cur(c))) = l)
  BY CurFacts, Zenon
<1>2. /\ k # "none" /\ lock[k] = "free" /\ lock' = [lock EXCEPT ![k] = c] /\ Set(c, y)
      /\ cpu' = cpu /\ ~panicked'
  BY Zenon DEF spin
<1>3. k \in Locks /\ "free" \notin CPUs
  BY <1>1, <1>2, TtyAssumption, Zenon DEF IsContext
<1>4. To(Cur(c), Cur(c), Where(Cur(c)))
  BY Stands, Zenon
<1>5. To(Cur(c), y, Where(Cur(c))) /\ Becomes(Cur(c), y, Where(Cur(c))) /\ y.want = "none"
  BY <1>4, WantIs DEF To
<1>6. Where(y) = Where(Cur(c)) /\ y.pc = Cur(c).pc /\ (y.trap = Cur(c).trap)
  BY <1>1, Zenon DEF Where, IsContext, Fields
<1> HIDE DEF y
<1>7. Fits(cpu[c], y)
  BY <1>1, <1>5, <1>6, Zenon DEF Fits
<1>8. Holds(Where(y)) = k
  BY <1>1, <1>2, <1>6, Zenon DEF Fits, k
<1>9. LocksOf(c, y)
  BY <1>1, <1>2, <1>3, <1>5, <1>8, Zenon DEF LocksOf, k
<1>10. Moves(c, y)
  BY <1>2, SetMoves, Zenon
<1>11. cpu' = [cpu EXCEPT ![c] = cpu[c]]
  BY <1>2 DEF CpuInv, CpuTypes
<1>12. Steps(c, y, Where(Cur(c)))
  BY <1>1, <1>2, <1>5, <1>7, <1>9, <1>10, <1>11, Advance, Zenon
<1> QED BY <1>12, Zenon DEF y

(* The scheduler of CPU c goes on with thread t. *)
LEMMA StepTake ==
  ASSUME CpuInv, NEW c \in CPUs, NEW t \in Threads, scheduler(c, t)
  PROVE  Quiet(c)
<1> DEFINE y == [ctx[t] EXCEPT !.state = "RUNNING", !.chan = "none", !.intena = 1]
           a == push_off(cpu[c])
           b == [a EXCEPT !.intena = ctx[t].intena]
           e == pop_off(b)
           d == [e EXCEPT !.cur = t]
<1>1. /\ IsCpu(cpu[c]) /\ Fits(cpu[c], Cur(c)) /\ lock \in [Locks -> CPUs \cup {"free"}]
      /\ \A l \in Locks : lock[l] = c <=> (Cur(c).want = "none" /\ Holds(Where(Cur(c))) = l)
  BY CurFacts, Zenon
<1>2. /\ Where(Cur(c)) = "scheduler" /\ Cur(c).want = "none" /\ ~panicked
      /\ ctx[t].state = "RUNNABLE" /\ cpu' = [cpu EXCEPT ![c] = d]
      /\ lock' = lock /\ ~panicked'
  BY Zenon DEF scheduler, At, Restored, CpuInv, CpuTypes
<1>3. /\ t \in Contexts /\ IsContext(ctx[t]) /\ Off(ctx[t]) /\ ctx[t].pc # "scheduler"
      /\ t \notin CPUs /\ c \in Contexts
  BY <1>2, TtyAssumption, Zenon DEF CpuInv, CpuTypes, Contexts
<1>4. Cur(c).trap = "none" /\ Cur(c).pc = "scheduler"
  BY <1>2, CurFacts, NoTrap, Zenon DEF Handler
<1>5. cpu[c].cur = c /\ cpu[c].noff = 0 /\ cpu[c].stvec = "kernel"
  <2>1. cpu[c].cur = c
    BY <1>4, Zenon DEF CpuInv, Cur
  <2> QED BY <2>1, <1>1, <1>2, Zenon DEF Fits, Nest, Holds, Outside
<1>6. /\ IsCpu(a) /\ a.noff = 1 /\ a.intr = 0 /\ a.stvec = "kernel"
  BY <1>1, <1>5, PushIs
<1>7. /\ IsCpu(b) /\ b.noff = 1 /\ b.intr = 0 /\ b.stvec = "kernel" /\ b.intena = ctx[t].intena
  BY <1>3, <1>6, Zenon DEF IsCpu, IsContext
<1>8. /\ IsCpu(e) /\ e.noff = 0 /\ e.intr = ctx[t].intena /\ e.stvec = "kernel"
  <2> HIDE DEF b
  <2>1. /\ IsCpu(e) /\ e.noff = b.noff - 1 /\ e.stvec = b.stvec
        /\ e.intr = IF b.noff = 1 /\ b.intena = 1 THEN 1 ELSE b.intr
    BY <1>7, PopIs
  <2>2. ctx[t].intena \in {0, 1}
    BY <1>3, Zenon DEF IsContext
  <2> HIDE DEF e
  <2> QED BY <1>7, <2>1, <2>2
<1>9. /\ IsCpu(d) /\ d.noff = 0 /\ d.intr = ctx[t].intena /\ d.stvec = "kernel" /\ d.cur = t
  BY <1>3, <1>8, Zenon DEF IsCpu
<1>10. /\ IsContext(y) /\ y.pc = ctx[t].pc /\ y.trap = ctx[t].trap /\ y.want = "none"
       /\ y.state = "RUNNING" /\ Where(y) = Where(ctx[t])
  BY <1>3, Zenon DEF IsContext, Fields, Where, Off
<1>11. /\ DOMAIN ctx' = Contexts /\ ctx' = [k \in Contexts |-> ctx'[k]] /\ ctx'[t] = y
       /\ \A k \in Contexts : k # t => ctx'[k] = ctx[k]
  BY <1>3 DEF scheduler, CpuInv, CpuTypes
<1> HIDE DEF y, a, b, e, d
<1>12. \A k \in Contexts : \/ Same(ctx[k], ctx'[k])
                           \/ k \in {cpu[c].cur, d.cur} /\ Sound(k, ctx'[k])
  <2>1. Sound(t, y)
    BY <1>3, <1>10, Zenon DEF Sound
  <2>2. \A k \in Contexts : Same(ctx[k], ctx[k])
    BY Zenon DEF Same, CpuInv, CpuTypes
  <2> QED BY <2>1, <2>2, <1>9, <1>11, Zenon
<1>13. Fits(d, y)
  BY <1>3, <1>9, <1>10 DEF Fits, Off, Outside
<1>14. Nest(Where(y)) = 0 /\ Holds(Where(y)) = "none" /\ "none" \notin Locks /\ Holds("scheduler") = "none"
  BY <1>3, <1>10, NestIs, TtyAssumption, Zenon DEF Off, Holds
<1>15. LocksOf(c, y)
  BY <1>1, <1>2, <1>14, Zenon DEF LocksOf
<1>16. \A f \in CPUs : f # c => d.cur # cpu[f].cur
  BY <1>2, <1>9, Zenon DEF CpuInv, Cur
<1>17. ctx'[c].trap = "none" /\ ctx'[c].want = "none" /\ ctx'[c].state # "SLEEPING"
  BY <1>2, <1>3, <1>4, <1>5, <1>11 DEF Cur, CpuInv
<1>18. GoesOn(c, ctx'[d.cur])
  BY <1>2, <1>3, <1>9, <1>10, <1>11, <1>12, <1>13, <1>15, <1>16, <1>17, Step, Zenon
<1>19. Plain(y)
  <2>1. Where(y) \notin Special
    BY <1>3, <1>10, <1>14 DEF Special, Holds, Off, Where, Body, IsContext
  <2> QED BY <2>1, PlainIs, Zenon
<1> QED BY <1>5, <1>9, <1>11, <1>17, <1>18, <1>19, Zenon DEF GoesOn, Quiet

(* A step in the same context, without a lock before and after it. *)
LEMMA Free ==
  ASSUME CpuInv, NEW c \in CPUs, NEW p, NEW q, NEW d, NEW y,
         Where(Cur(c)) = p, Cur(c).want = "none", ~panicked', lock' = lock,
         Set(c, y), Becomes(Cur(c), y, q), y.want = "none", Holds(p) = "none", Holds(q) = "none",
         cpu' = [cpu EXCEPT ![c] = d], IsCpu(d), d.cur = cpu[c].cur, d.noff = cpu[c].noff,
         y.trap # "none" => d.intr = 0 /\ Nest(y.pc) = 0 /\ y.pc # "sret",
         d.stvec = IF q \in Outside THEN "user" ELSE "kernel", q = "sret" => d.intr = 0
  PROVE  Steps(c, y, q)
<1>1. /\ Fits(cpu[c], Cur(c)) /\ lock \in [Locks -> CPUs \cup {"free"}]
      /\ \A l \in Locks : lock[l] = c <=> (Cur(c).want = "none" /\ Holds(Where(Cur(c))) = l)
  BY CurFacts, Zenon
<1>2. Where(y) = q /\ Nest(p) = 0 /\ Nest(q) = 0 /\ "none" \notin Locks
  BY NestIs, TtyAssumption, Zenon DEF Becomes
<1>3. d.noff = 0
  BY <1>1, <1>2, Zenon DEF Fits
<1>4. Fits(d, y)
  BY <1>2, <1>3 DEF Fits
<1>5. LocksOf(c, y)
  BY <1>1, <1>2, Zenon DEF LocksOf
<1>6. Moves(c, y)
  BY SetMoves, Zenon
<1> QED BY <1>4, <1>5, <1>6, Advance, Zenon

(* A thread without a lock gives up CPU c. *)
LEMMA Away ==
  ASSUME CpuInv, NEW c \in CPUs, NEW p, NEW d, NEW y,
         Where(Cur(c)) = p, Cur(c).pc # "scheduler", ~panicked', lock' = lock,
         Set(c, y), IsContext(y), y.pc # "scheduler", Holds(p) = "none",
         y.state = "ZOMBIE" \/ (y.state = "RUNNABLE" /\ Off(y)),
         cpu' = [cpu EXCEPT ![c] = d], IsCpu(d), d.cur = c, d.noff = 0, d.stvec = "kernel"
  PROVE  Quiet(c)
<1>1. /\ lock \in [Locks -> CPUs \cup {"free"}] /\ cpu[c].cur \in Contexts
      /\ \A l \in Locks : lock[l] = c <=> (Cur(c).want = "none" /\ Holds(Where(Cur(c))) = l)
  BY CurFacts, Zenon
<1>2. \A l \in Locks : lock'[l] # c
  BY <1>1, TtyAssumption, Zenon
<1>3. cpu[c].cur # c
  BY Zenon DEF CpuInv, Cur
<1>4. /\ lock' \in [Locks -> CPUs \cup {"free"}]
      /\ \A k \in Locks, e \in CPUs : e # c => (lock'[k] = e <=> lock[k] = e)
      /\ y.state \in {"RUNNABLE", "SLEEPING"} => Off(y)
  BY <1>1, Zenon
<1>5. GoesOn(c, ctx[c]) /\ ctx[c].trap = "none" /\ ctx[c].pc = "scheduler"
  BY <1>2, <1>3, <1>4, Leave, Zenon
<1>6. ctx'[cpu[c].cur].state # "SLEEPING"
  BY SetMoves, Zenon DEF Moves
<1>7. Plain(ctx[c])
  BY <1>5, PlainIs, Zenon DEF Where, Special
<1> QED BY <1>5, <1>6, <1>7, Zenon DEF GoesOn, Quiet

-----------------------------------------------------------------------------
(* The steps of Cpu, in the order of that module. *)
LEMMA StepOn ==
  ASSUME CpuInv, NEW c \in CPUs, scheduler_on(c)
  PROVE  Quiet(c)
<1> DEFINE d == [cpu[c] EXCEPT !.intr = 1]
<1>1. /\ Where(Cur(c)) = "scheduler" /\ Cur(c).want = "none" /\ ~panicked' /\ lock' = lock
      /\ ctx' = ctx /\ cpu' = [cpu EXCEPT ![c] = d]
  BY Zenon DEF scheduler_on, At, CpuInv, CpuTypes
<1>2. /\ IsCpu(cpu[c]) /\ IsContext(Cur(c)) /\ Fits(cpu[c], Cur(c)) /\ cpu[c].cur \in Contexts
      /\ To(Cur(c), Cur(c), "scheduler")
  BY <1>1, CurFacts, Stands, Zenon
<1>3. IsCpu(d) /\ d.cur = cpu[c].cur /\ d.noff = cpu[c].noff /\ d.stvec = cpu[c].stvec
  BY <1>2, Zenon DEF IsCpu
<1>4. Set(c, Cur(c))
  BY <1>1, <1>2 DEF Set, Cur, CpuInv, CpuTypes
<1>5. Cur(c).trap = "none" /\ Holds("scheduler") = "none" /\ cpu[c].stvec = "kernel"
  BY <1>1, <1>2, NoTrap, Zenon DEF Handler, Holds, Fits, Outside
<1>6. "scheduler" \notin Outside /\ "scheduler" \notin Special
  BY Zenon DEF Outside, Special
<1> HIDE DEF d
<1>7. Steps(c, Cur(c), "scheduler")
  BY <1>1, <1>2, <1>3, <1>4, <1>5, <1>6, Free, Zenon DEF To
<1> QED BY <1>6, <1>7, QuietSteps, Zenon

(* An interrupt finds the CPU outside all critical sections, with stvec as *)
(* the code it interrupts has set it.                                      *)
LEMMA StepTrap ==
  ASSUME CpuInv, NEW c \in CPUs, NEW h \in {"claim", "clockintr", "yield"}, trap(c, h)
  PROVE  Quiet(c) /\ Plain(Cur(c))
<1> DEFINE d == [cpu[c] EXCEPT !.intr = 0, !.stvec = "kernel"]
           x == Cur(c)
           y == [x EXCEPT !.trap = h]
<1>1. /\ cpu[c].intr = 1 /\ lock' = lock /\ Set(c, y) /\ cpu' = [cpu EXCEPT ![c] = d]
      /\ panicked' = (cpu[c].stvec # Expected(x))
  <2>1. DOMAIN cpu = CPUs
    BY Zenon DEF CpuInv, CpuTypes
  <2>2. cpu' = [cpu EXCEPT ![c].intr = 0, ![c].stvec = "kernel"]
    BY Zenon DEF trap
  <2>3. cpu' = [cpu EXCEPT ![c] = d]
    BY <2>1, <2>2, Zenon
  <2> QED BY <2>3, Zenon DEF trap
<1>2. IsCpu(cpu[c]) /\ IsContext(x) /\ Fits(cpu[c], x)
  BY CurFacts, Zenon
<1>3. IsCpu(d) /\ d.cur = cpu[c].cur /\ d.noff = cpu[c].noff /\ d.stvec = "kernel" /\ d.intr = 0
  BY <1>2, Zenon DEF IsCpu
<1>4. /\ h \in Handler /\ h \notin Outside /\ h \notin Special /\ Holds(h) = "none" /\ h # "none" /\ h # "sret"
  BY Zenon DEF Handler, Outside, Special, Holds
<1>5. IsContext(y) /\ y.trap = h /\ y.pc = x.pc /\ y.want = x.want /\ y.state = x.state /\ Where(y) = h
  BY <1>2, <1>4, Zenon DEF IsContext, Where, Fields
<1> HIDE DEF d, y
<1>6. x.trap = "none" /\ Where(x) = x.pc /\ Nest(x.pc) = 0 /\ x.pc # "sret"
  BY <1>1, <1>2 DEF Fits, Where, IsCpu
<1>7. Holds(x.pc) = "none" /\ x.want = "none"
  BY <1>2, <1>6, NestIs, Zenon DEF Fits
<1>8. ~panicked'
  BY <1>1, <1>2, <1>6, Zenon DEF Fits, Expected, FromUser, Outside
<1>9. Becomes(x, y, h)
  BY <1>5, Zenon DEF Becomes
<1>10. Steps(c, y, h)
  BY <1>1, <1>3, <1>4, <1>5, <1>6, <1>7, <1>8, <1>9, Free, Zenon
<1>11. Plain(x)
  BY <1>6, <1>7, Zenon DEF Plain, OnItsWay, Where, Holds
<1> QED BY <1>4, <1>10, <1>11, QuietSteps

(* exit, called outside any critical section. *)
LEMMA Exits ==
  ASSUME CpuInv, NEW c \in CPUs, NEW d, Cur(c).pc # "scheduler", Holds(Where(Cur(c))) = "none",
         Set(c, [Cur(c) EXCEPT !.state = "ZOMBIE"]), lock' = lock, ~panicked',
         cpu' = [cpu EXCEPT ![c] = d], IsCpu(d), d.cur = c, d.noff = cpu[c].noff, d.stvec = "kernel"
  PROVE  Quiet(c)
<1> DEFINE y == [Cur(c) EXCEPT !.state = "ZOMBIE"]
<1>1. IsContext(Cur(c)) /\ Fits(cpu[c], Cur(c))
  BY CurFacts, Zenon
<1>2. IsContext(y) /\ y.pc = Cur(c).pc /\ y.state = "ZOMBIE"
  BY <1>1, Zenon DEF IsContext, Fields
<1>3. d.noff = 0
  BY <1>1, NestIs, Zenon DEF Fits
<1> HIDE DEF y
<1>4. Set(c, y)
  BY Zenon DEF y
<1> QED BY <1>2, <1>3, <1>4, Away, Zenon

(* exit at the end of a trap. *)
LEMMA ExitQuiet ==
  ASSUME CpuInv, NEW c \in CPUs, Cur(c).pc # "scheduler", Holds(Where(Cur(c))) = "none", exit(c)
  PROVE  Quiet(c)
<1> DEFINE d == [cpu[c] EXCEPT !.cur = c, !.stvec = "kernel"]
<1>1. DOMAIN cpu = CPUs /\ IsCpu(cpu[c]) /\ ~panicked /\ c \in Contexts
  BY Zenon DEF CpuInv, CpuTypes, Contexts
<1>2. /\ cpu' = [cpu EXCEPT ![c].cur = c, ![c].stvec = "kernel"]
      /\ Set(c, [Cur(c) EXCEPT !.state = "ZOMBIE"]) /\ lock' = lock /\ panicked' = panicked
  BY Zenon DEF exit
<1>3. cpu' = [cpu EXCEPT ![c] = d]
  BY <1>1, <1>2, Zenon
<1>4. IsCpu(d) /\ d.cur = c /\ d.noff = cpu[c].noff /\ d.stvec = "kernel"
  BY <1>1, Zenon DEF IsCpu
<1> HIDE DEF d
<1> QED BY <1>1, <1>2, <1>3, <1>4, Exits, Zenon

(* exit from user mode: of a killed thread or after a fault. *)
LEMMA ExitedQuiet ==
  ASSUME CpuInv, NEW c \in CPUs, At(c, "user"), Exited(c), lock' = lock,
         panicked' = (cpu[c].stvec # "user")
  PROVE  Quiet(c)
<1> DEFINE d == [cpu[c] EXCEPT !.cur = c, !.stvec = "kernel", !.intr = 0]
<1>1. DOMAIN cpu = CPUs /\ IsCpu(cpu[c]) /\ c \in Contexts
  BY Zenon DEF CpuInv, CpuTypes, Contexts
<1>2. /\ cpu' = [cpu EXCEPT ![c].cur = c, ![c].stvec = "kernel", ![c].intr = 0]
      /\ Set(c, [Cur(c) EXCEPT !.state = "ZOMBIE"])
  BY Zenon DEF Exited
<1>3. cpu' = [cpu EXCEPT ![c] = d]
  BY <1>1, <1>2, Zenon
<1>4. IsCpu(d) /\ d.cur = c /\ d.noff = cpu[c].noff /\ d.stvec = "kernel"
  BY <1>1, Zenon DEF IsCpu
<1>5. Where(Cur(c)) = "user" /\ Holds("user") = "none" /\ "user" \notin Handler
  BY Zenon DEF At, Holds, Handler
<1>6. Cur(c).pc = "user" /\ cpu[c].stvec = "user"
  BY <1>5, CurFacts, NoTrap DEF Fits, Outside
<1> HIDE DEF d
<1> QED BY <1>2, <1>3, <1>4, <1>5, <1>6, Exits, Zenon

(* A thread goes from p to q, without a lock. *)
LEMMA Hop ==
  ASSUME CpuInv, NEW c \in CPUs, NEW p, NEW q, NEW d, At(c, p), Set(c, Goto(Cur(c), q)),
         p \notin Handler, p # "scheduler", Holds(p) = "none",
         q \in Body, q # "scheduler", Holds(q) = "none", q \notin Special,
         lock' = lock, ~panicked', cpu' = [cpu EXCEPT ![c] = d], IsCpu(d), d.cur = cpu[c].cur,
         d.noff = cpu[c].noff, d.stvec = IF q \in Outside THEN "user" ELSE "kernel",
         q = "sret" => d.intr = 0
  PROVE  Quiet(c)
<1> DEFINE y == Goto(Cur(c), q)
<1>1. Where(Cur(c)) = p /\ Cur(c).want = "none" /\ IsContext(Cur(c))
  BY CurFacts, Zenon DEF At
<1>2. Cur(c).trap = "none"
  BY <1>1, NoTrap, Zenon
<1>3. Legal(Cur(c), q)
  BY <1>2, Zenon DEF Legal
<1>4. To(Cur(c), y, q) /\ y.want = "none"
  BY <1>1, <1>3, GotoIs, Zenon
<1>5. Becomes(Cur(c), y, q) /\ y.trap = "none"
  BY <1>2, <1>4, Zenon DEF To
<1> HIDE DEF y
<1>6. Set(c, y)
  BY Zenon DEF y
<1>7. Steps(c, y, q)
  BY <1>1, <1>4, <1>5, <1>6, Free, Zenon
<1> QED BY <1>7, QuietSteps, Zenon

(* usertrap of a system call. *)
LEMMA StepUsertrap ==
  ASSUME CpuInv, NEW c \in CPUs, usertrap(c)
  PROVE  Quiet(c)
<1> DEFINE d == [cpu[c] EXCEPT !.stvec = "kernel"]
<1>1. At(c, "user") /\ lock' = lock /\ panicked' = (cpu[c].stvec # "user")
  BY Zenon DEF usertrap
<1>2. CASE Cur(c).killed = 1
  <2>1. Exited(c)
    BY <1>2, Zenon DEF usertrap
  <2> QED BY <2>1, <1>1, ExitedQuiet, Zenon
<1>3. CASE Cur(c).killed # 1
  <2>1. Set(c, Goto(Cur(c), "syscall")) /\ cpu' = [cpu EXCEPT ![c] = d] /\ IsCpu(cpu[c]) /\ Fits(cpu[c], Cur(c))
    BY <1>3, CurFacts, Zenon DEF usertrap
  <2>2. cpu[c].stvec = "user"
    BY <1>1, <2>1, Zenon DEF At, Fits, Outside
  <2>3. IsCpu(d) /\ d.cur = cpu[c].cur /\ d.noff = cpu[c].noff /\ d.stvec = "kernel"
    BY <2>1, Zenon DEF IsCpu
  <2> HIDE DEF d
  <2> QED BY <1>1, <2>1, <2>2, <2>3, Hop, Zenon DEF Holds, Handler, Special, Outside, Body
<1> QED BY <1>2, <1>3, Zenon

(* usertrapret, from a trap or from a system call. *)
LEMMA StepUsertrapret ==
  ASSUME CpuInv, NEW c \in CPUs, usertrapret(c)
  PROVE  Quiet(c)
<1> DEFINE d == [cpu[c] EXCEPT !.intr = 0, !.stvec = "user"]
<1>1. DOMAIN cpu = CPUs /\ IsCpu(cpu[c])
  BY Zenon DEF CpuInv, CpuTypes
<1>2. /\ cpu' = [cpu EXCEPT ![c].intr = 0, ![c].stvec = "user"] /\ lock' = lock /\ ~panicked'
      /\ Set(c, Goto(Cur(c), "sret")) /\ (At(c, "usertrapret") \/ At(c, "sysret"))
  BY Zenon DEF usertrapret, At
<1>3. cpu' = [cpu EXCEPT ![c] = d]
  BY <1>1, <1>2, Zenon
<1>4. IsCpu(d) /\ d.cur = cpu[c].cur /\ d.noff = cpu[c].noff /\ d.stvec = "user" /\ d.intr = 0
  BY <1>1, Zenon DEF IsCpu
<1> HIDE DEF d
<1> QED BY <1>2, <1>3, <1>4, Hop, Zenon DEF Holds, Handler, Special, Outside, Body

(* sret. *)
LEMMA StepSret ==
  ASSUME CpuInv, NEW c \in CPUs, sret(c)
  PROVE  Quiet(c)
<1> DEFINE d == [cpu[c] EXCEPT !.intr = 1]
<1>1. IsCpu(cpu[c]) /\ Fits(cpu[c], Cur(c))
  BY CurFacts, Zenon
<1>2. /\ cpu' = [cpu EXCEPT ![c] = d] /\ lock' = lock /\ ~panicked'
      /\ Set(c, Goto(Cur(c), "user")) /\ At(c, "sret")
  BY Zenon DEF sret, At
<1>3. IsCpu(d) /\ d.cur = cpu[c].cur /\ d.noff = cpu[c].noff /\ d.stvec = "user"
  BY <1>1, <1>2, Zenon DEF IsCpu, Fits, Outside, At
<1> HIDE DEF d
<1> QED BY <1>2, <1>3, Hop, Zenon DEF Holds, Handler, Special, Outside, Body

(* The end of kerneltrap. *)
LEMMA StepTrapret ==
  ASSUME CpuInv, NEW c \in CPUs, trapret(c)
  PROVE  CpuInv' /\ Calm(c) /\ Plain(Cur(c)') /\ ctx'[cpu[c].cur].state # "SLEEPING"
<1> DEFINE d == [cpu[c] EXCEPT !.intr = 1]
           y == [Cur(c) EXCEPT !.trap = "none"]
<1>1. /\ IsCpu(cpu[c]) /\ Fits(cpu[c], Cur(c)) /\ IsContext(Cur(c))
  BY CurFacts, Zenon
<1>2. /\ Where(Cur(c)) = "trapret" /\ Cur(c).want = "none" /\ ~panicked' /\ lock' = lock
      /\ Set(c, y) /\ cpu' = [cpu EXCEPT ![c] = d] /\ Cur(c).pc # "user"
  BY Zenon DEF trapret, At, FromUser
<1>3. Cur(c).trap = "trapret" /\ Holds("trapret") = "none" /\ "trapret" \notin Outside
  BY <1>1, <1>2, InTrap, Zenon DEF Body, Holds, Outside
<1>4. IsCpu(d) /\ d.cur = cpu[c].cur /\ d.noff = cpu[c].noff /\ d.stvec = "kernel"
  BY <1>1, <1>2, <1>3, Zenon DEF IsCpu, Fits
<1>5. IsContext(y) /\ y.trap = "none" /\ y.pc = Cur(c).pc /\ y.want = "none" /\ y.state = Cur(c).state
  BY <1>1, <1>2, Zenon DEF IsContext, Fields
<1> HIDE DEF d, y
<1>6. Where(y) = y.pc /\ Nest(y.pc) = 0 /\ y.pc # "sret" /\ y.pc \notin Outside
  BY <1>1, <1>2, <1>3, <1>5 DEF Where, Fits, Outside
<1>7. Holds(y.pc) = "none" /\ y.pc \notin Special
  BY <1>5, <1>6, NestIs, Zenon DEF Special, IsContext, Body, Holds
<1>8. Becomes(Cur(c), y, y.pc)
  BY <1>5, <1>6, Zenon DEF Becomes
<1>9. Steps(c, y, y.pc)
  BY <1>2, <1>3, <1>4, <1>5, <1>6, <1>7, <1>8, Free, Zenon
<1> QED BY <1>7, <1>9, QuietSteps, Zenon DEF Quiet

(* The end of usertrap. *)
LEMMA StepUsertrapIntr ==
  ASSUME CpuInv, NEW c \in CPUs, usertrap_intr(c)
  PROVE  Quiet(c)
<1> DEFINE y == Leaving(Cur(c))
<1>1. /\ IsCpu(cpu[c]) /\ Fits(cpu[c], Cur(c)) /\ IsContext(Cur(c)) /\ DOMAIN cpu = CPUs
      /\ cpu = [e \in CPUs |-> cpu[e]] /\ ~panicked
  BY CurFacts, Zenon DEF CpuInv, CpuTypes
<1>2. Where(Cur(c)) = "trapret" /\ Cur(c).want = "none" /\ Cur(c).pc = "user"
  BY Zenon DEF usertrap_intr, At, FromUser
<1>3. Cur(c).trap = "trapret" /\ Holds("trapret") = "none" /\ "trapret" \notin Outside
  BY <1>1, <1>2, InTrap, Zenon DEF Body, Holds, Outside
<1>4. CASE exit(c)
  BY <1>2, <1>3, <1>4, ExitQuiet, Zenon
<1>5. CASE Set(c, y) /\ UNCHANGED <<cpu, lock, panicked>>
  <2>1. /\ IsContext(y) /\ y.trap = "none" /\ y.pc = "usertrapret" /\ y.want = "none"
        /\ y.state = Cur(c).state /\ Where(y) = "usertrapret"
    BY <1>1, <1>2, Zenon DEF IsContext, Fields, Leaving, Where, Body
  <2> HIDE DEF y
  <2>2. Becomes(Cur(c), y, "usertrapret")
    BY <2>1, <1>2, Zenon DEF Becomes
  <2>3. cpu' = [cpu EXCEPT ![c] = cpu[c]] /\ cpu[c].stvec = "kernel"
    BY <1>1, <1>2, <1>3, <1>5 DEF Fits
  <2>4. Steps(c, y, "usertrapret")
    BY <1>1, <1>2, <1>3, <1>5, <2>1, <2>2, <2>3, Free DEF Holds, Outside
  <2> QED BY <2>4, QuietSteps, Zenon DEF Special
<1> QED BY <1>4, <1>5, Zenon DEF usertrap_intr

(* sysret of a killed thread, and a fault in user mode. *)
LEMMA StepEnds ==
  ASSUME CpuInv, NEW c \in CPUs, usertrap_killed(c) \/ usertrap_fault(c)
  PROVE  Quiet(c)
<1>1. CASE usertrap_killed(c)
  <2>1. Where(Cur(c)) = "sysret" /\ exit(c) /\ IsContext(Cur(c))
    BY <1>1, CurFacts, Zenon DEF usertrap_killed, At
  <2>2. Cur(c).pc # "scheduler" /\ Holds(Where(Cur(c))) = "none"
    BY <2>1, NoTrap, Zenon DEF Handler, Holds
  <2> QED BY <2>1, <2>2, ExitQuiet, Zenon
<1>2. CASE usertrap_fault(c)
  BY <1>2, ExitedQuiet, Zenon DEF usertrap_fault
<1> QED BY <1>1, <1>2, Zenon

(* The thread of CPU c sleeps on chan, and the CPU runs its scheduler. *)
Asleep(c, chan) ==
  /\ CpuInv' /\ Calm(c) /\ Plain(Cur(c)')
  /\ ctx'[cpu[c].cur].chan = chan
  /\ ctx'[cpu[c].cur].n = Cur(c).n /\ ctx'[cpu[c].cur].arg = Cur(c).arg

(* sleep, with the lock of what is waited for. *)
LEMMA Sleeps ==
  ASSUME CpuInv, NEW c \in CPUs, NEW p, NEW q, NEW k \in Locks, At(c, p), p \notin Handler,
         Holds(p) = k, Nest(p) = 1, p # "scheduler", q \in Body, q # "scheduler",
         Holds(q) = "none", q \notin Outside, sleep(c, k, k, Cur(c), q)
  PROVE  Asleep(c, k)
<1> DEFINE x == Goto(Cur(c), q)
           y == [[x EXCEPT !.state = "SLEEPING", !.chan = k] EXCEPT !.intena = cpu[c].intena]
           e == pop_off(cpu[c])
           d == [e EXCEPT !.cur = c]
<1>1. /\ IsCpu(cpu[c]) /\ Fits(cpu[c], Cur(c)) /\ lock \in [Locks -> CPUs \cup {"free"}] /\ IsContext(Cur(c))
      /\ \A l \in Locks : lock[l] = c <=> (Cur(c).want = "none" /\ Holds(Where(Cur(c))) = l)
  BY CurFacts, Zenon
<1>2. Where(Cur(c)) = p /\ Cur(c).want = "none" /\ ~panicked
  BY Zenon DEF At
<1>3. Cur(c).trap = "none" /\ Cur(c).pc = p
  BY <1>1, <1>2, NoTrap, Zenon
<1>4. To(Cur(c), x, q) /\ x.want = "none" /\ x.n = Cur(c).n /\ x.arg = Cur(c).arg
  BY <1>1, <1>2, <1>3, GotoIs, Zenon DEF Legal
<1>5. cpu[c].noff = 1 /\ cpu[c].intr = 0 /\ cpu[c].stvec = "kernel"
  BY <1>1, <1>2, NestIs, TtyAssumption DEF Fits
<1>6. IsCpu(e) /\ e.noff = 0 /\ e.stvec = "kernel"
  BY <1>1, <1>5, PopIs
<1>7. Set(c, y) /\ cpu' = [cpu EXCEPT ![c] = d] /\ lock' = [lock EXCEPT ![k] = "free"]
      /\ panicked' = (cpu[c].noff # 1 \/ cpu[c].intr = 1)
  BY Zenon DEF sleep, sched, CpuInv, CpuTypes
<1> HIDE DEF x, e
<1>8. IsCpu(d) /\ d.cur = c /\ d.noff = 0 /\ d.stvec = "kernel"
  BY <1>6, Zenon DEF IsCpu, Contexts
<1>9. IsContext(x) /\ x.trap = "none" /\ x.pc = q
  BY <1>3, <1>4, Zenon DEF To, Becomes, Where
<1>10. /\ IsContext(y) /\ y.trap = "none" /\ y.pc = q /\ y.want = "none" /\ y.chan = k
       /\ y.n = Cur(c).n /\ y.arg = Cur(c).arg
  BY <1>1, <1>4, <1>9, Zenon DEF IsContext, Fields, IsCpu
<1> HIDE DEF y, d
<1>11. Off(y) /\ y.pc # "scheduler"
  BY <1>10, NestIs, Zenon DEF Off, Where
<1>12. ~panicked' /\ cpu[c].cur # c
  <2>1. cpu[c].cur # c
    BY <1>3 DEF CpuInv, Cur
  <2>2. ~(cpu[c].noff # 1 \/ cpu[c].intr = 1)
    BY <1>5
  <2>3. ~panicked'
    BY <2>2, <1>7, Zenon
  <2> QED BY <2>1, <2>3, Zenon
<1>13. /\ lock' \in [Locks -> CPUs \cup {"free"}]
       /\ \A l \in Locks : lock'[l] # c
       /\ \A l \in Locks, f \in CPUs : f # c => (lock'[l] = f <=> lock[l] = f)
  BY <1>1, <1>2, <1>7, TtyAssumption
<1>14. GoesOn(c, ctx[c]) /\ ctx[c].trap = "none" /\ ctx[c].pc = "scheduler"
  BY <1>7, <1>8, <1>10, <1>11, <1>12, <1>13, Leave, Zenon
<1>15. Plain(ctx[c])
  BY <1>14, PlainIs, Zenon DEF Where, Special
<1>16. ctx'[cpu[c].cur] = y
  BY <1>7, SetMoves, Zenon DEF Moves
<1> QED BY <1>10, <1>14, <1>15, <1>16, Zenon DEF GoesOn, Asleep

(* yield, at the end of a timer interrupt. *)
LEMMA Yields ==
  ASSUME CpuInv, NEW c \in CPUs, At(c, "yield"), Cur(c).pc # "scheduler",
         NEW x, IsContext(x), x.want = "none", x.pc # "scheduler",
         Nest(x.pc) = 0, x.pc # "sret", x.trap = "none" => x.pc \notin Outside,
         x.trap # "none" => x.trap = "trapret", yield(c, x)
  PROVE  Quiet(c)
<1> DEFINE a == push_off(cpu[c])
           y == [x EXCEPT !.intena = a.intena, !.state = "RUNNABLE"]
           e == pop_off(a)
           d == [e EXCEPT !.cur = c]
<1>1. IsCpu(cpu[c]) /\ Fits(cpu[c], Cur(c)) /\ IsContext(Cur(c))
  BY CurFacts, Zenon
<1>2. Where(Cur(c)) = "yield"
  BY Zenon DEF At
<1>3. Cur(c).trap # "none" /\ Holds("yield") = "none" /\ "yield" \notin Outside
  BY <1>1, <1>2, InTrap, Zenon DEF Body, Holds, Outside
<1>4. cpu[c].noff = 0 /\ cpu[c].intr = 0 /\ cpu[c].stvec = "kernel"
  BY <1>1, <1>2, <1>3, NestIs DEF Fits
<1>5. IsCpu(a) /\ a.noff = 1 /\ a.intr = 0 /\ a.intena = 0 /\ a.stvec = "kernel"
  BY <1>1, <1>4, PushIs
<1>6. Set(c, y) /\ cpu' = [cpu EXCEPT ![c] = d] /\ lock' = lock /\ panicked' = (a.noff # 1)
  BY Zenon DEF yield, CpuInv, CpuTypes
<1> HIDE DEF a
<1>7. IsCpu(e) /\ e.noff = 0 /\ e.stvec = "kernel"
  BY <1>5, PopIs
<1> HIDE DEF e
<1>8. IsCpu(d) /\ d.cur = c /\ d.noff = 0 /\ d.stvec = "kernel"
  BY <1>7, Zenon DEF IsCpu, Contexts
<1>9. /\ IsContext(y) /\ y.trap = x.trap /\ y.pc = x.pc /\ y.want = "none"
      /\ y.intena = 0 /\ y.state = "RUNNABLE" /\ Where(y) = Where(x)
  BY <1>5, Zenon DEF IsContext, Fields, Where
<1> HIDE DEF y, d
<1>10. Off(y)
  <2>1. Nest("trapret") = 0 /\ "trapret" \notin Outside
    BY Zenon DEF Nest, Holds, Outside
  <2> QED BY <2>1, <1>9, Zenon DEF Off, Where
<1>11. ~panicked'
  BY <1>5, <1>6, Zenon
<1> QED BY <1>2, <1>3, <1>6, <1>8, <1>9, <1>10, <1>11, Away, Zenon

(* No CPU takes a step, and nobody falls asleep. *)
Still ==
  /\ CpuInv'
  /\ \A e \in CPUs : Same(Cur(e), Cur(e)')
  /\ \A t \in Threads : ctx'[t].state = "SLEEPING" => Same(ctx[t], ctx'[t])

(* A context that stays at its place keeps what the invariant says of it. *)
LEMMA SameIs ==
  ASSUME NEW x, NEW y, Same(x, y)
  PROVE  /\ Where(y) = Where(x) /\ y.want = x.want /\ y.ch = x.ch /\ y.n = x.n /\ y.arg = x.arg
         /\ y.trap = x.trap /\ y.pc = x.pc /\ (OnItsWay(y) <=> OnItsWay(x)) /\ (Plain(y) <=> Plain(x))
BY Zenon DEF Same, Where, OnItsWay, Plain

(* kill of a thread, which may run. *)
LEMMA StepKill ==
  ASSUME CpuInv, NEW t \in Threads, kill(t)
  PROVE  Still
<1> DEFINE c == CPU0
           x == Cur(c)
           y == ctx'[cpu[c].cur]
<1>1. /\ DOMAIN ctx = Contexts /\ ctx = [k \in Contexts |-> ctx[k]] /\ t \in Contexts
      /\ \A k \in Contexts : IsContext(ctx[k])
      /\ c \in CPUs /\ cpu = [e \in CPUs |-> cpu[e]] /\ ~panicked
  BY TtyAssumption, Zenon DEF CpuInv, CpuTypes, Contexts
<1>2. /\ ctx' = [ctx EXCEPT ![t].killed = 1, ![t].state = IF @ = "SLEEPING" THEN "RUNNABLE" ELSE @]
      /\ cpu' = cpu /\ lock' = lock /\ panicked' = panicked
  BY Zenon DEF kill
<1>3. /\ DOMAIN ctx' = Contexts /\ ctx' = [k \in Contexts |-> ctx'[k]]
      /\ \A k \in Contexts : k # t => ctx'[k] = ctx[k]
      /\ ctx'[t] = [ctx[t] EXCEPT !.killed = 1, !.state = IF @ = "SLEEPING" THEN "RUNNABLE" ELSE @]
  BY <1>1, <1>2, Zenon
<1>4. Same(ctx[t], ctx'[t])
  BY <1>1, <1>3 DEF Same, IsContext, Fields
<1>5. ASSUME NEW k \in Contexts PROVE Same(ctx[k], ctx'[k])
  BY <1>1, <1>3, <1>4, Zenon DEF Same
<1>6. /\ IsCpu(cpu[c]) /\ Fits(cpu[c], x) /\ lock \in [Locks -> CPUs \cup {"free"}] /\ x.state = "RUNNING"
      /\ \A l \in Locks : lock[l] = c <=> (x.want = "none" /\ Holds(Where(x)) = l)
      /\ cpu[c].cur \in Contexts
  BY <1>1, CurFacts, Zenon
<1>7. Same(x, y)
  BY <1>5, <1>6, Zenon DEF Cur
<1>8. y.state = "RUNNING" /\ y.pc = x.pc /\ y.trap = x.trap /\ y.want = x.want /\ Where(y) = Where(x)
  BY <1>6, <1>7, Zenon DEF Same, Where
<1>9. /\ cpu[c].cur # c => cpu[c].cur \in Threads /\ ctx[c].trap = "none" /\ ctx[c].want = "none"
      /\ \A e \in CPUs : e # c => cpu[c].cur # cpu[e].cur
  BY <1>1 DEF CpuInv
<1>10. ctx'[c] = ctx[c]
  BY <1>1, <1>3, TtyAssumption, Zenon DEF Contexts
<1> HIDE DEF x, y
<1>11. Fits(cpu[c], y) /\ LocksOf(c, y)
  BY <1>2, <1>6, <1>8, Zenon DEF Fits, LocksOf
<1>12. cpu' = [cpu EXCEPT ![c] = cpu[c]] /\ ~panicked'
  BY <1>1, <1>2
<1> HIDE DEF c
<1>13. GoesOn(c, ctx'[cpu[c].cur])
  BY <1>1, <1>3, <1>5, <1>6, <1>8, <1>9, <1>10, <1>11, <1>12, Step DEF y
<1>14. \A e \in CPUs : cpu[e].cur \in Contexts /\ cpu'[e] = cpu[e]
  BY <1>2, CurFacts, Zenon
<1> QED BY <1>5, <1>13, <1>14, Zenon DEF GoesOn, Still, Cur, Contexts

-----------------------------------------------------------------------------
(* The steps of Tty within a handler or a system call. *)

(* A context at p may go to q. *)
Path(p, q) ==
  /\ p # "scheduler" /\ q # "scheduler"
  /\ \/ p \notin Body /\ q \in Handler
     \/ p \notin Handler /\ q \in Body
     \/ q \in Handler \cap Body

(* Nothing changes but where the context is. *)
LEMMA GoesIs ==
  ASSUME CpuInv, NEW c \in CPUs, NEW p, NEW q, At(c, p), Path(p, q)
  PROVE  /\ To(Cur(c), Goto(Cur(c), q), q)
         /\ Goto(Cur(c), q).want = "none" /\ Goto(Cur(c), q).ch = Cur(c).ch
         /\ Goto(Cur(c), q).n = Cur(c).n /\ Goto(Cur(c), q).arg = Cur(c).arg
<1>1. IsContext(Cur(c)) /\ Where(Cur(c)) = p /\ Cur(c).want = "none"
  BY CurFacts, Zenon DEF At
<1>2. Legal(Cur(c), q)
  BY <1>1 DEF Legal, Path, IsContext, Where
<1>3. p # "scheduler"
  BY DEF Path
<1> QED BY <1>1, <1>2, <1>3, GotoIs

(* The fields of a context that the CPU does not look at. *)
Ready(x, y, q) == To(x, y, q) /\ y.want = "none"

(* An assignment to ch leaves a context ready. *)
LEMMA ChIs ==
  ASSUME NEW x, NEW y, NEW q, NEW v, Ready(x, y, q)
  PROVE  Ready(x, [y EXCEPT !.ch = v], q)
BY DEF Ready, To, Becomes, IsContext, Where, Fields

(* An assignment to n leaves a context ready. *)
LEMMA NIs ==
  ASSUME NEW x, NEW y, NEW q, NEW v, Ready(x, y, q)
  PROVE  Ready(x, [y EXCEPT !.n = v], q)
BY DEF Ready, To, Becomes, IsContext, Where, Fields

(* A step from p to q that keeps locks and interrupts as they are. *)
LEMMA StepGo ==
  ASSUME CpuInv, NEW c \in CPUs, NEW p, NEW q, At(c, p), Path(p, q),
         Set(c, Goto(Cur(c), q)), UNCHANGED <<cpu, lock, panicked>>,
         Holds(q) = Holds(p), Nest(q) = Nest(p), p \notin Outside, q \notin Outside
  PROVE  Steps(c, Goto(Cur(c), q), q)
<1>1. To(Cur(c), Goto(Cur(c), q), q) /\ Goto(Cur(c), q).want = "none"
  BY GoesIs, Zenon
<1>2. Moves(c, Goto(Cur(c), q))
  BY SetMoves, Zenon
<1> QED BY <1>1, <1>2, Walk, Zenon

(* wakeup does not change the context that calls it. *)
LEMMA WokenCur ==
  ASSUME CpuInv, NEW c \in CPUs, NEW chan
  PROVE  Woken(ctx, chan)[cpu[c].cur] = Cur(c)
<1>1. cpu[c].cur \in Contexts /\ Cur(c).state = "RUNNING" /\ DOMAIN ctx = Contexts
  BY CurFacts DEF CpuInv, CpuTypes
<1> QED BY <1>1 DEF Woken, Cur

(* x is the context of CPU c, but for its arguments. *)
Alike(c, x) ==
  /\ IsContext(x) /\ x.pc = Cur(c).pc /\ x.trap = Cur(c).trap /\ x.state = Cur(c).state
  /\ x.want = "none"

(* Arguments may be set before a lock is asked for. *)
LEMMA AlikeIs ==
  ASSUME CpuInv, NEW c \in CPUs, NEW p, At(c, p), NEW v
  PROVE  /\ Alike(c, Cur(c)) /\ Alike(c, [Cur(c) EXCEPT !.c = v])
         /\ Alike(c, [Cur(c) EXCEPT !.n = v, !.arg = v]) /\ Alike(c, [Cur(c) EXCEPT !.arg = v])
<1>1. IsContext(Cur(c)) /\ Cur(c).want = "none"
  BY CurFacts, Zenon DEF At
<1> QED BY <1>1 DEF Alike, IsContext, Fields

(* Goto from a context with other arguments. *)
LEMMA AlikeGoes ==
  ASSUME CpuInv, NEW c \in CPUs, NEW p, NEW q, At(c, p), Path(p, q), NEW x, Alike(c, x)
  PROVE  To(Cur(c), Goto(x, q), q) /\ Goto(x, q).want = "none"
<1>1. Where(x) = p /\ IsContext(x) /\ x.want = "none" /\ p # "scheduler"
  BY DEF At, Alike, Where, Path
<1>2. Legal(x, q)
  BY <1>1 DEF Legal, Path, IsContext, Where
<1>3. To(x, Goto(x, q), q) /\ Goto(x, q).want = x.want
  BY <1>1, <1>2, GotoIs, Zenon
<1> QED BY <1>1, <1>3, Zenon DEF To, Becomes, Alike

(* acquire on the way from p to q. *)
LEMMA StepAcquire ==
  ASSUME CpuInv, NEW c \in CPUs, NEW p, NEW q, At(c, p), Path(p, q), NEW k \in Locks,
         NEW x, Alike(c, x), acquire(c, k, x, q),
         Holds(p) = "none", p \notin Outside, q \in Entry, Holds(q) = k
  PROVE  Steps(c, [Goto(x, q) EXCEPT !.want = k], q)
<1>1. To(Cur(c), Goto(x, q), q)
  BY AlikeGoes, Zenon
<1> QED BY <1>1, Acquires, Zenon

(* release, likewise. *)
LEMMA StepReleases ==
  ASSUME CpuInv, NEW c \in CPUs, NEW p, NEW q, At(c, p), Path(p, q), NEW k \in Locks,
         NEW x, Alike(c, x), release(c, k, x, q),
         Holds(p) = k, Nest(p) = 1, Holds(q) = "none", q \notin Outside
  PROVE  Steps(c, Goto(x, q), q)
<1>1. To(Cur(c), Goto(x, q), q) /\ Goto(x, q).want = "none"
  BY AlikeGoes, Zenon
<1> QED BY <1>1, Releases, Zenon

(* A place that only a handler can be at. *)
LEMMA TrapAt ==
  ASSUME CpuInv, NEW c \in CPUs, NEW p, At(c, p), p \notin Body
  PROVE  Cur(c).trap # "none" /\ Where(Cur(c)) = p
BY CurFacts, InTrap, Zenon DEF At

(* A handler between plic_claim and uartstart. *)
LEMMA OnWayIs ==
  ASSUME NEW x, NEW y, NEW q, To(x, y, q), x.trap # "none",
         q \in {"getc", "consoleintr", "echo", "echo_thr", "store", "cons_rel"}
  PROVE  OnItsWay(y)
BY Zenon DEF OnItsWay, To, Becomes, Where

(* The push_off of uartputc_sync, within the lock of the console. *)
LEMMA StepPush ==
  ASSUME CpuInv, NEW c \in CPUs, At(c, "echo"), cpu' = [cpu EXCEPT ![c] = push_off(@)],
         Set(c, Goto(Cur(c), "echo_thr")), UNCHANGED <<lock, panicked>>
  PROVE  Steps(c, Goto(Cur(c), "echo_thr"), "echo_thr")
<1> DEFINE y == Goto(Cur(c), "echo_thr")
           d == push_off(cpu[c])
<1>1. /\ Path("echo", "echo_thr") /\ "echo" \notin Body /\ "echo_thr" \notin Outside /\ "echo" \notin Outside
      /\ Holds("echo_thr") = Holds("echo") /\ Nest("echo_thr") = 2 /\ Nest("echo") = 1
  BY DEF Path, Holds, Nest, Outside, Body, Handler
<1>2. /\ IsCpu(cpu[c]) /\ Fits(cpu[c], Cur(c)) /\ lock \in [Locks -> CPUs \cup {"free"}]
      /\ \A l \in Locks : lock[l] = c <=> (Cur(c).want = "none" /\ Holds(Where(Cur(c))) = l)
      /\ Where(Cur(c)) = "echo" /\ Cur(c).want = "none" /\ ~panicked
  BY CurFacts, Zenon DEF At
<1>3. To(Cur(c), y, "echo_thr") /\ y.want = "none" /\ Cur(c).trap # "none"
  BY <1>1, GoesIs, TrapAt, Zenon
<1>4. Moves(c, y) /\ cpu' = [cpu EXCEPT ![c] = d]
  BY SetMoves, Zenon DEF CpuInv, CpuTypes
<1>5. cpu[c].noff = 1 /\ cpu[c].intr = 0 /\ cpu[c].intena = 0 /\ cpu[c].stvec = "kernel" /\ Nest(Cur(c).pc) = 0 /\ Cur(c).pc # "sret"
  BY <1>1, <1>2, <1>3 DEF Fits
<1>6. /\ IsCpu(d) /\ d.cur = cpu[c].cur /\ d.noff = 2 /\ d.intr = 0 /\ d.intena = 0 /\ d.stvec = "kernel"
  BY <1>2, <1>5, PushIs
<1> HIDE DEF y, d
<1>7. Becomes(Cur(c), y, "echo_thr") /\ Where(y) = "echo_thr" /\ y.pc = Cur(c).pc
  BY <1>3, Zenon DEF To, Becomes
<1>8. Fits(d, y)
  BY <1>1, <1>3, <1>5, <1>6, <1>7, Zenon DEF Fits
<1>9. LocksOf(c, y) /\ ~panicked'
  BY <1>1, <1>2, <1>3, <1>7, Zenon DEF LocksOf
<1>10. Steps(c, y, "echo_thr")
  BY <1>4, <1>6, <1>7, <1>8, <1>9, Advance, Zenon
<1> QED BY <1>10, Zenon DEF y

(* The pop_off: noff goes back to that of the lock. *)
LEMMA StepPop ==
  ASSUME CpuInv, NEW c \in CPUs, At(c, "echo_thr"), cpu' = [cpu EXCEPT ![c] = pop_off(@)],
         panicked' = CannotPop(cpu[c]),
         NEW q \in {"consoleintr", "cons_rel", "store"}, Set(c, Goto(Cur(c), q)), lock' = lock
  PROVE  Steps(c, Goto(Cur(c), q), q) /\ OnItsWay(Goto(Cur(c), q))
<1> DEFINE y == Goto(Cur(c), q)
           d == pop_off(cpu[c])
<1>1. /\ Path("echo_thr", q) /\ "echo_thr" \notin Body /\ q \notin Outside /\ "echo_thr" \notin Outside
      /\ Holds("echo_thr") = Holds(q) /\ Nest("echo_thr") = 2 /\ Nest(q) = 1
  BY DEF Path, Holds, Nest, Outside, Body, Handler
<1>2. /\ IsCpu(cpu[c]) /\ Fits(cpu[c], Cur(c)) /\ lock \in [Locks -> CPUs \cup {"free"}]
      /\ \A l \in Locks : lock[l] = c <=> (Cur(c).want = "none" /\ Holds(Where(Cur(c))) = l)
      /\ Where(Cur(c)) = "echo_thr" /\ Cur(c).want = "none"
  BY CurFacts, Zenon DEF At
<1>3. To(Cur(c), y, q) /\ y.want = "none" /\ Cur(c).trap # "none"
  BY <1>1, GoesIs, TrapAt, Zenon
<1>4. Moves(c, y) /\ cpu' = [cpu EXCEPT ![c] = d]
  BY SetMoves, Zenon DEF CpuInv, CpuTypes
<1>5. cpu[c].noff = 2 /\ cpu[c].intr = 0 /\ cpu[c].intena = 0 /\ cpu[c].stvec = "kernel" /\ Nest(Cur(c).pc) = 0 /\ Cur(c).pc # "sret"
  BY <1>1, <1>2, <1>3 DEF Fits
<1>6. /\ IsCpu(d) /\ d.cur = cpu[c].cur /\ d.noff = 1 /\ d.intr = 0 /\ d.intena = 0 /\ d.stvec = "kernel"
  BY <1>2, <1>5, PopIs
<1>7. ~panicked'
  <2>1. ~CannotPop(cpu[c])
    BY <1>5 DEF CannotPop
  <2> QED BY <2>1, Zenon
<1> HIDE DEF y, d
<1>8. Becomes(Cur(c), y, q) /\ Where(y) = q /\ y.pc = Cur(c).pc
  BY <1>3, Zenon DEF To, Becomes
<1>9. Fits(d, y)
  <2>1. q # "sret"
    OBVIOUS
  <2> QED BY <2>1, <1>1, <1>3, <1>5, <1>6, <1>8, Zenon DEF Fits
<1>10. LocksOf(c, y)
  BY <1>1, <1>2, <1>3, <1>8, Zenon DEF LocksOf
<1>11. Steps(c, y, q)
  BY <1>4, <1>6, <1>7, <1>8, <1>9, <1>10, Advance, Zenon
<1>12. OnItsWay(y)
  BY <1>3, OnWayIs
<1> QED BY <1>11, <1>12, Zenon DEF y

-----------------------------------------------------------------------------
(* A timer interrupt gives up the CPU. *)
LEMMA StepTimerYield ==
  ASSUME CpuInv, NEW c \in CPUs, timer_yield(c)
  PROVE  Quiet(c)
<1> DEFINE x == Cur(c)
<1>1. /\ Fits(cpu[c], x) /\ IsContext(x) /\ Where(x) = "yield" /\ x.want = "none" /\ At(c, "yield")
  BY CurFacts, Zenon DEF timer_yield, At
<1>2. x.trap = "yield" /\ Holds("yield") = "none" /\ Nest(x.pc) = 0 /\ x.pc # "sret"
  BY <1>1, InTrap, Zenon DEF Body, Holds, Fits
<1>3. x.pc = "scheduler" <=> cpu[c].cur \notin Threads
  BY TtyAssumption DEF CpuInv, Contexts, Cur
<1>4. CASE x.pc = "user" /\ x.killed = 1
  BY <1>1, <1>2, <1>4, ExitQuiet, Zenon DEF timer_yield, FromUser
<1>5. CASE ~(x.pc = "user" /\ x.killed = 1) /\ cpu[c].cur \in Threads
  <2> DEFINE y == IF FromUser(x) THEN Leaving(x) ELSE Goto(x, "trapret")
  <2>1. yield(c, y)
    BY <1>5, Zenon DEF timer_yield, FromUser
  <2>2. /\ IsContext(y) /\ y.want = "none" /\ y.pc # "scheduler" /\ Nest(y.pc) = 0 /\ y.pc # "sret"
        /\ y.trap = "none" => y.pc \notin Outside
        /\ y.trap # "none" => y.trap = "trapret"
    <3>1. CASE x.pc = "user"
      <4>1. y = Leaving(x)
        BY <3>1, Zenon DEF FromUser
      <4>2. IsContext(y) /\ y.want = "none" /\ y.pc = "usertrapret" /\ y.trap = "none"
        BY <4>1, <1>1, Zenon DEF Leaving, IsContext, Fields, Body
      <4> HIDE DEF y
      <4> QED BY <4>2, Zenon DEF Nest, Holds, Outside
    <3>2. CASE x.pc # "user"
      <4>1. y = Goto(x, "trapret")
        BY <3>2, Zenon DEF FromUser
      <4>2. Legal(x, "trapret")
        BY <1>2, Zenon DEF Legal, Handler
      <4>3. To(x, y, "trapret") /\ y.want = "none"
        BY <4>1, <4>2, <1>1, GotoIs
      <4>4. y.trap # "none" /\ Where(y) = "trapret" /\ y.pc = x.pc /\ IsContext(y)
        BY <4>3, <1>2, Zenon DEF To, Becomes
      <4> HIDE DEF y
      <4> QED BY <4>3, <4>4, <1>2, <1>3, <1>5 DEF Where
    <3> QED BY <3>1, <3>2, Zenon
  <2> HIDE DEF y
  <2> QED BY <1>1, <1>3, <1>5, <2>1, <2>2, Yields, Zenon
<1>6. CASE ~(x.pc = "user" /\ x.killed = 1) /\ cpu[c].cur \notin Threads
  <2> DEFINE y == Goto(x, "trapret")
  <2>1. Set(c, y) /\ UNCHANGED <<cpu, lock, panicked>>
    BY <1>6, Zenon DEF timer_yield, FromUser
  <2>2. Legal(x, "trapret")
    BY <1>2, Zenon DEF Legal, Handler
  <2>3. To(x, y, "trapret") /\ y.want = "none"
    BY <2>2, <1>1, GotoIs
  <2> HIDE DEF y
  <2>4. Steps(c, y, "trapret")
    BY <1>1, <1>2, <2>1, <2>3, SetMoves, Walk, Zenon DEF Holds, Nest, Outside
  <2> QED BY <2>4, QuietSteps, Zenon DEF Special
<1> QED BY <1>4, <1>5, <1>6

-----------------------------------------------------------------------------
(* What a step of CPU c leaves to the console. *)
Others(c) ==
  \A e \in CPUs : e # c =>
    /\ Where(Cur(e)') = Where(Cur(e)) /\ Cur(e)'.ch = Cur(e).ch
    /\ Cur(e)'.n = Cur(e).n /\ Cur(e)'.arg = Cur(e).arg
    /\ OnItsWay(Cur(e)') <=> OnItsWay(Cur(e))

(* A step of c does not move the other CPUs. *)
LEMMA OthersStay ==
  ASSUME NEW c \in CPUs, Calm(c)
  PROVE  Others(c)
BY SameIs, Zenon DEF Calm, Others

(* A CPU that is not about to write to THR, before and after its step. *)
LEMMA SentKept ==
  ASSUME SentExact, NEW c \in CPUs, Others(c), tx'.r = tx.r, sent' = sent, uart'.fifo = uart.fifo,
         Where(Cur(c)) \notin {"thr", "echo_thr"}, Where(Cur(c)') \notin {"thr", "echo_thr"}
  PROVE  SentExact'
<1>1. Writers' = Writers
  BY Zenon DEF Writers, Others
<1>2. ASSUME \A e \in CPUs : Where(Cur(e)') # "thr"
      PROVE  sent = tx.r
  BY <1>2, Zenon DEF SentExact, Others
<1>3. ASSUME NEW e \in CPUs, Where(Cur(e)') = "thr"
      PROVE  sent + 1 = tx.r /\ Cur(e)'.ch = tx.r
  BY <1>3, Zenon DEF SentExact, Others
<1> QED BY <1>1, <1>2, <1>3, Zenon DEF SentExact

(* Nobody falls asleep or decides to. *)
LEMMA SleepKept ==
  ASSUME SleepExact, NEW c \in CPUs, Others(c), Calm(c), ctx'[cpu[c].cur].state # "SLEEPING",
         tx'.r = tx.r, tx'.w = tx.w, cons'.r = cons.r, cons'.w = cons.w, clock' = clock,
         Where(Cur(c)') \notin {"r_sleep", "s_sleep"}
  PROVE  SleepExact'
<1>1. ASSUME NEW t \in Threads, ctx'[t].state = "SLEEPING"
      PROVE  \/ ctx'[t].chan = "tx" /\ Full'
             \/ ctx'[t].chan = "cons" /\ cons'.r = cons'.w
             \/ ctx'[t].chan = "ticks" /\ TooEarly(ctx[t])'
  <2>1. Same(ctx[t], ctx'[t])
    BY <1>1, Zenon DEF Calm
  <2>2. ctx[t].state = "SLEEPING" /\ ctx'[t].chan = ctx[t].chan /\ ctx'[t].n = ctx[t].n /\ ctx'[t].arg = ctx[t].arg
    BY <1>1, <2>1, Zenon DEF Same
  <2> QED BY <2>2, Zenon DEF SleepExact, Full, TooEarly, Minus
<1>2. ASSUME NEW e \in CPUs
      PROVE  /\ Where(Cur(e)') = "r_sleep" => cons'.r = cons'.w
             /\ Where(Cur(e)') = "s_sleep" => TooEarly(Cur(e))'
  BY Zenon DEF SleepExact, Others, TooEarly, Minus
<1> QED BY <1>1, <1>2, Zenon DEF SleepExact

(* Who is on the way to uartstart stays on it. *)
LEMMA MovingKept ==
  ASSUME Moving, NEW c \in CPUs, Others(c), tx'.r = tx.r, tx'.w = tx.w, uart'.fifo = uart.fifo,
         plic.pending => plic'.pending, OnItsWay(Cur(c)) => OnItsWay(Cur(c)')
  PROVE  Moving'
<1>1. CASE tx.r = tx.w \/ uart.fifo > 0 \/ plic.pending
  BY <1>1, Zenon DEF Moving
<1>2. CASE \E e \in CPUs : OnItsWay(Cur(e))
  <2>1. PICK e \in CPUs : OnItsWay(Cur(e))
    BY <1>2
  <2>2. OnItsWay(Cur(e))'
    BY <2>1, Zenon DEF Others
  <2> QED BY <2>2, Zenon DEF Moving
<1> QED BY <1>1, <1>2, Zenon DEF Moving

(* CPU c goes on without a change to the console. *)
LEMMA Kept ==
  ASSUME TtyInv, NEW c \in CPUs, CpuInv', Calm(c), ctx'[cpu[c].cur].state # "SLEEPING",
         tx' = tx, sent' = sent, uart'.fifo = uart.fifo, cons'.r = cons.r, cons'.w = cons.w,
         clock' = clock, plic.pending => plic'.pending,
         Where(Cur(c)) \notin {"thr", "echo_thr"},
         Where(Cur(c)') \notin {"thr", "echo_thr", "r_sleep", "s_sleep"},
         OnItsWay(Cur(c)) => OnItsWay(Cur(c)')
  PROVE  TtyInv'
<1>1. Others(c) /\ TxRing /\ SentExact /\ SleepExact /\ Moving
  BY OthersStay, Zenon DEF TtyInv, IoInv
<1>2. SentExact'
  BY <1>1, SentKept, Zenon
<1>3. SleepExact'
  BY <1>1, SleepKept, Zenon
<1>4. Moving'
  BY <1>1, MovingKept, Zenon
<1>5. TxRing'
  BY <1>1, Zenon DEF TxRing
<1> QED BY <1>2, <1>3, <1>4, <1>5, Zenon DEF TtyInv, IoInv

(* The same, for a step from place to place. *)
LEMMA KeptAt ==
  ASSUME TtyInv, NEW c \in CPUs, NEW y, NEW q, Steps(c, y, q),
         tx' = tx, sent' = sent, uart'.fifo = uart.fifo, cons'.r = cons.r, cons'.w = cons.w,
         clock' = clock, plic.pending => plic'.pending,
         Where(Cur(c)) \notin {"thr", "echo_thr"}, q \notin {"thr", "echo_thr", "r_sleep", "s_sleep"},
         OnItsWay(Cur(c)) => OnItsWay(y)
  PROVE  TtyInv'
<1>1. CpuInv' /\ Calm(c) /\ Cur(c)' = y /\ Where(y) = q /\ ctx'[cpu[c].cur].state # "SLEEPING"
  BY Zenon DEF Steps, GoesOn
<1>2. Where(Cur(c)') = q /\ (OnItsWay(Cur(c)) => OnItsWay(Cur(c)'))
  BY <1>1, Zenon
<1> QED BY <1>1, <1>2, Kept, Zenon

(* A step that does not concern the console, from a plain context. *)
LEMMA Idle ==
  ASSUME TtyInv, NEW c \in CPUs, Quiet(c), Plain(Cur(c)),
         tx' = tx, sent' = sent, uart' = uart, cons' = cons, clock' = clock, plic.pending => plic'.pending
  PROVE  TtyInv'
<1>1. /\ CpuInv' /\ Calm(c) /\ ctx'[cpu[c].cur].state # "SLEEPING"
      /\ Where(Cur(c)) \notin {"thr", "echo_thr"} /\ ~OnItsWay(Cur(c))
      /\ Where(Cur(c)') \notin {"thr", "echo_thr", "r_sleep", "s_sleep"}
  BY Zenon DEF Quiet, Plain
<1> QED BY <1>1, Kept, Zenon

(* The same, from a place that is not special. *)
LEMMA IdleAt ==
  ASSUME TtyInv, NEW c \in CPUs, NEW p, At(c, p), p \notin Special, Quiet(c),
         tx' = tx, sent' = sent, uart' = uart, cons' = cons, clock' = clock, plic.pending => plic'.pending
  PROVE  TtyInv'
<1>1. Plain(Cur(c))
  BY PlainIs, Zenon DEF At
<1> QED BY <1>1, Idle, Zenon

(* The same, from place to place. *)
LEMMA IdleSteps ==
  ASSUME TtyInv, NEW c \in CPUs, NEW p, At(c, p), p \notin Special,
         NEW y, NEW q, Steps(c, y, q), q \notin Special, UNCHANGED <<tx, cons, uart, clock, sent>>,
         plic.pending => plic'.pending
  PROVE  TtyInv'
<1>1. Quiet(c)
  BY QuietSteps, Zenon
<1> QED BY <1>1, IdleAt, Zenon

-----------------------------------------------------------------------------
(* The actions, in the order of Tty. *)

(* A CPU that gets the lock it spins for is where it was. *)
LEMMA ActSpin ==
  ASSUME TtyInv, NEW c \in CPUs, spin(c), UNCHANGED kernel
  PROVE  TtyInv'
<1> DEFINE y == [Cur(c) EXCEPT !.want = "none"]
<1>1. CpuInv /\ Steps(c, y, Where(Cur(c)))
  BY StepSpin, Zenon DEF TtyInv
<1>2. Fits(cpu[c], Cur(c)) /\ Cur(c).want # "none" /\ IsContext(Cur(c))
  BY <1>1, CurFacts, Zenon DEF spin
<1>3. Where(Cur(c)) \in Entry
  BY <1>2, Zenon DEF Fits
<1>4. Where(Cur(c)) \notin {"thr", "echo_thr", "r_sleep", "s_sleep"}
  BY <1>3 DEF Entry
<1>5. OnItsWay(Cur(c)) => OnItsWay(y)
  BY <1>2 DEF OnItsWay, Where, IsContext, Fields
<1> HIDE DEF y
<1> QED BY <1>1, <1>4, <1>5, KeptAt, Zenon DEF kernel

(* The scheduler, and the ways in and out of traps. *)
LEMMA ActSched ==
  ASSUME TtyInv, NEW c \in CPUs, UNCHANGED kernel,
         \/ \E t \in Threads : scheduler(c, t)
         \/ scheduler_on(c) \/ trapret(c) \/ usertrap_intr(c) \/ usertrap_killed(c)
         \/ usertrapret(c) \/ sret(c)
  PROVE  TtyInv'
<1>0. CpuInv /\ tx' = tx /\ sent' = sent /\ uart' = uart /\ cons' = cons /\ clock' = clock /\ plic' = plic
  BY Zenon DEF TtyInv, kernel
<1>1. Quiet(c)
  BY <1>0, StepTake, StepOn, StepTrapret, StepUsertrapIntr, StepEnds, StepUsertrapret, StepSret, Zenon DEF Quiet
<1>2. \/ At(c, "scheduler") \/ At(c, "trapret") \/ At(c, "sysret") \/ At(c, "usertrapret") \/ At(c, "sret")
  BY Zenon DEF scheduler, scheduler_on, trapret, usertrap_intr, usertrap_killed, usertrapret, sret
<1>3. PICK p \in {"scheduler", "trapret", "sysret", "usertrapret", "sret"} : At(c, p)
  BY <1>2
<1>4. p \notin Special
  BY DEF Special
<1> QED BY <1>0, <1>1, <1>3, <1>4, IdleAt, Zenon

(* A system call, or a fault, of user code. *)
LEMMA ActSyscall ==
  ASSUME TtyInv, NEW c \in CPUs, syscall(c) \/ fault(c)
  PROVE  TtyInv'
<1>0. CpuInv /\ tx' = tx /\ sent' = sent /\ uart' = uart /\ cons' = cons /\ clock' = clock /\ plic' = plic
  BY Zenon DEF TtyInv, kernel, syscall, fault
<1>1. Quiet(c)
  BY <1>0, StepUsertrap, StepEnds, Zenon DEF syscall, fault
<1>2. At(c, "user") /\ "user" \notin Special
  BY DEF syscall, fault, usertrap, usertrap_fault, Special
<1> QED BY <1>0, <1>1, <1>2, IdleAt, Zenon

(* Who holds a lock is alone with it. *)
LEMMA Alone ==
  ASSUME CpuInv, NEW c \in CPUs, NEW p, At(c, p), NEW k \in Locks, Holds(p) = k,
         NEW e \in CPUs, e # c, Holds(Where(Cur(e))) = k
  PROVE  Where(Cur(e)) \in Entry
<1>1. lock[k] = c
  BY CurFacts, Zenon DEF At
<1>2. Cur(e).want # "none"
  BY <1>1, CurFacts, Zenon
<1> QED BY <1>2, CurFacts, Zenon DEF Fits

(* uartputc asks for its lock, or returns when everything is written. *)
LEMMA ActUartputc ==
  ASSUME TtyInv, NEW c \in CPUs, uartputc(c) \/ uartputc_wake(c)
  PROVE  TtyInv'
<1>0. /\ CpuInv /\ tx' = tx /\ sent' = sent /\ uart' = uart /\ cons' = cons /\ clock' = clock /\ plic' = plic
      /\ "tx" \in Locks
  BY TtyAssumption DEF TtyInv, kernel, uartputc, uartputc_wake
<1>1. CASE \E p \in {"syscall", "w_wake"} : At(c, p) /\ acquire(c, "tx", Cur(c), "w_full")
  <2>1. PICK p \in {"syscall", "w_wake"} : At(c, p) /\ acquire(c, "tx", Cur(c), "w_full")
    BY <1>1
  <2>2. /\ Path(p, "w_full") /\ p \notin Special /\ "w_full" \notin Special
        /\ Holds(p) = "none" /\ p \notin Outside /\ "w_full" \in Entry /\ Holds("w_full") = "tx"
    BY DEF Path, Special, Holds, Outside, Entry, Body, Handler
  <2>3. Alike(c, Cur(c))
    BY <1>0, <2>1, AlikeIs, Zenon
  <2>4. Steps(c, [Goto(Cur(c), "w_full") EXCEPT !.want = "tx"], "w_full")
    BY <1>0, <2>1, <2>2, <2>3, StepAcquire, Zenon
  <2> QED BY <1>0, <2>1, <2>2, <2>4, IdleSteps, Zenon
<1>2. CASE At(c, "syscall") /\ Set(c, Goto(Cur(c), "sysret")) /\ UNCHANGED <<cpu, lock, panicked>>
  <2>1. /\ Path("syscall", "sysret") /\ "syscall" \notin Special /\ "sysret" \notin Special
        /\ Holds("sysret") = Holds("syscall") /\ Nest("sysret") = Nest("syscall")
        /\ "syscall" \notin Outside /\ "sysret" \notin Outside
    BY DEF Path, Special, Holds, Nest, Outside, Body, Handler
  <2>2. Steps(c, Goto(Cur(c), "sysret"), "sysret")
    BY <1>0, <1>2, <2>1, StepGo, Zenon
  <2> QED BY <1>0, <1>2, <2>1, <2>2, IdleSteps, Zenon
<1> QED BY <1>1, <1>2, Zenon DEF uartputc, uartputc_wake, Runs

(* A multiple is not smaller. *)
LEMMA ProductLarge ==
  ASSUME NEW m \in Nat, NEW k \in Int, k >= 1
  PROVE  m * k >= m
BY SMT

(* The cells of the ring that are in use are different. *)
LEMMA CellsDiffer ==
  ASSUME NEW a \in Nat, NEW b \in Nat, a < b, b < a + UART_TX_BUF_SIZE
  PROVE  a % UART_TX_BUF_SIZE # b % UART_TX_BUF_SIZE
<1> DEFINE m == UART_TX_BUF_SIZE
           x == a \div m
           y == b \div m
<1>1. m \in Nat /\ m > 0
  BY TtyAssumption
<1>2. x \in Int /\ y \in Int /\ a = (m * x) + (a % m) /\ b = (m * y) + (b % m) /\ a % m \in Int
  BY <1>1, SMT
<1>3. SUFFICES ASSUME a % m = b % m PROVE FALSE
  OBVIOUS
<1> HIDE DEF m, x, y
<1>4. b - a = m * (y - x)
  BY <1>1, <1>2, <1>3, SMT
<1>5. CASE y - x >= 1
  <2>1. m * (y - x) >= m
    BY <1>1, <1>2, <1>5, ProductLarge
  <2> QED BY <2>1, <1>1, <1>4, SMT DEF m
<1>6. CASE y - x <= 0
  <2>1. m * (y - x) <= 0
    BY <1>1, <1>2, <1>6, SMT
  <2> QED BY <2>1, <1>4, SMT
<1> QED BY <1>2, <1>5, <1>6, SMT

(* The thread of CPU c has gone to sleep, with a reason. *)
LEMMA Slept ==
  ASSUME TtyInv, NEW c \in CPUs, NEW p, At(c, p), p \notin Handler, p \in Body, p \notin {"start", "thr"},
         NEW k, Asleep(c, k), UNCHANGED <<tx, cons, uart, plic, clock, sent>>,
         (k = "tx" /\ Full) \/ (k = "cons" /\ cons.r = cons.w) \/ (k = "ticks" /\ TooEarly(Cur(c)))
  PROVE  TtyInv'
<1>1. Others(c) /\ TxRing /\ SentExact /\ SleepExact /\ Moving /\ CpuInv /\ CpuInv' /\ Calm(c) /\ Plain(Cur(c)')
  BY OthersStay, Zenon DEF TtyInv, IoInv, Asleep
<1>2. Where(Cur(c)) = p /\ Cur(c).trap = "none"
  BY <1>1, CurFacts, NoTrap, Zenon DEF At
<1>3. Where(Cur(c)) \notin {"thr", "echo_thr"} /\ ~OnItsWay(Cur(c))
  BY <1>2 DEF OnItsWay, Body
<1>4. Where(Cur(c)') \notin {"thr", "echo_thr", "r_sleep", "s_sleep"}
  BY <1>1, Zenon DEF Plain
<1>5. TxRing'
  BY <1>1, Zenon DEF TxRing
<1>6. SentExact'
  BY <1>1, <1>3, <1>4, SentKept, Zenon
<1>7. Moving'
  BY <1>1, <1>3, MovingKept, Zenon
<1>8. ASSUME NEW t \in Threads, ctx'[t].state = "SLEEPING"
      PROVE  \/ ctx'[t].chan = "tx" /\ Full'
             \/ ctx'[t].chan = "cons" /\ cons'.r = cons'.w
             \/ ctx'[t].chan = "ticks" /\ TooEarly(ctx[t])'
  <2>1. CASE t = cpu[c].cur
    <3>1. ctx'[t].chan = k /\ ctx'[t].n = Cur(c).n /\ ctx'[t].arg = Cur(c).arg
      BY <2>1, Zenon DEF Asleep
    <3> QED BY <3>1, Zenon DEF Full, TooEarly, Minus
  <2>2. CASE t # cpu[c].cur
    <3>1. Same(ctx[t], ctx'[t])
      BY <1>1, <1>8, <2>2, Zenon DEF Calm
    <3>2. ctx[t].state = "SLEEPING" /\ ctx'[t].chan = ctx[t].chan /\ ctx'[t].n = ctx[t].n /\ ctx'[t].arg = ctx[t].arg
      BY <1>8, <3>1, Zenon DEF Same
    <3> QED BY <3>2, <1>1, Zenon DEF SleepExact, Full, TooEarly, Minus
  <2> QED BY <2>1, <2>2, Zenon
<1>9. ASSUME NEW e \in CPUs
      PROVE  /\ Where(Cur(e)') = "r_sleep" => cons'.r = cons'.w
             /\ Where(Cur(e)') = "s_sleep" => TooEarly(Cur(e))'
  BY <1>1, <1>4, Zenon DEF SleepExact, Others, TooEarly, Minus
<1>10. SleepExact'
  BY <1>8, <1>9, Zenon DEF SleepExact
<1> QED BY <1>1, <1>5, <1>6, <1>7, <1>10, Zenon DEF TtyInv, IoInv

(* A character is put into the ring. *)
LEMMA RingStore ==
  ASSUME TxRing, IoTypes, ~Full,
         tx' = [tx EXCEPT !.buf[tx.w % UART_TX_BUF_SIZE] = tx.w + 1, !.w = @ + 1]
  PROVE  TxRing' /\ tx'.r = tx.r
<1> DEFINE m == UART_TX_BUF_SIZE
           r == tx.r
           w == tx.w
<1>1. m \in Nat /\ m > 0 /\ r \in Nat /\ w \in Nat /\ r <= w /\ w < r + m /\ DOMAIN tx.buf = 0..m - 1
  <2>1. /\ r \in Nat /\ w \in Nat /\ r <= w /\ w <= r + m /\ w # r + m
        /\ DOMAIN tx.buf = 0..m - 1 /\ m \in Nat \ {0}
    BY TtyAssumption, Zenon DEF TxRing, Full
  <2> HIDE DEF m, r, w
  <2>2. m > 0 /\ w < r + m
    BY <2>1
  <2> QED BY <2>1, <2>2 DEF m
<1>2. /\ tx'.r = r /\ tx'.w = w + 1 /\ tx'.buf = [tx.buf EXCEPT ![w % m] = w + 1]
  BY DEF IoTypes
<1>3. w % m \in 0..m - 1
  BY <1>1
<1>4. ASSUME NEW i \in Nat, r <= i, i < w + 1
      PROVE  tx'.buf[i % m] = i + 1
  <2>1. CASE i = w
    BY <1>1, <1>2, <1>3, <2>1
  <2>2. CASE i < w
    <3>1. w < i + m
      BY <1>1, <1>4
    <3>2. i % m # w % m
      BY <1>1, <2>2, <3>1, CellsDiffer
    <3>3. i % m \in 0..m - 1
      BY <1>1
    <3>4. tx.buf[i % m] = i + 1
      BY <1>4, <2>2 DEF TxRing
    <3> HIDE DEF m
    <3> QED BY <1>1, <1>2, <3>2, <3>3, <3>4, Zenon
  <2> QED BY <1>1, <1>4, <2>1, <2>2
<1> HIDE DEF m, r, w
<1>5. /\ tx'.r \in Nat /\ tx'.w \in Nat /\ tx'.r <= tx'.w /\ tx'.w <= tx'.r + m
      /\ DOMAIN tx'.buf = 0..m - 1
  BY <1>1, <1>2
<1> QED BY <1>2, <1>4, <1>5 DEF TxRing, m, r

(* uartputc sleeps while the ring is full, or puts its character into it. *)
LEMMA ActFull ==
  ASSUME TtyInv, IoTypes, NEW c \in CPUs, uartputc_full(c)
  PROVE  TtyInv'
<1>0. /\ CpuInv /\ sent' = sent /\ uart' = uart /\ cons' = cons /\ clock' = clock /\ plic' = plic
      /\ At(c, "w_full") /\ "tx" \in Locks
  BY TtyAssumption DEF TtyInv, uartputc_full
<1>1. /\ "w_full" \notin Handler /\ "w_full" \in Body /\ Holds("w_full") = "tx" /\ Nest("w_full") = 1
      /\ "w_wake" \in Body /\ Holds("w_wake") = "none" /\ "w_wake" \notin Outside
      /\ Path("w_full", "start") /\ Holds("start") = "tx" /\ Nest("start") = 1
      /\ "w_full" \notin Outside /\ "start" \notin Outside
  BY DEF Handler, Body, Holds, Nest, Outside, Path
<1>2. CASE Full
  <2>1. sleep(c, "tx", "tx", Cur(c), "w_wake") /\ tx' = tx
    BY <1>2, Zenon DEF uartputc_full
  <2>2. Asleep(c, "tx")
    BY <1>0, <1>1, <2>1, Sleeps
  <2> QED BY <1>0, <1>1, <1>2, <2>1, <2>2, Slept
<1>3. CASE ~Full
  <2> DEFINE y == Goto(Cur(c), "start")
  <2>1. /\ tx' = [tx EXCEPT !.buf[tx.w % UART_TX_BUF_SIZE] = tx.w + 1, !.w = @ + 1]
        /\ Set(c, y) /\ UNCHANGED <<cpu, lock, panicked>>
    BY <1>3, Zenon DEF uartputc_full
  <2>2. Steps(c, y, "start")
    BY <1>0, <1>1, <2>1, StepGo, Zenon
  <2>3. /\ CpuInv' /\ Calm(c) /\ Cur(c)' = y /\ Where(y) = "start" /\ ctx'[cpu[c].cur].state # "SLEEPING"
        /\ Others(c)
    BY <2>2, OthersStay, Zenon DEF Steps, GoesOn
  <2>4. TxRing /\ SentExact /\ SleepExact
    BY Zenon DEF TtyInv, IoInv
  <2>5. TxRing' /\ tx'.r = tx.r
    BY <1>3, <2>1, <2>4, RingStore, Zenon
  <2>6. Where(Cur(c)) = "w_full" /\ Where(Cur(c)') = "start"
    BY <1>0, <2>3, Zenon DEF At
  <2>7. SentExact'
    BY <1>0, <2>3, <2>4, <2>5, <2>6, SentKept
  <2>8. Moving'
    BY <2>3, <2>6, Zenon DEF Moving, OnItsWay
  <2>9. SleepExact'
    <3>1. ASSUME NEW t \in Threads, ctx'[t].state = "SLEEPING"
          PROVE  \/ ctx'[t].chan = "cons" /\ cons'.r = cons'.w
                 \/ ctx'[t].chan = "ticks" /\ TooEarly(ctx[t])'
      <4>1. Same(ctx[t], ctx'[t])
        BY <2>3, <3>1, Zenon DEF Calm
      <4>2. ctx[t].state = "SLEEPING" /\ ctx'[t].chan = ctx[t].chan /\ ctx'[t].n = ctx[t].n /\ ctx'[t].arg = ctx[t].arg
        BY <3>1, <4>1 DEF Same
      <4> QED BY <1>0, <1>3, <2>4, <4>2, Zenon DEF SleepExact, TooEarly, Minus
    <3>2. ASSUME NEW e \in CPUs
          PROVE  /\ Where(Cur(e)') = "r_sleep" => cons'.r = cons'.w
                 /\ Where(Cur(e)') = "s_sleep" => TooEarly(Cur(e))'
      BY <1>0, <2>3, <2>4, <2>6, Zenon DEF SleepExact, Others, TooEarly, Minus
    <3> QED BY <3>1, <3>2, Zenon DEF SleepExact
  <2> QED BY <2>3, <2>5, <2>7, <2>8, <2>9, Zenon DEF TtyInv, IoInv
<1> QED BY <1>2, <1>3

(* Nobody sleeps on chan after a step of CPU c. *)
NoneOn(c, chan) == \A t \in Threads : t # cpu[c].cur => ~(ctx'[t].state = "SLEEPING" /\ ctx'[t].chan = chan)

(* What was waited for has not come, or everybody who waits for it has been woken. *)
LEMMA SleepStays ==
  ASSUME SleepExact, NEW c \in CPUs, Others(c), Calm(c), ctx'[cpu[c].cur].state # "SLEEPING",
         (tx'.r = tx.r /\ tx'.w = tx.w) \/ NoneOn(c, "tx"),
         \/ cons'.r = cons.r /\ cons'.w = cons.w
         \/ NoneOn(c, "cons") /\ \A e \in CPUs : e # c => Where(Cur(e)) # "r_sleep",
         \/ clock' = clock
         \/ NoneOn(c, "ticks") /\ \A e \in CPUs : e # c => Where(Cur(e)) # "s_sleep",
         Where(Cur(c)') = "r_sleep" => cons'.r = cons'.w,
         Where(Cur(c)') = "s_sleep" => TooEarly(Cur(c))'
  PROVE  SleepExact'
<1>1. ASSUME NEW t \in Threads, ctx'[t].state = "SLEEPING"
      PROVE  \/ ctx'[t].chan = "tx" /\ Full'
             \/ ctx'[t].chan = "cons" /\ cons'.r = cons'.w
             \/ ctx'[t].chan = "ticks" /\ TooEarly(ctx[t])'
  <2>1. Same(ctx[t], ctx'[t]) /\ t # cpu[c].cur
    BY <1>1, Zenon DEF Calm
  <2>2. ctx[t].state = "SLEEPING" /\ ctx'[t].chan = ctx[t].chan /\ ctx'[t].n = ctx[t].n /\ ctx'[t].arg = ctx[t].arg
    BY <1>1, <2>1, Zenon DEF Same
  <2>3. CASE ctx[t].chan = "tx" /\ Full
    <3>1. tx'.r = tx.r /\ tx'.w = tx.w
      BY <1>1, <2>1, <2>2, <2>3, Zenon DEF NoneOn
    <3> QED BY <2>2, <2>3, <3>1, Zenon DEF Full
  <2>4. CASE ctx[t].chan = "cons" /\ cons.r = cons.w
    BY <1>1, <2>1, <2>2, <2>4, Zenon DEF NoneOn
  <2>5. CASE ctx[t].chan = "ticks" /\ TooEarly(ctx[t])
    <3>1. clock' = clock
      BY <1>1, <2>1, <2>2, <2>5, Zenon DEF NoneOn
    <3> QED BY <2>2, <2>5, <3>1, Zenon DEF TooEarly, Minus
  <2> QED BY <2>2, <2>3, <2>4, <2>5, Zenon DEF SleepExact
<1>2. ASSUME NEW e \in CPUs
      PROVE  /\ Where(Cur(e)') = "r_sleep" => cons'.r = cons'.w
             /\ Where(Cur(e)') = "s_sleep" => TooEarly(Cur(e))'
  BY Zenon DEF SleepExact, Others, TooEarly, Minus
<1> QED BY <1>1, <1>2, Zenon DEF SleepExact

(* uartstart returns, to uartputc or to uartintr; the interrupt is complete. *)
LEMMA ActRelease ==
  ASSUME TtyInv, IoTypes, NEW c \in CPUs, uart_release(c) \/ plic_complete(c)
  PROVE  TtyInv'
<1>0. /\ CpuInv /\ sent' = sent /\ tx' = tx /\ uart' = uart /\ cons' = cons /\ clock' = clock
      /\ "tx" \in Locks
  BY TtyAssumption DEF TtyInv, uart_release, plic_complete, kernel
<1>1. CASE uart_release(c)
  <2> DEFINE q == IF Cur(c).trap = "none" THEN "syscall" ELSE "complete"
  <2>1. At(c, "tx_rel") /\ release(c, "tx", Cur(c), q) /\ plic' = plic
    BY <1>1, Zenon DEF uart_release, kernel
  <2>2. /\ "tx_rel" \notin Special /\ q \notin Special
        /\ Holds("tx_rel") = "tx" /\ Nest("tx_rel") = 1 /\ Holds(q) = "none" /\ q \notin Outside
    BY DEF Special, Holds, Nest, Outside
  <2>3. Alike(c, Cur(c)) /\ IsContext(Cur(c)) /\ Where(Cur(c)) = "tx_rel"
    BY <1>0, <2>1, AlikeIs, CurFacts, Zenon DEF At
  <2>4. To(Cur(c), Goto(Cur(c), q), q) /\ Goto(Cur(c), q).want = "none"
    <3>1. Legal(Cur(c), q) /\ Where(Cur(c)) # "scheduler" /\ Cur(c).want = "none"
      BY <2>1, <2>3 DEF Legal, Body, Handler, At
    <3> QED BY <2>3, <3>1, GotoIs
  <2> HIDE DEF q
  <2>5. Steps(c, Goto(Cur(c), q), q)
    BY <1>0, <2>1, <2>2, <2>4, Releases, Zenon
  <2> QED BY <1>0, <2>1, <2>2, <2>5, IdleSteps, Zenon
<1>2. CASE plic_complete(c)
  <2>1. /\ At(c, "complete") /\ Set(c, Goto(Cur(c), "trapret")) /\ UNCHANGED <<cpu, lock, panicked>>
        /\ plic' = [plic EXCEPT !.claimed = FALSE]
    BY <1>2, Zenon DEF plic_complete
  <2>2. /\ Path("complete", "trapret") /\ "complete" \notin Special /\ "trapret" \notin Special
        /\ Holds("trapret") = Holds("complete") /\ Nest("trapret") = Nest("complete")
        /\ "complete" \notin Outside /\ "trapret" \notin Outside
    BY DEF Path, Special, Holds, Nest, Outside, Body, Handler
  <2>3. plic'.pending = plic.pending
    BY <2>1 DEF IoTypes
  <2>4. Steps(c, Goto(Cur(c), "trapret"), "trapret")
    BY <1>0, <2>1, <2>2, StepGo, Zenon
  <2> QED BY <1>0, <2>1, <2>2, <2>3, <2>4, IdleSteps, Zenon
<1> QED BY <1>1, <1>2

(* An interrupt is taken. *)
LEMMA ActInterrupt ==
  ASSUME TtyInv, NEW c \in CPUs, external(c) \/ timer(c)
  PROVE  TtyInv'
<1>1. PICK h \in {"claim", "clockintr", "yield"} : trap(c, h)
  <2>1. CASE external(c)
    BY <2>1, Zenon DEF external
  <2>2. CASE timer(c)
    BY <2>2 DEF timer
  <2> QED BY <2>1, <2>2
<1>2. /\ CpuInv /\ sent' = sent /\ tx' = tx /\ uart' = uart /\ cons' = cons /\ clock' = clock /\ plic' = plic
  BY Zenon DEF TtyInv, external, timer, kernel
<1> QED BY <1>1, <1>2, StepTrap, Idle, Zenon

(* Such a step keeps the output moving whatever happens to the interrupt. *)
LEMMA KeptOnWay ==
  ASSUME TtyInv, NEW c \in CPUs, NEW y, NEW q, Steps(c, y, q), OnItsWay(y),
         tx' = tx, sent' = sent, uart'.fifo = uart.fifo, cons'.r = cons.r, cons'.w = cons.w,
         clock' = clock, Where(Cur(c)) \notin {"thr", "echo_thr"},
         q \notin {"thr", "echo_thr", "r_sleep", "s_sleep"}
  PROVE  TtyInv'
<1>1. /\ CpuInv' /\ Calm(c) /\ Cur(c)' = y /\ Where(Cur(c)') = q /\ ctx'[cpu[c].cur].state # "SLEEPING"
      /\ Others(c)
  BY OthersStay, Zenon DEF Steps, GoesOn
<1>2. TxRing /\ SentExact /\ SleepExact
  BY Zenon DEF TtyInv, IoInv
<1>3. SentExact'
  BY <1>1, <1>2, SentKept, Zenon
<1>4. SleepExact'
  BY <1>1, <1>2, SleepKept, Zenon
<1>5. TxRing' /\ Moving'
  BY <1>1, <1>2, Zenon DEF TxRing, Moving
<1> QED BY <1>1, <1>3, <1>4, <1>5, Zenon DEF TtyInv, IoInv

(* Who takes the interrupt off the PLIC is on the way to uartstart. *)
LEMMA ActClaim ==
  ASSUME TtyInv, NEW c \in CPUs, plic_claim(c)
  PROVE  TtyInv'
<1>0. /\ CpuInv /\ At(c, "claim") /\ tx' = tx /\ sent' = sent /\ uart' = uart /\ cons' = cons /\ clock' = clock
      /\ UNCHANGED <<cpu, lock, panicked>>
  BY Zenon DEF TtyInv, plic_claim
<1>1. /\ Path("claim", "getc") /\ Path("claim", "trapret") /\ "claim" \notin Special /\ "trapret" \notin Special
      /\ Holds("claim") = Holds("getc") /\ Nest("claim") = Nest("getc")
      /\ Holds("trapret") = Holds("claim") /\ Nest("trapret") = Nest("claim") /\ "claim" \notin Body
      /\ "claim" \notin Outside /\ "trapret" \notin Outside /\ "getc" \notin Outside
  BY DEF Path, Special, Holds, Nest, Outside, Body, Handler
<1>2. Cur(c).trap # "none" /\ Where(Cur(c)) = "claim"
  BY <1>0, <1>1, TrapAt, Zenon
<1>3. CASE plic.pending /\ ~plic.claimed
  <2>1. Set(c, Goto(Cur(c), "getc"))
    BY <1>3, Zenon DEF plic_claim
  <2>2. Steps(c, Goto(Cur(c), "getc"), "getc")
    BY <1>0, <1>1, <2>1, StepGo, Zenon
  <2>3. To(Cur(c), Goto(Cur(c), "getc"), "getc")
    BY <1>0, <1>1, GoesIs, Zenon
  <2>4. OnItsWay(Goto(Cur(c), "getc"))
    BY <1>2, <2>3, OnWayIs, Zenon
  <2> QED BY <1>0, <1>2, <2>2, <2>4, KeptOnWay
<1>4. CASE ~(plic.pending /\ ~plic.claimed)
  <2>1. Set(c, Goto(Cur(c), "trapret")) /\ plic' = plic
    BY <1>4, Zenon DEF plic_claim
  <2>2. Steps(c, Goto(Cur(c), "trapret"), "trapret")
    BY <1>0, <1>1, <2>1, StepGo, Zenon
  <2> QED BY <1>0, <1>1, <2>1, <2>2, IdleSteps, Zenon
<1> QED BY <1>3, <1>4

(* uartintr reads a character, or goes on to uartstart. *)
LEMMA ActIntr ==
  ASSUME TtyInv, IoTypes, NEW c \in CPUs, uartintr(c)
  PROVE  TtyInv'
<1>0. /\ CpuInv /\ At(c, "getc") /\ tx' = tx /\ sent' = sent /\ cons' = cons /\ clock' = clock
      /\ "tx" \in Locks /\ "cons" \in Locks
  BY TtyAssumption DEF TtyInv, uartintr
<1>1. /\ Path("getc", "consoleintr") /\ Path("getc", "start") /\ Holds("getc") = "none"
      /\ "getc" \notin Outside /\ "getc" \notin Body /\ "start" \in Entry /\ "consoleintr" \in Entry
      /\ Holds("start") = "tx" /\ Holds("consoleintr") = "cons"
  BY DEF Path, Holds, Outside, Body, Handler, Entry
<1>2. Cur(c).trap # "none" /\ Where(Cur(c)) = "getc"
  BY <1>0, <1>1, TrapAt, Zenon
<1>3. CASE uart.rx # <<>>
  <2> DEFINE x == [Cur(c) EXCEPT !.c = Head(uart.rx)]
             y == [Goto(x, "consoleintr") EXCEPT !.want = "cons"]
  <2>1. acquire(c, "cons", x, "consoleintr") /\ uart' = [uart EXCEPT !.rx = Tail(@)]
    BY <1>3, Zenon DEF uartintr
  <2>2. uart'.fifo = uart.fifo
    BY <2>1 DEF IoTypes
  <2>3. Alike(c, x)
    BY <1>0, AlikeIs, Zenon
  <2> HIDE DEF x
  <2>4. Steps(c, y, "consoleintr")
    BY <1>0, <1>1, <2>1, <2>3, StepAcquire, Zenon
  <2>5. To(Cur(c), Goto(x, "consoleintr"), "consoleintr")
    BY <1>0, <1>1, <2>3, AlikeGoes, Zenon
  <2>6. To(Cur(c), y, "consoleintr")
    BY <1>0, <2>5, WantIs, Zenon
  <2> HIDE DEF y
  <2>7. OnItsWay(y)
    BY <1>2, <2>6, OnWayIs, Zenon
  <2> QED BY <1>0, <1>2, <2>2, <2>4, <2>7, KeptOnWay, Zenon
<1>4. CASE uart.rx = <<>>
  <2> DEFINE y == [Goto(Cur(c), "start") EXCEPT !.want = "tx"]
  <2>1. acquire(c, "tx", Cur(c), "start") /\ uart' = uart
    BY <1>4, Zenon DEF uartintr, AfterInput
  <2>2. Alike(c, Cur(c))
    BY <1>0, AlikeIs, Zenon
  <2>3. Steps(c, y, "start")
    BY <1>0, <1>1, <2>1, <2>2, StepAcquire, Zenon
  <2> HIDE DEF y
  <2>4. OnItsWay(y)
    BY <2>3, Zenon DEF Steps, OnItsWay
  <2> QED BY <1>0, <1>2, <2>1, <2>3, <2>4, KeptOnWay
<1> QED BY <1>3, <1>4

(* consoleintr looks at a character; the readers see nothing of it yet. *)
LEMMA ActConsoleintr ==
  ASSUME TtyInv, IoTypes, NEW c \in CPUs, consoleintr(c)
  PROVE  TtyInv'
<1>0. /\ CpuInv /\ At(c, "consoleintr") /\ tx' = tx /\ sent' = sent /\ uart' = uart /\ clock' = clock
      /\ UNCHANGED <<cpu, lock, panicked>>
  BY Zenon DEF TtyInv, consoleintr
<1>1. PICK q \in {"echo", "cons_rel"} : Set(c, Goto(Cur(c), q))
  BY DEF consoleintr
<1>2. cons'.r = cons.r /\ cons'.w = cons.w
  BY DEF consoleintr, IoTypes
<1>3. /\ Path("consoleintr", q) /\ "consoleintr" \notin Body /\ "consoleintr" \notin Outside /\ q \notin Outside
      /\ Holds(q) = Holds("consoleintr") /\ Nest(q) = Nest("consoleintr")
  BY DEF Path, Holds, Nest, Outside, Body, Handler
<1>4. Cur(c).trap # "none" /\ Where(Cur(c)) = "consoleintr"
  BY <1>0, <1>3, TrapAt, Zenon
<1>5. Steps(c, Goto(Cur(c), q), q)
  BY <1>0, <1>1, <1>3, StepGo, Zenon
<1>6. To(Cur(c), Goto(Cur(c), q), q)
  BY <1>0, <1>3, GoesIs, Zenon
<1>7. OnItsWay(Goto(Cur(c), q))
  BY <1>4, <1>6, OnWayIs
<1> QED BY <1>0, <1>2, <1>4, <1>5, <1>7, KeptOnWay
=============================================================================
