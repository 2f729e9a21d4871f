-------------------------------- MODULE Tty --------------------------------
(***************************************************************************)
(* console.c, uart.c, the device and clock interrupts of trap.c, and sleep *)
(* of sysproc.c, on the CPUs of Cpu: threads that write to the console,    *)
(* read lines from it or sleep, and the handlers that run between any two  *)
(* of their steps on any CPU with interrupts enabled.  The UART and the    *)
(* PLIC are external.                                                      *)
(***************************************************************************)
EXTENDS Cpu

CONSTANTS
  CPU0,                          \* the CPU that counts ticks
  UART_TX_BUF_SIZE, INPUT_BUF_SIZE,
  FIFO,                          \* characters that the UART can hold
  UINT,                          \* number of values of a uint
  ReadSizes, SleepTicks,         \* bound: arguments of read and sleep
  Scenarios                      \* bound: prog (what each thread runs: "write", "read",
                                 \* "sleep", or "none" if there is none), keys (what is typed: "a", "nl", "eof", "bs",
                                 \* "kill"), out, ticks, kills (numbers of characters
                                 \* written, timer interrupts and kills)

VARIABLES
  tx,       \* r, w and buf of uart_tx_buf
  cons,     \* r, w, e and buf of the console
  uart,     \* fifo (characters being sent), rx (received)
  plic,     \* pending, claimed
  clock,    \* ticks, and all (ticks without wrapping)
  sent,     \* history: the last buffered character given to the UART
  line,     \* history: q (complete, not read yet) and ed (being edited)
  left      \* what is left of the scenario

vars == <<cpu, lock, ctx, panicked, tx, cons, uart, plic, clock, sent, line, left>>
kernel == <<tx, cons, uart, plic, clock, sent, line, left>>

ASSUME TtyAssumption ==
  /\ IsFiniteSet(CPUs) /\ CPUs \cap Threads = {} /\ "free" \notin CPUs /\ CPU0 \in CPUs
  /\ FIFO \in Nat /\ FIFO >= Cardinality(CPUs)
  /\ UART_TX_BUF_SIZE \in Nat \ {0}
  /\ Locks = {"tx", "cons", "ticks"}
  /\ UINT % INPUT_BUF_SIZE = 0 /\ INPUT_BUF_SIZE < UINT
  /\ \A s \in Scenarios : s.prog \in [Threads -> {"write", "read", "sleep", "none"}]

Context(pc, state) ==
  [pc |-> pc, trap |-> "none", want |-> "none", state |-> state, chan |-> "none", intena |-> 1,
   killed |-> 0, c |-> "none", ch |-> 0, n |-> 0, arg |-> 0]

Init ==
  /\ left \in Scenarios
  /\ cpu = [c \in CPUs |-> [intr |-> 1, stvec |-> "kernel", noff |-> 0, intena |-> 1, cur |-> c]]
  /\ lock = [k \in Locks |-> "free"]
  /\ ctx = [k \in CPUs \cup Threads |->
             IF k \in CPUs THEN Context("scheduler", "RUNNING")
             ELSE Context("usertrapret", IF left.prog[k] = "none" THEN "UNUSED" ELSE "RUNNABLE")]
  /\ panicked = FALSE
  /\ tx = [r |-> 0, w |-> 0, buf |-> [i \in 0..UART_TX_BUF_SIZE - 1 |-> 0]]
  /\ cons = [r |-> 0, w |-> 0, e |-> 0, buf |-> [i \in 0..INPUT_BUF_SIZE - 1 |-> "none"]]
  /\ uart = [fifo |-> 0, rx |-> <<>>]
  /\ plic = [pending |-> FALSE, claimed |-> FALSE]
  /\ clock = [ticks |-> 0, all |-> 0]
  /\ sent = 0
  /\ line = [q |-> <<>>, ed |-> <<>>]

-----------------------------------------------------------------------------
(* The UART and the PLIC: an interrupt when the transmitter runs empty and *)
(* when a character arrives; while it is claimed no other CPU is told.     *)
transmit ==
  /\ ~panicked /\ uart.fifo > 0
  /\ uart' = [uart EXCEPT !.fifo = @ - 1]
  /\ plic' = [plic EXCEPT !.pending = @ \/ uart.fifo = 1]
  /\ UNCHANGED <<cpuVars, tx, cons, clock, sent, line, left>>

receive ==
  /\ ~panicked /\ left.keys # <<>>
  /\ uart' = [uart EXCEPT !.rx = Append(@, Head(left.keys))]
  /\ left' = [left EXCEPT !.keys = Tail(@)]
  /\ plic' = [plic EXCEPT !.pending = TRUE]
  /\ UNCHANGED <<cpuVars, tx, cons, clock, sent, line>>

(* A thread is killed by another. *)
killed(t) ==
  /\ left.kills > 0 /\ kill(t)
  /\ left' = [left EXCEPT !.kills = @ - 1]
  /\ UNCHANGED <<tx, cons, uart, plic, clock, sent, line>>

(* A thread is killed for what it does. *)
fault(c) ==
  /\ left.kills > 0 /\ usertrap_fault(c)
  /\ left' = [left EXCEPT !.kills = @ - 1]
  /\ UNCHANGED <<tx, cons, uart, plic, clock, sent, line>>

(* A thread makes a system call, as long as it has something to do. *)
syscall(c) ==
  /\ usertrap(c)
  /\ left.prog[cpu[c].cur] = "write" => left.out > 0
  /\ UNCHANGED kernel

Runs(c, what) == At(c, "syscall") /\ left.prog[cpu[c].cur] = what

-----------------------------------------------------------------------------
(* consolewrite: a character at a time through uartputc. *)
uartputc(c) ==
  /\ Runs(c, "write")
  /\ IF left.out > 0
     THEN /\ acquire(c, "tx", Cur(c), "w_full")
          /\ left' = [left EXCEPT !.out = @ - 1]
     ELSE Set(c, Goto(Cur(c), "sysret")) /\ UNCHANGED <<cpu, lock, panicked, left>>
  /\ UNCHANGED <<tx, cons, uart, plic, clock, sent, line>>

(* Mutant: the buffer is taken to be full one character late. *)
Full_late == tx.w = tx.r + UART_TX_BUF_SIZE + 1
Full == tx.w = tx.r + UART_TX_BUF_SIZE

uartputc_full(c) ==
  /\ At(c, "w_full")
  /\ IF Full
     THEN sleep(c, "tx", "tx", Cur(c), "w_wake") /\ UNCHANGED tx
     ELSE /\ tx' = [tx EXCEPT !.buf[tx.w % UART_TX_BUF_SIZE] = tx.w + 1, !.w = @ + 1]
          /\ Set(c, Goto(Cur(c), "start"))
          /\ UNCHANGED <<cpu, lock, panicked>>
  /\ UNCHANGED <<cons, uart, plic, clock, sent, line, left>>

uartputc_wake(c) ==
  /\ At(c, "w_wake")
  /\ acquire(c, "tx", Cur(c), "w_full")
  /\ UNCHANGED kernel

(* uartstart, called by uartputc and by uartintr: the test of LSR and the  *)
(* write to THR are two steps, between which uartputc_sync may write.  A   *)
(* character for a full FIFO would be lost.                                *)
uartstart(c) ==
  /\ At(c, "start")
  /\ IF tx.w = tx.r \/ uart.fifo > 0
     THEN Set(c, Goto(Cur(c), "tx_rel")) /\ UNCHANGED tx
     ELSE /\ tx' = [tx EXCEPT !.r = @ + 1]
          /\ ctx' = [Woken(ctx, "tx") EXCEPT ![cpu[c].cur] =
                      [Goto(@, "thr") EXCEPT !.ch = tx.buf[tx.r % UART_TX_BUF_SIZE]]]
  /\ UNCHANGED <<cpu, lock, panicked, cons, uart, plic, clock, sent, line, left>>

uartstart_thr(c) ==
  /\ At(c, "thr")
  /\ uart' = [uart EXCEPT !.fifo = @ + 1]
  /\ sent' = IF uart.fifo < FIFO THEN Cur(c).ch ELSE sent
  /\ Set(c, [Goto(Cur(c), "start") EXCEPT !.ch = 0])
  /\ UNCHANGED <<cpu, lock, panicked, tx, cons, plic, clock, line, left>>

uart_release(c) ==
  /\ At(c, "tx_rel")
  /\ release(c, "tx", Cur(c), IF Cur(c).trap = "none" THEN "syscall" ELSE "complete")
  /\ UNCHANGED kernel

-----------------------------------------------------------------------------
(* devintr: an external interrupt.  A CPU that finds nothing to claim      *)
(* returns at once.                                                        *)
external(c) ==
  /\ plic.pending /\ ~plic.claimed
  /\ trap(c, "claim")
  /\ UNCHANGED kernel

plic_claim(c) ==
  LET mine == plic.pending /\ ~plic.claimed
  IN  /\ At(c, "claim")
      /\ plic' = IF mine THEN [pending |-> FALSE, claimed |-> TRUE] ELSE plic
      /\ Set(c, Goto(Cur(c), IF mine THEN "getc" ELSE "trapret"))
      /\ UNCHANGED <<cpu, lock, panicked, tx, cons, uart, clock, sent, line, left>>

(* Mutant: uartintr does not start the next character. *)
AfterInput_not(c) == Set(c, Goto(Cur(c), "complete")) /\ UNCHANGED <<cpu, lock, panicked>>
AfterInput(c) == acquire(c, "tx", Cur(c), "start")

(* uartintr: uartgetc and consoleintr until nothing is left, then uartstart. *)
uartintr(c) ==
  /\ At(c, "getc")
  /\ IF uart.rx # <<>>
     THEN /\ acquire(c, "cons", [Cur(c) EXCEPT !.c = Head(uart.rx)], "consoleintr")
          /\ uart' = [uart EXCEPT !.rx = Tail(@)]
     ELSE AfterInput(c) /\ UNCHANGED uart
  /\ UNCHANGED <<tx, cons, plic, clock, sent, line, left>>

plic_complete(c) ==
  /\ At(c, "complete")
  /\ plic' = [plic EXCEPT !.claimed = FALSE]
  /\ Set(c, Goto(Cur(c), "trapret"))
  /\ UNCHANGED <<cpu, lock, panicked, tx, cons, uart, clock, sent, line, left>>

Minus(a, b) == (a + UINT - b) % UINT
InputAt(i) == cons.buf[i % INPUT_BUF_SIZE]
Erase(s) == SubSeq(s, 1, Len(s) - 1)

(* consoleintr: erase and kill take characters back while there are any on *)
(* the line; anything else is echoed if it fits.                           *)
consoleintr(c) ==
  LET k == Cur(c).c
      last == Minus(cons.e, 1)
  IN  /\ At(c, "consoleintr")
      /\ IF k \in {"bs", "kill"} /\ cons.e # cons.w /\ (k = "kill" => InputAt(last) # "nl")
         THEN /\ cons' = [cons EXCEPT !.e = last]
              /\ line' = [line EXCEPT !.ed = Erase(@)]
              /\ Set(c, Goto(Cur(c), "echo"))
         ELSE /\ Set(c, Goto(Cur(c), IF k \notin {"bs", "kill"} /\ Minus(cons.e, cons.r) < INPUT_BUF_SIZE
                                     THEN "echo" ELSE "cons_rel"))
              /\ UNCHANGED <<cons, line>>
      /\ UNCHANGED <<cpu, lock, panicked, tx, uart, plic, clock, sent, left>>

(* consputc through uartputc_sync: wait for an empty THR, then write it,   *)
(* without uart_tx_lock.                                                   *)
uartputc_sync(c) ==
  /\ At(c, "echo") /\ uart.fifo = 0
  /\ cpu' = [cpu EXCEPT ![c] = push_off(@)]
  /\ Set(c, Goto(Cur(c), "echo_thr"))
  /\ UNCHANGED <<lock, panicked>> /\ UNCHANGED kernel

uartputc_sync_thr(c) ==
  LET k == Cur(c).c
  IN  /\ At(c, "echo_thr")
      /\ uart' = [uart EXCEPT !.fifo = @ + 1]
      /\ cpu' = [cpu EXCEPT ![c] = pop_off(@)]
      /\ panicked' = CannotPop(cpu[c])
      /\ Set(c, Goto(Cur(c), CASE k = "kill" -> "consoleintr" [] k = "bs" -> "cons_rel" [] OTHER -> "store"))
      /\ UNCHANGED <<lock, tx, cons, plic, clock, sent, line, left>>

(* Mutant: a line that fills the buffer is not handed over. *)
Complete_line(k, e) == k \in {"nl", "eof"}
Complete(k, e) == k \in {"nl", "eof"} \/ Minus(e, cons.r) = INPUT_BUF_SIZE

(* The character is stored; consoleread gets the line once it is complete. *)
consoleintr_store(c) ==
  LET k == Cur(c).c
      e == (cons.e + 1) % UINT
      done == Complete(k, e)
  IN  /\ At(c, "store")
      /\ cons' = [cons EXCEPT !.buf[cons.e % INPUT_BUF_SIZE] = k, !.e = e, !.w = IF done THEN e ELSE @]
      /\ line' = IF k \in {"nl", "eof"} \/ Len(line.q) + Len(line.ed) + 1 = INPUT_BUF_SIZE
                 THEN [q |-> line.q \o Append(line.ed, k), ed |-> <<>>]
                 ELSE [line EXCEPT !.ed = Append(@, k)]
      /\ ctx' = [IF done THEN Woken(ctx, "cons") ELSE ctx EXCEPT ![cpu[c].cur] = Goto(@, "cons_rel")]
      /\ UNCHANGED <<cpu, lock, panicked, tx, uart, plic, clock, sent, left>>

console_release(c) ==
  /\ At(c, "cons_rel")
  /\ IF Cur(c).trap = "none"
     THEN release(c, "cons", [Cur(c) EXCEPT !.n = 0, !.arg = 0], "sysret")
     ELSE release(c, "cons", [Cur(c) EXCEPT !.c = "none"], "getc")
  /\ UNCHANGED kernel

-----------------------------------------------------------------------------
(* consoleread of up to n characters. *)
consoleread(c, n) ==
  /\ Runs(c, "read")
  /\ acquire(c, "cons", [Cur(c) EXCEPT !.n = n, !.arg = n], "r_loop")
  /\ UNCHANGED kernel

consoleread_wait(c) ==
  /\ At(c, "r_loop") /\ Cur(c).n > 0 /\ cons.r = cons.w
  /\ Set(c, Goto(Cur(c), IF Cur(c).killed = 1 THEN "cons_rel" ELSE "r_sleep"))
  /\ UNCHANGED <<cpu, lock, panicked>> /\ UNCHANGED kernel

(* kill may come before this step: it needs no lock of the console. *)
consoleread_sleep(c) ==
  /\ At(c, "r_sleep")
  /\ sleep(c, "cons", "cons", Cur(c), "r_wake")
  /\ UNCHANGED kernel

consoleread_wake(c) ==
  /\ At(c, "r_wake")
  /\ acquire(c, "cons", Cur(c), "r_loop")
  /\ UNCHANGED kernel

(* A character, or an end of file, which stays for the next read if this   *)
(* one has read something; a copyout that fails loses the character.       *)
consoleread_char(c) ==
  LET x == Cur(c)
      k == InputAt(cons.r)
      keep == k = "eof" /\ x.n < x.arg
  IN  /\ At(c, "r_loop") /\ x.n > 0 /\ cons.r # cons.w
      /\ cons' = [cons EXCEPT !.r = IF keep THEN @ ELSE (@ + 1) % UINT]
      /\ line' = [line EXCEPT !.q = IF keep THEN @ ELSE Tail(@)]
      /\ \/ Set(c, [Goto(x, IF k \in {"eof", "nl"} THEN "cons_rel" ELSE "r_loop")
                    EXCEPT !.n = IF k = "eof" THEN @ ELSE @ - 1])
         \/ k # "eof" /\ Set(c, Goto(x, "cons_rel"))
      /\ UNCHANGED <<cpu, lock, panicked, tx, uart, plic, clock, sent, left>>

consoleread_done(c) ==
  /\ At(c, "r_loop") /\ Cur(c).n = 0
  /\ Set(c, Goto(Cur(c), "cons_rel"))
  /\ UNCHANGED <<cpu, lock, panicked>> /\ UNCHANGED kernel

-----------------------------------------------------------------------------
(* The timer interrupt: CPU 0 counts the tick, and a thread gives up its CPU. *)
timer(c) ==
  /\ left.ticks > 0
  /\ trap(c, IF c = CPU0 THEN "clockintr" ELSE "yield")
  /\ left' = [left EXCEPT !.ticks = @ - 1]
  /\ UNCHANGED <<tx, cons, uart, plic, clock, sent, line>>

clockintr(c) ==
  /\ At(c, "clockintr")
  /\ acquire(c, "ticks", Cur(c), "tick")
  /\ UNCHANGED kernel

clockintr_tick(c) ==
  /\ At(c, "tick")
  /\ clock' = [ticks |-> (clock.ticks + 1) % UINT, all |-> clock.all + 1]
  /\ ctx' = [Woken(ctx, "ticks") EXCEPT ![cpu[c].cur] = Goto(@, "ticks_rel")]
  /\ UNCHANGED <<cpu, lock, panicked, tx, cons, uart, plic, sent, line, left>>

ticks_release(c) ==
  /\ At(c, "ticks_rel")
  /\ IF Cur(c).trap = "none"
     THEN release(c, "ticks", [Cur(c) EXCEPT !.n = 0, !.arg = 0], "sysret")
     ELSE release(c, "ticks", Cur(c), "yield")
  /\ UNCHANGED kernel

timer_yield(c) ==
  /\ At(c, "yield")
  /\ IF FromUser(Cur(c)) /\ Cur(c).killed = 1 THEN exit(c)
     ELSE IF cpu[c].cur \in Threads
     THEN yield(c, IF FromUser(Cur(c)) THEN Leaving(Cur(c)) ELSE Goto(Cur(c), "trapret"))
     ELSE Set(c, Goto(Cur(c), "trapret")) /\ UNCHANGED <<cpu, lock, panicked>>
  /\ UNCHANGED kernel

(* sys_sleep of n ticks, n read as a uint. *)
sys_sleep(c, n) ==
  /\ Runs(c, "sleep")
  /\ acquire(c, "ticks", [Cur(c) EXCEPT !.arg = n], "s_start")
  /\ UNCHANGED kernel

sys_sleep_start(c) ==
  /\ At(c, "s_start")
  /\ Set(c, [Goto(Cur(c), "s_loop") EXCEPT !.n = clock.ticks])
  /\ UNCHANGED <<cpu, lock, panicked>> /\ UNCHANGED kernel

TooEarly(x) == Minus(clock.ticks, x.n) < x.arg

sys_sleep_loop(c) ==
  /\ At(c, "s_loop")
  /\ Set(c, Goto(Cur(c), IF TooEarly(Cur(c)) /\ Cur(c).killed = 0 THEN "s_sleep" ELSE "ticks_rel"))
  /\ UNCHANGED <<cpu, lock, panicked>> /\ UNCHANGED kernel

sys_sleep_sleep(c) ==
  /\ At(c, "s_sleep")
  /\ sleep(c, "ticks", "ticks", Cur(c), "s_wake")
  /\ UNCHANGED kernel

sys_sleep_wake(c) ==
  /\ At(c, "s_wake")
  /\ acquire(c, "ticks", Cur(c), "s_loop")
  /\ UNCHANGED kernel

-----------------------------------------------------------------------------
Running(c) ==
  \/ spin(c) /\ UNCHANGED kernel
  \/ \E t \in Threads : scheduler(c, t) /\ UNCHANGED kernel
  \/ scheduler_on(c) /\ UNCHANGED kernel
  \/ trapret(c) /\ UNCHANGED kernel
  \/ (usertrap_intr(c) \/ usertrap_killed(c) \/ usertrapret(c) \/ sret(c)) /\ UNCHANGED kernel
  \/ syscall(c) \/ fault(c)
  \/ uartputc(c) \/ uartputc_full(c) \/ uartputc_wake(c)
  \/ uartstart(c) \/ uartstart_thr(c) \/ uart_release(c)
  \/ plic_claim(c) \/ uartintr(c) \/ plic_complete(c)
  \/ consoleintr(c) \/ uartputc_sync(c) \/ uartputc_sync_thr(c) \/ consoleintr_store(c)
  \/ console_release(c)
  \/ \E n \in ReadSizes : consoleread(c, n)
  \/ consoleread_wait(c) \/ consoleread_sleep(c) \/ consoleread_wake(c) \/ consoleread_char(c) \/ consoleread_done(c)
  \/ clockintr(c) \/ clockintr_tick(c) \/ ticks_release(c) \/ timer_yield(c)
  \/ \E n \in SleepTicks : sys_sleep(c, n)
  \/ sys_sleep_start(c) \/ sys_sleep_loop(c) \/ sys_sleep_sleep(c) \/ sys_sleep_wake(c)

Next ==
  \/ transmit
  \/ receive
  \/ \E t \in Threads : killed(t)
  \/ \E c \in CPUs : Running(c) \/ external(c) \/ timer(c)

Spec == Init /\ [][Next]_vars

-----------------------------------------------------------------------------
(* Interrupts and locks do not meet.  No check of spinlock.c and sched     *)
(* fails: no CPU acquires a lock that it holds already, as it would if a   *)
(* handler ran while the interrupted code holds the lock that it needs;    *)
(* none gives up its CPU with a lock held or interrupts enabled.  No check *)
(* of trap.c fails: traps from user mode reach usertrap and all others     *)
(* kerneltrap, whichever thread the CPU changes to.  And a handler runs    *)
(* with interrupts off to its return, also after yield has moved it to a   *)
(* CPU that had them enabled: sched keeps intena with the thread           *)
(* (proc.c:504-506); else a nested trap would overwrite sepc.              *)
InterruptsSafe ==
  /\ ~panicked
  /\ \A c \in CPUs : Cur(c).trap # "none" => cpu[c].intr = 0

(* Characters that processes write reach the UART in order, none lost or   *)
(* repeated, although uartputc on one CPU and uartintr on another both     *)
(* advance the ring, and uartputc_sync writes to the UART without the lock *)
(* of either (uart.c's uart_tx_buf and the tests of LSR).                  *)
OutputInOrder == [][sent' \in {sent, sent + 1}]_sent

(* Output is never stuck: while characters wait in uart_tx_buf the UART is *)
(* sending and will interrupt, has interrupted, or some CPU is on its way  *)
(* to call uartstart (uart.c's early returns from uartstart).              *)
OutputMoves ==
  tx.r # tx.w =>
    \/ uart.fifo > 0 \/ plic.pending \/ lock["tx"] # "free"
    \/ \E k \in DOMAIN ctx :
         \/ ctx[k].want = "tx"
         \/ ctx[k].trap \in {"getc", "consoleintr", "echo", "echo_thr", "store", "cons_rel"}

(* The three indices of the console agree with lines kept as sequences,    *)
(* through erase, kill, a full buffer, end of file kept for the next read  *)
(* and indices that wrap: r..w is what consoleread may take, w..e is still *)
(* being edited (console.c's cons.buf).                                    *)
LinesExact ==
  LET ring(a, b) == [i \in 1..Minus(b, a) |-> InputAt((a + i - 1) % UINT)]
  IN  ring(cons.r, cons.w) = line.q /\ ring(cons.w, cons.e) = line.ed

(* Nobody sleeps on what has happened: with its lock free, a sleeping      *)
(* writer has a full buffer, a sleeping reader no line, a sleeping sleeper *)
(* ticks to wait (the wakeups of uartstart, consoleintr and clockintr).    *)
NoLostWakeup ==
  \A t \in Threads : ctx[t].state = "SLEEPING" =>
    CASE ctx[t].chan = "tx" -> lock["tx"] = "free" => Full
      [] ctx[t].chan = "cons" -> lock["cons"] = "free" => cons.r = cons.w
      [] ctx[t].chan = "ticks" -> lock["ticks"] = "free" => TooEarly(ctx[t])
=============================================================================
