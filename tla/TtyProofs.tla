----------------------------- MODULE TtyProofs -----------------------------
(***************************************************************************)
(* InterruptsSafe, NoLostWakeup, OutputMoves and OutputInOrder of Tty for  *)
(* any number of CPUs and of threads, any size of the transmit buffer and  *)
(* any scenario.                                                           *)
(***************************************************************************)
EXTENDS CpuProofs

(* A step that changes what readers and sleepers wait for, but no output. *)
LEMMA OutputKept ==
  ASSUME TtyInv, NEW c \in CPUs, NEW y, NEW q, Steps(c, y, q), SleepExact',
         tx' = tx, sent' = sent, uart' = uart, plic' = plic,
         Where(Cur(c)) \notin {"thr", "echo_thr"}, q \notin {"thr", "echo_thr"},
         OnItsWay(Cur(c)) => OnItsWay(y)
  PROVE  TtyInv'
<1>1. /\ CpuInv' /\ Cur(c)' = y /\ Where(Cur(c)') = q /\ Others(c) /\ TxRing /\ SentExact /\ Moving
  BY OthersStay, Zenon DEF Steps, GoesOn, TtyInv, IoInv
<1>2. SentExact'
  BY <1>1, SentKept, Zenon
<1>3. Moving'
  BY <1>1, MovingKept, Zenon
<1>4. TxRing'
  BY <1>1, Zenon DEF TxRing
<1> QED BY <1>1, <1>2, <1>3, <1>4, Zenon DEF TtyInv, IoInv

(* No other CPU is between the test and the sleep of consoleread. *)
LEMMA ReadersAlone ==
  ASSUME CpuInv, NEW c \in CPUs, NEW p, At(c, p), Holds(p) = "cons"
  PROVE  \A e \in CPUs : e # c => Where(Cur(e)) # "r_sleep"
<1>1. "cons" \in Locks /\ Holds("r_sleep") = "cons" /\ "r_sleep" \notin Entry
  BY TtyAssumption DEF Holds, Entry
<1> QED BY <1>1, Alone, Zenon

(* The same for the test and the sleep of sys_sleep. *)
LEMMA SleepersAlone ==
  ASSUME CpuInv, NEW c \in CPUs, NEW p, At(c, p), Holds(p) = "ticks"
  PROVE  \A e \in CPUs : e # c => Where(Cur(e)) # "s_sleep"
<1>1. "ticks" \in Locks /\ Holds("s_sleep") = "ticks" /\ "s_sleep" \notin Entry
  BY TtyAssumption DEF Holds, Entry
<1> QED BY <1>1, Alone, Zenon

(* A line that is complete wakes the readers. *)
LEMMA ActStore ==
  ASSUME TtyInv, IoTypes, NEW c \in CPUs, consoleintr_store(c)
  PROVE  TtyInv'
<1> DEFINE y == Goto(Cur(c), "cons_rel")
           done == Complete(Cur(c).c, (cons.e + 1) % UINT)
<1>0. /\ CpuInv /\ At(c, "store") /\ tx' = tx /\ sent' = sent /\ uart' = uart /\ clock' = clock /\ plic' = plic
      /\ UNCHANGED <<cpu, lock, panicked>> /\ SleepExact
  BY Zenon DEF TtyInv, IoInv, consoleintr_store
<1>1. /\ Path("store", "cons_rel") /\ "store" \notin Body /\ "store" \notin Outside /\ "cons_rel" \notin Outside
      /\ Holds("cons_rel") = Holds("store") /\ Nest("cons_rel") = Nest("store") /\ Holds("store") = "cons"
  BY DEF Path, Holds, Nest, Outside, Body, Handler
<1>2. Cur(c).trap # "none" /\ Where(Cur(c)) = "store"
  BY <1>0, <1>1, TrapAt, Zenon
<1>3. To(Cur(c), y, "cons_rel") /\ y.want = "none"
  BY <1>0, <1>1, GoesIs, Zenon
<1>4. OnItsWay(y)
  BY <1>2, <1>3, OnWayIs, Zenon
<1>5. Moves(c, y) /\ (NoneOn(c, "cons") \/ (cons'.r = cons.r /\ cons'.w = cons.w))
  <2>1. CASE done
    <3>1. ctx' = [Woken(ctx, "cons") EXCEPT ![cpu[c].cur] = Goto(@, "cons_rel")]
      BY <2>1, Zenon DEF consoleintr_store
    <3>2. Woken(ctx, "cons")[cpu[c].cur] = Cur(c)
      BY <1>0, WokenCur, Zenon
    <3>3. ctx' = [Woken(ctx, "cons") EXCEPT ![cpu[c].cur] = y]
      BY <3>1, <3>2
    <3> HIDE DEF y, done
    <3> QED BY <1>0, <3>3, WokenMoves, Zenon DEF NoneOn, Contexts
  <2>2. CASE ~done
    <3>1. ctx' = [ctx EXCEPT ![cpu[c].cur] = Goto(@, "cons_rel")]
      BY <2>2, Zenon DEF consoleintr_store
    <3>2. Set(c, y)
      BY <3>1 DEF Set, Cur
    <3>3. cons'.r = cons.r /\ cons'.w = cons.w
      BY <2>2 DEF consoleintr_store, IoTypes
    <3> HIDE DEF y, done
    <3> QED BY <1>0, <3>2, <3>3, SetMoves, Zenon
  <2> QED BY <2>1, <2>2, Zenon
<1> HIDE DEF y, done
<1>6. Steps(c, y, "cons_rel")
  BY <1>0, <1>1, <1>3, <1>5, Walk, Zenon
<1>7. /\ Calm(c) /\ Where(Cur(c)') = "cons_rel" /\ ctx'[cpu[c].cur].state # "SLEEPING" /\ Others(c)
  BY <1>6, OthersStay, Zenon DEF Steps, GoesOn
<1>8. SleepExact'
  <2>1. \A e \in CPUs : e # c => Where(Cur(e)) # "r_sleep"
    BY <1>0, <1>1, ReadersAlone, Zenon
  <2> QED BY <1>0, <1>5, <1>7, <2>1, SleepStays
<1> QED BY <1>0, <1>2, <1>4, <1>6, <1>8, OutputKept

(* A lock that threads and handlers take is released. *)
LEMMA StepLeaves ==
  ASSUME CpuInv, NEW c \in CPUs, NEW p \in {"cons_rel", "ticks_rel"}, At(c, p), NEW q, Legal(Cur(c), q),
         NEW x, Alike(c, x), release(c, Holds(p), x, q), Holds(q) = "none", q \notin Outside
  PROVE  Steps(c, Goto(x, q), q) /\ To(Cur(c), Goto(x, q), q)
<1>1. Where(x) = p /\ IsContext(x) /\ x.want = "none" /\ p # "scheduler" /\ Legal(x, q)
  BY DEF At, Alike, Where, Legal
<1>2. Holds(p) \in Locks /\ Nest(p) = 1
  BY TtyAssumption DEF Holds, Nest
<1>3. To(x, Goto(x, q), q) /\ Goto(x, q).want = "none"
  BY <1>1, GotoIs, Zenon
<1>4. To(Cur(c), Goto(x, q), q)
  BY <1>3, Zenon DEF To, Becomes, Alike
<1> QED BY <1>2, <1>3, <1>4, Releases, Zenon

(* The end of consoleread, or of consoleintr in a handler. *)
LEMMA ActConsRelease ==
  ASSUME TtyInv, NEW c \in CPUs, console_release(c)
  PROVE  TtyInv'
<1>0. /\ CpuInv /\ At(c, "cons_rel") /\ tx' = tx /\ sent' = sent /\ uart' = uart /\ cons' = cons
      /\ clock' = clock /\ plic' = plic /\ Where(Cur(c)) = "cons_rel"
  BY Zenon DEF TtyInv, console_release, kernel, At
<1>1. /\ Holds("cons_rel") = "cons" /\ Holds("sysret") = "none" /\ Holds("getc") = "none"
      /\ "sysret" \notin Outside /\ "getc" \notin Outside /\ "sysret" \notin Special
      /\ "sysret" \in Body /\ "getc" \in Handler
  BY DEF Holds, Outside, Body, Handler, Special
<1>2. CASE Cur(c).trap = "none"
  <2> DEFINE x == [Cur(c) EXCEPT !.n = 0, !.arg = 0]
  <2>1. release(c, "cons", x, "sysret") /\ Alike(c, x)
    BY <1>0, <1>2, AlikeIs, Zenon DEF console_release
  <2>2. Legal(Cur(c), "sysret")
    BY <1>1, <1>2 DEF Legal
  <2> HIDE DEF x
  <2>3. Steps(c, Goto(x, "sysret"), "sysret")
    BY <1>0, <1>1, <2>1, <2>2, StepLeaves
  <2>4. Quiet(c)
    BY <1>1, <2>3, QuietSteps, Zenon
  <2>5. Plain(Cur(c))
    BY <1>0, <1>2 DEF Plain, OnItsWay
  <2> QED BY <1>0, <2>4, <2>5, Idle, Zenon
<1>3. CASE Cur(c).trap # "none"
  <2> DEFINE x == [Cur(c) EXCEPT !.c = "none"]
  <2>1. release(c, "cons", x, "getc") /\ Alike(c, x)
    BY <1>0, <1>3, AlikeIs, Zenon DEF console_release
  <2>2. Legal(Cur(c), "getc")
    BY <1>1, <1>3, Zenon DEF Legal
  <2> HIDE DEF x
  <2>3. Steps(c, Goto(x, "getc"), "getc") /\ To(Cur(c), Goto(x, "getc"), "getc")
    BY <1>0, <1>1, <2>1, <2>2, StepLeaves
  <2>4. OnItsWay(Goto(x, "getc"))
    BY <1>3, <2>3, OnWayIs, Zenon
  <2> QED BY <1>0, <2>3, <2>4, KeptOnWay
<1> QED BY <1>2, <1>3, Zenon

(* The end of sys_sleep, or of clockintr in a handler. *)
LEMMA ActTicksRelease ==
  ASSUME TtyInv, NEW c \in CPUs, ticks_release(c)
  PROVE  TtyInv'
<1>0. /\ CpuInv /\ At(c, "ticks_rel") /\ tx' = tx /\ sent' = sent /\ uart' = uart /\ cons' = cons
      /\ clock' = clock /\ plic' = plic
  BY Zenon DEF TtyInv, ticks_release, kernel
<1>1. /\ Holds("ticks_rel") = "ticks" /\ Holds("sysret") = "none" /\ Holds("yield") = "none"
      /\ "sysret" \notin Outside /\ "yield" \notin Outside /\ "sysret" \notin Special /\ "yield" \notin Special
      /\ "sysret" \in Body /\ "yield" \in Handler /\ "ticks_rel" \notin Special
  BY DEF Holds, Outside, Body, Handler, Special
<1>2. CASE Cur(c).trap = "none"
  <2> DEFINE x == [Cur(c) EXCEPT !.n = 0, !.arg = 0]
  <2>1. release(c, "ticks", x, "sysret") /\ Alike(c, x)
    BY <1>0, <1>2, AlikeIs, Zenon DEF ticks_release
  <2>2. Legal(Cur(c), "sysret")
    BY <1>1, <1>2 DEF Legal
  <2> HIDE DEF x
  <2>3. Steps(c, Goto(x, "sysret"), "sysret")
    BY <1>0, <1>1, <2>1, <2>2, StepLeaves
  <2> QED BY <1>0, <1>1, <2>3, IdleSteps, Zenon
<1>3. CASE Cur(c).trap # "none"
  <2>1. release(c, "ticks", Cur(c), "yield") /\ Alike(c, Cur(c))
    BY <1>0, <1>3, AlikeIs, Zenon DEF ticks_release
  <2>2. Legal(Cur(c), "yield")
    BY <1>1, <1>3, Zenon DEF Legal
  <2>3. Steps(c, Goto(Cur(c), "yield"), "yield")
    BY <1>0, <1>1, <2>1, <2>2, StepLeaves
  <2> QED BY <1>0, <1>1, <2>3, IdleSteps, Zenon
<1> QED BY <1>2, <1>3, Zenon

(* consoleread, clockintr and sys_sleep ask for their locks. *)
LEMMA Asks ==
  ASSUME TtyInv, NEW c \in CPUs, NEW p, NEW q, NEW k, NEW x, At(c, p), Alike(c, x),
         acquire(c, k, x, q), UNCHANGED kernel,
         <<p, q, k>> \in {<<"syscall", "r_loop", "cons">>, <<"r_wake", "r_loop", "cons">>,
                          <<"clockintr", "tick", "ticks">>, <<"syscall", "s_start", "ticks">>,
                          <<"s_wake", "s_loop", "ticks">>}
  PROVE  TtyInv'
<1>0. CpuInv /\ UNCHANGED <<tx, cons, uart, clock, sent>> /\ plic' = plic
  BY Zenon DEF TtyInv, kernel
<1>1. /\ Path(p, q) /\ Holds(p) = "none" /\ p \notin Outside /\ q \in Entry /\ Holds(q) = k
      /\ p \notin Special /\ q \notin Special /\ k \in Locks
  BY TtyAssumption DEF Path, Holds, Outside, Entry, Body, Handler, Special
<1>2. Steps(c, [Goto(x, q) EXCEPT !.want = k], q)
  BY <1>0, <1>1, StepAcquire, Zenon
<1> QED BY <1>0, <1>1, <1>2, IdleSteps, Zenon

(* The steps that are such requests. *)
LEMMA ActAsk ==
  ASSUME TtyInv, NEW c \in CPUs,
         \/ \E n \in ReadSizes : consoleread(c, n)
         \/ consoleread_wake(c) \/ clockintr(c)
         \/ \E n \in SleepTicks : sys_sleep(c, n)
         \/ sys_sleep_wake(c)
  PROVE  TtyInv'
<1>0. CpuInv
  BY Zenon DEF TtyInv
<1>1. CASE \E n \in ReadSizes : consoleread(c, n)
  <2>1. PICK n \in ReadSizes : consoleread(c, n)
    BY <1>1
  <2> DEFINE x == [Cur(c) EXCEPT !.n = n, !.arg = n]
  <2>2. At(c, "syscall") /\ acquire(c, "cons", x, "r_loop") /\ UNCHANGED kernel
    BY <2>1, Zenon DEF consoleread, Runs
  <2>3. Alike(c, x)
    BY <1>0, <2>2, AlikeIs, Zenon
  <2> HIDE DEF x
  <2> QED BY <2>2, <2>3, Asks
<1>2. CASE consoleread_wake(c)
  <2>1. At(c, "r_wake") /\ acquire(c, "cons", Cur(c), "r_loop") /\ UNCHANGED kernel
    BY <1>2, Zenon DEF consoleread_wake
  <2>2. Alike(c, Cur(c))
    BY <1>0, <2>1, AlikeIs, Zenon
  <2> QED BY <2>1, <2>2, Asks
<1>3. CASE clockintr(c)
  <2>1. At(c, "clockintr") /\ acquire(c, "ticks", Cur(c), "tick") /\ UNCHANGED kernel
    BY <1>3, Zenon DEF clockintr
  <2>2. Alike(c, Cur(c))
    BY <1>0, <2>1, AlikeIs, Zenon
  <2> QED BY <2>1, <2>2, Asks
<1>4. CASE \E n \in SleepTicks : sys_sleep(c, n)
  <2>1. PICK n \in SleepTicks : sys_sleep(c, n)
    BY <1>4
  <2> DEFINE x == [Cur(c) EXCEPT !.arg = n]
  <2>2. At(c, "syscall") /\ acquire(c, "ticks", x, "s_start") /\ UNCHANGED kernel
    BY <2>1, Zenon DEF sys_sleep, Runs
  <2>3. Alike(c, x)
    BY <1>0, <2>2, AlikeIs, Zenon
  <2> HIDE DEF x
  <2> QED BY <2>2, <2>3, Asks
<1>5. CASE sys_sleep_wake(c)
  <2>1. At(c, "s_wake") /\ acquire(c, "ticks", Cur(c), "s_loop") /\ UNCHANGED kernel
    BY <1>5, Zenon DEF sys_sleep_wake
  <2>2. Alike(c, Cur(c))
    BY <1>0, <2>1, AlikeIs, Zenon
  <2> QED BY <2>1, <2>2, Asks
<1> QED BY <1>1, <1>2, <1>3, <1>4, <1>5, Zenon

(* A step of consoleread or sys_sleep within its lock. *)
LEMMA ThreadSteps ==
  ASSUME TtyInv, NEW c \in CPUs, NEW p \in {"r_loop", "s_start", "s_loop"}, At(c, p), NEW y, NEW q,
         Ready(Cur(c), y, q), Set(c, y), UNCHANGED <<cpu, lock, panicked>>,
         <<p, q>> \in {<<"r_loop", "r_loop">>, <<"r_loop", "r_sleep">>, <<"r_loop", "cons_rel">>,
                       <<"s_start", "s_loop">>, <<"s_loop", "s_sleep">>, <<"s_loop", "ticks_rel">>},
         tx' = tx, sent' = sent, uart' = uart, plic' = plic, clock' = clock,
         cons' = cons \/ (NoneOn(c, "cons") /\ p = "r_loop"),
         q = "r_sleep" => cons'.r = cons'.w, q = "s_sleep" => TooEarly(y)
  PROVE  TtyInv'
<1>0. CpuInv /\ SleepExact /\ Where(Cur(c)) = p /\ Moves(c, y) /\ IsContext(Cur(c))
  BY SetMoves, CurFacts, Zenon DEF TtyInv, IoInv, At
<1>1. /\ Holds(q) = Holds(p) /\ Nest(q) = Nest(p) /\ p \notin Outside /\ q \notin Outside
      /\ p \notin Handler /\ p \notin {"thr", "echo_thr", "start"} /\ q \notin {"thr", "echo_thr"}
      /\ p = "r_loop" => Holds(p) = "cons"
  BY DEF Holds, Nest, Outside, Handler
<1>2. Steps(c, y, q)
  BY <1>0, <1>1, Walk, Zenon DEF Ready
<1>3. ~OnItsWay(Cur(c))
  BY <1>0, <1>1, NoTrap DEF OnItsWay
<1>4. /\ Calm(c) /\ Cur(c)' = y /\ Where(Cur(c)') = q /\ ctx'[cpu[c].cur].state # "SLEEPING" /\ Others(c)
  BY <1>2, OthersStay, Zenon DEF Steps, GoesOn
<1>5. q = "s_sleep" => TooEarly(Cur(c))'
  BY <1>4, Zenon DEF TooEarly, Minus
<1>6. p = "r_loop" => \A e \in CPUs : e # c => Where(Cur(e)) # "r_sleep"
  BY <1>0, <1>1, ReadersAlone, Zenon
<1>7. SleepExact'
  BY <1>0, <1>4, <1>5, <1>6, SleepStays
<1> QED BY <1>0, <1>1, <1>2, <1>3, <1>7, OutputKept

(* consoleread finds no line, or is done. *)
LEMMA ActRead ==
  ASSUME TtyInv, NEW c \in CPUs, consoleread_wait(c) \/ consoleread_done(c)
  PROVE  TtyInv'
<1>0. /\ CpuInv /\ At(c, "r_loop") /\ tx' = tx /\ sent' = sent /\ uart' = uart /\ plic' = plic
      /\ clock' = clock /\ cons' = cons /\ UNCHANGED <<cpu, lock, panicked>>
  BY Zenon DEF TtyInv, consoleread_wait, consoleread_done, kernel
<1>1. PICK q \in {"r_sleep", "cons_rel"} : Set(c, Goto(Cur(c), q)) /\ (q = "r_sleep" => cons.r = cons.w)
  BY DEF consoleread_wait, consoleread_done
<1>2. Path("r_loop", q)
  BY DEF Path, Body, Handler
<1>3. Ready(Cur(c), Goto(Cur(c), q), q)
  BY <1>0, <1>2, GoesIs, Zenon DEF Ready
<1> QED BY <1>0, <1>1, <1>3, ThreadSteps

(* A character is taken only if there is one, when nobody sleeps. *)
LEMMA ActChar ==
  ASSUME TtyInv, NEW c \in CPUs, consoleread_char(c)
  PROVE  TtyInv'
<1> DEFINE x == Cur(c)
           k == InputAt(cons.r)
<1>0. /\ CpuInv /\ SleepExact /\ At(c, "r_loop") /\ tx' = tx /\ sent' = sent /\ uart' = uart /\ plic' = plic
      /\ clock' = clock /\ UNCHANGED <<cpu, lock, panicked>> /\ cons.r # cons.w
  BY Zenon DEF TtyInv, IoInv, consoleread_char
<1>1. ASSUME NEW y, Set(c, y), NEW q \in {"r_loop", "cons_rel"}, Ready(x, y, q)
      PROVE  TtyInv'
  <2>1. NoneOn(c, "cons")
    <3>1. \A t \in Threads : t # cpu[c].cur => ctx'[t] = ctx[t]
      BY <1>0, <1>1, SetMoves, Zenon DEF Contexts
    <3> QED BY <1>0, <3>1 DEF NoneOn, SleepExact
  <2> QED BY <1>0, <1>1, <2>1, ThreadSteps
<1>2. ASSUME NEW q \in {"r_loop", "cons_rel"}
      PROVE  Ready(x, Goto(x, q), q)
  <2>1. Path("r_loop", q)
    BY DEF Path, Body, Handler
  <2> QED BY <1>0, <2>1, GoesIs, Zenon DEF Ready
<1>3. CASE Set(c, [Goto(x, IF k \in {"eof", "nl"} THEN "cons_rel" ELSE "r_loop")
                   EXCEPT !.n = IF k = "eof" THEN @ ELSE @ - 1])
  <2> DEFINE q == IF k \in {"eof", "nl"} THEN "cons_rel" ELSE "r_loop"
             v == IF k = "eof" THEN Goto(x, q).n ELSE Goto(x, q).n - 1
  <2>1. q \in {"r_loop", "cons_rel"} /\ Set(c, [Goto(x, q) EXCEPT !.n = v])
    BY <1>3
  <2> HIDE DEF q, v, x
  <2>2. Ready(x, [Goto(x, q) EXCEPT !.n = v], q)
    BY <1>2, <2>1, NIs, Zenon
  <2> QED BY <1>1, <2>1, <2>2, Zenon
<1>4. CASE Set(c, Goto(x, "cons_rel"))
  BY <1>1, <1>2, <1>4
<1> QED BY <1>3, <1>4, Zenon DEF consoleread_char

(* sys_sleep notes the time, and looks whether it has to sleep. *)
LEMMA ActSleep ==
  ASSUME TtyInv, NEW c \in CPUs, sys_sleep_start(c) \/ sys_sleep_loop(c)
  PROVE  TtyInv'
<1>0. /\ CpuInv /\ tx' = tx /\ sent' = sent /\ uart' = uart /\ plic' = plic
      /\ clock' = clock /\ cons' = cons /\ UNCHANGED <<cpu, lock, panicked>>
  BY Zenon DEF TtyInv, sys_sleep_start, sys_sleep_loop, kernel
<1>1. CASE sys_sleep_start(c)
  <2> DEFINE z == Goto(Cur(c), "s_loop")
             y == [z EXCEPT !.n = clock.ticks]
  <2>1. At(c, "s_start") /\ Set(c, y)
    BY <1>1, Zenon DEF sys_sleep_start
  <2>2. Path("s_start", "s_loop")
    BY DEF Path, Body, Handler
  <2>3. Ready(Cur(c), z, "s_loop")
    BY <1>0, <2>1, <2>2, GoesIs, Zenon DEF Ready
  <2> HIDE DEF z
  <2>4. Ready(Cur(c), y, "s_loop")
    BY <2>3, NIs, Zenon
  <2> HIDE DEF y
  <2> QED BY <1>0, <2>1, <2>4, ThreadSteps
<1>2. CASE sys_sleep_loop(c)
  <2>1. At(c, "s_loop")
    BY <1>2 DEF sys_sleep_loop
  <2>2. PICK q \in {"s_sleep", "ticks_rel"} : Set(c, Goto(Cur(c), q)) /\ (q = "s_sleep" => TooEarly(Cur(c)))
    BY <1>2 DEF sys_sleep_loop
  <2>3. Path("s_loop", q)
    BY DEF Path, Body, Handler
  <2>4. /\ Ready(Cur(c), Goto(Cur(c), q), q)
        /\ Goto(Cur(c), q).n = Cur(c).n /\ Goto(Cur(c), q).arg = Cur(c).arg
    BY <1>0, <2>1, <2>3, GoesIs, Zenon DEF Ready
  <2>5. q = "s_sleep" => TooEarly(Goto(Cur(c), q))
    BY <2>2, <2>4, Zenon DEF TooEarly
  <2> QED BY <1>0, <2>1, <2>2, <2>4, <2>5, ThreadSteps
<1> QED BY <1>1, <1>2

(* The sleep of consoleread and of sys_sleep. *)
LEMMA ActSleeps ==
  ASSUME TtyInv, NEW c \in CPUs, consoleread_sleep(c) \/ sys_sleep_sleep(c)
  PROVE  TtyInv'
<1>0. CpuInv /\ SleepExact /\ UNCHANGED <<tx, cons, uart, plic, clock, sent>>
  BY Zenon DEF TtyInv, IoInv, consoleread_sleep, sys_sleep_sleep, kernel
<1>1. CASE consoleread_sleep(c)
  <2>1. At(c, "r_sleep") /\ sleep(c, "cons", "cons", Cur(c), "r_wake")
    BY <1>1, Zenon DEF consoleread_sleep
  <2>2. /\ "r_sleep" \notin Handler /\ Holds("r_sleep") = "cons" /\ Nest("r_sleep") = 1 /\ "r_sleep" \in Body
        /\ "r_wake" \in Body /\ Holds("r_wake") = "none" /\ "r_wake" \notin Outside /\ "cons" \in Locks
    BY TtyAssumption DEF Handler, Body, Holds, Nest, Outside
  <2>3. Asleep(c, "cons")
    BY <1>0, <2>1, <2>2, Sleeps
  <2>4. cons.r = cons.w
    BY <1>0, <2>1, Zenon DEF SleepExact, At
  <2> QED BY <1>0, <2>1, <2>2, <2>3, <2>4, Slept
<1>2. CASE sys_sleep_sleep(c)
  <2>1. At(c, "s_sleep") /\ sleep(c, "ticks", "ticks", Cur(c), "s_wake")
    BY <1>2, Zenon DEF sys_sleep_sleep
  <2>2. /\ "s_sleep" \notin Handler /\ Holds("s_sleep") = "ticks" /\ Nest("s_sleep") = 1 /\ "s_sleep" \in Body
        /\ "s_wake" \in Body /\ Holds("s_wake") = "none" /\ "s_wake" \notin Outside /\ "ticks" \in Locks
    BY TtyAssumption DEF Handler, Body, Holds, Nest, Outside
  <2>3. Asleep(c, "ticks")
    BY <1>0, <2>1, <2>2, Sleeps
  <2>4. TooEarly(Cur(c))
    BY <1>0, <2>1, Zenon DEF SleepExact, At
  <2> QED BY <1>0, <2>1, <2>2, <2>3, <2>4, Slept
<1> QED BY <1>1, <1>2

(* A tick wakes everybody who sleeps for one. *)
LEMMA ActTick ==
  ASSUME TtyInv, NEW c \in CPUs, clockintr_tick(c)
  PROVE  TtyInv'
<1> DEFINE y == Goto(Cur(c), "ticks_rel")
<1>0. /\ CpuInv /\ At(c, "tick") /\ tx' = tx /\ sent' = sent /\ uart' = uart /\ cons' = cons /\ plic' = plic
      /\ UNCHANGED <<cpu, lock, panicked>> /\ SleepExact
      /\ ctx' = [Woken(ctx, "ticks") EXCEPT ![cpu[c].cur] = Goto(@, "ticks_rel")]
  BY Zenon DEF TtyInv, IoInv, clockintr_tick
<1>1. /\ Path("tick", "ticks_rel") /\ "tick" \notin Body /\ "tick" \notin Outside /\ "ticks_rel" \notin Outside
      /\ Holds("ticks_rel") = "ticks" /\ Holds("tick") = "ticks" /\ Nest("ticks_rel") = 1 /\ Nest("tick") = 1
      /\ "tick" \notin Special
  BY DEF Path, Holds, Nest, Outside, Body, Handler, Special
<1>2. Where(Cur(c)) = "tick" /\ ~OnItsWay(Cur(c))
  BY <1>0, <1>1, PlainIs, Zenon DEF At, Plain
<1>3. To(Cur(c), y, "ticks_rel") /\ y.want = "none"
  BY <1>0, <1>1, GoesIs, Zenon
<1>4. ctx' = [Woken(ctx, "ticks") EXCEPT ![cpu[c].cur] = y]
  <2>1. Woken(ctx, "ticks")[cpu[c].cur] = Cur(c)
    BY <1>0, WokenCur, Zenon
  <2> QED BY <1>0, <2>1
<1> HIDE DEF y
<1>5. Moves(c, y) /\ NoneOn(c, "ticks")
  <2>1. CpuInv
    BY Zenon DEF TtyInv
  <2> QED BY <2>1, <1>4, WokenMoves, Zenon DEF NoneOn, Contexts
<1>6. Steps(c, y, "ticks_rel")
  BY <1>0, <1>1, <1>3, <1>5, Walk
<1>7. /\ Calm(c) /\ Where(Cur(c)') = "ticks_rel" /\ ctx'[cpu[c].cur].state # "SLEEPING" /\ Others(c)
  BY <1>6, OthersStay, Zenon DEF Steps, GoesOn
<1>8. SleepExact'
  <2>1. \A e \in CPUs : e # c => Where(Cur(e)) # "s_sleep"
    BY <1>0, <1>1, SleepersAlone, Zenon
  <2> QED BY <1>0, <1>5, <1>7, <2>1, SleepStays
<1> QED BY <1>0, <1>2, <1>6, <1>8, OutputKept

(* A timer interrupt gives up the CPU and changes nothing of the console. *)
LEMMA ActYield ==
  ASSUME TtyInv, NEW c \in CPUs, timer_yield(c)
  PROVE  TtyInv'
<1>1. CpuInv /\ At(c, "yield") /\ tx' = tx /\ sent' = sent /\ uart' = uart /\ cons' = cons /\ clock' = clock /\ plic' = plic
  BY Zenon DEF TtyInv, timer_yield, kernel
<1>2. Quiet(c) /\ "yield" \notin Special
  BY <1>1, StepTimerYield DEF Special
<1> QED BY <1>1, <1>2, IdleAt, Zenon

(* The records of the devices and of the rings keep their fields. *)
LEMMA TypesStay ==
  ASSUME IoTypes, Next
  PROVE  IoTypes'
<1>1. CASE transmit \/ receive
  BY <1>1 DEF transmit, receive, IoTypes
<1>2. ASSUME NEW t \in Threads, killed(t)
      PROVE  IoTypes'
  BY <1>2, Zenon DEF killed, IoTypes
<1>3. ASSUME NEW c \in CPUs, external(c) \/ timer(c)
      PROVE  IoTypes'
  BY <1>3, Zenon DEF external, timer, kernel, IoTypes
<1>4. ASSUME NEW c \in CPUs, Running(c)
      PROVE  IoTypes'
  <2>1. CASE UNCHANGED <<tx, cons, uart, plic>>
    BY <2>1, Zenon DEF IoTypes
  <2>2. CASE uartputc_full(c) \/ uartstart(c) \/ uartstart_thr(c)
    BY <2>2, Zenon DEF uartputc_full, uartstart, uartstart_thr, IoTypes
  <2>3. CASE plic_claim(c) \/ uartintr(c) \/ plic_complete(c)
    BY <2>3 DEF plic_claim, uartintr, plic_complete, IoTypes
  <2>4. CASE consoleintr(c) \/ uartputc_sync_thr(c) \/ consoleintr_store(c) \/ consoleread_char(c)
    BY <2>4, Zenon DEF consoleintr, uartputc_sync_thr, consoleintr_store, consoleread_char, IoTypes
  <2>5. CASE ~(\/ uartputc_full(c) \/ uartstart(c) \/ uartstart_thr(c)
               \/ plic_claim(c) \/ uartintr(c) \/ plic_complete(c)
               \/ consoleintr(c) \/ uartputc_sync_thr(c) \/ consoleintr_store(c) \/ consoleread_char(c))
    <3>1. UNCHANGED kernel \/ UNCHANGED <<tx, cons, uart, plic, clock, sent, line>> \/ UNCHANGED <<tx, cons, uart, plic>>
      BY <1>4, <2>5, Zenon DEF Running, syscall, fault, uartputc, uartputc_wake, uart_release, uartputc_sync,
            console_release, consoleread, consoleread_wait, consoleread_sleep, consoleread_wake, consoleread_done,
            clockintr, clockintr_tick, ticks_release, timer_yield, sys_sleep, sys_sleep_start, sys_sleep_loop,
            sys_sleep_sleep, sys_sleep_wake
    <3> QED BY <3>1, <2>1, Zenon DEF kernel
  <2> QED BY <2>2, <2>3, <2>4, <2>5, Zenon
<1> QED BY <1>1, <1>2, <1>3, <1>4, Zenon DEF Next

-----------------------------------------------------------------------------
(* The steps that count who writes to the UART. *)

(* A CPU that is about to write to THR. *)
LEMMA WritersJoin ==
  ASSUME Counting
  PROVE  Cardinality(Writers)' \in Nat /\ Cardinality(Writers)' <= Cardinality(CPUs)
<1>1. Writers' \in SUBSET CPUs
  BY Zenon DEF Writers
<1> QED BY <1>1, Zenon DEF Counting

(* A CPU that has written to THR. *)
LEMMA WritersLeave ==
  ASSUME Counting, NEW c \in CPUs, Others(c), Where(Cur(c)) \in {"thr", "echo_thr"},
         Where(Cur(c)') \notin {"thr", "echo_thr"}
  PROVE  /\ Cardinality(Writers)' \in Nat /\ Cardinality(Writers) = Cardinality(Writers)' + 1
         /\ Cardinality(CPUs) \in Nat
<1>1. Writers \in SUBSET CPUs /\ Writers' \in SUBSET CPUs /\ CPUs \in SUBSET CPUs
  BY Zenon DEF Writers
<1>2. Writers' = Writers \ {c} /\ c \in Writers
  BY Zenon DEF Writers, Others
<1>3. /\ Cardinality(Writers) \in Nat /\ Cardinality(CPUs) \in Nat /\ Cardinality(Writers)' \in Nat
      /\ Cardinality(Writers)' = Cardinality(Writers) - 1
  BY <1>1, <1>2, Zenon DEF Counting
<1> QED BY <1>3

(* uartstart and uartputc_sync hand a character over one after the other. *)
LEMMA ActStart ==
  ASSUME Counting, TtyInv, IoTypes, NEW c \in CPUs, uartstart(c)
  PROVE  TtyInv'
<1>0. /\ CpuInv /\ sent' = sent /\ uart' = uart /\ cons' = cons /\ clock' = clock /\ plic' = plic
      /\ At(c, "start") /\ Where(Cur(c)) = "start" /\ "tx" \in Locks /\ UNCHANGED <<cpu, lock, panicked>>
      /\ TxRing /\ SentExact /\ SleepExact
  BY TtyAssumption DEF TtyInv, IoInv, uartstart, At
<1>1. /\ Path("start", "tx_rel") /\ Path("start", "thr")
      /\ Holds("start") = "tx" /\ Holds("tx_rel") = "tx" /\ Holds("thr") = "tx"
      /\ Nest("start") = 1 /\ Nest("tx_rel") = 1 /\ Nest("thr") = 1
      /\ "start" \notin Outside /\ "tx_rel" \notin Outside /\ "thr" \notin Outside
  BY DEF Handler, Body, Holds, Nest, Outside, Path
<1>2. CASE tx.w = tx.r \/ uart.fifo > 0
  <2> DEFINE y == Goto(Cur(c), "tx_rel")
  <2>1. Set(c, y) /\ tx' = tx
    BY <1>2, Zenon DEF uartstart
  <2>2. Steps(c, y, "tx_rel")
    BY <1>0, <1>1, <2>1, StepGo, Zenon
  <2>3. /\ CpuInv' /\ Calm(c) /\ Where(Cur(c)') = "tx_rel" /\ ctx'[cpu[c].cur].state # "SLEEPING"
        /\ Others(c)
    BY <2>2, OthersStay, Zenon DEF Steps, GoesOn
  <2>4. TxRing' /\ Moving'
    BY <1>0, <1>2, <2>1, Zenon DEF TxRing, Moving
  <2>5. SentExact'
    BY <1>0, <2>1, <2>3, SentKept
  <2>6. SleepExact'
    BY <1>0, <2>1, <2>3, SleepStays
  <2> QED BY <2>3, <2>4, <2>5, <2>6, Zenon DEF TtyInv, IoInv
<1>3. CASE ~(tx.w = tx.r \/ uart.fifo > 0)
  <2> DEFINE v == tx.buf[tx.r % UART_TX_BUF_SIZE]
             z == Goto(Cur(c), "thr")
             y == [z EXCEPT !.ch = v]
  <2>1. tx' = [tx EXCEPT !.r = @ + 1] /\ ctx' = [Woken(ctx, "tx") EXCEPT ![cpu[c].cur] = y]
    <3>1. /\ tx' = [tx EXCEPT !.r = @ + 1]
          /\ ctx' = [Woken(ctx, "tx") EXCEPT ![cpu[c].cur] = [Goto(@, "thr") EXCEPT !.ch = v]]
      BY <1>3, Zenon DEF uartstart
    <3>2. Woken(ctx, "tx")[cpu[c].cur] = Cur(c)
      BY <1>0, WokenCur, Zenon
    <3> QED BY <3>1, <3>2
  <2>2. /\ tx.r \in Nat /\ tx.w \in Nat /\ tx.r < tx.w /\ tx.w <= tx.r + UART_TX_BUF_SIZE
        /\ UART_TX_BUF_SIZE \in Nat /\ uart.fifo = 0
    <3>1. /\ tx.r \in Nat /\ tx.w \in Nat /\ tx.r <= tx.w /\ tx.w <= tx.r + UART_TX_BUF_SIZE
          /\ uart.fifo \in Nat /\ UART_TX_BUF_SIZE \in Nat \ {0}
      BY <1>0, TtyAssumption, Zenon DEF TxRing, SentExact
    <3> QED BY <1>3, <3>1
  <2>3. v = tx.r + 1
    <3>1. tx.r \in Nat /\ tx.r <= tx.r /\ tx.r < tx.w
      BY <2>2
    <3> QED BY <1>0, <3>1, Zenon DEF TxRing
  <2>4. tx'.r = tx.r + 1 /\ tx'.w = tx.w /\ tx'.buf = tx.buf
    BY <2>1 DEF IoTypes
  <2>5. To(Cur(c), z, "thr") /\ z.want = "none"
    BY <1>0, <1>1, GoesIs, Zenon
  <2> HIDE DEF v, z
  <2>6. To(Cur(c), y, "thr") /\ y.want = "none" /\ y.ch = v
    <3>1. IsContext(z) /\ Ready(Cur(c), z, "thr")
      BY <2>5, Zenon DEF To, Becomes, Ready
    <3>2. Ready(Cur(c), y, "thr")
      BY <3>1, ChIs, Zenon
    <3>3. y.ch = v
      BY <3>1 DEF IsContext, Fields
    <3> QED BY <3>2, <3>3, Zenon DEF Ready
  <2> HIDE DEF y
  <2>7. Moves(c, y) /\ \A k \in Contexts : k # cpu[c].cur => ~(ctx'[k].state = "SLEEPING" /\ ctx'[k].chan = "tx")
    BY <1>0, <2>1, WokenMoves, Zenon
  <2>8. Steps(c, y, "thr")
    BY <1>0, <1>1, <2>6, <2>7, Walk
  <2>9. /\ CpuInv' /\ Calm(c) /\ Cur(c)' = y /\ Where(Cur(c)') = "thr" /\ ctx'[cpu[c].cur].state # "SLEEPING"
        /\ Others(c)
    BY <2>8, OthersStay, Zenon DEF Steps, GoesOn
  <2>10. TxRing'
    <3>1. \A i \in Nat : tx.r + 1 <= i /\ i < tx.w => tx.buf[i % UART_TX_BUF_SIZE] = i + 1
      <4>1. \A i \in Nat : tx.r + 1 <= i => tx.r <= i
        BY <2>2
      <4> QED BY <1>0, <4>1, Zenon DEF TxRing
    <3>2. DOMAIN tx.buf = 0..UART_TX_BUF_SIZE - 1
      BY <1>0, Zenon DEF TxRing
    <3>3. tx.r + 1 \in Nat /\ tx.r + 1 <= tx.w /\ tx.w <= (tx.r + 1) + UART_TX_BUF_SIZE
      BY <2>2
    <3> QED BY <2>2, <2>4, <3>1, <3>2, <3>3, Zenon DEF TxRing
  <2>11. SleepExact'
    <3>1. NoneOn(c, "tx")
      BY <2>7, Zenon DEF NoneOn, Contexts
    <3> QED BY <1>0, <2>9, <3>1, SleepStays
  <2>12. Moving'
    BY <2>9, Zenon DEF Moving, OnItsWay
  <2>13. SentExact'
    <3>1. \A e \in CPUs : Where(Cur(e)) # "thr"
      <4>1. ASSUME NEW e \in CPUs, Where(Cur(e)) = "thr" PROVE FALSE
        <5>1. e # c
          BY <4>1, <1>0
        <5>2. "thr" \in Entry
          BY <4>1, <5>1, <1>0, <1>1, Alone, Zenon
        <5> QED BY <5>2 DEF Entry
      <4> QED BY <4>1
    <3>2. sent = tx.r /\ sent \in Nat
      BY <1>0, <3>1, Zenon DEF SentExact
    <3>3. \A e \in CPUs : Where(Cur(e)') = "thr" => e = c
      BY <2>9, <3>1, Zenon DEF Others
    <3>4. Cardinality(Writers)' \in Nat /\ Cardinality(Writers)' <= Cardinality(CPUs)
      BY WritersJoin, Zenon
    <3>5. uart'.fifo \in Nat /\ uart'.fifo + Cardinality(Writers)' <= Cardinality(CPUs)
      BY <1>0, <2>2, <3>4
    <3>6. \A e \in CPUs : Where(Cur(e)') = "thr" => sent' + 1 = tx'.r /\ Cur(e)'.ch = tx'.r
      BY <1>0, <2>3, <2>4, <2>6, <2>9, <3>2, <3>3
    <3> QED BY <1>0, <2>9, <3>2, <3>5, <3>6, Zenon DEF SentExact
  <2> QED BY <2>9, <2>10, <2>11, <2>12, <2>13, Zenon DEF TtyInv, IoInv
<1> QED BY <1>2, <1>3

(* The character goes to the UART, whose FIFO has room for one of each CPU. *)
LEMMA ActThr ==
  ASSUME Counting, TtyInv, IoTypes, NEW c \in CPUs, uartstart_thr(c)
  PROVE  TtyInv' /\ sent' = sent + 1
<1> DEFINE z == Goto(Cur(c), "start")
           y == [z EXCEPT !.ch = 0]
<1>0. /\ CpuInv /\ tx' = tx /\ cons' = cons /\ clock' = clock /\ plic' = plic
      /\ At(c, "thr") /\ Where(Cur(c)) = "thr" /\ "tx" \in Locks /\ UNCHANGED <<cpu, lock, panicked>>
      /\ TxRing /\ SentExact /\ SleepExact /\ Set(c, y)
      /\ sent' = IF uart.fifo < FIFO THEN Cur(c).ch ELSE sent
  BY TtyAssumption DEF TtyInv, IoInv, uartstart_thr, At
<1>1. /\ Path("thr", "start") /\ Holds("start") = "tx" /\ Holds("thr") = "tx"
      /\ Nest("start") = 1 /\ Nest("thr") = 1
      /\ "start" \notin Outside /\ "thr" \notin Outside /\ "thr" \notin Entry
  BY DEF Handler, Body, Holds, Nest, Outside, Path, Entry
<1>2. uart'.fifo = uart.fifo + 1
  BY DEF uartstart_thr, IoTypes
<1>3. Ready(Cur(c), z, "start")
  BY <1>0, <1>1, GoesIs, Zenon DEF Ready
<1> HIDE DEF z
<1>4. Ready(Cur(c), y, "start")
  BY <1>3, ChIs, Zenon
<1> HIDE DEF y
<1>5. Moves(c, y)
  BY <1>0, SetMoves, Zenon
<1>6. Steps(c, y, "start")
  BY <1>0, <1>1, <1>4, <1>5, Walk, Zenon DEF Ready
<1>7. /\ CpuInv' /\ Calm(c) /\ Where(Cur(c)') = "start" /\ ctx'[cpu[c].cur].state # "SLEEPING"
      /\ Others(c)
  BY <1>6, OthersStay, Zenon DEF Steps, GoesOn
<1>8. /\ Cardinality(Writers)' \in Nat /\ Cardinality(Writers) = Cardinality(Writers)' + 1
      /\ Cardinality(CPUs) \in Nat
  BY <1>0, <1>7, WritersLeave
<1>9. /\ sent \in Nat /\ uart.fifo \in Nat /\ sent + 1 = tx.r /\ Cur(c).ch = tx.r
      /\ uart.fifo + Cardinality(Writers) <= Cardinality(CPUs)
  BY <1>0, Zenon DEF SentExact
<1>10. uart.fifo < FIFO
  BY <1>8, <1>9, TtyAssumption
<1>11. sent' = tx.r /\ sent' = sent + 1
  BY <1>0, <1>9, <1>10
<1>12. \A e \in CPUs : Where(Cur(e)') # "thr"
  <2>1. ASSUME NEW e \in CPUs, e # c, Where(Cur(e)) = "thr" PROVE FALSE
    BY <2>1, <1>0, <1>1, Alone, Zenon
  <2> QED BY <2>1, <1>7 DEF Others
<1>13. SentExact'
  <2>1. sent' \in Nat /\ uart'.fifo \in Nat /\ uart'.fifo + Cardinality(Writers)' <= Cardinality(CPUs)
    BY <1>2, <1>8, <1>9, <1>11
  <2> QED BY <2>1, <1>0, <1>11, <1>12, Zenon DEF SentExact
<1>14. TxRing' /\ SleepExact'
  <2>1. SleepExact'
    BY <1>0, <1>7, SleepStays
  <2> QED BY <2>1, <1>0, Zenon DEF TxRing
<1>15. Moving'
  <2>1. OnItsWay(Cur(c)')
    BY <1>7, Zenon DEF OnItsWay
  <2> QED BY <2>1, Zenon DEF Moving
<1> QED BY <1>7, <1>11, <1>13, <1>14, <1>15, Zenon DEF TtyInv, IoInv

(* uartputc_sync finds THR empty, whoever else has found it empty too. *)
LEMMA ActSync ==
  ASSUME Counting, TtyInv, NEW c \in CPUs, uartputc_sync(c)
  PROVE  TtyInv'
<1> DEFINE y == Goto(Cur(c), "echo_thr")
<1>0. /\ CpuInv /\ At(c, "echo") /\ tx' = tx /\ sent' = sent /\ uart' = uart /\ cons' = cons /\ clock' = clock
      /\ TxRing /\ SentExact /\ SleepExact /\ Where(Cur(c)) = "echo" /\ uart.fifo = 0
      /\ cpu' = [cpu EXCEPT ![c] = push_off(@)] /\ Set(c, y) /\ UNCHANGED <<lock, panicked>>
  BY Zenon DEF TtyInv, IoInv, uartputc_sync, kernel, At
<1>1. "echo" \notin Body /\ Path("echo", "echo_thr")
  BY DEF Body, Path, Handler
<1>2. Steps(c, y, "echo_thr")
  BY <1>0, StepPush, Zenon
<1>3. OnItsWay(y)
  <2>1. Cur(c).trap # "none"
    BY <1>0, <1>1, TrapAt, Zenon
  <2>2. To(Cur(c), y, "echo_thr")
    BY <1>0, <1>1, GoesIs, Zenon
  <2> QED BY <2>1, <2>2, OnWayIs, Zenon
<1> HIDE DEF y
<1>4. /\ CpuInv' /\ Calm(c) /\ Cur(c)' = y /\ Where(Cur(c)') = "echo_thr" /\ ctx'[cpu[c].cur].state # "SLEEPING"
      /\ Others(c)
  BY <1>2, OthersStay, Zenon DEF Steps, GoesOn
<1>5. Cardinality(Writers)' \in Nat /\ Cardinality(Writers)' <= Cardinality(CPUs)
  BY WritersJoin, Zenon
<1>6. uart'.fifo + Cardinality(Writers)' <= Cardinality(CPUs) /\ uart'.fifo \in Nat
  BY <1>0, <1>5
<1>7. SentExact'
  <2>1. \A e \in CPUs : /\ Where(Cur(e)') = "thr" <=> Where(Cur(e)) = "thr"
                        /\ Where(Cur(e)') = "thr" => Cur(e)'.ch = Cur(e).ch
    BY <1>0, <1>4 DEF Others
  <2> QED BY <1>0, <1>6, <2>1, Zenon DEF SentExact
<1>8. SleepExact'
  BY <1>0, <1>4, SleepKept
<1>9. TxRing' /\ Moving'
  BY <1>0, <1>3, <1>4, Zenon DEF TxRing, Moving
<1> QED BY <1>4, <1>7, <1>8, <1>9, Zenon DEF TtyInv, IoInv

(* uartputc_sync writes its character. *)
LEMMA ActSyncThr ==
  ASSUME Counting, TtyInv, IoTypes, NEW c \in CPUs, uartputc_sync_thr(c)
  PROVE  TtyInv'
<1>0. /\ CpuInv /\ At(c, "echo_thr") /\ tx' = tx /\ sent' = sent /\ cons' = cons /\ clock' = clock
      /\ TxRing /\ SentExact /\ SleepExact /\ Where(Cur(c)) = "echo_thr"
      /\ cpu' = [cpu EXCEPT ![c] = pop_off(@)] /\ panicked' = CannotPop(cpu[c]) /\ lock' = lock
  BY Zenon DEF TtyInv, IoInv, uartputc_sync_thr, At
<1>1. PICK q \in {"consoleintr", "cons_rel", "store"} : Set(c, Goto(Cur(c), q))
  BY DEF uartputc_sync_thr
<1>2. uart'.fifo = uart.fifo + 1
  BY DEF uartputc_sync_thr, IoTypes
<1> DEFINE y == Goto(Cur(c), q)
<1>3. Steps(c, y, q) /\ OnItsWay(y)
  BY <1>0, <1>1, StepPop, Zenon
<1> HIDE DEF y
<1>4. /\ CpuInv' /\ Calm(c) /\ Cur(c)' = y /\ Where(Cur(c)') = q /\ ctx'[cpu[c].cur].state # "SLEEPING"
      /\ Others(c)
  BY <1>3, OthersStay, Zenon DEF Steps, GoesOn
<1>5. /\ Cardinality(Writers)' \in Nat /\ Cardinality(Writers) = Cardinality(Writers)' + 1
      /\ Cardinality(CPUs) \in Nat
  BY <1>0, <1>4, WritersLeave
<1>6. uart.fifo \in Nat /\ uart.fifo + Cardinality(Writers) <= Cardinality(CPUs)
  BY <1>0, Zenon DEF SentExact
<1>7. uart'.fifo + Cardinality(Writers)' <= Cardinality(CPUs) /\ uart'.fifo \in Nat
  BY <1>2, <1>5, <1>6
<1>8. SentExact'
  <2>1. \A e \in CPUs : /\ Where(Cur(e)') = "thr" <=> Where(Cur(e)) = "thr"
                        /\ Where(Cur(e)') = "thr" => Cur(e)'.ch = Cur(e).ch
    BY <1>0, <1>4 DEF Others
  <2> QED BY <1>0, <1>7, <2>1, Zenon DEF SentExact
<1>9. SleepExact'
  BY <1>0, <1>4, SleepStays
<1>10. TxRing' /\ Moving'
  BY <1>0, <1>3, <1>4, Zenon DEF TxRing, Moving
<1> QED BY <1>4, <1>8, <1>9, <1>10, Zenon DEF TtyInv, IoInv

(* The devices, and kill, while no CPU takes a step. *)
LEMMA StillKept ==
  ASSUME Counting, TtyInv, Still, UNCHANGED <<tx, cons, clock, sent>>, uart'.fifo \in Nat, uart'.fifo <= uart.fifo,
         plic.pending => plic'.pending, uart.fifo > 0 => uart'.fifo > 0 \/ plic'.pending
  PROVE  TtyInv'
<1>0. CpuInv' /\ TxRing /\ SentExact /\ SleepExact /\ Moving
  BY Zenon DEF TtyInv, IoInv, Still
<1>1. \A e \in CPUs : /\ Where(Cur(e)') = Where(Cur(e)) /\ Cur(e)'.ch = Cur(e).ch
                      /\ Cur(e)'.n = Cur(e).n /\ Cur(e)'.arg = Cur(e).arg
                      /\ OnItsWay(Cur(e)') <=> OnItsWay(Cur(e))
  BY SameIs, Zenon DEF Still
<1>2. Writers' = Writers
  BY <1>1, Zenon DEF Writers
<1>3. uart'.fifo + Cardinality(Writers)' <= Cardinality(CPUs)
  <2>1. Cardinality(Writers) \in Nat /\ Cardinality(CPUs) \in Nat
    <3>1. Writers \in SUBSET CPUs /\ CPUs \in SUBSET CPUs
      BY Zenon DEF Writers
    <3> QED BY <3>1, Zenon DEF Counting
  <2>2. uart.fifo \in Nat /\ uart.fifo + Cardinality(Writers) <= Cardinality(CPUs)
    BY <1>0, Zenon DEF SentExact
  <2> QED BY <1>2, <2>1, <2>2
<1>4. SentExact'
  BY <1>0, <1>1, <1>3, Zenon DEF SentExact
<1>5. SleepExact'
  <2>1. ASSUME NEW t \in Threads, ctx'[t].state = "SLEEPING"
        PROVE  \/ ctx'[t].chan = "tx" /\ Full'
               \/ ctx'[t].chan = "cons" /\ cons'.r = cons'.w
               \/ ctx'[t].chan = "ticks" /\ TooEarly(ctx[t])'
    <3>1. Same(ctx[t], ctx'[t])
      BY <2>1, Zenon DEF Still
    <3>2. ctx[t].state = "SLEEPING" /\ ctx'[t].chan = ctx[t].chan /\ ctx'[t].n = ctx[t].n /\ ctx'[t].arg = ctx[t].arg
      BY <2>1, <3>1 DEF Same
    <3> QED BY <1>0, <3>2, Zenon DEF SleepExact, Full, TooEarly, Minus
  <2>2. \A e \in CPUs : /\ Where(Cur(e)') = "r_sleep" => cons'.r = cons'.w
                        /\ Where(Cur(e)') = "s_sleep" => TooEarly(Cur(e))'
    BY <1>0, <1>1, Zenon DEF SleepExact, TooEarly, Minus
  <2> QED BY <2>1, <2>2, Zenon DEF SleepExact
<1>6. Moving' /\ TxRing'
  BY <1>0, <1>1, Zenon DEF Moving, TxRing
<1> QED BY <1>0, <1>4, <1>5, <1>6, Zenon DEF TtyInv, IoInv

(* Nothing happens on the CPUs. *)
LEMMA CpusStay ==
  ASSUME CpuInv, UNCHANGED cpuVars
  PROVE  Still
<1>1. cpu' = cpu /\ lock' = lock /\ ctx' = ctx /\ panicked' = panicked
  BY Zenon DEF cpuVars
<1>2. CpuTypes /\ \A e \in CPUs : Cur(e)' = Cur(e)
  BY <1>1, Zenon DEF CpuInv, Cur
<1>3. CpuTypes'
  BY <1>1, <1>2 DEF CpuTypes
<1>4. CpuInv'
  BY <1>1, <1>2, <1>3 DEF CpuInv
<1>5. \A k \in Contexts : IsContext(ctx[k]) /\ ctx'[k] = ctx[k]
  BY <1>1, <1>2, Zenon DEF CpuTypes
<1>6. \A e \in CPUs : IsContext(Cur(e))
  BY CurFacts, Zenon
<1> QED BY <1>2, <1>4, <1>5, <1>6, Zenon DEF Still, Same, Contexts

(* The UART sends or receives; a thread is killed. *)
LEMMA ActDevices ==
  ASSUME Counting, TtyInv, IoTypes, transmit \/ receive \/ \E t \in Threads : killed(t)
  PROVE  TtyInv'
<1>0. CpuInv /\ uart.fifo \in Nat
  BY Zenon DEF TtyInv, IoInv, SentExact
<1>1. CASE transmit \/ receive
  <2>1. UNCHANGED <<tx, cons, clock, sent>> /\ UNCHANGED cpuVars
    BY <1>1, Zenon DEF transmit, receive
  <2>5. Still
    BY <1>0, <2>1, CpusStay, Zenon
  <2>6. /\ uart'.fifo \in Nat /\ uart'.fifo <= uart.fifo
        /\ plic.pending => plic'.pending
        /\ uart.fifo > 0 => uart'.fifo > 0 \/ plic'.pending
    <3>1. CASE transmit
      <4>1. uart'.fifo = uart.fifo - 1 /\ plic'.pending = (plic.pending \/ uart.fifo = 1) /\ uart.fifo > 0
        BY <3>1 DEF transmit, IoTypes
      <4>2. uart'.fifo \in Nat /\ uart'.fifo <= uart.fifo /\ (uart.fifo = 1 \/ uart'.fifo > 0)
        BY <1>0, <4>1
      <4> QED BY <4>1, <4>2, Zenon
    <3>2. CASE receive
      <4>1. uart'.fifo = uart.fifo /\ plic'.pending = TRUE
        BY <3>2 DEF receive, IoTypes
      <4> QED BY <1>0, <4>1
    <3> QED BY <1>1, <3>1, <3>2, Zenon
  <2> QED BY <2>1, <2>5, <2>6, StillKept, Zenon
<1>2. CASE \E t \in Threads : killed(t)
  <2>1. Still
    BY <1>0, <1>2, StepKill, Zenon DEF killed
  <2>2. UNCHANGED <<tx, cons, clock, sent>> /\ uart' = uart /\ plic' = plic
    BY <1>2, Zenon DEF killed
  <2>3. uart'.fifo \in Nat /\ uart'.fifo <= uart.fifo
    BY <1>0, <2>2
  <2> QED BY <2>1, <2>2, <2>3, StillKept, Zenon
<1> QED BY <1>1, <1>2

-----------------------------------------------------------------------------
(* Every step keeps the invariant. *)
LEMMA NextTty ==
  ASSUME Counting, TtyInv, IoTypes, Next
  PROVE  TtyInv'
<1>1. CASE transmit \/ receive \/ \E t \in Threads : killed(t)
  BY <1>1, ActDevices, Zenon
<1>2. ASSUME NEW c \in CPUs, external(c) \/ timer(c)
      PROVE  TtyInv'
  BY <1>2, ActInterrupt, Zenon
<1>3. ASSUME NEW c \in CPUs, Running(c)
      PROVE  TtyInv'
  <2>1. CASE spin(c) /\ UNCHANGED kernel
    BY <2>1, ActSpin, Zenon
  <2>2. CASE /\ UNCHANGED kernel
             /\ \/ \E t \in Threads : scheduler(c, t)
                \/ scheduler_on(c) \/ trapret(c) \/ usertrap_intr(c) \/ usertrap_killed(c)
                \/ usertrapret(c) \/ sret(c)
    BY <2>2, ActSched, Zenon
  <2>3. CASE syscall(c) \/ fault(c) \/ uartputc(c) \/ uartputc_full(c) \/ uartputc_wake(c)
    BY <2>3, ActSyscall, ActUartputc, ActFull, Zenon
  <2>4. CASE uartstart(c) \/ uartstart_thr(c) \/ uart_release(c) \/ plic_claim(c) \/ uartintr(c) \/ plic_complete(c)
    BY <2>4, ActStart, ActThr, ActRelease, ActClaim, ActIntr, Zenon
  <2>5. CASE consoleintr(c) \/ uartputc_sync(c) \/ uartputc_sync_thr(c) \/ consoleintr_store(c) \/ console_release(c)
    BY <2>5, ActConsoleintr, ActSync, ActSyncThr, ActStore, ActConsRelease, Zenon
  <2>6. CASE \/ \E n \in ReadSizes : consoleread(c, n)
             \/ consoleread_wake(c) \/ clockintr(c)
             \/ \E n \in SleepTicks : sys_sleep(c, n)
             \/ sys_sleep_wake(c)
    BY <2>6, ActAsk, Zenon
  <2>7. CASE \/ consoleread_wait(c) \/ consoleread_sleep(c) \/ consoleread_char(c) \/ consoleread_done(c)
             \/ sys_sleep_start(c) \/ sys_sleep_loop(c) \/ sys_sleep_sleep(c)
    BY <2>7, ActRead, ActChar, ActSleep, ActSleeps, Zenon
  <2>8. CASE clockintr_tick(c) \/ ticks_release(c) \/ timer_yield(c)
    BY <2>8, ActTick, ActTicksRelease, ActYield, Zenon
  <2> QED BY <1>3, <2>1, <2>2, <2>3, <2>4, <2>5, <2>6, <2>7, <2>8, Zenon DEF Running
<1> QED BY <1>1, <1>2, <1>3, Zenon DEF Next

(* A step that changes nothing. *)
LEMMA StutterTty ==
  ASSUME Counting, TtyInv, IoTypes, UNCHANGED vars
  PROVE  TtyInv' /\ IoTypes'
<1>1. CpuInv /\ UNCHANGED cpuVars /\ UNCHANGED <<tx, cons, uart, plic, clock, sent>>
  BY Zenon DEF vars, cpuVars, TtyInv
<1>2. Still /\ uart.fifo \in Nat
  BY <1>1, CpusStay, Zenon DEF TtyInv, IoInv, SentExact
<1>3. uart'.fifo \in Nat /\ uart'.fifo <= uart.fifo
  BY <1>1, <1>2
<1>4. TtyInv'
  BY <1>1, <1>2, <1>3, StillKept, Zenon
<1> QED BY <1>1, <1>4, Zenon DEF IoTypes

(* Only uartstart_thr hands over a character of the ring. *)
LEMMA SentSteps ==
  ASSUME Counting, TtyInv, IoTypes, Next
  PROVE  sent' \in {sent, sent + 1}
<1>1. CASE transmit \/ receive \/ \E t \in Threads : killed(t)
  BY <1>1, Zenon DEF transmit, receive, killed
<1>2. ASSUME NEW c \in CPUs, external(c) \/ timer(c)
      PROVE  sent' = sent
  BY <1>2, Zenon DEF external, timer, kernel
<1>3. ASSUME NEW c \in CPUs, Running(c)
      PROVE  sent' \in {sent, sent + 1}
  <2>1. CASE uartstart_thr(c)
    BY <2>1, ActThr, Zenon
  <2>2. CASE ~uartstart_thr(c)
    <3>1. UNCHANGED kernel \/ sent' = sent
      BY <1>3, <2>2, Zenon DEF Running, syscall, fault, uartputc, uartputc_full, uartputc_wake, uartstart,
            uart_release, plic_claim, uartintr, plic_complete, consoleintr, uartputc_sync, uartputc_sync_thr,
            consoleintr_store, console_release, consoleread, consoleread_wait, consoleread_sleep, consoleread_wake,
            consoleread_char, consoleread_done, clockintr, clockintr_tick, ticks_release, timer_yield, sys_sleep,
            sys_sleep_start, sys_sleep_loop, sys_sleep_sleep, sys_sleep_wake
    <3> QED BY <3>1, Zenon DEF kernel
  <2> QED BY <2>1, <2>2, Zenon
<1> QED BY <1>1, <1>2, <1>3, Zenon DEF Next

-----------------------------------------------------------------------------
INSTANCE FiniteSetTheorems

(* There are finitely many CPUs. *)
LEMMA CountingHolds == Counting
<1>1. IsFiniteSet(CPUs)
  BY TtyAssumption
<1>2. ASSUME NEW S \in SUBSET CPUs
      PROVE  IsFiniteSet(S) /\ Cardinality(S) \in Nat /\ Cardinality(S) <= Cardinality(CPUs)
  BY <1>1, FS_Subset, FS_CardinalityType
<1>3. ASSUME NEW S \in SUBSET CPUs, NEW c \in S
      PROVE  Cardinality(S \ {c}) = Cardinality(S) - 1
  BY <1>2, FS_RemoveElement
<1> QED BY <1>2, <1>3 DEF Counting

(* The inductive invariant of the CPUs and the console. *)
THEOREM TtyInvariant == Spec => [](TtyInv /\ IoTypes)
<1>1. Init => TtyInv /\ IoTypes
  BY InitTty, CountingHolds, Zenon
<1>2. TtyInv /\ IoTypes /\ [Next]_vars => (TtyInv /\ IoTypes)'
  BY NextTty, TypesStay, StutterTty, CountingHolds, Zenon
<1> QED BY <1>1, <1>2, PTL DEF Spec

(* No check of spinlock.c, sched and trap.c ever fails, and a handler runs *)
(* with interrupts off, on whatever CPU it returns.                        *)
THEOREM InterruptsStaySafe == Spec => []InterruptsSafe
<1>1. TtyInv => InterruptsSafe
  BY InvSafe, Zenon
<1> QED BY <1>1, TtyInvariant, PTL

(* Nobody sleeps on the console, the UART or the clock without a reason. *)
THEOREM WakeupsNotLost == Spec => []NoLostWakeup
<1>1. TtyInv => NoLostWakeup
  BY InvWakeups, Zenon
<1> QED BY <1>1, TtyInvariant, PTL

(* Characters that wait for the UART will be sent: an interrupt is to come *)
(* or some CPU is about to call uartstart.                                 *)
THEOREM OutputKeepsMoving == Spec => []OutputMoves
<1>1. TtyInv => OutputMoves
  BY InvMoves, Zenon
<1> QED BY <1>1, TtyInvariant, PTL

(* Characters reach the UART in order, none lost or repeated, if its FIFO  *)
(* has room for one character of each CPU.                                 *)
THEOREM OutputStaysInOrder == Spec => OutputInOrder
<1>1. TtyInv /\ IoTypes /\ [Next]_vars => [sent' \in {sent, sent + 1}]_sent
  <2>1. CASE Next
    BY <2>1, SentSteps, CountingHolds, Zenon
  <2>2. CASE UNCHANGED vars
    BY <2>2, Zenon DEF vars
  <2> QED BY <2>1, <2>2, Zenon
<1> QED BY <1>1, TtyInvariant, PTL DEF Spec, OutputInOrder
=============================================================================
