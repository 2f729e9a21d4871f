--------------------------- MODULE ChannelProofs ---------------------------
(***************************************************************************)
(* The two channels through which processes send each other bytes.         *)
(*                                                                         *)
(* Pipe: NoUseAfterFree and NoLostWakeup for any number of processes, any  *)
(* capacity and any width of the counters; and InOrder for every capacity  *)
(* and every width that is a multiple of it, as 2^32 is of PIPESIZE.       *)
(*                                                                         *)
(* Uringbuf: the ring buffer is correct for every capacity, every set of   *)
(* bytes and every length of the run.  The inductive invariant says what   *)
(* the two sides know about each other: a copy of a counter may be old,    *)
(* but only on the safe side.                                              *)
(***************************************************************************)
EXTENDS Pipe, Uringbuf, SequenceTheorems, TLAPS

Locked == {"w_loop", "w_full", "r_empty", "r_wait", "r_copy"}
Places == {"user", "close_r", "close_w"} \cup Writing \cup Reading

(* What the proofs need to know of the types. *)
PipeTypes ==
  /\ pc \in [Procs -> Places]
  /\ refs \in [Ends -> SUBSET Procs]
  /\ killed \in [Procs -> {0, 1}]
  /\ readopen \in {0, 1} /\ writeopen \in {0, 1} /\ alloc \in {0, 1}
  /\ nread \in Int /\ nwrite \in Int
  /\ n \in [Procs -> Int] /\ i \in [Procs -> Int]

(* pi->lock belongs to the process that is between acquire and release. *)
LockExact == \A p \in Procs : pc[p] \in Locked <=> lock = p

(* An end is open as long as a process has it or is on its way from        *)
(* fileclose to pipeclose, which one process at most is, when none has the *)
(* end any more; the page exists as long as one end is open.               *)
EndsExact ==
  /\ readopen = 1 <=> (refs["r"] # {} \/ \E p \in Procs : pc[p] = "close_r")
  /\ writeopen = 1 <=> (refs["w"] # {} \/ \E p \in Procs : pc[p] = "close_w")
  /\ alloc = 1 <=> (readopen = 1 \/ writeopen = 1)
  /\ \A p \in Procs :
       /\ pc[p] \in Reading => p \in refs["r"]
       /\ pc[p] \in Writing => p \in refs["w"]
       /\ pc[p] = "close_r" => refs["r"] = {}
       /\ pc[p] = "close_w" => refs["w"] = {}
  /\ \A p, q \in Procs : pc[p] \in {"close_r", "close_w"} /\ pc[q] = pc[p] => p = q

(* Who sleeps, or is about to, has a reason, or the holder of the lock is  *)
(* in a loop that it leaves through the wakeup.                            *)
SleepExact ==
  \A p \in Procs :
    /\ pc[p] = "w_full" => Full /\ readopen = 1
    /\ pc[p] = "r_wait" => nread = nwrite /\ writeopen = 1
    /\ pc[p] = "w_sleep" =>
         \/ Full /\ readopen = 1
         \/ \E q \in Procs : lock = q /\ pc[q] = "r_copy"
    /\ pc[p] = "r_sleep" =>
         /\ writeopen = 1
         /\ \/ nread = nwrite
            \/ \E q \in Procs : killed[q] = 1
            \/ \E q \in Procs : lock = q /\ pc[q] = "w_loop"

PipeInv == PipeTypes /\ LockExact /\ EndsExact /\ SleepExact

-----------------------------------------------------------------------------
(* pipealloc meets no process that still uses an earlier pipe, and         *)
(* pipeclose leaves none behind: the invariant implies NoUseAfterFree.     *)
LEMMA InvFree == PipeInv => NoUseAfterFree
BY DEF PipeInv, PipeTypes, EndsExact, NoUseAfterFree, Ends, Places

(* While pi->lock is free the reason of a sleeper is NoLostWakeup's. *)
LEMMA InvWakeup == PipeInv => NoLostWakeup
BY PipeAssumption DEF PipeInv, SleepExact, NoLostWakeup

LEMMA InitInv == Init => PipeInv
BY PipeAssumption DEF Init, PipeInv, PipeTypes, LockExact, EndsExact, SleepExact,
                      Ends, Places, Locked, Writing, Reading

-----------------------------------------------------------------------------
(* The steps that take no lock: pipealloc, fork, fileclose, the calls of   *)
(* read and write, and kill.                                               *)
LEMMA UnlockedSteps ==
  ASSUME PipeInv, NEW p \in Procs,
         \/ pipealloc(p)
         \/ \E q \in Procs \ {p} : filedup(p, q)
         \/ \E e \in Ends : fileclose(p, e)
         \/ \E e \in Ends, k \in 0..MaxN : call(p, e, k)
         \/ kill(p)
  PROVE  PipeInv'
<1> USE PipeAssumption DEF PipeInv, Ends, Places, Locked, Writing, Reading, pipe, Full
<1>1. CASE pipealloc(p)
  <2>1. alloc = 0 /\ alloc' = 1 /\ \A q \in Procs : pc[q] = "user" /\ pc' = pc
    BY <1>1, InvFree DEF pipealloc, NoUseAfterFree
  <2>2. PipeTypes' /\ LockExact'
    BY <1>1 DEF pipealloc, PipeTypes, LockExact
  <2>3. EndsExact'
    BY <1>1, <2>1 DEF pipealloc, EndsExact
  <2>4. SleepExact'
    BY <2>1 DEF SleepExact
  <2> QED BY <2>2, <2>3, <2>4
<1>2. ASSUME NEW q \in Procs, filedup(p, q) PROVE PipeInv'
  <2>1. PipeTypes' /\ LockExact' /\ SleepExact'
    BY <1>2 DEF filedup, PipeTypes, LockExact, SleepExact
  <2>2. EndsExact'
    BY <1>2 DEF filedup, PipeTypes, EndsExact
  <2> QED BY <2>1, <2>2
<1>3. ASSUME NEW e \in Ends, fileclose(p, e) PROVE PipeInv'
  <2>1. PipeTypes' /\ LockExact' /\ SleepExact'
    BY <1>3 DEF fileclose, PipeTypes, LockExact, SleepExact
  <2>2. EndsExact'
    BY <1>3 DEF fileclose, PipeTypes, EndsExact
  <2> QED BY <2>1, <2>2
<1>4. ASSUME NEW e \in Ends, NEW k \in 0..MaxN, call(p, e, k) PROVE PipeInv'
  <2>1. PipeTypes' /\ LockExact' /\ SleepExact'
    BY <1>4 DEF call, PipeTypes, LockExact, SleepExact
  <2>2. EndsExact'
    BY <1>4 DEF call, PipeTypes, EndsExact
  <2> QED BY <2>1, <2>2
<1>5. CASE kill(p)
  <2>1. PipeTypes' /\ LockExact' /\ SleepExact'
    BY <1>5 DEF kill, PipeTypes, LockExact, SleepExact
  <2>2. EndsExact'
    BY <1>5 DEF kill, PipeTypes, EndsExact
  <2> QED BY <2>1, <2>2
<1> QED BY <1>1, <1>2, <1>3, <1>4, <1>5

(* An empty pipe holds no bytes. *)
LEMMA EmptyUsed == ASSUME PipeTypes, nread = nwrite PROVE Used = 0
BY PipeAssumption DEF PipeTypes, Used

(* The smaller of two numbers, and the bytes of a chunk. *)
LEMMA MinOfTwo ==
  ASSUME NEW a \in Int, NEW b \in Int
  PROVE  Min({a, b}) \in {a, b} /\ Min({a, b}) <= a /\ Min({a, b}) <= b
<1>1. \E x \in {a, b} : \A y \in {a, b} : x <= y
  OBVIOUS
<1> QED BY <1>1 DEF Min

LEMMA ChunkBounds ==
  ASSUME NEW pos \in Int, NEW m \in Int
  PROVE  /\ Chunk(pos, m) \in Int
         /\ Chunk(pos, m) \in {PIPESIZE - pos, m}
         /\ Chunk(pos, m) <= PIPESIZE - pos /\ Chunk(pos, m) <= m
<1>1. PIPESIZE - pos \in Int
  BY PipeAssumption
<1> QED BY <1>1, MinOfTwo DEF Chunk

(* wakeup(chan) while p goes to another place, process by process. *)
LEMMA Woken ==
  ASSUME PipeTypes, NEW p \in Procs, NEW to \in Places, NEW chan \in {"r_sleep", "w_sleep"},
         pc' = [wakeup(chan) EXCEPT ![p] = to]
  PROVE  /\ pc' \in [Procs -> Places]
         /\ pc'[p] = to
         /\ \A q \in Procs \ {p} :
              /\ pc[q] # chan => pc'[q] = pc[q]
              /\ pc[q] = chan => pc'[q] = IF chan = "r_sleep" THEN "r_acquire" ELSE "w_acquire"
<1>1. wakeup(chan) \in [Procs -> Places]
  BY DEF wakeup, PipeTypes, Places, Reading, Writing
<1> QED BY <1>1 DEF wakeup

(* pipewrite and piperead return through wakeup and release. *)
LEMMA ReturnSteps ==
  ASSUME PipeInv, NEW p \in Procs, NEW chan \in {"r_sleep", "w_sleep"},
         pc[p] = IF chan = "r_sleep" THEN "w_loop" ELSE "r_copy",
         return(p, wakeup(chan)), UNCHANGED <<pipe, refs, killed>>
  PROVE  PipeInv'
<1> USE PipeAssumption DEF PipeInv, Ends, Places, Locked, Writing, Reading, pipe
<1>1. lock = p /\ lock' = NoProc
  <2>1. pc[p] \in Locked /\ (pc[p] \in Locked <=> lock = p)
    BY DEF LockExact
  <2> QED BY <2>1, Zenon DEF return
<1>2. /\ pc' \in [Procs -> Places]
      /\ pc'[p] = "user"
      /\ \A q \in Procs \ {p} :
           /\ pc[q] # chan => pc'[q] = pc[q]
           /\ pc[q] = chan => pc'[q] = IF chan = "r_sleep" THEN "r_acquire" ELSE "w_acquire"
  BY Woken, Zenon DEF return
<1>3. PipeTypes' /\ LockExact'
  BY <1>1, <1>2 DEF return, PipeTypes, LockExact
<1>4. EndsExact'
  <2>1. \A q \in Procs : pc'[q] = pc[q] \/ (pc[q] \notin {"close_r", "close_w"} /\ pc'[q] \notin {"close_r", "close_w"})
    BY <1>2
  <2>2. \A q \in Procs : (pc'[q] \in Reading => pc[q] \in Reading) /\ (pc'[q] \in Writing => pc[q] \in Writing)
    BY <1>2
  <2>3. \A q, c \in Procs : pc'[q] \in {"close_r", "close_w"} /\ pc'[c] = pc'[q] => q = c
    BY <2>1 DEF EndsExact
  <2>4. /\ (\E q \in Procs : pc[q] = "close_r") <=> (\E q \in Procs : pc'[q] = "close_r")
        /\ (\E q \in Procs : pc[q] = "close_w") <=> (\E q \in Procs : pc'[q] = "close_w")
    BY <2>1
  <2>5. \A q \in Procs :
          /\ pc'[q] \in Reading => q \in refs["r"]
          /\ pc'[q] \in Writing => q \in refs["w"]
          /\ pc'[q] = "close_r" => refs["r"] = {}
          /\ pc'[q] = "close_w" => refs["w"] = {}
    BY <2>1, <2>2 DEF EndsExact
  <2> QED BY <2>3, <2>4, <2>5 DEF EndsExact
<1>5. SleepExact'
  BY <1>1, <1>2 DEF SleepExact, PipeTypes, Full
<1> QED BY <1>3, <1>4, <1>5

(* pipewrite goes on to sleep on a full pipe after it has woken the        *)
(* readers, copies a chunk or returns.                                     *)
LEMMA WriteSteps == ASSUME PipeInv, NEW p \in Procs, w_turn(p) PROVE PipeInv'
<1> USE PipeAssumption DEF PipeInv, Ends, Places, Locked, Writing, Reading, pipe
<1>1. lock = p /\ pc[p] = "w_loop" /\ UNCHANGED <<refs, killed>>
  BY DEF w_turn, LockExact
<1>2. \A q \in Procs : pc[q] = "w_sleep" => Full /\ readopen = 1
  BY <1>1 DEF SleepExact
<1>3. \A q \in Procs : pc[q] = "r_sleep" => readopen = 1
  BY DEF EndsExact
<1>4. CASE return(p, wakeup("r_sleep")) /\ UNCHANGED <<pipe, sent>>
  <2> HIDE DEF pipe, PipeInv
  <2> QED BY <1>1, <1>4, ReturnSteps
<1>5. CASE (readopen = 0 \/ killed[p] = 1) /\ return(p, pc) /\ UNCHANGED pipe
  BY <1>1, <1>2, <1>3, <1>5 DEF return, PipeTypes, LockExact, EndsExact, SleepExact, Full
<1>6. CASE Full /\ readopen = 1 /\ pc' = [wakeup("r_sleep") EXCEPT ![p] = "w_full"] /\ UNCHANGED <<pipe, lock, n, i>>
  <2>1. /\ pc' \in [Procs -> Places]
        /\ pc'[p] = "w_full"
        /\ \A q \in Procs \ {p} : (pc[q] # "r_sleep" => pc'[q] = pc[q]) /\ (pc[q] = "r_sleep" => pc'[q] = "r_acquire")
    BY <1>6, Woken, Zenon
  <2>2. PipeTypes' /\ LockExact'
    BY <1>1, <1>6, <2>1 DEF PipeTypes, LockExact
  <2>3. EndsExact'
    BY <1>1, <1>6, <2>1 DEF EndsExact
  <2>4. SleepExact'
    BY <1>1, <1>2, <1>6, <2>1 DEF SleepExact, LockExact, Full
  <2> QED BY <2>2, <2>3, <2>4
<1>7. CASE ~Full /\ UNCHANGED <<nread, readopen, writeopen, alloc, lock, pc>> 
           /\ nwrite' \in Int /\ n' \in [Procs -> Int] /\ i' \in [Procs -> Int]
  <2>1. PipeTypes' /\ LockExact' /\ EndsExact'
    BY <1>1, <1>7 DEF PipeTypes, LockExact, EndsExact
  <2>2. \A q \in Procs : pc'[q] \notin {"w_sleep", "w_full", "r_wait"}
    BY <1>1, <1>2, <1>7 DEF LockExact
  <2>3. SleepExact'
    BY <1>1, <1>7, <2>2 DEF SleepExact
  <2> QED BY <2>1, <2>3
<1>8. ASSUME NEW k \in Int, i' = [i EXCEPT ![p] = @ + k], nwrite' = Advance(nwrite, k), ~Full,
             UNCHANGED <<nread, readopen, writeopen, alloc, lock, pc, n>>
      PROVE  PipeInv'
  <2>1. nwrite' \in Int /\ n' \in [Procs -> Int] /\ i' \in [Procs -> Int]
    BY <1>8 DEF Advance, PipeTypes
  <2> QED BY <1>7, <1>8, <2>1
<1>9. Chunk(WritePos, Min({PIPESIZE - Used, n[p] - i[p]})) \in Int
  <2>1. WritePos \in Int /\ PIPESIZE - Used \in Int /\ n[p] - i[p] \in Int
    BY DEF WritePos, Used, PipeTypes
  <2>2. Min({PIPESIZE - Used, n[p] - i[p]}) \in Int
    BY <2>1, MinOfTwo, Zenon
  <2> QED BY <2>1, <2>2, ChunkBounds, Zenon
<1> QED
  <2>1. CASE i[p] >= n[p]
    BY <1>4, <2>1 DEF w_turn
  <2>2. CASE ~(i[p] >= n[p]) /\ (readopen = 0 \/ killed[p] = 1)
    BY <1>5, <2>2 DEF w_turn
  <2>3. CASE ~(i[p] >= n[p]) /\ ~(readopen = 0 \/ killed[p] = 1) /\ Full
    BY <1>6, <2>3 DEF w_turn, PipeTypes
  <2>4. CASE ~(i[p] >= n[p]) /\ ~(readopen = 0 \/ killed[p] = 1) /\ ~Full
    <3> DEFINE k == Chunk(WritePos, Min({PIPESIZE - Used, n[p] - i[p]}))
    <3>1. CASE return(p, wakeup("r_sleep")) /\ UNCHANGED <<pipe, sent>>
      BY <1>4, <3>1
    <3>2. CASE /\ i' = [i EXCEPT ![p] = @ + k] /\ nwrite' = Advance(nwrite, k)
               /\ UNCHANGED <<nread, readopen, writeopen, alloc, lock, pc, n>>
      BY <1>8, <1>9, <2>4, <3>2, Zenon
    <3> QED BY <2>4, <3>1, <3>2 DEF w_turn
  <2> QED BY <2>1, <2>2, <2>3, <2>4

(* piperead copies a chunk, of a pipe that nobody else waits for, or       *)
(* returns.                                                                *)
LEMMA ReadSteps == ASSUME PipeInv, NEW p \in Procs, r_turn(p) PROVE PipeInv'
<1> USE PipeAssumption DEF PipeInv, Ends, Places, Locked, Writing, Reading, pipe
<1>1. lock = p /\ pc[p] = "r_copy" /\ UNCHANGED <<data, nwrite, readopen, writeopen, alloc, refs, killed>>
  BY DEF r_turn, LockExact
<1>2. CASE return(p, wakeup("w_sleep")) /\ UNCHANGED nread
  BY <1>1, <1>2, ReturnSteps
<1>3. ASSUME NEW k \in Int, Used # 0, i' = [i EXCEPT ![p] = @ + k], nread' = Advance(nread, k), UNCHANGED <<lock, pc, n>>
      PROVE  PipeInv'
  <2>1. PipeTypes' /\ nread # nwrite
    BY <1>1, <1>3, EmptyUsed DEF PipeTypes, Advance
  <2>2. LockExact' /\ EndsExact'
    BY <1>1, <1>3 DEF LockExact, EndsExact
  <2>3. SleepExact'
    BY <1>1, <1>3, <2>1 DEF LockExact, SleepExact
  <2> QED BY <2>1, <2>2, <2>3
<1>4. Chunk(ReadPos, Min({Used, n[p] - i[p]})) \in Int
  <2>1. ReadPos \in Int /\ Used \in Int /\ n[p] - i[p] \in Int
    BY DEF ReadPos, Used, PipeTypes
  <2>2. Min({Used, n[p] - i[p]}) \in Int
    BY <2>1, MinOfTwo, Zenon
  <2> QED BY <2>1, <2>2, ChunkBounds, Zenon
<1> QED
  <2> DEFINE k == Chunk(ReadPos, Min({Used, n[p] - i[p]}))
  <2>1. CASE Used # 0 /\ i' = [i EXCEPT ![p] = @ + k] /\ nread' = Advance(nread, k) /\ UNCHANGED <<lock, pc, n>>
    BY <1>3, <1>4, <2>1, Zenon
  <2> QED BY <1>2, <2>1 DEF r_turn

(* The steps of piperead, pipewrite and pipeclose, under pi->lock. *)
LEMMA LockedSteps == ASSUME PipeInv, NEW p \in Procs, Step(p) PROVE PipeInv'
<1> USE PipeAssumption DEF PipeInv, Ends, Places, Locked, Writing, Reading, pipe
<1>1. CASE acquire(p)
  BY <1>1 DEF acquire, PipeTypes, LockExact, EndsExact, SleepExact, Full
<1>2. CASE r_test(p)
  BY <1>2 DEF r_test, return, PipeTypes, LockExact, EndsExact, SleepExact, Full
<1>3. CASE sleep(p)
  BY <1>3 DEF sleep, PipeTypes, LockExact, EndsExact, SleepExact, Full
<1>4. CASE pipeclose(p)
  <2> DEFINE chan == IF pc[p] = "close_w" THEN "r_sleep" ELSE "w_sleep"
  <2>1. pc' = [wakeup(chan) EXCEPT ![p] = "user"]
    BY <1>4 DEF pipeclose
  <2>2. /\ pc' \in [Procs -> Places]
        /\ pc'[p] = "user"
        /\ \A q \in Procs \ {p} :
             /\ pc[q] # chan => pc'[q] = pc[q]
             /\ pc[q] = chan => pc'[q] = IF chan = "r_sleep" THEN "r_acquire" ELSE "w_acquire"
    BY <2>1, Woken, Zenon
  <2>3. PipeTypes' /\ LockExact'
    BY <1>4, <2>2 DEF pipeclose, PipeTypes, LockExact
  <2>4. EndsExact'
    BY <1>4, <2>2, SMTT(20) DEF pipeclose, LastEnd, PipeTypes, EndsExact
  <2>5. SleepExact'
    BY <1>4, <2>2 DEF pipeclose, LockExact, SleepExact, Full
  <2> QED BY <2>3, <2>4, <2>5
<1> QED BY <1>1, <1>2, <1>3, <1>4, WriteSteps, ReadSteps DEF Step

(* The invariant of every reachable state of the pipe. *)
THEOREM PipeInvariant == Spec => []PipeInv
<1>1. ASSUME PipeInv, [Next]_vars PROVE PipeInv'
  <2>1. CASE UNCHANGED vars
    BY <1>1, <2>1 DEF PipeInv, PipeTypes, LockExact, EndsExact, SleepExact, Full, vars, pipe
  <2>2. CASE Next
    BY <1>1, <2>2, UnlockedSteps, LockedSteps DEF Next
  <2> QED BY <1>1, <2>1, <2>2
<1> QED BY <1>1, InitInv, PTL DEF Spec

(* pipeclose frees the page of the pipe under nobody, however many         *)
(* processes share the ends and in whatever order they close them.         *)
THEOREM FreeSafe == Spec => []NoUseAfterFree
BY PipeInvariant, InvFree, PTL

(* No reader or writer sleeps on a pipe that is ready for it, for any      *)
(* number of processes on both sides.                                      *)
THEOREM WakeupSafe == Spec => []NoLostWakeup
BY PipeInvariant, InvWakeup, PTL

-----------------------------------------------------------------------------
(* Division with remainder, whose remainder is unique. *)
LEMMA DivMod ==
  ASSUME NEW a \in Int, NEW m \in Nat \ {0}
  PROVE  a % m \in 0..m-1 /\ a \div m \in Int /\ a = m * (a \div m) + (a % m)
OBVIOUS

LEMMA ModUnique ==
  ASSUME NEW m \in Nat \ {0}, NEW q \in Int, NEW r \in 0..m-1
  PROVE  (m * q + r) % m = r
<1> DEFINE a == m * q + r
           u == a \div m
           s == a % m
<1>1. a \in Int /\ m * q \in Int
  OBVIOUS
<1>2. s \in 0..m-1 /\ u \in Int /\ a = m * u + s
  BY <1>1, DivMod, SMTT(20)
<1> HIDE DEF u, s
<1>3. ASSUME NEW x \in Int, NEW y \in Int, x >= y + 1 PROVE m * x >= m * y + m
  <2>1. m * x >= m * (y + 1)
    BY <1>3
  <2>2. m * (y + 1) = m * y + m
    OBVIOUS
  <2> QED BY <2>1, <2>2
<1>4. ~(q >= u + 1) /\ ~(u >= q + 1)
  BY <1>1, <1>2, <1>3
<1>5. u = q
  BY <1>2, <1>4
<1> QED BY <1>1, <1>2, <1>5 DEF s

(* A multiple of the divisor does not matter, *)
LEMMA ModShift ==
  ASSUME NEW m \in Nat \ {0}, NEW a \in Int, NEW t \in Int
  PROVE  (a + m * t) % m = a % m
<1> DEFINE q == (a \div m) + t
           r == a % m
<1>1. q \in Int /\ r \in 0..m-1 /\ a + m * t = m * q + r
  BY DivMod
<1> HIDE DEF q, r
<1>2. (m * q + r) % m = r
  BY <1>1, ModUnique
<1> QED BY <1>1, <1>2 DEF r

(* and numbers less than the divisor apart have different remainders.      *)
LEMMA ModDiffer ==
  ASSUME NEW m \in Nat \ {0}, NEW a \in Int, NEW d \in 1..m-1
  PROVE  a % m # (a + d) % m
<1> DEFINE r == a % m
           x == a \div m
<1>1. r \in 0..m-1 /\ x \in Int /\ a = m * x + r
  BY DivMod
<1> HIDE DEF r, x
<1>2. CASE r + d \in 0..m-1
  <2>1. a + d = m * x + (r + d)
    BY <1>1
  <2> QED BY <1>1, <1>2, <2>1, ModUnique, SMTT(20) DEF r
<1>3. CASE r + d - m \in 0..m-1
  <2>1. a + d = m * (x + 1) + (r + d - m)
    BY <1>1
  <2>2. x + 1 \in Int
    BY <1>1
  <2>3. (a + d) % m = r + d - m
    BY <1>3, <2>1, <2>2, ModUnique, Zenon
  <2> QED BY <1>1, <2>3 DEF r
<1> QED BY <1>1, <1>2, <1>3

-----------------------------------------------------------------------------
(* Types of the stream; the counters stay within their width. *)
StreamTypes ==
  /\ nread \in 0..UINT-1 /\ nwrite \in 0..UINT-1
  /\ sent \in Nat /\ got \in Seq(Nat)
  /\ data \in [0..PIPESIZE-1 -> Nat]

(* The counters of a pipe: nwrite is Used ahead of nread up to a multiple  *)
(* of UINT, which is one of PIPESIZE.                                      *)
LEMMA Counters ==
  ASSUME StreamTypes
  PROVE  /\ Used \in 0..UINT-1
         /\ \E q \in Int : nwrite = nread + Used + UINT * q
         /\ \E c \in Int : UINT = PIPESIZE * c
<1>1. nwrite - nread \in Int /\ UINT \in Nat \ {0} /\ PIPESIZE \in Nat \ {0} /\ UINT % PIPESIZE = 0
  BY PipeAssumption DEF StreamTypes
<1>2. /\ Used \in 0..UINT-1
      /\ (nwrite - nread) \div UINT \in Int
      /\ nwrite - nread = UINT * ((nwrite - nread) \div UINT) + Used
  BY <1>1, DivMod, Zenon DEF Used
<1>3. UINT \div PIPESIZE \in Int /\ UINT = PIPESIZE * (UINT \div PIPESIZE)
  BY <1>1, DivMod
<1>4. \E q \in Int : nwrite - nread = UINT * q + Used
  BY <1>2
<1>5. PICK q \in Int : nwrite - nread = UINT * q + Used
  BY <1>4
<1>6. nwrite = nread + Used + UINT * q
  BY <1>1, <1>2, <1>5 DEF StreamTypes
<1> QED BY <1>2, <1>3, <1>6

(* A counter that advances wraps by a multiple of UINT. *)
LEMMA Advanced ==
  ASSUME NEW c \in 0..UINT-1, NEW k \in Nat
  PROVE  Advance(c, k) \in 0..UINT-1 /\ \E q \in Int : c + k = UINT * q + Advance(c, k)
<1>1. UINT \in Nat \ {0} /\ c + k \in Int
  BY PipeAssumption
<1> QED BY <1>1, DivMod, Zenon DEF Advance

(* nwrite = ... + k: the pipe holds k more bytes. *)
LEMMA UsedWrite ==
  ASSUME StreamTypes, NEW k \in Nat, Used + k <= PIPESIZE
  PROVE  (Advance(nwrite, k) - nread) % UINT = Used + k
<1> DEFINE w == Advance(nwrite, k)
<1>1. PICK q \in Int : nwrite = nread + Used + UINT * q
  BY Counters
<1>2. w \in 0..UINT-1 /\ \E x \in Int : nwrite + k = UINT * x + w
  BY Advanced DEF StreamTypes
<1>3. PICK x \in Int : nwrite + k = UINT * x + w
  BY <1>2
<1>4. Used + k \in 0..UINT-1
  BY Counters, PipeAssumption
<1> HIDE DEF w
<1>5. w - nread = UINT * (q - x) + (Used + k)
  <2> DEFINE uq == UINT * q
             ux == UINT * x
  <2>1. UINT * (q - x) = uq - ux /\ uq \in Int /\ ux \in Int
    BY PipeAssumption
  <2>2. nwrite = nread + Used + uq /\ nwrite + k = ux + w
    BY <1>1, <1>3
  <2>3. Used \in Int /\ nread \in Int /\ nwrite \in Int
    BY Counters DEF StreamTypes
  <2> HIDE DEF uq, ux
  <2> QED BY <1>2, <2>1, <2>2, <2>3
<1> QED BY <1>4, <1>5, ModUnique, PipeAssumption DEF w

(* nread = ... + k: the pipe holds k bytes less. *)
LEMMA UsedRead ==
  ASSUME StreamTypes, NEW k \in Nat, k <= Used
  PROVE  (nwrite - Advance(nread, k)) % UINT = Used - k
<1> DEFINE r == Advance(nread, k)
<1>1. PICK q \in Int : nwrite = nread + Used + UINT * q
  BY Counters
<1>2. r \in 0..UINT-1 /\ \E x \in Int : nread + k = UINT * x + r
  BY Advanced DEF StreamTypes
<1>3. PICK x \in Int : nread + k = UINT * x + r
  BY <1>2
<1>4. Used - k \in 0..UINT-1
  BY Counters, PipeAssumption
<1> HIDE DEF r
<1>5. nwrite - r = UINT * (q + x) + (Used - k)
  <2> DEFINE uq == UINT * q
             ux == UINT * x
  <2>1. UINT * (q + x) = uq + ux /\ uq \in Int /\ ux \in Int
    BY PipeAssumption
  <2>2. nwrite = nread + Used + uq /\ nread + k = ux + r
    BY <1>1, <1>3
  <2>3. Used \in Int /\ nread \in Int /\ nwrite \in Int
    BY Counters DEF StreamTypes
  <2> HIDE DEF uq, ux
  <2> QED BY <1>2, <2>1, <2>2, <2>3
<1> QED BY <1>4, <1>5, ModUnique, PipeAssumption DEF r

(* The cell of byte Used + t, counted from nread, is that of nwrite + t. *)
LEMMA WriteCell ==
  ASSUME StreamTypes, NEW t \in Int
  PROVE  (nread + (Used + t)) % PIPESIZE = (nwrite + t) % PIPESIZE
<1>1. PICK q \in Int : nwrite = nread + Used + UINT * q
  BY Counters
<1>2. PICK c \in Int : UINT = PIPESIZE * c
  BY Counters
<1>3. UINT * q = PIPESIZE * (c * q) /\ c * q \in Int
  BY <1>2, PipeAssumption
<1>4. nread + (Used + t) \in Int
  BY Counters DEF StreamTypes
<1> DEFINE a == nread + (Used + t)
           z == c * q
<1>5. nwrite + t = a + PIPESIZE * z
  <2>1. nwrite = nread + Used + PIPESIZE * z /\ PIPESIZE * z \in Int
    BY <1>1, <1>3, PipeAssumption
  <2>2. Used \in Int /\ nread \in Int /\ nwrite \in Int
    BY Counters DEF StreamTypes
  <2> HIDE DEF z
  <2> QED BY <2>1, <2>2
<1> HIDE DEF a, z
<1>6. a \in Int /\ z \in Int
  BY <1>3, <1>4 DEF a, z
<1>7. (a + PIPESIZE * z) % PIPESIZE = a % PIPESIZE
  BY <1>6, ModShift, PipeAssumption, Zenon
<1> QED BY <1>5, <1>7 DEF a

(* The cell of byte t after k bytes have been read. *)
LEMMA ReadCell ==
  ASSUME StreamTypes, NEW k \in Nat, NEW t \in Int
  PROVE  (Advance(nread, k) + t) % PIPESIZE = (nread + (k + t)) % PIPESIZE
<1> DEFINE r == Advance(nread, k)
<1>1. r \in 0..UINT-1 /\ \E x \in Int : nread + k = UINT * x + r
  BY Advanced, Zenon DEF StreamTypes
<1>2. PICK x \in Int : nread + k = UINT * x + r
  BY <1>1
<1>3. PICK c \in Int : UINT = PIPESIZE * c
  BY Counters
<1>4. UINT * x = PIPESIZE * (c * x) /\ c * x \in Int
  BY <1>3, PipeAssumption
<1> HIDE DEF r
<1> DEFINE a == r + t
           z == c * x
<1>5. nread + (k + t) = a + PIPESIZE * z /\ a \in Int /\ z \in Int
  <2>1. UINT * x = PIPESIZE * z /\ z \in Int /\ nread \in Int
    BY <1>4 DEF StreamTypes
  <2> HIDE DEF z
  <2>2. nread + k = PIPESIZE * z + r /\ PIPESIZE * z \in Int
    BY <1>2, <2>1, PipeAssumption
  <2> QED BY <1>1, <2>1, <2>2
<1> HIDE DEF a, z
<1>6. (a + PIPESIZE * z) % PIPESIZE = a % PIPESIZE
  BY <1>5, ModShift, PipeAssumption, Zenon
<1> QED BY <1>5, <1>6 DEF a, r

(* Within a chunk, cells are next to one another. *)
LEMMA ChunkCells ==
  ASSUME NEW a \in Int, NEW t \in Nat, t < PIPESIZE - (a % PIPESIZE)
  PROVE  (a + t) % PIPESIZE = (a % PIPESIZE) + t /\ a % PIPESIZE \in 0..PIPESIZE-1
<1>1. a % PIPESIZE \in 0..PIPESIZE-1 /\ a \div PIPESIZE \in Int /\ a = PIPESIZE * (a \div PIPESIZE) + (a % PIPESIZE)
  BY DivMod, PipeAssumption
<1> DEFINE r == a % PIPESIZE
           x == a \div PIPESIZE
<1>2. r + t \in 0..PIPESIZE-1
  BY <1>1, PipeAssumption
<1>3. PIPESIZE * x \in Int
  BY <1>1, PipeAssumption
<1> HIDE DEF r, x
<1>4. a + t = PIPESIZE * x + (r + t)
  BY <1>1, <1>3 DEF r, x
<1>5. (PIPESIZE * x + (r + t)) % PIPESIZE = r + t
  BY <1>1, <1>2, ModUnique, PipeAssumption, Zenon DEF x
<1> QED BY <1>1, <1>4, <1>5 DEF r

-----------------------------------------------------------------------------
(* A chunk of pipewrite fills free cells only, and in the order of the     *)
(* stream.                                                                 *)
LEMMA WriteChunk ==
  ASSUME StreamTypes, InOrder, NEW k \in Nat, k <= PIPESIZE - WritePos, k <= PIPESIZE - Used,
         data' = [j \in 0..PIPESIZE-1 |->
                   IF j \in WritePos..WritePos+k-1 THEN sent + 1 + (j - WritePos) ELSE data[j]],
         nwrite' = Advance(nwrite, k), sent' = sent + k, UNCHANGED <<nread, got>>
  PROVE  StreamTypes' /\ InOrder'
<1> USE PipeAssumption
<1>0. sent = Len(got) + Used
  BY Counters DEF InOrder, StreamTypes
<1>1. Used \in 0..PIPESIZE /\ Used + k <= PIPESIZE /\ WritePos \in 0..PIPESIZE-1 /\ Len(got) \in Nat /\ nread \in Int
  BY Counters, SMTT(20) DEF InOrder, StreamTypes, WritePos
<1>2. nwrite' \in 0..UINT-1
  BY Advanced DEF StreamTypes
<1>3. Used' = Used + k
  BY <1>1, UsedWrite DEF Used
<1>4. StreamTypes'
  BY <1>1, <1>2 DEF StreamTypes
<1>5. ASSUME NEW t \in 0..Used-1 PROVE data'[(nread + t) % PIPESIZE] = Len(got) + t + 1
  <2> DEFINE c == (nread + t) % PIPESIZE
  <2>1. c \in 0..PIPESIZE-1 /\ nread + t \in Int
    BY <1>1, DivMod
  <2>2. ASSUME c \in WritePos..WritePos+k-1 PROVE FALSE
    <3> DEFINE u == c - WritePos
               d == Used + u - t
    <3>1. u \in 0..k-1 /\ u < PIPESIZE - WritePos /\ d \in 1..PIPESIZE-1 /\ WritePos + u = c
      BY <1>1, <2>1, <2>2
    <3> HIDE DEF c, u
    <3>6. nread + (Used + u) = (nread + t) + d
      BY <1>1, <3>1
    <3> HIDE DEF d
    <3>2. (nwrite + u) % PIPESIZE = WritePos + u
      <4>1. u \in Nat /\ nwrite \in Int
        BY <3>1 DEF StreamTypes
      <4> QED BY <3>1, <4>1, ChunkCells, Zenon DEF WritePos
    <3>3. (nread + (Used + u)) % PIPESIZE = (nwrite + u) % PIPESIZE
      BY <3>1, WriteCell
    <3>5. (nread + t) % PIPESIZE # ((nread + t) + d) % PIPESIZE
      BY <2>1, <3>1, ModDiffer
    <3> QED BY <3>1, <3>2, <3>3, <3>5, <3>6 DEF c
  <2>3. data'[c] = data[c]
    BY <2>1, <2>2
  <2> QED BY <2>3 DEF InOrder
<1>6. ASSUME NEW t \in Used..Used+k-1 PROVE data'[(nread + t) % PIPESIZE] = Len(got) + t + 1
  <2> DEFINE u == t - Used
  <2>1. u \in 0..k-1 /\ u < PIPESIZE - WritePos /\ t = Used + u
    BY <1>1
  <2> HIDE DEF u
  <2>2. (nwrite + u) % PIPESIZE = WritePos + u
    BY <2>1, ChunkCells DEF WritePos, StreamTypes
  <2>3. (nread + t) % PIPESIZE = WritePos + u
    BY <2>1, <2>2, WriteCell
  <2>4. WritePos + u \in 0..PIPESIZE-1 /\ WritePos + u \in WritePos..WritePos+k-1
    BY <1>1, <2>1
  <2>5. data'[WritePos + u] = sent + 1 + u
    BY <1>1, <2>1, <2>4 DEF StreamTypes
  <2>6. sent + 1 + u = Len(got) + t + 1
    BY <1>0, <1>1, <2>1
  <2> QED BY <2>3, <2>5, <2>6
<1>7. ASSUME NEW t \in 0..Used'-1 PROVE data'[(nread' + t) % PIPESIZE] = Len(got') + t + 1
  <2>1. t \in 0..Used-1 \/ t \in Used..Used+k-1
    BY <1>1, <1>3
  <2> QED BY <1>5, <1>6, <2>1, Zenon
<1>8. Used' = sent' - Len(got') /\ Used' <= PIPESIZE
  BY <1>1, <1>3 DEF InOrder, StreamTypes
<1> QED BY <1>4, <1>7, <1>8, Zenon DEF InOrder

(* A chunk of piperead takes the oldest bytes. *)
LEMMA ReadChunk ==
  ASSUME StreamTypes, InOrder, NEW k \in Nat, k <= PIPESIZE - ReadPos, k <= Used,
         got' = got \o [j \in 1..k |-> data[ReadPos + j - 1]],
         nread' = Advance(nread, k), UNCHANGED <<data, nwrite, sent>>
  PROVE  StreamTypes' /\ InOrder'
<1> USE PipeAssumption
<1> DEFINE g == [j \in 1..k |-> data[ReadPos + j - 1]]
<1>1. Used \in 0..PIPESIZE /\ ReadPos \in 0..PIPESIZE-1 /\ Len(got) \in Nat /\ nread \in Int
  BY Counters DEF InOrder, StreamTypes, ReadPos
<1>2. nread' \in 0..UINT-1
  BY Advanced DEF StreamTypes
<1>3. Used' = Used - k
  BY UsedRead DEF Used
<1>4. ASSUME NEW j \in 1..k PROVE data[ReadPos + j - 1] = Len(got) + j
  <2>1. j - 1 \in Nat /\ j - 1 < PIPESIZE - ReadPos /\ j - 1 \in 0..Used-1
    BY <1>1
  <2>2. (nread + (j - 1)) % PIPESIZE = ReadPos + (j - 1)
    BY <1>1, <2>1, ChunkCells DEF ReadPos
  <2>3. data[ReadPos + (j - 1)] = Len(got) + (j - 1) + 1
    BY <2>1, <2>2 DEF InOrder
  <2>4. ReadPos + (j - 1) = ReadPos + j - 1 /\ Len(got) + (j - 1) + 1 = Len(got) + j
    BY <1>1
  <2> QED BY <2>3, <2>4
<1>5. g = [j \in 1..k |-> Len(got) + j]
  BY <1>4
<1> HIDE DEF g
<1>6. g \in Seq(Nat) /\ Len(g) = k
  BY <1>1, <1>5
<1>7. got' \in Seq(Nat) /\ Len(got') = Len(got) + k
  BY <1>6 DEF StreamTypes, g
<1>8. got' = [x \in 1..Len(got') |-> x]
  <2>1. ASSUME NEW x \in 1..Len(got') PROVE got'[x] = x
    <3>1. CASE x <= Len(got)
      <4>1. got'[x] = got[x] /\ x \in 1..Len(got)
        BY <1>6, <1>7, <2>1, <3>1 DEF StreamTypes, g
      <4> QED BY <4>1 DEF InOrder
    <3>2. CASE ~(x <= Len(got))
      <4>1. got'[x] = g[x - Len(got)] /\ x - Len(got) \in 1..k
        BY <1>1, <1>6, <1>7, <2>1, <3>2 DEF StreamTypes, g
      <4> QED BY <1>1, <1>5, <2>1, <4>1
    <3> QED BY <3>1, <3>2
  <2>2. got' \in [1..Len(got') -> Nat]
    BY <1>7, LenProperties, Zenon
  <2> QED BY <2>1, <2>2, Zenon
<1>9. ASSUME NEW t \in 0..Used'-1 PROVE data[(nread' + t) % PIPESIZE] = Len(got') + t + 1
  <2>1. t \in Int /\ k + t \in 0..Used-1
    BY <1>1, <1>3
  <2>2. (nread' + t) % PIPESIZE = (nread + (k + t)) % PIPESIZE
    BY <2>1, ReadCell
  <2>3. data[(nread + (k + t)) % PIPESIZE] = Len(got) + (k + t) + 1
    BY <2>1 DEF InOrder
  <2> QED BY <1>1, <1>7, <2>1, <2>2, <2>3
<1>10. StreamTypes'
  BY <1>2, <1>7 DEF StreamTypes
<1>11. Used' = sent' - Len(got') /\ Used' <= PIPESIZE
  BY <1>1, <1>3, <1>7 DEF InOrder, StreamTypes
<1> QED BY <1>8, <1>9, <1>10, <1>11, Zenon DEF InOrder

-----------------------------------------------------------------------------
(* Steps other than those of WriteChunk and ReadChunk keep the stream. *)
LEMMA StreamKept ==
  ASSUME StreamTypes, InOrder, UNCHANGED <<data, nread, nwrite, sent, got>>
  PROVE  StreamTypes' /\ InOrder'
BY DEF StreamTypes, InOrder, Used

(* The size of a chunk is a number of bytes. *)
LEMMA ChunkSize ==
  ASSUME NEW pos \in 0..PIPESIZE-1, NEW a \in Nat, NEW b \in Nat
  PROVE  LET k == Chunk(pos, Min({a, b})) IN k \in Nat /\ k <= PIPESIZE - pos /\ k <= a
<1> DEFINE m == Min({a, b})
           k == Chunk(pos, m)
<1>1. m \in Nat /\ m <= a
  BY MinOfTwo
<1> HIDE DEF m
<1>2. k \in {PIPESIZE - pos, m} /\ k <= PIPESIZE - pos /\ k <= m
  <2>1. pos \in Int /\ m \in Int
    BY <1>1
  <2> QED BY <2>1, ChunkBounds, Zenon
<1> HIDE DEF k
<1>3. k \in Nat /\ k <= PIPESIZE - pos /\ k <= a
  BY <1>1, <1>2, PipeAssumption
<1> QED BY <1>3 DEF m, k

(* One turn of the loop of pipewrite. *)
LEMMA WriteStream ==
  ASSUME PipeTypes, StreamTypes, InOrder, NEW p \in Procs, w_turn(p)
  PROVE  StreamTypes' /\ InOrder'
<1> DEFINE m == Min({PIPESIZE - Used, n[p] - i[p]})
           k == Chunk(WritePos, m)
<1>1. CASE UNCHANGED <<pipe, sent>>
  BY <1>1, StreamKept DEF w_turn, pipe
<1>2. CASE /\ ~(i[p] >= n[p])
           /\ data' = [j \in 0..PIPESIZE-1 |->
                        IF j \in WritePos..WritePos+k-1 THEN sent + 1 + (j - WritePos) ELSE data[j]]
           /\ nwrite' = Advance(nwrite, k) /\ sent' = sent + k /\ UNCHANGED <<nread, got>>
  <2>1. n[p] - i[p] \in Nat
    <3>1. n[p] \in Int /\ i[p] \in Int
      BY DEF PipeTypes
    <3> QED BY <1>2, <3>1
  <2>2. Used \in Nat /\ Used <= PIPESIZE
    BY Counters DEF InOrder
  <2>3. PIPESIZE - Used \in Nat /\ WritePos \in 0..PIPESIZE-1
    BY <2>2, PipeAssumption, DivMod DEF StreamTypes, WritePos
  <2>4. k \in Nat /\ k <= PIPESIZE - WritePos /\ k <= PIPESIZE - Used
    BY <2>1, <2>3, ChunkSize
  <2> HIDE DEF k
  <2> QED BY <1>2, <2>4, WriteChunk
<1> QED BY <1>1, <1>2, Zenon DEF w_turn

(* One turn of the second loop of piperead. *)
LEMMA ReadStream ==
  ASSUME PipeTypes, StreamTypes, InOrder, NEW p \in Procs, r_turn(p)
  PROVE  StreamTypes' /\ InOrder'
<1> DEFINE m == Min({Used, n[p] - i[p]})
           k == Chunk(ReadPos, m)
<1>1. UNCHANGED <<data, nwrite, sent>>
  BY DEF r_turn
<1>2. CASE UNCHANGED <<nread, got>>
  BY <1>1, <1>2, StreamKept
<1>3. CASE ~(i[p] >= n[p]) /\ got' = got \o [j \in 1..k |-> data[ReadPos + j - 1]] /\ nread' = Advance(nread, k)
  <2>1. n[p] - i[p] \in Nat
    <3>1. n[p] \in Int /\ i[p] \in Int
      BY DEF PipeTypes
    <3> QED BY <1>3, <3>1
  <2>2. Used \in Nat /\ ReadPos \in 0..PIPESIZE-1
    BY PipeAssumption, Counters, DivMod DEF StreamTypes, ReadPos
  <2>3. k \in Nat /\ k <= PIPESIZE - ReadPos /\ k <= Used
    BY <2>1, <2>2, ChunkSize
  <2> HIDE DEF k
  <2> QED BY <1>1, <1>3, <2>3, ReadChunk
<1> QED BY <1>2, <1>3, Zenon DEF r_turn

(* Readers receive every byte once and in order, for every PIPESIZE and    *)
(* however often the counters overflow.                                    *)
THEOREM StreamExact == Spec => []InOrder
<1>1. Init => StreamTypes /\ InOrder
  <2> SUFFICES ASSUME Init PROVE StreamTypes /\ InOrder
    OBVIOUS
  <2>1. StreamTypes
    BY PipeAssumption DEF Init, StreamTypes
  <2>2. Used = 0 /\ Len(got) = 0 /\ sent = 0 /\ got = [k \in 1..Len(got) |-> k]
    BY PipeAssumption DEF Init, Used
  <2> QED BY <2>1, <2>2, PipeAssumption DEF InOrder
<1>2. ASSUME PipeInv, StreamTypes, InOrder, [Next]_vars PROVE StreamTypes' /\ InOrder'
  <2>1. PipeTypes
    BY <1>2 DEF PipeInv
  <2>2. ASSUME NEW p \in Procs, pipealloc(p) PROVE StreamTypes' /\ InOrder'
    <3>1. Len(got) = 0 /\ sent = 0 /\ UNCHANGED <<data, sent, got>> /\ nread' = 0 /\ nwrite' = 0
      BY <1>2, <2>2, Counters, LenProperties DEF pipealloc, InOrder, StreamTypes
    <3>2. StreamTypes'
      BY <1>2, <3>1, PipeAssumption DEF StreamTypes
    <3>3. Used' = 0
      BY <3>1, PipeAssumption DEF Used
    <3>4. got' = [k \in 1..Len(got') |-> k]
      BY <1>2, <3>1 DEF InOrder
    <3>5. Used' = sent' - Len(got') /\ Used' <= PIPESIZE /\ 0..Used'-1 = {}
      <4>1. Len(got') = 0 /\ sent' = 0
        BY <3>1
      <4> QED BY <3>3, <4>1, PipeAssumption
    <3> QED BY <3>2, <3>4, <3>5 DEF InOrder
  <2>3. ASSUME NEW p \in Procs, Step(p) PROVE StreamTypes' /\ InOrder'
    BY <1>2, <2>1, <2>3, StreamKept, WriteStream, ReadStream
       DEF Step, acquire, r_test, sleep, pipeclose, pipe
  <2>4. CASE UNCHANGED <<data, nread, nwrite, sent, got>>
    BY <1>2, <2>4, StreamKept
  <2> QED BY <1>2, <2>2, <2>3, <2>4 DEF Next, filedup, fileclose, call, kill, vars, pipe
<1> QED BY <1>1, <1>2, PipeInvariant, PTL DEF Spec

-----------------------------------------------------------------------------
(* The ring buffer. *)
Known ==
  /\ read_done <= write_done /\ write_done <= read_done + BUF_CAPACITY
  /\ rpc # "idle" => r_rd = read_done
  /\ rpc \in {"slice", "finish"} => read_done + rlen <= write_done
  /\ wpc # "idle" => w_rd <= read_done /\ write_done <= w_rd + BUF_CAPACITY
  /\ wpc \in {"slice", "finish"} => write_done + wlen <= w_rd + BUF_CAPACITY

RingInv == TypeOK /\ Known

-----------------------------------------------------------------------------
(* A product of two positive numbers is not smaller than either: the only  *)
(* nonlinear fact that the arithmetic of the ring needs.                   *)
LEMMA ProductLarge ==
  ASSUME NEW len \in Nat, NEW k \in Int, k >= 1
  PROVE  len * k >= len
<1>1. len * k = len + len * (k - 1)
  BY SMT
<1>2. len * (k - 1) >= 0
  BY SMT
<1> QED BY <1>1, <1>2, SMT

(* Remainders are cells of the buffer. *)
LEMMA CellType ==
  ASSUME NEW a \in Nat
  PROVE  a % BUF_CAPACITY \in Cells
BY UringbufAssumption, SMT DEF Cells

(* Two positions less than BUF_CAPACITY apart have different cells: the    *)
(* slices of the two sides are disjoint because their positions are.       *)
LEMMA CellsDiffer ==
  ASSUME NEW a \in Nat, NEW b \in Nat, a < b, b < a + BUF_CAPACITY
  PROVE  a % BUF_CAPACITY # b % BUF_CAPACITY
<1> DEFINE N == BUF_CAPACITY
           x == a \div N
           y == b \div N
<1>1. N \in Nat /\ N > 0
  BY UringbufAssumption
<1>2. x \in Int /\ y \in Int /\ a = (N * x) + (a % N) /\ b = (N * y) + (b % N)
  BY <1>1, SMT
<1>3. SUFFICES ASSUME a % N = b % N PROVE FALSE
  OBVIOUS
<1>4. a % N \in Int
  BY <1>1, SMT
<1> HIDE DEF x, y
<1>5. b - a = N * (y - x)
  BY <1>1, <1>2, <1>3, <1>4, SMT
<1>6. CASE y - x >= 1
  <2>1. N * (y - x) >= N
    BY <1>1, <1>2, <1>6, ProductLarge
  <2> QED BY <2>1, <1>1, <1>5, SMT
<1>7. CASE y - x <= 0
  <2>1. N * (x - y) >= 0
    BY <1>1, <1>2, <1>7, SMT
  <2>2. N * (y - x) = 0 - N * (x - y)
    BY <1>1, <1>2, SMT
  <2> QED BY <2>1, <2>2, <1>1, <1>2, <1>5, SMT
<1> QED BY <1>2, <1>6, <1>7, SMT

-----------------------------------------------------------------------------
(* An empty ring satisfies the invariant. *)
LEMMA RingInitInv == RingInit => RingInv
BY UringbufAssumption, SMT DEF RingInit, RingInv, TypeOK, Known

(* Every load, store and addition preserves it. *)
LEMMA RingStepInv == RingInv /\ [RingNext]_ring_vars => RingInv'
<1> SUFFICES ASSUME RingInv, [RingNext]_ring_vars PROVE RingInv'
  OBVIOUS
<1> USE UringbufAssumption DEF RingInv, TypeOK, Known
<1>1. CASE startRead
  BY <1>1, SMT DEF startRead, writer
<1>2. CASE startRead_slice
  BY <1>2, SMT DEF startRead_slice, writer
<1>3. CASE finishRead
  <2>1. PICK k \in 0..rlen : rlen' = k
    BY <1>3 DEF finishRead
  <2> QED BY <1>3, <2>1, SMT DEF finishRead, writer
<1>4. CASE finishRead_add
  BY <1>4, SMT DEF finishRead_add, writer
<1>5. CASE startWrite
  BY <1>5, SMT DEF startWrite, reader
<1>6. CASE startWrite_slice
  BY <1>6, SMT DEF startWrite_slice, Room, reader
<1>7. CASE finishWrite
  <2>1. PICK k \in 0..wlen : wlen' = k
    BY <1>7 DEF finishWrite
  <2> QED BY <1>7, <2>1, SMT DEF finishWrite, reader
<1>8. CASE finishWrite_add
  BY <1>8, SMT DEF finishWrite_add, reader
<1>9. ASSUME NEW j \in Cells, NEW b \in Byte, store(j, b) PROVE RingInv'
  <2>1. mem' = [mem EXCEPT ![WCell(j)] = b]
    BY <1>9 DEF store
  <2>2. mem' \in [Cells -> Byte]
    BY <2>1, Zenon
  <2> QED BY <1>9, <2>2, SMT DEF store, reader, writer
<1>10. CASE UNCHANGED ring_vars
  BY <1>10, SMT DEF ring_vars, reader, writer
<1> QED
  BY <1>1, <1>2, <1>3, <1>4, <1>5, <1>6, <1>7, <1>8, <1>9, <1>10, Zenon DEF RingNext

(* Every variable keeps its type, the lengths of the slices included. *)
THEOREM TypeCorrect == RingSpec => []TypeOK
<1>1. RingInv => TypeOK
  BY DEF RingInv
<1> QED BY RingInitInv, RingStepInv, <1>1, PTL DEF RingSpec

(* The assertions of finishRead and finishWrite never fail and no length   *)
(* is negative, for every capacity and every interleaving.                 *)
THEOREM AssertionsHold == RingSpec => []AssertsHold
<1>1. RingInv => AssertsHold
  BY UringbufAssumption, SMT DEF RingInv, TypeOK, Known, AssertsHold
<1> QED BY RingInitInv, RingStepInv, <1>1, PTL DEF RingSpec

-----------------------------------------------------------------------------
(* A function on 1..len is a sequence of length len. *)
LEMMA SeqOfLength ==
  ASSUME NEW S, NEW len \in Nat, NEW f \in [1..len -> S]
  PROVE  f \in Seq(S) /\ Len(f) = len
BY SMT

QueueShape ==
  /\ queue \in Seq(Byte)
  /\ Len(queue) = write_done - read_done
  /\ \A j \in 1..write_done - read_done :
       queue[j] = mem[(read_done + j - 1) % BUF_CAPACITY]

(* The queue that the abstract specification sees. *)
LEMMA QueueShapeHolds == RingInv => QueueShape
<1> SUFFICES ASSUME RingInv PROVE QueueShape
  OBVIOUS
<1> USE UringbufAssumption DEF RingInv, TypeOK, Known
<1>1. write_done - read_done \in Nat
  BY SMT
<1>2. ASSUME NEW j \in 1..write_done - read_done
      PROVE  mem[(read_done + j - 1) % BUF_CAPACITY] \in Byte
  <2>1. read_done + j - 1 \in Nat
    BY <1>1, SMT
  <2>2. (read_done + j - 1) % BUF_CAPACITY \in Cells
    BY <2>1, CellType
  <2> QED BY <2>2
<1>3. queue \in [1..write_done - read_done -> Byte]
  BY <1>2, Zenon DEF queue
<1>4. \A j \in 1..write_done - read_done :
        queue[j] = mem[(read_done + j - 1) % BUF_CAPACITY]
  BY Zenon DEF queue
<1>5. queue \in Seq(Byte) /\ Len(queue) = write_done - read_done
  BY <1>1, <1>3, SeqOfLength, Zenon
<1> QED BY <1>4, <1>5, Zenon DEF QueueShape

(* The same in the next state. *)
LEMMA QueueShapeNext == RingInv' => QueueShape'
BY QueueShapeHolds, PTL

(* A store of the writer does not touch a byte that is in the queue. *)
LEMMA StoreOutside ==
  ASSUME RingInv, NEW w \in Cells, NEW b \in Byte, store(w, b),
         NEW j \in 1..write_done - read_done
  PROVE  mem'[(read_done + j - 1) % BUF_CAPACITY] = mem[(read_done + j - 1) % BUF_CAPACITY]
<1> DEFINE p == read_done + j - 1
           r == write_done + w
<1> USE UringbufAssumption DEF RingInv, TypeOK, Known
<1>1. p \in Nat /\ r \in Nat /\ p < r /\ r < p + BUF_CAPACITY
  BY SMT DEF store, Cells
<1>2. p % BUF_CAPACITY \in Cells
  BY <1>1, CellType
<1>3. p % BUF_CAPACITY # r % BUF_CAPACITY
  BY <1>1, CellsDiffer
<1>4. mem' = [mem EXCEPT ![r % BUF_CAPACITY] = b]
  BY DEF store, WCell
<1> HIDE DEF p, r
<1>5. mem'[p % BUF_CAPACITY] = mem[p % BUF_CAPACITY]
  BY <1>2, <1>3, <1>4, Zenon
<1> QED BY <1>5 DEF p

-----------------------------------------------------------------------------
(* The counters of a new book page are an empty queue. *)
LEMMA QueueInit == RingInit => Queue!Init
<1> SUFFICES ASSUME RingInit PROVE Queue!Init
  OBVIOUS
<1>1. write_done - read_done = 0
  BY SMT DEF RingInit
<1>2. queue = [j \in 1..0 |-> mem[(read_done + j - 1) % BUF_CAPACITY]]
  BY <1>1 DEF queue
<1>3. queue = << >>
  BY <1>2, SMT
<1> QED BY <1>3 DEF Queue!Init, shown, RingInit

(* Steps that leave the counters and the queued bytes alone. *)
LEMMA QueueSame ==
  ASSUME RingInv, read_done' = read_done, write_done' = write_done,
         \A j \in 1..write_done - read_done :
           mem'[(read_done + j - 1) % BUF_CAPACITY] = mem[(read_done + j - 1) % BUF_CAPACITY]
  PROVE  queue' = queue
BY DEF queue

(* finishWrite appends to the queue. *)
LEMMA QueueSend ==
  ASSUME RingInv, RingInv', finishWrite_add
  PROVE  Queue!Send
<1>1. QueueShape /\ QueueShape'
  BY QueueShapeHolds, QueueShapeNext
<1>0. /\ read_done \in Nat /\ write_done \in Nat
      /\ Len(queue) = write_done - read_done
      /\ Len(queue') = write_done' - read_done'
  BY <1>1 DEF RingInv, TypeOK, QueueShape
<1>2. read_done' = read_done /\ mem' = mem /\ shown' = shown
  BY DEF finishWrite_add, reader, shown
<1>3. write_done' = write_done + wlen /\ wlen \in Nat
  BY DEF finishWrite_add, RingInv, TypeOK
<1>4. write_done' <= read_done' + BUF_CAPACITY
  BY DEF RingInv, Known
<1>5. Len(queue') >= Len(queue) /\ Len(queue') <= BUF_CAPACITY
  BY <1>0, <1>2, <1>3, <1>4, UringbufAssumption, SMT
<1>6. ASSUME NEW j \in 1..Len(queue)
      PROVE  queue'[j] = queue[j]
  <2>1. j \in 1..write_done - read_done /\ j \in 1..write_done' - read_done'
    BY <1>0, <1>2, <1>3, <1>6, SMT
  <2> QED BY <2>1, <1>1, <1>2 DEF QueueShape
<1> QED BY <1>1, <1>2, <1>5, <1>6 DEF Queue!Send, QueueShape

(* finishRead takes away what the reader has seen. *)
LEMMA QueueReceive ==
  ASSUME RingInv, RingInv', finishRead_add
  PROVE  Queue!Receive
<1>1. QueueShape /\ QueueShape'
  BY QueueShapeHolds, QueueShapeNext
<1>0. /\ read_done \in Nat /\ write_done \in Nat
      /\ Len(queue) = write_done - read_done
      /\ Len(queue') = write_done' - read_done'
  BY <1>1 DEF RingInv, TypeOK, QueueShape
<1>2. write_done' = write_done /\ mem' = mem /\ shown' = 0 /\ shown = rlen
  BY DEF finishRead_add, shown
<1>3. read_done' = read_done + rlen /\ rlen \in Nat /\ read_done + rlen <= write_done
  BY DEF finishRead_add, RingInv, TypeOK, Known
<1>4. Len(queue') <= Len(queue) /\ Len(queue) - Len(queue') = rlen
  BY <1>0, <1>2, <1>3, SMT
<1>5. ASSUME NEW j \in 1..Len(queue')
      PROVE  queue'[j] = queue[j + Len(queue) - Len(queue')]
  <2>1. /\ j \in 1..write_done' - read_done'
        /\ j + rlen \in 1..write_done - read_done
        /\ read_done' + j - 1 = read_done + (j + rlen) - 1
        /\ j + Len(queue) - Len(queue') = j + rlen
    BY <1>0, <1>2, <1>3, <1>4, <1>5, SMT
  <2>2. queue'[j] = mem[(read_done + (j + rlen) - 1) % BUF_CAPACITY]
    BY <2>1, <1>1, <1>2 DEF QueueShape
  <2>3. queue[j + rlen] = mem[(read_done + (j + rlen) - 1) % BUF_CAPACITY]
    BY <2>1, <1>1 DEF QueueShape
  <2> QED BY <2>1, <2>2, <2>3
<1>6. Len(queue) - Len(queue') <= shown
  BY <1>2, <1>3, <1>4, SMT
<1> QED BY <1>1, <1>2, <1>4, <1>5, <1>6 DEF Queue!Receive, QueueShape

(* Arithmetic of a length that fits between two counters. *)
LEMMA Fits ==
  ASSUME NEW a \in Nat, NEW b \in Nat, NEW k \in Nat, a + k <= b
  PROVE  k \in 0..(b - a)
BY SMT

(* The reader is shown no more than the queue holds. *)
LEMMA QueueShow ==
  ASSUME RingInv, RingInv', startRead_slice \/ finishRead
  PROVE  Queue!Show
<1>1. read_done' = read_done /\ write_done' = write_done /\ mem' = mem
  BY DEF startRead_slice, finishRead
<1>2. queue' = queue
  BY <1>1, QueueSame
<1>3. read_done \in Nat /\ write_done \in Nat /\ Len(queue) = write_done - read_done
  BY QueueShapeHolds DEF QueueShape, RingInv, TypeOK
<1>4. shown' = rlen'
  BY DEF startRead_slice, finishRead, shown
<1>5. rlen' \in Nat /\ read_done + rlen' <= write_done
  BY <1>1, Zenon DEF startRead_slice, finishRead, RingInv, TypeOK, Known
<1>6. read_done \in Nat /\ write_done \in Nat
  BY <1>3
<1>7. rlen' \in 0..(write_done - read_done)
  BY <1>5, <1>6, Fits, Zenon
<1>8. shown' \in 0..Len(queue)
  BY <1>3, <1>4, <1>7, Zenon
<1> QED BY <1>2, <1>8 DEF Queue!Show

(* Every step is a step of the queue, or leaves it alone. *)
LEMMA QueueStep == RingInv /\ RingInv' /\ [RingNext]_ring_vars => [Queue!Next]_<<queue, shown>>
<1> SUFFICES ASSUME RingInv, RingInv', [RingNext]_ring_vars PROVE [Queue!Next]_<<queue, shown>>
  OBVIOUS
<1>1. CASE startRead \/ startWrite \/ startWrite_slice \/ finishWrite \/ UNCHANGED ring_vars
  <2>1. read_done' = read_done /\ write_done' = write_done /\ mem' = mem /\ shown' = shown
    BY <1>1 DEF startRead, startWrite, startWrite_slice, finishWrite, ring_vars, reader, shown
  <2> QED BY <2>1, QueueSame
<1>2. CASE startRead_slice \/ finishRead
  BY <1>2, QueueShow DEF Queue!Next
<1>3. CASE finishRead_add
  BY <1>3, QueueReceive DEF Queue!Next
<1>4. CASE finishWrite_add
  BY <1>4, QueueSend DEF Queue!Next
<1>5. ASSUME NEW w \in Cells, NEW b \in Byte, store(w, b)
      PROVE  UNCHANGED <<queue, shown>>
  <2>1. read_done' = read_done /\ write_done' = write_done /\ shown' = shown
    BY <1>5 DEF store, reader, shown
  <2>2. queue' = queue
    BY <1>5, <2>1, StoreOutside, QueueSame
  <2> QED BY <2>1, <2>2
<1> QED BY <1>1, <1>2, <1>3, <1>4, <1>5 DEF RingNext

(* The ring implements a bounded queue of bytes, for every capacity and    *)
(* every interleaving of the two processes.                                *)
THEOREM RingIsQueue == RingSpec => QueueSpec
<1>1. RingSpec => []RingInv
  BY RingInitInv, RingStepInv, PTL DEF RingSpec
<1> QED
  BY <1>1, QueueInit, QueueStep, PTL DEF RingSpec, QueueSpec, Queue!Spec

-----------------------------------------------------------------------------
(* While the reader has a slice, only a store could change the memory, and *)
(* the slice is part of the queue.                                         *)
LEMMA StepStable ==
  ASSUME RingInv, [RingNext]_ring_vars, rpc = "slice", NEW a \in ReadSlice
  PROVE  mem'[a] = mem[a]
<1>1. PICK k \in 0..rlen-1 : a = (r_rd + k) % BUF_CAPACITY
  BY DEF ReadSlice
<1> DEFINE j == k + 1
<1>2. /\ j \in 1..write_done - read_done
      /\ read_done + j - 1 = r_rd + k
  BY SMT DEF RingInv, TypeOK, Known
<1> HIDE DEF j
<1>3. a = (read_done + j - 1) % BUF_CAPACITY
  BY <1>1, <1>2
<1>4. ASSUME NEW w \in Cells, NEW b \in Byte, store(w, b)
      PROVE  mem'[a] = mem[a]
  BY <1>2, <1>3, <1>4, StoreOutside
<1>5. CASE ~ \E w \in Cells, b \in Byte : store(w, b)
  <2>1. mem' = mem
    BY <1>5 DEF RingNext, ring_vars, startRead, startRead_slice, finishRead, finishRead_add,
       startWrite, startWrite_slice, finishWrite, finishWrite_add
  <2> QED BY <2>1
<1> QED BY <1>4, <1>5

(* The bytes that startRead returns do not change before finishRead. *)
THEOREM SliceIsStable == RingSpec => SliceStable
<1>1. RingInv /\ [RingNext]_ring_vars => [rpc = "slice" /\ rpc' = "slice" =>
                               \A a \in ReadSlice : mem'[a] = mem[a]]_ring_vars
  BY StepStable
<1>2. RingSpec => []RingInv
  BY RingInitInv, RingStepInv, PTL DEF RingSpec
<1> QED BY <1>1, <1>2, PTL DEF RingSpec, SliceStable
=============================================================================
