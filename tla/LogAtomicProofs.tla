--------------------------- MODULE LogAtomicProofs ---------------------------
(***************************************************************************)
(* The end of a commit, the start of recovery, the buffer cache and a      *)
(* crash preserve the invariant of Log; hence it holds, and the            *)
(* reservation made by begin_op is enough.  What survives a crash is a     *)
(* whole number of groups of operations: the commit point, durability, and *)
(* the refinement of AtomicDisk.                                           *)
(***************************************************************************)
EXTENDS LogProofs

-----------------------------------------------------------------------------
(* Clearing the header, in memory and on disk. *)
LEMMA EraseInv == ASSUME IInv, erase PROVE IInv'
<1> USE DEF IInv, LogInvariant
<1>1. /\ phase \in {"erase", "recover_erase"} /\ (committing = 1 \/ Recovering)
      /\ phase = "erase" <=> committing = 1
      /\ tail = Len(lh) /\ Len(lh) \in Nat
  BY DEF erase, Bookkeeping, Recovering, LogShape, TypeOK
<1>2. /\ UNCHANGED <<home, logblk, cache, pins, outstanding, committing, pc, held,
                     touched, tail, panicked, crashes>>
      /\ lh' = <<>> /\ head' = <<>>
      /\ phase' = IF phase = "erase" THEN "committed" ELSE "idle"
  BY DEF erase, procs, bcache
<1>3. \A q \in Procs : held[q] = {} /\ touched[q] = {}
  BY <1>1, Quiet
<1>4. TypeOK'
  BY <1>2 DEF TypeOK, Phases
<1>5. ~Recovering' /\ phase' \in {"committed", "idle"}
  BY <1>2 DEF Recovering
<1>6. Bookkeeping' /\ Cardinality(Reserved') = 0
  <2>1. committing = 1 <=> phase' \in {"write_log", "write_head", "install", "erase",
                                      "committed"}
    BY <1>1, <1>2
  <2> QED BY <1>1, <1>2, <1>5, <2>1, QuietStep
<1>7. LogShape'
  <2>1. Len(lh') = 0 /\ Len(head') = 0
    BY <1>2
  <2> QED BY <1>2, <1>3, <1>5, <1>6, <2>1, LogAssumption DEF LogShape, Injective
<1>8. Pinned = {} /\ Pinned' = {}
  BY SMTT(40), <1>1, <1>2 DEF Pinned, Recovering
<1>9. PinsExact' /\ CacheCoherent'
  BY <1>2, <1>8 DEF PinsExact, CacheCoherent, bread
<1>10. CommitProgress'
  BY <1>2 DEF CommitProgress
<1> QED BY <1>4, <1>6, <1>7, <1>9, <1>10

(* The committer lets operations in again. *)
LEMMA EndCommitInv == ASSUME IInv, NEW p \in Procs, end_commit(p) PROVE IInv'
<1> USE DEF IInv, LogInvariant
<1>1. phase = "committed" /\ committing = 1 /\ pc[p] = "commit" /\ ~Recovering
  BY DEF end_commit, Bookkeeping, Recovering
<1>2. /\ UNCHANGED <<home, head, logblk, cache, pins, lh, outstanding, held, touched,
                     tail, panicked, crashes>>
      /\ committing' = 0 /\ phase' = "idle"
      /\ pc' = wakeup_log([pc EXCEPT ![p] = "idle"])
  BY DEF end_commit, disk, bcache
<1>3. /\ pc' \in [Procs -> {"idle", "begin", "sleep", "op", "write", "commit"}]
      /\ pc'[p] = "idle"
      /\ \A q \in Procs \ {p} :
           \/ pc'[q] = pc[q]
           \/ pc[q] = "sleep" /\ pc'[q] = "begin"
  BY <1>2 DEF TypeOK, wakeup_log
<1>4. TypeOK'
  BY ZenonT(40), <1>2, <1>3 DEF TypeOK, Phases
<1>5. /\ InOp' = {} /\ InOp = {} /\ Reserved' = {} /\ Cardinality(Reserved') = 0
      /\ \A q \in Procs : held[q] = {} /\ touched[q] = {}
  <2>1. InOp = {} /\ \A q \in Procs : held[q] = {} /\ touched[q] = {}
    BY <1>1, Quiet
  <2>2. InOp' = {}
    BY <1>3, <2>1 DEF InOp
  <2> QED BY <2>1, <2>2, FS_EmptySet DEF Reserved
<1>6. Bookkeeping'
  <2>1. \A q \in Procs : pc'[q] # "commit" /\ pc'[q] # "write"
    BY SMTT(40), <1>1, <1>3, <1>5 DEF Bookkeeping, InOp
  <2>2. Cardinality({}) = 0 /\ outstanding = 0 /\ ~Recovering'
    BY ZenonT(40), <1>2, <1>5, FS_EmptySet DEF Bookkeeping, Recovering
  <2>3. \A q \in Procs : held'[q] = {} /\ touched'[q] = {}
    BY ZenonT(40), <1>2, <1>5
  <2>4. outstanding' = Cardinality(InOp')
    BY <1>2, <1>5, <2>2
  <2>5. \A q \in Procs : Cardinality(touched'[q]) <= OPBLOCKS
    BY <2>2, <2>3, LogAssumption
  <2>6. \A q, r \in Procs : held'[q] \cap held'[r] = {}
    BY <2>3
  <2>7. committing' # 1 /\ phase' \notin {"write_log", "write_head", "install", "erase",
                                         "committed"}
    BY <1>2
  <2> HIDE DEF IInv, LogInvariant
  <2> QED BY SMTT(40), <2>1, <2>2, <2>3, <2>4, <2>5, <2>6, <2>7 DEF Bookkeeping
<1>7. LogShape'
  BY SMTT(40), <1>1, <1>2, <1>5, LogAssumption DEF LogShape, Injective, Logged, TypeOK
<1>8. Pinned' = Pinned
  BY SMTT(40), <1>1, <1>2 DEF Pinned, Recovering
<1>9. PinsExact' /\ CacheCoherent' /\ CommitProgress'
  BY ZenonT(40), <1>2, <1>8 DEF PinsExact, CacheCoherent, bread, CommitProgress
<1> QED BY <1>4, <1>6, <1>7, <1>9

(* Recovery starts from the header found on disk. *)
LEMMA ReadHeadInv == ASSUME IInv, read_head PROVE IInv'
<1> USE DEF IInv, LogInvariant
<1>1. phase = "read_head" /\ Recovering /\ committing = 0
  BY DEF read_head, Recovering, Bookkeeping, TypeOK
<1>2. /\ UNCHANGED <<home, head, logblk, cache, pins, outstanding, committing, pc, held,
                     touched, panicked, crashes>>
      /\ lh' = head /\ tail' = 0
      /\ phase' = IF head = <<>> THEN "recover_erase" ELSE "recover"
  BY DEF read_head, disk, bcache, procs
<1>3. Recovering' /\ phase' \in {"recover", "recover_erase"}
  BY <1>2 DEF Recovering
<1>4. TypeOK'
  BY <1>2, LogAssumption DEF TypeOK, Phases
<1>5. Bookkeeping' /\ Cardinality(Reserved') = 0
  BY <1>1, <1>2, <1>3, QuietStep
<1>6. \A q \in Procs : touched[q] = {}
  BY SMTT(40), <1>1, Quiet
<1>7. LogShape'
  <2>1. Len(head) \in Nat /\ (head = <<>> <=> Len(head) = 0)
    BY DEF TypeOK
  <2> QED BY <1>2, <1>3, <1>5, <1>6, <2>1, LogAssumption DEF LogShape, Injective
<1>8. Pinned' = {} /\ Pinned = {}
  BY <1>1, <1>3 DEF Pinned
<1>9. PinsExact' /\ CacheCoherent'
  BY <1>2, <1>8 DEF PinsExact, CacheCoherent, bread
<1>10. CommitProgress'
  BY <1>2, <1>3 DEF CommitProgress
<1> QED BY <1>4, <1>5, <1>7, <1>9, <1>10

(* bget recycles only buffers that are neither pinned nor held.            *)
LEMMA EvictInv == ASSUME IInv, NEW b \in Blocks, evict(b) PROVE IInv'
<1> USE DEF IInv, LogInvariant
<1>1. /\ UNCHANGED <<home, head, logblk, pins, lh, outstanding, committing, pc, held,
                     touched, phase, tail, panicked, crashes>>
      /\ cache' = [cache EXCEPT ![b] = NoData]
      /\ pins[b] = 0 /\ \A q \in Procs : b \notin held[q]
  BY DEF evict, disk, log, procs
<1>2. TypeOK'
  BY <1>1 DEF TypeOK
<1>3. InOp' = InOp /\ Reserved' = Reserved /\ Pinned' = Pinned /\ Logged' = Logged
  BY <1>1 DEF InOp, Reserved, Pinned, Recovering, Logged
<1>4. Bookkeeping' /\ LogShape' /\ PinsExact'
  <2>1. Bookkeeping'
    BY ZenonT(40), <1>1, <1>3 DEF Bookkeeping, Recovering
  <2>2. LogShape'
    BY <1>1, <1>3 DEF LogShape, Injective
  <2> QED BY SMTT(40), <1>1, <1>3, <2>1, <2>2 DEF PinsExact
<1>5. b \notin Pinned
  BY <1>1 DEF PinsExact
<1>6. \A c \in Blocks : c # b => cache'[c] = cache[c]
  BY SMTT(40), <1>1 DEF TypeOK
<1>7. CacheCoherent'
  <2> SUFFICES ASSUME NEW c \in Blocks
               PROVE  IF c \in Pinned \/ \E q \in Procs : c \in held[q]
                      THEN cache'[c] # NoData ELSE bread(c)' = home[c]
    BY <1>1, <1>3 DEF CacheCoherent
  <2>1. CASE c = b
    BY <1>1, <1>5, <2>1 DEF TypeOK, bread
  <2>2. CASE c # b
    BY <1>1, <1>6, <2>2 DEF CacheCoherent, bread
  <2> QED BY <2>1, <2>2
<1>8. CommitProgress'
  <2> SUFFICES ASSUME NEW i \in 1..Len(lh),
                      \/ phase \in {"write_log", "write_head"}
                      \/ phase = "install" /\ i > tail
               PROVE  cache'[lh[i]] = cache[lh[i]]
    BY <1>1 DEF CommitProgress
  <2>1. lh[i] \in Pinned
    <3>1. tail \in Nat /\ Len(lh) \in Nat
      BY DEF TypeOK
    <3> QED BY <3>1 DEF Pinned, Recovering
  <2>2. lh[i] \in Blocks
    BY DEF TypeOK
  <2> QED BY SMTT(40), <1>5, <1>6, <2>1, <2>2
<1> QED BY SMTT(40), <1>2, <1>4, <1>7, <1>8

(* A power failure leaves the disk, from which recovery starts.            *)
LEMMA CrashInv == ASSUME IInv, crash PROVE IInv'
<1>0. TypeOK /\ Len(head) <= LOGSIZE /\ Injective(head)
  BY DEF IInv, LogInvariant, LogShape
<1>1. /\ UNCHANGED <<home, head, logblk, panicked>>
      /\ cache' = [b \in Blocks |-> NoData] /\ pins' = [b \in Blocks |-> 0]
      /\ lh' = <<>> /\ outstanding' = 0 /\ committing' = 0 /\ tail' = 0
      /\ pc' = [p \in Procs |-> "idle"]
      /\ held' = [p \in Procs |-> {}] /\ touched' = [p \in Procs |-> {}]
      /\ phase' = "read_head"
  BY DEF crash, disk
<1>2. crashes' \in 0..MaxCrashes
  BY <1>0, LogAssumption DEF crash, TypeOK
<1>3. TypeOK'
  BY <1>0, <1>1, <1>2, LogAssumption DEF TypeOK, Phases
<1>4. /\ InOp' = {} /\ Reserved' = {} /\ Recovering' /\ Pinned' = {}
      /\ Cardinality({}) = 0
  BY <1>1, FS_EmptySet DEF InOp, Reserved, Recovering, Pinned
<1>5. Bookkeeping'
  BY <1>1, <1>4, LogAssumption DEF Bookkeeping
<1>6. LogShape'
  BY <1>0, <1>1, <1>4, LogAssumption DEF LogShape, Injective, Logged
<1>7. PinsExact' /\ CacheCoherent' /\ CommitProgress'
  BY <1>1, <1>4 DEF PinsExact, CacheCoherent, CommitProgress, bread
<1> QED BY <1>3, <1>5, <1>6, <1>7 DEF IInv, LogInvariant

(* A step that changes no variable. *)
LEMMA StutterInv == ASSUME IInv, UNCHANGED vars PROVE IInv'
<1>1. UNCHANGED <<home, head, logblk, cache, pins, lh, outstanding, committing, pc, held,
                  touched, phase, tail, panicked, crashes>>
  BY DEF vars, disk, bcache, log, procs
<1>2. TypeOK'
  BY <1>1 DEF IInv, TypeOK
<1>3. InOp' = InOp /\ Reserved' = Reserved /\ Pinned' = Pinned /\ Logged' = Logged
  BY <1>1 DEF InOp, Reserved, Pinned, Recovering, Logged
<1>4. Bookkeeping' /\ LogShape' /\ PinsExact'
  <2>1. Bookkeeping'
    BY SMTT(40), <1>1, <1>3 DEF IInv, LogInvariant, Bookkeeping, Recovering
  <2>2. LogShape'
    BY SMTT(40), <1>1, <1>3 DEF IInv, LogInvariant, LogShape, Injective
  <2> QED BY SMTT(40), <1>1, <1>3, <2>1, <2>2 DEF IInv, LogInvariant, PinsExact
<1>5. CacheCoherent' /\ CommitProgress'
  BY <1>1, <1>3 DEF IInv, LogInvariant, CacheCoherent, CommitProgress, bread
<1> QED BY <1>2, <1>4, <1>5 DEF IInv, LogInvariant

(* Every step of the code preserves the invariant. *)
LEMMA StepInv == IInv /\ [Next]_vars => IInv'
<1> SUFFICES ASSUME IInv, [Next]_vars PROVE IInv'
  OBVIOUS
<1>1. ASSUME NEW p \in Procs, Op(p) PROVE IInv'
  BY <1>1, BeginInv, ModifyInv, LogWriteInv, EndInv, EndCommitInv DEF Op
<1>2. CASE Commit
  BY <1>2, WriteLogInv, WriteHeadInv, InstallInv, EraseInv, ReadHeadInv DEF Commit
<1> QED BY <1>1, <1>2, EvictInv, CrashInv, StutterInv DEF Next

-----------------------------------------------------------------------------
(* Every variable of the log keeps its type: counters never go below zero  *)
(* and the loop counters of write_log and install_trans stay in the log.   *)
THEOREM TypeCorrect == Spec => []TypeOK
<1>1. IInv => TypeOK
  BY DEF IInv
<1> QED BY <1>1, InitInv, StepInv, PTL DEF Spec

(* The bookkeeping of struct log, the shape of the log, the pins, the      *)
(* cache and the progress of commit and recovery agree with each other in  *)
(* every reachable state.                                                  *)
THEOREM LogInvariantHolds == Spec => []LogInvariant
<1>1. IInv => LogInvariant
  BY DEF IInv
<1> QED BY <1>1, InitInv, StepInv, PTL DEF Spec

-----------------------------------------------------------------------------
(* The operations are small enough, and the log large enough, for the test *)
(* of log_write: it is made before absorption, so it needs a free slot     *)
(* beyond the blocks the operation writes, and it compares with the size   *)
(* of the on-disk log, one block of which is the header.                   *)
OpsFit == OPBLOCKS < MAXOPBLOCKS /\ LOGSIZE - (MAXOPBLOCKS - OPBLOCKS) < NLOG - 1

(* An operation keeps the part of its reservation it will not use, so the  *)
(* log is never full while it runs.                                        *)
LEMMA SlackLeft ==
  ASSUME IInv, OpsFit, NEW p \in InOp
  PROVE  Len(lh) + (MAXOPBLOCKS - OPBLOCKS) <= LOGSIZE
<1> DEFINE Slack == {p} \X (OPBLOCKS + 1 .. MAXOPBLOCKS)
<1>1. /\ p \in Procs /\ Cardinality(touched[p]) <= OPBLOCKS
      /\ Cardinality(touched[p]) \in Nat
  BY BlocksFinite DEF InOp, IInv, LogInvariant, Bookkeeping, TypeOK
<1>2. Slack \subseteq Reserved
  <2> SUFFICES ASSUME NEW j \in OPBLOCKS + 1 .. MAXOPBLOCKS
               PROVE  <<p, j>> \in Reserved
    OBVIOUS
  <2>1. j \in 1..MAXOPBLOCKS /\ j > Cardinality(touched[p])
    BY <1>1, LogAssumption
  <2> QED BY <2>1 DEF Reserved
<1>3. Cardinality(Slack) = MAXOPBLOCKS - OPBLOCKS
  <2>1. /\ IsFiniteSet(OPBLOCKS + 1 .. MAXOPBLOCKS)
        /\ Cardinality(OPBLOCKS + 1 .. MAXOPBLOCKS) = MAXOPBLOCKS - OPBLOCKS
    BY FS_Interval, LogAssumption DEF OpsFit
  <2>2. IsFiniteSet({p}) /\ Cardinality({p}) = 1
    BY ZenonT(40), FS_Singleton
  <2>3. Cardinality(Slack) = Cardinality({p}) * Cardinality(OPBLOCKS + 1 .. MAXOPBLOCKS)
    BY ZenonT(40), <2>1, <2>2, FS_Product
  <2> QED BY <2>1, <2>2, <2>3, LogAssumption
<1>4. Cardinality(Slack) <= Cardinality(Reserved) /\ Cardinality(Reserved) \in Nat
  BY <1>2, ReservedBound, FS_Subset
<1> QED BY SMTT(40), <1>3, <1>4, LogAssumption DEF IInv, LogInvariant, LogShape, TypeOK

(* No step meets a panic when the operations fit. *)
LEMMA StepNoPanic == OpsFit /\ IInv /\ NoPanic /\ [Next]_vars => NoPanic'
<1> SUFFICES ASSUME OpsFit, IInv, NoPanic, [Next]_vars PROVE NoPanic'
  OBVIOUS
<1> USE DEF NoPanic
<1>1. ASSUME NEW p \in Procs, log_write(p) PROVE NoPanic'
  <2>1. p \in InOp /\ outstanding >= 1
    <3>1. p \in InOp
      BY <1>1 DEF log_write, InOp
    <3> QED BY <3>1, InOpFinite DEF IInv, LogInvariant, Bookkeeping
  <2>2. Len(lh) \in Nat /\ Len(lh) + (MAXOPBLOCKS - OPBLOCKS) <= LOGSIZE
    BY <2>1, SlackLeft DEF IInv, TypeOK
  <2>3. ~TooBig
    BY <2>2, LogAssumption DEF TooBig, OpsFit
  <2>4. log_write_check = NoPanicYet
    BY <2>1, <2>3, LogAssumption DEF log_write_check, IInv, TypeOK
  <2> QED BY SMTT(40), <1>1, <2>4 DEF log_write
<1>2. ASSUME NEW p \in Procs, end_op(p) PROVE NoPanic'
  <2>1. p \in InOp
    BY <1>2 DEF end_op, InOp
  <2>2. committing # 1
    BY SMTT(40), <2>1 DEF IInv, LogInvariant, Bookkeeping
  <2> QED BY <1>2, <2>2 DEF end_op
<1>3. ASSUME NEW p \in Procs, Op(p) PROVE NoPanic'
  BY ZenonT(40), <1>1, <1>2, <1>3 DEF Op, begin_op, modify, end_commit
<1>4. CASE Commit
  BY <1>4 DEF Commit, write_log, write_head, install_trans, erase, read_head
<1> QED BY <1>3, <1>4 DEF Next, evict, crash, vars

(* The reservations made by begin_op suffice: if operations write fewer    *)
(* than MAXOPBLOCKS blocks and the on-disk log has room for what they      *)
(* leave free, none of the panics of log_write and end_op is reachable.    *)
THEOREM ReservationSuffices == OpsFit => (Spec => []NoPanic)
<1>1. Init => NoPanic
  BY DEF Init, NoPanic
<1> SUFFICES ASSUME OpsFit PROVE Spec => []NoPanic
  OBVIOUS
<1>2. IInv /\ NoPanic /\ [Next]_vars => (IInv /\ NoPanic)'
  BY StepInv, StepNoPanic
<1> QED BY <1>1, <1>2, InitInv, PTL DEF Spec

-----------------------------------------------------------------------------
(* What recovery restores, and how the log implements AtomicDisk.          *)

(* Recovery writes the i-th log block over the i-th block of the header    *)
(* and leaves every other block alone.                                     *)
LEMMA RecoveredAt ==
  ASSUME IInv
  PROVE  /\ \A i \in 1..Len(head) : Recovered[head[i]] = logblk[i]
         /\ \A b \in Blocks : (\A i \in 1..Len(head) : head[i] # b)
                              => Recovered[b] = home[b]
         /\ head = <<>> => Recovered = home
<1>1. ASSUME NEW i \in 1..Len(head) PROVE Recovered[head[i]] = logblk[i]
  <2>1. head[i] \in Blocks /\ Len(head) \in Nat
    BY DEF IInv, TypeOK
  <2>2. \A j \in 1..Len(head) : head[j] = head[i] => j = i
    BY DEF IInv, LogInvariant, LogShape, Injective
  <2>3. \A j \in i+1..Len(head) : head[j] # head[i]
    BY <2>1, <2>2
  <2>4. LastIn(head[i]) = i
    BY <2>2, <2>3 DEF LastIn
  <2> QED BY <2>1, <2>4 DEF Recovered
<1>2. ASSUME NEW b \in Blocks, \A i \in 1..Len(head) : head[i] # b
      PROVE  Recovered[b] = home[b]
  BY <1>2 DEF Recovered
<1>3. ASSUME head = <<>> PROVE Recovered = home
  <2>1. 1..Len(head) = {}
    BY <1>3
  <2> QED BY ZenonT(40), <2>1 DEF Recovered, IInv, TypeOK
<1> QED BY <1>1, <1>2, <1>3

(* Recovered is a function on Blocks; two such are equal pointwise.        *)
LEMMA RecoveredFcn ==
  Recovered = [b \in Blocks |-> Recovered[b]]
BY DEF Recovered

(* Only write_head changes what a recovery would restore.                  *)
LEMMA RecoveredStep ==
  ASSUME IInv, [Next]_vars, ~write_head PROVE Recovered' = Recovered
<1>0. IInv'
  BY StepInv
<1>1. CASE UNCHANGED <<home, head, logblk>>
  BY <1>1 DEF Recovered, LastIn
<1>2. CASE write_log
  <2>1. head = <<>> /\ head' = <<>> /\ home' = home
    BY <1>2 DEF write_log, IInv, LogInvariant, LogShape
  <2>2. Recovered = home
    BY <2>1, RecoveredAt
  <2>3. (IInv => (head = <<>> => Recovered = home))'
    BY RecoveredAt, PTL
  <2> QED BY SMTT(40), <1>0, <2>1, <2>2, <2>3
<1>3. CASE install_trans
  <2>1. head' = head /\ logblk' = logblk /\ lh = head
    BY <1>3 DEF install_trans, IInv, LogInvariant, LogShape
  <2>2. /\ tail + 1 \in 1..Len(head)
        /\ home' = [home EXCEPT ![head[tail + 1]] = logblk[tail + 1]]
    BY <1>3, <2>1 DEF install_trans, IInv, LogInvariant, LogShape, TypeOK
  <2>3. \A b \in Blocks : (\A i \in 1..Len(head) : head[i] # b) => home'[b] = home[b]
    BY <2>2 DEF IInv, TypeOK
  <2>4. \A b \in Blocks : LastIn(b)' = LastIn(b)
    BY <2>1 DEF LastIn
  <2> QED BY SMTT(40), <2>1, <2>3, <2>4 DEF Recovered
<1>4. CASE erase
  <2>1. head = lh /\ tail = Len(lh) /\ head' = <<>> /\ home' = home
    BY <1>4 DEF erase, IInv, LogInvariant, LogShape
  <2>2. \A i \in 1..Len(head) : home[head[i]] = logblk[i]
    BY <1>4, <2>1 DEF erase, IInv, LogInvariant, CommitProgress, TypeOK
  <2>3. \A b \in Blocks : Recovered[b] = home[b]
    BY <2>2, RecoveredAt
  <2>4. Recovered = home
    BY SMTT(40), <2>3, RecoveredFcn DEF IInv, TypeOK
  <2>5. (IInv => (head = <<>> => Recovered = home))'
    BY RecoveredAt, PTL
  <2> QED BY SMTT(40), <1>0, <2>1, <2>4, <2>5
<1>5. ASSUME NEW p \in Procs, Op(p) PROVE UNCHANGED <<home, head, logblk>>
  BY ZenonT(40), <1>5 DEF Op, begin_op, modify, log_write, end_op, end_commit, disk
<1>6. CASE read_head \/ crash \/ UNCHANGED vars \/ \E b \in Blocks : evict(b)
  BY <1>1, <1>6 DEF read_head, crash, evict, vars, disk
<1> QED BY <1>1, <1>2, <1>3, <1>4, <1>5, <1>6 DEF Next, Commit

(* The write of the header by commit() is the only step that changes what  *)
(* survives a crash, and no operation is running when it happens.          *)
THEOREM CommitPointHolds == Spec => CommitPoint
<1>1. IInv /\ [Next]_vars => [Recovered' # Recovered => write_head /\ InOp = {}]_vars
  <2> SUFFICES ASSUME IInv, [Next]_vars, Recovered' # Recovered
               PROVE  write_head /\ InOp = {}
    OBVIOUS
  <2>1. write_head
    BY SMTT(40), RecoveredStep
  <2>2. committing = 1
    BY ZenonT(40), <2>1 DEF write_head, IInv, LogInvariant, Bookkeeping
  <2> QED BY <2>1, <2>2, Quiet
<1> QED BY <1>1, InitInv, StepInv, PTL DEF Spec, CommitPoint

-----------------------------------------------------------------------------
(* Outside operations and commits the log is empty. *)
IdleEmpty == phase = "idle" /\ outstanding = 0 => lh = <<>>

(* The log is emptied before the last operation's end_op returns. *)
LEMMA StepIdleEmpty == IInv /\ IdleEmpty /\ [Next]_vars => IdleEmpty'
<1> SUFFICES ASSUME IInv, IdleEmpty, [Next]_vars, phase' = "idle", outstanding' = 0
             PROVE  lh' = <<>>
  BY DEF IdleEmpty
<1> USE DEF IInv, LogInvariant
<1>1. ASSUME NEW p \in Procs, begin_op(p) PROVE lh' = <<>>
  BY SMTT(40), <1>1 DEF begin_op, IdleEmpty, TypeOK
<1>2. ASSUME NEW p \in Procs, log_write(p) PROVE lh' = <<>>
  <2>1. p \in InOp /\ outstanding' = outstanding
    BY <1>2 DEF log_write, InOp
  <2> QED BY <2>1, InOpFinite DEF Bookkeeping
<1>3. ASSUME NEW p \in Procs, end_op(p) PROVE lh' = <<>>
  <2>1. p \in InOp
    BY SMTT(40), <1>3 DEF end_op, InOp
  <2>2. committing # 1 /\ outstanding = 1
    BY SMTT(40), <1>3, <2>1 DEF end_op, Bookkeeping, TypeOK
  <2> QED BY <1>3, <2>2 DEF end_op, CommitStart
<1>4. ASSUME NEW p \in Procs, end_commit(p) PROVE lh' = <<>>
  BY <1>4 DEF end_commit, LogShape
<1>5. ASSUME NEW p \in Procs, NEW b \in Blocks, NEW v \in Val, modify(p, b, v)
      PROVE  lh' = <<>>
  BY <1>5 DEF modify, log, IdleEmpty
<1>6. CASE Commit
  BY SMTT(40), <1>6 DEF Commit, write_log, write_head, install_trans, erase, read_head
<1>7. CASE crash \/ UNCHANGED vars \/ \E b \in Blocks : evict(b)
  BY ZenonT(40), <1>7 DEF crash, evict, vars, log, IdleEmpty
<1> QED BY <1>1, <1>2, <1>3, <1>4, <1>5, <1>6, <1>7 DEF Next, Op

(* With an empty log, cache and disk agree. *)
LEMMA IdleDurable == IInv /\ IdleEmpty => DurableWhenIdle
<1> SUFFICES ASSUME IInv, IdleEmpty, phase = "idle", outstanding = 0
             PROVE  Recovered = [b \in Blocks |-> bread(b)]
  BY SMTT(40) DEF DurableWhenIdle
<1>1. InOp = {}
  BY SMTT(40), InOpFinite DEF IInv, LogInvariant, Bookkeeping
<1>2. Pinned = {} /\ head = <<>>
  BY DEF IdleEmpty, Pinned, Recovering, IInv, LogInvariant, LogShape
<1>3. \A q \in Procs : held[q] = {}
  BY <1>1 DEF InOp, IInv, LogInvariant, Bookkeeping
<1>4. \A b \in Blocks : bread(b) = home[b]
  BY <1>2, <1>3 DEF IInv, LogInvariant, CacheCoherent
<1> QED BY <1>2, <1>4, RecoveredAt DEF IInv, TypeOK

(* When no operation and no commit runs, everything the operations wrote   *)
(* would be restored after a crash: end_op of the last one returned only   *)
(* after its group had reached the disk.                                   *)
THEOREM IdleMeansDurable == Spec => []DurableWhenIdle
<1>1. Init => IdleEmpty
  BY DEF Init, IdleEmpty
<1> QED BY <1>1, InitInv, StepInv, StepIdleEmpty, IdleDurable, PTL DEF Spec

-----------------------------------------------------------------------------
(* The refinement mapping, action by action. *)

(* The state left by mkfs maps to the initial state of AtomicDisk. *)
LEMMA AtomicInit == Init => Atomic!Init
<1> SUFFICES ASSUME Init PROVE Atomic!Init
  OBVIOUS
<1>1. Recovered = home
  BY InitInv, RecoveredAt DEF Init
<1> QED BY <1>1 DEF Init, Atomic!Init, View, Recovering, InOp

(* A step that touches neither the contents nor the set of operations.     *)
LEMMA ViewSame ==
  ASSUME Recovering' <=> Recovering, Recovered' = Recovered,
         \A b \in Blocks : bread(b)' = bread(b)
  PROVE  View' = View
BY DEF View

(* Steps of FS system calls map to Begin, Write, End or a stutter. *)
LEMMA AtomicOp ==
  ASSUME IInv, [Next]_vars, NEW p \in Procs, Op(p)
  PROVE  Atomic!Next \/ UNCHANGED Atomic!vars
<1> USE DEF IInv, LogInvariant
<1>0. ~write_head => Recovered' = Recovered
  BY RecoveredStep
<1>1. CASE begin_op(p)
  <2>1. UNCHANGED <<home, head, logblk, cache, phase>>
    BY SMTT(40), <1>1 DEF begin_op, disk, bcache
  <2>2. Recovered' = Recovered /\ View' = View
    <3>1. Recovered' = Recovered
      BY <2>1 DEF Recovered, LastIn
    <3> QED BY <3>1, <2>1 DEF View, Recovering, bread
  <2>3. InOp' = InOp \/ (p \notin InOp /\ InOp' = InOp \cup {p})
    BY <1>1 DEF begin_op, InOp, TypeOK
  <2> QED BY <2>2, <2>3 DEF Atomic!Next, Atomic!Begin, Atomic!vars
<1>2. ASSUME NEW b \in Blocks, NEW v \in Val, modify(p, b, v)
      PROVE  Atomic!Next
  <2>1. /\ UNCHANGED <<home, head, logblk, phase>>
        /\ cache' = [cache EXCEPT ![b] = v]
        /\ p \in InOp /\ InOp' = InOp
    BY <1>2 DEF modify, disk, InOp, TypeOK
  <2>2. Recovered' = Recovered
    BY <2>1 DEF Recovered, LastIn
  <2>3. ~Recovering /\ ~Recovering'
    BY <2>1, IdleInOp DEF Recovering
  <2>4. \A c \in Blocks : bread(c)' = IF c = b THEN v ELSE bread(c)
    BY <2>1, LogAssumption DEF bread, TypeOK
  <2>5. View' = [View EXCEPT ![b] = v]
    BY ZenonT(40), <2>3, <2>4 DEF View
  <2> QED BY ZenonT(40), <2>1, <2>2, <2>5 DEF Atomic!Next, Atomic!Write
<1>3. CASE log_write(p)
  <2>1. UNCHANGED <<home, head, logblk, cache, phase>>
    BY <1>3 DEF log_write, disk
  <2>2. Recovered' = Recovered /\ View' = View
    <3>1. Recovered' = Recovered
      BY <2>1 DEF Recovered, LastIn
    <3> QED BY <3>1, <2>1 DEF View, Recovering, bread
  <2>3. InOp' = InOp
    BY <1>3 DEF log_write, InOp, TypeOK, procs
  <2> QED BY <2>2, <2>3 DEF Atomic!vars
<1>4. CASE end_op(p)
  <2>1. p \in InOp /\ ~Recovering /\ committing = 0
    <3>1. p \in InOp
      BY <1>4 DEF end_op, InOp
    <3> QED BY ZenonT(40), <3>1, IdleInOp DEF Recovering, Bookkeeping, TypeOK
  <2>2. UNCHANGED <<home, head, logblk, cache>> /\ ~Recovering'
    BY SMTT(40), <1>4, <2>1 DEF end_op, CommitStart, disk, bcache, Recovering
  <2>3. Recovered' = Recovered /\ View' = View
    <3>1. Recovered' = Recovered
      BY <2>2 DEF Recovered, LastIn
    <3> QED BY <3>1, <2>1, <2>2 DEF View, Recovering, bread
  <2>4. InOp' = InOp \ {p}
    BY <1>4, <2>1 DEF end_op, InOp, TypeOK, wakeup_log
  <2> QED BY SMTT(40), <2>1, <2>3, <2>4 DEF Atomic!Next, Atomic!End
<1>5. CASE end_commit(p)
  <2>1. UNCHANGED <<home, head, logblk, cache>> /\ ~Recovering /\ ~Recovering'
    BY <1>5 DEF end_commit, disk, bcache, Recovering
  <2>2. Recovered' = Recovered /\ View' = View
    <3>1. Recovered' = Recovered
      BY <2>1 DEF Recovered, LastIn
    <3> QED BY <3>1, <2>1 DEF View, Recovering, bread
  <2>3. InOp' = InOp
    BY <1>5 DEF end_commit, InOp, TypeOK, wakeup_log
  <2> QED BY <2>2, <2>3 DEF Atomic!vars
<1> QED BY <1>1, <1>2, <1>3, <1>4, <1>5 DEF Op

(* Of the steps of commit and recovery, write_head maps to Commit. *)
LEMMA AtomicCommit ==
  ASSUME IInv, [Next]_vars, Commit
  PROVE  Atomic!Next \/ UNCHANGED Atomic!vars
<1> USE DEF IInv, LogInvariant
<1>0. InOp' = InOp
  BY DEF Commit, write_log, write_head, install_trans, erase, read_head, procs, InOp
<1>1. CASE write_log
  <2>1. ~Recovering /\ ~Recovering' /\ ~write_head
    BY <1>1 DEF write_log, write_head, Recovering
  <2>2. Recovered' = Recovered
    BY SMTT(40), <2>1, RecoveredStep
  <2>3. lh[tail + 1] \in Blocks
    BY SMTT(40), <1>1 DEF write_log, LogShape, TypeOK
  <2>4. \A b \in Blocks : bread(b)' = bread(b)
    BY SMTT(40), <1>1, <2>3 DEF write_log, bread, TypeOK
  <2> QED BY <1>0, <2>1, <2>2, <2>4, ViewSame DEF Atomic!vars
<1>2. CASE write_head
  <2>1. /\ phase = "write_head" /\ committing = 1 /\ ~Recovering /\ ~Recovering'
        /\ UNCHANGED <<home, logblk, cache>> /\ head' = lh
    BY ZenonT(40), <1>2 DEF write_head, Recovering, Bookkeeping, bcache
  <2>2. IInv' /\ InOp = {} /\ \A q \in Procs : held[q] = {}
    BY <2>1, StepInv, Quiet
  <2>3. View' = View
    BY <2>1 DEF View, bread
  <2>4. (IInv => /\ \A i \in 1..Len(head) : Recovered[head[i]] = logblk[i]
                 /\ \A b \in Blocks : (\A i \in 1..Len(head) : head[i] # b)
                                      => Recovered[b] = home[b])'
    BY RecoveredAt, PTL
  <2>5. Pinned = Logged
    BY <2>1 DEF Pinned, Logged
  <2>6. ASSUME NEW b \in Blocks PROVE Recovered'[b] = bread(b)
    <3>1. CASE \E i \in 1..Len(lh) : lh[i] = b
      <4>1. PICK i \in 1..Len(lh) : lh[i] = b
        BY <3>1
      <4>2. Recovered'[b] = logblk[i]
        BY SMTT(40), <2>1, <2>2, <2>4, <4>1
      <4>3. logblk[i] = cache[b]
        BY SMTT(40), <2>1, <4>1 DEF CommitProgress
      <4>4. cache[b] # NoData
        BY <2>5, <4>1 DEF CacheCoherent, Logged
      <4> QED BY <4>2, <4>3, <4>4 DEF bread
    <3>2. CASE \A i \in 1..Len(lh) : lh[i] # b
      <4>1. Recovered'[b] = home[b]
        BY SMTT(40), <2>1, <2>2, <2>4, <3>2
      <4>2. bread(b) = home[b]
        BY <2>2, <2>5, <3>2 DEF CacheCoherent, Logged
      <4> QED BY SMTT(40), <4>1, <4>2
    <3> QED BY <3>1, <3>2
  <2>7. Recovered' = View
    <3>1. (Recovered = [b \in Blocks |-> Recovered[b]])'
      BY RecoveredFcn, PTL
    <3> QED BY <2>1, <2>6, <3>1 DEF View
  <2> QED BY ZenonT(40), <1>0, <2>2, <2>3, <2>7 DEF Atomic!Next, Atomic!Commit
<1>3. CASE install_trans
  <2>1. Recovered' = Recovered /\ (Recovering' <=> Recovering)
    BY <1>3, RecoveredStep DEF install_trans, write_head, Recovering
  <2>2. CASE Recovering
    BY <1>0, <2>1, <2>2 DEF View, Atomic!vars
  <2>3. CASE ~Recovering
    <3>1. /\ phase = "install" /\ tail + 1 \in 1..Len(lh) /\ lh[tail + 1] \in Blocks
          /\ tail \in Nat
      BY <1>3, <2>3 DEF install_trans, Recovering, LogShape, TypeOK
    <3>2. logblk[tail + 1] = cache[lh[tail + 1]]
      BY <3>1 DEF CommitProgress
    <3>3. lh[tail + 1] \in Pinned
      <4>1. Pinned = {lh[i] : i \in tail+1..Len(lh)}
        BY <2>3, <3>1 DEF Pinned
      <4>2. tail + 1 \in tail+1..Len(lh)
        BY SMTT(40), <3>1 DEF TypeOK
      <4> QED BY <4>1, <4>2
    <3>4. cache[lh[tail + 1]] # NoData
      BY ZenonT(40), <3>1, <3>3 DEF CacheCoherent
    <3>5. \A b \in Blocks : bread(b)' = bread(b)
      BY <1>3, <3>1, <3>2, <3>4 DEF install_trans, bread, TypeOK
    <3> QED BY SMTT(40), <1>0, <2>1, <3>5, ViewSame DEF Atomic!vars
  <2> QED BY <2>2, <2>3
<1>4. CASE erase
  <2>1. /\ Recovered' = Recovered /\ ~Recovering'
        /\ UNCHANGED <<home, cache>>
    BY SMTT(40), <1>4, RecoveredStep DEF erase, write_head, Recovering, bcache
  <2>2. CASE ~Recovering
    BY ZenonT(40), <1>0, <2>1, <2>2 DEF View, bread, Atomic!vars
  <2>3. CASE Recovering
    <3>1. Pinned = {} /\ \A q \in Procs : held[q] = {}
      BY <2>3, Quiet DEF Pinned
    <3>2. \A b \in Blocks : bread(b) = home[b]
      BY <3>1 DEF CacheCoherent
    <3>3. head' = <<>> /\ IInv'
      BY <1>4, StepInv DEF erase
    <3>4. (IInv => (head = <<>> => Recovered = home))'
      BY RecoveredAt, PTL
    <3>5. Recovered' = home
      BY <2>1, <3>3, <3>4
    <3>6. View' = home /\ View = home
      BY <2>1, <2>3, <3>2, <3>5 DEF View, bread, TypeOK
    <3> QED BY <1>0, <2>1, <3>6 DEF Atomic!vars
  <2> QED BY <2>2, <2>3
<1>5. CASE read_head
  <2>1. Recovered' = Recovered /\ Recovering /\ Recovering'
    BY <1>5, RecoveredStep DEF read_head, write_head, Recovering
  <2> QED BY <1>0, <2>1 DEF View, Atomic!vars
<1> QED BY <1>1, <1>2, <1>3, <1>4, <1>5 DEF Commit

(* Every step maps to a step of AtomicDisk or a stutter. *)
LEMMA AtomicStep == IInv /\ [Next]_vars => [Atomic!Next]_Atomic!vars
<1> SUFFICES ASSUME IInv, [Next]_vars PROVE Atomic!Next \/ UNCHANGED Atomic!vars
  OBVIOUS
<1>1. ASSUME NEW b \in Blocks, evict(b) PROVE UNCHANGED Atomic!vars
  <2>1. /\ UNCHANGED <<home, head, logblk, pc, phase>>
        /\ cache' = [cache EXCEPT ![b] = NoData]
        /\ b \notin Pinned /\ \A q \in Procs : b \notin held[q]
    BY SMTT(40), <1>1 DEF evict, disk, procs, IInv, LogInvariant, PinsExact
  <2>2. Recovered' = Recovered /\ InOp' = InOp /\ (Recovering' <=> Recovering)
    BY <2>1 DEF Recovered, LastIn, InOp, Recovering
  <2>3. bread(b) = home[b]
    BY <2>1 DEF IInv, LogInvariant, CacheCoherent
  <2>4. \A c \in Blocks : bread(c)' = bread(c)
    BY <2>1, <2>3 DEF bread, IInv, TypeOK
  <2> QED BY SMTT(40), <2>2, <2>4, ViewSame DEF Atomic!vars
<1>2. CASE crash
  <2>1. Recovered' = Recovered /\ Recovering' /\ InOp' = {}
    BY SMTT(40), <1>2, RecoveredStep DEF crash, write_head, disk, Recovering, InOp
  <2> QED BY <2>1 DEF View, Atomic!Next, Atomic!Crash
<1>3. CASE UNCHANGED vars
  <2>1. UNCHANGED <<home, head, logblk, cache, pc, phase>>
    BY <1>3 DEF vars, disk, bcache, procs
  <2> QED BY <2>1 DEF Atomic!vars, Recovered, LastIn, View, Recovering, bread, InOp
<1> QED BY <1>1, <1>2, <1>3, AtomicOp, AtomicCommit DEF Next

(* log.c implements AtomicDisk: the groups of operations reach the disk    *)
(* atomically and in order, and a crash at any moment, recovery included,  *)
(* goes back to the last group.                                            *)
THEOREM LogIsAtomic == Spec => AtomicSpec
BY InitInv, StepInv, AtomicInit, AtomicStep, PTL DEF Spec, AtomicSpec, Atomic!Spec
=============================================================================
