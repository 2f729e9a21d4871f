--------------------------------- MODULE Log ---------------------------------
(***************************************************************************)
(* kernel/log.c: the redo log that makes FS system calls crash-atomic,     *)
(* with the part of the buffer cache it relies on (pins, eviction, the     *)
(* sleep-lock of a buffer) and the disk.  Every disk write is a step of    *)
(* its own and the machine may lose power between any two of them, during  *)
(* recovery too.                                                           *)
(***************************************************************************)
EXTENDS Naturals, Sequences, FiniteSets

CONSTANTS
  Procs,        \* processes that run FS system calls
  Blocks,       \* home block numbers
  Val,          \* contents of a block
  InitVal,      \* contents written by mkfs
  NoData,       \* "block not in the buffer cache"
  MAXOPBLOCKS,  \* space begin_op reserves for one operation
  LOGSIZE,      \* capacity of struct logheader
  NLOG,         \* log.size: blocks of the on-disk log, its header included
  OPBLOCKS,     \* distinct blocks an operation really writes, at most
  MaxCrashes    \* bound: power failures in a behaviour

ASSUME LogAssumption ==
  /\ IsFiniteSet(Procs) /\ IsFiniteSet(Blocks)
  /\ InitVal \in Val
  /\ NoData \notin Val
  /\ MAXOPBLOCKS \in Nat \ {0}
  /\ LOGSIZE \in Nat
  /\ NLOG \in Nat \ {0}
  /\ OPBLOCKS \in Nat
  /\ OPBLOCKS <= MAXOPBLOCKS
  /\ MaxCrashes \in Nat

VARIABLES
  home,         \* disk: contents of every home block
  head,         \* disk: the log header, as the sequence of its block numbers
  logblk,       \* disk: data blocks of the log
  cache,        \* buffer cache: contents of every cached home block
  pins,         \* buffer cache: references held by the log (bpin/bunpin)
  lh,           \* log.lh.block[0 .. log.lh.n - 1]
  outstanding,  \* log.outstanding
  committing,   \* log.committing
  pc,           \* where each process is in its FS system call
  held,         \* buffer a process has modified and not yet log_written
  touched,      \* blocks the operation of a process has written
  phase,        \* step of commit() or of recover_from_log(), or "idle"
  tail,         \* loop counter of write_log and install_trans
  panicked,     \* the message of the kernel panic that stopped the machine
  crashes       \* power failures so far

disk  == <<home, head, logblk>>
bcache == <<cache, pins>>
log   == <<lh, outstanding, committing>>
procs == <<pc, held, touched>>
vars  == <<disk, bcache, log, procs, phase, tail, panicked, crashes>>

NoPanicYet == "none"
Recovering == phase \in {"read_head", "recover", "recover_erase"}

Init ==
  /\ home = [b \in Blocks |-> InitVal]
  /\ head = <<>>
  /\ logblk = [i \in 1..LOGSIZE |-> InitVal]
  /\ cache = [b \in Blocks |-> NoData]
  /\ pins = [b \in Blocks |-> 0]
  /\ lh = <<>>
  /\ outstanding = 0
  /\ committing = 0
  /\ pc = [p \in Procs |-> "idle"]
  /\ held = [p \in Procs |-> {}]
  /\ touched = [p \in Procs |-> {}]
  /\ phase = "read_head"
  /\ tail = 0
  /\ panicked = NoPanicYet
  /\ crashes = 0

Logged == {lh[i] : i \in 1..Len(lh)}
bread(b) == IF cache[b] = NoData THEN home[b] ELSE cache[b]

(* Mutant: the wakeup is forgotten. *)
wakeup_log_lost(pcs) == pcs

(* wakeup(&log): every process asleep in begin_op tests the condition again. *)
wakeup_log(pcs) == [p \in Procs |-> IF pcs[p] = "sleep" THEN "begin" ELSE pcs[p]]

-----------------------------------------------------------------------------
(* One turn of the loop of begin_op: sleep, or take a reservation.         *)
MustWait == committing = 1 \/ Len(lh) + (outstanding + 1) * MAXOPBLOCKS > LOGSIZE

begin_op(p) ==
  /\ ~Recovering
  /\ pc[p] \in {"idle", "begin"}
  /\ \/ /\ MustWait
        /\ pc' = [pc EXCEPT ![p] = "sleep"]
        /\ UNCHANGED outstanding
     \/ /\ ~MustWait
        /\ outstanding' = outstanding + 1
        /\ pc' = [pc EXCEPT ![p] = "op"]
  /\ UNCHANGED <<disk, bcache, lh, committing, held, touched, phase, tail,
                 panicked, crashes>>

(* FS code inside an operation: bread(b), then a change of b->data.  The   *)
(* buffer's sleep-lock keeps other operations away until brelse.           *)
modify(p, b, v) ==
  /\ pc[p] = "op"
  /\ \A q \in Procs : b \notin held[q]
  /\ Cardinality(touched[p] \cup {b}) <= OPBLOCKS
  /\ cache' = [cache EXCEPT ![b] = v]
  /\ pc' = [pc EXCEPT ![p] = "write"]
  /\ held' = [held EXCEPT ![p] = {b}]
  /\ UNCHANGED <<disk, pins, log, touched, phase, tail, panicked, crashes>>

(* Mutant: log_write without bpin. *)
bpin_lost(b) == pins

bpin(b) == [pins EXCEPT ![b] = @ + 1]

(* log_write(b) and the brelse(b) that follows it. *)
TooBig == Len(lh) >= LOGSIZE \/ Len(lh) >= NLOG - 1

log_write_check ==
  CASE TooBig          -> "too_big_a_transaction"
    [] outstanding < 1 -> "log_write_outside_of_trans"
    [] OTHER           -> NoPanicYet

log_write(p) ==
  \E b \in held[p] :
    /\ pc[p] = "write"
    /\ panicked' = log_write_check
    /\ IF panicked' # NoPanicYet THEN UNCHANGED <<lh, pins, procs>> ELSE
         /\ IF b \in Logged
              THEN UNCHANGED <<lh, pins>>            \* log absorption
              ELSE /\ lh' = Append(lh, b)
                   /\ pins' = bpin(b)
         /\ pc' = [pc EXCEPT ![p] = "op"]
         /\ held' = [held EXCEPT ![p] = {}]
         /\ touched' = [touched EXCEPT ![p] = @ \cup {b}]
    /\ UNCHANGED <<disk, cache, outstanding, committing, phase, tail, crashes>>

(* The test of commit(): with an empty log there is nothing to do. *)
CommitStart == IF lh = <<>> THEN "committed" ELSE "write_log"

(* end_op up to the call of commit(); the last operation of the group goes *)
(* on with the commit, any other one only gives its reservation back.      *)
end_op(p) ==
  /\ pc[p] = "op"
  /\ outstanding' = outstanding - 1
  /\ touched' = [touched EXCEPT ![p] = {}]
  /\ panicked' = IF committing = 1 THEN "log_committing" ELSE NoPanicYet
  /\ IF committing = 1 THEN UNCHANGED <<committing, pc, phase, tail>>
     ELSE IF outstanding = 1
     THEN /\ committing' = 1
          /\ pc' = [pc EXCEPT ![p] = "commit"]
          /\ phase' = CommitStart
          /\ tail' = 0
     ELSE /\ pc' = wakeup_log([pc EXCEPT ![p] = "idle"])
          /\ UNCHANGED <<committing, phase, tail>>
  /\ UNCHANGED <<disk, bcache, lh, held, crashes>>

-----------------------------------------------------------------------------
(* commit(), one step per disk write. *)
write_log ==
  /\ phase = "write_log"
  /\ LET b == lh[tail + 1]
     IN  /\ logblk' = [logblk EXCEPT ![tail + 1] = bread(b)]
         /\ cache' = [cache EXCEPT ![b] = bread(b)]
  /\ tail' = tail + 1
  /\ phase' = IF tail' = Len(lh) THEN "write_head" ELSE "write_log"
  /\ UNCHANGED <<home, head, pins, log, procs, panicked, crashes>>

write_head ==
  /\ phase = "write_head"
  /\ head' = lh
  /\ phase' = "install"
  /\ tail' = 0
  /\ UNCHANGED <<home, logblk, bcache, log, procs, panicked, crashes>>

bunpin(b) == IF phase = "install" THEN [pins EXCEPT ![b] = @ - 1] ELSE pins

(* One turn of install_trans; only the one of commit() unpins the buffer.  *)
install_trans ==
  /\ phase \in {"install", "recover"}
  /\ LET b == lh[tail + 1]
     IN  /\ home' = [home EXCEPT ![b] = logblk[tail + 1]]
         /\ cache' = [cache EXCEPT ![b] = logblk[tail + 1]]
         /\ pins' = bunpin(b)
  /\ tail' = tail + 1
  /\ phase' = IF tail' < Len(lh) THEN phase
              ELSE IF phase = "install" THEN "erase" ELSE "recover_erase"
  /\ UNCHANGED <<head, logblk, log, procs, panicked, crashes>>

(* log.lh.n = 0 and the second write_head, of commit and of recovery.      *)
erase ==
  /\ phase \in {"erase", "recover_erase"}
  /\ lh' = <<>>
  /\ head' = <<>>
  /\ phase' = IF phase = "erase" THEN "committed" ELSE "idle"
  /\ UNCHANGED <<home, logblk, bcache, outstanding, committing, procs, tail,
                 panicked, crashes>>

(* The end of end_op in the process that committed. *)
end_commit(p) ==
  /\ pc[p] = "commit"
  /\ phase = "committed"
  /\ committing' = 0
  /\ pc' = wakeup_log([pc EXCEPT ![p] = "idle"])
  /\ phase' = "idle"
  /\ UNCHANGED <<disk, bcache, lh, outstanding, held, touched, tail, panicked,
                 crashes>>

(* initlog -> recover_from_log -> read_head, before any FS system call.    *)
read_head ==
  /\ phase = "read_head"
  /\ lh' = head
  /\ tail' = 0
  /\ phase' = IF head = <<>> THEN "recover_erase" ELSE "recover"
  /\ UNCHANGED <<disk, bcache, outstanding, committing, procs, panicked, crashes>>

(* Mutant: a pinned buffer is recycled. *)
evict_pinned(b) ==
  /\ cache[b] # NoData
  /\ \A q \in Procs : b \notin held[q]
  /\ cache' = [cache EXCEPT ![b] = NoData]
  /\ UNCHANGED <<disk, pins, log, procs, phase, tail, panicked, crashes>>

(* bget recycles a buffer that nobody references. *)
evict(b) ==
  /\ cache[b] # NoData
  /\ pins[b] = 0
  /\ \A q \in Procs : b \notin held[q]
  /\ cache' = [cache EXCEPT ![b] = NoData]
  /\ UNCHANGED <<disk, pins, log, procs, phase, tail, panicked, crashes>>

(* Power failure: memory is lost, the disk keeps every finished write.     *)
crash ==
  /\ crashes < MaxCrashes
  /\ crashes' = crashes + 1
  /\ cache' = [b \in Blocks |-> NoData]
  /\ pins' = [b \in Blocks |-> 0]
  /\ lh' = <<>>
  /\ outstanding' = 0
  /\ committing' = 0
  /\ pc' = [p \in Procs |-> "idle"]
  /\ held' = [p \in Procs |-> {}]
  /\ touched' = [p \in Procs |-> {}]
  /\ phase' = "read_head"
  /\ tail' = 0
  /\ UNCHANGED <<disk, panicked>>

Op(p) ==
  \/ begin_op(p)
  \/ \E b \in Blocks, v \in Val : modify(p, b, v)
  \/ log_write(p)
  \/ end_op(p)
  \/ end_commit(p)

Commit == write_log \/ write_head \/ install_trans \/ erase \/ read_head

Next ==
  /\ panicked = NoPanicYet
  /\ \/ \E p \in Procs : Op(p)
     \/ Commit
     \/ \E b \in Blocks : evict(b)
     \/ crash

Spec == Init /\ [][Next]_vars

(* What the code's scheduling gives: a process that can run its kernel code *)
(* does so (WF), and the body of an operation ends (every FS system call    *)
(* makes finitely many log_writes), so end_op is reached (SF).              *)
Fairness ==
  /\ WF_vars(panicked = NoPanicYet /\ Commit)
  /\ \A p \in Procs :
       /\ WF_vars(panicked = NoPanicYet /\ pc[p] = "begin" /\ begin_op(p))
       /\ WF_vars(panicked = NoPanicYet /\ (log_write(p) \/ end_commit(p)))
       /\ SF_vars(panicked = NoPanicYet /\ end_op(p))

FairSpec == Spec /\ Fairness

-----------------------------------------------------------------------------
(* What a recovery started now would leave on the disk. *)
LastIn(b) == CHOOSE i \in 1..Len(head) :
               head[i] = b /\ \A j \in i+1..Len(head) : head[j] # b
Recovered == [b \in Blocks |-> IF \E i \in 1..Len(head) : head[i] = b
                               THEN logblk[LastIn(b)] ELSE home[b]]

(* What FS code sees: the cache over the disk, or the recovered disk before *)
(* initlog is done.                                                         *)
View == IF Recovering THEN Recovered ELSE [b \in Blocks |-> bread(b)]
InOp == {p \in Procs : pc[p] \in {"op", "write"}}

Phases == {"idle", "write_log", "write_head", "install", "erase", "committed",
           "read_head", "recover", "recover_erase"}

(* Every variable has its type. *)
TypeOK ==
  /\ home \in [Blocks -> Val]
  /\ head \in Seq(Blocks)
  /\ logblk \in [1..LOGSIZE -> Val]
  /\ cache \in [Blocks -> Val \cup {NoData}]
  /\ pins \in [Blocks -> Nat]
  /\ lh \in Seq(Blocks)
  /\ outstanding \in Nat
  /\ committing \in {0, 1}
  /\ pc \in [Procs -> {"idle", "begin", "sleep", "op", "write", "commit"}]
  /\ held \in [Procs -> SUBSET Blocks]
  /\ touched \in [Procs -> SUBSET Blocks]
  /\ phase \in Phases
  /\ tail \in 0..LOGSIZE
  /\ panicked \in {NoPanicYet, "too_big_a_transaction",
                   "log_write_outside_of_trans", "log_committing"}
  /\ crashes \in 0..MaxCrashes

(* The reservation of begin_op is enough: no operation ever meets one of    *)
(* the three panics of log_write and end_op.                                *)
NoPanic == panicked = NoPanicYet

(* When no operation and no commit is running, everything FS code has       *)
(* written survives a crash: end_op of the last operation returned only     *)
(* after its group was on disk.                                             *)
DurableWhenIdle ==
  phase = "idle" /\ outstanding = 0 => Recovered = [b \in Blocks |-> bread(b)]

(* write_head(void) "is the true point at which the current transaction     *)
(* commits": no other step, crashes and recovery included, changes what a   *)
(* recovery would restore, and it never happens while an operation runs.    *)
CommitPoint ==
  [][Recovered' # Recovered => write_head /\ InOp = {}]_vars

(* The log implements atomic, ordered, group-committed operations.          *)
Atomic == INSTANCE AtomicDisk
            WITH durable <- Recovered, current <- View, active <- InOp
AtomicSpec == Atomic!Spec

(* A process asleep in begin_op is woken again, whoever it waits for.       *)
SleeperWoken == \A p \in Procs : pc[p] = "sleep" ~> pc[p] # "sleep"

(* A commit that has started finishes and lets operations in again.         *)
CommitFinishes == committing = 1 ~> committing = 0

(* Nobody waits in begin_op for ever: end_op wakes the sleepers on both of *)
(* its exits, and every commit comes to its end.                           *)
LogProgress == SleeperWoken /\ CommitFinishes

-----------------------------------------------------------------------------
(* The inductive invariant behind the properties above.                    *)
Injective(seq) == \A i, j \in 1..Len(seq) : seq[i] = seq[j] => i = j

(* Blocks an operation may still add to the log, as pairs.                 *)
Reserved == {r \in InOp \X (1..MAXOPBLOCKS) : r[2] > Cardinality(touched[r[1]])}

(* The counters of struct log say what the processes are doing.            *)
Bookkeeping ==
  /\ outstanding = Cardinality(InOp)
  /\ committing = 1 <=> phase \in {"write_log", "write_head", "install", "erase",
                               "committed"}
  /\ committing = 1 => InOp = {}
  /\ \A p \in Procs :
       /\ pc[p] = "commit" => committing = 1
       /\ \A q \in Procs : pc[p] = "commit" /\ pc[q] = "commit" => p = q
       /\ Recovering => pc[p] = "idle"
       /\ pc[p] # "write" => held[p] = {}
       /\ pc[p] = "write" =>
            \E b \in Blocks : /\ held[p] = {b}
                              /\ Cardinality(touched[p] \cup {b}) <= OPBLOCKS
       /\ Cardinality(touched[p]) <= OPBLOCKS
       /\ p \notin InOp => touched[p] = {}
       /\ \A q \in Procs : p # q => held[p] \cap held[q] = {}

(* The log never holds more than was reserved, and the loops of write_log  *)
(* and install_trans stay inside it.                                       *)
LogShape ==
  /\ Len(lh) + Cardinality(Reserved) <= LOGSIZE
  /\ Len(head) <= LOGSIZE
  /\ Injective(lh) /\ Injective(head)
  /\ \A p \in Procs : touched[p] \subseteq Logged
  /\ phase \in {"write_log", "install", "recover"} => tail < Len(lh)
  /\ phase = "write_head" => Len(lh) > 0
  /\ phase \in {"install", "erase", "recover", "recover_erase"} => head = lh
  /\ phase \in {"idle", "write_log", "write_head", "committed"} => head = <<>>
  /\ phase \in {"committed", "read_head"} => lh = <<>>
  /\ phase \in {"erase", "recover_erase"} => tail = Len(lh)

(* A block is pinned exactly from its log_write to its installation.       *)
Pinned == {lh[i] : i \in IF Recovering THEN {}
                         ELSE IF phase \in {"install", "erase"} THEN tail+1..Len(lh)
                         ELSE 1..Len(lh)}
PinsExact == pins = [b \in Blocks |-> IF b \in Pinned THEN 1 ELSE 0]

(* Pinned and held blocks are in the cache; the cached copy of any other    *)
(* block is the one on disk.                                                *)
CacheCoherent ==
  \A b \in Blocks :
    IF b \in Pinned \/ \E q \in Procs : b \in held[q]
    THEN cache[b] # NoData ELSE bread(b) = home[b]

(* How far a commit, or a recovery, has come. *)
CommitProgress ==
  \A i \in 1..Len(lh) :
    /\ phase = "write_log" /\ i <= tail => logblk[i] = cache[lh[i]]
    /\ phase = "write_head" => logblk[i] = cache[lh[i]]
    /\ phase = "install" /\ i > tail => logblk[i] = cache[lh[i]]
    /\ phase \in {"install", "erase", "recover", "recover_erase"} /\ i <= tail
         => home[lh[i]] = logblk[i]

(* Together they are preserved by every step of the code and give NoPanic, *)
(* CommitPoint and AtomicSpec.                                              *)
LogInvariant ==
  Bookkeeping /\ LogShape /\ PinsExact /\ CacheCoherent /\ CommitProgress
=============================================================================
