------------------------------- MODULE Bcache -------------------------------
(***************************************************************************)
(* kernel/bio.c and kernel/sleeplock.c: the buffer cache.  bcache.lock and *)
(* the spinlock inside a sleep lock are held for one step each; a process  *)
(* may be overtaken between looking a buffer up, locking it, reading it    *)
(* from the disk, and dropping it.  A buffer that has been changed is      *)
(* written to the disk, or pinned until the log has written it, before it  *)
(* is released: that is how the file system uses the cache.                *)
(* A member of Procs is one use of a buffer: a process that holds two at   *)
(* once (write_log, install_trans, bmap, itrunc) counts as two members,    *)
(* whose steps interleave freely, so the order in which one process locks  *)
(* its two buffers is not part of this model.                              *)
(***************************************************************************)
EXTENDS Naturals, FiniteSets

CONSTANTS
  Procs, Blocks, NBUF,
  MaxWrites,       \* bound: contents are 0..MaxWrites
  MaxPins,         \* bound: blocks in the log
  NoProc, NoBlock

ASSUME BcacheAssumption ==
  /\ IsFiniteSet(Procs)
  /\ NBUF \in Nat \ {0} /\ MaxWrites \in Nat /\ MaxPins \in Nat
  /\ NoProc \notin Procs /\ NoBlock \notin Blocks

Bufs == 1..NBUF

VARIABLES
  blockno, valid, refcnt, data,  \* struct buf
  lru,      \* the list of all buffers, most recently used first
  locked,   \* holder of the sleep lock of each buffer
  disk,     \* content of the blocks on the disk
  pc,       \* where each process is
  at,       \* the buffer that a process works on (0: none)
  pinned,   \* blocks that are pinned by the log
  latest    \* history: the last content given to each block

struct == <<blockno, valid, refcnt, data, lru>>
vars == <<struct, locked, disk, pc, at, pinned, latest>>

Init ==
  /\ blockno = [b \in Bufs |-> NoBlock] /\ valid = [b \in Bufs |-> 0]
  /\ refcnt = [b \in Bufs |-> 0] /\ data = [b \in Bufs |-> 0]
  /\ lru = [i \in 1..NBUF |-> NBUF + 1 - i]
  /\ locked = [b \in Bufs |-> NoProc]
  /\ disk = [n \in Blocks |-> 0] /\ latest = [n \in Blocks |-> 0]
  /\ pc = [p \in Procs |-> "idle"] /\ at = [p \in Procs |-> 0]
  /\ pinned = {}

Goto(p, l) == pc' = [pc EXCEPT ![p] = l]

-----------------------------------------------------------------------------
Cached(n) == {b \in Bufs : blockno[b] = n}

(* The places in the list of the buffers that bget may recycle; it takes   *)
(* the last, the least recently used one.                                  *)
Unused == {k \in 1..NBUF : refcnt[lru[k]] = 0}

(* bget, the block is cached. *)
bget_hit(p, n) == \E b \in Cached(n) :
  /\ pc[p] = "idle"
  /\ refcnt' = [refcnt EXCEPT ![b] = @ + 1]
  /\ at' = [at EXCEPT ![p] = b] /\ Goto(p, "lock")
  /\ UNCHANGED <<blockno, valid, data, lru, locked, disk, pinned, latest>>

(* Mutant: b->valid is not reset. *)
Recycled_valid(b) == valid

Recycled(b) == [valid EXCEPT ![b] = 0]

(* bget, the block is not cached.  Where the code panics because every     *)
(* buffer is in use the step is not taken.                                 *)
bget_miss(p, n) == \E k \in Unused :
  LET b == lru[k]
  IN  /\ pc[p] = "idle" /\ Cached(n) = {} /\ \A j \in Unused : j <= k
      /\ blockno' = [blockno EXCEPT ![b] = n]
      /\ valid' = Recycled(b)
      /\ refcnt' = [refcnt EXCEPT ![b] = 1]
      /\ at' = [at EXCEPT ![p] = b] /\ Goto(p, "lock")
      /\ UNCHANGED <<data, lru, locked, disk, pinned, latest>>

(* acquiresleep: one turn of its loop. *)
acquiresleep(p) ==
  LET b == at[p]
  IN  /\ pc[p] = "lock"
      /\ IF locked[b] = NoProc
         THEN locked' = [locked EXCEPT ![b] = p] /\ Goto(p, "check")
         ELSE UNCHANGED locked /\ Goto(p, "asleep")
      /\ UNCHANGED <<struct, disk, at, pinned, latest>>

(* The rest of bread: the disk is read if the buffer is not valid. *)
bread(p) ==
  LET b == at[p]
  IN  /\ pc[p] = "check"
      /\ Goto(p, IF valid[b] = 1 THEN "held" ELSE "read")
      /\ UNCHANGED <<struct, locked, disk, at, pinned, latest>>

bread_done(p) ==
  LET b == at[p]
  IN  /\ pc[p] = "read"
      /\ data' = [data EXCEPT ![b] = disk[blockno[b]]]
      /\ valid' = [valid EXCEPT ![b] = 1]
      /\ Goto(p, "held")
      /\ UNCHANGED <<blockno, refcnt, lru, locked, disk, at, pinned, latest>>

-----------------------------------------------------------------------------
(* Change the content and bwrite it. *)
write(p) ==
  LET b == at[p]
  IN  /\ pc[p] = "held" /\ blockno[b] \notin pinned
      /\ \E v \in 1..MaxWrites : data' = [data EXCEPT ![b] = v]
      /\ latest' = [latest EXCEPT ![blockno[b]] = data'[b]]
      /\ Goto(p, "write")
      /\ UNCHANGED <<blockno, valid, refcnt, lru, locked, disk, at, pinned>>

Pin(b, n) == IF n \in pinned THEN refcnt ELSE [refcnt EXCEPT ![b] = @ + 1]

(* Change the content and log_write it, which pins the buffer once. *)
log_write(p) ==
  LET b == at[p]
      n == blockno[b]
  IN  /\ pc[p] = "held"
      /\ n \in pinned \/ Cardinality(pinned) < MaxPins
      /\ \E v \in 1..MaxWrites : data' = [data EXCEPT ![b] = v]
      /\ latest' = [latest EXCEPT ![n] = data'[b]]
      /\ pinned' = pinned \cup {n}
      /\ refcnt' = Pin(b, n)
      /\ UNCHANGED <<blockno, valid, lru, locked, disk, pc, at>>

(* install_trans: bwrite a pinned buffer, then bunpin it. *)
install(p) ==
  /\ pc[p] = "held" /\ blockno[at[p]] \in pinned
  /\ Goto(p, "install")
  /\ UNCHANGED <<struct, locked, disk, at, pinned, latest>>

(* The end of virtio_disk_rw(b, 1). *)
bwrite(p) ==
  LET b == at[p]
  IN  /\ pc[p] \in {"write", "install"}
      /\ disk' = [disk EXCEPT ![blockno[b]] = data[b]]
      /\ Goto(p, IF pc[p] = "write" THEN "held" ELSE "unpin")
      /\ UNCHANGED <<struct, locked, at, pinned, latest>>

bunpin(p) ==
  LET b == at[p]
  IN  /\ pc[p] = "unpin"
      /\ refcnt' = [refcnt EXCEPT ![b] = @ - 1]
      /\ pinned' = pinned \ {blockno[b]}
      /\ Goto(p, "held")
      /\ UNCHANGED <<blockno, valid, data, lru, locked, disk, at, latest>>

(* Mutant: releasesleep wakes nobody. *)
wakeup_none(b) == pc

(* wakeup(lk): the processes that sleep for the buffer try again. *)
wakeup(b) == [p \in Procs |-> IF pc[p] = "asleep" /\ at[p] = b THEN "lock" ELSE pc[p]]

(* brelse: releasesleep, then, under bcache.lock, the reference is dropped *)
(* and an unused buffer moves to the front of the list.                    *)
releasesleep(p) ==
  LET b == at[p]
  IN  /\ pc[p] = "held"
      /\ locked' = [locked EXCEPT ![b] = NoProc]
      /\ pc' = [wakeup(b) EXCEPT ![p] = "drop"]
      /\ UNCHANGED <<struct, disk, at, pinned, latest>>

ToFront(b) ==
  LET k == CHOOSE k \in 1..NBUF : lru[k] = b
  IN  [j \in 1..NBUF |-> IF j = 1 THEN b ELSE IF j <= k THEN lru[j - 1] ELSE lru[j]]

brelse(p) ==
  LET b == at[p]
  IN  /\ pc[p] = "drop"
      /\ refcnt' = [refcnt EXCEPT ![b] = @ - 1]
      /\ lru' = IF refcnt'[b] = 0 THEN ToFront(b) ELSE lru
      /\ at' = [at EXCEPT ![p] = 0] /\ Goto(p, "idle")
      /\ UNCHANGED <<blockno, valid, data, locked, disk, pinned, latest>>

Next == \E p \in Procs :
  \/ \E n \in Blocks : bget_hit(p, n) \/ bget_miss(p, n)
  \/ acquiresleep(p) \/ bread(p) \/ bread_done(p)
  \/ write(p) \/ log_write(p) \/ install(p) \/ bwrite(p) \/ bunpin(p)
  \/ releasesleep(p) \/ brelse(p)

Spec == Init /\ [][Next]_vars

-----------------------------------------------------------------------------
Using(b) == {p \in Procs : at[p] = b}
Holding == {"check", "read", "held", "write", "install", "unpin"}

(* A buffer has one holder at a time, and one that is used or pinned is    *)
(* not recycled: its references are the processes that use it and its pin. *)
RefsExact == \A b \in Bufs :
  /\ refcnt[b] = Cardinality(Using(b)) + IF blockno[b] \in pinned THEN 1 ELSE 0
  /\ {p \in Using(b) : pc[p] \in Holding} = IF locked[b] = NoProc THEN {} ELSE {locked[b]}

(* A block has at most one buffer, whatever bget and brelse interleave. *)
OneCopy == \A b, c \in Bufs : b # c /\ blockno[b] # NoBlock => blockno[b] # blockno[c]

(* Whoever holds the buffer of a block after bread sees the last content   *)
(* that anybody gave to the block, through any number of evictions.        *)
ReadsLatest == \A p \in Procs :
  pc[p] \in {"held", "write", "install", "unpin"} => data[at[p]] = latest[blockno[at[p]]]

(* The cache is exact: bget and brelse, whatever they interleave with,     *)
(* keep one copy of a block, count its users and never show old data.      *)
Coherent == RefsExact /\ OneCopy /\ ReadsLatest

(* Nobody sleeps for a buffer that nobody holds (releasesleep wakes the    *)
(* processes that acquiresleep has put to sleep).                          *)
NoLostWakeup == \A p \in Procs : pc[p] = "asleep" => locked[at[p]] # NoProc
=============================================================================
