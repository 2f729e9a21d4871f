---------------------------- MODULE BcacheProofs ----------------------------
(***************************************************************************)
(* Coherent and NoLostWakeup of Bcache for any number of processes, blocks *)
(* and buffers.                                                            *)
(***************************************************************************)
EXTENDS Bcache, FiniteSetTheorems, TLAPS

After == {"held", "write", "install", "unpin"}   \* after bread
Places == {"idle", "lock", "asleep", "drop"} \cup Holding

CacheTypes ==
  /\ blockno \in [Bufs -> Blocks \cup {NoBlock}] /\ valid \in [Bufs -> {0, 1}]
  /\ refcnt \in [Bufs -> Nat] /\ data \in [Bufs -> Nat]
  /\ lru \in [1..NBUF -> Bufs]
  /\ locked \in [Bufs -> Procs \cup {NoProc}]
  /\ disk \in [Blocks -> Nat] /\ latest \in [Blocks -> Nat]
  /\ pc \in [Procs -> Places] /\ at \in [Procs -> Bufs \cup {0}]
  /\ pinned \in SUBSET Blocks

(* Who works on a buffer, and the one process that holds its sleep lock.   *)
LocksExact ==
  /\ \A p \in Procs :
       /\ pc[p] = "idle" <=> at[p] = 0
       /\ pc[p] \in Holding => locked[at[p]] = p
  /\ \A b \in Bufs : locked[b] # NoProc => at[locked[b]] = b /\ pc[locked[b]] \in Holding

(* The references of a buffer; a buffer in use and a pinned block stay     *)
(* together.                                                               *)
PinsOf(b) == IF blockno[b] \in pinned THEN 1 ELSE 0
RefsCounted ==
  /\ \A b \in Bufs : refcnt[b] = Cardinality(Using(b)) + PinsOf(b)
  /\ \A p \in Procs : at[p] # 0 => blockno[at[p]] \in Blocks
  /\ \A n \in pinned : \E b \in Bufs : blockno[b] = n

(* Where the last content of a block is: in its buffer when that is valid, *)
(* and on the disk unless the block is pinned or about to be written.      *)
Dirty(n) == n \in pinned \/ \E p \in Procs : pc[p] = "write" /\ blockno[at[p]] = n
BufLatest == \A b \in Bufs :
  valid[b] = 1 => blockno[b] \in Blocks /\ data[b] = latest[blockno[b]]
DiskLatest == \A n \in Blocks : disk[n] = latest[n] \/ Dirty(n)
DirtyValid == \A b \in Bufs : blockno[b] \in Blocks /\ Dirty(blockno[b]) => valid[b] = 1
StageExact == \A p \in Procs :
  /\ pc[p] \in After => valid[at[p]] = 1
  /\ pc[p] = "read" => valid[at[p]] = 0
  /\ pc[p] \in {"install", "unpin"} => blockno[at[p]] \in pinned
  /\ pc[p] = "unpin" => disk[blockno[at[p]]] = latest[blockno[at[p]]]
DataExact == BufLatest /\ DiskLatest /\ DirtyValid /\ StageExact

CacheInv == CacheTypes /\ LocksExact /\ RefsCounted /\ OneCopy /\ DataExact /\ NoLostWakeup

-----------------------------------------------------------------------------
(* The users of a buffer can be counted. *)
LEMMA UsersFinite ==
  ASSUME NEW b PROVE IsFiniteSet(Using(b)) /\ Cardinality(Using(b)) \in Nat
<1>1. Using(b) \in SUBSET Procs BY DEF Using
<1>2. IsFiniteSet(Using(b)) BY <1>1, FS_Subset, BcacheAssumption
<1> QED BY <1>2, FS_CardinalityType

(* bget adds one user to one buffer. *)
LEMMA UserEnters ==
  ASSUME CacheTypes, NEW p \in Procs, NEW b \in Bufs, at[p] = 0, at' = [at EXCEPT ![p] = b]
  PROVE  /\ Cardinality(Using(b))' = Cardinality(Using(b)) + 1
         /\ \A c \in Bufs : c # b => Using(c)' = Using(c)
<1>1. 0 \notin Bufs BY BcacheAssumption DEF Bufs
<1>2. p \notin Using(b) BY <1>1 DEF Using
<1>3. Using(b)' = Using(b) \cup {p} BY DEF Using, CacheTypes
<1>4. Cardinality(Using(b) \cup {p}) = Cardinality(Using(b)) + 1
  BY <1>2, UsersFinite, FS_AddElement, Zenon
<1>5. ASSUME NEW c \in Bufs, c # b PROVE Using(c)' = Using(c)
  BY <1>1, <1>5 DEF Using, CacheTypes
<1> QED BY <1>3, <1>4, <1>5

(* brelse takes one user from one buffer. *)
LEMMA UserLeaves ==
  ASSUME CacheTypes, NEW p \in Procs, NEW b \in Bufs, at[p] = b, at' = [at EXCEPT ![p] = 0]
  PROVE  /\ Cardinality(Using(b))' = Cardinality(Using(b)) - 1
         /\ Cardinality(Using(b)) - 1 \in Nat
         /\ \A c \in Bufs : c # b => Using(c)' = Using(c)
<1>1. 0 \notin Bufs BY BcacheAssumption DEF Bufs
<1>2. p \in Using(b) BY DEF Using
<1>3. Using(b)' = Using(b) \ {p} BY <1>1 DEF Using, CacheTypes
<1>4. /\ Cardinality(Using(b) \ {p}) = Cardinality(Using(b)) - 1
      /\ IsFiniteSet(Using(b) \ {p})
  BY <1>2, UsersFinite, FS_RemoveElement, Zenon
<1>5. Cardinality(Using(b) \ {p}) \in Nat BY <1>4, FS_CardinalityType
<1>6. ASSUME NEW c \in Bufs, c # b PROVE Using(c)' = Using(c)
  BY <1>1, <1>6 DEF Using, CacheTypes
<1> QED BY <1>3, <1>4, <1>5, <1>6

(* A buffer without references has no users and no pin. *)
LEMMA UnusedFree ==
  ASSUME CacheInv, NEW b \in Bufs, refcnt[b] = 0
  PROVE  blockno[b] \notin pinned /\ \A p \in Procs : at[p] # b
<1>1. refcnt[b] = Cardinality(Using(b)) + PinsOf(b) BY DEF CacheInv, RefsCounted
<1>2. Cardinality(Using(b)) = 0 /\ PinsOf(b) = 0 BY <1>1, UsersFinite DEF PinsOf
<1>3. Using(b) = {} BY <1>2, UsersFinite, FS_EmptySet
<1> QED BY <1>2, <1>3 DEF Using, PinsOf

(* A process that holds a sleep lock works on a buffer with a block, and   *)
(* no other holder works on that buffer or on another one with the block.  *)
Apart(p) ==
  /\ at[p] \in Bufs /\ blockno[at[p]] \in Blocks /\ locked[at[p]] = p
  /\ \A q \in Procs : pc[q] \in Holding /\ q # p =>
       /\ at[q] \in Bufs /\ at[q] # at[p]
       /\ blockno[at[q]] \in Blocks /\ blockno[at[q]] # blockno[at[p]]
  /\ \A c \in Bufs : c # at[p] => blockno[c] # blockno[at[p]]

(* The sleep lock of the buffer keeps a holder apart from the others. *)
LEMMA Alone ==
  ASSUME CacheInv, NEW p \in Procs, pc[p] \in Holding PROVE Apart(p)
<1>1. ASSUME NEW q \in Procs, pc[q] \in Holding
      PROVE  at[q] \in Bufs /\ blockno[at[q]] \in Blocks /\ locked[at[q]] = q
  BY <1>1 DEF CacheInv, CacheTypes, LocksExact, RefsCounted, Holding
<1>2. at[p] \in Bufs /\ blockno[at[p]] \in Blocks /\ locked[at[p]] = p BY <1>1
<1>3. ASSUME NEW c \in Bufs, c # at[p] PROVE blockno[c] # blockno[at[p]]
  BY <1>2, <1>3, BcacheAssumption DEF CacheInv, OneCopy
<1>4. ASSUME NEW q \in Procs, pc[q] \in Holding, q # p
      PROVE  /\ at[q] \in Bufs /\ at[q] # at[p]
             /\ blockno[at[q]] \in Blocks /\ blockno[at[q]] # blockno[at[p]]
  BY <1>1, <1>2, <1>3, <1>4
<1> QED BY <1>2, <1>3, <1>4 DEF Apart

(* Steps that leave the users, the pins and the block numbers alone. *)
LEMMA RefsKept ==
  ASSUME RefsCounted, OneCopy, UNCHANGED <<blockno, refcnt, at, pinned>>
  PROVE  RefsCounted' /\ OneCopy'
<1>1. ASSUME NEW b PROVE Using(b)' = Using(b) /\ PinsOf(b)' = PinsOf(b)
  BY DEF Using, PinsOf
<1>2. \A b \in Bufs : refcnt'[b] = Cardinality(Using(b))' + PinsOf(b)'
  BY <1>1 DEF RefsCounted
<1>3. /\ \A p \in Procs : at'[p] # 0 => blockno'[at'[p]] \in Blocks
      /\ \A n \in pinned' : \E b \in Bufs : blockno'[b] = n
  BY DEF RefsCounted
<1>4. OneCopy' BY DEF OneCopy
<1> QED BY <1>2, <1>3, <1>4 DEF RefsCounted

(* bread finds the buffer valid or starts to read the disk. *)
LEMMA StepRead ==
  ASSUME CacheInv, NEW p \in Procs, bread(p)
  PROVE  CacheInv'
<1>a. pc[p] \in Holding BY DEF Holding, bread
<1>b. Apart(p) BY <1>a, Alone
<1>c. CacheTypes /\ LocksExact /\ RefsCounted /\ OneCopy /\ DataExact /\ NoLostWakeup
  BY DEF CacheInv
<1>1. CacheTypes'
  BY <1>c DEF CacheTypes, Places, Holding, bread, Goto, struct
<1>2. LocksExact'
  BY <1>c DEF LocksExact, Holding, bread, Goto
<1>3. RefsCounted' /\ OneCopy'
  BY <1>c, RefsKept DEF bread, Goto, struct
<1>4. DataExact'
  <2>1. BufLatest'
    BY <1>c DEF DataExact, BufLatest, bread, struct
  <2>2. DiskLatest'
    BY <1>c DEF DataExact, DiskLatest, Dirty, bread, Goto, struct
  <2>3. DirtyValid'
    BY <1>c DEF DataExact, DirtyValid, Dirty, bread, Goto, struct
  <2>4. StageExact'
    BY <1>c DEF CacheTypes, DataExact, LocksExact, StageExact, After, bread, Goto,
       struct
  <2> QED BY <2>1, <2>2, <2>3, <2>4 DEF DataExact
<1>5. NoLostWakeup'
  BY <1>c DEF NoLostWakeup, bread, Goto
<1> QED BY <1>1, <1>2, <1>3, <1>4, <1>5 DEF CacheInv

(* The disk has the last content of a block whose buffer is not valid. *)
LEMMA StepReadDone ==
  ASSUME CacheInv, NEW p \in Procs, bread_done(p)
  PROVE  CacheInv'
<1>a. pc[p] \in Holding BY DEF Holding, bread_done
<1>b. Apart(p) BY <1>a, Alone
<1>c. CacheTypes /\ LocksExact /\ RefsCounted /\ OneCopy /\ DataExact /\ NoLostWakeup
  BY DEF CacheInv
<1>1. CacheTypes'
  BY <1>b, <1>c DEF CacheTypes, Apart, Places, Holding, bread_done, Goto
<1>2. LocksExact'
  BY <1>c DEF LocksExact, Holding, bread_done, Goto
<1>3. RefsCounted' /\ OneCopy'
  BY <1>c, RefsKept DEF bread_done, Goto
<1>4. DataExact'
  <2>1. BufLatest'
    BY <1>b, <1>c DEF CacheTypes, Apart, DataExact, LocksExact, BufLatest,
       DiskLatest, DirtyValid, StageExact, bread_done
  <2>2. DiskLatest'
    BY <1>c DEF DataExact, DiskLatest, Dirty, bread_done, Goto
  <2>3. DirtyValid'
    BY <1>c DEF DataExact, DirtyValid, Dirty, bread_done, Goto
  <2>4. StageExact'
    BY <1>a, <1>c DEF CacheTypes, DataExact, LocksExact, StageExact, bread_done,
       Goto
  <2> QED BY <2>1, <2>2, <2>3, <2>4 DEF DataExact
<1>5. NoLostWakeup'
  BY <1>c DEF NoLostWakeup, bread_done, Goto
<1> QED BY <1>1, <1>2, <1>3, <1>4, <1>5 DEF CacheInv

(* install_trans starts to write a pinned buffer. *)
LEMMA StepInstall ==
  ASSUME CacheInv, NEW p \in Procs, install(p)
  PROVE  CacheInv'
<1>a. pc[p] \in Holding BY DEF Holding, install
<1>b. Apart(p) BY <1>a, Alone
<1>c. CacheTypes /\ LocksExact /\ RefsCounted /\ OneCopy /\ DataExact /\ NoLostWakeup
  BY DEF CacheInv
<1>1. CacheTypes'
  BY <1>c DEF CacheTypes, Places, Holding, install, Goto, struct
<1>2. LocksExact'
  BY <1>c DEF LocksExact, Holding, install, Goto
<1>3. RefsCounted' /\ OneCopy'
  BY <1>c, RefsKept DEF install, Goto, struct
<1>4. DataExact'
  <2>1. BufLatest'
    BY <1>c DEF DataExact, BufLatest, install, struct
  <2>2. DiskLatest'
    BY <1>c DEF DataExact, DiskLatest, Dirty, install, Goto, struct
  <2>3. DirtyValid'
    BY <1>c DEF DataExact, DirtyValid, Dirty, install, Goto, struct
  <2>4. StageExact'
    BY <1>c DEF DataExact, StageExact, After, install, Goto, struct
  <2> QED BY <2>1, <2>2, <2>3, <2>4 DEF DataExact
<1>5. NoLostWakeup'
  BY <1>c DEF NoLostWakeup, install, Goto
<1> QED BY <1>1, <1>2, <1>3, <1>4, <1>5 DEF CacheInv

(* What bwrite puts on the disk is the last content of the block. *)
LEMMA StepBwrite ==
  ASSUME CacheInv, NEW p \in Procs, bwrite(p)
  PROVE  CacheInv'
<1>a. pc[p] \in Holding BY DEF Holding, bwrite
<1>b. Apart(p) BY <1>a, Alone
<1>c. CacheTypes /\ LocksExact /\ RefsCounted /\ OneCopy /\ DataExact /\ NoLostWakeup
  BY DEF CacheInv
<1>1. CacheTypes'
  BY <1>a, <1>b, <1>c DEF CacheTypes, Apart, Places, Holding, bwrite, Goto, struct
<1>2. LocksExact'
  BY <1>c DEF LocksExact, Holding, bwrite, Goto
<1>3. RefsCounted' /\ OneCopy'
  BY <1>c, RefsKept DEF bwrite, Goto, struct
<1>4. DataExact'
  <2>1. BufLatest'
    BY <1>c DEF DataExact, BufLatest, bwrite, struct
  <2>2. DiskLatest'
    BY <1>c DEF CacheTypes, DataExact, LocksExact, BufLatest, DiskLatest,
       StageExact, Dirty, After, bwrite, Goto, struct
  <2>3. DirtyValid'
    BY <1>c DEF DataExact, DirtyValid, Dirty, bwrite, Goto, struct
  <2>4. StageExact'
    BY <1>c DEF CacheTypes, DataExact, LocksExact, BufLatest, StageExact, After,
       bwrite, Goto, struct
  <2> QED BY <2>1, <2>2, <2>3, <2>4 DEF DataExact
<1>5. NoLostWakeup'
  BY <1>c DEF NoLostWakeup, bwrite, Goto
<1> QED BY <1>1, <1>2, <1>3, <1>4, <1>5 DEF CacheInv

(* A change that bwrite will put on the disk. *)
LEMMA StepWrite ==
  ASSUME CacheInv, NEW p \in Procs, write(p)
  PROVE  CacheInv'
<1>a. pc[p] \in Holding BY DEF Holding, write
<1>b. Apart(p) BY <1>a, Alone
<1>c. CacheTypes /\ LocksExact /\ RefsCounted /\ OneCopy /\ DataExact /\ NoLostWakeup
  BY DEF CacheInv
<1>1. CacheTypes'
  BY <1>b, <1>c DEF CacheTypes, Apart, Places, Holding, write, Goto
<1>2. LocksExact'
  BY <1>c DEF LocksExact, Holding, write, Goto
<1>3. RefsCounted' /\ OneCopy'
  BY <1>c, RefsKept DEF write, Goto
<1>4. DataExact'
  <2>1. BufLatest'
    BY <1>b, <1>c DEF CacheTypes, Apart, DataExact, BufLatest, write
  <2>2. DiskLatest'
    BY <1>c DEF CacheTypes, DataExact, DiskLatest, Dirty, write, Goto
  <2>3. DirtyValid'
    BY <1>b, <1>c DEF Apart, DataExact, DirtyValid, StageExact, Dirty, After, write,
       Goto
  <2>4. StageExact'
    BY <1>c DEF DataExact, StageExact, After, write, Goto
  <2> QED BY <2>1, <2>2, <2>3, <2>4 DEF DataExact
<1>5. NoLostWakeup'
  BY <1>c DEF NoLostWakeup, write, Goto
<1> QED BY <1>1, <1>2, <1>3, <1>4, <1>5 DEF CacheInv

(* releasesleep lets the next process in and wakes the ones that sleep. *)
LEMMA StepRelease ==
  ASSUME CacheInv, NEW p \in Procs, releasesleep(p)
  PROVE  CacheInv'
<1>a. pc[p] \in Holding BY DEF Holding, releasesleep
<1>b. Apart(p) BY <1>a, Alone
<1>d. \A n : Dirty(n)' <=> Dirty(n)
  <2>1. \A q \in Procs : pc'[q] = "write" <=> pc[q] = "write"
    BY DEF CacheInv, CacheTypes, releasesleep, wakeup
  <2> QED BY <2>1 DEF Dirty, releasesleep, struct
<1>c. CacheTypes /\ LocksExact /\ RefsCounted /\ OneCopy /\ DataExact /\ NoLostWakeup
  BY DEF CacheInv
<1>1. CacheTypes'
  BY <1>b, <1>c DEF CacheTypes, Apart, Places, releasesleep, wakeup, struct
<1>2. LocksExact'
  BY <1>c DEF CacheTypes, LocksExact, Holding, releasesleep, wakeup
<1>3. RefsCounted' /\ OneCopy'
  BY <1>c, RefsKept DEF releasesleep, wakeup, struct
<1>4. DataExact'
  <2>1. BufLatest'
    BY <1>c DEF DataExact, BufLatest, releasesleep, struct
  <2>2. DiskLatest'
    BY <1>c, <1>d DEF DataExact, DiskLatest, releasesleep, struct
  <2>3. DirtyValid'
    BY <1>c, <1>d DEF DataExact, DirtyValid, releasesleep, struct
  <2>4. StageExact'
    BY <1>c DEF DataExact, StageExact, After, releasesleep, wakeup, struct
  <2> QED BY <2>1, <2>2, <2>3, <2>4 DEF DataExact
<1>5. NoLostWakeup'
  BY <1>c DEF NoLostWakeup, releasesleep, wakeup
<1> QED BY <1>1, <1>2, <1>3, <1>4, <1>5 DEF CacheInv

(* acquiresleep takes the sleep lock of a buffer or waits for its holder. *)
LEMMA StepAcquire ==
  ASSUME CacheInv, NEW p \in Procs, acquiresleep(p)
  PROVE  CacheInv'
<1>a. pc[p] = "lock" BY DEF acquiresleep
<1>b. at[p] \in Bufs /\ blockno[at[p]] \in Blocks
  BY <1>a DEF CacheInv, CacheTypes, LocksExact, RefsCounted
<1>c. CacheTypes /\ LocksExact /\ RefsCounted /\ OneCopy /\ DataExact /\ NoLostWakeup
  BY DEF CacheInv
<1>1. CacheTypes'
  <2>1. locked' = locked \/ locked' = [locked EXCEPT ![at[p]] = p] BY DEF acquiresleep
  <2>2. pc' = [pc EXCEPT ![p] = "check"] \/ pc' = [pc EXCEPT ![p] = "asleep"]
    BY DEF acquiresleep, Goto
  <2>3. locked' \in [Bufs -> Procs \cup {NoProc}] BY <2>1, <1>c, Zenon DEF CacheTypes
  <2>4. pc' \in [Procs -> Places] BY <2>2, <1>c DEF CacheTypes, Places, Holding
  <2> QED BY <2>3, <2>4, <1>c DEF CacheTypes, acquiresleep, struct
<1>2. LocksExact'
  <2>1. ASSUME NEW q \in Procs
        PROVE  /\ pc'[q] = "idle" <=> at'[q] = 0
               /\ pc'[q] \in Holding => locked'[at'[q]] = q
    <3>1. CASE q = p
      BY <3>1, <1>c DEF CacheTypes, LocksExact, Holding, acquiresleep, Goto
    <3>2. CASE q # p
      <4>1. pc'[q] = pc[q] /\ at'[q] = at[q]
        BY <3>2, <1>c DEF CacheTypes, acquiresleep, Goto
      <4>2. pc[q] \in Holding => at[q] \in Bufs /\ locked[at[q]] = q
        BY <1>c DEF CacheTypes, LocksExact, Holding
      <4>3. pc[q] \in Holding => locked'[at[q]] = q
        BY <4>2, <1>b, <1>c, BcacheAssumption DEF CacheTypes, acquiresleep
      <4> QED BY <4>1, <4>3, <1>c DEF LocksExact
    <3> QED BY <3>1, <3>2
  <2>2. ASSUME NEW b \in Bufs, locked'[b] # NoProc
        PROVE  at'[locked'[b]] = b /\ pc'[locked'[b]] \in Holding
    <3>1. CASE b = at[p] /\ locked[b] = NoProc
      BY <3>1, <1>c DEF CacheTypes, Holding, acquiresleep, Goto
    <3>2. CASE ~(b = at[p] /\ locked[b] = NoProc)
      <4>1. locked'[b] = locked[b] BY <3>2, <1>b, <1>c DEF CacheTypes, acquiresleep
      <4>2. locked[b] \in Procs /\ at[locked[b]] = b /\ pc[locked[b]] \in Holding
        BY <4>1, <2>2, <1>c DEF CacheTypes, LocksExact
      <4>3. locked[b] # p BY <4>2, <1>a DEF Holding
      <4> QED BY <4>1, <4>2, <4>3, <1>c DEF CacheTypes, acquiresleep, Goto
    <3> QED BY <3>1, <3>2
  <2> QED BY <2>1, <2>2 DEF LocksExact
<1>3. RefsCounted' /\ OneCopy'
  BY <1>c, RefsKept DEF acquiresleep, Goto, struct
<1>4. DataExact'
  <2>1. BufLatest'
    BY <1>c DEF DataExact, BufLatest, acquiresleep, struct
  <2>2. DiskLatest'
    BY <1>c DEF CacheTypes, DataExact, DiskLatest, Dirty, acquiresleep, Goto, struct
  <2>3. DirtyValid'
    BY <1>c DEF CacheTypes, DataExact, DirtyValid, Dirty, acquiresleep, Goto, struct
  <2>4. StageExact'
    BY <1>c DEF CacheTypes, DataExact, StageExact, After, acquiresleep, Goto, struct
  <2> QED BY <2>1, <2>2, <2>3, <2>4 DEF DataExact
<1>5. NoLostWakeup'
  <2>1. ASSUME NEW q \in Procs, pc'[q] = "asleep" PROVE locked'[at'[q]] # NoProc
    <3>1. at' = at /\ (q # p => pc'[q] = pc[q]) BY <1>c DEF CacheTypes, acquiresleep, Goto
    <3>2. locked[at[q]] # NoProc
      BY <2>1, <3>1, <1>c DEF CacheTypes, NoLostWakeup, acquiresleep, Goto
    <3>3. locked' = locked \/ locked' = [locked EXCEPT ![at[p]] = p] BY DEF acquiresleep
    <3>4. CASE locked' = locked BY <3>1, <3>2, <3>4
    <3>5. CASE locked' = [locked EXCEPT ![at[p]] = p]
      <4>1. p # NoProc BY BcacheAssumption
      <4>2. at[q] \in Bufs BY <2>1, <3>1, <1>a, <1>b, <1>c DEF CacheTypes, LocksExact
      <4> QED BY <3>1, <3>2, <3>5, <4>1, <4>2, <1>c DEF CacheTypes
    <3> QED BY <3>3, <3>4, <3>5
  <2> QED BY <2>1 DEF NoLostWakeup
<1> QED BY <1>1, <1>2, <1>3, <1>4, <1>5 DEF CacheInv

(* log_write adds one reference for the pin, the first time. *)
LEMMA StepLogWrite ==
  ASSUME CacheInv, NEW p \in Procs, log_write(p)
  PROVE  CacheInv'
<1>a. pc[p] \in Holding BY DEF Holding, log_write
<1>b. Apart(p) BY <1>a, Alone
<1>c. CacheTypes /\ LocksExact /\ RefsCounted /\ OneCopy /\ DataExact /\ NoLostWakeup
  BY DEF CacheInv
<1>1. CacheTypes'
  BY <1>a, <1>b, <1>c DEF CacheTypes, Apart, Places, log_write, Pin
<1>2. LocksExact'
  BY <1>c DEF LocksExact, log_write
<1>3. RefsCounted' /\ OneCopy'
  <2>0. PICK b \in Bufs : b = at[p] BY <1>b DEF Apart
  <2>1. ASSUME NEW c PROVE Using(c)' = Using(c) BY DEF Using, log_write
  <2>2. \A c \in Bufs : c # b => PinsOf(c)' = PinsOf(c) /\ refcnt'[c] = refcnt[c]
    BY <2>0, <1>b DEF Apart, PinsOf, log_write, Pin
  <2>3. PinsOf(b) \in {0, 1} /\ PinsOf(b)' \in {0, 1}
    BY DEF PinsOf
  <2>4. refcnt'[b] = refcnt[b] + PinsOf(b)' - PinsOf(b)
    BY <2>0, <1>c DEF CacheTypes, PinsOf, log_write, Pin
  <2>5. ASSUME NEW c \in Bufs PROVE refcnt'[c] = Cardinality(Using(c))' + PinsOf(c)'
    <3>1. refcnt[c] = Cardinality(Using(c)) + PinsOf(c) /\ Cardinality(Using(c)) \in Nat
      BY <1>c, UsersFinite DEF RefsCounted
    <3>2. CASE c = b BY <3>1, <3>2, <2>1, <2>3, <2>4
    <3>3. CASE c # b BY <3>1, <3>3, <2>1, <2>2
    <3> QED BY <3>2, <3>3
  <2>6. /\ \A q \in Procs : at'[q] # 0 => blockno'[at'[q]] \in Blocks
        /\ \A n \in pinned' : \E c \in Bufs : blockno'[c] = n
    BY <1>b, <1>c DEF Apart, RefsCounted, log_write
  <2>7. OneCopy' BY <1>c DEF OneCopy, log_write
  <2> QED BY <2>5, <2>6, <2>7 DEF RefsCounted
<1>4. DataExact'
  <2>1. BufLatest'
    BY <1>b, <1>c DEF CacheTypes, Apart, DataExact, BufLatest, log_write
  <2>2. DiskLatest'
    BY <1>c DEF DataExact, DiskLatest, Dirty, log_write
  <2>3. DirtyValid'
    BY <1>b, <1>c DEF Apart, DataExact, DirtyValid, StageExact, Dirty, After,
       log_write
  <2>4. StageExact'
    BY <1>b, <1>c DEF Apart, DataExact, StageExact, Holding, log_write
  <2> QED BY <2>1, <2>2, <2>3, <2>4 DEF DataExact
<1>5. NoLostWakeup'
  BY <1>c DEF NoLostWakeup, log_write
<1> QED BY <1>1, <1>2, <1>3, <1>4, <1>5 DEF CacheInv

(* bunpin drops the reference of the pin once the disk is up to date. *)
LEMMA StepUnpin ==
  ASSUME CacheInv, NEW p \in Procs, bunpin(p)
  PROVE  CacheInv'
<1>a. pc[p] \in Holding BY DEF Holding, bunpin
<1>b. Apart(p) BY <1>a, Alone
<1>c. CacheTypes /\ LocksExact /\ RefsCounted /\ OneCopy /\ DataExact /\ NoLostWakeup
  BY DEF CacheInv
<1>1. CacheTypes'
  <2>1. refcnt[at[p]] \in Nat \ {0}
    <3>1. refcnt[at[p]] = Cardinality(Using(at[p])) + 1
      BY <1>b, <1>c DEF Apart, RefsCounted, PinsOf, DataExact, StageExact, bunpin
    <3> QED BY <3>1, UsersFinite
  <2>2. refcnt' \in [Bufs -> Nat] BY <2>1, <1>b, <1>c DEF Apart, CacheTypes, bunpin
  <2> QED BY <2>2, <1>a, <1>b, <1>c DEF CacheTypes, Places, Holding, bunpin, Goto
<1>2. LocksExact'
  BY <1>c DEF LocksExact, Holding, bunpin, Goto
<1>3. RefsCounted' /\ OneCopy'
  <2>0. PICK b \in Bufs : b = at[p] BY <1>b DEF Apart
  <2>1. ASSUME NEW c PROVE Using(c)' = Using(c) BY DEF Using, bunpin
  <2>2. \A c \in Bufs : c # b => PinsOf(c)' = PinsOf(c) /\ refcnt'[c] = refcnt[c]
    BY <2>0, <1>b DEF Apart, PinsOf, bunpin
  <2>3. PinsOf(b) \in {0, 1} /\ PinsOf(b)' \in {0, 1}
    BY DEF PinsOf
  <2>4. refcnt'[b] = refcnt[b] + PinsOf(b)' - PinsOf(b)
    BY <2>0, <1>c DEF CacheTypes, PinsOf, DataExact, StageExact, bunpin
  <2>5. ASSUME NEW c \in Bufs PROVE refcnt'[c] = Cardinality(Using(c))' + PinsOf(c)'
    <3>1. refcnt[c] = Cardinality(Using(c)) + PinsOf(c) /\ Cardinality(Using(c)) \in Nat
      BY <1>c, UsersFinite DEF RefsCounted
    <3>2. CASE c = b BY <3>1, <3>2, <2>1, <2>3, <2>4
    <3>3. CASE c # b BY <3>1, <3>3, <2>1, <2>2
    <3> QED BY <3>2, <3>3
  <2>6. /\ \A q \in Procs : at'[q] # 0 => blockno'[at'[q]] \in Blocks
        /\ \A n \in pinned' : \E c \in Bufs : blockno'[c] = n
    BY <1>b, <1>c DEF Apart, RefsCounted, bunpin
  <2>7. OneCopy' BY <1>c DEF OneCopy, bunpin
  <2> QED BY <2>5, <2>6, <2>7 DEF RefsCounted
<1>4. DataExact'
  <2>1. BufLatest'
    BY <1>c DEF DataExact, BufLatest, bunpin
  <2>2. DiskLatest'
    BY <1>c DEF DataExact, DiskLatest, StageExact, Dirty, bunpin, Goto
  <2>3. DirtyValid'
    BY <1>c, BcacheAssumption DEF DataExact, DirtyValid, Dirty, bunpin, Goto
  <2>4. StageExact'
    BY <1>b, <1>c DEF CacheTypes, Apart, DataExact, StageExact, After, Holding,
       bunpin, Goto
  <2> QED BY <2>1, <2>2, <2>3, <2>4 DEF DataExact
<1>5. NoLostWakeup'
  BY <1>a, <1>b, <1>c, BcacheAssumption DEF CacheTypes, Apart, LocksExact,
     NoLostWakeup, Holding, bunpin, Goto
<1> QED BY <1>1, <1>2, <1>3, <1>4, <1>5 DEF CacheInv

(* bget finds the block: one more user. *)
LEMMA StepHit ==
  ASSUME CacheInv, NEW p \in Procs, NEW n \in Blocks, bget_hit(p, n)
  PROVE  CacheInv'
<1>c. CacheTypes /\ LocksExact /\ RefsCounted /\ OneCopy /\ DataExact /\ NoLostWakeup
  BY DEF CacheInv
<1>a. pc[p] = "idle" BY DEF bget_hit
<1>b. PICK b \in Bufs :
        /\ blockno[b] = n
        /\ refcnt' = [refcnt EXCEPT ![b] = @ + 1]
        /\ at' = [at EXCEPT ![p] = b] /\ pc' = [pc EXCEPT ![p] = "lock"]
        /\ UNCHANGED <<blockno, valid, data, lru, locked, disk, pinned, latest>>
  BY Zenon DEF bget_hit, Cached, Goto
<1>d. /\ Cardinality(Using(b))' = Cardinality(Using(b)) + 1
      /\ \A c \in Bufs : c # b => Using(c)' = Using(c)
  <2>1. at[p] = 0 BY <1>a, <1>c DEF LocksExact
  <2> QED BY <2>1, <1>b, <1>c, UserEnters, Zenon
<1>f. /\ pc'[p] = "lock" /\ at'[p] = b
      /\ \A q \in Procs : q # p => pc'[q] = pc[q] /\ at'[q] = at[q]
  BY <1>b, <1>c DEF CacheTypes
<1>1. CacheTypes'
  <2>1. pc' \in [Procs -> Places] /\ at' \in [Procs -> Bufs \cup {0}]
    BY <1>b, <1>c DEF CacheTypes, Places
  <2>2. refcnt' \in [Bufs -> Nat] BY <1>b, <1>c DEF CacheTypes
  <2> QED BY <2>1, <2>2, <1>b, <1>c DEF CacheTypes
<1>2. LocksExact'
  <2>1. ASSUME NEW q \in Procs
        PROVE  /\ pc'[q] = "idle" <=> at'[q] = 0
               /\ pc'[q] \in Holding => locked'[at'[q]] = q
    <3>1. CASE q = p
      BY <3>1, <1>b, <1>c DEF CacheTypes, Holding, Bufs
    <3>2. CASE q # p BY <3>2, <1>b, <1>c DEF CacheTypes, LocksExact
    <3> QED BY <3>1, <3>2
  <2>2. ASSUME NEW d \in Bufs, locked'[d] # NoProc
        PROVE  at'[locked'[d]] = d /\ pc'[locked'[d]] \in Holding
    <3>1. locked[d] \in Procs /\ at[locked[d]] = d /\ pc[locked[d]] \in Holding
      BY <2>2, <1>b, <1>c DEF CacheTypes, LocksExact
    <3>2. locked[d] # p BY <3>1, <1>a DEF Holding
    <3> QED BY <3>1, <3>2, <1>b, <1>c DEF CacheTypes
  <2> QED BY <2>1, <2>2 DEF LocksExact
<1>3. RefsCounted' /\ OneCopy'
  <2>1. \A c \in Bufs : c # b => Using(c)' = Using(c) /\ PinsOf(c)' = PinsOf(c) /\ refcnt'[c] = refcnt[c]
    BY <1>b, <1>c, <1>d DEF CacheTypes, PinsOf
  <2>2. refcnt'[b] = Cardinality(Using(b))' + PinsOf(b)'
    <3>1. refcnt[b] = Cardinality(Using(b)) + PinsOf(b) /\ PinsOf(b) \in {0, 1}
      BY <1>b, <1>c DEF RefsCounted, PinsOf
    <3>2. PinsOf(b)' = PinsOf(b) BY <1>b DEF PinsOf
    <3>3. refcnt'[b] = refcnt[b] + 1 BY <1>b, <1>c DEF CacheTypes
    <3>4. Cardinality(Using(b))' = Cardinality(Using(b)) + 1 BY <1>b, <1>d
    <3> QED BY <3>1, <3>2, <3>3, <3>4, UsersFinite
  <2>3. \A c \in Bufs : refcnt'[c] = Cardinality(Using(c))' + PinsOf(c)'
    BY <2>1, <2>2, <1>c DEF RefsCounted
  <2>4. /\ \A q \in Procs : at'[q] # 0 => blockno'[at'[q]] \in Blocks
        /\ \A m \in pinned' : \E c \in Bufs : blockno'[c] = m
    BY <1>a, <1>b, <1>c DEF CacheTypes, RefsCounted
  <2>5. OneCopy' BY <1>b, <1>c DEF OneCopy
  <2> QED BY <2>3, <2>4, <2>5 DEF RefsCounted
<1>4. DataExact'
  <2>1. BufLatest'
    BY <1>b, <1>c DEF DataExact, BufLatest
  <2>2. DiskLatest'
    <3>1. \A m : Dirty(m) => Dirty(m)' BY <1>a, <1>b, <1>f DEF Dirty
    <3> QED BY <3>1, <1>b, <1>c DEF DataExact, DiskLatest
  <2>3. DirtyValid'
    BY <1>a, <1>b, <1>c DEF DataExact, DirtyValid, Dirty
  <2>4. StageExact'
    BY <1>a, <1>b, <1>c DEF DataExact, StageExact, After
  <2> QED BY <2>1, <2>2, <2>3, <2>4 DEF DataExact
<1>5. NoLostWakeup'
  BY <1>a, <1>b, <1>c DEF NoLostWakeup
<1> QED BY <1>1, <1>2, <1>3, <1>4, <1>5 DEF CacheInv

(* bget recycles a buffer: nobody uses it, and the disk has its block. *)
LEMMA StepMiss ==
  ASSUME CacheInv, NEW p \in Procs, NEW n \in Blocks, bget_miss(p, n)
  PROVE  CacheInv'
<1>c. CacheTypes /\ LocksExact /\ RefsCounted /\ OneCopy /\ DataExact /\ NoLostWakeup
  BY DEF CacheInv
<1>a. pc[p] = "idle" BY DEF bget_miss
<1>b. PICK b \in Bufs :
        /\ refcnt[b] = 0 /\ \A c \in Bufs : blockno[c] # n
        /\ blockno' = [blockno EXCEPT ![b] = n] /\ valid' = [valid EXCEPT ![b] = 0]
        /\ refcnt' = [refcnt EXCEPT ![b] = 1]
        /\ at' = [at EXCEPT ![p] = b] /\ pc' = [pc EXCEPT ![p] = "lock"]
        /\ UNCHANGED <<data, lru, locked, disk, pinned, latest>>
  <2>1. \A k \in Unused : lru[k] \in Bufs /\ refcnt[lru[k]] = 0 BY <1>c, Zenon DEF Unused, CacheTypes
  <2> QED BY <2>1, Zenon DEF bget_miss, Cached, Recycled, Goto
<1>d. /\ Cardinality(Using(b))' = Cardinality(Using(b)) + 1
      /\ \A c \in Bufs : c # b => Using(c)' = Using(c)
  <2>1. at[p] = 0 BY <1>a, <1>c DEF LocksExact
  <2> QED BY <2>1, <1>b, <1>c, UserEnters, Zenon
<1>e. blockno[b] \notin pinned /\ n \notin pinned /\ \A q \in Procs : at[q] # b
  BY <1>b, <1>c, UnusedFree DEF RefsCounted
<1>f. /\ pc'[p] = "lock" /\ at'[p] = b
      /\ \A q \in Procs : q # p => pc'[q] = pc[q] /\ at'[q] = at[q]
  BY <1>b, <1>c DEF CacheTypes
<1>1. CacheTypes'
  BY <1>a, <1>b, <1>c, <1>e, BcacheAssumption DEF CacheTypes, Places, Holding
<1>2. LocksExact'
  <2>1. ASSUME NEW q \in Procs
        PROVE  /\ pc'[q] = "idle" <=> at'[q] = 0
               /\ pc'[q] \in Holding => locked'[at'[q]] = q
    <3>1. CASE q = p
      BY <3>1, <1>b, <1>c DEF CacheTypes, Holding, Bufs
    <3>2. CASE q # p BY <3>2, <1>b, <1>c DEF CacheTypes, LocksExact
    <3> QED BY <3>1, <3>2
  <2>2. ASSUME NEW d \in Bufs, locked'[d] # NoProc
        PROVE  at'[locked'[d]] = d /\ pc'[locked'[d]] \in Holding
    <3>1. locked[d] \in Procs /\ at[locked[d]] = d /\ pc[locked[d]] \in Holding
      BY <2>2, <1>b, <1>c DEF CacheTypes, LocksExact
    <3>2. locked[d] # p BY <3>1, <1>a DEF Holding
    <3> QED BY <3>1, <3>2, <1>b, <1>c DEF CacheTypes
  <2> QED BY <2>1, <2>2 DEF LocksExact
<1>3. RefsCounted' /\ OneCopy'
  <2>1. \A c \in Bufs : c # b => Using(c)' = Using(c) /\ PinsOf(c)' = PinsOf(c) /\ refcnt'[c] = refcnt[c]
    BY <1>b, <1>c, <1>d DEF CacheTypes, PinsOf
  <2>2. refcnt'[b] = Cardinality(Using(b))' + PinsOf(b)'
    <3>1. Cardinality(Using(b)) = 0
      BY <1>b, <1>c, UsersFinite DEF RefsCounted, PinsOf
    <3>2. PinsOf(b)' = 0 BY <1>b, <1>e, <1>c DEF CacheTypes, PinsOf
    <3>3. refcnt'[b] = 1 BY <1>b, <1>c DEF CacheTypes
    <3> QED BY <3>1, <3>2, <3>3, <1>d
  <2>3. \A c \in Bufs : refcnt'[c] = Cardinality(Using(c))' + PinsOf(c)'
    BY <2>1, <2>2, <1>c DEF RefsCounted
  <2>4. /\ \A q \in Procs : at'[q] # 0 => blockno'[at'[q]] \in Blocks
        /\ \A m \in pinned' : \E c \in Bufs : blockno'[c] = m
    BY <1>b, <1>c, <1>e DEF CacheTypes, RefsCounted
  <2>5. OneCopy' BY <1>b, <1>c DEF CacheTypes, OneCopy
  <2> QED BY <2>3, <2>4, <2>5 DEF RefsCounted
<1>4. DataExact'
  <2>1. BufLatest'
    BY <1>b, <1>c DEF CacheTypes, DataExact, BufLatest
  <2>2. DiskLatest'
    <3>1. ASSUME NEW m, Dirty(m) PROVE Dirty(m)'
      <4>1. ASSUME NEW q \in Procs, pc[q] = "write", blockno[at[q]] = m
            PROVE  pc'[q] = "write" /\ blockno'[at'[q]] = m
        <5>1. q # p /\ at[q] \in Bufs /\ at[q] # b
          BY <4>1, <1>a, <1>c, <1>e DEF CacheTypes, LocksExact
        <5> QED BY <5>1, <4>1, <1>b, <1>c DEF CacheTypes
      <4> QED BY <3>1, <4>1, <1>b DEF Dirty
    <3> QED BY <3>1, <1>b, <1>c DEF DataExact, DiskLatest
  <2>3. DirtyValid'
    BY <1>b, <1>c, <1>e DEF CacheTypes, DataExact, LocksExact, DirtyValid, Dirty
  <2>4. StageExact'
    <3>1. ASSUME NEW q \in Procs, pc'[q] \in After \cup {"read"}
          PROVE  /\ pc'[q] = pc[q] /\ at'[q] = at[q] /\ at[q] \in Bufs
                 /\ valid'[at'[q]] = valid[at[q]] /\ blockno'[at'[q]] = blockno[at[q]]
      <4>1. q # p BY <3>1, <1>f DEF After
      <4>2. pc'[q] = pc[q] /\ at'[q] = at[q] BY <4>1, <1>f
      <4>3. at[q] \in Bufs /\ at[q] # b
        BY <3>1, <4>2, <1>c, <1>e DEF CacheTypes, LocksExact, After
      <4> QED BY <4>2, <4>3, <1>b, <1>c DEF CacheTypes
    <3>2. disk' = disk /\ latest' = latest /\ pinned' = pinned BY <1>b
    <3>3. StageExact BY <1>c DEF DataExact
    <3> QED BY <3>1, <3>2, <3>3, Zenon DEF StageExact, After
  <2> QED BY <2>1, <2>2, <2>3, <2>4 DEF DataExact
<1>5. NoLostWakeup'
  BY <1>b, <1>c, <1>f DEF NoLostWakeup
<1> QED BY <1>1, <1>2, <1>3, <1>4, <1>5 DEF CacheInv

(* brelse drops the reference of one user. *)
LEMMA StepDrop ==
  ASSUME CacheInv, NEW p \in Procs, brelse(p)
  PROVE  CacheInv'
<1>c. CacheTypes /\ LocksExact /\ RefsCounted /\ OneCopy /\ DataExact /\ NoLostWakeup
  BY DEF CacheInv
<1>a. pc[p] = "drop" BY DEF brelse
<1>b. PICK b \in Bufs :
        /\ at[p] = b
        /\ refcnt' = [refcnt EXCEPT ![b] = @ - 1]
        /\ lru' = ToFront(b) \/ lru' = lru
        /\ at' = [at EXCEPT ![p] = 0] /\ pc' = [pc EXCEPT ![p] = "idle"]
        /\ UNCHANGED <<blockno, valid, data, locked, disk, pinned, latest>>
  <2>1. at[p] \in Bufs BY <1>a, <1>c DEF CacheTypes, LocksExact
  <2> QED BY <2>1, Zenon DEF brelse, Goto
<1>d. /\ Cardinality(Using(b))' = Cardinality(Using(b)) - 1
      /\ Cardinality(Using(b)) - 1 \in Nat
      /\ \A c \in Bufs : c # b => Using(c)' = Using(c)
  BY <1>b, <1>c, UserLeaves, Zenon
<1>f. /\ pc'[p] = "idle" /\ at'[p] = 0
      /\ \A q \in Procs : q # p => pc'[q] = pc[q] /\ at'[q] = at[q]
  BY <1>b, <1>c DEF CacheTypes
<1>1. CacheTypes'
  <2>1. ToFront(b) \in [1..NBUF -> Bufs]
    <3>1. \A j \in 1..NBUF : lru[j] \in Bufs /\ (j # 1 => lru[j - 1] \in Bufs)
      BY <1>c, BcacheAssumption DEF CacheTypes
    <3> QED BY <3>1 DEF ToFront
  <2>2. refcnt[b] - 1 \in Nat
    <3>1. refcnt[b] = Cardinality(Using(b)) + PinsOf(b) /\ PinsOf(b) \in {0, 1}
      BY <1>b, <1>c DEF RefsCounted, PinsOf
    <3> QED BY <3>1, <1>d, UsersFinite
  <2>3. refcnt' \in [Bufs -> Nat] /\ lru' \in [1..NBUF -> Bufs]
    BY <2>1, <2>2, <1>b, <1>c DEF CacheTypes
  <2> QED BY <2>3, <1>b, <1>c DEF CacheTypes, Places
<1>2. LocksExact'
  BY <1>a, <1>b, <1>c DEF CacheTypes, LocksExact, Holding
<1>3. RefsCounted' /\ OneCopy'
  <2>1. \A c \in Bufs : c # b => Using(c)' = Using(c) /\ PinsOf(c)' = PinsOf(c) /\ refcnt'[c] = refcnt[c]
    BY <1>b, <1>c, <1>d DEF CacheTypes, PinsOf
  <2>2. refcnt'[b] = Cardinality(Using(b))' + PinsOf(b)'
    <3>1. refcnt[b] = Cardinality(Using(b)) + PinsOf(b) /\ PinsOf(b) \in {0, 1}
      BY <1>b, <1>c DEF RefsCounted, PinsOf
    <3>2. PinsOf(b)' = PinsOf(b) BY <1>b DEF PinsOf
    <3>3. refcnt'[b] = refcnt[b] - 1 BY <1>b, <1>c DEF CacheTypes
    <3>4. Cardinality(Using(b))' = Cardinality(Using(b)) - 1 BY <1>b, <1>d
    <3> QED BY <3>1, <3>2, <3>3, <3>4, UsersFinite
  <2>3. \A c \in Bufs : refcnt'[c] = Cardinality(Using(c))' + PinsOf(c)'
    BY <2>1, <2>2, <1>c DEF RefsCounted
  <2>4. /\ \A q \in Procs : at'[q] # 0 => blockno'[at'[q]] \in Blocks
        /\ \A m \in pinned' : \E c \in Bufs : blockno'[c] = m
    BY <1>a, <1>b, <1>c DEF CacheTypes, RefsCounted
  <2>5. OneCopy' BY <1>b, <1>c DEF OneCopy
  <2> QED BY <2>3, <2>4, <2>5 DEF RefsCounted
<1>4. DataExact'
  <2>1. BufLatest'
    BY <1>b, <1>c DEF DataExact, BufLatest
  <2>2. DiskLatest'
    <3>1. \A m : Dirty(m) => Dirty(m)' BY <1>a, <1>b, <1>f DEF Dirty
    <3> QED BY <3>1, <1>b, <1>c DEF DataExact, DiskLatest
  <2>3. DirtyValid'
    BY <1>a, <1>b, <1>c DEF DataExact, DirtyValid, Dirty
  <2>4. StageExact'
    BY <1>a, <1>b, <1>c DEF DataExact, StageExact, After
  <2> QED BY <2>1, <2>2, <2>3, <2>4 DEF DataExact
<1>5. NoLostWakeup'
  BY <1>a, <1>b, <1>c DEF NoLostWakeup
<1> QED BY <1>1, <1>2, <1>3, <1>4, <1>5 DEF CacheInv

-----------------------------------------------------------------------------
(* The invariant of the cache holds in every state, whatever the steps of  *)
(* bget, bread, bwrite, log_write, bunpin and brelse interleave.           *)
THEOREM CacheInvariant == Spec => []CacheInv
<1>1. Init => CacheInv
  <2> SUFFICES ASSUME Init PROVE CacheInv OBVIOUS
  <2> USE BcacheAssumption
  <2>1. CacheTypes BY DEF Init, CacheTypes, Places, Bufs
  <2>2. LocksExact BY DEF Init, LocksExact, Holding
  <2>3. RefsCounted
    <3>1. ASSUME NEW b \in Bufs PROVE refcnt[b] = Cardinality(Using(b)) + PinsOf(b)
      <4>1. Using(b) = {} BY DEF Init, Using, Bufs
      <4>2. refcnt[b] = 0 /\ PinsOf(b) = 0 BY DEF Init, PinsOf
      <4> QED BY <4>1, <4>2, FS_EmptySet
    <3> QED BY <3>1 DEF Init, RefsCounted
  <2>4. OneCopy BY DEF Init, OneCopy
  <2>5. DataExact
    BY DEF Init, DataExact, BufLatest, DiskLatest, DirtyValid, StageExact, Dirty, After
  <2>6. NoLostWakeup BY DEF Init, NoLostWakeup
  <2> QED BY <2>1, <2>2, <2>3, <2>4, <2>5, <2>6 DEF CacheInv
<1>2. CacheInv /\ [Next]_vars => CacheInv'
  <2> SUFFICES ASSUME CacheInv, [Next]_vars PROVE CacheInv' OBVIOUS
  <2>1. CASE Next
    BY <2>1, StepHit, StepMiss, StepAcquire, StepRead, StepReadDone, StepWrite,
       StepLogWrite, StepInstall, StepBwrite, StepUnpin, StepRelease, StepDrop DEF
       Next
  <2>2. CASE UNCHANGED vars
    <3>1. UNCHANGED <<blockno, valid, refcnt, data, lru, locked, disk, pc, at, pinned, latest>>
      BY <2>2 DEF vars, struct
    <3>2. RefsCounted' /\ OneCopy' BY <3>1, RefsKept DEF CacheInv
    <3>3. CacheTypes' /\ LocksExact' /\ NoLostWakeup'
      BY <3>1 DEF CacheInv, CacheTypes, LocksExact, NoLostWakeup
    <3>4. DataExact'
      BY <3>1 DEF CacheInv, DataExact, BufLatest, DiskLatest, DirtyValid,
         StageExact, Dirty
    <3> QED BY <3>2, <3>3, <3>4 DEF CacheInv
  <2> QED BY <2>1, <2>2
<1> QED BY <1>1, <1>2, PTL DEF Spec

(* bget and brelse keep one copy of a block and count its users exactly,   *)
(* and a holder of a buffer after bread sees the last content of its block *)
(* however often the block has been evicted in between.                    *)
THEOREM CacheCoherent == Spec => []Coherent
<1>1. CacheInv => Coherent
  <2> SUFFICES ASSUME CacheInv PROVE Coherent OBVIOUS
  <2>1. RefsExact
    <3>1. ASSUME NEW b \in Bufs
          PROVE  /\ refcnt[b] = Cardinality(Using(b)) + IF blockno[b] \in pinned THEN 1 ELSE 0
                 /\ {p \in Using(b) : pc[p] \in Holding}
                      = IF locked[b] = NoProc THEN {} ELSE {locked[b]}
      <4>1. refcnt[b] = Cardinality(Using(b)) + IF blockno[b] \in pinned THEN 1 ELSE 0
        BY DEF CacheInv, RefsCounted, PinsOf
      <4>2. {p \in Using(b) : pc[p] \in Holding}
              = IF locked[b] = NoProc THEN {} ELSE {locked[b]}
        BY BcacheAssumption DEF CacheInv, CacheTypes, LocksExact, Using
      <4> QED BY <4>1, <4>2
    <3> QED BY <3>1 DEF RefsExact
  <2>2. ReadsLatest
    <3>1. ASSUME NEW p \in Procs, pc[p] \in After PROVE data[at[p]] = latest[blockno[at[p]]]
      <4>1. at[p] \in Bufs
        BY <3>1 DEF CacheInv, CacheTypes, LocksExact, After
      <4> QED BY <3>1, <4>1 DEF CacheInv, DataExact, BufLatest, StageExact
    <3> QED BY <3>1 DEF ReadsLatest, After
  <2> QED BY <2>1, <2>2 DEF Coherent, CacheInv
<1> QED BY <1>1, CacheInvariant, PTL

(* Nobody sleeps in acquiresleep for a buffer that nobody holds.           *)
THEOREM SleepersWoken == Spec => []NoLostWakeup
<1>1. CacheInv => NoLostWakeup BY DEF CacheInv
<1> QED BY <1>1, CacheInvariant, PTL

=============================================================================
