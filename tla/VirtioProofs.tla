---------------------------- MODULE VirtioProofs ----------------------------
(***************************************************************************)
(* The disk driver for any number of processes, any number of descriptors  *)
(* and any width of the ring indexes that is a larger multiple of it, as   *)
(* 2^16 is of NUM.  The argument is a count: a request under way is in the *)
(* avail ring, with the device, in the used ring or finished, and has      *)
(* three descriptors; so a ring never has more than NUM entries, and no    *)
(* entry is lost or read twice.                                            *)
(***************************************************************************)
EXTENDS Virtio, FiniteSetTheorems, TLAPS

(* How far index k is ahead of index i. *)
Ahead(i, k) == IF i <= k THEN k - i ELSE k - i + IDX

(* The entries from index i up to index j wait for their reader. *)
Pending(r, i, j) == \A k \in Index : Ahead(i, k) < Ahead(i, j) => r[k % NUM] # End

Done == {p \in Submitted : busy[p] = 0}

Places == {"idle", "alloc", "asleep_free", "asleep", "wait"}

(* What the proofs need to know of the types. *)
VirtioTypes ==
  /\ free \in SUBSET Desc /\ working \in SUBSET Desc
  /\ next \in [Desc -> Desc \cup {End}]
  /\ addr \in [Desc -> Procs \cup {NoProc}]
  /\ info \in [Desc -> [b : Procs \cup {NoProc}, status : {0, 255}]]
  /\ avail \in [Desc -> Desc \cup {End}] /\ used \in [Desc -> Desc \cup {End}]
  /\ avail_idx \in Index /\ taken \in Index /\ used_at \in Index /\ used_idx \in Index
  /\ busy \in [Procs -> {0, 1}]
  /\ pc \in [Procs -> Places]
  /\ idx \in [Procs -> Desc]

(* The chain of p has three descriptors, of which the device and the       *)
(* interrupt handler find p in the first two.                              *)
OwnChain(p) ==
  LET h == idx[p]
      m == next[h]
      t == next[m]
  IN  /\ m \in Desc /\ t \in Desc /\ h # m /\ m # t /\ h # t
      /\ info[h].b = p /\ addr[m] = p

(* Every request has a chain, and shares no descriptor of it. *)
ChainExact ==
  /\ \A p \in Submitted : OwnChain(p) /\ Chain(idx[p]) \cap free = {}
  /\ \A p, q \in Submitted : p # q => Chain(idx[p]) \cap Chain(idx[q]) = {}
  /\ \A i \in Desc : i \in free \/ \E p \in Submitted : i \in Chain(idx[p])

(* The two conservation laws. *)
CountExact ==
  /\ IsFiniteSet(free) /\ IsFiniteSet(Submitted) /\ IsFiniteSet(working) /\ IsFiniteSet(Done)
  /\ Cardinality(free) + 3 * Cardinality(Submitted) = NUM
  /\ Ahead(taken, avail_idx) + Cardinality(working) + Ahead(used_idx, used_at)
       + Cardinality(Done) = Cardinality(Submitted)

(* A chain on its way is in one entry of one ring, or with the device. *)
OnePlace ==
  /\ \A s, t \in Desc : avail[s] = avail[t] /\ avail[s] # End => s = t
  /\ \A s, t \in Desc : used[s] = used[t] /\ used[s] # End => s = t
  /\ \A s, t \in Desc : avail[s] = used[t] => avail[s] = End
  /\ \A s \in Desc : avail[s] \notin working /\ used[s] \notin working

Heads == {x \in Desc : x \in working \/ \E s \in Desc : avail[s] = x \/ used[s] = x}

(* It is the chain of a request that is not finished, and in the used ring *)
(* of one that the device has served.                                      *)
HeadsExact ==
  /\ \A x \in Heads : info[x].b \in Submitted /\ idx[info[x].b] = x /\ busy[info[x].b] = 1
  /\ \A s \in Desc : used[s] # End => info[used[s]].status = 0 /\ info[used[s]].b \in served

(* The rings, and what the sleepers and the interrupt line depend on. *)
RingsExact ==
  /\ panic = "none"
  /\ Pending(avail, taken, avail_idx) /\ Pending(used, used_idx, used_at)

WaitExact ==
  /\ \A p \in Done : p \in served /\ pc[p] = "wait"
  /\ \A p \in Procs : pc[p] = "asleep_free" => Cardinality(free) < 3
  /\ used_idx # used_at /\ intr # 1 => irq = 1

VirtioInv ==
  /\ VirtioTypes /\ ChainExact /\ CountExact /\ OnePlace /\ HeadsExact
  /\ RingsExact /\ WaitExact

-----------------------------------------------------------------------------
(* Indexes and slots. *)

LEMMA Positive ==
  /\ NUM \in Nat \ {0} /\ IDX \in Nat \ {0} /\ NUM < IDX
  /\ End \notin Desc /\ \A i \in Desc \cup {End} : i # End => i \in Desc
BY VirtioAssumption DEF End, Desc

LEMMA SlotType == ASSUME NEW i \in Index PROVE i % NUM \in Desc
BY Positive DEF Index, Desc

LEMMA IncIs ==
  ASSUME NEW i \in Index
  PROVE  Inc(i) \in Index /\ Inc(i) = IF i + 1 = IDX THEN 0 ELSE i + 1
<1>1. i \in Nat /\ i < IDX /\ IDX \in Nat \ {0}
  BY Positive, SMT DEF Index
<1>2. CASE i + 1 = IDX
  BY <1>2 DEF Inc, Index
<1>3. CASE i + 1 < IDX
  BY <1>1 DEF Inc, Index
<1> QED BY <1>1, <1>2, <1>3

(* No multiple of n lies strictly between 0 and n. *)
LEMMA NoMultiple ==
  ASSUME NEW n \in Nat, NEW w \in Int, n * w > 0, n * w < n
  PROVE  FALSE
<1>1. CASE w >= 1
  <2>1. n * w = n + n * (w - 1)
    BY SMT
  <2>2. n * (w - 1) >= 0
    BY <1>1, SMT
  <2> QED BY <2>1, <2>2, SMT
<1>2. CASE w <= 0
  <2>1. n * (0 - w) >= 0
    BY <1>2, SMT
  <2>2. n * w = 0 - n * (0 - w)
    BY SMT
  <2> QED BY <2>1, <2>2, SMT
<1> QED BY <1>1, <1>2, SMT

(* Indexes less than NUM apart have different slots, also across the wrap. *)
LEMMA SlotsDiffer ==
  ASSUME NEW i \in Index, NEW k \in Index, i # k, Ahead(i, k) < NUM
  PROVE  i % NUM # k % NUM
<1> DEFINE x == i \div NUM
           y == k \div NUM
           z == IDX \div NUM
           r == i % NUM
<1>1. NUM \in Nat /\ NUM > 0 /\ IDX \in Nat /\ IDX % NUM = 0 /\ i \in Nat /\ k \in Nat
      /\ i < IDX /\ k < IDX
  BY VirtioAssumption, SMT DEF Index
<1>2. x \in Int /\ y \in Int /\ z \in Int /\ r \in Int /\ k % NUM \in Int
  BY <1>1, SMT
<1>3. i = NUM * x + r /\ k = NUM * y + (k % NUM) /\ IDX = NUM * z
  BY <1>1, SMT
<1>4. SUFFICES ASSUME k % NUM = r PROVE FALSE
  OBVIOUS
<1> HIDE DEF x, y, z, r
<1>5. CASE i < k
  <2>1. Ahead(i, k) = NUM * (y - x)
    BY <1>1, <1>2, <1>3, <1>4, <1>5 DEF Ahead
  <2>2. Ahead(i, k) > 0
    BY <1>1 DEF Ahead
  <2> QED BY <1>1, <1>2, <2>1, <2>2
<1>6. CASE k < i
  <2>1. Ahead(i, k) = NUM * (y - x + z)
    BY <1>1, <1>2, <1>3, <1>4, <1>6, SMT DEF Ahead
  <2>2. Ahead(i, k) > 0
    BY <1>1 DEF Ahead
  <2> QED BY <1>1, <1>2, <2>1, <2>2
<1> QED BY <1>1, <1>5, <1>6

(* The writer of a ring adds an entry while fewer than NUM are pending. *)
LEMMA RingPut ==
  ASSUME NEW f \in [Desc -> Desc \cup {End}], NEW i \in Index, NEW j \in Index,
         Pending(f, i, j), Ahead(i, j) < NUM, NEW x \in Desc
  PROVE  /\ Pending([f EXCEPT ![j % NUM] = x], i, Inc(j))
         /\ Ahead(i, Inc(j)) = Ahead(i, j) + 1
<1> USE Positive
<1>1. Ahead(i, Inc(j)) = Ahead(i, j) + 1
  BY IncIs DEF Ahead, Index
<1>2. ASSUME NEW k \in Index, Ahead(i, k) < Ahead(i, Inc(j)), k # j
      PROVE  Ahead(i, k) < Ahead(i, j)
  BY <1>1, <1>2 DEF Ahead, Index
<1>3. ASSUME NEW k \in Index, Ahead(i, k) < Ahead(i, Inc(j))
      PROVE  [f EXCEPT ![j % NUM] = x][k % NUM] # End
  BY <1>2, <1>3, SlotType DEF Pending
<1> QED BY <1>1, <1>3 DEF Pending

(* Its reader finds an entry and takes it. *)
LEMMA RingGet ==
  ASSUME NEW f \in [Desc -> Desc \cup {End}], NEW i \in Index, NEW j \in Index,
         Pending(f, i, j), Ahead(i, j) <= NUM, i # j
  PROVE  /\ f[i % NUM] \in Desc
         /\ Pending([f EXCEPT ![i % NUM] = End], Inc(i), j)
         /\ Ahead(Inc(i), j) = Ahead(i, j) - 1
<1> USE Positive
<1>1. Ahead(i, i) = 0 /\ Ahead(i, j) > 0 /\ Ahead(Inc(i), j) = Ahead(i, j) - 1
  BY IncIs DEF Ahead, Index
<1>2. f[i % NUM] \in Desc
  BY <1>1, SlotType DEF Pending
<1>3. ASSUME NEW k \in Index, Ahead(Inc(i), k) < Ahead(Inc(i), j)
      PROVE  k # i /\ Ahead(i, k) < Ahead(i, j) /\ Ahead(i, k) < NUM
  BY <1>3, IncIs DEF Ahead, Index
<1>4. ASSUME NEW k \in Index, Ahead(Inc(i), k) < Ahead(Inc(i), j)
      PROVE  [f EXCEPT ![i % NUM] = End][k % NUM] # End
  <2>1. i % NUM # k % NUM
    BY <1>3, <1>4, SlotsDiffer
  <2> QED BY <1>3, <1>4, <2>1 DEF Pending
<1> QED BY <1>1, <1>2, <1>4 DEF Pending

-----------------------------------------------------------------------------
(* The invariant holds initially and implies what is claimed. *)

(* The chain of a request is its three descriptors. *)
LEMMA ChainIs ==
  ASSUME VirtioInv, NEW p \in Submitted
  PROVE  /\ p \in Procs /\ idx[p] \in Desc /\ OwnChain(p)
         /\ Chain(idx[p]) = {idx[p], next[idx[p]], next[next[idx[p]]]}
         /\ Chain(idx[p]) \subseteq Desc /\ Chain(idx[p]) \cap free = {}
<1>1. p \in Procs /\ idx[p] \in Desc
  BY DEF VirtioInv, VirtioTypes, Submitted
<1>2. OwnChain(p) /\ Chain(idx[p]) \cap free = {}
  BY DEF VirtioInv, ChainExact
<1>3. Chain(idx[p]) = {idx[p], next[idx[p]], next[next[idx[p]]]}
  BY <1>2, Positive DEF Chain, OwnChain
<1> QED BY <1>1, <1>2, <1>3 DEF OwnChain

(* A step that changes other descriptors keeps the chain. *)
LEMMA ChainKept ==
  ASSUME VirtioInv, NEW p \in Submitted, idx'[p] = idx[p],
         NEW D, Chain(idx[p]) \cap D = {},
         \A i \in Desc : i \notin D => /\ next'[i] = next[i] /\ addr'[i] = addr[i]
                                       /\ info'[i].b = info[i].b
  PROVE  OwnChain(p)' /\ Chain(idx[p])' = Chain(idx[p])
<1> DEFINE h == idx[p]
           m == next[h]
           t == next[m]
<1>1. Chain(h) = {h, m, t} /\ Chain(h) \subseteq Desc /\ OwnChain(p)
  BY ChainIs
<1>2. next'[h] = m /\ next'[m] = t /\ addr'[m] = addr[m] /\ info'[h].b = info[h].b
  BY <1>1
<1>3. Chain(idx[p])' = Chain(idx[p])
  BY <1>2 DEF Chain
<1> QED BY <1>1, <1>3 DEF OwnChain

(* The counts bound what is pending in the rings. *)
LEMMA Bounds ==
  ASSUME VirtioInv
  PROVE  /\ Cardinality(free) \in Nat /\ Cardinality(Submitted) \in Nat
         /\ Cardinality(working) \in Nat /\ Cardinality(Done) \in Nat
         /\ Cardinality(free) + 3 * Cardinality(Submitted) = NUM
         /\ Ahead(taken, avail_idx) + Cardinality(working) + Ahead(used_idx, used_at)
              + Cardinality(Done) = Cardinality(Submitted)
         /\ Ahead(taken, avail_idx) \in 0..NUM /\ Ahead(used_idx, used_at) \in 0..NUM
         /\ Cardinality(free) >= 3 => Ahead(taken, avail_idx) < NUM
         /\ working # {} => Ahead(used_idx, used_at) < NUM
<1>1. /\ Cardinality(free) \in Nat /\ Cardinality(Submitted) \in Nat
      /\ Cardinality(working) \in Nat /\ Cardinality(Done) \in Nat
      /\ working # {} => Cardinality(working) # 0
  BY FS_CardinalityType, FS_EmptySet DEF VirtioInv, CountExact
<1>2. Ahead(taken, avail_idx) \in Nat /\ Ahead(used_idx, used_at) \in Nat
  BY Positive DEF VirtioInv, VirtioTypes, Ahead, Index
<1>3. /\ Cardinality(free) + 3 * Cardinality(Submitted) = NUM
      /\ Ahead(taken, avail_idx) + Cardinality(working) + Ahead(used_idx, used_at)
           + Cardinality(Done) = Cardinality(Submitted)
  BY DEF VirtioInv, CountExact
<1> QED BY <1>1, <1>2, <1>3, Positive

LEMMA UsedHead == ASSUME VirtioInv, NEW r \in Desc, used[r] # End PROVE used[r] \in Heads
BY DEF VirtioInv, VirtioTypes, Heads

LEMMA ThreeMore ==
  ASSUME NEW S, IsFiniteSet(S), NEW a, NEW b, NEW c, a \notin S, b \notin S, c \notin S,
         a # b, b # c, a # c
  PROVE  /\ IsFiniteSet(S \cup {a, b, c})
         /\ Cardinality(S \cup {a, b, c}) = Cardinality(S) + 3
<1> DEFINE F == S \cup {a}
           G == F \cup {b}
<1>1. IsFiniteSet(F) /\ Cardinality(F) = Cardinality(S) + 1
  BY FS_AddElement
<1>2. b \notin F /\ c \notin G /\ S \cup {a, b, c} = G \cup {c}
  OBVIOUS
<1> HIDE DEF F
<1>3. IsFiniteSet(G) /\ Cardinality(G) = Cardinality(F) + 1
  BY <1>1, <1>2, FS_AddElement
<1> HIDE DEF G
<1>4. IsFiniteSet(G \cup {c}) /\ Cardinality(G \cup {c}) = Cardinality(G) + 1
  BY <1>2, <1>3, FS_AddElement
<1>5. Cardinality(S) \in Nat
  BY FS_CardinalityType
<1> QED BY <1>1, <1>2, <1>3, <1>4, <1>5

LEMMA InitInv == Init => VirtioInv
<1> SUFFICES ASSUME Init PROVE VirtioInv
  OBVIOUS
<1> USE Positive
<1>1. VirtioTypes
  BY DEF Init, VirtioTypes, Places, Index, Desc
<1>2. Submitted = {} /\ Done = {}
  BY DEF Init, Submitted, Done
<1>3. IsFiniteSet(Desc) /\ Cardinality(Desc) = NUM
  BY FS_Interval, SMT DEF Desc
<1>4. ChainExact
  BY <1>2 DEF Init, ChainExact
<1>5. Ahead(0, 0) = 0
  BY DEF Ahead
<1>6. CountExact
  BY <1>2, <1>3, <1>5, FS_EmptySet DEF Init, CountExact
<1>7. OnePlace /\ HeadsExact
  BY DEF Init, OnePlace, HeadsExact, Heads
<1>8. RingsExact
  <2>1. ASSUME NEW k \in Index PROVE ~(Ahead(0, k) < Ahead(0, 0))
    BY DEF Ahead, Index
  <2> QED BY <2>1 DEF Init, RingsExact, Pending
<1>9. WaitExact
  BY <1>2 DEF Init, WaitExact
<1> QED BY <1>1, <1>4, <1>6, <1>7, <1>8, <1>9 DEF VirtioInv

LEMMA InvDescs == VirtioInv => DescsConserved
<1> SUFFICES ASSUME VirtioInv PROVE DescsConserved
  OBVIOUS
<1>1. free \cup UNION {Chain(idx[p]) : p \in Submitted} \subseteq Desc
  BY ChainIs DEF VirtioInv, VirtioTypes
<1>2. Desc \subseteq free \cup UNION {Chain(idx[p]) : p \in Submitted}
  BY DEF VirtioInv, ChainExact
<1> QED BY <1>1, <1>2 DEF VirtioInv, CountExact, RingsExact, DescsConserved

LEMMA InvWakeup == VirtioInv => NoLostWakeup
<1> SUFFICES ASSUME VirtioInv PROVE NoLostWakeup
  OBVIOUS
<1>1. ASSUME NEW p \in Procs, pc[p] = "asleep" PROVE busy[p] = 1
  <2>1. p \in Submitted /\ p \notin Done
    BY <1>1 DEF VirtioInv, WaitExact, Submitted
  <2> QED BY <2>1 DEF Done, VirtioInv, VirtioTypes
<1> QED BY <1>1 DEF VirtioInv, WaitExact, NoLostWakeup

-----------------------------------------------------------------------------
(* What keeps the chains. *)
LEMMA ChainsKept ==
  ASSUME VirtioInv, UNCHANGED <<free, next, addr, idx>>, Submitted' = Submitted,
         \A i \in Desc : info'[i].b = info[i].b
  PROVE  ChainExact'
<1>1. ASSUME NEW p \in Submitted PROVE OwnChain(p)' /\ Chain(idx[p])' = Chain(idx[p])
  <2>1. Chain(idx[p]) \cap {} = {} /\ idx'[p] = idx[p]
    OBVIOUS
  <2>2. \A i \in Desc : i \notin {} => /\ next'[i] = next[i] /\ addr'[i] = addr[i]
                                       /\ info'[i].b = info[i].b
    OBVIOUS
  <2> QED BY <2>1, <2>2, ChainKept, Zenon
<1>2. free' = free
  OBVIOUS
<1> QED BY <1>1 DEF VirtioInv, ChainExact

(* Steps that move no request and no descriptor: the calls, a failed       *)
(* alloc3_desc, kill, and the interrupt handler around its loop.           *)
LEMMA Quiet ==
  ASSUME VirtioInv, UNCHANGED <<descs, rings, used_idx, taken, working, served, busy, idx, panic>>,
         pc' \in [Procs -> Places], Submitted' = Submitted, WaitExact'
  PROVE  VirtioInv'
<1> USE DEF descs, rings
<1>1. VirtioTypes'
  BY DEF VirtioInv, VirtioTypes
<1>2. Done' = Done
  BY DEF Done
<1>3. ChainExact'
  BY ChainsKept
<1>4. CountExact'
  BY <1>2 DEF VirtioInv, CountExact
<1>5. OnePlace' /\ HeadsExact'
  BY DEF VirtioInv, OnePlace, HeadsExact, Heads
<1>6. RingsExact'
  BY DEF VirtioInv, RingsExact
<1> QED BY <1>1, <1>3, <1>4, <1>5, <1>6 DEF VirtioInv

LEMMA QuietSteps ==
  ASSUME VirtioInv, NEW p \in Procs,
         virtio_disk_rw(p) \/ alloc_fail(p) \/ wait(p) \/ kill(p)
  PROVE  VirtioInv'
<1> USE DEF descs, rings, device
<1>1. /\ UNCHANGED <<descs, rings, used_idx, device, busy, idx, intr, panic>>
  BY DEF virtio_disk_rw, alloc_fail, wait, kill
<1> DEFINE Out == {"idle", "alloc", "asleep_free"}
           In == {"asleep", "wait"}
           Moved(q) == \/ pc'[q] = pc[q]
                       \/ pc[q] \in Out /\ pc'[q] \in Out \ {"asleep_free"}
                       \/ pc[q] \in Out /\ pc'[q] \in Out /\ Cardinality(free) < 3
                       \/ pc[q] \in In /\ pc'[q] \in In /\ (pc'[q] = "wait" \/ busy[q] = 1)
<1> HIDE DEF Out, In
<1>2. pc \in [Procs -> Places] /\ Places = Out \cup In
  BY DEF VirtioInv, VirtioTypes, Places, Out, In
<1>3. pc' \in [Procs -> Places] /\ \A q \in Procs : Moved(q)
  <2>1. CASE virtio_disk_rw(p)
    BY <1>2, <2>1 DEF virtio_disk_rw, Out
  <2>2. CASE alloc_fail(p)
    <3> DEFINE w == IF free = {} THEN pc ELSE wakeup_free(pc)
    <3>1. w \in [Procs -> Places]
      BY <1>2 DEF wakeup_free, Out
    <3>2. \A q \in Procs : w[q] = pc[q] \/ (pc[q] = "asleep_free" /\ w[q] = "alloc")
      BY DEF wakeup_free
    <3>3. pc' = [w EXCEPT ![p] = "asleep_free"] /\ pc[p] = "alloc" /\ Cardinality(free) < 3
      BY <2>2 DEF alloc_fail
    <3> HIDE DEF w
    <3> QED BY <1>2, <3>1, <3>2, <3>3 DEF Out
  <2>3. CASE wait(p)
    BY <1>2, <2>3 DEF wait, In
  <2>4. CASE kill(p)
    BY <1>2, <2>4 DEF kill, Out, In
  <2> QED BY <2>1, <2>2, <2>3, <2>4
<1>4. Submitted' = Submitted
  BY <1>3 DEF Submitted, Out, In
<1>5. Done' = Done
  BY <1>1, <1>4 DEF Done
<1>6. \A q \in Done : pc'[q] = "wait"
  <2>1. \A q \in Done : q \in Procs /\ busy[q] = 0 /\ pc[q] = "wait"
    BY DEF VirtioInv, WaitExact, Done, Submitted
  <2> QED BY <1>3, <2>1 DEF Out
<1>7. \A q \in Procs : pc'[q] = "asleep_free" => Cardinality(free) < 3
  BY <1>3 DEF VirtioInv, WaitExact, In
<1>8. WaitExact'
  BY <1>1, <1>5, <1>6, <1>7 DEF VirtioInv, WaitExact
<1> QED BY <1>1, <1>3, <1>4, <1>8, Quiet

LEMMA IntrSteps ==
  ASSUME VirtioInv, intr_ack \/ intr_seen \/ intr_release \/ UNCHANGED vars
  PROVE  VirtioInv'
<1> USE DEF descs, rings, device
<1>1. UNCHANGED <<descs, rings, used_idx, taken, working, served, busy, pc, idx, panic>>
  BY DEF intr_ack, intr_seen, intr_release, vars
<1>2. Submitted' = Submitted /\ pc' \in [Procs -> Places]
  BY <1>1 DEF Submitted, VirtioInv, VirtioTypes
<1>3. Done' = Done
  BY <1>1, <1>2 DEF Done
<1>4. used_idx' # used_at' /\ intr' # 1 => irq' = 1
  BY DEF VirtioInv, WaitExact, intr_ack, intr_seen, intr_release, vars
<1>5. WaitExact'
  BY <1>1, <1>3, <1>4 DEF VirtioInv, WaitExact
<1> QED BY <1>1, <1>2, <1>5, Quiet

-----------------------------------------------------------------------------
(* The device and the loop of virtio_disk_intr. *)

LEMMA TakeInv == ASSUME VirtioInv, device_take PROVE VirtioInv'
<1> DEFINE s == taken % NUM
           x == avail[s]
<1> USE DEF descs
<1>1. /\ UNCHANGED <<descs, avail_idx, used, used_at, used_idx, served, irq, busy, pc, idx, intr>>
      /\ taken # avail_idx /\ taken' = Inc(taken) /\ avail' = [avail EXCEPT ![s] = End]
  BY DEF device_take
<1>2. /\ avail \in [Desc -> Desc \cup {End}] /\ taken \in Index /\ avail_idx \in Index
      /\ Pending(avail, taken, avail_idx) /\ Ahead(taken, avail_idx) <= NUM
  BY Bounds DEF VirtioInv, VirtioTypes, RingsExact
<1>3. /\ x \in Desc /\ Pending(avail', taken', avail_idx)
      /\ Ahead(taken', avail_idx) = Ahead(taken, avail_idx) - 1
  BY <1>1, <1>2, RingGet, Zenon
<1>4. /\ s \in Desc /\ x # End /\ x \notin working /\ taken' \in Index
      /\ working' = working \cup {x} /\ panic' = panic
  BY <1>2, <1>3, Positive, SlotType, IncIs DEF device_take, VirtioInv, OnePlace
<1>5. \A r \in Desc : avail'[r] = IF r = s THEN End ELSE avail[r]
  BY <1>1, <1>2
<1> HIDE DEF x, s
<1>6. Submitted' = Submitted /\ Done' = Done
  BY <1>1 DEF Submitted, Done
<1>7. VirtioTypes' /\ ChainExact'
  BY <1>1, <1>3, <1>4, <1>6, ChainsKept DEF VirtioInv, VirtioTypes
<1>8. CountExact'
  <2>1. IsFiniteSet(working') /\ Cardinality(working') = Cardinality(working) + 1
    BY <1>4, FS_AddElement DEF VirtioInv, CountExact
  <2> QED BY <1>1, <1>3, <1>6, <2>1, Bounds DEF VirtioInv, CountExact, Ahead
<1>9. OnePlace'
  <2>1. End \notin working
    BY Positive DEF VirtioInv, VirtioTypes
  <2>2. \A r \in Desc : avail'[r] # x /\ used[r] # x /\ (avail'[r] = avail[r] \/ avail'[r] = End)
    BY <1>4, <1>5 DEF VirtioInv, OnePlace, x
  <2> QED BY <1>1, <1>4, <2>1, <2>2 DEF VirtioInv, OnePlace
<1>10. HeadsExact'
  <2>1. ASSUME NEW j \in Heads' PROVE j \in Heads
    <3>1. j \in Desc /\ (j \in working \/ j = x \/ \E r \in Desc : avail[r] = j \/ used[r] = j)
      BY <1>1, <1>4, Positive DEF Heads
    <3> QED BY <1>4, <3>1 DEF Heads, x
  <2> QED BY <1>1, <1>6, <2>1 DEF VirtioInv, HeadsExact
<1>11. RingsExact' /\ WaitExact'
  BY <1>1, <1>3, <1>4, <1>6 DEF VirtioInv, RingsExact, WaitExact
<1> QED BY <1>7, <1>8, <1>9, <1>10, <1>11 DEF VirtioInv

LEMMA DoneInv == ASSUME VirtioInv, NEW i \in Desc, device_done(i) PROVE VirtioInv'
<1> DEFINE s == used_at % NUM
           p == info[i].b
<1>1. /\ UNCHANGED <<free, next, addr, avail, avail_idx, used_idx, taken, busy, pc, idx, intr, panic>>
      /\ i \in working /\ working' = working \ {i} /\ irq' = 1
      /\ used' = [used EXCEPT ![s] = i] /\ used_at' = Inc(used_at)
      /\ info' = [info EXCEPT ![i].status = 0]
      /\ served' = served \cup (IF next[i] = End THEN {} ELSE {addr[next[i]]})
  BY DEF device_done
<1>2. /\ used \in [Desc -> Desc \cup {End}] /\ used_idx \in Index /\ used_at \in Index
      /\ Pending(used, used_idx, used_at) /\ Ahead(used_idx, used_at) < NUM
  BY <1>1, Bounds DEF VirtioInv, VirtioTypes, RingsExact
<1>3. /\ Pending(used', used_idx, used_at')
      /\ Ahead(used_idx, used_at') = Ahead(used_idx, used_at) + 1
  BY <1>1, <1>2, RingPut, Zenon
<1>4. s \in Desc /\ used_at' \in Index /\ \A r \in Desc : used'[r] = IF r = s THEN i ELSE used[r]
  BY <1>1, <1>2, SlotType, IncIs
<1>5. served' = served \cup {p}
  <2>1. p \in Submitted /\ idx[p] = i
    BY <1>1 DEF VirtioInv, HeadsExact, Heads
  <2>2. next[i] \in Desc /\ addr[next[i]] = p
    BY <2>1, ChainIs DEF OwnChain
  <2> QED BY <1>1, <2>2, Positive
<1>6. /\ info' \in [Desc -> [b : Procs \cup {NoProc}, status : {0, 255}]]
      /\ info'[i].status = 0
      /\ \A j \in Desc : info'[j].b = info[j].b /\ (j # i => info'[j] = info[j])
  BY <1>1 DEF VirtioInv, VirtioTypes
<1> HIDE DEF p, s
<1>7. Submitted' = Submitted /\ Done' = Done
  BY <1>1 DEF Submitted, Done
<1>8. VirtioTypes' /\ ChainExact'
  BY <1>1, <1>2, <1>4, <1>6, <1>7, ChainsKept DEF VirtioInv, VirtioTypes
<1>9. CountExact'
  <2>1. IsFiniteSet(working') /\ Cardinality(working') = Cardinality(working) - 1
    BY <1>1, FS_RemoveElement DEF VirtioInv, CountExact
  <2> QED BY <1>1, <1>3, <1>7, <2>1, Bounds DEF VirtioInv, CountExact, Ahead
<1>10. OnePlace'
  BY <1>1 DEF VirtioInv, OnePlace
<1>11. HeadsExact'
  <2>1. Heads' \subseteq Heads
    BY <1>1, <1>4 DEF Heads
  <2>2. \A x \in Heads' : info'[x].b \in Submitted /\ idx[info'[x].b] = x /\ busy[info'[x].b] = 1
    BY <1>6, <2>1 DEF VirtioInv, HeadsExact, Heads
  <2>3. ASSUME NEW r \in Desc, used'[r] # End
        PROVE  info'[used'[r]].status = 0 /\ info'[used'[r]].b \in served'
    <3>1. CASE used'[r] = i
      BY <1>5, <1>6, <3>1 DEF p
    <3>2. CASE used'[r] # i
      BY <1>2, <1>4, <1>5, <1>6, <2>3, <3>2 DEF VirtioInv, HeadsExact
    <3> QED BY <3>1, <3>2
  <2> QED BY <1>1, <1>7, <2>2, <2>3 DEF HeadsExact
<1>12. RingsExact' /\ WaitExact'
  BY <1>1, <1>3, <1>7 DEF VirtioInv, RingsExact, WaitExact, Ahead
<1> QED BY <1>8, <1>9, <1>10, <1>11, <1>12 DEF VirtioInv

(* One turn of the loop finds a finished request of a process that waits,  *)
(* and none of the panics.                                                 *)
LEMMA IntrOneInv == ASSUME VirtioInv, intr_one PROVE VirtioInv'
<1> DEFINE s == used_idx % NUM
           x == used[s]
           p == info[x].b
<1> USE DEF descs, device
<1>1. /\ UNCHANGED <<descs, avail, avail_idx, used_at, device, idx, intr>>
      /\ used_idx # used_at /\ UsedEntry = x /\ intr = 1
  BY DEF intr_one, UsedEntry
<1>2. /\ used \in [Desc -> Desc \cup {End}] /\ used_idx \in Index /\ used_at \in Index
      /\ Pending(used, used_idx, used_at) /\ Ahead(used_idx, used_at) <= NUM
  BY Bounds DEF VirtioInv, VirtioTypes, RingsExact
<1>3. /\ x \in Desc /\ Pending([used EXCEPT ![s] = End], Inc(used_idx), used_at)
      /\ Ahead(Inc(used_idx), used_at) = Ahead(used_idx, used_at) - 1
  BY <1>1, <1>2, RingGet, Zenon
<1>4. x # End /\ s \in Desc /\ Inc(used_idx) \in Index
  BY <1>2, <1>3, Positive, SlotType, IncIs
<1>5. /\ p \in Submitted /\ idx[p] = x /\ busy[p] = 1 /\ p \in served /\ info[x].status = 0
  BY <1>3, <1>4 DEF VirtioInv, HeadsExact, Heads
<1>6. p \in Procs /\ p # NoProc /\ pc[p] \in {"asleep", "wait"}
  BY <1>5, VirtioAssumption DEF Submitted
<1>7. /\ busy' = [busy EXCEPT ![p] = 0] /\ pc' = wakeup(p)
      /\ used' = [used EXCEPT ![s] = End] /\ used_idx' = Inc(used_idx) /\ panic' = panic
  BY <1>1, <1>4, <1>5, <1>6, Zenon DEF intr_one
<1> HIDE DEF p, x, s
<1>8. /\ pc' \in [Procs -> Places] /\ pc'[p] = "wait"
      /\ \A q \in Procs : q # p => pc'[q] = pc[q] /\ busy'[q] = busy[q]
      /\ busy' \in [Procs -> {0, 1}] /\ busy'[p] = 0
  BY <1>6, <1>7 DEF VirtioInv, VirtioTypes, Places, wakeup
<1>9. Submitted' = Submitted /\ Done' = Done \cup {p} /\ p \notin Done
  BY <1>5, <1>8 DEF Done, Submitted
<1>10. VirtioTypes' /\ ChainExact'
  BY <1>1, <1>2, <1>4, <1>7, <1>8, <1>9, ChainsKept DEF VirtioInv, VirtioTypes
<1>11. CountExact'
  <2>1. IsFiniteSet(Done') /\ Cardinality(Done') = Cardinality(Done) + 1
    BY <1>9, FS_AddElement DEF VirtioInv, CountExact
  <2> QED BY <1>1, <1>3, <1>7, <1>9, <2>1, Bounds DEF VirtioInv, CountExact
<1>12. \A r \in Desc : /\ used'[r] # x /\ (used'[r] = used[r] \/ used'[r] = End)
                       /\ avail[r] # x /\ x \notin working
  BY <1>2, <1>4, <1>7, Zenon DEF VirtioInv, OnePlace, x
<1>13. OnePlace'
  <2>1. End \notin working
    BY Positive DEF VirtioInv, VirtioTypes
  <2> QED BY <1>1, <1>12, <2>1 DEF VirtioInv, OnePlace
<1>14. HeadsExact'
  <2>1. ASSUME NEW j \in Heads' PROVE j \in Heads /\ j # x
    BY <1>1, <1>12, Positive DEF Heads
  <2>2. ASSUME NEW j \in Heads'
        PROVE  info[j].b \in Submitted /\ idx[info[j].b] = j /\ busy'[info[j].b] = 1
    <3>1. info[j].b \in Submitted /\ idx[info[j].b] = j /\ busy[info[j].b] = 1 /\ info[j].b # p
      BY <1>5, <2>1 DEF VirtioInv, HeadsExact
    <3> QED BY <1>8, <3>1 DEF Submitted
  <2> QED BY <1>1, <1>9, <1>12, <2>2 DEF VirtioInv, HeadsExact
<1>15. RingsExact'
  BY <1>1, <1>3, <1>7 DEF VirtioInv, RingsExact
<1>16. WaitExact'
  BY <1>1, <1>5, <1>8 DEF VirtioInv, WaitExact, Done, Submitted
<1> QED BY <1>10, <1>11, <1>13, <1>14, <1>15, <1>16 DEF VirtioInv

-----------------------------------------------------------------------------
(* The two steps of virtio_disk_rw that move descriptors. *)

(* free_chain finds the three descriptors of the process, none of them     *)
(* free, and no chain of another request among them.                       *)
LEMMA FinishInv == ASSUME VirtioInv, NEW p \in Procs, finish(p) PROVE VirtioInv'
<1> DEFINE ch == Chain(idx[p])
           h == idx[p]
           m == next[h]
           t == next[m]
<1>1. /\ UNCHANGED <<rings, used_idx, device, busy, intr>>
      /\ pc[p] = "wait" /\ busy[p] = 0
      /\ info' = [info EXCEPT ![h].b = NoProc]
      /\ panic' = IF ch \cap free = {} THEN "none" ELSE "free_desc_2"
      /\ free' = free \cup ch
      /\ next' = [i \in Desc |-> IF i \in ch THEN End ELSE next[i]]
      /\ addr' = [i \in Desc |-> IF i \in ch THEN NoProc ELSE addr[i]]
      /\ pc' = wakeup_free([pc EXCEPT ![p] = "idle"])
      /\ idx' = [idx EXCEPT ![p] = 0]
  BY DEF finish, Finished
<1>2. /\ UNCHANGED <<avail, avail_idx, used, used_at, used_idx, taken, working, served, irq>>
      /\ UNCHANGED <<busy, intr>> /\ busy[p] = 0
  BY <1>1 DEF rings, device
<1>3. free' = free \cup ch
  BY <1>1
<1>4. p \in Submitted /\ p \in Done
  BY <1>1 DEF Submitted, Done
<1>5. /\ h \in Desc /\ ch = {h, m, t} /\ ch \subseteq Desc /\ ch \cap free = {}
      /\ h # m /\ m # t /\ h # t /\ info[h].b = p
  BY <1>4, ChainIs DEF OwnChain
<1> HIDE DEF h, m, t, ch
<1>6. /\ pc' \in [Procs -> Places] /\ pc'[p] = "idle"
      /\ \A q \in Procs : /\ pc'[q] # "asleep_free"
                          /\ q # p => pc'[q] = IF pc[q] = "asleep_free" THEN "alloc" ELSE pc[q]
  BY <1>1 DEF VirtioInv, VirtioTypes, Places, wakeup_free
<1>7. Submitted' = Submitted \ {p} /\ Done' = Done \ {p}
  <2>1. \A q \in Procs : pc'[q] \in {"asleep", "wait"} <=> pc[q] \in {"asleep", "wait"} /\ q # p
    BY <1>6
  <2>2. Submitted' = Submitted \ {p}
    BY <2>1 DEF Submitted
  <2> QED BY <1>2, <2>2 DEF Done
<1>8. /\ info' \in [Desc -> [b : Procs \cup {NoProc}, status : {0, 255}]]
      /\ \A i \in Desc : i # h => info'[i] = info[i]
  <2>1. info' = [info EXCEPT ![h].b = NoProc]
    BY <1>1
  <2> QED BY <1>5, <2>1 DEF VirtioInv, VirtioTypes
<1>9. VirtioTypes' /\ \A q \in Procs : q # p => idx'[q] = idx[q]
  <2>1. 0 \in Desc
    BY Positive, SMT DEF Desc
  <2>2. /\ idx' \in [Procs -> Desc] /\ next' \in [Desc -> Desc \cup {End}]
        /\ addr' \in [Desc -> Procs \cup {NoProc}]
        /\ \A q \in Procs : q # p => idx'[q] = idx[q]
    BY <1>1, <2>1, SMTT(20) DEF VirtioInv, VirtioTypes
  <2> QED BY <1>2, <1>3, <1>5, <1>6, <1>8, <2>2 DEF VirtioInv, VirtioTypes
<1>10. ASSUME NEW q \in Submitted'
       PROVE  /\ q \in Submitted /\ OwnChain(q)' /\ Chain(idx[q])' = Chain(idx[q])
              /\ Chain(idx[q]) \cap ch = {} /\ Chain(idx[q]) \cap free = {}
  <2>1. q \in Submitted /\ q # p /\ idx'[q] = idx[q] /\ Chain(idx[q]) \cap free = {}
    BY <1>7, <1>9, ChainIs, Zenon
  <2>2. Chain(idx[q]) \cap ch = {}
    BY <1>4, <2>1 DEF VirtioInv, ChainExact, ch
  <2>3. \A i \in Desc : i \notin ch => /\ next'[i] = next[i] /\ addr'[i] = addr[i]
                                       /\ info'[i].b = info[i].b
    BY <1>1, <1>5, <1>8
  <2> QED BY <2>1, <2>2, <2>3, ChainKept, ZenonT(30)
<1>11. ChainExact'
  <2>1. ASSUME NEW q \in Submitted' PROVE OwnChain(q)' /\ Chain(idx[q])' \cap free' = {}
    BY <1>3, <1>10
  <2>2. ASSUME NEW q \in Submitted', NEW r \in Submitted', q # r
        PROVE  Chain(idx[q])' \cap Chain(idx[r])' = {}
    <3>1. Chain(idx[q]) \cap Chain(idx[r]) = {}
      BY <1>7, <2>2 DEF VirtioInv, ChainExact
    <3> QED BY <1>10, <3>1
  <2>3. ASSUME NEW i \in Desc, i \notin free' PROVE \E q \in Submitted' : i \in Chain(idx[q])'
    <3>1. PICK q \in Submitted : i \in Chain(idx[q])
      BY <1>3, <2>3 DEF VirtioInv, ChainExact
    <3>2. q \in Submitted'
      BY <1>3, <1>7, <2>3, <3>1 DEF ch
    <3> QED BY <1>10, <3>1, <3>2
  <2> QED BY <2>1, <2>2, <2>3 DEF ChainExact
<1>12. CountExact'
  <2>1. IsFiniteSet(free') /\ Cardinality(free') = Cardinality(free) + 3
    <3>1. IsFiniteSet(free)
      BY Zenon DEF VirtioInv, CountExact
    <3> QED BY <1>3, <1>5, <3>1, ThreeMore
  <2>2. /\ IsFiniteSet(Submitted') /\ Cardinality(Submitted') = Cardinality(Submitted) - 1
        /\ IsFiniteSet(Done') /\ Cardinality(Done') = Cardinality(Done) - 1
    BY <1>4, <1>7, FS_RemoveElement DEF VirtioInv, CountExact
  <2>3. /\ IsFiniteSet(working') /\ Cardinality(working') = Cardinality(working)
        /\ Ahead(taken, avail_idx)' = Ahead(taken, avail_idx)
        /\ Ahead(used_idx, used_at)' = Ahead(used_idx, used_at)
    BY <1>2 DEF VirtioInv, CountExact
  <2> QED BY <2>1, <2>2, <2>3, Bounds DEF CountExact
<1>13. OnePlace' /\ RingsExact'
  BY <1>1, <1>2, <1>5, Zenon DEF VirtioInv, OnePlace, RingsExact
<1>14. HeadsExact'
  <2>1. Heads' = Heads
    BY <1>2, SMTT(30) DEF Heads
  <2>2. ASSUME NEW j \in Heads
        PROVE  /\ info'[j] = info[j] /\ info[j].b \in Submitted' /\ busy[info[j].b] = 1
               /\ idx'[info[j].b] = j
    <3>1. info[j].b \in Submitted /\ idx[info[j].b] = j /\ busy[info[j].b] = 1 /\ info[j].b # p
      BY <1>2 DEF VirtioInv, HeadsExact
    <3> QED BY <1>5, <1>7, <1>8, <1>9, <3>1 DEF Heads, Submitted
  <2> QED BY <1>2, <2>1, <2>2, UsedHead DEF VirtioInv, HeadsExact
<1>15. WaitExact'
  <2>1. \A q \in Done' : q \in Procs /\ q # p /\ q \in served /\ pc[q] = "wait"
    BY <1>7 DEF VirtioInv, WaitExact, Done, Submitted
  <2>2. \A q \in Done' : q \in served' /\ pc'[q] = "wait"
    BY <1>2, <1>6, <2>1
  <2>3. \A q \in Procs : pc'[q] # "asleep_free"
    BY <1>6
  <2> QED BY <1>2, <2>2, <2>3, SMTT(30) DEF VirtioInv, WaitExact
<1> QED BY <1>9, <1>11, <1>12, <1>13, <1>14, <1>15 DEF VirtioInv

(* What submit(p) does when a, b and c are the lowest free descriptors. *)
Linked(p, a, b, c) ==
  /\ a \in Desc /\ b \in Desc /\ c \in Desc /\ a # b /\ b # c /\ a # c
  /\ free' = free \ {a, b, c} /\ served' = served \ {p}
  /\ avail' = [avail EXCEPT ![avail_idx % NUM] = a] /\ avail_idx' = Inc(avail_idx)
  /\ busy'[p] = 1 /\ pc'[p] = "asleep" /\ idx'[p] = a
  /\ \A q \in Procs : q # p => busy'[q] = busy[q] /\ pc'[q] = pc[q] /\ idx'[q] = idx[q]
  /\ next'[a] = b /\ next'[b] = c /\ addr'[b] = p /\ info'[a].b = p
  /\ \A i \in Desc : i \notin {a, b, c} => next'[i] = next[i] /\ addr'[i] = addr[i]
  /\ \A i \in Desc : i # a => info'[i] = info[i]
  /\ p \notin Submitted /\ Submitted' = Submitted \cup {p} /\ Done' = Done
  /\ UNCHANGED <<used, used_at, used_idx, taken, working, irq, intr, panic>>

LEMMA SubmitEffect ==
  ASSUME VirtioInv, NEW p \in Procs, submit(p)
  PROVE  VirtioTypes' /\ \E a, b, c \in free : Linked(p, a, b, c)
<1>1. PICK a, b, c \in free :
      /\ pc[p] = "alloc" /\ intr = 0
      /\ a < b /\ b < c /\ \A d \in free : d <= c => d \in {a, b, c}
      /\ free' = free \ {a, b, c}
      /\ next' = [next EXCEPT ![a] = b, ![b] = c, ![c] = End]
      /\ addr' = [addr EXCEPT ![b] = p]
      /\ info' = [info EXCEPT ![a] = [b |-> p, status |-> 255]]
      /\ busy' = [busy EXCEPT ![p] = 1]
      /\ avail' = [avail EXCEPT ![avail_idx % NUM] = a] /\ avail_idx' = Inc(avail_idx)
      /\ idx' = [idx EXCEPT ![p] = a]
      /\ served' = served \ {p}
      /\ pc' = [pc EXCEPT ![p] = "asleep"]
      /\ UNCHANGED <<used, used_at, used_idx, taken, working, irq, intr, panic>>
  BY Zenon DEF submit
<1>2. a \in Desc /\ b \in Desc /\ c \in Desc /\ a # b /\ b # c /\ a # c
  <2>1. a < b /\ b < c
    BY <1>1, Zenon
  <2> QED BY <2>1, Positive DEF VirtioInv, VirtioTypes, Desc
<1>3. /\ busy' \in [Procs -> {0, 1}] /\ pc' \in [Procs -> Places] /\ idx' \in [Procs -> Desc]
      /\ busy'[p] = 1 /\ pc'[p] = "asleep" /\ idx'[p] = a
      /\ \A q \in Procs : q # p => busy'[q] = busy[q] /\ pc'[q] = pc[q] /\ idx'[q] = idx[q]
  <2>1. /\ busy' = [busy EXCEPT ![p] = 1] /\ pc' = [pc EXCEPT ![p] = "asleep"]
        /\ idx' = [idx EXCEPT ![p] = a]
    BY <1>1, Zenon
  <2>2. /\ busy \in [Procs -> {0, 1}] /\ pc \in [Procs -> Places] /\ idx \in [Procs -> Desc]
        /\ "asleep" \in Places
    BY DEF VirtioInv, VirtioTypes, Places
  <2> QED BY <1>2, <2>1, <2>2
<1>4. /\ next' \in [Desc -> Desc \cup {End}] /\ addr' \in [Desc -> Procs \cup {NoProc}]
      /\ next'[a] = b /\ next'[b] = c /\ addr'[b] = p
      /\ \A i \in Desc : i \notin {a, b, c} => next'[i] = next[i] /\ addr'[i] = addr[i]
  <2>1. next' = [next EXCEPT ![a] = b, ![b] = c, ![c] = End] /\ addr' = [addr EXCEPT ![b] = p]
    BY <1>1, Zenon
  <2>2. next \in [Desc -> Desc \cup {End}] /\ addr \in [Desc -> Procs \cup {NoProc}]
    BY DEF VirtioInv, VirtioTypes
  <2> QED BY <1>2, <2>1, <2>2
<1>5. /\ info' \in [Desc -> [b : Procs \cup {NoProc}, status : {0, 255}]]
      /\ info'[a].b = p /\ \A i \in Desc : i # a => info'[i] = info[i]
  <2>1. info' = [info EXCEPT ![a] = [b |-> p, status |-> 255]]
    BY <1>1, Zenon
  <2> QED BY <1>2, <2>1 DEF VirtioInv, VirtioTypes
<1>6. p \notin Submitted /\ Submitted' = Submitted \cup {p} /\ Done' = Done
  <2>1. pc[p] = "alloc"
    BY <1>1, Zenon
  <2> QED BY <1>3, <2>1 DEF Submitted, Done
<1>7. /\ free' = free \ {a, b, c} /\ served' = served \ {p}
      /\ avail' = [avail EXCEPT ![avail_idx % NUM] = a] /\ avail_idx' = Inc(avail_idx)
      /\ UNCHANGED <<used, used_at, used_idx, taken, working, irq, intr, panic>>
  BY <1>1, Zenon
<1>8. Linked(p, a, b, c)
  BY <1>2, <1>3, <1>4, <1>5, <1>6, <1>7, ZenonT(30) DEF Linked
<1>9. VirtioTypes'
  BY <1>2, <1>3, <1>4, <1>5, <1>7, SlotType, IncIs DEF VirtioInv, VirtioTypes
<1> QED BY <1>8, <1>9, Zenon

(* The descriptors of the new chain were free: no other chain is touched. *)
LEMMA SubmitChains ==
  ASSUME VirtioInv, NEW p \in Procs, NEW a \in free, NEW b \in free, NEW c \in free,
         Linked(p, a, b, c)
  PROVE  ChainExact'
<1>1. free' = free \ {a, b, c} /\ Submitted' = Submitted \cup {p} /\ p \notin Submitted
  BY ZenonT(30) DEF Linked
<1>2. ASSUME NEW q \in Submitted
      PROVE  /\ OwnChain(q)' /\ Chain(idx[q])' = Chain(idx[q])
             /\ Chain(idx[q]) \cap {a, b, c} = {} /\ Chain(idx[q]) \cap free = {}
  <2>1. idx'[q] = idx[q] /\ Chain(idx[q]) \cap free = {}
    <3>1. \A r \in Procs : r # p => idx'[r] = idx[r]
      BY ZenonT(30) DEF Linked
    <3> QED BY <1>1, <3>1, ChainIs, Zenon
  <2>2. Chain(idx[q]) \cap {a, b, c} = {}
    BY <2>1, Zenon
  <2>3. \A i \in Desc : i \notin {a, b, c} => /\ next'[i] = next[i] /\ addr'[i] = addr[i]
                                             /\ info'[i].b = info[i].b
    <3>1. /\ \A i \in Desc : i \notin {a, b, c} => next'[i] = next[i] /\ addr'[i] = addr[i]
          /\ \A i \in Desc : i # a => info'[i] = info[i]
      BY ZenonT(30) DEF Linked
    <3> QED BY <3>1, Zenon
  <2> QED BY <2>1, <2>2, <2>3, ChainKept, ZenonT(30)
<1>3. OwnChain(p)' /\ Chain(idx[p])' = {a, b, c}
  <2>1. /\ a \in Desc /\ b \in Desc /\ c \in Desc /\ a # b /\ b # c /\ a # c /\ idx'[p] = a
        /\ next'[a] = b /\ next'[b] = c /\ addr'[b] = p /\ info'[a].b = p
    BY ZenonT(30) DEF Linked
  <2> QED BY <2>1, Positive, Zenon DEF Chain, OwnChain
<1>4. ASSUME NEW q \in Submitted' PROVE OwnChain(q)' /\ Chain(idx[q])' \cap free' = {}
  <2>1. CASE q = p
    BY <1>1, <1>3, <2>1
  <2>2. CASE q \in Submitted
    BY <1>1, <1>2, <2>2
  <2> QED BY <1>1, <2>1, <2>2
<1>5. ASSUME NEW q \in Submitted', NEW r \in Submitted', q # r
      PROVE  Chain(idx[q])' \cap Chain(idx[r])' = {}
  <2>1. CASE q \in Submitted /\ r \in Submitted
    <3>1. Chain(idx[q]) \cap Chain(idx[r]) = {}
      BY <1>5, <2>1 DEF VirtioInv, ChainExact
    <3> QED BY <1>2, <2>1, <3>1
  <2>2. CASE q = p \/ r = p
    BY <1>1, <1>2, <1>3, <1>5, <2>2
  <2> QED BY <1>1, <2>1, <2>2
<1>6. ASSUME NEW i \in Desc, i \notin free' PROVE \E q \in Submitted' : i \in Chain(idx[q])'
  <2>1. CASE i \in {a, b, c}
    BY <1>1, <1>3, <2>1
  <2>2. CASE i \notin free
    <3>1. PICK q \in Submitted : i \in Chain(idx[q])
      BY <2>2, Zenon DEF VirtioInv, ChainExact
    <3> QED BY <1>1, <1>2, <3>1
  <2> QED BY <1>1, <1>6, <2>1, <2>2
<1> QED BY <1>4, <1>5, <1>6, Zenon DEF ChainExact

(* The head of the new chain was nowhere on its way. *)
LEMMA SubmitHeads ==
  ASSUME VirtioInv, NEW p \in Procs, NEW a \in free, NEW b \in free, NEW c \in free,
         Linked(p, a, b, c)
  PROVE  OnePlace' /\ HeadsExact'
<1> DEFINE s == avail_idx % NUM
<1>1. UNCHANGED <<used, working>> /\ avail' = [avail EXCEPT ![s] = a] /\ a \in Desc
  BY ZenonT(30) DEF Linked
<1>2. /\ p \notin Submitted /\ Submitted' = Submitted \cup {p} /\ served' = served \ {p}
      /\ busy'[p] = 1 /\ idx'[p] = a /\ info'[a].b = p
  BY ZenonT(30) DEF Linked
<1>3. /\ \A q \in Procs : q # p => busy'[q] = busy[q] /\ idx'[q] = idx[q]
      /\ \A i \in Desc : i # a => info'[i] = info[i]
  BY ZenonT(30) DEF Linked
<1>4. \A r \in Desc : avail'[r] = IF r = s THEN a ELSE avail[r]
  <2>1. avail \in [Desc -> Desc \cup {End}]
    BY Zenon DEF VirtioInv, VirtioTypes
  <2> QED BY <1>1, <2>1
<1> HIDE DEF s
<1>5. ASSUME NEW j \in Heads
      PROVE  /\ j # a /\ info'[j] = info[j] /\ info[j].b # p /\ info[j].b \in Submitted'
             /\ idx'[info[j].b] = j /\ busy'[info[j].b] = 1
  <2>1. info[j].b \in Submitted /\ idx[info[j].b] = j /\ busy[info[j].b] = 1
    BY Zenon DEF VirtioInv, HeadsExact
  <2>2. j \in Desc /\ j # a
    BY <2>1, ChainIs
  <2>3. info[j].b # p /\ info[j].b \in Procs /\ info[j].b \in Submitted'
    BY <1>2, <2>1 DEF Submitted
  <2> QED BY <1>3, <2>1, <2>2, <2>3, Zenon
<1>6. \A r \in Desc : used[r] # a /\ avail[r] # a /\ a \notin working
  BY <1>1, <1>5, Zenon DEF Heads
<1>7. OnePlace'
  BY <1>1, <1>4, <1>6 DEF VirtioInv, OnePlace
<1>8. ASSUME NEW j \in Heads'
      PROVE  info'[j].b \in Submitted' /\ idx'[info'[j].b] = j /\ busy'[info'[j].b] = 1
  <2>1. j \in Heads \/ j = a
    BY <1>1, <1>4 DEF Heads
  <2>2. CASE j = a
    BY <1>2, <2>2, Zenon
  <2> QED BY <1>5, <2>1, <2>2, Zenon
<1>9. ASSUME NEW r \in Desc, used[r] # End
      PROVE  info'[used[r]].status = 0 /\ info'[used[r]].b \in served'
  <2>1. info[used[r]].status = 0 /\ info[used[r]].b \in served
    BY <1>9, Zenon DEF VirtioInv, HeadsExact
  <2>2. info'[used[r]] = info[used[r]] /\ info[used[r]].b # p
    BY <1>5, <1>9, UsedHead, Zenon
  <2> QED BY <1>2, <2>1, <2>2
<1> QED BY <1>1, <1>7, <1>8, <1>9 DEF HeadsExact

(* Fewer than NUM entries were pending in the avail ring. *)
LEMMA SubmitCount ==
  ASSUME VirtioInv, NEW p \in Procs, NEW a \in free, NEW b \in free, NEW c \in free,
         Linked(p, a, b, c)
  PROVE  CountExact' /\ RingsExact' /\ WaitExact'
<1>1. /\ IsFiniteSet(free') /\ Cardinality(free') \in Nat
      /\ Cardinality(free) = Cardinality(free') + 3
  <2>1. free' = free \ {a, b, c} /\ a # b /\ b # c /\ a # c
    BY ZenonT(30) DEF Linked
  <2>2. IsFiniteSet(free)
    BY Zenon DEF VirtioInv, CountExact
  <2>3. IsFiniteSet(free') /\ Cardinality(free') \in Nat
    BY <2>1, <2>2, FS_Subset, FS_CardinalityType
  <2>4. /\ free = free' \cup {a, b, c}
        /\ a \notin free' /\ b \notin free' /\ c \notin free'
    BY <2>1
  <2>5. Cardinality(free' \cup {a, b, c}) = Cardinality(free') + 3
    BY <2>1, <2>3, <2>4, ThreeMore, Zenon
  <2> QED BY <2>3, <2>4, <2>5, Zenon
<1>2. /\ avail \in [Desc -> Desc \cup {End}] /\ taken \in Index /\ avail_idx \in Index
      /\ Pending(avail, taken, avail_idx)
  BY Zenon DEF VirtioInv, VirtioTypes, RingsExact
<1>3. avail' = [avail EXCEPT ![avail_idx % NUM] = a] /\ avail_idx' = Inc(avail_idx) /\ a \in Desc
  BY ZenonT(30) DEF Linked
<1>4. Ahead(taken, avail_idx) < NUM
  BY <1>1, Bounds
<1>5. /\ Pending(avail', taken, avail_idx')
      /\ Ahead(taken, avail_idx') = Ahead(taken, avail_idx) + 1
  BY <1>2, <1>3, <1>4, RingPut, Zenon
<1>6. UNCHANGED <<used, used_at, used_idx, taken, working, irq, intr, panic>> /\ Done' = Done
  BY ZenonT(30) DEF Linked
<1>7. CountExact'
  <2>1. p \notin Submitted /\ Submitted' = Submitted \cup {p}
    BY ZenonT(30) DEF Linked
  <2>2. IsFiniteSet(Submitted) /\ IsFiniteSet(working') /\ IsFiniteSet(Done')
    BY <1>6, Zenon DEF VirtioInv, CountExact
  <2>3. IsFiniteSet(Submitted') /\ Cardinality(Submitted') = Cardinality(Submitted) + 1
    BY <2>1, <2>2, FS_AddElement
  <2>4. /\ Ahead(taken, avail_idx)' = Ahead(taken, avail_idx) + 1
        /\ Ahead(used_idx, used_at)' = Ahead(used_idx, used_at)
        /\ Cardinality(working') = Cardinality(working) /\ Cardinality(Done') = Cardinality(Done)
    BY <1>5, <1>6, Zenon DEF Ahead
  <2> QED BY <1>1, <2>2, <2>3, <2>4, Bounds DEF CountExact
<1>8. RingsExact'
  BY <1>5, <1>6, Zenon DEF VirtioInv, RingsExact, Pending, Ahead
<1>9. WaitExact'
  <2>1. /\ pc'[p] = "asleep" /\ \A q \in Procs : q # p => pc'[q] = pc[q]
        /\ served' = served \ {p} /\ p \notin Submitted
    BY ZenonT(30) DEF Linked
  <2>2. \A q \in Procs : pc[q] # "asleep_free"
    <3>1. ~(Cardinality(free) < 3)
      BY <1>1
    <3> QED BY <3>1, Zenon DEF VirtioInv, WaitExact
  <2>3. \A q \in Procs : pc'[q] # "asleep_free"
    BY <2>1, <2>2
  <2>4. \A q \in Done : q # p /\ q \in Procs /\ q \in served /\ pc[q] = "wait"
    BY <2>1, Zenon DEF VirtioInv, WaitExact, Done, Submitted
  <2>5. \A q \in Done : q \in served' /\ pc'[q] = "wait"
    BY <2>1, <2>4
  <2>6. used_idx' # used_at' /\ intr' # 1 => irq' = 1
    BY <1>6, Zenon DEF VirtioInv, WaitExact
  <2> QED BY <1>6, <2>3, <2>5, <2>6, Zenon DEF WaitExact
<1> QED BY <1>7, <1>8, <1>9, Zenon

LEMMA SubmitInv == ASSUME VirtioInv, NEW p \in Procs, submit(p) PROVE VirtioInv'
<1>1. PICK a, b, c \in free : Linked(p, a, b, c)
  BY SubmitEffect
<1> QED BY <1>1, SubmitEffect, SubmitChains, SubmitHeads, SubmitCount DEF VirtioInv

-----------------------------------------------------------------------------
(* The results. *)

LEMMA StepInv == VirtioInv /\ [Next]_vars => VirtioInv'
<1> SUFFICES ASSUME VirtioInv, [Next]_vars PROVE VirtioInv'
  OBVIOUS
<1>1. CASE Device
  BY <1>1, TakeInv, DoneInv DEF Device
<1>2. CASE Intr
  BY <1>2, IntrSteps, IntrOneInv DEF Intr
<1>3. ASSUME NEW p \in Procs, Proc(p) \/ virtio_disk_rw(p) \/ kill(p) PROVE VirtioInv'
  BY <1>3, QuietSteps, SubmitInv, FinishInv DEF Proc
<1>4. CASE UNCHANGED vars
  BY <1>4, IntrSteps
<1> QED BY <1>1, <1>2, <1>3, <1>4 DEF Next

(* The bookkeeping of the driver, the device and the rings agrees in every *)
(* reachable state.                                                        *)
THEOREM VirtioInvariant == Spec => []VirtioInv
BY InitInv, StepInv, PTL DEF Spec

(* Whatever the number of requests and the order in which the device       *)
(* finishes them, chains share no descriptor, none is lost, and neither    *)
(* free_desc nor virtio_disk_intr panics.                                  *)
THEOREM DescriptorsConserved == Spec => []DescsConserved
BY VirtioInvariant, InvDescs, PTL

(* No wakeup and no interrupt of the disk is lost. *)
THEOREM WakeupsKept == Spec => []NoLostWakeup
BY VirtioInvariant, InvWakeup, PTL

(* virtio_disk_rw returns only to a process whose request the device has   *)
(* done.                                                                   *)
THEOREM ReturnsAreServed == Spec => ReturnsServed
<1>1. VirtioInv /\ [Next]_vars
      => [\A p \in Procs : pc[p] = "wait" /\ pc'[p] = "idle" => p \in served]_vars
  <2> SUFFICES ASSUME VirtioInv, Next, NEW p \in Procs, pc[p] = "wait", pc'[p] = "idle"
               PROVE  p \in served
    OBVIOUS
  <2>1. ASSUME NEW q \in Procs, Proc(q) \/ virtio_disk_rw(q) \/ kill(q) PROVE finish(q) /\ q = p
    <3>1. pc \in [Procs -> Places]
      BY DEF VirtioInv, VirtioTypes
    <3>2. ~virtio_disk_rw(q) /\ ~kill(q) /\ ~wait(q)
      BY <3>1 DEF virtio_disk_rw, kill, wait
    <3>3. ~submit(q)
      BY <3>1, SMTT(20) DEF submit
    <3>4. ~alloc_fail(q)
      BY <3>1, Zenon DEF alloc_fail, wakeup_free
    <3>5. ASSUME finish(q) PROVE q = p
      BY <3>5 DEF finish, wakeup_free
    <3> QED BY <2>1, <3>2, <3>3, <3>4, <3>5 DEF Proc
  <2>2. ~Device /\ ~Intr
    BY DEF Device, Intr, device_take, device_done, intr_ack, intr_one, intr_seen,
       intr_release, wakeup, VirtioInv, VirtioTypes
  <2>3. finish(p)
    BY <2>1, <2>2 DEF Next
  <2>4. p \in Done
    BY <2>3 DEF finish, Finished, Done, Submitted
  <2> QED BY <2>4 DEF VirtioInv, WaitExact
<1> QED BY <1>1, VirtioInvariant, PTL DEF Spec, ReturnsServed
=============================================================================
