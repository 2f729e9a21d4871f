------------------------------ MODULE LogProofs ------------------------------
(***************************************************************************)
(* Proofs about Log, for every number of processes, blocks and crashes and *)
(* every log size.  This module: the steps of FS system calls (begin_op,   *)
(* log_write, end_op) and the disk writes of commit and recovery preserve  *)
(* the invariant.                                                          *)
(***************************************************************************)
EXTENDS Log, FiniteSetTheorems, TLAPS

IInv == TypeOK /\ LogInvariant

-----------------------------------------------------------------------------
(* Facts about the sets that are counted. *)

(* Only finitely many processes are inside an operation. *)
LEMMA InOpFinite ==
  /\ IsFiniteSet(InOp) /\ Cardinality(InOp) \in Nat
  /\ \A p \in InOp : Cardinality(InOp) >= 1
<1>1. IsFiniteSet(InOp)
  BY LogAssumption, FS_Subset DEF InOp
<1>2. Cardinality(InOp) \in Nat
  BY <1>1, FS_CardinalityType
<1>3. ASSUME NEW p \in InOp PROVE Cardinality(InOp) >= 1
  BY <1>1, <1>2, <1>3, FS_EmptySet
<1> QED BY <1>1, <1>2, <1>3

(* The reservations are finite in number, at most MAXOPBLOCKS for each     *)
(* operation that begin_op has let in.                                     *)
LEMMA ReservedBound ==
  /\ IsFiniteSet(Reserved) /\ Cardinality(Reserved) \in Nat
  /\ Cardinality(Reserved) <= Cardinality(InOp) * MAXOPBLOCKS
<1>1. IsFiniteSet(1..MAXOPBLOCKS) /\ Cardinality(1..MAXOPBLOCKS) = MAXOPBLOCKS
  BY FS_Interval, LogAssumption
<1>2. /\ IsFiniteSet(InOp \X (1..MAXOPBLOCKS))
      /\ Cardinality(InOp \X (1..MAXOPBLOCKS)) = Cardinality(InOp) * MAXOPBLOCKS
  BY ZenonT(40), <1>1, InOpFinite, FS_Product
<1>3. Reserved \in SUBSET (InOp \X (1..MAXOPBLOCKS))
  BY DEF Reserved
<1>4. /\ IsFiniteSet(Reserved)
      /\ Cardinality(Reserved) <= Cardinality(InOp \X (1..MAXOPBLOCKS))
  BY <1>2, <1>3, FS_Subset
<1> QED BY <1>2, <1>4, FS_CardinalityType

(* A product of naturals is a natural. *)
LEMMA ProductNat == \A m, n \in Nat : m * n \in Nat
OBVIOUS

(* A set of blocks is finite. *)
LEMMA BlocksFinite ==
  ASSUME NEW S \in SUBSET Blocks
  PROVE  IsFiniteSet(S) /\ Cardinality(S) \in Nat
BY LogAssumption, FS_Subset, FS_CardinalityType

-----------------------------------------------------------------------------
(* Every action of Log preserves the invariant. *)

(* mkfs leaves a clean log: the initial state satisfies the invariant. *)
LEMMA InitInv == Init => IInv
<1> SUFFICES ASSUME Init PROVE IInv
  OBVIOUS
<1>1. TypeOK
  BY LogAssumption DEF Init, TypeOK, Phases, NoPanicYet
<1>2. InOp = {} /\ Reserved = {} /\ Cardinality(InOp) = 0 /\ Cardinality(Reserved) = 0
  BY ZenonT(40), FS_EmptySet DEF Init, InOp, Reserved
<1>3. Cardinality({}) = 0
  BY FS_EmptySet
<1>4. Bookkeeping
  BY <1>2, <1>3, LogAssumption DEF Init, Bookkeeping, Recovering
<1>5. LogShape
  BY <1>2, LogAssumption DEF Init, LogShape, Injective, Logged
<1>6. Pinned = {}
  BY DEF Init, Pinned, Recovering
<1>7. PinsExact
  BY <1>6 DEF Init, PinsExact
<1>8. CacheCoherent
  BY <1>6 DEF Init, CacheCoherent, bread
<1>9. CommitProgress
  BY DEF Init, CommitProgress
<1> QED BY <1>1, <1>4, <1>5, <1>7, <1>8, <1>9 DEF IInv, LogInvariant

(* begin_op: a process sleeps, or takes a reservation that fits. *)
LEMMA BeginInv ==
  ASSUME IInv, NEW p \in Procs, begin_op(p) PROVE IInv'
<1> USE DEF IInv, LogInvariant
<1>0. UNCHANGED <<home, head, logblk, cache, pins, lh, committing, held, touched,
                  phase, tail, panicked, crashes>>
  BY DEF begin_op, disk, bcache
<1>1. TypeOK'
  <2>1. outstanding' \in Nat
    BY DEF TypeOK, begin_op
  <2> QED BY ZenonT(40), <1>0, <2>1 DEF TypeOK, begin_op
<1>2. PinsExact' /\ CacheCoherent' /\ CommitProgress'
  BY <1>0 DEF PinsExact, CacheCoherent, CommitProgress, Pinned, Recovering, bread
<1>3. CASE MustWait
  <2>1. /\ pc' = [pc EXCEPT ![p] = "sleep"] /\ outstanding' = outstanding
        /\ InOp' = InOp /\ Reserved' = Reserved
    BY <1>0, <1>3 DEF begin_op, InOp, Reserved, TypeOK
  <2>2. Bookkeeping'
    BY ZenonT(40), <1>0, <2>1 DEF begin_op, Bookkeeping, TypeOK, Recovering
  <2>3. LogShape'
    BY <1>0, <2>1 DEF LogShape, Injective, Logged
  <2> QED BY <1>1, <1>2, <2>2, <2>3
<1>4. CASE ~MustWait
  <2>1. /\ InOp' = InOp \cup {p} /\ p \notin InOp
        /\ outstanding' = outstanding + 1
        /\ pc' = [pc EXCEPT ![p] = "op"]
    BY <1>4 DEF begin_op, InOp, TypeOK
  <2>2. committing = 0 /\ Len(lh) + (outstanding + 1) * MAXOPBLOCKS <= LOGSIZE
    <3>1. Len(lh) \in Nat /\ (outstanding + 1) * MAXOPBLOCKS \in Nat
      BY LogAssumption, ProductNat DEF TypeOK
    <3> QED BY <1>4, <3>1, LogAssumption DEF TypeOK, MustWait
  <2>3. Cardinality(InOp') = outstanding + 1
    BY ZenonT(40), <2>1, InOpFinite, FS_AddElement DEF Bookkeeping
  <2>4. Bookkeeping'
    <3>1. /\ outstanding' = Cardinality(InOp')
          /\ committing' = 1 <=> phase' \in {"write_log", "write_head", "install",
                                             "erase", "committed"}
          /\ committing' = 1 => InOp' = {}
      BY <1>0, <2>1, <2>2, <2>3 DEF Bookkeeping
    <3>2. pc[p] # "write" /\ ~Recovering
      BY DEF begin_op
    <3> QED BY ZenonT(40), <1>0, <2>1, <3>1, <3>2 DEF Bookkeeping, TypeOK, Recovering
  <2>5. Len(lh) + Cardinality(Reserved') <= LOGSIZE
    <3>1. (Cardinality(Reserved) \in Nat
           /\ Cardinality(Reserved) <= Cardinality(InOp) * MAXOPBLOCKS)'
      BY ReservedBound, PTL
    <3>2. Cardinality(Reserved') <= (outstanding + 1) * MAXOPBLOCKS
      BY <3>1, <2>3
    <3>3. (outstanding + 1) * MAXOPBLOCKS \in Nat /\ Len(lh) \in Nat
      BY LogAssumption, ProductNat DEF TypeOK
    <3> QED BY <2>2, <3>1, <3>2, <3>3, LogAssumption
  <2>6. LogShape'
    BY <1>0, <2>5 DEF LogShape, Injective, Logged
  <2> QED BY <1>1, <1>2, <2>4, <2>6
<1> QED BY <1>3, <1>4

(* While an operation runs there is no commit and no recovery. *)
LEMMA IdleInOp == ASSUME IInv, NEW p \in InOp PROVE p \in Procs /\ phase = "idle"
<1>1. p \in Procs /\ pc[p] # "idle"
  BY DEF InOp
<1>2. committing = 0 /\ ~Recovering
  BY <1>1 DEF IInv, LogInvariant, Bookkeeping, TypeOK
<1> QED BY <1>1, <1>2 DEF IInv, LogInvariant, Bookkeeping, TypeOK, Phases, Recovering

(* Changing a buffer under its sleep-lock. *)
LEMMA ModifyInv ==
  ASSUME IInv, NEW p \in Procs, NEW b \in Blocks, NEW v \in Val, modify(p, b, v)
  PROVE  IInv'
<1> USE DEF IInv, LogInvariant
<1>0. /\ UNCHANGED <<home, head, logblk, pins, lh, outstanding, committing, touched,
                     phase, tail, panicked, crashes>>
      /\ cache' = [cache EXCEPT ![b] = v]
      /\ pc' = [pc EXCEPT ![p] = "write"]
      /\ held' = [held EXCEPT ![p] = {b}]
      /\ pc[p] = "op"
      /\ \A q \in Procs : b \notin held[q]
      /\ Cardinality(touched[p] \cup {b}) <= OPBLOCKS
  BY DEF modify, disk, log
<1>1. TypeOK'
  BY <1>0 DEF TypeOK
<1>2. p \in InOp /\ InOp' = InOp /\ Reserved' = Reserved /\ Pinned' = Pinned
  BY <1>0 DEF InOp, Reserved, TypeOK, Pinned, Recovering
<1>3. Bookkeeping'
  BY ZenonT(40), <1>0, <1>2 DEF Bookkeeping, TypeOK, Recovering
<1>4. LogShape' /\ PinsExact'
  BY <1>0, <1>2 DEF LogShape, Injective, Logged, PinsExact
<1>5. phase = "idle"
  BY <1>2, IdleInOp
<1>6. CacheCoherent'
  <2> SUFFICES ASSUME NEW c \in Blocks
               PROVE  IF c \in Pinned \/ \E q \in Procs : c \in held'[q]
                      THEN cache'[c] # NoData ELSE bread(c)' = home[c]
    BY <1>0, <1>2 DEF CacheCoherent
  <2>1. CASE c = b
    BY <1>0, <2>1, LogAssumption DEF TypeOK
  <2>2. CASE c # b
    <3>1. cache'[c] = cache[c] /\ bread(c)' = bread(c)
      BY <1>0, <2>2 DEF TypeOK, bread
    <3>2. (\E q \in Procs : c \in held'[q]) <=> (\E q \in Procs : c \in held[q])
      BY <1>0, <2>2 DEF TypeOK, Bookkeeping
    <3> QED BY <3>1, <3>2 DEF CacheCoherent
  <2> QED BY <2>1, <2>2
<1>7. CommitProgress'
  BY <1>0, <1>5 DEF CommitProgress
<1> QED BY <1>1, <1>3, <1>4, <1>6, <1>7

(* Writing a block that is new to the log uses up one reservation. *)
LEMMA ReservationUsed ==
  ASSUME IInv, NEW p \in InOp, NEW b \in Blocks,
         Cardinality(touched[p] \cup {b}) <= OPBLOCKS,
         InOp' = InOp, touched' = [touched EXCEPT ![p] = @ \cup {b}]
  PROVE  /\ Cardinality(Reserved') \in Nat
         /\ b \in touched[p] => Cardinality(Reserved') = Cardinality(Reserved)
         /\ b \notin touched[p] => Cardinality(Reserved') = Cardinality(Reserved) - 1
<1> DEFINE k == Cardinality(touched[p])
<1>1. p \in Procs /\ touched[p] \in SUBSET Blocks /\ touched[p] \cup {b} \in SUBSET Blocks
  BY DEF InOp, IInv, TypeOK
<1>2. CASE b \in touched[p]
  <2>1. touched' = touched
    BY <1>1, <1>2 DEF IInv, TypeOK
  <2> QED BY ZenonT(40), <1>2, <2>1, ReservedBound DEF Reserved
<1>3. CASE b \notin touched[p]
  <2>1. k \in Nat /\ Cardinality(touched[p] \cup {b}) = k + 1
    BY <1>1, <1>3, BlocksFinite, FS_AddElement
  <2>2. k + 1 \in 1..MAXOPBLOCKS
    BY <2>1, LogAssumption
  <2>3. <<p, k + 1>> \in Reserved
    BY <2>1, <2>2 DEF Reserved
  <2>4. ASSUME NEW q \in InOp, NEW j \in 1..MAXOPBLOCKS
        PROVE  <<q, j>> \in Reserved' <=> <<q, j>> \in Reserved /\ <<q, j>> # <<p, k + 1>>
    <3>1. CASE q = p
      <4>1. touched'[q] = touched[p] \cup {b}
        BY <1>1, <3>1 DEF IInv, TypeOK
      <4> QED BY <2>1, <3>1, <4>1 DEF Reserved
    <3>2. CASE q # p
      <4>1. touched'[q] = touched[q]
        BY <1>1, <3>2 DEF IInv, TypeOK
      <4> QED BY <3>2, <4>1 DEF Reserved
    <3> QED BY <3>1, <3>2
  <2>5. Reserved' = Reserved \ {<<p, k + 1>>}
    <3>1. Reserved' \subseteq InOp \X (1..MAXOPBLOCKS) /\ Reserved \subseteq InOp \X (1..MAXOPBLOCKS)
      BY DEF Reserved
    <3> QED BY <2>4, <3>1
  <2> QED BY <1>3, <2>3, <2>5, ReservedBound, FS_RemoveElement, FS_CardinalityType
<1> QED BY <1>2, <1>3

(* log_write: absorbed, or appended and pinned. *)
LEMMA LogWriteInv ==
  ASSUME IInv, NEW p \in Procs, log_write(p) PROVE IInv'
<1> USE DEF IInv, LogInvariant
<1>0. PICK b \in held[p] :
        /\ pc[p] = "write"
        /\ panicked' = log_write_check
        /\ UNCHANGED <<home, head, logblk, cache, outstanding, committing, phase, tail,
                       crashes>>
        /\ IF panicked' # NoPanicYet THEN UNCHANGED <<lh, pins, pc, held, touched>> ELSE
             /\ IF b \in Logged
                  THEN UNCHANGED <<lh, pins>>
                  ELSE lh' = Append(lh, b) /\ pins' = [pins EXCEPT ![b] = @ + 1]
             /\ pc' = [pc EXCEPT ![p] = "op"]
             /\ held' = [held EXCEPT ![p] = {}]
             /\ touched' = [touched EXCEPT ![p] = @ \cup {b}]
  BY DEF log_write, disk, procs, bpin
<1>1. p \in InOp /\ phase = "idle" /\ ~Recovering
  BY <1>0, IdleInOp DEF InOp, Recovering
<1>2. /\ b \in Blocks /\ held[p] = {b}
      /\ Cardinality(touched[p] \cup {b}) <= OPBLOCKS
  <2>1. PICK c \in Blocks : held[p] = {c} /\ Cardinality(touched[p] \cup {c}) <= OPBLOCKS
    BY ZenonT(40), <1>0 DEF Bookkeeping
  <2> QED BY <2>1
<1>3. lh \in Seq(Blocks) /\ Len(lh) \in Nat
  BY DEF TypeOK
<1>4. panicked' \in {NoPanicYet, "too_big_a_transaction",
                     "log_write_outside_of_trans", "log_committing"}
  BY <1>0 DEF log_write_check
<1>5. Pinned = Logged
  BY <1>1 DEF Pinned, Logged
<1>6. CASE panicked' # NoPanicYet
  <2>1. UNCHANGED <<home, head, logblk, cache, outstanding, committing, phase, tail,
                    crashes, lh, pins, pc, held, touched>>
    BY <1>0, <1>6
  <2>2. TypeOK'
    BY <1>4, <2>1 DEF TypeOK
  <2>3. InOp' = InOp /\ Reserved' = Reserved /\ Pinned' = Pinned
    BY <2>1 DEF InOp, Reserved, Pinned, Recovering
  <2>4. Bookkeeping'
    BY SMTT(40), <2>1, <2>3 DEF Bookkeeping, Recovering
  <2>5. LogShape' /\ PinsExact' /\ CacheCoherent' /\ CommitProgress'
    BY <2>1, <2>3 DEF LogShape, Injective, Logged, PinsExact, CacheCoherent,
       CommitProgress, bread
  <2> QED BY <2>2, <2>4, <2>5
<1>7. CASE panicked' = NoPanicYet
  <2>0. /\ pc' = [pc EXCEPT ![p] = "op"]
        /\ held' = [held EXCEPT ![p] = {}]
        /\ touched' = [touched EXCEPT ![p] = @ \cup {b}]
        /\ b \in Logged => UNCHANGED <<lh, pins>>
        /\ b \notin Logged => lh' = Append(lh, b) /\ pins' = [pins EXCEPT ![b] = @ + 1]
    BY <1>0, <1>7
  <2>1. TypeOK'
    <3>1. lh' \in Seq(Blocks)
      BY SMTT(40), <1>2, <1>3, <2>0
    <3>2. pins' \in [Blocks -> Nat]
      <4>1. pins \in [Blocks -> Nat] /\ pins[b] + 1 \in Nat
        BY <1>2 DEF TypeOK
      <4> QED BY <1>2, <2>0, <4>1
    <3> QED BY <1>0, <1>2, <1>4, <2>0, <3>1, <3>2 DEF TypeOK
  <2>2. InOp' = InOp
    BY <1>0, <2>0 DEF InOp, TypeOK
  <2>3. Bookkeeping'
    <3>1. \A q \in Procs : held'[q] = IF q = p THEN {} ELSE held[q]
      BY <2>0 DEF TypeOK
    <3>2. \A q \in Procs : Cardinality(touched'[q]) <= OPBLOCKS
      BY <1>2, <2>0 DEF TypeOK, Bookkeeping
    <3>3. \A q \in Procs : q \notin InOp => touched'[q] = {}
      BY <1>1, <2>0 DEF TypeOK, Bookkeeping
    <3>4. \A q \in Procs : q # p => pc'[q] = pc[q] /\ touched'[q] = touched[q]
      BY <2>0 DEF TypeOK
    <3>5. pc'[p] = "op"
      BY <2>0 DEF TypeOK
    <3>6. \A q \in Procs : pc'[q] = "commit" => pc[q] = "commit"
      BY <3>4, <3>5
    <3>7. \A q \in Procs : pc'[q] # "write" => held'[q] = {}
      BY <3>1, <3>4 DEF Bookkeeping
    <3>8. \A q \in Procs : pc'[q] = "write" =>
            \E c \in Blocks : /\ held'[q] = {c}
                              /\ Cardinality(touched'[q] \cup {c}) <= OPBLOCKS
      BY ZenonT(40), <3>1, <3>4, <3>5 DEF Bookkeeping
    <3>9. \A q, r \in Procs : q # r => held'[q] \cap held'[r] = {}
      BY <3>1 DEF Bookkeeping
    <3>10. ~Recovering'
      BY <1>0, <1>1 DEF Recovering
    <3>11. /\ outstanding' = Cardinality(InOp')
           /\ committing' = 1 <=> phase' \in {"write_log", "write_head", "install",
                                              "erase", "committed"}
           /\ committing' = 1 => InOp' = {}
      BY <1>0, <2>2 DEF Bookkeeping
    <3>12. \A q \in Procs : pc'[q] = "commit" => committing' = 1
      BY <1>0, <3>6 DEF Bookkeeping
    <3>13. \A q, r \in Procs : pc'[q] = "commit" /\ pc'[r] = "commit" => q = r
      BY <3>6 DEF Bookkeeping
    <3> QED BY ZenonT(40), <2>2, <3>2, <3>3, <3>7, <3>8, <3>9, <3>10, <3>11, <3>12, <3>13
            DEF Bookkeeping
  <2>4. /\ Logged' = Logged \cup {b}
        /\ Injective(lh')
        /\ Len(lh') + Cardinality(Reserved') <= LOGSIZE
        /\ pins' = [c \in Blocks |-> IF c \in Logged' THEN 1 ELSE 0]
    <3>0. pins = [c \in Blocks |-> IF c \in Logged THEN 1 ELSE 0]
      BY <1>5 DEF PinsExact
    <3>1. CASE b \in Logged
      <4>1. UNCHANGED <<lh, pins>> /\ Logged' = Logged
        BY <2>0, <3>1 DEF Logged
      <4>2. Cardinality(Reserved') <= Cardinality(Reserved) /\ Cardinality(Reserved') \in Nat
        <5>1. Cardinality(Reserved') \in Nat /\ Cardinality(Reserved) \in Nat
          BY ZenonT(40), <1>1, <1>2, <2>0, <2>2, ReservationUsed, ReservedBound
        <5>2. \/ Cardinality(Reserved') = Cardinality(Reserved)
              \/ Cardinality(Reserved') = Cardinality(Reserved) - 1
          BY ZenonT(40), <1>1, <1>2, <2>0, <2>2, ReservationUsed
        <5> QED BY <5>1, <5>2
      <4> QED BY <1>3, <3>0, <3>1, <4>1, <4>2, ReservedBound, LogAssumption
              DEF LogShape, Injective
    <3>2. CASE b \notin Logged
      <4>1. lh' = Append(lh, b) /\ pins' = [pins EXCEPT ![b] = @ + 1]
        BY <2>0, <3>2
      <4>2. b \notin touched[p]
        BY <3>2 DEF LogShape
      <4>3. /\ Cardinality(Reserved') = Cardinality(Reserved) - 1
            /\ Cardinality(Reserved') \in Nat /\ Cardinality(Reserved) \in Nat
        BY ZenonT(40), <1>1, <1>2, <2>0, <2>2, <4>2, ReservationUsed, ReservedBound
      <4>4. /\ Len(lh') = Len(lh) + 1 /\ lh'[Len(lh) + 1] = b
            /\ \A i \in 1..Len(lh) : lh'[i] = lh[i] /\ lh[i] # b
        BY <1>2, <1>3, <3>2, <4>1 DEF Logged
      <4>5. Logged' = Logged \cup {b}
        BY <1>3, <4>4 DEF Logged
      <4>6. Injective(lh')
        BY <1>3, <4>4 DEF LogShape, Injective
      <4>7. Len(lh') + Cardinality(Reserved') <= LOGSIZE
        BY <1>3, <4>3, <4>4, LogAssumption DEF LogShape
      <4> QED BY <1>2, <3>0, <3>2, <4>1, <4>5, <4>6, <4>7
    <3> QED BY <3>1, <3>2
  <2>5. LogShape'
    <3>1. \A q \in Procs : touched'[q] \subseteq Logged'
      BY <2>0, <2>4 DEF LogShape, TypeOK
    <3> QED BY <1>0, <1>1, <2>4, <3>1 DEF LogShape
  <2>6. Pinned' = Logged'
    BY <1>0, <1>1 DEF Pinned, Logged, Recovering
  <2>7. PinsExact'
    BY <2>4, <2>6 DEF PinsExact
  <2>8. CacheCoherent'
    <3> SUFFICES ASSUME NEW c \in Blocks
                 PROVE  IF c \in Logged' \/ \E q \in Procs : c \in held'[q]
                        THEN cache[c] # NoData ELSE bread(c) = home[c]
      BY <1>0, <2>6 DEF CacheCoherent, bread
    <3>1. (c \in Logged' \/ \E q \in Procs : c \in held'[q])
            <=> (c \in Logged \/ \E q \in Procs : c \in held[q])
      BY <1>2, <2>0, <2>4 DEF TypeOK
    <3> QED BY <1>5, <3>1 DEF CacheCoherent
  <2>9. CommitProgress'
    BY <1>0, <1>1 DEF CommitProgress
  <2> QED BY <2>1, <2>3, <2>5, <2>7, <2>8, <2>9
<1> QED BY <1>6, <1>7

(* end_op gives the whole reservation back; the last operation of a group  *)
(* starts the commit.                                                      *)
LEMMA EndInv ==
  ASSUME IInv, NEW p \in Procs, end_op(p) PROVE IInv'
<1> USE DEF IInv, LogInvariant
<1>1. p \in InOp /\ phase = "idle" /\ ~Recovering /\ committing = 0
  <2>1. p \in InOp
    BY DEF end_op, InOp
  <2> QED BY ZenonT(40), <2>1, IdleInOp DEF Bookkeeping, TypeOK, Recovering
<1>2. /\ UNCHANGED <<home, head, logblk, cache, pins, lh, held, crashes>>
      /\ outstanding' = outstanding - 1
      /\ touched' = [touched EXCEPT ![p] = {}]
      /\ panicked' = NoPanicYet
      /\ pc[p] = "op"
  BY <1>1 DEF end_op, disk, bcache
<1>3. /\ outstanding = 1 =>
           /\ committing' = 1 /\ tail' = 0
           /\ pc' = [pc EXCEPT ![p] = "commit"]
           /\ phase' = IF lh = <<>> THEN "committed" ELSE "write_log"
      /\ outstanding # 1 =>
           /\ committing' = 0 /\ tail' = tail /\ phase' = "idle"
           /\ pc' = wakeup_log([pc EXCEPT ![p] = "idle"])
  BY <1>1 DEF end_op, CommitStart
<1>4. /\ \A q \in Procs \ {p} :
           \/ pc'[q] = pc[q]
           \/ pc[q] = "sleep" /\ pc'[q] = "begin"
      /\ pc'[p] = IF outstanding = 1 THEN "commit" ELSE "idle"
  BY <1>3 DEF TypeOK, wakeup_log
<1>5. /\ InOp' = InOp \ {p}
      /\ Cardinality(InOp') = outstanding - 1 /\ outstanding - 1 \in Nat
      /\ outstanding = 1 => InOp' = {}
  <2>1. InOp' = InOp \ {p}
    BY <1>4 DEF InOp
  <2>2. /\ IsFiniteSet(InOp \ {p})
        /\ Cardinality(InOp \ {p}) = outstanding - 1
    BY <1>1, InOpFinite, FS_RemoveElement DEF Bookkeeping
  <2> QED BY <2>1, <2>2, FS_EmptySet, FS_CardinalityType
<1>6. TypeOK'
  <2>1. pc' \in [Procs -> {"idle", "begin", "sleep", "op", "write", "commit"}]
    BY ZenonT(40), <1>3 DEF TypeOK, wakeup_log
  <2>2. tail' \in 0..LOGSIZE /\ phase' \in Phases /\ committing' \in {0, 1}
    BY <1>3, LogAssumption DEF TypeOK, Phases
  <2> QED BY ZenonT(40), <1>2, <1>5, <2>1, <2>2 DEF TypeOK
<1>7. phase' \in {"idle", "committed", "write_log"} /\ ~Recovering'
  BY <1>3 DEF Recovering
<1>8. Bookkeeping'
  <2>1. \A q \in Procs : touched'[q] = IF q = p THEN {} ELSE touched[q]
    BY <1>2 DEF TypeOK
  <2>2. Cardinality({}) = 0
    BY FS_EmptySet
  <2>3. /\ committing' = 1 <=> phase' \in {"write_log", "write_head", "install",
                                          "erase", "committed"}
        /\ committing' = 1 => InOp' = {}
        /\ committing' = 1 <=> outstanding = 1
    BY <1>3, <1>5
  <2>4. \A q \in Procs : pc'[q] = "commit" => q = p /\ committing' = 1
    BY <1>1, <1>4, <2>3 DEF Bookkeeping
  <2>5. \A q \in Procs : pc'[q] # "write" => held'[q] = {}
    BY <1>2, <1>4 DEF Bookkeeping
  <2>6. \A q \in Procs : pc'[q] = "write" =>
          \E c \in Blocks : /\ held'[q] = {c}
                            /\ Cardinality(touched'[q] \cup {c}) <= OPBLOCKS
    BY <1>2, <1>4, <2>1 DEF Bookkeeping
  <2>7. \A q \in Procs : /\ Cardinality(touched'[q]) <= OPBLOCKS
                         /\ q \notin InOp' => touched'[q] = {}
    BY <1>5, <2>1, <2>2, LogAssumption DEF Bookkeeping
  <2>8. \A q, r \in Procs : q # r => held'[q] \cap held'[r] = {}
    BY <1>2 DEF Bookkeeping
  <2> QED BY SMTT(40), <1>2, <1>5, <1>7, <2>3, <2>4, <2>5, <2>6, <2>7, <2>8 DEF Bookkeeping
<1>9. LogShape'
  <2>1. Reserved' \subseteq Reserved
    BY <1>2, <1>5 DEF Reserved, TypeOK
  <2>2. /\ Cardinality(Reserved') \in Nat /\ Cardinality(Reserved) \in Nat
        /\ Cardinality(Reserved') <= Cardinality(Reserved)
    BY <2>1, ReservedBound, FS_Subset, FS_CardinalityType
  <2>3. Len(lh) \in Nat /\ (lh # <<>> => 0 < Len(lh))
    BY DEF TypeOK
  <2>4. Len(lh') + Cardinality(Reserved') <= LOGSIZE
    BY <1>2, <2>2, <2>3, LogAssumption DEF LogShape
  <2>5. \A q \in Procs : touched'[q] \subseteq Logged'
    BY <1>2 DEF LogShape, TypeOK, Logged
  <2>6. phase' = "write_log" => tail' < Len(lh')
    BY <1>2, <1>3, <2>3
  <2>7. phase' = "committed" => lh' = <<>>
    BY <1>2, <1>3
  <2> QED BY <1>1, <1>2, <1>7, <2>4, <2>5, <2>6, <2>7 DEF LogShape, Injective
<1>10. Pinned' = Pinned
  BY <1>1, <1>2, <1>7 DEF Pinned
<1>11. PinsExact' /\ CacheCoherent'
  BY <1>2, <1>10 DEF PinsExact, CacheCoherent, bread
<1>12. CommitProgress'
  <2>1. phase' = "write_log" => tail' = 0
    BY <1>3
  <2> QED BY <1>7, <2>1 DEF CommitProgress
<1> QED BY <1>6, <1>8, <1>9, <1>11, <1>12

-----------------------------------------------------------------------------
(* During a commit or a recovery no operation runs and no buffer is held.  *)
LEMMA Quiet ==
  ASSUME IInv, committing = 1 \/ Recovering
  PROVE  /\ InOp = {} /\ Reserved = {} /\ Cardinality(Reserved) = 0
         /\ \A q \in Procs : held[q] = {} /\ touched[q] = {}
         /\ Len(lh) \in Nat /\ Len(lh) <= LOGSIZE
<1> USE DEF IInv, LogInvariant
<1>1. InOp = {}
  BY SMTT(40) DEF Bookkeeping, InOp
<1>2. Reserved = {} /\ Cardinality(Reserved) = 0
  BY SMTT(40), <1>1, FS_EmptySet DEF Reserved
<1>3. \A q \in Procs : held[q] = {} /\ touched[q] = {}
  BY <1>1 DEF Bookkeeping, InOp
<1> QED BY <1>1, <1>2, <1>3, LogAssumption DEF LogShape, TypeOK

(* What a disk step of commit or recovery leaves alone.                    *)
LEMMA QuietStep ==
  ASSUME IInv, committing = 1 \/ Recovering,
         UNCHANGED <<outstanding, committing, pc, held, touched>>,
         committing = 1 <=> phase' \in {"write_log", "write_head", "install", "erase",
                                       "committed"},
         Recovering' => Recovering
  PROVE  Bookkeeping' /\ InOp' = {} /\ Reserved' = {} /\ Cardinality(Reserved') = 0
<1> USE DEF IInv, LogInvariant
<1>1. InOp' = {} /\ InOp = {}
  BY Quiet DEF InOp
<1>2. Reserved' = {} /\ Cardinality(Reserved') = 0
  BY <1>1, FS_EmptySet DEF Reserved
<1> QED BY <1>1, <1>2 DEF Bookkeeping

(* write_log copies pinned, hence cached, blocks into the log.             *)
LEMMA WriteLogInv == ASSUME IInv, write_log PROVE IInv'
<1> USE DEF IInv, LogInvariant
<1> DEFINE b == lh[tail + 1]
<1>1. /\ phase = "write_log" /\ committing = 1 /\ ~Recovering
      /\ tail \in Nat /\ tail < Len(lh)
  BY DEF write_log, Bookkeeping, Recovering, LogShape, TypeOK
<1>2. Len(lh) \in Nat /\ Len(lh) <= LOGSIZE /\ \A q \in Procs : held[q] = {}
  BY <1>1, Quiet
<1>3. tail + 1 \in 1..Len(lh) /\ tail + 1 \in 1..LOGSIZE /\ b \in Blocks
  BY <1>1, <1>2, LogAssumption DEF TypeOK
<1>4. Pinned = Logged /\ b \in Pinned
  BY <1>1, <1>3 DEF Pinned, Logged
<1>5. cache[b] # NoData /\ bread(b) = cache[b] /\ cache[b] \in Val
  BY <1>3, <1>4 DEF CacheCoherent, bread, TypeOK
<1>6. /\ UNCHANGED <<home, head, cache, pins, lh, outstanding, committing, pc, held,
                     touched, panicked, crashes>>
      /\ logblk' = [logblk EXCEPT ![tail + 1] = cache[b]]
      /\ tail' = tail + 1
      /\ phase' = IF tail + 1 = Len(lh) THEN "write_head" ELSE "write_log"
  BY SMTT(40), <1>3, <1>5 DEF write_log, log, procs, TypeOK
<1>7. phase' \in {"write_head", "write_log"} /\ ~Recovering'
  BY ZenonT(40), <1>6 DEF Recovering
<1>8. TypeOK'
  <2>1. tail' \in 0..LOGSIZE /\ phase' \in Phases
    BY <1>1, <1>3, <1>6, <1>7, LogAssumption DEF Phases
  <2>2. logblk' \in [1..LOGSIZE -> Val]
    BY <1>3, <1>5, <1>6 DEF TypeOK
  <2> QED BY SMTT(40), <1>6, <2>1, <2>2 DEF TypeOK
<1>9. Bookkeeping' /\ Cardinality(Reserved') = 0
  BY <1>1, <1>6, <1>7, QuietStep
<1>10. LogShape'
  <2>1. phase' = "write_log" => tail' < Len(lh')
    BY <1>1, <1>2, <1>6
  <2>2. Len(lh') > 0 /\ Len(lh') + Cardinality(Reserved') <= LOGSIZE
    BY <1>1, <1>2, <1>6, <1>9, LogAssumption
  <2> QED BY <1>1, <1>6, <1>7, <2>1, <2>2 DEF LogShape, Logged, Injective
<1>11. Pinned' = Pinned
  BY <1>1, <1>6, <1>7 DEF Pinned
<1>12. PinsExact' /\ CacheCoherent'
  BY <1>6, <1>11 DEF PinsExact, CacheCoherent, bread
<1>13. CommitProgress'
  <2> SUFFICES ASSUME NEW i \in 1..Len(lh), phase' = "write_log" => i <= tail + 1
               PROVE  logblk'[i] = cache[lh[i]]
    BY <1>6, <1>7 DEF CommitProgress
  <2>1. i \in 1..LOGSIZE
    BY <1>2, LogAssumption
  <2>2. CASE i = tail + 1
    BY <1>6, <2>1, <2>2 DEF TypeOK
  <2>3. CASE i # tail + 1
    <3>1. i <= tail
      BY SMTT(40), <1>1, <1>2, <1>6, <2>3
    <3> QED BY <1>1, <1>6, <2>1, <2>3, <3>1 DEF CommitProgress, TypeOK
  <2> QED BY <2>2, <2>3
<1> QED BY <1>8, <1>9, <1>10, <1>12, <1>13

(* write_head makes the header on disk the one in memory.                  *)
LEMMA WriteHeadInv == ASSUME IInv, write_head PROVE IInv'
<1> USE DEF IInv, LogInvariant
<1>1. phase = "write_head" /\ committing = 1 /\ ~Recovering
  BY DEF write_head, Bookkeeping, Recovering
<1>2. Len(lh) \in Nat /\ Len(lh) <= LOGSIZE /\ Len(lh) > 0
  BY <1>1, Quiet DEF LogShape
<1>3. /\ UNCHANGED <<home, logblk, cache, pins, lh, outstanding, committing, pc, held,
                     touched, panicked, crashes>>
      /\ head' = lh /\ phase' = "install" /\ tail' = 0
  BY DEF write_head, log, procs, bcache
<1>4. ~Recovering'
  BY <1>3 DEF Recovering
<1>5. TypeOK'
  BY <1>3, LogAssumption DEF TypeOK, Phases
<1>6. Bookkeeping' /\ Cardinality(Reserved') = 0
  BY <1>1, <1>3, <1>4, QuietStep
<1>7. LogShape'
  BY <1>1, <1>2, <1>3, <1>6, LogAssumption DEF LogShape, Logged, Injective
<1>8. Pinned' = Pinned
  BY <1>1, <1>3, <1>4 DEF Pinned
<1>9. PinsExact' /\ CacheCoherent'
  BY <1>3, <1>8 DEF PinsExact, CacheCoherent, bread
<1>10. CommitProgress'
  BY <1>1, <1>2, <1>3 DEF CommitProgress
<1> QED BY <1>5, <1>6, <1>7, <1>9, <1>10

(* One turn of install_trans. *)
LEMMA InstallInv == ASSUME IInv, install_trans PROVE IInv'
<1> USE DEF IInv, LogInvariant
<1> DEFINE b == lh[tail + 1]
<1>1. /\ phase \in {"install", "recover"} /\ (committing = 1 \/ Recovering)
      /\ phase = "install" <=> ~Recovering
      /\ tail \in Nat /\ tail < Len(lh)
  BY DEF install_trans, Bookkeeping, Recovering, LogShape, TypeOK
<1>2. Len(lh) \in Nat /\ Len(lh) <= LOGSIZE /\ \A q \in Procs : held[q] = {}
  BY <1>1, Quiet
<1>3. tail + 1 \in 1..Len(lh) /\ tail + 1 \in 1..LOGSIZE /\ b \in Blocks
  BY <1>1, <1>2, LogAssumption DEF TypeOK
<1>4. /\ UNCHANGED <<head, logblk, lh, outstanding, committing, pc, held, touched,
                     panicked, crashes>>
      /\ home' = [home EXCEPT ![b] = logblk[tail + 1]]
      /\ cache' = [cache EXCEPT ![b] = logblk[tail + 1]]
      /\ pins' = IF phase = "install" THEN [pins EXCEPT ![b] = @ - 1] ELSE pins
      /\ tail' = tail + 1
      /\ phase' = IF tail + 1 < Len(lh) THEN phase
                  ELSE IF phase = "install" THEN "erase" ELSE "recover_erase"
  BY DEF install_trans, log, procs, bunpin
<1>5. logblk[tail + 1] \in Val /\ logblk[tail + 1] # NoData
  BY <1>3, LogAssumption DEF TypeOK
<1>6. /\ phase = "install" => phase' \in {"install", "erase"}
      /\ phase = "recover" => phase' \in {"recover", "recover_erase"}
      /\ Recovering' <=> Recovering
  BY <1>1, <1>4 DEF Recovering
<1>7. Bookkeeping' /\ Cardinality(Reserved') = 0
  <2>1. committing = 1 <=> phase' \in {"write_log", "write_head", "install", "erase",
                                      "committed"}
    BY <1>1, <1>6 DEF Bookkeeping
  <2> QED BY <1>1, <1>4, <1>6, <2>1, QuietStep
<1>8. LogShape'
  <2>1. /\ phase' \in {"install", "recover"} => tail' < Len(lh')
        /\ phase' \in {"erase", "recover_erase"} => tail' = Len(lh')
    BY <1>1, <1>2, <1>4
  <2>2. Len(lh') + Cardinality(Reserved') <= LOGSIZE
    BY <1>2, <1>4, <1>7, LogAssumption
  <2> QED BY <1>1, <1>4, <1>6, <2>1, <2>2 DEF LogShape, Logged, Injective
<1>9. \A i \in 1..Len(lh) : lh[i] \in Blocks /\ (lh[i] = b => i = tail + 1)
  BY <1>3 DEF LogShape, Injective, TypeOK
<1>10. /\ Pinned' = Pinned \ {b}
       /\ phase = "install" => b \in Pinned
       /\ phase = "recover" => Pinned = {}
  <2>1. CASE phase = "install"
    <3>1. Pinned = {lh[i] : i \in tail+1..Len(lh)}
      BY <1>1, <2>1 DEF Pinned
    <3>2. Pinned' = {lh[i] : i \in tail+2..Len(lh)}
      BY <1>1, <1>4, <1>6, <2>1 DEF Pinned
    <3>3. tail+1..Len(lh) = {tail + 1} \cup (tail+2..Len(lh))
      BY <1>1, <1>2
    <3>4. \A i \in tail+2..Len(lh) : lh[i] # b
      BY <1>1, <1>2, <1>9
    <3> QED BY <2>1, <3>1, <3>2, <3>3, <3>4
  <2>2. CASE phase = "recover"
    BY <1>1, <1>6, <2>2 DEF Pinned
  <2> QED BY <1>1, <2>1, <2>2
<1>11. PinsExact'
  <2>1. CASE phase = "install"
    BY <1>3, <1>4, <1>10, <2>1 DEF PinsExact
  <2>2. CASE phase = "recover"
    BY <1>4, <1>10, <2>2 DEF PinsExact
  <2> QED BY <1>1, <2>1, <2>2
<1>12. TypeOK'
  <2>1. tail' \in 0..LOGSIZE /\ phase' \in Phases
    BY <1>1, <1>3, <1>4, <1>6, LogAssumption DEF Phases
  <2>2. pins' \in [Blocks -> Nat]
    BY <1>11 DEF PinsExact
  <2>3. home' \in [Blocks -> Val] /\ cache' \in [Blocks -> Val \cup {NoData}]
    BY <1>3, <1>4, <1>5 DEF TypeOK
  <2> QED BY <1>4, <2>1, <2>2, <2>3 DEF TypeOK
<1>13. CacheCoherent'
  <2> SUFFICES ASSUME NEW c \in Blocks
               PROVE  IF c \in Pinned' THEN cache'[c] # NoData ELSE bread(c)' = home'[c]
    BY <1>2, <1>4 DEF CacheCoherent
  <2>1. CASE c = b
    BY SMTT(40), <1>3, <1>4, <1>5, <1>10, <2>1 DEF TypeOK, bread
  <2>2. CASE c # b
    <3>1. cache'[c] = cache[c] /\ home'[c] = home[c] /\ bread(c)' = bread(c)
      BY SMTT(40), <1>4, <2>2 DEF TypeOK, bread
    <3> QED BY <1>2, <1>10, <2>2, <3>1 DEF CacheCoherent
  <2> QED BY <2>1, <2>2
<1>14. CommitProgress'
  <2> SUFFICES ASSUME NEW i \in 1..Len(lh)
               PROVE  /\ phase' = "install" /\ i > tail + 1
                            => logblk[i] = cache'[lh[i]]
                      /\ i <= tail + 1 => home'[lh[i]] = logblk[i]
    BY <1>1, <1>4, <1>6 DEF CommitProgress
  <2>1. CASE i = tail + 1
    BY <1>1, <1>3, <1>4, <2>1 DEF TypeOK
  <2>2. CASE i # tail + 1
    <3>1. lh[i] # b /\ cache'[lh[i]] = cache[lh[i]] /\ home'[lh[i]] = home[lh[i]]
      BY <1>4, <1>9, <2>2 DEF TypeOK
    <3>2. i > tail + 1 => i > tail
      BY <1>1
    <3>3. i <= tail + 1 => i <= tail
      BY <1>1, <2>2
    <3>4. phase' = "install" => phase = "install"
      BY <1>1, <1>6
    <3> QED BY <1>1, <3>1, <3>2, <3>3, <3>4 DEF CommitProgress
  <2> QED BY <2>1, <2>2
<1> QED BY <1>7, <1>8, <1>11, <1>12, <1>13, <1>14
=============================================================================
