------------------------------ MODULE Ringbuf -------------------------------
(***************************************************************************)
(* kernel/ringbuf.zig: the manager of named ring buffers that two          *)
(* processes share, with the parts of proc.c, exec.c and vm.c that         *)
(* create, replace and free the page tables they are mapped in.  A system  *)
(* call holds the spinlock of the manager from start to end, so it is one  *)
(* step.  Addresses are page numbers.                                      *)
(***************************************************************************)
EXTENDS Naturals, Sequences, FiniteSets, FiniteSetsExt, TLC

CONSTANTS
  Procs, Names,
  MAX_RINGBUFS,
  RINGBUF_SIZE,  \* pages of a buffer
  NPages,        \* physical pages
  TOP,           \* bound: top_free_uvm_pg of a new process; 0 is the last page
  FailAt,        \* after how many mapped pages an open may fail
  MaxFaults,     \* bound: opens that fail and execs of a process that owns a
                 \* ring buffer
  NoProc, NoName

ASSUME RingbufAssumption ==
  /\ MAX_RINGBUFS \in Nat \ {0} /\ RINGBUF_SIZE \in Nat \ {0}
  /\ NPages \in Nat /\ TOP \in Nat /\ MaxFaults \in Nat
  /\ FailAt \subseteq 0..2 * RINGBUF_SIZE + 1
  /\ NoProc \notin Procs /\ NoName \notin Names

Pages == 1..NPages
Slots == 1..MAX_RINGBUFS
null == 0

VARIABLES
  rb,     \* ringbufs: refcount, owners, name, buf_pages, book_page
  free,   \* physical pages on the free list
  pt,     \* pt[p]: virtual page -> physical page, for the pages mapped here
  top,    \* p->top_free_uvm_pg
  owned,  \* p->owned_ringbufs
  life,   \* none (slot unused), live, zombie
  panic,  \* "none", or the panic that stopped the kernel
  faults  \* history: the failed opens and the execs of owners so far

vars == <<rb, free, pt, top, owned, life, panic, faults>>

(* A fault leaves its process with pages and counts that nothing repairs,  *)
(* see open_fail and exec.                                                 *)
Fault == faults < MaxFaults /\ faults' = faults + 1

NoOwner == [proc |-> NoProc, vbuf |-> null, vbook |-> null]
Inactive == [refcount |-> 0, owners |-> <<NoOwner, NoOwner>>, name |-> NoName,
             buf_pages |-> [i \in 1..RINGBUF_SIZE |-> null], book_page |-> null]
Empty == [v \in {} |-> null]

Init ==
  /\ rb = [r \in Slots |-> Inactive]
  /\ free = Pages
  /\ pt = [p \in Procs |-> Empty]
  /\ top = [p \in Procs |-> TOP]
  /\ owned = [p \in Procs |-> 0]
  /\ life = [p \in Procs |-> "none"]
  /\ panic = "none"
  /\ faults = 0

-----------------------------------------------------------------------------
findFreeRingbuf == {r \in Slots : rb[r].refcount = 0}

findRingbufByName(n) == {r \in Slots : rb[r].refcount > 0 /\ rb[r].name = n}

OwnerIndex(b, p) == {i \in 1..2 : b.owners[i].proc = p}

(* The pages a ring buffer holds. *)
Held(b) == ({b.buf_pages[i] : i \in 1..RINGBUF_SIZE} \cup {b.book_page}) \ {null}

(* The i-th page that kalloc.allocPage gives: which one does not matter. *)
allocPage(i) == CHOOSE x \in free : Cardinality({y \in free : y < x}) = i - 1

(* activate(name): RINGBUF_SIZE + 1 pages of the free list. *)
activate(b, n) ==
  [b EXCEPT !.name = n, !.book_page = allocPage(RINGBUF_SIZE + 1),
            !.buf_pages = [i \in 1..RINGBUF_SIZE |-> allocPage(i)]]

(* Mutant: the second copy starts with the next page. *)
MappedPage_shift(b, j) ==
  IF j < 2 * RINGBUF_SIZE
  THEN b.buf_pages[((j + j \div RINGBUF_SIZE) % RINGBUF_SIZE) + 1] ELSE b.book_page

(* The j-th page that open maps, downwards from top: twice the buffer,     *)
(* then the book page.                                                     *)
MappedPage(b, j) ==
  IF j < 2 * RINGBUF_SIZE THEN b.buf_pages[(j % RINGBUF_SIZE) + 1] ELSE b.book_page

Mapped(b, t, k) == [v \in t-k+1..t |-> MappedPage(b, t - v)]

(* Mutant: the book page is not given back. *)
Freed_buf(b) == Held(b) \ {b.book_page}

Freed(b) == Held(b)

(* deactivate: the pages are freed before the owners are looked at. *)
deactivate(r, b) ==
  /\ free' = free \cup Freed(b)
  /\ IF \E i \in 1..2 : b.owners[i].proc # NoProc
     THEN /\ panic' = "ringbuf has owners" /\ rb' = [rb EXCEPT ![r] = b]
     ELSE /\ rb' = [rb EXCEPT ![r] = Inactive] /\ UNCHANGED panic

-----------------------------------------------------------------------------
(* Owner i of b becomes p, with the buffer at vbuf and the book below it. *)
NewOwner(b, i, p, vbuf) ==
  [b EXCEPT !.refcount = @ + 1,
            !.owners[i] = [proc |-> p, vbuf |-> vbuf, vbook |-> vbuf - 1]]

(* open once the ring buffer b is found or activated: its pages are mapped *)
(* below top, and a guard page is left.                                    *)
open_map(p, r, b, i) ==
  LET k == 2 * RINGBUF_SIZE + 1
      m == Mapped(b, top[p], k)
  IN  /\ owned' = [owned EXCEPT ![p] = @ + 1]
      /\ IF DOMAIN m \cap DOMAIN pt[p] # {}
         THEN panic' = "mappages: remap" /\ UNCHANGED <<rb, free, pt, top>>
         ELSE /\ pt' = [pt EXCEPT ![p] = @ @@ m]
              /\ top' = [top EXCEPT ![p] = @ - k - 1]
              /\ rb' = [rb EXCEPT ![r] = NewOwner(b, i, p, top[p] - k + 2)]
              /\ free' = free \ Held(b)
              /\ UNCHANGED panic
      /\ UNCHANGED <<life, faults>>

(* The same when mappages fails after k pages, or, for the largest k,      *)
(* copyout fails: the errdefer block runs.  The pages that are mapped stay *)
(* mapped and p->owned_ringbufs stays incremented.                         *)
open_fail(p, r, b, i) == \E k \in FailAt :
  /\ Fault
  /\ owned' = [owned EXCEPT ![p] = @ + 1]
  /\ pt' = [pt EXCEPT ![p] = @ @@ Mapped(b, top[p], k)]
  /\ top' = [top EXCEPT ![p] = @ - k]
  /\ deactivate(r, b)
  /\ UNCHANGED life

Running(p) == panic = "none" /\ life[p] = "live"

(* Bounds: there is room for a ring buffer above page 0, and failed opens, *)
(* which stay in owned, do not go on for ever.                             *)
Room(p) == top[p] >= 2 * RINGBUF_SIZE + 2 /\ owned[p] <= MAX_RINGBUFS

(* The owner entry that open uses: none if there are two owners. *)
FreeOwner(b) == IF b.owners[2].proc = NoProc THEN {2}
                ELSE IF b.owners[1].proc = NoProc THEN {1} ELSE {}

(* open of a ring buffer that exists; AlreadyIsOwner and AlreadyTwoOwners  *)
(* change nothing.                                                         *)
open_existing(p, n) == \E r \in findRingbufByName(n) : \E i \in FreeOwner(rb[r]) :
  /\ Running(p) /\ Room(p) /\ OwnerIndex(rb[r], p) = {}
  /\ open_map(p, r, rb[r], i) \/ open_fail(p, r, rb[r], i)

(* open of a new one; when there are too few pages activate gives back     *)
(* what it got and nothing changes.                                        *)
open_new(p, n) ==
  LET r == Min(findFreeRingbuf)
      b == activate(rb[r], n)
  IN  /\ Running(p) /\ Room(p)
      /\ findRingbufByName(n) = {} /\ findFreeRingbuf # {}
      /\ Cardinality(free) > RINGBUF_SIZE
      /\ open_map(p, r, b, 1) \/ open_fail(p, r, b, 1)

-----------------------------------------------------------------------------
(* What disownIfOwned takes out of the page table of the owner o. *)
Unmapped(o) == o.vbuf..o.vbuf + 2 * RINGBUF_SIZE - 1 \cup {o.vbook}

(* disownIfOwned, up to the decision to deactivate.  vbook stays. *)
Disowned(b, i) ==
  [b EXCEPT !.owners[i].proc = NoProc, !.owners[i].vbuf = null, !.refcount = @ - 1]

Unowned(b) == b.refcount = 0

(* close, with the address that open gave; every other address or name is  *)
(* an error that changes nothing.                                          *)
close(p, n) == \E r \in findRingbufByName(n) : \E i \in OwnerIndex(rb[r], p) :
  LET o == rb[r].owners[i]
      b == Disowned(rb[r], i)
      keep == DOMAIN pt[p] \ Unmapped(o)
  IN  /\ Running(p)
      /\ pt' = [pt EXCEPT ![p] = [v \in keep |-> pt[p][v]]]
      /\ owned' = [owned EXCEPT ![p] = @ - 1]
      /\ IF Unowned(b) THEN deactivate(r, b)
         ELSE rb' = [rb EXCEPT ![r] = b] /\ UNCHANGED <<free, panic>>
      /\ top' = [top EXCEPT ![p] =
           IF @ = o.vbuf - 3 THEN @ + 2 + 2 * RINGBUF_SIZE ELSE @]
      /\ UNCHANGED <<life, faults>>

-----------------------------------------------------------------------------
fork(p) ==
  /\ panic = "none" /\ life[p] = "none"
  /\ life' = [life EXCEPT ![p] = "live"]
  /\ UNCHANGED <<rb, free, pt, top, owned, panic, faults>>

(* exit does not touch the ring buffers. *)
exit(p) ==
  /\ Running(p)
  /\ life' = [life EXCEPT ![p] = "zombie"]
  /\ UNCHANGED <<rb, free, pt, top, owned, panic, faults>>

(* freeproc looks at the ring buffers of p only if it owns some. *)
DisownAll(p) == owned[p] > 0

(* freeproc: ringbuf_disown_all, then proc_freepagetable, whose freewalk   *)
(* panics on a page that is still mapped.                                  *)
freeproc(p) ==
  LET mine == IF DisownAll(p) THEN {r \in Slots : OwnerIndex(rb[r], p) # {}} ELSE {}
      idx(r) == Min(OwnerIndex(rb[r], p))
      new(r) == Disowned(rb[r], idx(r))
      gone == {r \in mine : Unowned(new(r))}
      left == DOMAIN pt[p] \ UNION {Unmapped(rb[r].owners[idx(r)]) : r \in mine}
  IN  /\ panic = "none" /\ life[p] = "zombie"
      /\ rb' = [r \in Slots |-> IF r \in gone THEN Inactive
                                ELSE IF r \in mine THEN new(r) ELSE rb[r]]
      /\ free' = free \cup UNION {Freed(rb[r]) : r \in gone}
      /\ panic' = IF left = {} THEN "none" ELSE "freewalk: leaf"
      /\ pt' = [pt EXCEPT ![p] = Empty]
      /\ top' = [top EXCEPT ![p] = TOP]
      /\ owned' = [owned EXCEPT ![p] = 0]
      /\ life' = [life EXCEPT ![p] = "none"]
      /\ UNCHANGED faults

(* exec: a new page table, and proc_freepagetable of the old one, which    *)
(* knows nothing of ring buffers.                                          *)
exec(p) ==
  /\ Running(p)
  /\ IF owned[p] = 0 THEN UNCHANGED faults ELSE Fault
  /\ panic' = IF pt[p] = Empty THEN "none" ELSE "freewalk: leaf"
  /\ pt' = [pt EXCEPT ![p] = Empty]
  /\ UNCHANGED <<rb, free, top, owned, life>>

Next == \E p \in Procs :
  \/ \E n \in Names : open_existing(p, n) \/ open_new(p, n) \/ close(p, n)
  \/ fork(p) \/ exit(p) \/ freeproc(p) \/ exec(p)

Spec == Init /\ [][Next]_vars

-----------------------------------------------------------------------------
(* The books agree: a reference count is the number of owners, a process   *)
(* owns as many ring buffers as p->owned_ringbufs says, only live or       *)
(* zombie processes own any, and no name is used twice.                    *)
BooksAgree ==
  /\ \A r \in Slots : rb[r].refcount = Cardinality({i \in 1..2 : rb[r].owners[i].proc # NoProc})
  /\ \A p \in Procs :
       /\ owned[p] = Cardinality({r \in Slots : OwnerIndex(rb[r], p) # {}})
       /\ owned[p] > 0 => life[p] # "none"
  /\ \A r, s \in Slots : r # s /\ rb[r].refcount > 0 => rb[r].name # rb[s].name

(* Every page is either free or held by exactly one ring buffer that has   *)
(* an owner: nothing leaks and nothing is freed twice (activate,           *)
(* deactivate, disownIfOwned), on the paths where open fails as well, as   *)
(* long as the kernel runs.                                                *)
PagesConserved == panic = "none" =>
  /\ free \cup UNION {Held(rb[r]) : r \in Slots} = Pages
  /\ \A r \in Slots : Held(rb[r]) \cap free = {} /\ (Held(rb[r]) # {} => rb[r].refcount > 0)
  /\ \A r, s \in Slots : r # s => Held(rb[r]) \cap Held(rb[s]) = {}

(* What user programs rely on, without a fault: the kernel does not panic, *)
(* its books agree, an owner sees the buffer twice in a row above its book *)
(* page, both owners see the same page at the same offset, and a process   *)
(* has no other page of a ring buffer mapped, so no page that has been     *)
(* freed (open, close and freeproc).                                       *)
MagicMapping == faults = 0 => panic = "none" /\ BooksAgree /\ \A p \in Procs :
  LET mine == {r \in Slots : OwnerIndex(rb[r], p) # {}}
      o(r) == rb[r].owners[Min(OwnerIndex(rb[r], p))]
  IN  /\ \A r \in mine : \A v \in 0..2 * RINGBUF_SIZE - 1 :
           pt[p][o(r).vbuf + v] = rb[r].buf_pages[RINGBUF_SIZE - (v % RINGBUF_SIZE)]
      /\ \A r \in mine : pt[p][o(r).vbook] = rb[r].book_page
      /\ DOMAIN pt[p] = UNION {Unmapped(o(r)) : r \in mine}
=============================================================================
