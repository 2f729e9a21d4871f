--------------------------------- MODULE Vm ---------------------------------
(***************************************************************************)
(* kernel/vm.c, kalloc.zig, exec.c and the memory of processes in proc.c:  *)
(* physical pages, three-level page tables, and sbrk, fork, exec and exit  *)
(* of several processes that take pages from one free list between the     *)
(* steps of one another.  Addresses are in units of which PGSIZE make a    *)
(* page; a table has FAN entries.  Ring buffers are in Ringbuf.            *)
(***************************************************************************)
EXTENDS Naturals, Sequences, FiniteSets, FiniteSetsExt, Functions, TLC

CONSTANTS
  Procs, First,   \* processes, and the one that userinit makes
  NPAGES,         \* physical pages
  FAN, PGSIZE,
  Images,         \* programs: sequences of segments [vaddr, memsz, filesz]
  Increments,     \* bound: arguments of sbrk, as [up, n]
  Vals,           \* bound: what a process stores
  NARGS,          \* bound: arguments of a call of exec
  MaxSz,          \* bound: size of a process
  MaxCalls        \* bound: system calls in a behaviour

VARIABLES
  free,      \* kmem's free list
  content,   \* what each physical page holds
  proc,      \* state, sz, tf (trapframe page) and page table of each process
  l,         \* where each process is in the kernel, and its locals
  panicked,
  left       \* system calls left of the bound

vars == <<free, content, proc, l, panicked, left>>

Pages == 1..NPAGES
MAXVA == FAN * FAN * FAN
TRAMPOLINE == MAXVA - 1
TRAPFRAME == MAXVA - 2
NoMem == [k \in {} |-> 0]
NoTable == [tab |-> NoMem, leaf |-> NoMem]
Unused == [state |-> "UNUSED", sz |-> 0, tf |-> 0, pt |-> NoTable]
User == [pc |-> "user", a |-> 0, end |-> 0, child |-> First, segs |-> <<>>, pt |-> NoTable, sz |-> 0, args |-> {}]

ASSUME VmAssumption ==
  /\ First \in Procs /\ NPAGES \in Nat /\ FAN \in Nat \ {0, 1} /\ PGSIZE \in Nat \ {0}
  /\ NPAGES >= 7           \* the first process fits
  /\ NPAGES < TRAPFRAME    \* memory is smaller than the address space
  /\ \A g \in Images : \A k \in DOMAIN g : g[k].filesz <= g[k].memsz

PGROUNDUP(s) == (s + PGSIZE - 1) \div PGSIZE   \* a number of pages

-----------------------------------------------------------------------------
(* Page tables: tab gives the page of a table by its path from the root,   *)
(* leaf the physical page and the user bit of a mapped page.               *)
Path(va) == <<<<va \div (FAN * FAN)>>, <<va \div (FAN * FAN), (va \div FAN) % FAN>>>>
Missing(pt, va) == SelectSeq(Path(va), LAMBDA x : x \notin DOMAIN pt.tab)
Nth(m, k) == IF k = 1 THEN Min(m) ELSE Min(m \ {Min(m)})

(* mappages of one page with the free pages m.  When walk fails the tables *)
(* that it has made stay in the tree.                                      *)
mappages(m, pt, va, pa, u) ==
  LET need == Missing(pt, va)
      k == Min({Len(need), Cardinality(m)})
      new == [x \in {need[j] : j \in 1..k} |-> Nth(m, CHOOSE j \in 1..k : need[j] = x)]
  IN  [ok |-> k = Len(need),
       remap |-> va \in DOMAIN pt.leaf,
       free |-> m \ Range(new),
       pt |-> [tab |-> pt.tab @@ new,
               leaf |-> IF k = Len(need) THEN (va :> [pa |-> pa, u |-> u]) @@ pt.leaf ELSE pt.leaf]]

(* uvmcreate: an empty table in the first of the free pages m. *)
uvmcreate(m) == [tab |-> (<<>> :> Min(m)), leaf |-> NoMem]

(* proc_pagetable: an empty table with the trampoline and the trapframe.   *)
(* The two share their tables, so only the first mapping can fail.         *)
proc_pagetable(m, tf) ==
  LET r == mappages(m \ {Min(m)}, uvmcreate(m), TRAMPOLINE, 0, 0)
      s == mappages(r.free, r.pt, TRAPFRAME, tf, 0)
  IN  IF m # {} /\ r.ok THEN [ok |-> TRUE, free |-> s.free, pt |-> s.pt]
      ELSE [ok |-> FALSE, free |-> m, pt |-> NoTable]

(* The pages that uvmunmap frees from page first on up to page last.       *)
UserPages(pt, first, last) == {pt.leaf[k].pa : k \in first..last - 1}
Unmapped(pt, first, last) ==
  [pt EXCEPT !.leaf = [k \in DOMAIN pt.leaf \ (first..last - 1) |-> pt.leaf[k]]]

(* Mutant: the pages of the lower tables are not freed. *)
freewalk_root(pt) == {pt.tab[<<>>]}

freewalk(pt) == Range(pt.tab)

(* proc_freepagetable, and where uvmunmap or freewalk would panic. *)
FreedPages(pt, sz) == UserPages(pt, 0, PGROUNDUP(sz)) \cup freewalk(pt)
CannotFree(pt, sz) == DOMAIN pt.leaf # (0..PGROUNDUP(sz) - 1) \cup {TRAMPOLINE, TRAPFRAME}

(* The contents after a step that leaves the pages m free: kfree fills     *)
(* with junk, and what was taken for a table has been cleared.             *)
Filled(m) == [x \in Pages |-> IF x \in m THEN "junk" ELSE IF x \in free THEN "table" ELSE content[x]]
Settle(m) == free' = m /\ content' = Filled(m)

(* kalloc of a page and its mapping at va, the body of the loops of        *)
(* uvmalloc and uvmcopy; the page is given back when mappages fails.       *)
Grab(pt, va, u) ==
  LET mem == Min(free)
      r == mappages(free \ {mem}, pt, va, mem, u)
  IN  IF free = {} THEN [ok |-> FALSE, remap |-> FALSE, mem |-> 0, free |-> free, pt |-> pt]
      ELSE [ok |-> r.ok, remap |-> r.remap, mem |-> mem, pt |-> r.pt,
            free |-> IF r.ok THEN r.free ELSE r.free \cup {mem}]

-----------------------------------------------------------------------------
(* userinit: the first process has one page of code. *)
Init ==
  LET t == proc_pagetable(3..NPAGES, 1)
      s == mappages(t.free, t.pt, 0, 2, 1)
  IN  /\ proc = [p \in Procs |-> IF p = First
                   THEN [state |-> "RUNNABLE", sz |-> PGSIZE, tf |-> 1, pt |-> s.pt]
                   ELSE Unused]
      /\ free = s.free
      /\ content = [x \in Pages |-> IF x \in s.free THEN "junk"
                                    ELSE IF x = 1 THEN "tf" ELSE IF x = 2 THEN "img" ELSE "table"]
      /\ l = [p \in Procs |-> User]
      /\ panicked = FALSE
      /\ left = MaxCalls

At(p, pc) == ~panicked /\ proc[p].state = "RUNNABLE" /\ l[p].pc = pc
Call(p) == At(p, "user") /\ left > 0 /\ left' = left - 1
Return(p) == l' = [l EXCEPT ![p] = User]

(* A store by the process, or by copyout on its behalf: walkaddr refuses   *)
(* an address that is not mapped or not the user's.                        *)
walkaddr(p, k) == k \in DOMAIN proc[p].pt.leaf /\ proc[p].pt.leaf[k].u = 1
copyout(p, k, v) ==
  /\ At(p, "user") /\ walkaddr(p, k)
  /\ content' = [content EXCEPT ![proc[p].pt.leaf[k].pa] = v]
  /\ UNCHANGED <<free, proc, l, panicked, left>>

(* growproc(-n): uvmdealloc.  A size below zero wraps, and then exceeds    *)
(* the old one, so nothing happens.                                        *)
uvmdealloc(p, newsz) ==
  LET first == PGROUNDUP(newsz)
      last == PGROUNDUP(proc[p].sz)
  IN  /\ Settle(free \cup UserPages(proc[p].pt, first, last))
      /\ proc' = [proc EXCEPT ![p].sz = newsz, ![p].pt = Unmapped(@, first, last)]

sbrk(p, i) ==
  /\ Call(p)
  /\ IF i.up
     THEN /\ proc[p].sz + i.n <= MaxSz
          /\ l' = [l EXCEPT ![p].pc = "uvmalloc", ![p].a = PGROUNDUP(proc[p].sz), ![p].end = proc[p].sz + i.n]
          /\ UNCHANGED <<free, content, proc>>
     ELSE /\ i.n <= proc[p].sz
          /\ uvmdealloc(p, proc[p].sz - i.n)
          /\ UNCHANGED l
  /\ UNCHANGED panicked

(* growproc(n): uvmalloc, a page at a time. *)
uvmalloc(p) ==
  LET r == Grab(proc[p].pt, l[p].a, 1)
      old == PGROUNDUP(proc[p].sz)
  IN  /\ At(p, "uvmalloc") /\ UNCHANGED left
      /\ IF l[p].a * PGSIZE >= l[p].end
         THEN /\ proc' = [proc EXCEPT ![p].sz = l[p].end]
              /\ Return(p)
              /\ UNCHANGED <<free, content, panicked>>
         ELSE /\ panicked' = (r.ok /\ r.remap)
              /\ IF r.ok
                 THEN /\ free' = r.free
                      /\ content' = [Filled(r.free) EXCEPT ![r.mem] = "zero"]
                      /\ proc' = [proc EXCEPT ![p].pt = r.pt]
                      /\ l' = [l EXCEPT ![p].a = @ + 1]
                 ELSE /\ Settle(r.free \cup UserPages(r.pt, old, l[p].a))
                      /\ proc' = [proc EXCEPT ![p].pt = Unmapped(r.pt, old, l[p].a)]
                      /\ Return(p)

-----------------------------------------------------------------------------
(* fork: allocproc takes a slot and a trapframe, then makes the page table. *)
fork(p, q) ==
  /\ Call(p) /\ proc[q].state = "UNUSED" /\ free # {}
  /\ free' = free \ {Min(free)}
  /\ content' = [content EXCEPT ![Min(free)] = "tf"]
  /\ proc' = [proc EXCEPT ![q].state = "USED", ![q].tf = Min(free)]
  /\ l' = [l EXCEPT ![p].pc = "allocproc", ![p].child = q]
  /\ UNCHANGED panicked

(* freeproc of a process with page table pt: the pages that it frees. *)
freeproc(q, pt, sz) == {proc[q].tf} \cup FreedPages(pt, sz)

allocproc(p) ==
  LET q == l[p].child
      r == proc_pagetable(free, proc[q].tf)
  IN  /\ At(p, "allocproc") /\ UNCHANGED left
      /\ IF r.ok
         THEN /\ Settle(r.free)
              /\ proc' = [proc EXCEPT ![q].pt = r.pt]
              /\ l' = [l EXCEPT ![p].pc = "uvmcopy", ![p].a = 0]
         ELSE /\ Settle(free \cup {proc[q].tf})
              /\ proc' = [proc EXCEPT ![q] = Unused]
              /\ Return(p)
      /\ UNCHANGED panicked

(* Mutant: the pages of the child are all the user's. *)
Flags_user(pte) == 1
Flags(pte) == pte.u

(* Mutant: freeproc runs without the uvmunmap of what was copied. *)
copy_undo_not(pt, a) == pt
copy_undo(pt, a) == Unmapped(pt, 0, a)

(* uvmcopy, a page at a time, and the rest of fork.  The user bit is       *)
(* copied with the page.  On failure uvmcopy unmaps what it has copied and *)
(* fork calls freeproc on a child of size 0.                               *)
uvmcopy(p) ==
  LET q == l[p].child
      a == l[p].a
      pte == proc[p].pt.leaf[a]
      r == Grab(proc[q].pt, a, Flags(pte))
      pt == copy_undo(r.pt, a)
  IN  /\ At(p, "uvmcopy") /\ UNCHANGED left
      /\ IF a * PGSIZE >= proc[p].sz
         THEN /\ proc' = [proc EXCEPT ![q].sz = proc[p].sz, ![q].state = "RUNNABLE"]
              /\ Return(p)
              /\ UNCHANGED <<free, content, panicked>>
         ELSE IF a \notin DOMAIN proc[p].pt.leaf
         THEN panicked' = TRUE /\ UNCHANGED <<free, content, proc, l>>
         ELSE IF r.ok
         THEN /\ free' = r.free
              /\ content' = [Filled(r.free) EXCEPT ![r.mem] = content[pte.pa]]
              /\ proc' = [proc EXCEPT ![q].pt = r.pt]
              /\ l' = [l EXCEPT ![p].a = @ + 1]
              /\ panicked' = r.remap
         ELSE /\ Settle(r.free \cup UserPages(r.pt, 0, a) \cup freeproc(q, pt, 0))
              /\ panicked' = CannotFree(pt, 0)
              /\ proc' = [proc EXCEPT ![q] = Unused]
              /\ Return(p)

(* freeproc by the wait of the parent of q, which has exited. *)
wait(q) ==
  /\ Call(q) /\ q # First
  /\ Settle(free \cup freeproc(q, proc[q].pt, proc[q].sz))
  /\ panicked' = CannotFree(proc[q].pt, proc[q].sz)
  /\ proc' = [proc EXCEPT ![q] = Unused]
  /\ UNCHANGED l

-----------------------------------------------------------------------------
(* Arguments in user memory.  fetchaddr reads a word, copyinstr a string   *)
(* that begins in page k and ends in page m; argument pages hold strings   *)
(* of up to PGSIZE, so that a longer one is refused, like an address that  *)
(* is not the user's.                                                      *)
copyin(p, k) == walkaddr(p, k)
fetchaddr(p, k) == k * PGSIZE < proc[p].sz /\ copyin(p, k)
copyinstr(p, k, m) == m <= k + 1 /\ \A x \in k..m : walkaddr(p, x)
fetchstr(p, s) == copyinstr(p, s[1], s[2])

(* What user code may pass, by whether it can be fetched. *)
Words(p, ok) == {k \in 0..PGROUNDUP(MaxSz) : fetchaddr(p, k) = ok}
Strings(p, ok) == {s \in {<<k, m>> : k, m \in 0..PGROUNDUP(MaxSz)} : s[1] <= s[2] /\ fetchstr(p, s) = ok}

(* sys_exec: the path, and then a page for each argument, a page a step;   *)
(* one that cannot be fetched or does not come frees the others.           *)
sys_exec(p, g) ==
  /\ Call(p)
  /\ \/ /\ Strings(p, TRUE) # {}
        /\ l' = [l EXCEPT ![p] = [User EXCEPT !.pc = "argv", !.segs = g, !.a = NARGS]]
     \/ Strings(p, FALSE) # {} /\ UNCHANGED l
  /\ UNCHANGED <<free, content, proc, panicked>>

argv(p) ==
  /\ At(p, "argv") /\ l[p].a > 0
  /\ \/ /\ Words(p, TRUE) # {} /\ free # {} /\ Strings(p, TRUE) # {}
        /\ free' = free \ {Min(free)}
        /\ content' = [content EXCEPT ![Min(free)] = "args"]
        /\ l' = [l EXCEPT ![p].a = @ - 1, ![p].args = @ \cup {Min(free)}]
     \/ /\ ~(Words(p, FALSE) = {} /\ Strings(p, FALSE) = {} /\ free # {})
        /\ Settle(free \cup l[p].args) /\ Return(p)
  /\ UNCHANGED <<proc, panicked, left>>

(* What sys_exec frees when exec has returned. *)
ArgPages(p) == l[p].args

(* exec: a new page table beside the old one. *)
exec(p) ==
  LET r == proc_pagetable(free, proc[p].tf)
      g == l[p].segs
  IN  /\ At(p, "argv") /\ l[p].a = 0
      /\ IF r.ok
         THEN /\ Settle(r.free)
              /\ l' = [l EXCEPT ![p].pc = "exec", ![p].pt = r.pt, ![p].end = g[1].vaddr * PGSIZE + g[1].memsz]
         ELSE /\ Settle(free \cup ArgPages(p))
              /\ Return(p)
      /\ UNCHANGED <<proc, panicked, left>>

(* bad: with page table pt, of which sz is in use. *)
bad(p, pt, sz, m) ==
  /\ Settle(m \cup FreedPages(pt, sz) \cup ArgPages(p))
  /\ panicked' = CannotFree(pt, sz)
  /\ Return(p)
  /\ UNCHANGED proc

(* uvmalloc of a segment, or of the stack when none is left: a page a step.*)
exec_alloc(p) ==
  LET r == Grab(l[p].pt, l[p].a, 1)
      old == PGROUNDUP(l[p].sz)
      pt == Unmapped(r.pt, old, l[p].a)
  IN  /\ At(p, "exec") /\ UNCHANGED left /\ l[p].a * PGSIZE < l[p].end
      /\ IF r.ok
         THEN /\ free' = r.free
              /\ content' = [Filled(r.free) EXCEPT ![r.mem] = "zero"]
              /\ l' = [l EXCEPT ![p].pt = r.pt, ![p].a = @ + 1]
              /\ panicked' = r.remap
              /\ UNCHANGED proc
         ELSE bad(p, pt, l[p].sz, r.free \cup UserPages(r.pt, old, l[p].a))

(* loadseg: the pages of segment s that its file data reaches. *)
SegPages(s) == s.vaddr..s.vaddr + PGROUNDUP(s.filesz) - 1

(* loadseg of the segment, then on to the next, or to the guard page and   *)
(* the stack.  A read that comes up short goes to bad.                     *)
loadseg(p) ==
  LET s == Head(l[p].segs)
      sz == Max({l[p].sz, l[p].end})
      rest == Tail(l[p].segs)
      top == PGROUNDUP(sz)
  IN  /\ At(p, "exec") /\ UNCHANGED left /\ l[p].a * PGSIZE >= l[p].end /\ l[p].segs # <<>>
      /\ \/ /\ panicked' = ~(SegPages(s) \subseteq DOMAIN l[p].pt.leaf)
            /\ content' = [x \in Pages |->
                 IF \E k \in SegPages(s) \cap DOMAIN l[p].pt.leaf : l[p].pt.leaf[k].pa = x
                 THEN "img" ELSE content[x]]
            /\ l' = [l EXCEPT ![p].segs = rest,
                              ![p].sz = IF rest = <<>> THEN top * PGSIZE ELSE sz,
                              ![p].a = top,
                              ![p].end = IF rest = <<>> THEN (top + 2) * PGSIZE
                                         ELSE rest[1].vaddr * PGSIZE + rest[1].memsz]
            /\ UNCHANGED <<free, proc>>
         \/ bad(p, l[p].pt, sz, free)

uvmclear(pt, k) == [pt EXCEPT !.leaf[k].u = 0]

(* uvmclear of the guard page, copyout of the arguments to the stack, and  *)
(* the switch to the new page table; arguments that do not fit go to bad.  *)
exec_commit(p) ==
  LET guard == l[p].end \div PGSIZE - 2
      pt == uvmclear(l[p].pt, guard)
      freed == FreedPages(proc[p].pt, proc[p].sz) \cup ArgPages(p)
  IN  /\ At(p, "exec") /\ UNCHANGED left /\ l[p].a * PGSIZE >= l[p].end /\ l[p].segs = <<>>
      /\ \/ /\ free' = free \cup freed
            /\ content' = [Filled(free \cup freed) EXCEPT ![pt.leaf[guard + 1].pa] = "args"]
            /\ panicked' = CannotFree(proc[p].pt, proc[p].sz)
            /\ proc' = [proc EXCEPT ![p].pt = pt, ![p].sz = l[p].end]
            /\ Return(p)
         \/ bad(p, pt, l[p].end, free)

-----------------------------------------------------------------------------
Next == \E p \in Procs :
  \/ \E k \in 0..MaxSz, v \in Vals : copyout(p, k, v)
  \/ \E i \in Increments : sbrk(p, i)
  \/ uvmalloc(p)
  \/ \E q \in Procs : fork(p, q)
  \/ allocproc(p)
  \/ uvmcopy(p)
  \/ wait(p)
  \/ \E g \in Images : sys_exec(p, g)
  \/ argv(p)
  \/ exec(p)
  \/ exec_alloc(p)
  \/ loadseg(p)
  \/ exec_commit(p)

Spec == Init /\ [][Next]_vars

-----------------------------------------------------------------------------
(* Every physical page is in exactly one place: the free list, a           *)
(* trapframe, an argument of exec, one entry of one page table or one user *)
(* mapping, and none is lost, whichever kalloc of sbrk, fork or exec       *)
(* failed (the error paths of uvmalloc, uvmcopy, exec, sys_exec and        *)
(* freeproc).                                                              *)
PagesExact ==
  LET tables == Procs \X {"proc", "exec"}
      pt(t) == IF t[2] = "proc" THEN proc[t[1]].pt ELSE l[t[1]].pt
      mapped(t) == {k \in DOMAIN pt(t).leaf : k < TRAPFRAME}
      tfs == {p \in Procs : proc[p].tf # 0}
      here(t) == Range(pt(t).tab) \cup {pt(t).leaf[k].pa : k \in mapped(t)}
      uses(t) == Cardinality(DOMAIN pt(t).tab) + Cardinality(mapped(t))
      args(p) == Cardinality(l[p].args)
  IN  /\ free \cup {proc[p].tf : p \in tfs} \cup UNION {here(t) : t \in tables}
           \cup UNION {l[p].args : p \in Procs} = Pages
      /\ Cardinality(free) + Cardinality(tfs) + MapThenSumSet(args, Procs) + MapThenSumSet(uses, tables) = NPAGES

(* No walk over a page table meets what the code declares impossible: a    *)
(* page mapped twice, or absent where the size says it is, a mapping left  *)
(* when the tables are freed (panics of mappages, uvmunmap, freewalk,      *)
(* uvmcopy and loadseg).                                                   *)
NoPanic == ~panicked

(* The contents that exec gives a process. *)
Contents(g) ==
  LET top == Max({PGROUNDUP(g[k].vaddr * PGSIZE + g[k].memsz) : k \in DOMAIN g})
      file == UNION {SegPages(g[k]) : k \in DOMAIN g}
  IN  [k \in 0..top + 1 |-> IF k \in file THEN "img" ELSE IF k < top THEN "zero"
                            ELSE IF k = top THEN "guard" ELSE "args"]

Absent == [k \in {0} |-> "absent"]
UM == INSTANCE UserMem WITH
  Images <- {Contents(g) : g \in Images}, Sizes <- 0..PGROUNDUP(MaxSz), NoMem <- Absent,
  mem <- [p \in Procs |->
    IF proc[p].state # "RUNNABLE" THEN Absent
    ELSE [k \in 0..PGROUNDUP(proc[p].sz) - 1 |->
           IF proc[p].pt.leaf[k].u = 1 THEN content[proc[p].pt.leaf[k].pa] ELSE "guard"]]

(* Through the page tables each process sees a private memory that sbrk    *)
(* extends by zero pages, fork copies, exec replaces as a whole, and a     *)
(* failure of any of them leaves as it was (vm.c, exec.c, proc.c).         *)
UserMemSpec == UM!Spec
=============================================================================
