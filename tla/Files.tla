-------------------------------- MODULE Files --------------------------------
(***************************************************************************)
(* kernel/file.c and the lower half of kernel/fs.c: descriptors and the    *)
(* file table, the block bitmap, the block map of an inode, and reading    *)
(* and writing in chunks that fit the log.  A block is an array of BSIZE   *)
(* cells; a cell holds a byte or, in an indirect block, an address, so     *)
(* NINDIRECT = BSIZE.  The inode lock is held from writei to its end; two  *)
(* writers of two files meet in the bitmap between two blocks.             *)
(***************************************************************************)
EXTENDS Naturals, Sequences, SequencesExt, FiniteSets, FiniteSetsExt

CONSTANTS
  Procs, NoProc,
  Inums,        \* files
  NBLOCKS,      \* data blocks
  BPB,          \* bits in a bitmap block
  BSIZE, NDIRECT, MAXOPBLOCKS,
  NFILE, NOFILE,
  Lengths,      \* bound: bytes in a call of write
  Vals,         \* bound: bytes that are written
  Images,       \* the files that mkfs puts on the disk: sequences of what it
                \* appends, [inum, n, v], a block at a time
  MaxCalls      \* bound: appends of mkfs and calls other than close

ASSUME FilesAssumption ==
  /\ NoProc \notin Procs /\ 0 \notin Inums
  /\ NBLOCKS \in Nat \ {0} /\ BPB \in Nat \ {0} /\ BSIZE \in Nat \ {0}
  /\ NDIRECT \in Nat \ {0} /\ MAXOPBLOCKS \in Nat /\ MAXOPBLOCKS >= 6
  /\ NFILE \in Nat \ {0} /\ NOFILE \in Nat \ {0} /\ MaxCalls \in Nat
  /\ Lengths \subseteq Nat \ {0} /\ 0 \notin Vals

Blocks == 1..NBLOCKS
Cells == 0..BSIZE - 1
NINDIRECT == BSIZE
MAXFILE == NDIRECT + NINDIRECT
Files == 1..NFILE
Fds == 0..NOFILE - 1
Zeros == [c \in Cells |-> 0]

VARIABLES
  fs,      \* used: the bitmap; blk: cached blocks; ino: size and addrs
  logged,  \* content of a block that log_write has seen
  tx,      \* blocks that the operation of each process has written
  holder,  \* the inode locks
  file,    \* the file table: ref, ip, off
  ofile,   \* p->ofile
  l,       \* where each process is in filewrite, and its locals
  abs,     \* history: what a read of each byte of a file may return
  left     \* calls that may still be made

vars == <<fs, logged, tx, holder, file, ofile, l, abs, left>>

Idle == [pc |-> "idle", f |-> 0, i |-> 0, n |-> 0, n1 |-> 0, tot |-> 0, off |-> 0, v |-> 0]
NoFile == [ref |-> 0, ip |-> 0, off |-> 0]

-----------------------------------------------------------------------------
(* Each operator gives the file system after the call, the address that    *)
(* the call returns (0: out of space), and the blocks that it logs.        *)
Result(s, a, w) == [fs |-> s, addr |-> a, log |-> w]
Bitmap(b) == <<"bitmap", (b - 1) \div BPB>>
Data(b) == <<"data", b>>
Inode(i) == <<"inode", i>>

(* Mutant: the block is not cleared. *)
bzero_not(s, b) == s

bzero(s, b) == [s EXCEPT !.blk[b] = Zeros]

balloc(s) ==
  LET b == Min(Blocks \ s.used)
  IN  IF s.used = Blocks THEN Result(s, 0, {})
      ELSE Result(bzero([s EXCEPT !.used = @ \cup {b}], b), b, {Bitmap(b), Data(b)})

(* ip->addrs[k], which is allocated if it is missing. *)
Addr(s, i, k) ==
  LET r == balloc(s)
  IN  IF s.ino[i].addrs[k] # 0 THEN Result(s, s.ino[i].addrs[k], {})
      ELSE IF r.addr = 0 THEN r
      ELSE [r EXCEPT !.fs.ino[i].addrs[k] = r.addr]

bmap(s, i, bn) ==
  LET k == bn - NDIRECT
      ind == Addr(s, i, NDIRECT)
      a == ind.fs.blk[ind.addr][k]
      r == balloc(ind.fs)
  IN  IF bn < NDIRECT THEN Addr(s, i, bn)
      ELSE IF ind.addr = 0 THEN ind
      ELSE IF a # 0 THEN Result(ind.fs, a, ind.log)
      ELSE IF r.addr = 0 THEN Result(ind.fs, 0, ind.log)
      ELSE Result([r.fs EXCEPT !.blk[ind.addr][k] = r.addr], r.addr, ind.log \cup r.log \cup {Data(ind.addr)})

(* The blocks of the file i. *)
Direct(s, i) == {s.ino[i].addrs[k] : k \in 0..NDIRECT} \ {0}
Indirect(s, i) ==
  IF s.ino[i].addrs[NDIRECT] = 0 THEN {}
  ELSE {s.blk[s.ino[i].addrs[NDIRECT]][c] : c \in Cells} \ {0}

Freed(s, i) == Direct(s, i) \cup Indirect(s, i)

(* Mutant: the size stays. *)
itrunc_size(s, i) ==
  [s EXCEPT !.used = @ \ Freed(s, i), !.ino[i].addrs = [k \in 0..NDIRECT |-> 0]]

itrunc(s, i) ==
  [s EXCEPT !.used = @ \ Freed(s, i),
            !.ino[i] = [size |-> 0, addrs |-> [k \in 0..NDIRECT |-> 0]]]

Put(cells, c, m, v) == [x \in Cells |-> IF x \in c..c + m - 1 THEN v ELSE cells[x]]

-----------------------------------------------------------------------------
(* build/mkfs.c takes the blocks one after the other, from freeblock on,   *)
(* and marks those in the bitmap when all files are there.                 *)
Empty == [used |-> {}, blk |-> [b \in Blocks |-> Zeros],
          ino |-> [i \in Inums |-> [size |-> 0, addrs |-> [k \in 0..NDIRECT |-> 0]]]]

mk_addr(m, i, k) ==
  IF m.fs.ino[i].addrs[k] # 0 THEN m
  ELSE [m EXCEPT !.fs.ino[i].addrs[k] = m.freeblock, !.freeblock = @ + 1]

mk_indirect(m, i, k) ==
  LET a == m.fs.ino[i].addrs[NDIRECT]
  IN  IF m.fs.blk[a][k] # 0 THEN m
      ELSE [m EXCEPT !.fs.blk[a][k] = m.freeblock, !.freeblock = @ + 1]

iappend(m, a) ==
  LET off == m.fs.ino[a.inum].size
      bn == off \div BSIZE
      d == IF bn < NDIRECT THEN mk_addr(m, a.inum, bn)
           ELSE mk_indirect(mk_addr(m, a.inum, NDIRECT), a.inum, bn - NDIRECT)
  IN  [d EXCEPT !.fs.blk[bmap(d.fs, a.inum, bn).addr] = Put(@, off % BSIZE, a.n, a.v),
                !.fs.ino[a.inum].size = off + a.n]

mk_balloc(m) == [m.fs EXCEPT !.used = 1..m.freeblock - 1]

mkfs(g) == mk_balloc(FoldLeft(iappend, [fs |-> Empty, freeblock |-> 1], g))

(* The assertions of mkfs.c: the bitmap is one block. *)
ASSUME ImagesFit == \A g \in Images : Cardinality(mkfs(g).used) <= BPB

Bytes(g, i) == FoldLeft(LAMBDA s, a : IF a.inum = i THEN s \o [k \in 1..a.n |-> a.v] ELSE s, <<>>, g)

Init ==
  /\ \E g \in Images :
       /\ fs = mkfs(g) /\ left = MaxCalls - Len(g)
       /\ abs = [i \in Inums |-> [k \in 0..MAXFILE * BSIZE - 1 |->
                   IF k < Len(Bytes(g, i)) THEN {Bytes(g, i)[k + 1]} ELSE {}]]
  /\ logged = fs.blk
  /\ tx = [p \in Procs |-> {}] /\ holder = [i \in Inums |-> NoProc]
  /\ file = [f \in Files |-> NoFile] /\ ofile = [p \in Procs |-> [d \in Fds |-> 0]]
  /\ l = [p \in Procs |-> Idle]

-----------------------------------------------------------------------------
(* A call of p. *)
Call(p) == l[p].pc = "idle" /\ left > 0 /\ left' = left - 1

(* Descriptors and the file table. *)
FreeFds(p) == {d \in Fds : ofile[p][d] = 0}
FreeFiles == {f \in Files : file[f].ref = 0}

(* filealloc, fdalloc and the rest of sys_open, with or without O_TRUNC.   *)
(* When the table or the descriptors are exhausted nothing changes.        *)
open(p, i, trunc) ==
  LET f == Min(FreeFiles)
  IN  /\ Call(p) /\ holder[i] = NoProc
      /\ FreeFiles # {} /\ FreeFds(p) # {}
      /\ file' = [file EXCEPT ![f] = [ref |-> 1, ip |-> i, off |-> 0]]
      /\ ofile' = [ofile EXCEPT ![p][Min(FreeFds(p))] = f]
      /\ fs' = IF trunc THEN itrunc(fs, i) ELSE fs
      /\ abs' = IF trunc THEN [abs EXCEPT ![i] = [k \in DOMAIN @ |-> {}]] ELSE abs
      /\ UNCHANGED <<logged, tx, holder, l>>

(* sys_dup: fdalloc, then filedup. *)
dup(p, d) ==
  LET f == ofile[p][d]
  IN  /\ Call(p) /\ f # 0 /\ FreeFds(p) # {}
      /\ ofile' = [ofile EXCEPT ![p][Min(FreeFds(p))] = f]
      /\ file' = [file EXCEPT ![f].ref = @ + 1]
      /\ UNCHANGED <<fs, logged, tx, holder, l, abs>>

(* fileclose: the last reference frees the entry. *)
Closed(x) == IF x.ref = 1 THEN NoFile ELSE [x EXCEPT !.ref = @ - 1]

close(p, d) ==
  LET f == ofile[p][d]
  IN  /\ l[p].pc = "idle" /\ f # 0
      /\ ofile' = [ofile EXCEPT ![p][d] = 0]
      /\ file' = [file EXCEPT ![f] = Closed(@)]
      /\ UNCHANGED <<fs, logged, tx, holder, l, abs, left>>

(* Mutant: a file that is open twice is counted once. *)
Dups_once(p, f) == IF \E d \in Fds : ofile[p][d] = f THEN 1 ELSE 0

Dups(p, f) == Cardinality({d \in Fds : ofile[p][d] = f})

(* The files of a new process q: fork of proc.c duplicates each of them. *)
fork(p, q) ==
  /\ Call(p) /\ l[q].pc = "idle" /\ FreeFds(q) = Fds /\ FreeFds(p) # Fds
  /\ ofile' = [ofile EXCEPT ![q] = ofile[p]]
  /\ file' = [f \in Files |-> [file[f] EXCEPT !.ref = @ + Dups(p, f)]]
  /\ UNCHANGED <<fs, logged, tx, holder, l, abs>>

-----------------------------------------------------------------------------
(* fileread: under the inode lock, one step.  It is no transaction: it may *)
(* not allocate a block (see NoHoles).                                     *)
readi(s, i, off, n) ==
  IF off > s.ino[i].size THEN 0 ELSE Min({n, s.ino[i].size - off})

read(p, d, n) ==
  LET f == ofile[p][d]
      r == readi(fs, file[f].ip, file[f].off, n)
  IN  /\ Call(p) /\ f # 0 /\ holder[file[f].ip] = NoProc
      /\ \/ file' = [file EXCEPT ![f].off = @ + r]
         \/ UNCHANGED file   \* copyout fails
      /\ UNCHANGED <<fs, logged, tx, holder, ofile, l, abs>>

(* Mutant: a write is not cut. *)
Chunk_all(n) == n

(* The length of one chunk. *)
Chunk(n) == Min({n, ((MAXOPBLOCKS - 1 - 1 - 2) \div 2) * BSIZE})

write(p, d, n, v) ==
  /\ Call(p) /\ ofile[p][d] # 0
  /\ l' = [l EXCEPT ![p] = [Idle EXCEPT !.pc = "chunk", !.f = ofile[p][d], !.n = n, !.n1 = Chunk(n), !.v = v]]
  /\ UNCHANGED <<fs, logged, tx, holder, file, ofile, abs>>

(* The checks of writei. *)
Refused(i, off, n) == off > fs.ino[i].size \/ off + n > MAXFILE * BSIZE

(* begin_op, ilock and the start of writei. *)
chunk(p) ==
  LET f == file[l[p].f]
  IN  /\ l[p].pc = "chunk" /\ holder[f.ip] = NoProc
      /\ IF Refused(f.ip, f.off, l[p].n1)
         THEN l' = [l EXCEPT ![p] = Idle] /\ UNCHANGED holder
         ELSE /\ holder' = [holder EXCEPT ![f.ip] = p]
              /\ l' = [l EXCEPT ![p].pc = "copy", ![p].tot = 0, ![p].off = f.off]
      /\ UNCHANGED <<fs, logged, tx, file, ofile, abs, left>>

(* One block of writei: bmap, either_copyin and log_write.  either_copyin  *)
(* may fail after k of m bytes: the buffer has changed, the log has not.   *)
copy(p) ==
  LET i == file[l[p].f].ip
      off == l[p].off
      r == bmap(fs, i, off \div BSIZE)
      m == Min({l[p].n1 - l[p].tot, BSIZE - (off % BSIZE)})
      Done(k) ==
        LET s == [r.fs EXCEPT !.blk[r.addr] = Put(@, off % BSIZE, k, l[p].v)]
            w == r.log \cup IF k = m THEN {Data(r.addr)} ELSE {}
        IN  /\ fs' = s
            /\ logged' = [b \in Blocks |-> IF Data(b) \in w THEN IF k = m THEN s.blk[b] ELSE r.fs.blk[b]
                                           ELSE logged[b]]
            /\ tx' = [tx EXCEPT ![p] = @ \cup w]
            /\ abs' = [abs EXCEPT ![i] = [x \in DOMAIN @ |->
                 IF x \in off..off + k - 1 THEN (IF k = m THEN {} ELSE @[x]) \cup {l[p].v} ELSE @[x]]]
  IN  /\ l[p].pc = "copy" /\ l[p].tot < l[p].n1
      /\ \/ /\ r.addr = 0
            /\ fs' = r.fs /\ tx' = [tx EXCEPT ![p] = @ \cup r.log]
            /\ logged' = [b \in Blocks |-> IF Data(b) \in r.log THEN r.fs.blk[b] ELSE logged[b]]
            /\ l' = [l EXCEPT ![p].pc = "size"] /\ UNCHANGED abs
         \/ /\ r.addr # 0 /\ Done(m)
            /\ l' = [l EXCEPT ![p].tot = @ + m, ![p].off = @ + m]
         \/ /\ r.addr # 0 /\ \E k \in 0..m - 1 : Done(k)
            /\ l' = [l EXCEPT ![p].pc = "size"]
      /\ UNCHANGED <<holder, file, ofile, left>>

(* Mutant: the size grows with every block that was allocated. *)
NewSize_blocks(i, off) == Max({fs.ino[i].size, BSIZE * Cardinality(Direct(fs, i) \cup Indirect(fs, i))})

NewSize(i, off) == Max({fs.ino[i].size, off})

(* The end of writei and of the turn in filewrite. *)
size(p) ==
  LET f == l[p].f
      i == file[f].ip
  IN  /\ l[p].pc = "size" \/ (l[p].pc = "copy" /\ l[p].tot = l[p].n1)
      /\ fs' = [fs EXCEPT !.ino[i].size = NewSize(i, l[p].off)]
      /\ tx' = [tx EXCEPT ![p] = @ \cup {Inode(i)}]
      /\ file' = [file EXCEPT ![f].off = @ + l[p].tot]
      /\ holder' = [holder EXCEPT ![i] = NoProc]
      /\ l' = [l EXCEPT ![p].pc = "end"]
      /\ UNCHANGED <<logged, ofile, abs, left>>

end_op(p) ==
  LET i == l[p].i + l[p].tot
  IN  /\ l[p].pc = "end"
      /\ tx' = [tx EXCEPT ![p] = {}]
      /\ l' = [l EXCEPT ![p] = IF l[p].tot # l[p].n1 \/ i = l[p].n THEN Idle
                               ELSE [@ EXCEPT !.pc = "chunk", !.i = i, !.n1 = Chunk(l[p].n - i)]]
      /\ UNCHANGED <<fs, logged, holder, file, ofile, abs, left>>

(* A buffer that changed without log_write is either recycled, or written  *)
(* with the block because the block is in the log for another reason.      *)
settle(b) ==
  /\ fs.blk[b] # logged[b]
  /\ \/ fs' = [fs EXCEPT !.blk[b] = logged[b]] /\ UNCHANGED logged
     \/ logged' = [logged EXCEPT ![b] = fs.blk[b]] /\ UNCHANGED fs
  /\ UNCHANGED <<tx, holder, file, ofile, l, abs, left>>

Next ==
  \/ \E p \in Procs :
       \/ \E i \in Inums, t \in BOOLEAN : open(p, i, t)
       \/ \E d \in Fds : dup(p, d) \/ close(p, d)
       \/ \E q \in Procs \ {p} : fork(p, q)
       \/ \E d \in Fds, n \in Lengths : read(p, d, n) \/ \E v \in Vals : write(p, d, n, v)
       \/ chunk(p) \/ copy(p) \/ size(p) \/ end_op(p)
  \/ \E b \in Blocks : settle(b)

Spec == Init /\ [][Next]_vars

-----------------------------------------------------------------------------
(* fs.c: the bitmap marks exactly the blocks of the files, and no block    *)
(* belongs to two places, whatever call ran out of space or failed.        *)
BlocksExact ==
  /\ fs.used = UNION {Direct(fs, i) \cup Indirect(fs, i) : i \in Inums}
  /\ Cardinality(fs.used) = MapThenSumSet(LAMBDA i :
       Cardinality({k \in 0..NDIRECT : fs.ino[i].addrs[k] # 0})
       + IF fs.ino[i].addrs[NDIRECT] = 0 THEN 0
         ELSE Cardinality({c \in Cells : fs.blk[fs.ino[i].addrs[NDIRECT]][c] # 0}), Inums)

(* param.h: no operation writes more than MAXOPBLOCKS blocks, with chunks  *)
(* that are not aligned, new indirect blocks and several bitmap blocks.    *)
TxFits == \A p \in Procs : Cardinality(tx[p]) <= MAXOPBLOCKS

(* Every block below the size of a file is mapped, so that a read, which   *)
(* is outside any transaction, never allocates one.                        *)
NoHoles == \A i \in Inums : \A bn \in 0..MAXFILE - 1 :
  bn * BSIZE < fs.ino[i].size => bmap(fs, i, bn).fs = fs /\ bmap(fs, i, bn).addr # 0

(* A byte of a file is the last one written to it; a write that failed may *)
(* have changed it, whether its buffer is kept or lost.                    *)
ReadsWritten == \A i \in Inums : \A x \in 0..MAXFILE * BSIZE - 1 :
  x < fs.ino[i].size => fs.blk[bmap(fs, i, x \div BSIZE).addr][x % BSIZE] \in abs[i][x]

(* A file is in the table exactly as long as a descriptor refers to it. *)
FdsExact == \A f \in Files :
  file[f].ref = Cardinality({x \in Procs \X Fds : ofile[x[1]][x[2]] = f})
=============================================================================
