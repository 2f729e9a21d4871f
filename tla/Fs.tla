--------------------------------- MODULE Fs ---------------------------------
(***************************************************************************)
(* kernel/fs.c and kernel/sysfile.c: inodes, directories, path names and   *)
(* the calls that change them.  A process gives up the inode table and the *)
(* inode locks between the steps below, so that several calls meet in one  *)
(* directory.  A transaction is what AtomicDisk promises: what calls write *)
(* becomes durable when the last of the calls in progress ends, and a      *)
(* crash brings back the last durable state.  An inode of the table is     *)
(* named by its number, because the table holds a number at most once.     *)
(* What a file holds is the subject of Files; here it has no content.      *)
(***************************************************************************)
EXTENDS Naturals, Sequences, FiniteSets, FiniteSetsExt

CONSTANTS
  Procs, NoProc,
  NINODES,   \* sb.ninodes - 1: inodes on the disk
  NBLOCKS,   \* blocks for directories
  DPB,       \* directory entries in a block
  Calls,     \* bound: the calls, records [op, path, new]
  MaxCalls,  \* bound: the number of calls
  Disks      \* the disks that the first boot finds

ASSUME FsAssumption ==
  /\ NoProc \notin Procs
  /\ NINODES \in Nat \ {0} /\ DPB \in Nat \ {0, 1, 2}  \* mkfs does not fill a block exactly
  /\ NBLOCKS \in Nat \ {0} /\ MaxCalls \in Nat

Inums == 1..NINODES
ROOTINO == 1

VARIABLES
  disk,     \* dinodes and directory contents, as calls see them
  durable,  \* the same, as a crash would leave them
  itable,   \* the in-memory inodes: ref, valid, lock holder, type, nlink
  l,        \* where each process is, and its local variables
  cwd, fd,  \* p->cwd, and the inode of the one open file of p (0: none)
  orphan,   \* history: inodes without links that a crash left, or that
            \* the last ip->ref-- of iput let go (see iref)
  left,     \* calls that may still be made
  panicked  \* "no", or why the kernel stopped

vars == <<disk, durable, itable, l, cwd, fd, orphan, left, panicked>>

FreeDinode == [type |-> "free", nlink |-> 0, ents |-> <<>>, lost |-> 0]
FreeInode == [ref |-> 0, valid |-> 0, holder |-> NoProc, type |-> "free", nlink |-> 0]
Idle == [pc |-> "idle", op |-> "none", new |-> <<>>, rest |-> <<>>, par |-> 0,
         up |-> 0, ok |-> "idle", fail |-> "idle", then |-> "idle", ip |-> 0, dp |-> 0, put |-> 0]
dirent(n, i) == [name |-> n, inum |-> i]

(* What mkfs writes: a root directory, its own parent, of a whole number   *)
(* of blocks.                                                              *)
RootSize == ((2 \div DPB) + 1) * DPB
EmptyDisk == [i \in Inums |->
  IF i = ROOTINO
  THEN [type |-> "T_DIR", nlink |-> 1, lost |-> 0,
        ents |-> [k \in 1..RootSize |-> CASE k = 1 -> dirent(".", ROOTINO)
                                          [] k = 2 -> dirent("..", ROOTINO)
                                          [] OTHER -> dirent("", 0)]]
  ELSE FreeDinode]

(* After a boot every process starts in the root directory. *)
Booted ==
  /\ itable' = [i \in Inums |->
       IF i = ROOTINO THEN [FreeInode EXCEPT !.ref = Cardinality(Procs)] ELSE FreeInode]
  /\ l' = [p \in Procs |-> Idle]
  /\ cwd' = [p \in Procs |-> ROOTINO] /\ fd' = [p \in Procs |-> 0]

Init ==
  /\ disk \in Disks /\ durable = disk
  /\ itable = [i \in Inums |->
       IF i = ROOTINO THEN [FreeInode EXCEPT !.ref = Cardinality(Procs)] ELSE FreeInode]
  /\ l = [p \in Procs |-> Idle]
  /\ cwd = [p \in Procs |-> ROOTINO] /\ fd = [p \in Procs |-> 0]
  /\ orphan = {} /\ left = MaxCalls /\ panicked = "no"

-----------------------------------------------------------------------------
(* The inode table.  Each operator gives the table after the call. *)
iget(t, i) == [t EXCEPT ![i].ref = @ + 1]

(* The part of ilock after acquiresleep: the inode is read if it has to be. *)
Loaded(t, i) ==
  IF t[i].valid = 1 THEN t
  ELSE [t EXCEPT ![i].valid = 1, ![i].type = disk[i].type, ![i].nlink = disk[i].nlink]

CanLock(i) == itable[i].holder = NoProc
NoType(i) == itable[i].valid = 0 /\ disk[i].type = "free"
Held(t, p, i) == [t EXCEPT ![i].holder = p]
iunlock(t, i) == [t EXCEPT ![i].holder = NoProc]
Nlink(t, i, n) == [t EXCEPT ![i].nlink = n]

(* iupdate: the dinode gets the type and link count of the inode. *)
iupdate(d, t, i) == [d EXCEPT ![i].type = t[i].type, ![i].nlink = t[i].nlink]

panic(why) ==
  /\ panicked' = why
  /\ UNCHANGED <<disk, durable, itable, l, cwd, fd, orphan, left>>

-----------------------------------------------------------------------------
(* Directories: a sequence of entries, those with inum 0 unused. *)
Matching(d, i, name) == {k \in DOMAIN d[i].ents : d[i].ents[k].inum # 0 /\ d[i].ents[k].name = name}
dirlookup(d, i, name) ==
  IF Matching(d, i, name) = {} THEN 0 ELSE d[i].ents[Min(Matching(d, i, name))].inum

Unused(d, i) == {k \in DOMAIN d[i].ents : d[i].ents[k].inum = 0}
UsedBlocks(d) == MapThenSumSet(LAMBDA i : (Len(d[i].ents) + DPB - 1) \div DPB, Inums)

(* dirlink fails if the name exists or a block is needed and none is left. *)
CanLink(d, i, name) ==
  /\ dirlookup(d, i, name) = 0
  /\ Unused(d, i) # {} \/ Len(d[i].ents) % DPB # 0 \/ UsedBlocks(d) < NBLOCKS

dirlink(d, i, name, j) ==
  IF Unused(d, i) # {} THEN [d EXCEPT ![i].ents[Min(Unused(d, i))] = dirent(name, j)]
  ELSE [d EXCEPT ![i].ents = Append(@, dirent(name, j))]

isdirempty(d, i) == \A k \in DOMAIN d[i].ents : k > 2 => d[i].ents[k].inum = 0

-----------------------------------------------------------------------------
(* Control.  A call that gives up an inode goes through the steps of iput  *)
(* before it continues.                                                    *)
At(p, label) == panicked = "no" /\ l[p].pc = label
Goto(p, label) == l' = [l EXCEPT ![p].pc = label]
Return(p) ==
  l' = [l EXCEPT ![p] = IF l[p].then = "end_op" THEN [Idle EXCEPT !.pc = "end_op"]
                        ELSE [@ EXCEPT !.pc = l[p].then, !.put = 0, !.then = "idle"]]
IputThen(p, i, label) ==
  [l EXCEPT ![p] = IF label = "end_op" THEN [Idle EXCEPT !.pc = "iput", !.put = i, !.then = label]
                   ELSE [@ EXCEPT !.pc = "iput", !.put = i, !.then = label]]

(* The first step of namex on the path s; its result goes to label ok or   *)
(* fail.  par: the caller is nameiparent.                                  *)
Path(s) == IF s # <<>> /\ Head(s) = "/" THEN Tail(s) ELSE s
From(p, s) == IF s # <<>> /\ Head(s) = "/" THEN ROOTINO ELSE cwd[p]
Walk(p, s, par, ok, fail) ==
  [l[p] EXCEPT !.pc = IF Path(s) = <<>> /\ par = 0 THEN ok ELSE "namex",
               !.up = 0, !.ip = From(p, s), !.rest = Path(s), !.par = par, !.ok = ok, !.fail = fail]

(* Mutant: a path that is not absolute takes no reference to p->cwd. *)
Started_bare(t, p, s) == IF From(p, s) = cwd[p] THEN t ELSE iget(t, ROOTINO)

(* iget of the root or idup of p->cwd. *)
Started(t, p, s) == iget(t, From(p, s))

(* begin_op and the start of the path walk of a call. *)
Parent == {"create", "mkdir", "mknod", "unlink"}
Entry(op) ==
  CASE op \in {"create", "mkdir", "mknod"} -> "create"
    [] op \in {"open", "openw"} -> "open"
    [] OTHER -> op
begin(p) ==
  /\ At(p, "idle") /\ left > 0 /\ left' = left - 1
  /\ \E c \in Calls :
       /\ itable' = Started(itable, p, c.path)
       /\ l' = [l EXCEPT ![p] = [Walk(p, c.path, IF c.op \in Parent THEN 1 ELSE 0, Entry(c.op), "end_op")
                                  EXCEPT !.op = c.op, !.new = c.new]]
  /\ UNCHANGED <<disk, durable, cwd, fd, orphan, panicked>>

(* fileclose of the last descriptor of a file. *)
close(p) ==
  /\ At(p, "idle") /\ fd[p] # 0
  /\ fd' = [fd EXCEPT ![p] = 0]
  /\ l' = IputThen(p, fd[p], "end_op")
  /\ UNCHANGED <<disk, durable, itable, cwd, orphan, left, panicked>>

(* end_op: the last call in progress commits. *)
end_op(p) ==
  /\ At(p, "end_op")
  /\ durable' = IF \A q \in Procs \ {p} : At(q, "idle") THEN disk ELSE durable
  /\ l' = [l EXCEPT ![p] = Idle]
  /\ UNCHANGED <<disk, itable, cwd, fd, orphan, left, panicked>>

-----------------------------------------------------------------------------
(* Mutants: a reference that is not the last one frees the inode too; the  *)
(* last reference is not recognised.                                       *)
LastRef_any(i) == itable[i].valid = 1 /\ itable[i].nlink = 0
LastRef_zero(i) == itable[i].ref = 0 /\ itable[i].valid = 1 /\ itable[i].nlink = 0

LastRef(i) == itable[i].ref = 1 /\ itable[i].valid = 1 /\ itable[i].nlink = 0
Dropped(t, i) == IF t[i].ref = 1 THEN [t EXCEPT ![i] = FreeInode] ELSE [t EXCEPT ![i].ref = @ - 1]

(* iput under itable.lock: either the reference is dropped, or the inode   *)
(* is locked to be freed, which must not block.                            *)
iput(p) ==
  LET i == l[p].put
  IN  /\ At(p, "iput")
      /\ IF LastRef(i) /\ ~CanLock(i) THEN panic("sleep") ELSE
         /\ IF LastRef(i) THEN itable' = Held(itable, p, i) /\ Goto(p, "ifree")
                          ELSE itable' = Dropped(itable, i) /\ Return(p)
         /\ UNCHANGED <<disk, durable, cwd, fd, orphan, left, panicked>>

(* itrunc, ip->type = 0 and iupdate, without itable.lock.  The entries of  *)
(* a directory go without a change to the inodes that they name.           *)
ifree(p) ==
  LET i == l[p].put
      Ents(j) == {k \in DOMAIN disk[i].ents : k > 2 /\ disk[i].ents[k].inum = j}
  IN  /\ At(p, "ifree")
      /\ disk' = [j \in Inums |->
           IF j = i THEN FreeDinode ELSE [disk[j] EXCEPT !.lost = @ + Cardinality(Ents(j))]]
      /\ itable' = [itable EXCEPT ![i].type = "free"]
      /\ orphan' = orphan \ {i}
      /\ Goto(p, "idrop")
      /\ UNCHANGED <<durable, cwd, fd, left, panicked>>

(* ip->valid = 0 and releasesleep; then, under itable.lock, ip->ref--. *)
idrop(p) ==
  LET i == l[p].put
  IN  /\ At(p, "idrop")
      /\ itable' = [itable EXCEPT ![i].valid = 0, ![i].holder = NoProc]
      /\ Goto(p, "iref")
      /\ UNCHANGED <<disk, durable, cwd, fd, orphan, left, panicked>>

(* The inode may have been allocated, used and unlinked again since then:  *)
(* the last reference goes and the inode is not looked at again.           *)
iref(p) ==
  LET i == l[p].put
  IN  /\ At(p, "iref")
      /\ itable' = Dropped(itable, i)
      /\ orphan' = IF LastRef(i) THEN orphan \cup {i} ELSE orphan
      /\ Return(p)
      /\ UNCHANGED <<disk, durable, cwd, fd, left, panicked>>

-----------------------------------------------------------------------------
(* ilock(i) by p, and the step x under the lock. *)
ilock(p, i, x) ==
  CanLock(i) /\ IF NoType(i) THEN panic(IF l[p].up = 1 THEN "above" ELSE "no type") ELSE x

(* One element of namex: lock, look the name up, unlock. *)
Element(p, i, t) ==
  LET rest == l[p].rest
      next == dirlookup(disk, i, Head(rest))
  IN  /\ CASE t[i].type # "T_DIR" ->
               itable' = t /\ l' = IputThen(p, i, l[p].fail)
          [] t[i].type = "T_DIR" /\ l[p].par = 1 /\ Len(rest) = 1 ->
               itable' = t /\ Goto(p, l[p].ok)
          [] t[i].type = "T_DIR" /\ (l[p].par = 0 \/ Len(rest) > 1) /\ next = 0 ->
               itable' = t /\ l' = IputThen(p, i, l[p].fail)
          [] OTHER ->
               /\ itable' = iget(t, next)
               /\ l' = [IputThen(p, i, IF Len(rest) = 1 THEN l[p].ok ELSE "namex")
                         EXCEPT ![p].ip = next, ![p].rest = Tail(rest),
                                ![p].up = IF Head(rest) = ".." THEN 1 ELSE 0]
      /\ UNCHANGED <<disk, durable, cwd, fd, orphan, left, panicked>>

namex(p) ==
  LET i == l[p].ip
  IN  /\ At(p, "namex")
      /\ IF l[p].rest = <<>>
         THEN l' = IputThen(p, i, l[p].fail) /\ UNCHANGED <<disk, durable, itable, cwd, fd, orphan, left, panicked>>
         ELSE ilock(p, i, Element(p, i, Loaded(itable, i)))

(* The last element of the path: what nameiparent stores in name. *)
Name(p) == Head(l[p].rest)

-----------------------------------------------------------------------------
(* sys_link: the link count first, then the entry. *)
link(p) ==
  LET i == l[p].ip
      t == Loaded(itable, i)
      u == Nlink(t, i, t[i].nlink + 1)
      w == Walk(p, l[p].new, 1, "link2", "unlink_ip")
  IN  /\ At(p, "link")
      /\ ilock(p, i,
           /\ IF t[i].type = "T_DIR"
              THEN itable' = t /\ l' = IputThen(p, i, "end_op") /\ UNCHANGED disk
              ELSE /\ disk' = iupdate(disk, u, i)
                   /\ itable' = Started(u, p, l[p].new)
                   /\ l' = [l EXCEPT ![p] = [w EXCEPT !.dp = i]]
           /\ UNCHANGED <<durable, cwd, fd, orphan, left, panicked>>)

(* From here l.ip is the directory and l.dp the inode that gets the name. *)
link2(p) ==
  LET d == l[p].ip
      i == l[p].dp
  IN  /\ At(p, "link2")
      /\ ilock(p, d,
           /\ itable' = Loaded(itable, d)
           /\ IF CanLink(disk, d, Name(p))
              THEN disk' = dirlink(disk, d, Name(p), i) /\ l' = IputThen(p, d, "put_dp")
              ELSE UNCHANGED disk /\ l' = IputThen(p, d, "unlink_ip")
           /\ UNCHANGED <<durable, cwd, fd, orphan, left, panicked>>)

put_dp(p) ==
  /\ At(p, "put_dp")
  /\ l' = IputThen(p, l[p].dp, "end_op")
  /\ UNCHANGED <<disk, durable, itable, cwd, fd, orphan, left, panicked>>

(* Mutant: the link count stays. *)
Undone_not(t, i) == t

Undone(t, i) == Nlink(t, i, t[i].nlink - 1)

(* The label bad of sys_link. *)
unlink_ip(p) ==
  LET i == l[p].dp
      u == Undone(Loaded(itable, i), i)
  IN  /\ At(p, "unlink_ip")
      /\ ilock(p, i,
           /\ itable' = u /\ disk' = iupdate(disk, u, i)
           /\ l' = IputThen(p, i, "end_op")
           /\ UNCHANGED <<durable, cwd, fd, orphan, left, panicked>>)

-----------------------------------------------------------------------------
(* sys_unlink.  From here l.dp is the directory, which stays locked until  *)
(* the entry is gone, and l.ip the inode that loses the name.              *)
unlink(p) ==
  LET d == l[p].ip
      t == Loaded(itable, d)
      i == dirlookup(disk, d, Name(p))
  IN  /\ At(p, "unlink")
      /\ ilock(p, d,
           /\ IF Name(p) \in {".", ".."} \/ i = 0
              THEN itable' = t /\ l' = IputThen(p, d, "end_op")
              ELSE /\ itable' = Held(iget(t, i), p, d)
                   /\ l' = [l EXCEPT ![p].pc = "unlink2", ![p].ip = i, ![p].dp = d]
           /\ UNCHANGED <<disk, durable, cwd, fd, orphan, left, panicked>>)

unlink2(p) ==
  LET i == l[p].ip
      d == l[p].dp
      t == Loaded(itable, i)
      u == IF t[i].type = "T_DIR" THEN Nlink(t, d, t[d].nlink - 1) ELSE t
      k == Min(Matching(disk, d, Name(p)))
  IN  /\ At(p, "unlink2")
      /\ ilock(p, i,
           IF t[i].nlink < 1 THEN panic("nlink") ELSE
           /\ IF t[i].type = "T_DIR" /\ ~isdirempty(disk, i)
              THEN /\ itable' = t /\ l' = IputThen(p, i, "give_up")
                   /\ UNCHANGED disk
              ELSE /\ disk' = iupdate([disk EXCEPT ![d].ents[k] = dirent("", 0)], u, d)
                   /\ itable' = Held(iunlock(u, d), p, i)
                   /\ l' = IputThen(p, d, "unlink3")
           /\ UNCHANGED <<durable, cwd, fd, orphan, left, panicked>>)

unlink3(p) ==
  LET i == l[p].ip
      u == Nlink(itable, i, itable[i].nlink - 1)
  IN  /\ At(p, "unlink3")
      /\ itable' = iunlock(u, i) /\ disk' = iupdate(disk, u, i)
      /\ l' = IputThen(p, i, "end_op")
      /\ UNCHANGED <<durable, cwd, fd, orphan, left, panicked>>

(* iunlockput(dp) of a call that failed. *)
give_up(p) ==
  /\ At(p, "give_up")
  /\ itable' = iunlock(itable, l[p].dp)
  /\ l' = IputThen(p, l[p].dp, "end_op")
  /\ UNCHANGED <<disk, durable, cwd, fd, orphan, left, panicked>>

-----------------------------------------------------------------------------
(* create, for sys_open, sys_mkdir and sys_mknod. *)
Type(op) == CASE op = "create" -> "T_FILE" [] op = "mkdir" -> "T_DIR" [] OTHER -> "T_DEVICE"
FreeInums == {i \in Inums : disk[i].type = "free"}

(* Mutant: the directory stays locked while the inode that was found is    *)
(* locked.                                                                 *)
Found_locked(t, p, i, d) == Held(iget(t, i), p, d)

(* The directory is unlocked and the inode that was found has a reference. *)
Found(t, p, i, d) == iget(t, i)

create(p) ==
  LET d == l[p].ip
      t == Loaded(itable, d)
      i == dirlookup(disk, d, Name(p))
      n == Min(FreeInums)   \* ialloc
  IN  /\ At(p, "create")
      /\ ilock(p, d,
           /\ CASE i # 0 ->
                   /\ itable' = Found(t, p, i, d) /\ UNCHANGED disk
                   /\ l' = [IputThen(p, d, "exists") EXCEPT ![p].ip = i]
              [] i = 0 /\ FreeInums = {} ->
                   itable' = t /\ l' = IputThen(p, d, "end_op") /\ UNCHANGED disk
              [] OTHER ->
                   /\ disk' = [disk EXCEPT ![n] = [FreeDinode EXCEPT !.type = Type(l[p].op)]]
                   /\ itable' = Held(iget(t, n), p, d)
                   /\ l' = [l EXCEPT ![p].pc = "create2", ![p].ip = n, ![p].dp = d]
           /\ UNCHANGED <<durable, cwd, fd, orphan, left, panicked>>)

exists(p) ==
  LET i == l[p].ip
      t == Loaded(itable, i)
  IN  /\ At(p, "exists")
      /\ ilock(p, i,
           /\ IF l[p].op = "create" /\ t[i].type \in {"T_FILE", "T_DEVICE"}
              THEN itable' = Held(t, p, i) /\ Goto(p, "opened")
              ELSE itable' = t /\ l' = IputThen(p, i, "end_op")
           /\ UNCHANGED <<disk, durable, cwd, fd, orphan, left, panicked>>)

(* The entries . and .. of a new directory, as far as there is space. *)
Dots(d, i, parent) ==
  IF ~CanLink(d, i, ".") THEN d
  ELSE IF ~CanLink(dirlink(d, i, ".", i), i, "..") THEN dirlink(d, i, ".", i)
  ELSE dirlink(dirlink(d, i, ".", i), i, "..", parent)

create2(p) ==
  LET i == l[p].ip
      d == l[p].dp
      isdir == l[p].op = "mkdir"
      t == Nlink(Loaded(itable, i), i, 1)
      new == IF isdir THEN Dots(iupdate(disk, t, i), i, d) ELSE iupdate(disk, t, i)
      good == (isdir => Len(new[i].ents) = 2) /\ CanLink(new, d, Name(p))
      u == IF ~good THEN Nlink(t, i, 0) ELSE IF isdir THEN Nlink(t, d, t[d].nlink + 1) ELSE t
  IN  /\ At(p, "create2")
      /\ ilock(p, i,
           /\ IF good
              THEN /\ disk' = iupdate(dirlink(new, d, Name(p), i), u, d)
                   /\ itable' = Held(iunlock(u, d), p, i)
                   /\ l' = IputThen(p, d, IF l[p].op = "create" THEN "opened" ELSE "made")
              ELSE /\ disk' = iupdate(new, u, i)
                   /\ itable' = u /\ l' = IputThen(p, i, "give_up")
           /\ UNCHANGED <<durable, cwd, fd, orphan, left, panicked>>)

(* The end of sys_mkdir and sys_mknod: iunlockput(ip). *)
made(p) ==
  /\ At(p, "made")
  /\ itable' = iunlock(itable, l[p].ip)
  /\ l' = IputThen(p, l[p].ip, "end_op")
  /\ UNCHANGED <<disk, durable, cwd, fd, orphan, left, panicked>>

-----------------------------------------------------------------------------
(* sys_open without O_CREATE, up to the checks of the type. *)
open(p) ==
  LET i == l[p].ip
      t == Loaded(itable, i)
  IN  /\ At(p, "open")
      /\ ilock(p, i,
           /\ IF t[i].type = "T_DIR" /\ l[p].op = "openw"
              THEN itable' = t /\ l' = IputThen(p, i, "end_op")
              ELSE itable' = Held(t, p, i) /\ Goto(p, "opened")
           /\ UNCHANGED <<disk, durable, cwd, fd, orphan, left, panicked>>)

(* The rest of sys_open: filealloc or fdalloc may fail. *)
opened(p) ==
  LET i == l[p].ip
  IN  /\ At(p, "opened")
      /\ itable' = iunlock(itable, i)
      /\ \/ fd[p] = 0 /\ fd' = [fd EXCEPT ![p] = i] /\ Goto(p, "end_op")
         \/ l' = IputThen(p, i, "end_op") /\ UNCHANGED fd
      /\ UNCHANGED <<disk, durable, cwd, orphan, left, panicked>>

(* sys_chdir.  Only p reads p->cwd, so it may change before the old one is *)
(* given up.                                                               *)
chdir(p) ==
  LET i == l[p].ip
      t == Loaded(itable, i)
  IN  /\ At(p, "chdir")
      /\ ilock(p, i,
           /\ itable' = t
           /\ IF t[i].type = "T_DIR"
              THEN cwd' = [cwd EXCEPT ![p] = i] /\ l' = IputThen(p, cwd[p], "end_op")
              ELSE UNCHANGED cwd /\ l' = IputThen(p, i, "end_op")
           /\ UNCHANGED <<disk, durable, fd, orphan, left, panicked>>)

crash ==
  /\ panicked = "no"
  /\ Booted
  /\ disk' = durable
  /\ orphan' = {i \in Inums : durable[i].type # "free" /\ durable[i].nlink = 0}
  /\ UNCHANGED <<durable, left, panicked>>

Next ==
  \/ crash
  \/ \E p \in Procs :
       \/ begin(p) \/ close(p) \/ end_op(p) \/ namex(p)
       \/ iput(p) \/ ifree(p) \/ idrop(p) \/ iref(p)
       \/ link(p) \/ link2(p) \/ put_dp(p) \/ unlink_ip(p)
       \/ unlink(p) \/ unlink2(p) \/ unlink3(p) \/ give_up(p)
       \/ create(p) \/ exists(p) \/ create2(p) \/ made(p)
       \/ open(p) \/ opened(p) \/ chdir(p)

Spec == Init /\ [][Next]_vars

-----------------------------------------------------------------------------
(* The names of i, the directories whose .. it is, and the references that *)
(* the local variables of a process hold.                                  *)
Entries(d, j, i) == {k \in DOMAIN d[j].ents : k > 2 /\ d[j].ents[k].inum = i}
Names(d, i) == UNION {{<<j, k>> : k \in Entries(d, j, i)} : j \in {j \in Inums : d[j].type = "T_DIR"}}
InTree(d, i) == i = ROOTINO \/ Names(d, i) # {}
SubDirs(d, i) == {j \in Inums : d[j].type = "T_DIR" /\ InTree(d, j) /\ d[j].ents[2].inum = i}

Locals(p, label) ==
  CASE label \in {"link2", "unlink2", "create2"} -> <<l[p].ip, l[p].dp>>
    [] label \in {"put_dp", "unlink_ip", "give_up"} -> <<l[p].dp>>
    [] label = "namex" /\ l[p].ok = "link2" -> <<l[p].ip, l[p].dp>>
    [] label \in {"idle", "end_op"} -> <<>>
    [] OTHER -> <<l[p].ip>>
Pointers(p) == <<cwd[p], fd[p]>> \o
  IF l[p].pc \in {"iput", "ifree", "idrop", "iref"} THEN <<l[p].put>> \o Locals(p, l[p].then)
  ELSE Locals(p, l[p].pc)

(* No call reaches a panic of ilock or unlink, and iput never has to wait  *)
(* for the inode that it frees.  The one way to a panic is to go up from a *)
(* removed directory whose parent has been removed too: its entry .. still *)
(* names the parent, and ilock finds that inode free.                      *)
NoPanic == panicked \in {"no", "above"}

(* The inode that the next step of p locks (0: none). *)
Wants(p) ==
  CASE l[p].pc = "namex" /\ l[p].rest = <<>> -> 0
    [] l[p].pc \in {"namex", "link", "link2", "unlink", "unlink2", "create", "exists", "create2", "open", "chdir"} -> l[p].ip
    [] l[p].pc = "unlink_ip" -> l[p].dp
    [] OTHER -> 0

(* Calls that lock a directory and then an inode in it, walk up and down   *)
(* the tree, and free inodes never all wait for one another.               *)
NoDeadlock ==
  LET busy == {p \in Procs : l[p].pc # "idle"}
  IN  busy # {} => \E p \in busy : Wants(p) = 0 \/ CanLock(Wants(p))

(* fs.c: ip->ref is the number of pointers to the entry, and the inode     *)
(* that a process has a pointer to is never free.                          *)
RefsExact == \A i \in Inums :
  /\ itable[i].ref = MapThenSumSet(LAMBDA p : Cardinality({k \in DOMAIN Pointers(p) : Pointers(p)[k] = i}), Procs)
  /\ \A p \in Procs : i \in {cwd[p], fd[p]} => disk[i].type # "free"

(* What a crash leaves at any moment is a consistent tree: a link count is *)
(* the number of names, of subdirectories, and of names that went with a   *)
(* removed directory, and nothing names a free inode.                      *)
CrashConsistent == \A i \in Inums :
  IF durable[i].type = "free" THEN Names(durable, i) = {} /\ SubDirs(durable, i) = {}
  ELSE durable[i].nlink = Cardinality(Names(durable, i)) + Cardinality(SubDirs(durable, i)) + durable[i].lost

(* fs.c: iput frees an inode if the reference and link counts have fallen  *)
(* to zero.                                                                *)
Unfreed == {i \in Inums : disk[i].type # "free" /\ disk[i].nlink = 0 /\ itable[i].ref = 0}

(* The only inodes that stay without links are those that a crash left and *)
(* those that were used again before iput had dropped its reference.       *)
NothingLeaks == Unfreed \subseteq orphan
=============================================================================
