-------------------------------- MODULE Pipe --------------------------------
(***************************************************************************)
(* kernel/pipe.c: one pipe, from sys_pipe to the kfree of pipeclose, used  *)
(* by processes that share its two ends through fork.  Everything between  *)
(* acquire(&pi->lock) and release runs alone, except that kill() takes no  *)
(* pipe lock; sleep() gives the lock up atomically.  A byte is represented *)
(* by its position in the stream of all bytes written.                     *)
(***************************************************************************)
EXTENDS Integers, Sequences, FiniteSets, FiniteSetsExt

CONSTANTS
  Procs,      \* processes
  PIPESIZE,   \* capacity
  UINT,       \* nread and nwrite count modulo UINT (2^32 in the code)
  MaxN,       \* bound: the largest n of a read or write
  MaxBytes,   \* bound: bytes written in a behaviour
  NoProc      \* "the lock is free"

ASSUME PipeAssumption ==
  /\ PIPESIZE \in Nat \ {0}
  /\ UINT \in Nat /\ UINT > PIPESIZE /\ UINT % PIPESIZE = 0
  /\ MaxN \in Nat /\ MaxBytes \in Nat
  /\ NoProc \notin Procs

VARIABLES
  data, nread, nwrite, readopen, writeopen,  \* struct pipe
  alloc,     \* 1 from pipealloc to kfree
  lock,      \* holder of pi->lock
  refs,      \* processes with a reference to the read end, to the write end
  pc,        \* where each process is
  n, i,      \* argument and loop counter of its read or write
  killed,    \* p->killed
  sent,      \* history: number of bytes the pipe has accepted
  got        \* history: the bytes that readers received

pipe == <<data, nread, nwrite, readopen, writeopen, alloc>>
vars == <<pipe, lock, refs, pc, n, i, killed, sent, got>>

Writing == {"w_acquire", "w_loop", "w_full", "w_sleep"}
Reading == {"r_acquire", "r_empty", "r_wait", "r_sleep", "r_copy"}
Ends    == {"r", "w"}

Init ==
  /\ data = [k \in 0..PIPESIZE-1 |-> 0]
  /\ nread = 0 /\ nwrite = 0
  /\ readopen = 0 /\ writeopen = 0 /\ alloc = 0
  /\ lock = NoProc
  /\ refs = [e \in Ends |-> {}]
  /\ pc = [p \in Procs |-> "user"]
  /\ n = [p \in Procs |-> 0] /\ i = [p \in Procs |-> 0]
  /\ killed = [p \in Procs |-> 0]
  /\ sent = 0 /\ got = <<>>

Used == (nwrite - nread) % UINT

(* Mutants: wakeup(&pi->nwrite), or every wakeup, is forgotten. *)
wakeup_readers(chan) == [p \in Procs |->
  IF pc[p] = chan /\ chan = "r_sleep" THEN "r_acquire" ELSE pc[p]]
wakeup_none(chan) == pc

(* wakeup(&pi->nread) wakes the sleeping readers, wakeup(&pi->nwrite) the  *)
(* sleeping writers; they compete for the lock again.                      *)
wakeup(chan) == [p \in Procs |->
  IF pc[p] # chan THEN pc[p] ELSE IF chan = "r_sleep" THEN "r_acquire" ELSE "w_acquire"]

-----------------------------------------------------------------------------
(* pipealloc, called by sys_pipe.  When a file, the page or a descriptor   *)
(* is missing nothing is left behind, which is no step here.               *)
pipealloc(p) ==
  /\ alloc = 0 /\ sent = 0 /\ pc[p] = "user"
  /\ readopen' = 1 /\ writeopen' = 1 /\ alloc' = 1
  /\ nread' = 0 /\ nwrite' = 0
  /\ refs' = [e \in Ends |-> {p}]
  /\ UNCHANGED <<data, lock, pc, n, i, killed, sent, got>>

(* fork: the child gets the ends its parent has (filedup). *)
filedup(p, q) ==
  /\ pc[p] = "user" /\ pc[q] = "user"
  /\ \E e \in Ends : p \in refs[e]
  /\ \A e \in Ends : q \notin refs[e]
  /\ refs' = [e \in Ends |-> IF p \in refs[e] THEN refs[e] \cup {q} ELSE refs[e]]
  /\ UNCHANGED <<pipe, lock, pc, n, i, killed, sent, got>>

(* fileclose: the last reference of an end goes on with pipeclose, after   *)
(* it has released the lock of the file table.                             *)
fileclose(p, e) ==
  /\ pc[p] = "user" /\ p \in refs[e]
  /\ refs' = [refs EXCEPT ![e] = @ \ {p}]
  /\ pc' = [pc EXCEPT ![p] = IF refs[e] # {p} THEN "user"
                             ELSE IF e = "w" THEN "close_w" ELSE "close_r"]
  /\ UNCHANGED <<pipe, lock, n, i, killed, sent, got>>

(* Mutant: the page is freed as soon as one end is closed. *)
LastEnd_any == TRUE

LastEnd == readopen' = 0 /\ writeopen' = 0

pipeclose(p) ==
  /\ pc[p] \in {"close_r", "close_w"} /\ lock = NoProc
  /\ IF pc[p] = "close_w"
     THEN /\ writeopen' = 0 /\ UNCHANGED readopen
          /\ pc' = [wakeup("r_sleep") EXCEPT ![p] = "user"]
     ELSE /\ readopen' = 0 /\ UNCHANGED writeopen
          /\ pc' = [wakeup("w_sleep") EXCEPT ![p] = "user"]
  /\ alloc' = IF LastEnd THEN 0 ELSE alloc
  /\ UNCHANGED <<data, nread, nwrite, lock, refs, n, i, killed, sent, got>>

-----------------------------------------------------------------------------
(* filewrite -> pipewrite and fileread -> piperead. *)
call(p, e, k) ==
  /\ pc[p] = "user" /\ p \in refs[e]
  /\ pc' = [pc EXCEPT ![p] = IF e = "w" THEN "w_acquire" ELSE "r_acquire"]
  /\ n' = [n EXCEPT ![p] = k] /\ i' = [i EXCEPT ![p] = 0]
  /\ UNCHANGED <<pipe, lock, refs, killed, sent, got>>

acquire(p) ==
  /\ pc[p] \in {"w_acquire", "r_acquire"} /\ lock = NoProc
  /\ lock' = p
  /\ pc' = [pc EXCEPT ![p] = IF @ = "w_acquire" THEN "w_loop" ELSE "r_empty"]
  /\ UNCHANGED <<pipe, refs, n, i, killed, sent, got>>

(* wakeup(chan), release(&pi->lock), return to user space. *)
return(p, pcs) ==
  /\ lock' = NoProc
  /\ pc' = [pcs EXCEPT ![p] = "user"]
  /\ n' = [n EXCEPT ![p] = 0] /\ i' = [i EXCEPT ![p] = 0]

Full == nwrite = (nread + PIPESIZE) % UINT

(* Mutant: readers start at the beginning of the array. *)
ReadPos_zero == 0

WritePos == nwrite % PIPESIZE
ReadPos == nread % PIPESIZE

Advance(c, k) == (c + k) % UINT

(* Bytes copied at once: at most m, and not past the end of the array.     *)
Chunk(pos, m) == Min({PIPESIZE - pos, m})

(* One turn of the loop of pipewrite; copyin may fail.  sent counts what   *)
(* the pipe accepted.                                                      *)
w_turn(p) ==
  /\ pc[p] = "w_loop"
  /\ IF i[p] >= n[p]
     THEN return(p, wakeup("r_sleep")) /\ UNCHANGED <<pipe, sent>>
     ELSE IF readopen = 0 \/ killed[p] = 1
     THEN return(p, pc) /\ UNCHANGED <<pipe, sent>>
     ELSE IF Full
     THEN /\ pc' = [wakeup("r_sleep") EXCEPT ![p] = "w_full"]
          /\ UNCHANGED <<pipe, sent, lock, n, i>>
     ELSE \/ return(p, wakeup("r_sleep")) /\ UNCHANGED <<pipe, sent>>
          \/ LET pos == WritePos
                 k   == Chunk(pos, Min({PIPESIZE - Used, n[p] - i[p]}))
             IN /\ sent + k <= MaxBytes
                /\ data' = [j \in 0..PIPESIZE-1 |->
                     IF j \in pos..pos+k-1 THEN sent + 1 + (j - pos) ELSE data[j]]
                /\ i' = [i EXCEPT ![p] = @ + k]
                /\ nwrite' = Advance(nwrite, k)
                /\ sent' = sent + k
                /\ UNCHANGED <<nread, readopen, writeopen, alloc, lock, pc, n>>
  /\ UNCHANGED <<refs, killed, got>>

(* The test of the first loop of piperead: wait, give up or go on. *)
r_test(p) ==
  /\ pc[p] = "r_empty"
  /\ IF nread = nwrite /\ writeopen = 1
     THEN IF killed[p] = 1 THEN return(p, pc)
          ELSE pc' = [pc EXCEPT ![p] = "r_wait"] /\ UNCHANGED <<lock, n, i>>
     ELSE pc' = [pc EXCEPT ![p] = "r_copy"] /\ UNCHANGED <<lock, n, i>>
  /\ UNCHANGED <<pipe, refs, killed, sent, got>>

(* One turn of its second loop; copyout may fail. *)
r_turn(p) ==
  /\ pc[p] = "r_copy"
  /\ IF i[p] >= n[p] \/ Used = 0
     THEN return(p, wakeup("w_sleep")) /\ UNCHANGED <<nread, got>>
     ELSE \/ return(p, wakeup("w_sleep")) /\ UNCHANGED <<nread, got>>
          \/ LET pos == ReadPos
                 k   == Chunk(pos, Min({Used, n[p] - i[p]}))
             IN /\ got' = got \o [j \in 1..k |-> data[pos + j - 1]]
                /\ i' = [i EXCEPT ![p] = @ + k]
                /\ nread' = Advance(nread, k)
                /\ UNCHANGED <<lock, pc, n>>
  /\ UNCHANGED <<data, nwrite, readopen, writeopen, alloc, refs, killed, sent>>

(* sleep(chan, &pi->lock): asleep and without the lock in one step; kill   *)
(* may come between the test of p->killed and this step.                   *)
sleep(p) ==
  /\ pc[p] \in {"w_full", "r_wait"}
  /\ lock' = NoProc
  /\ pc' = [pc EXCEPT ![p] = IF @ = "w_full" THEN "w_sleep" ELSE "r_sleep"]
  /\ UNCHANGED <<pipe, refs, n, i, killed, sent, got>>

(* kill: sets p->killed and wakes the process, whatever it sleeps on. *)
kill(p) ==
  /\ killed[p] = 0
  /\ killed' = [killed EXCEPT ![p] = 1]
  /\ pc' = [pc EXCEPT ![p] = CASE @ = "w_sleep" -> "w_acquire"
                              [] @ = "r_sleep" -> "r_acquire"
                              [] OTHER         -> @]
  /\ UNCHANGED <<pipe, lock, refs, n, i, sent, got>>

Step(p) == acquire(p) \/ w_turn(p) \/ r_test(p) \/ r_turn(p) \/ sleep(p) \/ pipeclose(p)

Next ==
  \E p \in Procs :
    \/ pipealloc(p)
    \/ \E q \in Procs \ {p} : filedup(p, q)
    \/ \E e \in Ends : fileclose(p, e)
    \/ \E e \in Ends, k \in 0..MaxN : call(p, e, k)
    \/ Step(p)
    \/ kill(p)

Spec == Init /\ [][Next]_vars

(* A CPU spinning on pi->lock gets it when it is free again and again; any  *)
(* other step of kernel code is taken.  Closing is up to the program.       *)
Fairness == \A p \in Procs :
  /\ WF_vars(Step(p))
  /\ SF_vars(acquire(p) \/ pipeclose(p))

FairSpec == Spec /\ Fairness

-----------------------------------------------------------------------------
(* Readers receive every byte once and in the order it was written,        *)
(* although the array is a ring, chunks stop at its end and the counters   *)
(* of struct pipe overflow: between nread and nwrite it holds exactly the  *)
(* bytes written and not yet read.                                         *)
InOrder ==
  /\ got = [k \in 1..Len(got) |-> k]
  /\ Used = sent - Len(got) /\ Used <= PIPESIZE
  /\ \A k \in 0..Used-1 : data[(nread + k) % PIPESIZE] = Len(got) + k + 1

(* No wakeup is lost: while nobody holds the lock, a sleeping writer has a *)
(* full pipe and an open read end, a sleeping reader an empty pipe and an  *)
(* open write end.  One exception is in the code: a writer that finds      *)
(* itself killed after a first chunk returns without wakeup(&pi->nread),   *)
(* so its bytes may wait for the next writer.                              *)
NoLostWakeup ==
  lock = NoProc => \A p \in Procs :
    /\ pc[p] = "w_sleep" => Full /\ readopen = 1
    /\ pc[p] = "r_sleep" =>
         /\ writeopen = 1
         /\ (nread = nwrite \/ \E q \in Procs : killed[q] = 1)

(* pipeclose frees the page only when nobody can use the pipe any more: no *)
(* process has an end, is inside piperead or pipewrite or still has to     *)
(* close.                                                                  *)
NoUseAfterFree ==
  alloc = 0 => \A p \in Procs : pc[p] = "user" /\ \A e \in Ends : p \notin refs[e]

(* When the last writer has gone every reader gets its end of file, and    *)
(* when the last reader has gone every writer its error: nobody sleeps on  *)
(* for ever.                                                               *)
PeersReleased ==
  \A p \in Procs :
    /\ (refs["w"] = {} /\ pc[p] \in Reading) ~> pc[p] \notin Reading
    /\ (refs["r"] = {} /\ pc[p] \in Writing) ~> pc[p] \notin Writing
=============================================================================
