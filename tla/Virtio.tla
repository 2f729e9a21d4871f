------------------------------- MODULE Virtio -------------------------------
(***************************************************************************)
(* kernel/virtio_disk.c: the driver of the virtio disk, its three rings    *)
(* and the device at the other end.  A process works on one buffer at a    *)
(* time (it holds the sleep lock), so a process stands for its buffer.     *)
(* vdisk_lock makes the steps of a process atomic, from where it gets the  *)
(* lock to where it sleeps or returns; the interrupt handler holds it for  *)
(* several steps, during which the device goes on.  Block numbers, data    *)
(* and the direction of a transfer are left out.  A ring entry that its    *)
(* reader has passed is End here, where the code leaves the old number: to *)
(* read one again is a failure that DescsConserved excludes, so the old    *)
(* number makes no difference.                                             *)
(***************************************************************************)
EXTENDS Integers, FiniteSets

CONSTANTS
  Procs,
  NUM,      \* number of descriptors and of entries in each ring
  IDX,      \* ring indexes count modulo IDX (2^16 in the code)
  NoProc

ASSUME VirtioAssumption ==
  /\ NUM \in Nat \ {0} /\ IDX \in Nat \ {0} /\ IDX % NUM = 0 /\ IDX > NUM
  /\ NoProc \notin Procs

Desc == 0..NUM-1
Index == 0..IDX-1
End == NUM   \* no next descriptor; an entry that has been read

VARIABLES
  free,        \* disk.free: the free descriptors
  next,        \* disk.desc[i].next, or End
  addr,        \* disk.desc[i].addr: whose b->data, in the second of a chain
  info,        \* disk.info[i]: the buffer and the status (255: not done)
  avail, avail_idx,   \* ring of the driver
  used, used_at,      \* ring of the device: entries, used->idx
  used_idx,    \* disk.used_idx: how far the driver has looked
  taken,       \* device: how far it has read the avail ring
  working,     \* device: chains it works on
  served,      \* device, history: processes whose request it has done
  irq,         \* device: the interrupt line
  busy,        \* b->disk
  pc,          \* where each process is
  idx,         \* idx[0] of each process
  intr,        \* virtio_disk_intr: 0 not running, 1 in its loop, 2 after it
  panic        \* the panic that stopped the kernel, or "none"

rings == <<avail, avail_idx, used, used_at>>
device == <<taken, working, served, irq>>
descs == <<free, next, addr, info>>
vars == <<descs, rings, used_idx, device, busy, pc, idx, intr, panic>>

Init ==
  /\ free = Desc
  /\ next = [i \in Desc |-> End] /\ addr = [i \in Desc |-> NoProc]
  /\ info = [i \in Desc |-> [b |-> NoProc, status |-> 255]]
  /\ avail = [i \in Desc |-> End] /\ used = [i \in Desc |-> End]
  /\ avail_idx = 0 /\ used_at = 0 /\ used_idx = 0 /\ taken = 0
  /\ working = {} /\ served = {} /\ irq = 0
  /\ busy = [p \in Procs |-> 0]
  /\ pc = [p \in Procs |-> "idle"] /\ idx = [p \in Procs |-> 0]
  /\ intr = 0 /\ panic = "none"

(* disk.used_idx and the idx of both rings are uint16. *)
Inc(i) == (i + 1) % IDX

-----------------------------------------------------------------------------
(* Mutant: freeing descriptors wakes nobody. *)
wakeup_free_none(q) == q

(* free_desc: wakeup(&disk.free[0]). *)
wakeup_free(q) == [p \in Procs |-> IF q[p] = "asleep_free" THEN "alloc" ELSE q[p]]

(* virtio_disk_rw is called. *)
virtio_disk_rw(p) ==
  /\ pc[p] = "idle"
  /\ pc' = [pc EXCEPT ![p] = "alloc"]
  /\ UNCHANGED <<descs, rings, used_idx, device, busy, idx, intr, panic>>

(* alloc3_desc fails; what it got is freed again, which wakes the others,  *)
(* and the process sleeps.                                                 *)
alloc_fail(p) ==
  /\ pc[p] = "alloc" /\ intr = 0 /\ Cardinality(free) < 3
  /\ pc' = [(IF free = {} THEN pc ELSE wakeup_free(pc)) EXCEPT ![p] = "asleep_free"]
  /\ UNCHANGED <<descs, rings, used_idx, device, busy, idx, intr, panic>>

(* The three lowest free descriptors are chained and made available; the   *)
(* process still has the lock when it finds b->disk set, and sleeps.       *)
submit(p) ==
  \E a, b, c \in free :
    /\ pc[p] = "alloc" /\ intr = 0
    /\ a < b /\ b < c /\ \A d \in free : d <= c => d \in {a, b, c}
    /\ free' = free \ {a, b, c}
    /\ next' = [next EXCEPT ![a] = b, ![b] = c, ![c] = End]
    /\ addr' = [addr EXCEPT ![b] = p]
    /\ info' = [info EXCEPT ![a] = [b |-> p, status |-> 255]]
    /\ busy' = [busy EXCEPT ![p] = 1]
    /\ avail' = [avail EXCEPT ![avail_idx % NUM] = a] /\ avail_idx' = Inc(avail_idx)
    /\ idx' = [idx EXCEPT ![p] = a]
    /\ served' = served \ {p}
    /\ pc' = [pc EXCEPT ![p] = "asleep"]
    /\ UNCHANGED <<used, used_at, used_idx, taken, working, irq, intr, panic>>

(* while(b->disk == 1) sleep(b, &disk.vdisk_lock), after a wakeup. *)
wait(p) ==
  /\ pc[p] = "wait" /\ intr = 0 /\ busy[p] = 1
  /\ pc' = [pc EXCEPT ![p] = "asleep"]
  /\ UNCHANGED <<descs, rings, used_idx, device, busy, idx, intr, panic>>

(* Mutant: only the first descriptor of the chain is freed. *)
Chain_head(i) == {i}

(* The descriptors that free_chain(i) follows; a chain has at most three. *)
Chain(i) == {i} \cup (IF next[i] = End THEN {} ELSE {next[i]} \cup
              (IF next[next[i]] = End THEN {} ELSE {next[next[i]]}))

(* Mutant: the process does not look at b->disk again after a wakeup. *)
Finished_woken(p) == TRUE

Finished(p) == busy[p] = 0

(* The request is done: free_chain, whose free_desc panics on a free       *)
(* descriptor.                                                             *)
finish(p) ==
  LET ch == Chain(idx[p])
  IN  /\ pc[p] = "wait" /\ intr = 0 /\ Finished(p)
      /\ info' = [info EXCEPT ![idx[p]].b = NoProc]
      /\ panic' = IF ch \cap free = {} THEN "none" ELSE "free_desc_2"
      /\ free' = free \cup ch
      /\ next' = [i \in Desc |-> IF i \in ch THEN End ELSE next[i]]
      /\ addr' = [i \in Desc |-> IF i \in ch THEN NoProc ELSE addr[i]]
      /\ pc' = wakeup_free([pc EXCEPT ![p] = "idle"])
      /\ idx' = [idx EXCEPT ![p] = 0]   \* a local variable
      /\ UNCHANGED <<rings, used_idx, device, busy, intr>>

(* kill() makes a sleeping process runnable, whatever it sleeps for. *)
kill(p) ==
  /\ pc[p] \in {"asleep", "asleep_free"}
  /\ pc' = [pc EXCEPT ![p] = IF @ = "asleep" THEN "wait" ELSE "alloc"]
  /\ UNCHANGED <<descs, rings, used_idx, device, busy, idx, intr, panic>>

-----------------------------------------------------------------------------
(* The device takes a chain from the avail ring. *)
device_take ==
  /\ taken # avail_idx
  /\ IF avail[taken % NUM] = End
     THEN panic' = "read_twice" /\ UNCHANGED working
     ELSE working' = working \cup {avail[taken % NUM]} /\ UNCHANGED panic
  /\ avail' = [avail EXCEPT ![taken % NUM] = End]
  /\ taken' = Inc(taken)
  /\ UNCHANGED <<descs, avail_idx, used, used_at, used_idx, served, irq, busy, pc, idx, intr>>

(* It finishes one, in any order: it transfers the data of the second      *)
(* descriptor, writes the status, and raises the interrupt line.           *)
device_done(i) ==
  /\ i \in working
  /\ working' = working \ {i}
  /\ served' = served \cup (IF next[i] = End THEN {} ELSE {addr[next[i]]})
  /\ info' = [info EXCEPT ![i].status = 0]
  /\ used' = [used EXCEPT ![used_at % NUM] = i] /\ used_at' = Inc(used_at)
  /\ irq' = 1
  /\ UNCHANGED <<free, next, addr, avail, avail_idx, used_idx, taken, busy, pc, idx, intr, panic>>

-----------------------------------------------------------------------------
(* virtio_disk_intr: acknowledge, then look at the used ring. *)
intr_ack ==
  /\ irq = 1 /\ intr = 0
  /\ irq' = 0 /\ intr' = 1
  /\ UNCHANGED <<descs, rings, used_idx, taken, working, served, busy, pc, idx, panic>>

UsedEntry == used[used_idx % NUM]

(* wakeup(b) *)
wakeup(b) == [pc EXCEPT ![b] = IF @ = "asleep" THEN "wait" ELSE @]

(* One turn of the loop.  The code panics on a status that is not 0, and   *)
(* follows info[id].b without a test.                                      *)
intr_one ==
  LET id == UsedEntry
      b == info[id].b
  IN  /\ intr = 1 /\ used_idx # used_at
      /\ IF id = End \/ info[id].status # 0 \/ b = NoProc
         THEN /\ panic' = IF id = End THEN "read_twice"
                          ELSE IF info[id].status # 0 THEN "virtio_disk_intr_status"
                          ELSE "null_buf"
              /\ UNCHANGED <<busy, pc, used, used_idx>>
         ELSE /\ busy' = [busy EXCEPT ![b] = 0]
              /\ pc' = wakeup(b)
              /\ used' = [used EXCEPT ![used_idx % NUM] = End]
              /\ used_idx' = Inc(used_idx)
              /\ UNCHANGED panic
      /\ UNCHANGED <<descs, avail, avail_idx, used_at, device, idx, intr>>

(* The loop has seen every entry.  The device may add one after this test. *)
intr_seen ==
  /\ intr = 1 /\ used_idx = used_at
  /\ intr' = 2
  /\ UNCHANGED <<descs, rings, used_idx, device, busy, pc, idx, panic>>

intr_release ==
  /\ intr = 2
  /\ intr' = 0
  /\ UNCHANGED <<descs, rings, used_idx, device, busy, pc, idx, panic>>

Device == device_take \/ \E i \in Desc : device_done(i)
Intr == intr_ack \/ intr_one \/ intr_seen \/ intr_release
Proc(p) == alloc_fail(p) \/ submit(p) \/ wait(p) \/ finish(p)

Next ==
  /\ panic = "none"
  /\ \/ Device \/ Intr
     \/ \E p \in Procs : Proc(p) \/ virtio_disk_rw(p) \/ kill(p)

Spec == Init /\ [][Next]_vars

-----------------------------------------------------------------------------
Submitted == {p \in Procs : pc[p] \in {"asleep", "wait"}}

(* The chains of the requests under way have three descriptors each, share *)
(* none, and with the free descriptors are all of them: free_chain gives   *)
(* back what alloc3_desc took, and neither free_desc nor virtio_disk_intr  *)
(* panics, in whatever order the device finishes and the indexes wrap.     *)
DescsConserved ==
  /\ panic = "none"
  /\ free \cup UNION {Chain(idx[p]) : p \in Submitted} = Desc
  /\ Cardinality(free) + 3 * Cardinality(Submitted) = NUM

(* virtio_disk_rw returns to a process only after the device has done the  *)
(* transfer for the buffer of that very process, whatever else it did and  *)
(* whoever woke the process.                                               *)
ReturnsServed == [][\A p \in Procs : pc[p] = "wait" /\ pc'[p] = "idle" => p \in served]_vars

(* No process sleeps for a request that virtio_disk_intr has finished, nor *)
(* for descriptors while there are three free ones; and entries of the     *)
(* used ring that virtio_disk_intr has not seen have their interrupt       *)
(* pending, however its acknowledgement races with the device.             *)
NoLostWakeup ==
  /\ \A p \in Procs :
       /\ pc[p] = "asleep" => busy[p] = 1
       /\ pc[p] = "asleep_free" => Cardinality(free) < 3
  /\ used_idx # used_at /\ intr = 0 => irq = 1
=============================================================================
