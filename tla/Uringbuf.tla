------------------------------ MODULE Uringbuf ------------------------------
(***************************************************************************)
(* user/ulib/uringbuf.zig: the data path of a ring buffer that the kernel  *)
(* has mapped into two processes, one that writes and one that reads.  The *)
(* pages are mapped twice in a row, so a slice that starts below           *)
(* BUF_CAPACITY may run on beyond it; byte a of the mapping is byte        *)
(* a % BUF_CAPACITY of the memory.  The two counters of the book page are  *)
(* loaded one at a time and there is no lock.                              *)
(***************************************************************************)
EXTENDS Naturals, Sequences

CONSTANTS
  BUF_CAPACITY,
  Byte,      \* values of a byte
  MaxCount   \* bound: bytes written in a behaviour (the counters are u64)

ASSUME UringbufAssumption ==
  /\ BUF_CAPACITY \in Nat \ {0}
  /\ MaxCount \in Nat

VARIABLES
  read_done, write_done,  \* the book page
  mem,       \* the pages of the buffer
  rpc, wpc,  \* idle, half (one counter loaded), slice, finish
  r_rd,      \* reader: its copy of read_done
  rlen,      \* reader: length of its slice, then argument of finishRead
  w_rd,      \* writer: its copy of read_done
  wlen       \* writer: length of its slice, then argument of finishWrite

reader == <<rpc, r_rd, rlen>>
writer == <<wpc, w_rd, wlen>>
ring_vars == <<read_done, write_done, mem, reader, writer>>

Cells == 0..BUF_CAPACITY-1

RingInit ==
  /\ read_done = 0 /\ write_done = 0
  /\ mem \in [Cells -> Byte]
  /\ rpc = "idle" /\ r_rd = 0 /\ rlen = 0
  /\ wpc = "idle" /\ w_rd = 0 /\ wlen = 0

-----------------------------------------------------------------------------
(* startRead *)
startRead ==
  /\ rpc = "idle"
  /\ r_rd' = read_done
  /\ rpc' = "half"
  /\ UNCHANGED <<read_done, write_done, mem, rlen, writer>>

startRead_slice ==
  /\ rpc = "half"
  /\ rlen' = write_done - r_rd
  /\ rpc' = "slice"
  /\ UNCHANGED <<read_done, write_done, mem, r_rd, writer>>

(* finishRead(k), for at most the length of the slice. *)
finishRead ==
  /\ rpc = "slice"
  /\ rlen' \in 0..rlen
  /\ rpc' = "finish"
  /\ UNCHANGED <<read_done, write_done, mem, r_rd, writer>>

(* Mutant: finishRead stores the counter of the writer. *)
finishRead_add_all ==
  /\ rpc = "finish"
  /\ read_done' = write_done
  /\ rpc' = "idle"
  /\ UNCHANGED <<write_done, mem, r_rd, rlen, writer>>

finishRead_add ==
  /\ rpc = "finish"
  /\ read_done' = read_done + rlen
  /\ rpc' = "idle"
  /\ UNCHANGED <<write_done, mem, r_rd, rlen, writer>>

-----------------------------------------------------------------------------
(* startWrite *)
startWrite ==
  /\ wpc = "idle"
  /\ w_rd' = read_done
  /\ wpc' = "half"
  /\ UNCHANGED <<read_done, write_done, mem, wlen, reader>>

Room(wd) == BUF_CAPACITY - (wd - w_rd)

startWrite_slice ==
  /\ wpc = "half"
  /\ wlen' = Room(write_done)
  /\ wpc' = "slice"
  /\ UNCHANGED <<read_done, write_done, mem, w_rd, reader>>

(* The memory behind byte j of the slice of the writer. *)
WCell(j) == (write_done + j) % BUF_CAPACITY

(* The owner of the slice stores a byte somewhere in it. *)
store(j, b) ==
  /\ wpc = "slice" /\ j < wlen
  /\ mem' = [mem EXCEPT ![WCell(j)] = b]
  /\ UNCHANGED <<read_done, write_done, reader, writer>>

finishWrite ==
  /\ wpc = "slice"
  /\ wlen' \in 0..wlen /\ write_done + wlen' <= MaxCount
  /\ wpc' = "finish"
  /\ UNCHANGED <<read_done, write_done, mem, w_rd, reader>>

finishWrite_add ==
  /\ wpc = "finish"
  /\ write_done' = write_done + wlen
  /\ wpc' = "idle"
  /\ UNCHANGED <<read_done, mem, w_rd, wlen, reader>>

RingNext ==
  \/ startRead \/ startRead_slice \/ finishRead \/ finishRead_add
  \/ startWrite \/ startWrite_slice \/ finishWrite \/ finishWrite_add
  \/ \E j \in Cells, b \in Byte : store(j, b)

RingSpec == RingInit /\ [][RingNext]_ring_vars

-----------------------------------------------------------------------------
(* Every variable has its type. *)
TypeOK ==
  /\ read_done \in Nat /\ write_done \in Nat
  /\ mem \in [Cells -> Byte]
  /\ rpc \in {"idle", "half", "slice", "finish"} /\ r_rd \in Nat /\ rlen \in Nat
  /\ wpc \in {"idle", "half", "slice", "finish"} /\ w_rd \in Nat /\ wlen \in Nat

(* The assertions of finishRead and finishWrite hold whenever they may be  *)
(* evaluated, and no subtraction of counters goes below zero, although     *)
(* every copy of the other side's counter may be old.                      *)
AssertsHold ==
  /\ read_done <= write_done /\ write_done <= read_done + BUF_CAPACITY
  /\ rpc = "half" => r_rd <= write_done
  /\ rpc = "finish" => read_done + rlen <= write_done
  /\ wpc = "half" => w_rd <= write_done
  /\ wpc = "finish" => write_done + wlen <= read_done + BUF_CAPACITY

(* The memory the reader may look at between startRead and finishRead. *)
ReadSlice  == IF rpc = "slice" THEN {(r_rd + j) % BUF_CAPACITY : j \in 0..rlen-1} ELSE {}

(* Between startRead and finishRead the bytes of the slice do not change,  *)
(* whatever the writer does meanwhile.                                     *)
SliceStable == [][rpc = "slice" /\ rpc' = "slice" =>
  \A a \in ReadSlice : mem'[a] = mem[a]]_ring_vars

(* The bytes between the counters, oldest first. *)
queue == [j \in 1..write_done - read_done |-> mem[(read_done + j - 1) % BUF_CAPACITY]]

(* How many of them the reader has been shown. *)
shown == IF rpc \in {"slice", "finish"} THEN rlen ELSE 0

Queue == INSTANCE ByteQueue WITH q <- queue, Capacity <- BUF_CAPACITY

(* The counters and the memory implement a bounded queue of bytes: nothing *)
(* is lost, repeated, reordered or overwritten before it is read.          *)
QueueSpec == Queue!Spec
=============================================================================
