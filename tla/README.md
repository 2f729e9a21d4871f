# xv6-riscv-zig in TLA+

TLA+ models of the xv6-riscv-zig kernel, of its user ring buffers and of its shell,
checked with TLC on small instances and, for the redo log, the buffer cache, the disk
driver, processes, pipes and the ring buffer data path, proved with TLAPS for all values
of the constants.  Every definition is written from the code; `PROJECT.json` maps each to its lines.

## The system

| Part | State | Operations | What is hard about it | Module |
|---|---|---|---|---|
| Redo log (`log.c`) | header, `lh`, `outstanding`, `committing`, pins | `begin_op`, `log_write`, `end_op`, commit, recovery | power failure between any two disk writes; group commit; log space | `Log`, `AtomicDisk` |
| Buffer cache, sleep locks (`bio.c`, `sleeplock.c`) | buffers, `refcnt`, LRU list, locks | `bget`, `bread`, `bwrite`, `brelse`, pins | the lock is dropped between look-up and locking; recycling | `Bcache` |
| Disk driver (`virtio_disk.c`) | descriptors, two rings, `b->disk` | `virtio_disk_rw`, `virtio_disk_intr` | out-of-order completion, interrupt races, index wrap | `Virtio` |
| Inodes, directories, paths (`fs.c`, `sysfile.c`) | dinodes, `itable`, inode locks, `cwd` | `namex`, `iput`, `create`, `open`, `link`, `unlink`, `mkdir`, `mknod`, `chdir` | calls that meet in one directory; references to removed inodes; power failures | `Fs` |
| Files and blocks (`file.c`, `fs.c`) | `ftable`, `ofile`, bitmap, block maps | `open`, `dup`, `close`, `fileread`, `filewrite`, `balloc`, `bmap`, `itrunc` | a full disk, a failing copy, writes cut into transactions | `Files` |
| Memory (`vm.c`, `kalloc.zig`, `exec.c`) | free list, page tables | `sbrk`, `fork`, `exec`, `exit`, `wait` | `kalloc` fails at any page | `Vm`, `UserMem` |
| Processes (`proc.c`) | process table, per-CPU state, `p->lock`, `wait_lock` | scheduler, `fork`, `exit`, `wait`, `kill` | a lock kept across `swtch`; parents that exit | `Proc` |
| Spin locks, traps (`spinlock.c`, `trap.c`) | `noff`, `intena`, interrupt enable, `stvec` | `acquire`, `release`, `push_off`, `pop_off`, `kerneltrap`, `usertrap`, `usertrapret` | handlers between any two steps, threads that change CPU | `Cpu` |
| Console, UART, ticks (`console.c`, `uart.c`, `plic.c`, `sysproc.c`) | two rings, `ticks` | `consoleread`, `consolewrite`, `consoleintr`, `uartintr`, `clockintr`, `sys_sleep` | interrupts against system calls on another CPU; unsigned wrap | `Tty` |
| Pipes (`pipe.c`) | ring, counters, ends | read, write, close, shared by `fork` | lost wakeups, counter overflow, last close | `Pipe` |
| Ring buffer manager (`ringbuf.zig`) | names, owners, pages, mappings | open, close, release at exit and `exec` | failure half way, mappings made twice | `Ringbuf` |
| Ring buffer data path (`uringbuf.zig`) | two shared counters, memory | `startRead`, `finishRead`, `startWrite`, `finishWrite` | no lock; two loads in sequence | `Uringbuf`, `ByteQueue` |
| Shell and init (`sh.c`, `init.c`) | processes, descriptors, the line | parser, `runcmd`, main loop, init's `wait` | which end of a pipe is open where; which child a `wait` gets | `ShParse`, `Sh` |

The file system calls run between `begin_op` and `end_op`; the log reads and writes
through the buffer cache, which sleeps in the disk driver.  `Fs` stands on what `Log`
is shown to implement, `AtomicDisk`: calls that overlap become durable together, when
the last of them ends.  All parts sleep and are woken through the process table.

## Modules

**Log.**  One action per function of `log.c`, with commit and recovery split at
each disk write.  `crash` may happen in any state, at most `MaxCrashes` times.
`modify` is the file system code that changes a buffer; an operation writes at most
`OPBLOCKS` distinct blocks.  `AtomicDisk` is the promise: groups of operations
become durable at once and in order.  The mapping takes as durable what a recovery
started now would restore.

**Bcache.**  A member of `Procs` is one *use* of a buffer.  `write_log`,
`install_trans`, `bmap` and `itrunc` hold two buffers at once and count as two
uses; the order in which one process locks two buffers is therefore not covered.
Where `bget` would panic, the step is not taken.

**Virtio.**  The device is external: it takes chains in order and finishes them in
any order.  A process keeps `vdisk_lock` from submission to `sleep`, so that is one
step; the interrupt handler takes several, between which the device works.  `kill`
may wake a sleeper at any time.  Ring entries are cleared when read, and reading one
again counts as a failure.  The device never reports an error status.

**Fs.**  A process gives up inode locks and the inode table between the steps of a
call, and waits where `ilock` would.  `iput` is four steps: the test for the last
reference, the truncation, `releasesleep`, and the decrement after `itable.lock` is
taken again.  Directories are sequences of entries in blocks that may run out, as may the
inodes of the disk.  An inode of the table is named by its number, so `NINODE` is not
a limit here.  `lost` counts the names that went with a removed directory, and
`orphan` collects the inodes that the code itself cannot free (see Defects).  The empty
disk is the one of `mkfs.c`, with a root directory whose size is rounded up.

**Files.**  A block is `BSIZE` cells; a cell is a byte or, in an indirect block, an
address.  `filewrite` is split at its chunks and `writei` at its blocks, with
`either_copyin` failing at any block.  `tx` collects the blocks of the transaction,
bitmap and inode included.  `abs` is the content that a read may return.  Both
processes share offsets after `fork`.  The disk at the start is the one that `iappend`
of `mkfs.c` makes of the files in `Images`.

**Vm, UserMem.**  Page tables are a map from paths to table pages and a map of
leaves, so `walk` and `freewalk` keep their failures and panics.  `sbrk`, `fork`,
`sys_exec` and `exec` take one page per step.  `UserMem` is the promise to a process:
memory that only it changes, copied by `fork`, replaced at once by `exec`, and kept
when one of these fails.  Segments are page counts; permissions are reduced to the
user bit of the guard page.  `NARGS` arguments each take a page in `sys_exec`, and any
of them may be one that `fetchaddr` or `fetchstr` refuses.

**Proc.**  `run`, `on` and `lock` say on which stack a CPU is and who has `p->lock`
while `swtch` is under way.  `fork` picks any unused slot.  It is assumed that init
neither exits nor is killed.  Memory and files of a process are in the other modules.

**Cpu, Tty.**  A context is a kernel thread or a scheduler; a trap runs on the
context that it interrupts and moves with it.  A thread begins in `usertrapret`, is in
user mode with interrupts on and `stvec` at the trampoline, and comes back through
`usertrap` for a system call, an interrupt or a fault; a trap that meets the wrong
`stvec`, or that `usertrap` or `kerneltrap` refuses, is a panic.  The test of `killed`
and the `sleep` that follows are separate steps.  `acquire` switches interrupts off and
then spins in a step of its own.  The UART (a FIFO, an interrupt when it runs empty
and one per character received) and the PLIC (one claim at a time) are external.
Reading LSR and writing THR are two steps.  One character stands for the three that
echo an erasure.  `p->lock` is held only within a step; `Proc` has its detail.

**Pipe.**  A byte is its position in the stream.  Counters wrap at `UINT`.

**Ringbuf.**  A system call holds the manager's lock throughout and is one step.
`FailAt` says after how many mapped pages `open` may fail; `MaxFaults` bounds the
opens that fail and the calls of `exec` by owners, which `faults` counts.

**Uringbuf.**  The two loads of `startRead` and of `startWrite`, the addition to a
counter and each byte written are steps.  The loads of the assertions are not:
`AssertsHold` states the assertions in every state in which they may be evaluated.
Nor is reading a byte: `SliceStable` says that it does not matter when it is read.
`ByteQueue` is the promise, a bounded queue.  `MaxCount` bounds the counters; the
wrap of 64-bit counters is not covered.

**ShParse, Sh.**  The parser works on tokens and is compared with a grammar that is
written down separately (`Trees`).  `Sh` has the processes that a line becomes; the
calls on descriptors that a process makes in a row are one step.  `open`, `pipe`,
`fork` and `exec` may fail.  Programs are external: one may exit at any time, and
does once its input has ended.

## Runs

| Run | Shows | Instance |
|---|---|---|
| `log` | groups are atomic, durable and in order (`AtomicSpec`); only `write_head` commits and space suffices (`LogInvariant`); sleepers in `begin_op` are woken and commits finish (`LogProgress`) | 2 processes, 2 blocks, 2 contents, 2 power failures; operations reserve 4 blocks and write at most 2 |
| `bcache` | one buffer per block, exact references, readers see the last content (`Coherent`); no lost wakeup | 3 uses, 3 blocks, 2 buffers |
| `virtio` | descriptors conserved and no panic; no lost wakeup or interrupt; no early return | 3 processes, 8 descriptors as in the code, indexes modulo 16 |
| `fs` | no panic but the one under Defects; no deadlock on inode locks; exact references; link counts agree with the tree after a crash at any moment; no inode leaks but the one under Defects | 2 processes, 3 inodes, 3 directory blocks of 3 entries, 4 calls out of 13, three trees |
| `files` | bitmap and block maps agree; a chunk fits its transaction; no holes; reads return what was written; descriptor and reference counts agree | 2 processes, 2 files, 5 blocks of 2 bytes, 1 direct block, 5 calls on an empty disk, 3 on one with a file of 3 bytes |
| `vm` | pages are conserved at every failure; no panic; `Vm` implements `UserMem` | 2 processes, 18 pages, tables of 3 entries, 5 calls |
| `proc` | one owner per kernel stack, one lock at `swtch`, unique pids (`Exclusive`); living parents; no missed exit; no deadlock | 2 CPUs, 3 slots, 4 pids |
| `tty` | handlers never spin on a lock of what they interrupt, `intena` follows a thread, and traps enter through the right vector; output keeps its order and does not stop; lines are exact; no lost wakeup of readers, writers and sleepers | 2 CPUs, 2 threads, buffers of 2, `uint` modulo 4, scenarios of typing, writing, ticks and kills |
| `pipe` | order and exactness of the ring; wakeups; last close; peers are released | 2 processes, 2 bytes, counters modulo 4, 5 bytes sent |
| `ringbuf` | pages are conserved as long as the kernel runs; without a fault, no panic, books agree, double mapping | 3 processes, 2 ring buffers of 2 pages, 1 fault |
| `uringbuf` | the ring is a queue | capacity 3 |
| `sh` | the parser accepts the grammar exactly; programs get the descriptors that the line means and no others; a prompt means that the foreground is done, and it comes | all lines of up to 4 tokens and some longer, 6 processes |

The bounds let the cases of interest happen: rings and counters wrap, every resource
is contended for and runs out, operations sleep for log space, power may fail during
the recovery from a power failure, a write needs several chunks and an indirect
block, an inode is freed and used again while a call still holds it, and every
`kalloc` of a call may be the one that fails.  They leave out: more than one sleeper on
each side of a pipe, three distinct contents of a block, a third process in `log`,
`fs` and `files`, more than one failed `open` of a ring buffer, and a UART that
loses characters (its FIFO holds one from each CPU).

Deadlock is checked in `log`, `bcache`, `virtio`, `proc` and `uringbuf`.  The other
systems stop when their bounds are used up or all processes are gone; there, waiting
for ever is excluded by `NoDeadlock`, `NoLostWakeup`, `OutputMoves`, `PeersReleased`
and `PromptReturns`.

## Defects

The models keep what the code does in these cases; the properties above are stated
so that they hold beside them, and each comment says how.

* `kill(0)` finds an unused slot, whose pid is 0 (`proc.c`, line 600), and its next
  process is born killed.  The comment of `kill` says that it kills the process with
  the given pid.
* When `open` of a ring buffer fails for the second owner, its `errdefer`
  (`ringbuf.zig`, line 202) deactivates the buffer under the first, and the kernel
  panics.
* `exec` by an owner of a ring buffer (`exec.c`, line 129) reaches
  `panic("freewalk: leaf")`: only `freeproc` gives ring buffers up.
* `iput` lets go of the lock of the inode that it has freed before it drops its
  reference (`fs.c`, lines 355 to 360).  If the inode is allocated, linked and
  unlinked again in between, the other `iput` sees two references, and nobody frees
  the inode.  The comment in `fs.c` (line 128) says that `iput` frees an inode when
  both counts have fallen to zero.
* `..` in a removed directory still names the parent.  Once that is removed too, going
  up panics in `ilock` (`fs.c`, line 314) or ends in another inode.
* A file can be created in a removed directory that a process is in.  Its name goes
  with the directory, and its link count never falls to zero.
* Inodes that are open but have no name when the power fails stay on the disk; no code
  looks for them after a boot.
* A process that is killed between the test of `killed` and the `sleep` in
  `consoleread` (line 96) or `sys_sleep` (line 65) sleeps on until the next line or tick;
  `NoLostWakeup` therefore does not claim that no killed process sleeps.
* `mkfs.c` (line 164) rounds the size of the root directory up by a whole block when its
  last block is exactly full, which leaves a block below the size that is not allocated.
* An operation that wrote all of its `MAXOPBLOCKS` blocks would meet `panic("too big
  a transaction")`, although `begin_op` admits it: `mkfs.c` makes `log.size` equal to
  `LOGSIZE`, header included.  `OpsFit` excludes it.
* Nothing excludes `panic("bget: no buffers")`: `param.h` has `NBUF` = `LOGSIZE` = 30
  and `NPROC` = 64, and one process may hold two buffers.

## Fairness

* Log: a commit goes on, and a process that can run does.  Strong fairness for
  `end_op`: an operation makes finitely many `log_write` calls and then ends.
* Pipe: kernel code goes on, and a process that can get `pi->lock` again and again
  gets it.  Spin locks do not guarantee this by themselves; it is an assumption.
  Closing an end is up to the program.
* Sh: a process that can take a step does, since the scheduler goes round the table,
  and a program ends once its input has.  Typing a line is up to the user.
* The others claim no liveness and assume no fairness.  `OutputMoves` and
  `NoLostWakeup` are invariants: whoever waits has a wakeup, an interrupt or a running
  process that is still to come.

## Proofs

`LogProofs` and `LogAtomicProofs` prove, for all constants that satisfy
`LogAssumption`, the type invariant, `LogInvariant`, `CommitPoint`, `DurableWhenIdle`
and the refinement of `AtomicDisk`.  `NoPanic` is proved from the further hypothesis
`OpsFit` (operations use less than they reserve, and the log is
large enough).  For writes, `TxFits` of `files` is the bound that it needs; for the
other calls it is not shown.  The inductive invariant is `TypeOK /\ LogInvariant`: that
a crash is harmless depends on what commit has done so far, that eviction is harmless
on which blocks are pinned, and that space suffices on counting the unused part of
every reservation (`Reserved`).  None of these is inductive alone.

`PipeProofs` proves `NoUseAfterFree` and `NoLostWakeup` for any number of processes.
The invariant is `PipeInv`: who holds `pi->lock` (`LockExact`), that an end is open
exactly as long as a process has it or is between `fileclose` and `pipeclose`
(`EndsExact`), and that who sleeps has a reason unless the holder of the lock is in a
loop that ends in `wakeup` (`SleepExact`).  The last needs the second: a writer that
finds the read end closed returns without `wakeup`, which is right only because no
reader is left.  `InOrder` is proved for every capacity and every width of the counters
that is a multiple of it, as 2^32 is of 512; the argument is in `WriteChunk` and
`ReadChunk`, on lemmas about division (`WriteCell`, `ReadCell`, `ModDiffer`).

`BcacheProofs` proves `Coherent` and `NoLostWakeup` for any finite set of processes and
any number of blocks and buffers, from `BcacheAssumption` alone.  What `Coherent` leaves
out, and `CacheInv` adds, is where the last content of a block is: in a valid buffer
(`BufLatest`), and on the disk unless the block is pinned or on its way there
(`DiskLatest`), in which case its buffer is valid (`DirtyValid`).  Recycling is safe
because an unreferenced buffer has neither user nor pin (`UnusedFree`), a write because
the sleep lock keeps every other holder away from the block (`Alone`).  Where `bget`
panics the model takes no step, so nothing is shown about running out of buffers.

`VirtioProofs` proves `DescsConserved`, `NoLostWakeup` and `ReturnsServed` for any number
of processes and of descriptors, with ring indexes of any width that is a larger multiple
of the number of descriptors, as 2^16 is of 8 (`VirtioAssumption`).  `VirtioInv` counts:
a request under way has three descriptors (`ChainExact`), and it is in the avail ring,
with the device, in the used ring or finished (`CountExact`).  Hence neither ring is ever
overfull and the device does not overwrite an entry that is still to be read
(`RingsExact`, `RingPut`, `RingGet`).  A chain on its way is in one such place
(`OnePlace`) and belongs to a request that is not finished (`HeadsExact`); so a
completion reaches the buffer it is for, once, and a chain is freed once.

`ProcProofs` and `ProcExitProofs` prove `Exclusive`, `ParentAlive` and `NoMissedExit` for
any number of CPUs and any size of the table, from `ProcAssumption` alone.  The invariant
`ProcInv` adds who holds which lock: `p->lock` a CPU that gives the process up or takes
it over (`LockExact`), and `wait_lock` a CPU whose process is between two points of
`exit` or of `wait` (`WaitLockExact`).  On that rest the facts that
carry a property from one step to the next: a process that has reached `exit_zombie` has no children (`ParentExact`) and its
parent is awake; who is about to sleep in `wait` has a child, and no zombie one
(`SleepExact`); a child that `fork` has not made `RUNNABLE` belongs to one parent, which
is still in `fork` (`ForkExact`).

`UringbufProofs` proves the type invariant, `AssertsHold`, `SliceStable` and the
refinement of `ByteQueue`.  The invariant adds (`Known`) that the reader's copy of
its own counter is exact, that the writer's copy of `read_done` is never ahead of it,
and that the slices cut from these copies end within the bytes or the room there is;
`CellsDiffer` shows that distinct positions less than a capacity apart are distinct
cells.

Only model-checked: all other modules, and all liveness.  Liveness under fairness,
`ENABLED`, induction over data and RECURSIVE operators (`ShParse`) are out of reach
of the prover.

## Not modelled

* Boot, device initialisation, `printf`, strings, assembly: straight-line code that
  runs once, or formatting, or below the level of these models.
* The table of system calls, `fstat`, devices other than the console.
* The order in which one process locks two buffers; a full inode table.
* Characters of a command line; long lines.
* The user library (`umalloc`, `printf`), the other user programs and the tests:
  sequential clients of the system calls.
* The layout of the disk in `mkfs.c`, its reading of host files, and the build.
* Code that is not built: `ramdisk.c`, `kalloc.c`, `uart.zig`, `queue.zig`.
