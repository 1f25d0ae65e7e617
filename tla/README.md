# TLA+ models and proofs of the TrinityXV6 kernel

The repository is a small multiprocessor Unix kernel for RISC-V in C
(`src/kernel`), its user programs (`src/user`), the file-system image builder
(`src/mkfs`) and design notes for features that have no code yet (`src/docs`,
`src/tests/*/README`).  This directory holds TLA+ models of the parts of the
kernel whose correctness depends on interleavings, crashes and limits, the TLC
configurations that check them on small instances, and TLAPS proofs.

## The system and its parts

| Part | Code | State it owns | Operations | Module |
|---|---|---|---|---|
| Process table | `proc.c`, `sysproc.c`, `trap.c` | `proc[]`: state, chan, killed, parent, pid, xstate; `wait_lock` | fork, exit, wait, kill, pause, sleep/wakeup, reparent | `Proc` |
| Scheduler and switch | `proc.c`, `spinlock.c`, `swtch.S`, `trap.c` | `p->lock`, `p->context`, `struct cpu`, interrupt flag | scheduler, sched, yield, sleep, forkret, preemption | `Sched` |
| Pipes | `pipe.c`, `file.c` | ring buffer, `nread`, `nwrite`, open flags | write, read, close, kill | `Pipe` over `Fifo` |
| Buffer cache, sleep-locks | `bio.c`, `sleeplock.c` | LRU list, refcnt, valid, sleep-lock of each buffer | bget, bread, bwrite, brelse, pin, unpin | `BufCache` over `BlockStore` |
| Log | `log.c` | in-memory header, outstanding, committing; header and log area on disk | begin_op, log_write, end_op, commit, sync, crash, recovery | `Log` over `TxDisk` |
| Inode table, directories | `fs.c`, `sysfile.c` | `itable`, disk inodes, directory entries, sleep-locks | iget, ilock, iput, ireclaim, namex, open, create, link, unlink, mkdir, chdir, crash | `FileSys` |
| File data | `fs.c`, `file.c`, `mkfs.c` | bitmap, block lists, sizes, offsets | balloc, bfree, bmap, readi, writei, itrunc, fileread, filewrite; the image mkfs makes | `FileData` on `Mkfs` |
| File table | `file.c`, `sysfile.c`, `pipe.c` | `ftable`, `ofile[]`, ends of pipes | open, dup, close, pipe, read, write, the files of fork and exit | `FileTable` |
| Shell, init, echo, cat | `user/sh.c`, `init.c`, `echo.c`, `cat.c` | the line, the command tree, descriptors | parsecmd, runcmd, getcmd | `ShParse`, `Shell` |
| Disk driver | `virtio_disk.c` | descriptors, rings with 16-bit indices | rw, interrupt | `VirtioDisk` over `DiskService` |
| Console, uart | `console.c`, `uart.c` | input ring, transmitter | read, write, interrupt, echo | `Console` over `LineInput` |
| Memory | `kalloc.c`, `vm.c`, `exec.c`, `proc.c`, `sysproc.c` | free list, page tables, sz | kalloc, uvmalloc, uvmcopy, sbrk, vmfault, copyin, copyout, fork, exec | `Memory` over `AddrSpace` |
| Traps, boot, plic, printing, strings, other user programs | | | | partly or not modelled, see below |

How they interact: a system call runs on the kernel thread of its process
(Sched), which blocks by the two-step `sleep_prepare` / `sleep` protocol of the
process table.  File-system calls run inside transactions of the log, which
reads and writes blocks through the buffer cache, which uses the disk driver.
Each model contains the part of the sleep/wakeup protocol its component uses,
because the window between `sleep_prepare` and `sleep` (the lock that guards
the condition is released in between) is where the component could go wrong.
The abstract modules are the interfaces: what the file system may assume of
the log is `TxDisk` (FileSys has its two disks as `cur` and `dur`), what the
cache may assume of the driver is `DiskService`, what a program may assume of
its memory is `AddrSpace`, what the log may assume of the cache is `BlockStore`
(in `Log` the cache appears as `cache`, with `Evict` and `Bread` for what
`bget` may do to an unpinned block at any time).

The shell is composed with the file table: `Shell` extends `FileTable` and runs
init, the shell and its commands as processes that make the calls.

## The modules

An action has the name of the function it models, or of the function and the
point in it (`kexit_zombie`).  What a function does under one spin-lock is one
step; a function that releases its lock half way is several steps with a
program counter `pc`.  Reading one's own `killed` flag and setting `chan` are
under `p->lock` and part of the step that surrounds them.

**Log** (`log.c`).  `home`, `logarea`, `head` are the disk and survive `Crash`;
`cache`, `pins`, `lh`, `outstanding`, `committing`, `ncommit` are memory.
`begin_op`, `end_op`, `log_write` are one step each; `commit` is `write_log`
once per block, `write_head` (the commit point), `install_trans` once per
block, `clear_head`, `end_commit`, and the machine may crash between any two.
Recovery (`read_head`, `recover_install`, `recover_clear`) may crash as well.
`wset` is the set of blocks an operation has logged; the file system's promise
to log at most `OpBlocks` distinct blocks per operation is the guard of
`log_write`.  `late` and `owed` are history variables for `SyncDurable`.

**TxDisk**: a durable copy and a current copy of the blocks; writes change the
current copy, `Commit` makes it durable in one step while no operation is open,
`Crash` falls back to the durable copy.  The mapping takes for the durable copy
what recovery would produce from the present disk.

**BufCache** (`bio.c`, `sleeplock.c`).  The list is a sequence in LRU order.
`bget` is one step under `bcache.lock`; then `acquiresleep` with its sleep loop;
`brelse` gives up the sleep-lock in one step and the reference in another.
`panic` is the message of the panic reached, if any; "bget: no buffers" is
reachable, as it is in the kernel, and ends the run (`halted`).
**BlockStore**: a map from blocks to contents that reads and writes agree with.

**Pipe** (`pipe.c`).  Every iteration of the two loops is a step, the pipe lock
is explicit because both loops give it up to sleep, `nread` and `nwrite` wrap
at `UINT`.  `copyin` and `copyout` may fail at any byte and a process may be
killed at any time.  **Fifo**: a bounded queue with two ends that can close.

**Proc** (`proc.c`).  `wait_lock` is explicit since `kexit` holds it over three
steps; `p->lock` regions are steps.  `io_*` is the shape of every interruptible
wait (`sys_pause` is the one mapped).  `aimed` remembers which processes a kill
or a fault was really for, and whether the kill came too late for the killed
test that precedes a sleep.

**Sched** (`proc.c`, `spinlock.c`, `trap.c`).  Each hart runs its scheduler
thread or a process.  `p->lock` with its owner, `noff`, `intena` and the
interrupt flag are modelled as `spinlock.c` computes them, and every panic of
`acquire`, `release`, `pop_off` and `sched` on that path is a state with
`panic = TRUE`.  A thread may sleep with interrupts off too, as the first process
does in `forkret` and a killed one in the `kexit` of `usertrap`.  An interrupt
in the scheduler is the end of its `wfi`, and one in a process the step to
"trap"; the tests that `usertrap` and `kerneltrap` make on the mode they came
from, which the hardware sets, are not modelled.

**VirtioDisk** (`virtio_disk.c`).  `virtio_disk_rw` is a step per stretch under
`vdisk_lock`, with the writes to the ring slot, the index and the notification
register as steps of their own because the device reads them concurrently; the
handler takes one used entry per step.  The device (external) takes requests in
ring order and completes them in any order.  **DiskService**: requests that are
transferred once, between the call and the return.

**FileSys** (`fs.c`, `sysfile.c`).  A thread is a stack of places to go on from
(`stk`) with the locals of its call, so that `iput` inside `namex` inside
`create` returns where it should.  What happens between `ilock` and `iunlock`
is one step unless a second lock is taken; `iput` of a last reference is five
steps, with `itable.lock` held into the second.  `itab[s]` has the reference
count and the copy of type and nlink with its `valid` flag; directories map
names to inode numbers, ".." is the field `up`.  `Commit` makes `dur` equal to
`cur` while no operation is open, `Crash` falls back to `dur`, and `ireclaim`
runs before the first call.

**FileData** (`fs.c`, `file.c`).  One iteration of `readi`, `writei` or `itrunc`
is one step.  Helpers take and return a record of what the call changes; the
set `logged` has the blocks of the transaction.  `bytes` is a history variable:
the file as a sequence, by the arguments and results of the calls.  The first
state is the image that **Mkfs** (`mkfs/mkfs.c`) makes of a list of files, with
its root directory, which is open for reading only.

**FileTable** (`file.c`, `sysfile.c`, `pipe.c`).  `sys_open` and `sys_pipe` take
their files and descriptors in the order of the code and fail at every point
where it can.  A close is a step for the table and one for the pipe end or
the transaction and `iput` it leads to.  `kpanic` names the panic reached, if any.
`FileSpec` is the table under any programs: every process makes any call with any
descriptor at any time (`Calls`), and its calls go on step by step (`Kernel`).
The steps of `Shell` take the table by the same actions.

**ShParse** (`user/sh.c`).  The recursive-descent parser as operators that
return a tree and the rest of the line, beside a grammar that says which trees a
line of tokens has.  **Shell**: a process is a script of calls still to make;
`runcmd` turns a tree into a script.  `g` is a program that makes any calls.

**Console** (`console.c`, `uart.c`).  `consoleread` and `consoleintr` hold
`cons.lock`; `uartwrite` waits for the transmitter with `sleep_prepare` before
it looks at the status, and the echo of the interrupt handler competes with it.
The chip (external) has a receive queue, a transmit buffer and a transmit
interrupt that is pending or not.
**LineInput**: what is typed becomes lines, which readers take from the front.
Whether the copy to a reader's memory succeeds is not part of it: `consoleread`
advances `cons.r` before `either_copyout`, and a character whose copy fails is
gone (`console.c:80-91`).

**Memory** (`vm.c`, `kalloc.c`, `exec.c`, `proc.c`).  A call touches its own page
table and the free list only, so a call is one step, in which `kalloc` fails
after any number `left` of pages.  Page tables have three levels of `FAN`
entries; loops are folds that stop at the first failure.  **AddrSpace**: an
image per process that only its own writes, sbrk, fork and exec change.

## What the runs check

| Run | Instance | Properties | What it shows |
|---|---|---|---|
| `log` | 2 processes, 2 blocks, 2 values, 2 operations, log for two reservations, fair | NoPanic, SyncDurable, AtomicCommit, CallsReturn | A group of operations is durable entirely or not at all wherever the machine stops, in recovery too; `sync` returns only when what was finished before it is durable; nobody waits for ever |
| `bufcache` | 2 processes, 3 buffers, 4 blocks, 2 pins | RefcntExact, NoLostWakeup, Coherent | The cache is one coherent copy although buffers are recycled while others wait for them; `bget` runs out of buffers only when processes and pins take up all of them |
| `pipe` | 1 reader, 2 writers, 2 bytes of buffer, indices mod 4, one kill, fair | NoLostWakeup, IsFifo, ZeroIsEndOfFile, ClosedEndReturns | Bytes come out once and in order over index wrap; read returns 0 only at end of file; closing one end lets everybody blocked at the other return |
| `proc` | 3 table entries, 3 harts, kill aimed at the first child, fair | ParentCanWait, OrphanIsReaped, KillTakesEffect | Every child has a parent that can wait for it; orphans are reaped by init; a killed process exits even if what it sleeps for never happens |
| `proc_kill_zero` | kill(0) | ExitStatusIsOwn (violated) | see Findings |
| `sched` | 2 harts, 3 processes, fair | NoPanic, OneStackOneHart, InterruptsRestored, RunnableRuns | The hand-over of `p->lock` across `swtch` is sound; interrupt state belongs to the thread; the scan starves nobody |
| `virtio` | 3 processes, 8 descriptors, so for 2 requests with 2 left over; ring indices mod 16 | ChainsExact, NoLostWakeup, IsDisk | Each call transfers its own block once although answers come in any order while the handler runs and the indices wrap |
| `fs` | 2 processes, 3 workloads: links, nested directories, crashes | RefsExact, LinkCountsExact, RefKeepsInode, NoLeak, CallsGoOn | References come back on every path; walks through directories that are being removed are safe; the tree on disk is exact at every crash and `ireclaim` leaves no orphan; no call panics or is stuck |
| `data` | 2 processes, 2 files and the root directory, 8 blocks, 3 blocks per file | NoPanic, BlocksOwned, ReadBack, ReadIsExact | The image of mkfs is well formed; a full disk loses no block; reads never allocate; transactions fit; what is read is what was written |
| `mem` | 2 processes, 20 pages, 2 programs, 4 calls | PagesOwned, IsAddrSpace | fork, exec and sbrk roll back exactly; lazy allocation cannot be observed |
| `console` | 3 workloads: a reader and an editing typist; two writers; a killed writer; 2 bytes of buffer, indices mod 4, fair | NoByteLost, IsLineInput, WaitersServed | The ring is a line discipline over index wrap; no reader or transmitter is forgotten, no byte is lost |
| `shell` | 6 processes, 5 files, 5 descriptors, 2 pages; thousands of lines parsed, 15 run, fair | RefsExact, NoNestedOp, ParserExact, Wired, CommandsFinish | The parser accepts exactly the grammar; counts of files and pipe ends are exact on every path; a command starts with the right descriptors; what is typed comes to an end |

Bounds.  `MaxOps`, `MaxPins`, `MaxPid`, `MaxReq`, `MaxCalls`, `MaxRx`, `MaxTyped`
and the `ncalls`, `ncrash`, `typed` and `before` of a workload cap counters that
the code leaves unbounded, in the guards.  The instances are the smallest in
which the interesting case occurs: a log with room for two reservations, so that
two operations make a group, or the second waits once the first has logged; one buffer less than
blocks, so that recycling happens; indices that wrap after twice the buffer
size; three table entries, so that a child is reparented while its parent exits;
two harts, so that a process migrates; rings that start at `Served` requests, so
that the indices and the slots wrap within the run, and descriptors that are no
multiple of three, so that a caller takes some in vain; two processes in the file system, with a third or
fourth call after the two that race, so that what the race left behind is used;
an image with nested directories or a file at the start, so that no calls are
spent on making them; files of one direct and two indirect blocks; six pages of
user addresses; tables of files, descriptors and pages so small that every
allocation of the shell's commands can fail.  `Counts`, `Sizes`, `Addrs`,
`Killable`, `KillPids`, `Lines` and `RunLines` are the arguments that calls are
made with and the lines that are typed: every line of up to three characters
is parsed, those of four and five over parts of the alphabet, and some whose
words reach `MAXARGS`; the lines that are run have every kind of command in them.  The instance of FileSys has a
table entry for every inode; with fewer, `iget` panics as the code does.  That of
BufCache has no buffer to spare when both pins are taken, so its `bget` may panic,
as it may with the kernel's constants (`param.h`: NBUF equals LOGBLOCKS and is less
than NPROC).  The two blocks of the instance of Log cannot fill its log; that
`log_write` always finds room is shown by the proof (`NeverPanics`).
A workload (FileSys, Console) is chosen in Init and never changes, so one run
covers several mixes of calls without their product.  Symmetry is used only
for sets whose members the actions treat alike, and never in a run with a
liveness property.

Fairness.  The scheduler scans the table round and round and the timer preempts
every process, so a process inside the kernel that can take a step eventually
does (weak fairness; strong where the step waits for a lock others take in
turns).  `proc` also assumes that init keeps calling wait, as `user/init.c` does;
it assumes nothing about the events that processes sleep for, since nobody need
type or write to a pipe.  `sched` has its
fairness per hart: a hart keeps going and keeps getting timer interrupts (weak),
and it gets the spin-lock of a process that is free again and again, in the scan
or in `yield` (strong).
`console` assumes that the chip finishes what it transmits.  `shell` is weakly
fair to every process, but nobody has to type: `getcmd` is not fair.  The runs
whose workload is finite do not check deadlock, because they stop after it;
FileSys states the absence of deadlock in `CallsGoOn` instead, Pipe, Proc, Console
and Shell by their liveness properties.

## Findings

`proc_kill_zero`: an unused table entry has pid 0, so `kill(0)` matches it, sets
`killed` and returns success (`proc.c:497`); `allocproc` does not reset the
flag, and the next process forked into the entry exits with status -1 although
nobody killed it.  `user/usertests.c:852` (exitwait) expects a child's status to
be the one it passed to `exit`.

Notes on the code that no run refutes:

* `iput` calls `acquiresleep(&ip->lock)` while it holds `itable.lock`
  (`fs.c:245`); `docs/design.md:365` says that a spin-lock may be acquired while
  holding a sleep-lock, "never the reverse".  `CallsGoOn` shows that the
  acquire never has to wait: the code is safe and the documented order is
  stricter than the code.
* mkfs rounds the size of the root directory to `((off / BSIZE) + 1) * BSIZE`
  (`mkfs.c:162`).  If its entries filled their blocks exactly (64 to a block; the
  image has 24) the last block would be a hole, and reading the directory to
  its end would allocate outside a transaction and panic in `log_write`.
  `RootNotFull` of Mkfs is the assumption that this is not so; without it `data`
  violates `NoPanic`.
* A killed init panics in `kexit` (`proc.c:279`); the properties of Proc and
  Shell except it.

Two further behaviours are exceptions in properties, not findings, since nothing
in the repository says otherwise.  `pipewrite` returns -1 for a killed writer
without waking readers although bytes are in the buffer (`pipe.c:86`), which
`NoLostWakeup` of Pipe excepts.  A kill between the `killed` test of a loop and its
`sleep` (`kwait`, `sys_pause`, the pipe and console loops) finds nobody asleep, and
`sleep` does not look at `killed` (`proc.c:459`): the process sleeps until its
event or another kill.  `KillTakesEffect` excepts exactly the kills that fall into
that window.

## What is proved

TLAPS checks the theorems below.  They hold for every value of the constants
that satisfies the named assumption of the component's module; the bounds of the
runs (`MaxOps`, `MaxReq`, `MaxPid`...) are constants too, so no theorem depends
on them.  Each rests on an inductive invariant `IInv` that was model-checked
first, on the run's instance (FileTable's on `FileSpec` with two processes, three
files, two descriptors and one page); the proof has one lemma per action or group of like
actions.

| Module | Theorem | States | For every |
|---|---|---|---|
| `LogProofs` | `TypeCorrect`, `NeverPanics`, `HeaderAfterData`, `DirtyStaysPinned` | `[]TypeOK`, `[]NoPanic`, `[]HeaderNamesLoggedData`, `[]DirtyIsPinned` | finite set of processes, `OpBlocks < MAXOPBLOCKS <= LOGBLOCKS`, blocks, values |
| | `LogIsAtomic` | `AtomicCommit`: Log implements TxDisk | same |
| | `SyncIsDurable` | `[]SyncDurable` | same |
| `BufCacheProofs` | `ReferencesExact`, `SleepersAreWoken` | `[]RefcntExact`, `[]NoLostWakeup` | finite sets of processes and buffers, blocks, values, number of pins |
| | `CacheIsCoherent` | `Coherent`: BufCache implements BlockStore | same |
| `VirtioDiskProofs` | `DescriptorsExact`, `CompletionsNoticed` | `[]ChainsExact`, `[]NoLostWakeup` | processes, buffers, values, `NUM >= 3`, index width that `NUM` divides, start of the indices |
| | `DriverIsDisk` | `IsDisk`: VirtioDisk implements DiskService | same |
| `SchedProofs` | `SwitchNeverPanics`, `OneStack`, `ContextSafe`, `InterruptsTravel`, `ScanIsQuiet` | `[]NoPanic`, `[]OneStackOneHart`, `[]ContextIsSaved`, `[]InterruptsRestored`, `[]QuietScan` | set of harts, size of the table |
| `ProcProofs` | `NoOrphans`, `ChildExitIsSeen` | `[]ParentCanWait`, `[]NoLostChildExit` | size of the table, harts, statuses, targets of kill |
| `PipeProofs` | `WakeupsReach`, `EndOfFile` | `[]NoLostWakeup`, `ZeroIsEndOfFile` (an action property) | readers, writers, `PIPESIZE`, index width that it divides |
| | `PipeIsFifo` | `IsFifo`: Pipe implements Fifo | same |
| `ConsoleProofs` | `NoWriteLost` | `[]NoByteLost` | processes, workload, `CHUNK`, `INPUT_BUF_SIZE`, index width that it divides |
| | `ConsoleIsLineInput` | `IsLineInput`: Console implements LineInput | same |
| `FileTableProofs` | `FileRefsExact`, `NoOpInOp` | `[]RefsExact`, `[]NoNestedOp`, of `FileSpec` | finite set of processes, `NFILE`, `NOFILE`, pages, `PIPESIZE`, file size; any programs |

Counting.  The provers are slow, or fail, on a leaf with the theorems on finite
sets around it.  `LogProofs` and `FileTableProofs` therefore state the few facts
about `Cardinality` they use as a predicate `Counting`, which their lemmas take as
a hypothesis; the last section instantiates FiniteSetTheorems and proves it, so
no theorem rests on it.

**Log.**  The assumption is strict (`OpBlocks < MAXOPBLOCKS`) because `log_write`
tests `lh.n >= LOGBLOCKS` before it looks for a slot to absorb into: an operation
that filled its reservation and writes one of its blocks again would panic.
`IInv` has four parts.  `TypeOK`.  `Control`: at most one process is in `commit`,
and then no operation is open.  `Space`: count one token for every block an open
operation may still log; log length plus tokens never exceeds `LOGBLOCKS`.  That
is what `begin_op` maintains but does not say, since it counts a whole
`MAXOPBLOCKS` for an operation that has logged some of its blocks already.
`Data`: which of home block, log block and cache agree at each point of `commit`
and of recovery, in five named parts (`Headers`, `AtBoot`, `Installed`, `Logged`,
`PinsFit`) of which a step usually needs one or two; it needs that the header
lists no block twice, that a pin count is one exactly for blocks not yet
installed, and that outside of installation the header on disk is empty.  The
refinement needs the same invariant and shows that `write_head` is the only step
that TxDisk sees as a commit.  `SyncDurable` needs in addition (`SInv`) what a
process inside `sys_sync` may still be owed and by which commit.

**BufCache.**  `refcnt` is the number of processes with the buffer plus its pin
(`Refs`), and a process between `bget` and `brelse` has the buffer of its block
(`Callers`), whose sleep-lock is its own inside `bread` .. `releasesleep`
(`Locks`), so `bwrite` and `brelse` do not panic.  When `bget` does, a counting
lemma (`NoneUnused`) shows that the processes inside and the pins are at least as
many as the buffers (`Panics`).  Coherence needs that a block has
one buffer (`OneBuffer`) and that a buffer that differs from the disk is pinned
(`Clean`), so that eviction loses nothing.

**VirtioDisk.**  The invariant follows a request by the head of its chain: the
descriptors are filled as `fill` left them until `free_chain` (`Filled`), entries
of the avail ring that the device has not taken are distinct heads of unanswered
requests (`Avail`), what the device has taken is exactly the request of a call
(`Taken`), and entries of the used ring that the handler has not seen are
distinct heads of answered requests whose buffers are still marked (`Used`).
That each of these is one of at most `NUM` heads, less the two others of its
chain, bounds what is between two ring indices, so a slot is never overwritten
before it is read and equal indices mean an empty ring although both wrap
(`SlotInjective`, `AvailRoom`, `UsedRoom`).  The counting itself (`Room`, from the
theorems on finite sets) comes last: the lemmas on the rings take its statement
`HeadsFit` as an assumption, which `NextInv` and `RefNext` discharge.

**Sched.**  A hart holds a process's lock exactly between the two ends of a
switch (`Locks`), whichever thread it is on; the interrupt state of a thread is
at each point in the flag, in `intena` or in the local of `sched` (`Interrupts`).

**Proc.**  A process past `reparent` has no children (`Family`), the entry that
`kfork` took is nobody else's (`Births`), and between the wakeup in `kexit` and
`ZOMBIE` the parent does not sleep because `wait_lock` is held (`Exits`).

**Pipe.**  While the pipe lock is held the buffer may already have changed, so
the invariant names who owes the wakeup: a reader that is copying or a writer
that has put bytes.  For Fifo the invariant adds (`FifoInv`) that the indices are
at most `PIPESIZE` apart (`RingInv`) and which ends are still open for whom
(`EndsInv`).  The queue is what the ring holds from one index to the other
(`Held`); `HeldPut` and `HeldTake` say that moving an index by one, also past the
wrap, appends or takes one byte and leaves the others, which needs that
`PIPESIZE` divides the range of the indices.

**Console.**  `uartputc_sync` in the handler and `uartwrite` in a process write to
the UART with no lock between them, each after it saw the transmitter idle.
`Transmitter` counts who has yet to write: the FIFO holds one byte at most while
one of them is about to write and none while both are, so neither byte is lost.
For LineInput, the echo of a character is several steps after the test for room
and before the store; `Editing` says that the room is still there and that the
indices r, w, e are in order.  The two sequences of LineInput are read off the
ring as in Pipe, and an erase or a kill moves `e` back and leaves the ring alone.

**FileTable.**  `RefsExact` alone is not inductive: which files a process refers to
depends on where in `open`, `pipe` or `close` it is.  `IInv` has `Types`; `Exact`,
the statement of RefsExact; and `Valid`, which says for each process what its
descriptors and its call may refer to: a descriptor has a file with a type, a
file without a type has one holder only, which is the call that took it, and a
close inside the transaction of `sys_open` has such a file, so it ends without
`iput` (`NoOpInOp`).  Counting is local: the references that process p has itself
are `Mine`, and `Exchange` says that a step of p changes a file's number of
holders by what it changes of `Mine`.  So each action is compared with the change
of `ref` it makes, and `AtMostAll` gives `ref >= 1` wherever `filedup` or
`fileclose` would panic.

Only model-checked:

* the liveness properties `CallsReturn`, `ClosedEndReturns`, `OrphanIsReaped`,
  `KillTakesEffect`, `RunnableRuns`, `WaitersServed` and `CommandsFinish`: fairness
  and ENABLED are outside the prover;
* `ParserExact`: the parser and its grammar are recursive operators;
* `PagesOwned` and `IsAddrSpace`: the loops of `vm.c` are folds over sequences of
  pages, and what a fold computes for every input needs induction over data; the
  same holds for the image that `Mkfs` builds and the loops of `FileData`
  (`NoPanic`, `BlocksOwned`, `ReadBack`, `ReadIsExact`);
* `Wired`: a process of Shell is a script that recursive operators make of the
  tree that the recursive parser made;
* the invariants of FileSys (`RefsExact`, `LinkCountsExact`, `RefKeepsInode`,
  `NoLeak`, `CallsGoOn`): not proved.  A thread is a stack of continuations, and an
  inductive invariant would say for every stack what each of its callers still
  holds, and
  `CallsGoOn` says of a step that it is ENABLED.

## What is not modelled

* Register-level set-up (`start.c`, `plic.c`, the init functions of the drivers),
  assembly entry code, formatting (`printk.c`, `user/printf.c`) and byte copies
  (`string.c`): no protocol state.
* User programs other than init, sh, echo and cat: clients of the modelled calls,
  tests and benchmarks; `umalloc.c` and `ulib.c` are sequential and without
  protocol state.
* Threads, swap, mmap, snapshots, RCU and scheduler activations: design notes only.
* `exec`, `fork` and `exit` as users of inodes (their `namei`, `idup` and `iput` are
  those of FileSys), `copyinstr`, the kernel's own page table, `stati`.
* Wrap-around of `nextpid`, `ticks` and `ncommit` (2^31 steps).
* The memory model below spin-locks: `__sync_lock_test_and_set` is taken as
  atomic and ordered, which is what its fences provide.
