# A TLA+ model of the xv6 kernel

The repository is xv6-riscv, a small Unix kernel for RISC-V multiprocessors,
with a few user programs written as exercises. This directory specifies the
concurrent and crash-prone parts of the kernel in TLA+, checks them with TLC
and proves theorems about the log with TLAPS.

## 1. The system

| part | source | what it does | interacts with |
|---|---|---|---|
| log | kernel/log.c | groups the block writes of file-system calls and makes them atomic across crashes | buffer cache, disk |
| buffer cache | kernel/bio.c, sleeplock.c | one locked, shared copy of each disk block, recycled in LRU order | log, disk driver |
| disk driver | kernel/virtio_disk.c | descriptor chains and two rings shared with the virtio device | cache, interrupts |
| names, inodes, files | kernel/fs.c, sysfile.c, file.c | inode cache, directories, path names, descriptors | log, cache |
| pipes | kernel/pipe.c | bounded byte queue between processes | sleep/wakeup, file table |
| console | kernel/console.c, uart.c | line editing, input and output buffers of the serial port | sleep/wakeup, interrupts |
| processes | kernel/proc.c | fork, exit, wait, kill, scheduler, sleep/wakeup | everything |
| memory | kernel/kalloc.c, vm.c, exec.c | free pages, three-level page tables, exec | processes |
| spinlocks, traps, dispatch, boot, PLIC, printf, strings | kernel/*.c, *.S | | |
| user programs, mkfs, tests | user/, mkfs/ | | |

Two mechanisms run through all of it. A *spinlock* makes a section atomic, so
such a section is one action here, unless the code takes a second lock inside
it, another actor (a device) does not respect the lock, or the lock is held
across a wait. *sleep(chan, lk)* gives up `lk` and waits; *wakeup(chan)* makes
all sleepers of a channel runnable. Every module that waits has a "no lost
wakeup" property.

`PROJECT.json` lists every part, also those that are not modelled, the hazards
of each with the line where they bite, and the source lines of each definition.

## 2. Modules

| module | models | abstract specification |
|---|---|---|
| `Log` | log.c; the cache and the disk as far as log.c sees them | `AtomicDisk` |
| `Bcache` | bio.c, sleeplock.c | `BlockStore` |
| `Virtio` | virtio_disk.c and the device | |
| `Fs` | fs.c above blocks, sysfile.c, the file table of file.c | |
| `FileData` | blocks and contents of files: the rest of fs.c, read and write of file.c, open with O_TRUNC | `Files` |
| `Pipe` | pipe.c, with sleep, wakeup and kill of proc.c | `Fifo` |
| `Console` | console.c, uart.c | `Tty` |
| `Proc` | proc.c: fork, exit, wait, kill, scheduler | |
| `Memory` | kalloc.c, vm.c, exec.c, growproc and page tables of proc.c | |
| `LogSpaceProofs` | theorems about `Log` | |
| `MC*` | instances for TLC (symmetry sets, sets of calls) | |

In each module the state comes first, then one action per step of the code,
named after the function; a function that waits, or that other actors can
interrupt, is split at those points and its parts are named after what they do
(`exit_lock_parent`, `read_sleep`). A definition `name_Variant` that comes just
before `name` is the same code with a plausible mistake; it is not used by any
specification and exists to show that a property can fail.

**Log.** Disk (`disk`, `dlog`, `dhead`), cache (`buf`, `refcnt`, `holder`) and
memory (`lh`, `outstanding`, `committing`). A call is `begin_op`, any number of
`modify`/`log_write`, `end_op`; the last `end_op` runs the commit: `write_log`,
`write_head`, `install_trans`, `clear_head`, `finish`, one disk write per
action. `crash` can happen anywhere, loses the memory, may tear the block being
written, and is followed by recovery step by step, which can crash again.
`evict` is bget() recycling an unused buffer.

**Bcache.** bget() in one step under bcache.lock, then acquiresleep() of the
buffer, the transfer, brelse(). log.c appears as pins. bget() is disabled where
it would panic for want of a buffer.

**Virtio.** The driver's table and rings with the 16-bit counters wrapping
around, three descriptors per request, a device that takes requests in order
and finishes them in any order, and the handler that reads the used ring while
the device goes on adding to it. kill() may wake a sleeper at any time; it finds
b->disk still set and sleeps again. `NoLostWakeup` says what a sleeper can count
on: its request is in the avail ring or in the device, or its completion is in
the part of the used ring that the handler has still to read; and who waits for
descriptors does so while fewer than three are free.

**Fs.** Inodes on disk and in the cache, link and reference counts, directory
entries, open files. Calls walk paths with namex() one inode lock at a time;
every iput() is a step, three when it frees the inode: the test under icache.lock,
itrunc() to releasesleep(), and the count under icache.lock again. `stale` marks a
process that has just followed the ".." of a removed directory, the one way to an
inode that may be free.

**FileData.** The free map, the cells of the blocks, inodes in memory and on the
disk, and the offsets of open files. One block of readi(), writei() or itrunc()
is one step, under the lock of the inode; the program's buffer may end in memory
that is not there, and then the copy fails after bmap() has allocated. A cell has
the size of a block number, so one kind of block serves as data and as indirect
block, and a reused block that was not zeroed would be misread. What a failing
copy has left in a buffer is in `data`, where readers find it; since it is not
logged, `under` keeps what the log or the disk has, and `recycle` (bget() taking
the buffer for another block) brings that back. If the block is in the log of a
transaction that is not committed (`pins`), the cells are committed with it; if a
later write logs the block, they stay too. The abstract write happens when the
inode is locked: the refinement mapping shows the file with the piece that is
being written already in place. `Files` has both views, `contents` as programs
read it and `stored` without the cells that may be lost: the two differ only in
cells of failed writes, and these may be kept or lost at any time.

**Pipe, Console.** pi->lock, cons.lock and uart_tx_lock are variables, and one
byte moves per step. In the console the interrupt handler is one more actor
that takes cons.lock, echoes without uart_tx_lock, and then feeds the
transmitter.

**Proc.** The locks of the processes are variables, because exit() holds up to
three of them while it waits for the next. reparent() and wait() look at one
slot per step without its lock, as the code does. What user programs may do is a
parameter: `world`, chosen in the initial state, says how many slots there are,
which pids may fork which, who calls wait() and exit(), who is killed and which
failures happen.

**Memory.** Each kalloc() is a step, and any of them can find no page. Freed
pages are counted by the loops of the code (from sizes), not by what is mapped,
so a size that disagrees with the page table shows up as a wrong count.

## 3. What the runs check

| run | instance | shows |
|---|---|---|
| log_crash | 2 calls, 2 blocks, crashes *or* recycled buffers | `AtomicDiskSpec`: after any crash the disk is what it was after some group commit; `WriteAhead`; `TypeOK` |
| log_live | 3 calls, log with room for 2 reservations, fair | `NoPanic`, `NoLostWakeup`, `SleeperWoken` |
| log_unpinned | crashes *and* recycled buffers | `LoggedPinned` fails (finding) |
| bcache | 2 processes, 4 blocks, 3 buffers, 1 pin | `BlockStoreSpec`, exact reference counts, one buffer per block, no lost wakeup |
| virtio | 4 processes, 8 descriptors (room for 2 requests), counters modulo 16 | descriptors are conserved; a finished request was served; the device only sees live requests; no sleeper is forgotten |
| fs | 2 processes, 3 inodes, 1 file, 11 calls in a small tree with a directory in a directory and ".." | exact references; names, open files and current directories keep their inodes; no deadlock; no consistency panic but the one over a stale ".." |
| file_data | 2 processes, 2 files, 2 open files, 5 blocks of 2 cells, 1 direct block, 3 calls | every allocated block is in one place; a transaction logs at most MAXOPBLOCKS - 2 blocks and a read none; `FileSpec` |
| pipe | 1 writer, 2 readers of which one can be killed, ring of 2, counters modulo 4, fair | `FifoSpec`, real end of file, no use after free, no lost wakeup, sleepers are woken |
| console | 1 reader, 1 writer, buffers of 3, indices modulo 6 | `TtySpec`, reads end at a line, no lost wakeup, output in order and never stuck |
| proc | 3 slots, 4 pids, every call, fork and wait failing, one pid killed; and 4 slots, 5 pids in a line; fair | nobody is orphaned, unlocked reads of `parent` are stable, stacks in use are not reused, no lost wakeup, exit() ends or exits wait for each other in a cycle |
| proc_cycle | 4 slots, 5 pids in a line | `NoLockCycle` fails (finding) |
| memory | 2 processes, 20 pages, radix 3, pages of 2 parts | no page is lost or freed twice; the mapped pages are those p->sz says |

**Bounds.** They are chosen so that the interesting cases happen: the pipe, the
console and the virtio rings fill up, empty and wrap around several times; the
log fills to its reservation limit and calls have to wait; there are more blocks
than buffers; the third process waits for descriptors; memory ends in the middle
of each call, for each kalloc() of it, and an address space spans two page-table
pages. In FileData a write may be aligned or not, need two transactions, fail
half way or be refused, and two files compete for the blocks; MAXOPBLOCKS is 8,
where the transaction of a write that is not aligned just fits; MaxCalls bounds
the calls of a behaviour, enough for a write, one that fails over it and a third
call beside them. unsigned int wraps at 64 there, beyond every offset, so that a
negative length of read() is a large one. Three slots are the smallest table with
a grandchild. A lock cycle of exits needs four, in a line of generations; with
every call allowed four slots are out of reach, so `proc` has both worlds, and
`ExitCompletes` admits the cycle that proc_cycle finds and nothing else. Symmetry
is used for processes, inodes, blocks and byte values that are interchangeable,
only for safety properties.

**Deadlock** is checked except in `Fs`, `FileData`, `Proc`, `Console` and `Memory`, where
programs may stop: no call left to make, all pids given out, or (Console,
FileData, Fs, Memory) a kernel that has panicked.

**Fairness.** Weak fairness stands for the scheduler: a runnable kernel thread
runs again (scheduler() goes round the table on every hart). Strong fairness
stands for a spinlock that becomes free again and again, and for conditions
such as "no commit is running" that come and go. In `Log`, `end_op` is strongly
fair and the other steps of a call and recovery weakly; nothing makes a process
begin a new call. In `Pipe` the programs go on calling read() and write() or
close their ends; without that a reader may of course sleep for ever. In
`Proc` the steps of exit() and wait() and the scheduler are strongly fair; user
programs need not do anything.

## 4. What is proved

`LogSpaceProofs` proves, for any finite sets of processes and blocks, any
contents, any sizes and all faults,

* `TypeCorrect`: Sized /\ Spec => []TypeOK; the header in memory and on the
  disk fits the log area and names a block once;
* `NeverPanics`: Sized /\ Spec => []NoPanic; no call runs out of log space;
* `WakeupsReachEveryone`: Sized /\ Spec => []NoLostWakeup; nobody sleeps in
  begin_op() for a reason that is gone.

The assumption `Sized` says that a call leaves two blocks of its reservation
MAXOPBLOCKS unused and that the log area has LOGSIZE blocks, header included,
as mkfs makes it. It is needed. begin_op() reserves LOGSIZE data blocks, but
log_write() panics at log.size - 1, which is LOGSIZE - 1; and it tests the size
before it looks whether the block is already in the log. So a group of calls
that use their whole reservation, the last of them rewriting a logged block,
does reach "too big a transaction". (param.h:10 calls LOGSIZE the "max data
blocks in on-disk log".) The calls of the kernel stay below: filewrite() limits
itself to (MAXOPBLOCKS-1-1-2)/2 blocks of data per transaction, and `TransFits`
of `FileData` checks that this leaves the two blocks, as long as the free map is
one block (FSSIZE <= BPB; with more of them, more blocks are logged).

The inductive invariant is `Space` = types, `FlowInv` and `SpaceInv` of `Log`.
NoPanic is not inductive: that log_write() has room follows from
`Len(lh) + Cardinality(Reserved) <= LOGSIZE`, where `Reserved` is the set of
blocks that active calls have reserved and not used. That sum grows only in
begin_op(), which tests it (with the whole MAXOPBLOCKS for each outstanding
call, an upper bound), and log_write() moves one unit from `Reserved` to `lh`.
It needs `outstanding = Cardinality(Active)`, that calls and a commit exclude
each other, and that a commit ends with an empty log: this is `FlowInv`. For
the wakeups one shows that `MustWait` can only become false in end_op() and
finish, which wake everybody. `IInv` adds `DiskInv` and `CacheInv`, what is on
the disk and in the cache in each phase; they are for the refinement proof.

Only model-checked, and out of reach of the prover: liveness (`SleeperWoken`,
`SleepersWoken`, `ExitCompletes`). Not proved yet: the refinements, and all of
the other modules.

## 5. Findings

* **Recovery leaves a wrong reference count** (`log_unpinned`). install_trans()
  unpins buffers, in recovery too, where nothing pinned them; the count wraps,
  and a later pin brings it to 0, so bget() may recycle a logged block. For this
  reason log_crash has crashes or recycled buffers, not both.
* **exit() can deadlock** (`proc_cycle`). The comment at proc.c:366 expects a
  "harmless spurious wakeup" from a stale copy of the parent; but the copy is
  locked, and when its slot has been reused for a grandchild two exits wait for
  each other.

Seen in the models and not claimed otherwise by any property:

* ".." of a removed directory: rmdir takes the link that ".." holds on the
  parent but leaves the entry. A process in there can go to the parent after that
  was freed too: panic "ilock: no type" (mkdir /d, mkdir /d/a, chdir /d/a, unlink
  /d/a, unlink /d, chdir ".."). `NoPanic` of `Fs` says that no other path leads
  to a freed inode.
* writei() returns n also when the copy failed, so write() from a buffer that is
  not there reports success if it fits one transaction, and the offset is then
  beyond the end of the file, where every later write is refused. (The test at
  usertests.c:40 expects -1 and gets it, since it writes 8192 bytes.)
* What copyin() copied before it failed is in the buffer but not logged; readers
  see it until the buffer is recycled, or it is logged with a later write. So a
  file may change without a write; `FileSpec` allows this for those cells only.
* virtio_disk_intr() acknowledges after its loop; a completion in between is
  acknowledged unseen and its process sleeps until the next request ends
  (`NoLostWakeup` says that the handler will then find it, not that it will run).
* A byte that piperead() cannot copy out is gone (pipe.c:121).
* uartputc() sleeps on a full buffer ("blocks if the output buffer is full",
  uart.c:82) although consolewrite() holds cons.lock, and sched() panics. With a
  UART that keeps up the buffer never fills. `Console` stops there.
* kill() between a test of `killed` and the sleep() after it wakes nobody.
* init may miss the wakeup for a zombie it inherits (accepted at proc.c:357).
* A slot that allocproc() gave up keeps a pid, and kill() can mark it.
* create() in a directory that was removed meanwhile leaves an inode that is
  never freed.

## 6. Not modelled

The copies between user and kernel
(copyin, copyout, copyinstr), the NINODE limit, mknod and fstat, ticks and
sys_sleep, interrupt nesting (push_off), the kernel's own page table, printf,
boot, assembly, user programs and mkfs. Device registers and formatting are
left out on purpose: no property is about them. printf() on another hart
writes the UART without any lock and can lose a character; this race is not in
`Console`.

## 7. Plan

1. `UserCopy`: copyin, copyout and copyinstr as recursive functions, against a
   byte-wise reference; argument passing of exec().
2. `Spinlock`: push_off/pop_off, interrupts and sched(), with the tick counter
   and sys_sleep.
3. Composition: `Bcache` under `Log` (the pins and evictions of `Log` are those
   of `Bcache`), `Virtio` under `Bcache`.
4. User programs: the pipelines of primes.c and pingpong.c over `Fifo`; the free
   list of umalloc.c; the parser of sh.c.
5. Proofs: `Log`: DiskInv and CacheInv, then WriteAhead and the refinement of
   `AtomicDisk`; `Pipe`: NoLostWakeup and NotUsedAfterFree; `Bcache`:
   RefcntExact and one buffer per block; `Proc`: ParentAlive; `Virtio`:
   DescConserved; `Memory`: PagesConserved; `FileData`:
   BlocksExact and TransFits.
