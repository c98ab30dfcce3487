---------------------------------- MODULE Log ----------------------------------
(***************************************************************************)
(* The write-ahead redo log of kernel/log.c, over the disk and the buffer  *)
(* cache as log.c uses them, with power failures at any point (also during *)
(* recovery, also in the middle of a block write) and with buffers that    *)
(* kernel/bio.c recycles.                                                  *)
(*                                                                         *)
(* Grain: a section under log.lock is one action; a disk write is one      *)
(* action.  Blocks of the log area and the header are written through, so  *)
(* their cached copies always equal the disk and only the disk is kept.    *)
(***************************************************************************)
EXTENDS Integers, Sequences, FiniteSets

CONSTANTS
  Proc,         \* processes that make file system calls
  Block,        \* home blocks (everything outside the log area)
  Data,         \* contents a caller may give a block
  MAXOPBLOCKS,  \* param.h: blocks one call may write
  LOGSIZE,      \* param.h: data blocks in the log
  NLOG,         \* superblock nlog (log.size), header included
  OpBlocks,     \* distinct blocks one call really writes, at most
  UINT,         \* modulus of the uint buf.refcnt (2^32 in the code)
  FaultSets,    \* sets of faults, "crash" or "evict", that may happen together
  NoProc, NoData

ASSUME LogAssumption ==
  /\ MAXOPBLOCKS \in Nat \ {0}
  /\ LOGSIZE \in Nat /\ MAXOPBLOCKS <= LOGSIZE
  /\ NLOG \in Nat /\ NLOG > 1
  /\ OpBlocks \in 1..MAXOPBLOCKS
  /\ UINT \in Nat /\ UINT > 2
  /\ IsFiniteSet(Proc) /\ IsFiniteSet(Block)
  /\ NoProc \notin Proc
  /\ NoData \notin Data
  /\ FaultSets \subseteq SUBSET {"crash", "evict"}

VARIABLES
  \* on the disk
  disk,         \* home blocks; NoData is a torn block
  dlog,         \* data blocks of the log area
  dhead,        \* logheader: block[0..n-1]
  \* in memory
  buf,          \* cached contents of a home block; NoData when not cached
  refcnt,       \* buf.refcnt of the buffer caching the block
  holder,       \* owner of that buffer's sleep-lock
  lh,           \* log.lh: block[0..n-1]
  outstanding,  \* log.outstanding
  committing,   \* log.committing
  tail,         \* loop variable of write_log() and install_trans()
  pc,           \* where a process is in begin_op/log_write/end_op/commit
  wrote,        \* blocks a process has logged in its current call
  boot,         \* progress of recover_from_log(); "up" once it returned
  panic,        \* argument of panic(), "none" while there was none
  \* in the environment
  faults        \* the faults of this behaviour

diskVars == <<disk, dlog, dhead>>
cacheVars == <<buf, refcnt, holder>>
logVars == <<lh, outstanding, committing, tail>>
vars == <<disk, dlog, dhead, buf, refcnt, holder, lh, outstanding, committing,
          tail, pc, wrote, boot, panic, faults>>

LogArea == 1..(NLOG - 1)
Logged(s) == {s[i] : i \in DOMAIN s}

\* buf.refcnt++ and buf.refcnt--, by bget() and brelse(), bpin() and bunpin().
bget_ref(n) == (n + 1) % UINT
brelse_ref(n) == (n - 1) % UINT
bpin_Missing(n) == n
bpin(n) == (n + 1) % UINT
bunpin(n) == (n - 1) % UINT

\* bread(): the cached contents, or those of the disk.
View(b) == IF buf[b] = NoData THEN disk[b] ELSE buf[b]

Running == boot = "up" /\ panic = "none"
Goto(p, label) == pc' = [pc EXCEPT ![p] = label]

\* wakeup(&log): every process asleep in begin_op() runs its loop again.
\* The caller p moves to label in the same section.
WakeupAndGoto_NoWakeup(p, label) == Goto(p, label)
WakeupAndGoto(p, label) ==
  pc' = [q \in Proc |-> IF q = p THEN label
                        ELSE IF pc[q] = "asleep" THEN "begin" ELSE pc[q]]

\* mkfs writes an image with an empty log; the machine then boots.
Init ==
  /\ disk \in [Block -> Data]
  /\ dlog = [i \in LogArea |-> NoData]
  /\ dhead = <<>>
  /\ buf = [b \in Block |-> NoData]
  /\ refcnt = [b \in Block |-> 0]
  /\ holder = [b \in Block |-> NoProc]
  /\ lh = <<>> /\ outstanding = 0 /\ committing = 0 /\ tail = 1
  /\ pc = [p \in Proc |-> "user"]
  /\ wrote = [p \in Proc |-> {}]
  /\ boot = "read_head"
  /\ panic = "none"
  /\ faults \in FaultSets

--------------------------------------------------------------------------------
\* File system calls.

MustWait_OffByOne ==
  committing = 1 \/ Len(lh) + outstanding * MAXOPBLOCKS > LOGSIZE
MustWait == committing = 1 \/ Len(lh) + (outstanding + 1) * MAXOPBLOCKS > LOGSIZE

begin_op(p) ==
  /\ Running /\ pc[p] \in {"user", "begin"}
  /\ \/ MustWait /\ Goto(p, "asleep") /\ UNCHANGED <<outstanding, wrote>>
     \/ /\ ~MustWait
        /\ outstanding' = outstanding + 1
        /\ wrote' = [wrote EXCEPT ![p] = {}]
        /\ Goto(p, "op")
  /\ UNCHANGED <<diskVars, cacheVars, lh, committing, tail, boot, panic, faults>>

\* A call reads a block without changing it: bread(), brelse().
read_block(b) ==
  /\ Running /\ holder[b] = NoProc /\ buf[b] = NoData
  /\ buf' = [buf EXCEPT ![b] = disk[b]]
  /\ UNCHANGED <<diskVars, refcnt, holder, logVars, pc, wrote, boot, panic, faults>>

\* bread(), a change of b->data, and the checks log_write() makes before it
\* takes log.lock.
modify(p, b, v) ==
  /\ Running /\ pc[p] = "op" /\ holder[b] = NoProc
  /\ Cardinality(wrote[p] \cup {b}) <= OpBlocks
  /\ buf' = [buf EXCEPT ![b] = v]
  /\ refcnt' = [refcnt EXCEPT ![b] = bget_ref(@)]
  /\ holder' = [holder EXCEPT ![b] = p]
  /\ IF Len(lh) >= LOGSIZE \/ Len(lh) >= NLOG - 1
     THEN panic' = "too big a transaction" /\ UNCHANGED pc
     ELSE IF outstanding < 1
     THEN panic' = "log_write outside of trans" /\ UNCHANGED pc
     ELSE Goto(p, "dirty") /\ UNCHANGED panic
  /\ UNCHANGED <<diskVars, logVars, wrote, boot, faults>>

\* Log absorption: the block already has a slot in the log.
Absorbed_Never(b) == FALSE
Absorbed(b) == b \in Logged(lh)

\* The locked part of log_write(), and the brelse() that follows it.
log_write(p, b) ==
  /\ Running /\ pc[p] = "dirty" /\ holder[b] = p
  /\ IF Absorbed(b)
     THEN refcnt' = [refcnt EXCEPT ![b] = brelse_ref(@)] /\ UNCHANGED lh
     ELSE /\ refcnt' = [refcnt EXCEPT ![b] = brelse_ref(bpin(@))]
          /\ lh' = Append(lh, b)
  /\ holder' = [holder EXCEPT ![b] = NoProc]
  /\ wrote' = [wrote EXCEPT ![p] = @ \cup {b}]
  /\ Goto(p, "op")
  /\ UNCHANGED <<diskVars, buf, outstanding, committing, tail, boot, panic, faults>>

end_op(p) ==
  /\ Running /\ pc[p] = "op"
  /\ outstanding' = outstanding - 1
  /\ IF committing = 1
     THEN panic' = "log.committing" /\ UNCHANGED <<committing, tail, pc>>
     ELSE /\ UNCHANGED panic
          /\ IF outstanding = 1
             THEN /\ committing' = 1 /\ tail' = 1
                  /\ Goto(p, IF lh = <<>> THEN "finish" ELSE "write_log")
             ELSE WakeupAndGoto(p, "user") /\ UNCHANGED <<committing, tail>>
  /\ UNCHANGED <<diskVars, cacheVars, lh, wrote, boot, faults>>

--------------------------------------------------------------------------------
\* commit(), run by the process whose end_op() was the last one.

write_log(p) ==
  /\ Running /\ pc[p] = "write_log"
  /\ LET from == lh[tail] IN
       /\ dlog' = [dlog EXCEPT ![tail] = View(from)]
       /\ buf' = [buf EXCEPT ![from] = View(from)]
  /\ tail' = tail + 1
  /\ IF tail = Len(lh) THEN Goto(p, "write_head") ELSE UNCHANGED pc
  /\ UNCHANGED <<disk, dhead, refcnt, holder, lh, outstanding, committing,
                 wrote, boot, panic, faults>>

write_head_Forgotten(p) ==
  /\ Running /\ pc[p] = "write_head"
  /\ tail' = 1
  /\ Goto(p, "install_trans")
  /\ UNCHANGED <<diskVars, cacheVars, lh, outstanding, committing, wrote, boot,
                 panic, faults>>

write_head(p) ==
  /\ Running /\ pc[p] = "write_head"
  /\ dhead' = lh
  /\ tail' = 1
  /\ Goto(p, "install_trans")
  /\ UNCHANGED <<disk, dlog, cacheVars, lh, outstanding, committing, wrote,
                 boot, panic, faults>>

\* One round of install_trans(): the bread/brelse pair leaves refcnt alone,
\* bunpin() takes one away.
Install ==
  LET b == lh[tail] IN
    /\ disk' = [disk EXCEPT ![b] = dlog[tail]]
    /\ buf' = [buf EXCEPT ![b] = dlog[tail]]
    /\ refcnt' = [refcnt EXCEPT ![b] = bunpin(@)]
    /\ tail' = tail + 1

install_trans(p) ==
  /\ Running /\ pc[p] = "install_trans"
  /\ Install
  /\ IF tail = Len(lh) THEN Goto(p, "clear_head") ELSE UNCHANGED pc
  /\ UNCHANGED <<dlog, dhead, holder, lh, outstanding, committing, wrote, boot,
                 panic, faults>>

\* log.lh.n = 0; write_head().
clear_head(p) ==
  /\ Running /\ pc[p] = "clear_head"
  /\ lh' = <<>>
  /\ dhead' = <<>>
  /\ Goto(p, "finish")
  /\ UNCHANGED <<disk, dlog, cacheVars, outstanding, committing, tail, wrote,
                 boot, panic, faults>>

finish_NoWakeup(p) ==
  /\ Running /\ pc[p] = "finish"
  /\ committing' = 0
  /\ Goto(p, "user")
  /\ UNCHANGED <<diskVars, cacheVars, lh, outstanding, tail, wrote, boot, panic,
                 faults>>

finish(p) ==
  /\ Running /\ pc[p] = "finish"
  /\ committing' = 0
  /\ WakeupAndGoto(p, "user")
  /\ UNCHANGED <<diskVars, cacheVars, lh, outstanding, tail, wrote, boot, panic,
                 faults>>

--------------------------------------------------------------------------------
\* recover_from_log(), run at boot before any file system call.

read_head ==
  /\ boot = "read_head"
  /\ lh' = dhead
  /\ tail' = 1
  /\ boot' = "install_trans"
  /\ UNCHANGED <<diskVars, cacheVars, outstanding, committing, pc, wrote, panic,
                 faults>>

recover_install ==
  /\ boot = "install_trans" /\ tail <= Len(lh)
  /\ Install
  /\ UNCHANGED <<dlog, dhead, holder, lh, outstanding, committing, pc, wrote,
                 boot, panic, faults>>

Recovered == boot = "install_trans" /\ tail > Len(lh)

recover_clear ==
  /\ Recovered
  /\ lh' = <<>>
  /\ dhead' = <<>>
  /\ boot' = "up"
  /\ UNCHANGED <<disk, dlog, cacheVars, outstanding, committing, tail, pc,
                 wrote, panic, faults>>

--------------------------------------------------------------------------------
\* The environment.

\* bget() recycles the buffer of b for some other block.  A buffer whose
\* sleep-lock is held is left to module Bcache.
evict(b) ==
  /\ "evict" \in faults
  /\ Running /\ buf[b] # NoData /\ refcnt[b] = 0 /\ holder[b] = NoProc
  /\ buf' = [buf EXCEPT ![b] = NoData]
  /\ UNCHANGED <<diskVars, refcnt, holder, logVars, pc, wrote, boot, panic, faults>>

\* The block write in flight when power fails may leave a torn block.  The
\* header is not torn: n and block[] lie in the first sector of the block.
WritingLog == boot = "up" /\ \E p \in Proc : pc[p] = "write_log"
Installing ==
  \/ boot = "up" /\ \E p \in Proc : pc[p] = "install_trans"
  \/ boot = "install_trans" /\ tail <= Len(lh)

crash ==
  /\ "crash" \in faults /\ panic = "none"
  /\ \/ UNCHANGED <<disk, dlog>>
     \/ WritingLog /\ dlog' = [dlog EXCEPT ![tail] = NoData] /\ UNCHANGED disk
     \/ Installing /\ disk' = [disk EXCEPT ![lh[tail]] = NoData] /\ UNCHANGED dlog
  /\ UNCHANGED dhead
  /\ buf' = [b \in Block |-> NoData]
  /\ refcnt' = [b \in Block |-> 0]
  /\ holder' = [b \in Block |-> NoProc]
  /\ lh' = <<>> /\ outstanding' = 0 /\ committing' = 0 /\ tail' = 1
  /\ pc' = [p \in Proc |-> "user"]
  /\ wrote' = [p \in Proc |-> {}]
  /\ boot' = "read_head"
  /\ UNCHANGED <<panic, faults>>

Commit(p) ==
  write_log(p) \/ write_head(p) \/ install_trans(p) \/ clear_head(p) \/ finish(p)

Recover == read_head \/ recover_install \/ recover_clear

Next ==
  \/ \E p \in Proc : begin_op(p) \/ end_op(p) \/ Commit(p)
  \/ \E p \in Proc, b \in Block : log_write(p, b)
  \/ \E p \in Proc, b \in Block, v \in Data : modify(p, b, v)
  \/ \E b \in Block : read_block(b) \/ evict(b)
  \/ Recover
  \/ crash

Spec == Init /\ [][Next]_vars

\* A started disk write completes and a woken process is scheduled; a file
\* system call makes finitely many log_write() calls before its end_op().
Fairness ==
  /\ WF_vars(Recover)
  /\ \A p \in Proc : /\ SF_vars(end_op(p))
                     /\ WF_vars(\/ pc[p] = "begin" /\ begin_op(p)
                                \/ Commit(p)
                                \/ \E b \in Block : log_write(p, b))

FairSpec == Spec /\ Fairness

--------------------------------------------------------------------------------
\* Properties.

LogHeader(s) ==
  /\ s \in Seq(Block) /\ Len(s) < NLOG
  /\ \A i, j \in DOMAIN s : s[i] = s[j] => i = j

\* Every variable stays in its type; in particular log.lh never outgrows the
\* log area and holds a block at most once (log absorption).
TypeOK ==
  /\ disk \in [Block -> Data \cup {NoData}]
  /\ dlog \in [LogArea -> Data \cup {NoData}]
  /\ LogHeader(dhead) /\ LogHeader(lh)
  /\ buf \in [Block -> Data \cup {NoData}]
  /\ refcnt \in [Block -> 0..(UINT - 1)]
  /\ holder \in [Block -> Proc \cup {NoProc}]
  /\ outstanding \in Nat /\ committing \in {0, 1} /\ tail \in 1..NLOG
  /\ pc \in [Proc -> {"user", "begin", "asleep", "op", "dirty", "write_log",
                      "write_head", "install_trans", "clear_head", "finish"}]
  /\ wrote \in [Proc -> SUBSET Block]
  /\ boot \in {"read_head", "install_trans", "up"}
  /\ panic \in {"none", "too big a transaction", "log_write outside of trans",
                "log.committing"}
  /\ faults \in FaultSets

\* None of the panics of log.c is reached: the space begin_op() reserves is
\* enough for every call that keeps to its share, and end_op() never finds a
\* commit under way.
NoPanic == panic = "none"

\* A process asleep in begin_op() is there for a reason that still holds: the
\* wakeup(&log) calls of end_op() miss no change that would let it in.
NoLostWakeup ==
  boot = "up" => \A p \in Proc : pc[p] = "asleep" => MustWait

\* A block in the log that is not yet at its home is kept in the cache: pinned
\* by log_write(), until install_trans() has written it.
Installed(i) == \E p \in Proc : \/ pc[p] = "install_trans" /\ i < tail
                               \/ pc[p] = "clear_head"
LoggedPinned ==
  boot = "up" =>
    \A i \in DOMAIN lh : Installed(i) \/ (refcnt[lh[i]] # 0 /\ buf[lh[i]] # NoData)

\* Write-ahead rule: a home block changes on the disk only while the header
\* on the disk names it, and then to the logged contents (or to a torn block
\* that recovery will overwrite).
WriteAhead ==
  [][\A b \in Block : disk'[b] # disk[b] =>
       \E i \in DOMAIN dhead : dhead[i] = b /\ disk'[b] \in {dlog[i], NoData}]_vars

\* What the disk holds once recovery has run: the blocks the header names
\* come from the log area, the others from their home.
Durable ==
  [b \in Block |->
     IF b \in Logged(dhead)
     THEN dlog[CHOOSE i \in DOMAIN dhead : dhead[i] = b]
     ELSE disk[b]]

Volatile == [b \in Block |-> IF boot = "up" THEN View(b) ELSE Durable[b]]

Active == {p \in Proc : pc[p] \in {"op", "dirty"}}

AD == INSTANCE AtomicDisk WITH durable <- Durable, volatile <- Volatile,
                               active <- Active

\* The log implements the atomic disk: crashes, torn writes, repeated recovery
\* and recycled buffers included, a group of calls reaches the disk whole or
\* not at all, and only while no call is in progress.
AtomicDiskSpec == AD!Spec

\* A process that begin_op() put to sleep is woken: the calls it waits for end
\* and the commit they trigger terminates.
SleeperWoken == \A p \in Proc : pc[p] = "asleep" ~> pc[p] # "asleep"

--------------------------------------------------------------------------------
\* The inductive invariant behind the theorems of LogSpaceProofs.

CommitPc == {"write_log", "write_head", "install_trans", "clear_head", "finish"}
Committers == {p \in Proc : pc[p] \in CommitPc}

\* Blocks that begin_op() has set aside and that are not used yet.
Reserved ==
  {x \in Active \X (1..MAXOPBLOCKS) : x[2] > Cardinality(wrote[x[1]])}

\* Blocks whose newest contents are only in the cache and the log.
Pending == {lh[i] : i \in {j \in DOMAIN lh : ~Installed(j)}}

\* Who is where: calls in progress and a commit exclude each other, there is
\* one committer, and nothing runs before recovery is over.
FlowInv ==
  /\ panic = "none"
  /\ boot # "up" => /\ pc = [p \in Proc |-> "user"] /\ committing = 0
                    /\ holder = [b \in Block |-> NoProc]
  /\ outstanding = Cardinality(Active)
  /\ committing = 1 => Active = {}
  /\ committing = 1 <=> Committers # {}
  /\ \A p, q \in Committers : p = q
  /\ \A p \in Proc : pc[p] \in {"write_log", "install_trans"} => tail \in DOMAIN lh
  /\ \A p \in Proc : pc[p] = "write_head" => lh # <<>>
  /\ \A b \in Block : holder[b] # NoProc => pc[holder[b]] = "dirty"
  /\ \A a, b \in Block : holder[a] = holder[b] /\ holder[a] # NoProc => a = b

\* The log never holds more than what was reserved and not given back.
SpaceInv ==
  /\ boot = "up" => Len(lh) + Cardinality(Reserved) <= LOGSIZE
  /\ boot = "up" /\ committing = 0 /\ Active = {} => lh = <<>>
  /\ boot = "up" /\ (\E p \in Proc : pc[p] = "finish") => lh = <<>>
  /\ \A p \in Active : /\ wrote[p] \subseteq Logged(lh)
                       /\ Cardinality(wrote[p]) <= OpBlocks
  /\ \A b \in Block : holder[b] # NoProc =>
       Cardinality(wrote[holder[b]] \cup {b}) <= OpBlocks

\* What is on the disk in each phase of commit and of recovery.
DiskInv ==
  /\ \A i \in DOMAIN dhead : dlog[i] \in Data
  /\ \A b \in Block : disk[b] \in Data \/ b \in Logged(dhead)
  /\ boot = "up" =>
       IF \E p \in Proc : pc[p] \in {"install_trans", "clear_head"}
       THEN dhead = lh ELSE dhead = <<>>
  /\ boot = "install_trans" =>
       /\ dhead = lh /\ tail \in 1..(Len(lh) + 1)
       /\ \A i \in DOMAIN lh : i < tail => disk[lh[i]] = dlog[i]
  /\ boot # "up" => \A b \in Block : buf[b] # NoData => buf[b] = disk[b]
  /\ \A p \in Proc : pc[p] = "write_log" =>
       \A i \in DOMAIN lh : i < tail => dlog[i] = buf[lh[i]]
  /\ \A p \in Proc : pc[p] \in {"write_head", "install_trans", "clear_head"} =>
       \A i \in DOMAIN lh : dlog[i] = View(lh[i])

\* Where the newest contents of a block are while the machine is up: in the
\* cache if the block is pending or being changed, on the disk otherwise.
CacheInv ==
  /\ boot = "up" => \A b \in Block :
       IF b \in Pending \/ holder[b] # NoProc
       THEN buf[b] # NoData
       ELSE disk[b] \in Data /\ View(b) = disk[b]
  /\ "evict" \in faults => (boot # "up" => dhead = <<>>)
  /\ "evict" \in faults => \A b \in Block :
       refcnt[b] = (IF boot = "up" /\ b \in Pending THEN 1 ELSE 0)
                   + (IF holder[b] # NoProc THEN 1 ELSE 0)

\* Everything log.c maintains, for calls that leave a margin of two blocks in
\* their reservation and without a crash before a recycled buffer.
IInv == TypeOK /\ FlowInv /\ SpaceInv /\ DiskInv /\ CacheInv
===============================================================================
