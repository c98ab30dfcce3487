-------------------------------- MODULE Bcache --------------------------------
(***************************************************************************)
(* The buffer cache of kernel/bio.c with the sleep-locks of                *)
(* kernel/sleeplock.c: bget(), bread(), bwrite(), brelse(), bpin() and     *)
(* bunpin() by several processes, over the NBUF buffers of the LRU list.   *)
(*                                                                         *)
(* Grain: a section under bcache.lock or under the spinlock of a sleep-    *)
(* lock is one action, a disk transfer is one action.                      *)
(***************************************************************************)
EXTENDS Integers, FiniteSets, SequencesExt

CONSTANTS
  Proc, Block, Data,
  NBUF,        \* param.h: number of buffers
  UINT,        \* modulus of the uint b->refcnt (2^32 in the code)
  MaxPin,      \* blocks log.c keeps pinned at a time, at most
  NoProc, NoBlock, NoData

Buf == 1..NBUF

ASSUME BcacheAssumption ==
  /\ NBUF \in Nat \ {0} /\ UINT \in Nat /\ UINT > 2 /\ MaxPin \in Nat
  /\ NoProc \notin Proc /\ NoBlock \notin Block /\ NoData \notin Data

VARIABLES
  blockno, valid, refcnt, data,   \* fields of the buffers
  holder,    \* b->lock: the process that has it, or NoProc
  lru,       \* the list from bcache.head.next to bcache.head.prev
  disk,
  pc,        \* where a process is in bread/brelse
  want,      \* argument of bread()
  cur,       \* the buffer bget() chose for a process
  pinned     \* blocks log.c has pinned

vars == <<blockno, valid, refcnt, data, holder, lru, disk, pc, want, cur, pinned>>

Inc(n) == (n + 1) % UINT
Dec(n) == (n - 1) % UINT
Goto(p, label) == pc' = [pc EXCEPT ![p] = label]

\* binit() puts every buffer at the head of the list.
Init ==
  /\ blockno = [s \in Buf |-> NoBlock]
  /\ valid = [s \in Buf |-> 0] /\ refcnt = [s \in Buf |-> 0]
  /\ data = [s \in Buf |-> NoData]
  /\ holder = [s \in Buf |-> NoProc]
  /\ lru = [k \in Buf |-> NBUF + 1 - k]
  /\ disk \in [Block -> Data]
  /\ pc = [p \in Proc |-> "idle"]
  /\ want = [p \in Proc |-> NoBlock] /\ cur = [p \in Proc |-> 0]
  /\ pinned = {}

--------------------------------------------------------------------------------
\* bget(), under bcache.lock.  It panics when every buffer is in use; here it
\* is disabled then.

Cached_Valid(b) == {s \in Buf : blockno[s] = b /\ valid[s] = 1}
Cached(b) == {s \in Buf : blockno[s] = b}
Unused == {s \in Buf : refcnt[s] = 0}

\* The least recently used of the unused buffers.
Lru == LET k == CHOOSE k \in Buf : /\ lru[k] \in Unused
                                   /\ \A j \in (k + 1)..NBUF : lru[j] \notin Unused
       IN lru[k]

bget(p, b) ==
  /\ pc[p] = "idle"
  /\ want' = [want EXCEPT ![p] = b]
  /\ \/ \E s \in Cached(b) :
          /\ refcnt' = [refcnt EXCEPT ![s] = Inc(@)]
          /\ cur' = [cur EXCEPT ![p] = s]
          /\ Goto(p, "lock")
          /\ UNCHANGED <<blockno, valid>>
     \/ /\ Cached(b) = {} /\ Unused # {}
        /\ blockno' = [blockno EXCEPT ![Lru] = b]
        /\ valid' = [valid EXCEPT ![Lru] = 0]
        /\ refcnt' = [refcnt EXCEPT ![Lru] = 1]
        /\ cur' = [cur EXCEPT ![p] = Lru]
        /\ Goto(p, "lock")
  /\ UNCHANGED <<data, holder, lru, disk, pinned>>

--------------------------------------------------------------------------------
\* acquiresleep(), the rest of bread(), bwrite()

acquiresleep(p) ==
  /\ pc[p] = "lock"
  /\ IF holder[cur[p]] # NoProc
     THEN Goto(p, "asleep") /\ UNCHANGED holder
     ELSE Goto(p, "locked") /\ holder' = [holder EXCEPT ![cur[p]] = p]
  /\ UNCHANGED <<blockno, valid, refcnt, data, lru, disk, want, cur, pinned>>

bread_IgnoreValid(p) ==
  /\ pc[p] = "locked"
  /\ data' = [data EXCEPT ![cur[p]] = disk[blockno[cur[p]]]]
  /\ valid' = [valid EXCEPT ![cur[p]] = 1]
  /\ Goto(p, "have")
  /\ UNCHANGED <<blockno, refcnt, holder, lru, disk, want, cur, pinned>>

bread(p) ==
  /\ pc[p] = "locked"
  /\ IF valid[cur[p]] = 0
     THEN /\ data' = [data EXCEPT ![cur[p]] = disk[blockno[cur[p]]]]
          /\ valid' = [valid EXCEPT ![cur[p]] = 1]
     ELSE UNCHANGED <<data, valid>>
  /\ Goto(p, "have")
  /\ UNCHANGED <<blockno, refcnt, holder, lru, disk, want, cur, pinned>>

\* The process changes b->data.
change(p, v) ==
  /\ pc[p] = "have"
  /\ data' = [data EXCEPT ![cur[p]] = v]
  /\ UNCHANGED <<blockno, valid, refcnt, holder, lru, disk, pc, want, cur, pinned>>

bwrite(p) ==
  /\ pc[p] = "have"
  /\ disk' = [disk EXCEPT ![blockno[cur[p]]] = data[cur[p]]]
  /\ UNCHANGED <<blockno, valid, refcnt, data, holder, lru, pc, want, cur, pinned>>

\* log_write() pins a block when it enters the log.
bpin(p) ==
  /\ pc[p] = "have"
  /\ want[p] \notin pinned /\ Cardinality(pinned) < MaxPin
  /\ pinned' = pinned \cup {want[p]}
  /\ refcnt' = [refcnt EXCEPT ![cur[p]] = Inc(@)]
  /\ UNCHANGED <<blockno, valid, data, holder, lru, disk, pc, want, cur>>

bunpin_Forgotten(p) ==
  /\ pc[p] = "have"
  /\ want[p] \in pinned /\ disk[want[p]] = data[cur[p]]
  /\ pinned' = pinned \ {want[p]}
  /\ UNCHANGED <<blockno, valid, refcnt, data, holder, lru, disk, pc, want, cur>>

\* install_trans() unpins it after its bwrite().
bunpin(p) ==
  /\ pc[p] = "have"
  /\ want[p] \in pinned /\ disk[want[p]] = data[cur[p]]
  /\ pinned' = pinned \ {want[p]}
  /\ refcnt' = [refcnt EXCEPT ![cur[p]] = Dec(@)]
  /\ UNCHANGED <<blockno, valid, data, holder, lru, disk, pc, want, cur>>

--------------------------------------------------------------------------------
\* brelse(): releasesleep(), which wakes the waiting processes, and then the
\* section under bcache.lock.  Who changed the block has written or logged it.

releasesleep_NoWakeup(p) ==
  /\ pc[p] = "have"
  /\ want[p] \in pinned \/ disk[want[p]] = data[cur[p]]
  /\ holder' = [holder EXCEPT ![cur[p]] = NoProc]
  /\ Goto(p, "relse")
  /\ UNCHANGED <<blockno, valid, refcnt, data, lru, disk, want, cur, pinned>>

releasesleep(p) ==
  /\ pc[p] = "have"
  /\ want[p] \in pinned \/ disk[want[p]] = data[cur[p]]
  /\ holder' = [holder EXCEPT ![cur[p]] = NoProc]
  /\ pc' = [q \in Proc |-> IF q = p THEN "relse"
                           ELSE IF pc[q] = "asleep" /\ cur[q] = cur[p] THEN "lock"
                           ELSE pc[q]]
  /\ UNCHANGED <<blockno, valid, refcnt, data, lru, disk, want, cur, pinned>>

ToHead(s) == <<s>> \o Remove(lru, s)

brelse(p) ==
  /\ pc[p] = "relse"
  /\ refcnt' = [refcnt EXCEPT ![cur[p]] = Dec(@)]
  /\ lru' = IF refcnt'[cur[p]] = 0 THEN ToHead(cur[p]) ELSE lru
  /\ want' = [want EXCEPT ![p] = NoBlock] /\ cur' = [cur EXCEPT ![p] = 0]
  /\ Goto(p, "idle")
  /\ UNCHANGED <<blockno, valid, data, holder, disk, pinned>>

Access(p) == acquiresleep(p) \/ bread(p) \/ releasesleep(p) \/ brelse(p)

Next ==
  \/ \E p \in Proc : Access(p) \/ bwrite(p) \/ bpin(p) \/ bunpin(p)
  \/ \E p \in Proc, b \in Block : bget(p, b)
  \/ \E p \in Proc, v \in Data : change(p, v)

Spec == Init /\ [][Next]_vars

--------------------------------------------------------------------------------
\* Properties.

Holding(p) == pc[p] = "have"

\* Every field stays in its type, the list stays a permutation of the buffers,
\* a block is cached at most once, however many processes ask for it at the
\* same time, and who uses a buffer has its lock, alone.
TypeOK ==
  /\ blockno \in [Buf -> Block \cup {NoBlock}]
  /\ valid \in [Buf -> {0, 1}] /\ refcnt \in [Buf -> 0..(UINT - 1)]
  /\ data \in [Buf -> Data \cup {NoData}]
  /\ holder \in [Buf -> Proc \cup {NoProc}]
  /\ lru \in [Buf -> Buf] /\ {lru[k] : k \in Buf} = Buf
  /\ \A s, t \in Buf : blockno[s] = blockno[t] /\ blockno[s] # NoBlock => s = t
  /\ \A p \in Proc : pc[p] \in {"locked", "have"} => holder[cur[p]] = p
  /\ disk \in [Block -> Data]
  /\ pc \in [Proc -> {"idle", "lock", "asleep", "locked", "have", "relse"}]
  /\ want \in [Proc -> Block \cup {NoBlock}] /\ cur \in [Proc -> Buf \cup {0}]
  /\ pinned \subseteq Block

\* A reference count that log.c's pins and the processes' references add up
\* to: nothing leaks and nothing wraps.
RefcntExact ==
  \A s \in Buf :
    refcnt[s] = Cardinality({p \in Proc : cur[p] = s}) + Cardinality({blockno[s]} \cap pinned)

\* A process asleep in acquiresleep() waits for a lock that is held: the
\* wakeup() of releasesleep() reaches every process that went to sleep.
NoLostWakeup == \A p \in Proc : pc[p] = "asleep" => holder[cur[p]] # NoProc

Value == [b \in Block |->
            IF \E s \in Buf : blockno[s] = b /\ valid[s] = 1
            THEN data[CHOOSE s \in Buf : blockno[s] = b /\ valid[s] = 1]
            ELSE disk[b]]
Owner == [b \in Block |->
            IF \E p \in Proc : Holding(p) /\ want[p] = b
            THEN CHOOSE p \in Proc : Holding(p) /\ want[p] = b
            ELSE NoProc]

BS == INSTANCE BlockStore WITH value <- Value, owner <- Owner

\* The cache with its recycling is the block store: a process that gets a
\* block sees the last contents given to it, alone.
BlockStoreSpec == BS!Spec
===============================================================================
