-------------------------------- MODULE Virtio --------------------------------
(***************************************************************************)
(* The disk driver, kernel/virtio_disk.c, with the device it talks to.     *)
(*                                                                         *)
(* virtio_disk_rw() is one action between two sleeps, all of which run     *)
(* under vdisk_lock.  The device is not bound by the lock, so the loop of  *)
(* virtio_disk_intr(), its end and its acknowledgement are separate steps. *)
(* The buffer of a request is named after the process that made it.  A     *)
(* slot of a ring or a descriptor that is done with holds NUM here, the    *)
(* stale value in memory: it must not be used again.                       *)
(***************************************************************************)
EXTENDS Integers, FiniteSets

CONSTANTS
  Proc,     \* processes that call virtio_disk_rw()
  NUM,      \* descriptors, and slots in each ring
  WRAP      \* where the ring counters wrap around (2^16 in the code)

ASSUME VirtioAssumption == NUM \in Nat \ {0} /\ WRAP \in Nat \ {0} /\ WRAP % NUM = 0

Desc == 0..(NUM - 1)
None == "none"

VARIABLES
  free,                 \* disk.free[]: the set of free descriptors
  next,                 \* desc[i].next, or NUM without VRING_DESC_F_NEXT
  owner,                \* desc[i].addr: whose header or buffer it points to
  info,                 \* disk.info[i].b
  bdisk,                \* b->disk
  avail, avail_idx,     \* the ring of requests
  used_idx,             \* the driver's place in the used ring
  pc, head,             \* where each process is; its idx[0]
  intr,                 \* where virtio_disk_intr() is: it has vdisk_lock, or is "off"
  \* the device
  dev_idx, inflight, used, used_id, irq,
  served                \* the device has done the current request of a process

driver == <<free, next, owner, info, bdisk, avail, avail_idx, head>>
device == <<dev_idx, inflight, used, used_id, served>>
vars == <<driver, used_idx, pc, intr, device, irq>>

Init ==
  /\ free = Desc /\ next = [i \in Desc |-> NUM] /\ owner = [i \in Desc |-> None]
  /\ info = [i \in Desc |-> None] /\ bdisk = [p \in Proc |-> 0]
  /\ avail = [i \in Desc |-> NUM] /\ avail_idx = 0 /\ used_idx = 0
  /\ pc = [p \in Proc |-> "idle"] /\ head = [p \in Proc |-> NUM]
  /\ intr = "off"
  /\ dev_idx = 0 /\ inflight = {} /\ used = [i \in Desc |-> NUM] /\ used_id = 0
  /\ irq = FALSE /\ served = [p \in Proc |-> FALSE]

Unlocked == intr = "off"

\* wakeup(): who sleeps at label goes on at label to.
Wake(ps, label, to) == [p \in Proc |-> IF p \in ps /\ pc[p] = label THEN to ELSE pc[p]]

\* The call; the process has not asked for descriptors yet.
begin(p) ==
  /\ pc[p] = "idle"
  /\ pc' = [pc EXCEPT ![p] = "alloc"] /\ served' = [served EXCEPT ![p] = FALSE]
  /\ UNCHANGED <<driver, used_idx, intr, dev_idx, inflight, used, used_id, irq>>

Least(S) == CHOOSE i \in S : \A j \in S : i <= j

\* alloc3_desc() fails: what it took it gives back with free_desc(), which
\* wakes the others that wait for descriptors.
alloc3_desc_fails(p) ==
  /\ pc[p] = "alloc" /\ Unlocked /\ Cardinality(free) < 3
  /\ pc' = [Wake(IF free = {} THEN {} ELSE Proc, "alloc_sleep", "alloc")
              EXCEPT ![p] = "alloc_sleep"]
  /\ owner' = [i \in Desc |-> IF i \in free THEN None ELSE owner[i]]
  /\ UNCHANGED <<free, next, info, bdisk, avail, avail_idx, head, used_idx, intr, device, irq>>

virtio_disk_rw_NoNext(p) ==
  LET i == Least(free)
      j == Least(free \ {i})
      k == Least(free \ {i, j}) IN
  /\ pc[p] = "alloc" /\ Unlocked /\ Cardinality(free) >= 3
  /\ free' = free \ {i, j, k} /\ head' = [head EXCEPT ![p] = i]
  /\ next' = [next EXCEPT ![i] = j, ![j] = NUM, ![k] = NUM]
  /\ owner' = [owner EXCEPT ![i] = p, ![j] = p, ![k] = p]
  /\ bdisk' = [bdisk EXCEPT ![p] = 1] /\ info' = [info EXCEPT ![i] = p]
  /\ avail' = [avail EXCEPT ![avail_idx % NUM] = i]
  /\ avail_idx' = (avail_idx + 1) % WRAP
  /\ pc' = [pc EXCEPT ![p] = "sleep"]
  /\ UNCHANGED <<used_idx, intr, device, irq>>

\* Format the descriptors, publish the chain, notify the device, sleep.
virtio_disk_rw(p) ==
  LET i == Least(free)
      j == Least(free \ {i})
      k == Least(free \ {i, j}) IN
  /\ pc[p] = "alloc" /\ Unlocked /\ Cardinality(free) >= 3
  /\ free' = free \ {i, j, k} /\ head' = [head EXCEPT ![p] = i]
  /\ next' = [next EXCEPT ![i] = j, ![j] = k, ![k] = NUM]
  /\ owner' = [owner EXCEPT ![i] = p, ![j] = p, ![k] = p]
  /\ bdisk' = [bdisk EXCEPT ![p] = 1] /\ info' = [info EXCEPT ![i] = p]
  /\ avail' = [avail EXCEPT ![avail_idx % NUM] = i]
  /\ avail_idx' = (avail_idx + 1) % WRAP
  /\ pc' = [pc EXCEPT ![p] = "sleep"]
  /\ UNCHANGED <<used_idx, intr, device, irq>>

\* free_chain(): the descriptors reached over next.
Chain(i) ==
  LET j == next[i] IN
  IF j = NUM THEN {i} ELSE IF next[j] = NUM THEN {i, j} ELSE {i, j, next[j]}

\* Woken while b->disk = 1: the loop sleeps again.
sleep_again(p) ==
  /\ pc[p] = "awake" /\ Unlocked /\ bdisk[p] = 1
  /\ pc' = [pc EXCEPT ![p] = "sleep"]
  /\ UNCHANGED <<driver, used_idx, intr, device, irq>>

\* Woken with b->disk = 0: free the chain and return.
resume(p) ==
  /\ pc[p] = "awake" /\ Unlocked /\ bdisk[p] = 0
  /\ info' = [info EXCEPT ![head[p]] = None]
  /\ head' = [head EXCEPT ![p] = NUM]
  /\ next' = [i \in Desc |-> IF i \in Chain(head[p]) THEN NUM ELSE next[i]]
  /\ free' = free \union Chain(head[p])
  /\ owner' = [i \in Desc |-> IF i \in Chain(head[p]) THEN None ELSE owner[i]]
  /\ pc' = [Wake(Proc, "alloc_sleep", "alloc") EXCEPT ![p] = "idle"]
  /\ UNCHANGED <<bdisk, avail, avail_idx, used_idx, intr, device, irq>>

\* kill() makes a process runnable whatever it sleeps for.
kill(p) ==
  /\ pc[p] \in {"sleep", "alloc_sleep"}
  /\ pc' = [pc EXCEPT ![p] = IF pc[p] = "sleep" THEN "awake" ELSE "alloc"]
  /\ UNCHANGED <<driver, used_idx, intr, device, irq>>

--------------------------------------------------------------------------------
\* virtio_disk_intr()

intr_begin ==
  /\ irq /\ intr = "off" /\ intr' = "loop"
  /\ UNCHANGED <<driver, used_idx, pc, device, irq>>

intr_loop_All ==
  /\ intr = "loop" /\ used_idx # used_id % NUM
  /\ bdisk' = [p \in Proc |-> 0]
  /\ pc' = Wake(Proc, "sleep", "awake")
  /\ used' = [used EXCEPT ![used_idx] = NUM]
  /\ used_idx' = (used_idx + 1) % NUM
  /\ UNCHANGED <<free, next, owner, info, avail, avail_idx, head, intr,
                 dev_idx, inflight, used_id, served, irq>>

intr_loop_Stay ==
  LET id == used[used_idx] IN
  /\ intr = "loop" /\ used_idx # used_id % NUM
  /\ bdisk' = [bdisk EXCEPT ![info[id]] = 0]
  /\ pc' = Wake({info[id]}, "sleep", "awake")
  /\ UNCHANGED <<free, next, owner, info, avail, avail_idx, head, intr,
                 dev_idx, inflight, used, used_idx, used_id, served, irq>>

intr_loop_First ==
  LET id == used[used_idx] IN
  /\ intr = "loop" /\ used_idx # used_id % NUM
  /\ bdisk' = [bdisk EXCEPT ![info[id]] = 0]
  /\ pc' = Wake({info[id]}, "sleep", "awake")
  /\ used' = [used EXCEPT ![used_idx] = NUM]
  /\ used_idx' = used_id % NUM
  /\ UNCHANGED <<free, next, owner, info, avail, avail_idx, head, intr,
                 dev_idx, inflight, used_id, served, irq>>

intr_loop ==
  LET id == used[used_idx] IN
  /\ intr = "loop" /\ used_idx # used_id % NUM
  /\ bdisk' = [bdisk EXCEPT ![info[id]] = 0]
  /\ pc' = Wake({info[id]}, "sleep", "awake")
  /\ used' = [used EXCEPT ![used_idx] = NUM]
  /\ used_idx' = (used_idx + 1) % NUM
  /\ UNCHANGED <<free, next, owner, info, avail, avail_idx, head, intr,
                 dev_idx, inflight, used_id, served, irq>>

intr_end ==
  /\ intr = "loop" /\ used_idx = used_id % NUM /\ intr' = "ack"
  /\ UNCHANGED <<driver, used_idx, pc, device, irq>>

\* INTERRUPT_ACK = INTERRUPT_STATUS, release(&disk.vdisk_lock)
intr_ack ==
  /\ intr = "ack" /\ intr' = "off" /\ irq' = FALSE
  /\ UNCHANGED <<driver, used_idx, pc, device>>

--------------------------------------------------------------------------------
\* The device: it takes chains in order and finishes them in any order.

dev_take ==
  /\ dev_idx # avail_idx
  /\ inflight' = inflight \union {avail[dev_idx % NUM]}
  /\ avail' = [avail EXCEPT ![dev_idx % NUM] = NUM]
  /\ dev_idx' = (dev_idx + 1) % WRAP
  /\ UNCHANGED <<free, next, owner, info, bdisk, avail_idx, head, used_idx, pc, intr, used, used_id, irq, served>>

dev_done ==
  /\ \E i \in inflight :
       /\ inflight' = inflight \ {i}
       /\ served' = [p \in Proc |-> served[p] \/ owner[i] = p]
       /\ used' = [used EXCEPT ![used_id % NUM] = i]
  /\ used_id' = (used_id + 1) % WRAP
  /\ irq' = TRUE
  /\ UNCHANGED <<driver, used_idx, pc, intr, dev_idx>>

Interrupt == intr_begin \/ intr_loop \/ intr_end \/ intr_ack
Device == dev_take \/ dev_done
Step(p) == alloc3_desc_fails(p) \/ virtio_disk_rw(p) \/ sleep_again(p) \/ resume(p)

Next == Interrupt \/ Device \/ \E p \in Proc : begin(p) \/ Step(p) \/ kill(p)

Spec == Init /\ [][Next]_vars

--------------------------------------------------------------------------------
\* Properties.

InUse(p) == pc[p] \in {"sleep", "awake"}

TypeOK ==
  /\ free \subseteq Desc /\ next \in [Desc -> 0..NUM]
  /\ owner \in [Desc -> Proc \union {None}] /\ info \in [Desc -> Proc \union {None}]
  /\ bdisk \in [Proc -> {0, 1}] /\ avail \in [Desc -> 0..NUM] /\ avail_idx \in 0..(WRAP - 1)
  /\ used_idx \in Desc /\ head \in [Proc -> 0..NUM] /\ inflight \subseteq Desc
  /\ pc \in [Proc -> {"idle", "alloc", "alloc_sleep", "sleep", "awake"}]
  /\ intr \in {"off", "loop", "ack"} /\ dev_idx \in 0..(WRAP - 1)
  /\ used_id \in 0..(WRAP - 1) /\ used \in [Desc -> 0..NUM]
  /\ served \in [Proc -> BOOLEAN] /\ irq \in BOOLEAN

\* Every variable stays in its type, and every descriptor is free or belongs
\* to exactly one request in progress: none is lost or freed twice (the panics
\* of free_desc()).
DescConserved ==
  /\ TypeOK
  /\ \A p \in Proc : InUse(p) => Cardinality(Chain(head[p])) = 3 /\ Chain(head[p]) \cap free = {}
  /\ \A p, q \in Proc : p # q /\ InUse(p) /\ InUse(q) => Chain(head[p]) \cap Chain(head[q]) = {}
  /\ Cardinality(free) = NUM - 3 * Cardinality({p \in Proc : InUse(p)})

\* A request that the driver calls finished was done by the device: no
\* process takes the completion of another, even when the device finishes
\* requests out of order and descriptors are reused at once.
DoneIsDone == \A p \in Proc : InUse(p) /\ bdisk[p] = 0 => served[p]

Window(from, to) == {(from + k) % WRAP : k \in 0..(((to - from) % WRAP) - 1)}
Pending == {avail[n % NUM] : n \in Window(dev_idx, avail_idx)}
Unseen == {used[(used_idx + k) % NUM] : k \in 0..(((used_id - used_idx) % NUM) - 1)}

\* What the device still has to look at, works on, or has finished and the
\* handler has not seen, is a request in progress with its own descriptors.
DeviceSeesLive ==
  \A i \in Pending \union inflight \union Unseen :
    info[i] # None /\ owner[i] = info[i] /\ InUse(info[i]) /\ bdisk[info[i]] = 1

\* Nobody sleeps for what will not come.  Who waits for descriptors does so
\* while fewer than three are free.  The request of who waits for its end is
\* with the device, or it has ended and its completion is in the part of the
\* used ring that the handler has not read, so that the loop at 256 gets to it
\* the next time the handler runs (the acknowledgement at 267 can put that off
\* until another request ends).
NoLostWakeup ==
  \A p \in Proc :
    /\ pc[p] = "alloc_sleep" => Cardinality(free) < 3
    /\ pc[p] = "sleep" => IF served[p] THEN head[p] \in Unseen
                                       ELSE head[p] \in Pending \union inflight
===============================================================================
