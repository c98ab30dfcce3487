--------------------------------- MODULE Proc ---------------------------------
(***************************************************************************)
(* The life of processes in kernel/proc.c: fork(), exit(), wait(), kill()  *)
(* and the scheduler, with the lock of every process.                      *)
(*                                                                         *)
(* Grain: acquire() of a p->lock that stays held across other acquires is  *)
(* a step of its own; a section that takes and gives back one lock without *)
(* waiting for another inside is one action.  The scans of reparent() and  *)
(* wait() look at one slot of the table per step, without its lock, as the *)
(* code does.  Which calls programs make, in any order, is the world of a  *)
(* behaviour; init never exits.                                            *)
(***************************************************************************)
EXTENDS Integers, FiniteSets

CONSTANTS
  NPROC,      \* slots of the largest process table
  MaxPid,     \* bound: pids given out
  Worlds      \* what may happen; a behaviour has one of them:
              \*   nproc: slots in use; forks: pairs of pids, parent and child;
              \*   waits, exits, kills: pids that call wait() and exit(), and
              \*   that somebody may kill(); failures: what can fail

Slot == 1..NPROC
initproc == 1

ASSUME ProcAssumption ==
  /\ NPROC \in Nat /\ NPROC > 1 /\ MaxPid \in Nat /\ MaxPid > 0
  /\ Worlds \subseteq [nproc : 1..NPROC, forks : SUBSET ((1..MaxPid) \X (1..MaxPid)),
                      waits : SUBSET (1..MaxPid), exits : SUBSET (1..MaxPid),
                      kills : SUBSET (1..MaxPid),
                      failures : SUBSET {"trapframe", "memory", "copyout"}]

VARIABLES
  state, pid, parent, killed,   \* fields of struct proc; parent 0 is null
  lock,       \* holder of p->lock (a slot), 0 when free
  nextpid,
  pc,         \* where the kernel thread of a slot is; "none": not on its stack
  idx,        \* loop index of reparent() and wait()
  havekids,   \* local of wait()
  op,         \* original_parent, local of exit()
  world       \* never changes

vars == <<state, pid, parent, killed, lock, nextpid, pc, idx, havekids, op, world>>
slotVars == <<state, pid, parent, killed>>

\* After userinit(): init runs, and everything else is unused.
Init ==
  /\ state = [s \in Slot |-> IF s = initproc THEN "RUNNING" ELSE "UNUSED"]
  /\ pid = [s \in Slot |-> IF s = initproc THEN 1 ELSE 0]
  /\ parent = [s \in Slot |-> 0]
  /\ killed = [s \in Slot |-> FALSE]
  /\ lock = [s \in Slot |-> 0]
  /\ nextpid = 2
  /\ pc = [s \in Slot |-> IF s = initproc THEN "user" ELSE "none"]
  /\ idx = [s \in Slot |-> 0] /\ havekids = [s \in Slot |-> FALSE]
  /\ op = [s \in Slot |-> 0]
  /\ world \in Worlds

Goto(p, label) == pc' = [pc EXCEPT ![p] = label]
Free(s) == lock[s] = 0
Acquire(p, s) == Free(s) /\ lock' = [lock EXCEPT ![s] = p]

\* wakeup1(): the only channel here is the process itself, in wait().
wakeup1(s) == IF state[s] = "SLEEPING" THEN "RUNNABLE" ELSE state[s]

--------------------------------------------------------------------------------
\* fork() with allocproc(); the lock of the new slot is held throughout.

freeproc(s) ==
  /\ state' = [state EXCEPT ![s] = "UNUSED"]
  /\ pid' = [pid EXCEPT ![s] = 0]
  /\ parent' = [parent EXCEPT ![s] = 0]
  /\ killed' = [killed EXCEPT ![s] = FALSE]

\* Any unused slot may be the one the scan finds, as slots it has passed come
\* free.  When there is no page for the trapframe the slot stays UNUSED and
\* keeps its new pid; when there is none for the page table, or uvmcopy()
\* fails, freeproc() cleans up.
allocproc(s) ==
  /\ s <= world.nproc /\ state[s] = "UNUSED" /\ Free(s)
  /\ nextpid <= MaxPid /\ nextpid' = nextpid + 1

fork(p) ==
  /\ pc[p] = "user" /\ ~killed[p] /\ <<pid[p], nextpid>> \in world.forks
  /\ \E s \in Slot :
       /\ allocproc(s)
       /\ \/ /\ state' = [state EXCEPT ![s] = "RUNNABLE"]
             /\ pid' = [pid EXCEPT ![s] = nextpid]
             /\ parent' = [parent EXCEPT ![s] = p]
             /\ UNCHANGED killed
          \/ /\ "trapframe" \in world.failures
             /\ pid' = [pid EXCEPT ![s] = nextpid]
             /\ UNCHANGED <<state, parent, killed>>
          \/ "memory" \in world.failures /\ freeproc(s)
  /\ UNCHANGED <<lock, pc, idx, havekids, op, world>>

\* scheduler(): a new process starts in forkret(); one that slept in wait()
\* goes on with its lock held and scans again.
schedule(p) ==
  /\ state[p] = "RUNNABLE" /\ Free(p)
  /\ state' = [state EXCEPT ![p] = "RUNNING"]
  /\ \/ pc[p] = "none" /\ Goto(p, "user") /\ UNCHANGED <<lock, idx, havekids>>
     \/ /\ pc[p] = "w_asleep" /\ Goto(p, "w_scan") /\ Acquire(p, p)
        /\ idx' = [idx EXCEPT ![p] = 1]
        /\ havekids' = [havekids EXCEPT ![p] = FALSE]
  /\ UNCHANGED <<pid, parent, killed, nextpid, op, world>>

\* kill(): the caller holds no other lock.
kill(n) ==
  /\ n \in world.kills
  /\ \E s \in Slot :
       /\ pid[s] = n /\ Free(s) /\ ~killed[s]
       /\ killed' = [killed EXCEPT ![s] = TRUE]
       /\ state' = [state EXCEPT ![s] = wakeup1(s)]
  /\ UNCHANGED <<pid, parent, lock, nextpid, pc, idx, havekids, op, world>>

--------------------------------------------------------------------------------
\* exit(), called by the program or on the way back to user space.

exit_wakeup_init(p) ==
  /\ pc[p] = "user" /\ p # initproc /\ (pid[p] \in world.exits \/ killed[p])
  /\ Free(initproc)
  /\ state' = [state EXCEPT ![initproc] = wakeup1(initproc)]
  /\ Goto(p, "e_parent")
  /\ UNCHANGED <<pid, parent, killed, lock, nextpid, idx, havekids, op, world>>

exit_copy_parent_GiveAway(p) ==
  /\ pc[p] = "e_parent" /\ Free(p)
  /\ op' = [op EXCEPT ![p] = parent[p]]
  /\ parent' = [parent EXCEPT ![p] = initproc]
  /\ Goto(p, "e_lockparent")
  /\ UNCHANGED <<state, pid, killed, lock, nextpid, idx, havekids, world>>

exit_copy_parent(p) ==
  /\ pc[p] = "e_parent" /\ Free(p)
  /\ op' = [op EXCEPT ![p] = parent[p]]
  /\ Goto(p, "e_lockparent")
  /\ UNCHANGED <<slotVars, lock, nextpid, idx, havekids, world>>

exit_lock_parent(p) ==
  /\ pc[p] = "e_lockparent" /\ Acquire(p, op[p])
  /\ Goto(p, "e_lockself")
  /\ UNCHANGED <<slotVars, nextpid, idx, havekids, op, world>>

exit_lock_self(p) ==
  /\ pc[p] = "e_lockself" /\ Acquire(p, p)
  /\ idx' = [idx EXCEPT ![p] = 1]
  /\ Goto(p, "e_scan")
  /\ UNCHANGED <<slotVars, nextpid, havekids, op, world>>

\* reparent(): the test of pp->parent, without pp->lock.
reparent_test_Skip(p) ==
  /\ pc[p] = "e_scan" /\ idx[p] <= world.nproc
  /\ IF parent[idx[p]] = p /\ state[idx[p]] # "ZOMBIE"
     THEN Goto(p, "e_child") /\ UNCHANGED idx
     ELSE idx' = [idx EXCEPT ![p] = @ + 1] /\ UNCHANGED pc
  /\ UNCHANGED <<slotVars, lock, nextpid, havekids, op, world>>

reparent_test(p) ==
  /\ pc[p] = "e_scan" /\ idx[p] <= world.nproc
  /\ IF parent[idx[p]] = p
     THEN Goto(p, "e_child") /\ UNCHANGED idx
     ELSE idx' = [idx EXCEPT ![p] = @ + 1] /\ UNCHANGED pc
  /\ UNCHANGED <<slotVars, lock, nextpid, havekids, op, world>>

reparent_child(p) ==
  /\ pc[p] = "e_child" /\ Free(idx[p])
  /\ parent' = [parent EXCEPT ![idx[p]] = initproc]
  /\ idx' = [idx EXCEPT ![p] = @ + 1]
  /\ Goto(p, "e_scan")
  /\ UNCHANGED <<state, pid, killed, lock, nextpid, havekids, op, world>>

exit_zombie_NoWakeup(p) ==
  /\ pc[p] = "e_scan" /\ idx[p] > world.nproc
  /\ state' = [state EXCEPT ![p] = "ZOMBIE"]
  /\ lock' = [lock EXCEPT ![op[p]] = 0]
  /\ op' = [op EXCEPT ![p] = 0] /\ idx' = [idx EXCEPT ![p] = 0]
  /\ Goto(p, "e_sched")
  /\ UNCHANGED <<pid, parent, killed, nextpid, havekids, world>>

exit_zombie_Early(p) ==
  /\ pc[p] = "e_scan" /\ idx[p] > world.nproc
  /\ state' = [state EXCEPT ![op[p]] = wakeup1(op[p]), ![p] = "ZOMBIE"]
  /\ lock' = [lock EXCEPT ![op[p]] = 0, ![p] = 0]
  /\ op' = [op EXCEPT ![p] = 0] /\ idx' = [idx EXCEPT ![p] = 0]
  /\ Goto(p, "e_sched")
  /\ UNCHANGED <<pid, parent, killed, nextpid, havekids, world>>

\* wakeup1(original_parent), ZOMBIE, release(&original_parent->lock)
exit_zombie(p) ==
  /\ pc[p] = "e_scan" /\ idx[p] > world.nproc
  /\ state' = [state EXCEPT ![op[p]] = wakeup1(op[p]), ![p] = "ZOMBIE"]
  /\ lock' = [lock EXCEPT ![op[p]] = 0]
  /\ op' = [op EXCEPT ![p] = 0] /\ idx' = [idx EXCEPT ![p] = 0]
  /\ Goto(p, "e_sched")
  /\ UNCHANGED <<pid, parent, killed, nextpid, havekids, world>>

\* sched() leaves the kernel stack; the scheduler releases p->lock.
exit_sched(p) ==
  /\ pc[p] = "e_sched"
  /\ Goto(p, "none")
  /\ lock' = [lock EXCEPT ![p] = 0]
  /\ UNCHANGED <<slotVars, nextpid, idx, havekids, op, world>>

--------------------------------------------------------------------------------
\* wait()

wait(p) ==
  /\ pc[p] = "user" /\ ~killed[p] /\ pid[p] \in world.waits /\ Acquire(p, p)
  /\ idx' = [idx EXCEPT ![p] = 1] /\ havekids' = [havekids EXCEPT ![p] = FALSE]
  /\ Goto(p, "w_scan")
  /\ UNCHANGED <<slotVars, nextpid, op, world>>

\* The test of np->parent, without np->lock.
wait_test(p) ==
  /\ pc[p] = "w_scan" /\ idx[p] <= world.nproc
  /\ IF parent[idx[p]] = p
     THEN Goto(p, "w_child") /\ UNCHANGED idx
     ELSE idx' = [idx EXCEPT ![p] = @ + 1] /\ UNCHANGED pc
  /\ UNCHANGED <<slotVars, lock, nextpid, havekids, op, world>>

Return_NoRelease(p) ==
  /\ idx' = [idx EXCEPT ![p] = 0] /\ havekids' = [havekids EXCEPT ![p] = FALSE]
  /\ Goto(p, "user") /\ UNCHANGED lock

\* Leave wait(): release(&p->lock), return.
Return(p) ==
  /\ lock' = [lock EXCEPT ![p] = 0]
  /\ idx' = [idx EXCEPT ![p] = 0] /\ havekids' = [havekids EXCEPT ![p] = FALSE]
  /\ Goto(p, "user")

\* Under np->lock: freeproc() of a zombie, unless copyout() fails.
wait_child(p) ==
  /\ pc[p] = "w_child" /\ Free(idx[p])
  /\ LET np == idx[p] IN
       \/ state[np] = "ZOMBIE" /\ freeproc(np) /\ Return(p)
       \/ /\ state[np] = "ZOMBIE" /\ "copyout" \in world.failures
          /\ Return(p) /\ UNCHANGED slotVars
       \/ /\ state[np] # "ZOMBIE"
          /\ havekids' = [havekids EXCEPT ![p] = TRUE]
          /\ idx' = [idx EXCEPT ![p] = @ + 1]
          /\ Goto(p, "w_scan")
          /\ UNCHANGED <<slotVars, lock>>
  /\ UNCHANGED <<nextpid, op, world>>

\* The end of the scan: return -1, or sleep(p, &p->lock) with p->lock held
\* until the scheduler releases it.
wait_end(p) ==
  /\ pc[p] = "w_scan" /\ idx[p] > world.nproc
  /\ IF ~havekids[p] \/ killed[p]
     THEN Return(p) /\ UNCHANGED state
     ELSE /\ state' = [state EXCEPT ![p] = "SLEEPING"]
          /\ lock' = [lock EXCEPT ![p] = 0]
          /\ idx' = [idx EXCEPT ![p] = 0]
          /\ havekids' = [havekids EXCEPT ![p] = FALSE]
          /\ Goto(p, "w_asleep")
  /\ UNCHANGED <<pid, parent, killed, nextpid, op, world>>

Exit(p) ==
  \/ exit_copy_parent(p) \/ exit_lock_parent(p) \/ exit_lock_self(p)
  \/ reparent_test(p) \/ reparent_child(p) \/ exit_zombie(p) \/ exit_sched(p)
Wait(p) == wait_test(p) \/ wait_child(p) \/ wait_end(p)

Next ==
  \/ \E p \in Slot : \/ fork(p) \/ schedule(p) \/ exit_wakeup_init(p) \/ Exit(p)
                     \/ wait(p) \/ Wait(p)
  \/ \E n \in 1..MaxPid : kill(n)

Spec == Init /\ [][Next]_vars

\* A process in the kernel goes on, and gets a spinlock that is free again
\* and again; the scheduler gets round to every runnable process.  Programs
\* need not call anything.
FairSpec ==
  Spec /\ \A p \in Slot : SF_vars(schedule(p) \/ Exit(p) \/ Wait(p))

--------------------------------------------------------------------------------
\* Properties.

\* Every field stays in its type, and a slot is free only when its kernel
\* thread has left the kernel stack, so that allocproc() never gives a stack
\* in use to a new process.
TypeOK ==
  /\ state \in [Slot -> {"UNUSED", "RUNNABLE", "RUNNING", "SLEEPING", "ZOMBIE"}]
  /\ pid \in [Slot -> 0..MaxPid] /\ parent \in [Slot -> 0..NPROC]
  /\ killed \in [Slot -> BOOLEAN] /\ lock \in [Slot -> 0..NPROC]
  /\ nextpid \in 1..(MaxPid + 1)
  /\ pc \in [Slot -> {"none", "user", "e_parent", "e_lockparent", "e_lockself",
                      "e_scan", "e_child", "e_sched", "w_scan", "w_child", "w_asleep"}]
  /\ idx \in [Slot -> 0..(NPROC + 1)] /\ havekids \in [Slot -> BOOLEAN]
  /\ op \in [Slot -> 0..NPROC]
  /\ \A s \in Slot : state[s] = "UNUSED" => pc[s] = "none"

\* Nobody is orphaned: the parent of every process and of every zombie is
\* there to wait for it, through any interleaving of exits and reparenting.
ParentAlive ==
  \A s \in Slot \ {initproc} :
    state[s] # "UNUSED" => state[parent[s]] \notin {"UNUSED", "ZOMBIE"}

\* "pp->parent can't change between the check and the acquire()", in
\* reparent() and in wait(), both of which read it without the lock.
ParentStable ==
  \A p \in Slot : pc[p] \in {"e_child", "w_child"} => parent[idx[p]] = p

\* A parent asleep in wait() has no zombie to collect: exit() wakes it, under
\* its lock.  Not so for init, which can miss the wakeup for a process that
\* was given to it.
NoLostWakeup ==
  \A p \in Slot \ {initproc} : state[p] = "SLEEPING" =>
    \A s \in Slot : parent[s] = p => state[s] # "ZOMBIE"

\* A set of processes each of which waits for a lock that another of them
\* holds.
WaitsFor(p) == IF pc[p] = "e_lockparent" THEN op[p]
               ELSE IF pc[p] = "e_lockself" THEN p
               ELSE IF pc[p] \in {"e_child", "w_child"} THEN idx[p]
               ELSE 0
NoLockCycle ==
  ~ \E S \in SUBSET Slot : /\ S # {}
                           /\ \A p \in S : WaitsFor(p) # 0 /\ lock[WaitsFor(p)] \in S

\* Nothing but such a cycle keeps exit() from its end: the locks that it takes
\* one after the other, its parent's, its own and its children's, are all given
\* back by the exits and waits that hold them, whatever else goes on.
ExitCompletes ==
  \A p \in Slot : pc[p] = "e_parent" ~> (pc[p] = "none" \/ ~NoLockCycle)
===============================================================================
