------------------------------ MODULE AtomicDisk ------------------------------
(***************************************************************************)
(* What kernel/log.c promises to the file system calls above it: the disk  *)
(* holds the result of whole groups of system calls.  Calls write blocks   *)
(* into a volatile image; the image becomes durable in one step, and only  *)
(* while no call is in progress; a crash falls back to the durable image.  *)
(* There is no log, no header and no buffer cache here.                    *)
(***************************************************************************)
CONSTANTS Proc, Block, Data

VARIABLES
  durable,    \* what a machine that loses power now will find after recovery
  volatile,   \* what a read of a block returns now
  active      \* the processes between begin_op() and end_op()

advars == <<durable, volatile, active>>

Init ==
  /\ durable \in [Block -> Data]
  /\ volatile = durable
  /\ active = {}

Begin(p) ==
  /\ p \notin active
  /\ active' = active \cup {p}
  /\ UNCHANGED <<durable, volatile>>

Write(p, b, v) ==
  /\ p \in active
  /\ volatile' = [volatile EXCEPT ![b] = v]
  /\ UNCHANGED <<durable, active>>

End(p) ==
  /\ p \in active
  /\ active' = active \ {p}
  /\ UNCHANGED <<durable, volatile>>

Commit ==
  /\ active = {}
  /\ durable' = volatile
  /\ UNCHANGED <<volatile, active>>

Crash ==
  /\ volatile' = durable
  /\ active' = {}
  /\ UNCHANGED durable

Next ==
  \/ \E p \in Proc : Begin(p) \/ End(p)
  \/ \E p \in Proc, b \in Block, v \in Data : Write(p, b, v)
  \/ Commit
  \/ Crash

Spec == Init /\ [][Next]_advars
===============================================================================
