--------------------------------- MODULE Pipe ---------------------------------
(***************************************************************************)
(* One pipe of kernel/pipe.c, from pipealloc() to kfree(), used by several *)
(* writers and readers, with sleep(), wakeup() and kill() of kernel/proc.c *)
(* and the reference counts of kernel/file.c.                              *)
(*                                                                         *)
(* Grain: pi->lock is a variable, and a step under it moves one byte or    *)
(* makes one test, because kill() takes only p->lock and can hit between   *)
(* the test of pr->killed and the sleep().                                 *)
(***************************************************************************)
EXTENDS Integers, Sequences, FiniteSets

CONSTANTS
  Writer, Reader,   \* processes that hold the write end, the read end
  Killable,         \* processes that somebody may kill()
  Byte,
  PIPESIZE,
  UINT,             \* modulus of the uint counters (2^32 in the code)
  MaxCount,         \* largest n passed to read() and write()
  NoProc, NoByte

Proc == Writer \cup Reader

ASSUME PipeAssumption ==
  /\ Writer \cap Reader = {} /\ Killable \subseteq Proc
  /\ PIPESIZE \in Nat \ {0} /\ UINT \in Nat /\ UINT > PIPESIZE
  /\ UINT % PIPESIZE = 0
  /\ MaxCount \in Nat
  /\ NoProc \notin Proc
  /\ NoByte \notin Byte

VARIABLES
  data, nread, nwrite, readopen, writeopen,   \* struct pipe
  lock,      \* holder of pi->lock
  freed,     \* kfree() took the page of the pipe back
  ref,       \* holders of the two struct files: [writer, reader]
  pc,        \* where a process is in pipewrite/piperead/fileclose
  i, n,      \* locals of pipewrite() and piperead()
  ch,        \* the byte piperead() took last
  killed     \* p->killed

pipe == <<data, nread, nwrite, readopen, writeopen>>
vars == <<data, nread, nwrite, readopen, writeopen, lock, freed, ref, pc, i, n,
          ch, killed>>

Inc(c) == (c + 1) % UINT
Full_NoWrap == nwrite = nread + PIPESIZE
Full == nwrite = (nread + PIPESIZE) % UINT
Empty == nread = nwrite

\* pipealloc()
Init ==
  /\ data = [k \in 0..(PIPESIZE - 1) |-> NoByte]
  /\ nread = 0 /\ nwrite = 0 /\ readopen = 1 /\ writeopen = 1
  /\ lock = NoProc /\ freed = FALSE
  /\ ref = [writer |-> Writer, reader |-> Reader]
  /\ pc = [p \in Proc |-> "user"]
  /\ i = [p \in Proc |-> 0] /\ n = [p \in Proc |-> 0]
  /\ ch = NoByte
  /\ killed = [p \in Proc |-> FALSE]

--------------------------------------------------------------------------------
\* sleep() and wakeup()

Goto(p, label) == pc' = [pc EXCEPT ![p] = label]

\* wakeup(&pi->nread) and wakeup(&pi->nwrite) by p, which moves to label.
WakeReaders_Not(p, label) == Goto(p, label)
WakeReaders(p, label) ==
  pc' = [q \in Proc |-> IF q = p THEN label
                        ELSE IF pc[q] = "r_asleep" THEN "r_woken" ELSE pc[q]]
WakeWriters_Not(p, label) == Goto(p, label)
WakeWriters(p, label) ==
  pc' = [q \in Proc |-> IF q = p THEN label
                        ELSE IF pc[q] = "w_asleep" THEN "w_woken" ELSE pc[q]]

Acquire(p) == lock = NoProc /\ lock' = p
Release(p) == lock = p /\ lock' = NoProc

\* The locals die with the call.
Leave(p) == i' = [i EXCEPT ![p] = 0] /\ n' = [n EXCEPT ![p] = 0]

\* Under p->lock: release(&pi->lock), p->state = SLEEPING.
sleep(p) ==
  /\ \/ pc[p] = "w_sleep" /\ Goto(p, "w_asleep")
     \/ pc[p] = "r_sleep" /\ Goto(p, "r_asleep")
  /\ Release(p)
  /\ UNCHANGED <<pipe, freed, ref, i, n, ch, killed>>

resume_NoRecheck(p) ==
  /\ \/ pc[p] = "w_woken" /\ Goto(p, "w_loop")
     \/ pc[p] = "r_woken" /\ Goto(p, "r_copy")
  /\ Acquire(p)
  /\ UNCHANGED <<pipe, freed, ref, i, n, ch, killed>>

\* sleep() returns with pi->lock; the loop tests its condition again.
resume(p) ==
  /\ \/ pc[p] = "w_woken" /\ Goto(p, "w_loop")
     \/ pc[p] = "r_woken" /\ Goto(p, "r_wait")
  /\ Acquire(p)
  /\ UNCHANGED <<pipe, freed, ref, i, n, ch, killed>>

kill(p) ==
  /\ p \in Killable /\ ~killed[p]
  /\ killed' = [killed EXCEPT ![p] = TRUE]
  /\ pc' = [pc EXCEPT ![p] = IF @ = "w_asleep" THEN "w_woken"
                             ELSE IF @ = "r_asleep" THEN "r_woken" ELSE @]
  /\ UNCHANGED <<pipe, lock, freed, ref, i, n, ch>>

--------------------------------------------------------------------------------
\* pipewrite() and piperead().  A killed process starts no system call.

call(p, count) ==
  /\ pc[p] = "user" /\ ~killed[p]
  /\ \/ p \in ref.writer /\ Goto(p, "w_loop")
     \/ p \in ref.reader /\ Goto(p, "r_wait")
  /\ Acquire(p)
  /\ i' = [i EXCEPT ![p] = 0] /\ n' = [n EXCEPT ![p] = count]
  /\ UNCHANGED <<pipe, freed, ref, ch, killed>>

write_full(p) ==
  /\ pc[p] = "w_loop" /\ i[p] < n[p] /\ Full
  /\ IF readopen = 0 \/ killed[p]
     THEN Release(p) /\ Leave(p) /\ Goto(p, "user")
     ELSE WakeReaders(p, "w_sleep") /\ UNCHANGED <<lock, i, n>>
  /\ UNCHANGED <<pipe, freed, ref, ch, killed>>

write_byte(p, b) ==
  /\ pc[p] = "w_loop" /\ i[p] < n[p] /\ ~Full
  /\ data' = [data EXCEPT ![nwrite % PIPESIZE] = b]
  /\ nwrite' = Inc(nwrite)
  /\ i' = [i EXCEPT ![p] = @ + 1]
  /\ UNCHANGED <<nread, readopen, writeopen, lock, freed, ref, pc, n, ch,
                 killed>>

\* The loop ends: n bytes are written, or copyin() failed.
write_return(p) ==
  /\ pc[p] = "w_loop"
  /\ i[p] = n[p] \/ ~Full
  /\ WakeReaders(p, "user")
  /\ Release(p) /\ Leave(p)
  /\ UNCHANGED <<pipe, freed, ref, ch, killed>>

read_wait(p) ==
  /\ pc[p] = "r_wait"
  /\ IF Empty /\ writeopen = 1
     THEN IF killed[p]
          THEN Release(p) /\ Leave(p) /\ Goto(p, "user")
          ELSE Goto(p, "r_sleep") /\ UNCHANGED <<lock, i, n>>
     ELSE Goto(p, "r_copy") /\ UNCHANGED <<lock, i, n>>
  /\ UNCHANGED <<pipe, freed, ref, ch, killed>>

\* The byte is gone from the pipe also when copyout() fails; then the loop
\* ends without counting it.
read_byte(p) ==
  /\ pc[p] = "r_copy" /\ i[p] < n[p] /\ ~Empty
  /\ ch' = data[nread % PIPESIZE]
  /\ nread' = Inc(nread)
  /\ \/ i' = [i EXCEPT ![p] = @ + 1] /\ UNCHANGED <<pc, lock, n>>
     \/ WakeWriters(p, "user") /\ Release(p) /\ Leave(p)
  /\ UNCHANGED <<data, nwrite, readopen, writeopen, freed, ref, killed>>

read_return(p) ==
  /\ pc[p] = "r_copy"
  /\ i[p] = n[p] \/ Empty
  /\ WakeWriters(p, "user")
  /\ Release(p) /\ Leave(p)
  /\ UNCHANGED <<pipe, freed, ref, ch, killed>>

--------------------------------------------------------------------------------
\* close(), or exit() of a process: fileclose() drops a reference, the last
\* one calls pipeclose().

fileclose(p) ==
  /\ pc[p] = "user"
  /\ \E end \in {"writer", "reader"} :
       /\ p \in ref[end]
       /\ ref' = [ref EXCEPT ![end] = @ \ {p}]
       /\ Goto(p, IF ref[end] = {p} THEN "closing" ELSE "closed")
  /\ UNCHANGED <<pipe, lock, freed, i, n, ch, killed>>

pipeclose_FreeFirst(p) ==
  /\ pc[p] = "closing" /\ lock = NoProc
  /\ IF p \in Writer
     THEN writeopen' = 0 /\ UNCHANGED readopen /\ WakeReaders(p, "kfree")
     ELSE readopen' = 0 /\ UNCHANGED writeopen /\ WakeWriters(p, "kfree")
  /\ UNCHANGED <<data, nread, nwrite, lock, freed, ref, i, n, ch, killed>>

pipeclose(p) ==
  /\ pc[p] = "closing" /\ lock = NoProc
  /\ IF p \in Writer
     THEN /\ writeopen' = 0 /\ UNCHANGED readopen
          /\ WakeReaders(p, IF readopen = 0 THEN "kfree" ELSE "closed")
     ELSE /\ readopen' = 0 /\ UNCHANGED writeopen
          /\ WakeWriters(p, IF writeopen = 0 THEN "kfree" ELSE "closed")
  /\ UNCHANGED <<data, nread, nwrite, lock, freed, ref, i, n, ch, killed>>

kfree(p) ==
  /\ pc[p] = "kfree"
  /\ freed' = TRUE
  /\ Goto(p, "closed")
  /\ UNCHANGED <<pipe, lock, ref, i, n, ch, killed>>

Step(p) ==
  \/ sleep(p) \/ resume(p) \/ write_full(p) \/ write_return(p)
  \/ (\E b \in Byte : write_byte(p, b))
  \/ read_wait(p) \/ read_byte(p) \/ read_return(p)
  \/ pipeclose(p) \/ kfree(p)

Done == (\A p \in Proc : pc[p] = "closed") /\ UNCHANGED vars

Next ==
  \/ \E p \in Proc : Step(p) \/ fileclose(p) \/ kill(p)
  \/ \E p \in Proc, count \in 0..MaxCount : call(p, count)
  \/ Done

Spec == Init /\ [][Next]_vars

\* A process in the kernel is scheduled again, and gets a spinlock that is
\* free again and again.  The programs go on: they call read() or write()
\* again, or they close the pipe.
FairSpec ==
  Spec /\ \A p \in Proc :
    SF_vars(Step(p) \/ fileclose(p) \/ \E count \in 0..MaxCount : call(p, count))

--------------------------------------------------------------------------------
\* Properties.

Labels == {"user", "w_loop", "w_sleep", "w_asleep", "w_woken", "r_wait", "r_sleep",
           "r_asleep", "r_woken", "r_copy", "closing", "kfree", "closed"}

\* Every variable of the pipe and of its users stays in its type.
TypeOK ==
  /\ data \in [0..(PIPESIZE - 1) -> Byte \cup {NoByte}]
  /\ nread \in 0..(UINT - 1) /\ nwrite \in 0..(UINT - 1)
  /\ readopen \in {0, 1} /\ writeopen \in {0, 1}
  /\ lock \in Proc \cup {NoProc} /\ freed \in BOOLEAN
  /\ ref.writer \subseteq Writer /\ ref.reader \subseteq Reader
  /\ pc \in [Proc -> Labels]
  /\ i \in [Proc -> 0..MaxCount] /\ n \in [Proc -> 0..MaxCount]
  /\ ch \in Byte \cup {NoByte}
  /\ killed \in [Proc -> BOOLEAN]

\* Nobody sleeps in piperead() or pipewrite() while the pipe has what it
\* waits for: every change under pi->lock wakes the other side up before the
\* lock is released, whoever was killed or woken in between.
NoLostWakeup ==
  /\ TypeOK
  /\ lock = NoProc =>
       \A p \in Proc : /\ pc[p] = "r_asleep" => Empty /\ writeopen = 1
                       /\ pc[p] = "w_asleep" => Full /\ readopen = 1

\* End of file is real: read() returns 0 for n > 0 only when all writers are
\* gone and everything they wrote has been read (or copyout() failed, which
\* takes a byte out).  A reader woken for bytes that another reader took
\* must not take that for the end.
EofIsReal ==
  [][\A p \in Reader :
       pc[p] = "r_copy" /\ pc'[p] = "user" /\ i[p] = 0 /\ n[p] > 0 /\ nread' = nread
       => Empty /\ writeopen = 0]_vars

\* pipeclose() frees the page of the pipe only when no process can still
\* touch it: none is inside a call on it, none can start one.
NotUsedAfterFree ==
  freed => \A p \in Proc : pc[p] = "closed"

\* The bytes between nread and nwrite, in the order they were written; the
\* counters wrap around.
Queue == [k \in 1..((nwrite - nread) % UINT) |-> data[(nread + k - 1) % PIPESIZE]]

F == INSTANCE Fifo WITH queue <- Queue, out <- ch, Capacity <- PIPESIZE

\* The ring buffer is a bounded queue: no byte is overwritten before it was
\* read, none is read twice or out of order, also when the counters wrap.
FifoSpec == F!Spec

\* Who sleeps on the pipe is woken: readers and writers cannot wait for each
\* other.
SleepersWoken ==
  \A p \in Proc : pc[p] \in {"r_asleep", "w_asleep"} ~> pc[p] \notin {"r_asleep", "w_asleep"}
===============================================================================
