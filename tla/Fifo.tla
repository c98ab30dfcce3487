--------------------------------- MODULE Fifo ---------------------------------
(***************************************************************************)
(* What a pipe promises to the processes at its two ends: a bounded queue  *)
(* of bytes.  A byte goes in at the end while the write end is open and    *)
(* comes out at the front, once, while the read end is open.               *)
(***************************************************************************)
EXTENDS Naturals, Sequences

CONSTANTS Byte, Capacity, NoByte

VARIABLES queue, out, readopen, writeopen

fvars == <<queue, out, readopen, writeopen>>

Init == queue = <<>> /\ out = NoByte /\ readopen = 1 /\ writeopen = 1

Put(b) ==
  /\ writeopen = 1 /\ Len(queue) < Capacity
  /\ queue' = Append(queue, b)
  /\ UNCHANGED <<out, readopen, writeopen>>

Take ==
  /\ readopen = 1 /\ queue # <<>>
  /\ out' = Head(queue)
  /\ queue' = Tail(queue)
  /\ UNCHANGED <<readopen, writeopen>>

CloseRead == readopen = 1 /\ readopen' = 0 /\ UNCHANGED <<queue, out, writeopen>>
CloseWrite == writeopen = 1 /\ writeopen' = 0 /\ UNCHANGED <<queue, out, readopen>>

Next == (\E b \in Byte : Put(b)) \/ Take \/ CloseRead \/ CloseWrite

Spec == Init /\ [][Next]_fvars
===============================================================================
