-------------------------------- MODULE MCProc --------------------------------
(* Instances of Proc for TLC. *)
EXTENDS Proc

\* Three slots and four pids; every call in any order, and every failure.
Anything == [nproc |-> 3, forks |-> (1..4) \X (1..4), waits |-> 1..4, exits |-> 1..4,
             kills |-> {3}, failures |-> {"trapframe", "memory", "copyout"}]

\* Four slots and a line of five generations, any of which but the last may
\* exit while init collects: a slot is reused below the process that had its
\* former owner as its parent.
Line == [nproc |-> 4, forks |-> {<<n, n + 1>> : n \in 1..4}, waits |-> {1, 3},
         exits |-> 2..4, kills |-> {}, failures |-> {}]

AnyWorld == {Anything, Line}
OneLine == {Line}
===============================================================================
