------------------------------- MODULE MCMemory -------------------------------
(* Instances of Memory for TLC. *)
EXTENDS Memory, TLC

\* One segment that ends inside a page; two, the second of which ends below
\* the first.
TwoImages == {<<1>>, <<3, 2>>}
===============================================================================
