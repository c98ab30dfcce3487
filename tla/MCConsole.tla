------------------------------- MODULE MCConsole ------------------------------
(* Instances of Console for TLC. *)
EXTENDS Console, TLC

\* The written characters are interchangeable.
Symmetry == Permutations(Written)
===============================================================================
