------------------------------- MODULE MCBcache -------------------------------
(* Instances of Bcache for TLC. *)
EXTENDS Bcache

Symmetry == Permutations(Proc) \cup Permutations(Block) \cup Permutations(Data)
===============================================================================
