------------------------------ MODULE MCFileData ------------------------------
(* An instance of FileData for TLC. *)
EXTENDS FileData, TLC

Symmetry == Permutations(Proc) \union Permutations(File) \union Permutations(Inode)
===============================================================================
