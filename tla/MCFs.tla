--------------------------------- MODULE MCFs ---------------------------------
(* Instances of Fs for TLC. *)
EXTENDS Fs, TLC

Call(op, path) == [op |-> op, path |-> path, new |-> <<>>]

\* Two names in the root and one in the subdirectory; "a" may be a file or, in
\* the subdirectory, a directory, with the way up from it.
TreeCalls ==
  { Call("mkdir", <<"/", "d">>), Call("unlink", <<"/", "d">>),
    Call("creat", <<"/", "d", "a">>), Call("mkdir", <<"/", "d", "a">>),
    Call("unlink", <<"/", "d", "a">>),
    [op |-> "link", path |-> <<"/", "d", "a">>, new |-> <<"/", "a">>],
    Call("unlink", <<"/", "a">>), Call("chdir", <<"/", "d", "a">>),
    Call("chdir", <<"..">>), Call("openw", <<"/", "a">>), Call("unlink", <<".">>) }

Symmetry == Permutations(Proc) \union Permutations(Inum \ {ROOTINO})
===============================================================================
