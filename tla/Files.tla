-------------------------------- MODULE Files --------------------------------
(***************************************************************************)
(* What open files promise their programs: a file is a sequence of cells   *)
(* and an open file a position in one.  A piece of a write of at most      *)
(* Chunk cells happens at once, wherever the blocks of the file are.  The  *)
(* cells of a write that fails may be lost again later.                    *)
(***************************************************************************)
EXTENDS Integers, Sequences

CONSTANTS Inode, File, Data, Chunk

VARIABLES
  contents,   \* of each file, as programs read it
  stored,     \* the same without the cells that may be lost
  open        \* the file and the position of each open file

vars == <<contents, stored, open>>

Init == /\ contents = [i \in Inode |-> <<>>] /\ stored = contents
        /\ open \in [File -> [ip : Inode, off : {0}]]

\* open(), with O_TRUNC or without.
Open(f) ==
  /\ open' \in {[open EXCEPT ![f] = [ip |-> i, off |-> 0]] : i \in Inode}
  /\ \/ UNCHANGED <<contents, stored>>
     \/ /\ contents' = [contents EXCEPT ![open'[f].ip] = <<>>]
        /\ stored' = [stored EXCEPT ![open'[f].ip] = <<>>]

\* The position moves forward by at most n cells.
Move(f, n) == open' \in {[open EXCEPT ![f].off = @ + k] : k \in 1..n}
Moved(f) == open'[f].off - open[f].off

Read(f) ==
  /\ Move(f, Len(contents[open[f].ip]) - open[f].off)
  /\ UNCHANGED <<contents, stored>>

\* s with n cells d from position off on, and no longer than len.
Put(s, off, d, n, len) ==
  [x \in 1..len |-> IF x - 1 \in off..(off + n - 1) THEN d ELSE s[x]]
Larger(a, b) == IF a > b THEN a ELSE b

\* A piece of a write, of which the program's memory may have only the first:
\* then fewer are copied, and fewer still are stored; the file grows by those.
\* The position moves over the whole piece even then.
Write(f) ==
  LET i == open[f].ip  off == open[f].off  size == Len(contents[i]) IN
  /\ Move(f, Chunk)
  /\ off <= size
  /\ \E d \in Data, copied \in 0..Moved(f) : \E kept \in 0..copied :
       LET len == Larger(size, off + kept) IN
       /\ kept < copied => copied < Moved(f)
       /\ contents' = [contents EXCEPT ![i] = Put(@, off, d, copied, len)]
       /\ stored' = [stored EXCEPT ![i] = Put(@, off, d, kept, len)]

\* Some cells of s have become those of t.
Mixed(new, s, t) == Len(new) = Len(s) /\ \A x \in 1..Len(s) : new[x] \in {s[x], t[x]}

\* Some of the cells that may be lost are stored after all, or are lost.
Keep(i) ==
  /\ UNCHANGED <<open, contents>>
  /\ Mixed(stored'[i], stored[i], contents[i])
  /\ stored' = [stored EXCEPT ![i] = stored'[i]]
Lose(i) ==
  /\ UNCHANGED <<open, stored>>
  /\ Mixed(contents'[i], contents[i], stored[i])
  /\ contents' = [contents EXCEPT ![i] = contents'[i]]

Next == \/ \E f \in File : Open(f) \/ Read(f) \/ Write(f)
        \/ \E i \in Inode : Keep(i) \/ Lose(i)

Spec == Init /\ [][Next]_vars
==============================================================================
