---------------------------------- MODULE Tty ---------------------------------
(***************************************************************************)
(* What the console promises to who reads it: lines.  Typed characters can *)
(* be erased until their line is complete; what is complete is read once,  *)
(* in order.                                                               *)
(***************************************************************************)
EXTENDS Naturals, Sequences

CONSTANTS Typed, Capacity

VARIABLES edit, line    \* the line being typed, the characters to read

tvars == <<edit, line>>

Init == edit = <<>> /\ line = <<>>

\* A character is added to the line, and ends it or not.
Type(c) ==
  /\ Len(line) + Len(edit) < Capacity
  /\ IF c \in {"newline", "eof"} \/ Len(line) + Len(edit) + 1 = Capacity
     THEN line' = line \o Append(edit, c) /\ edit' = <<>>
     ELSE edit' = Append(edit, c) /\ UNCHANGED line

Erase == edit # <<>> /\ edit' = SubSeq(edit, 1, Len(edit) - 1) /\ UNCHANGED line
Kill == edit' = <<>> /\ UNCHANGED line
Read == line # <<>> /\ line' = Tail(line) /\ UNCHANGED edit

Next == (\E c \in Typed \union {"newline", "eof"} : Type(c)) \/ Erase \/ Kill \/ Read

Spec == Init /\ [][Next]_tvars
===============================================================================
