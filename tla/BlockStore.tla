------------------------------ MODULE BlockStore ------------------------------
(***************************************************************************)
(* What kernel/bio.c promises: one current contents for each block, and at *)
(* most one process at a time that uses it.  There are no buffers here.    *)
(***************************************************************************)
CONSTANTS Proc, Block, Data, NoProc

VARIABLES value, owner

bsvars == <<value, owner>>

Init == value \in [Block -> Data] /\ owner = [b \in Block |-> NoProc]

\* bread() and brelse()
Lock(p, b) == /\ owner[b] = NoProc
              /\ owner' = [owner EXCEPT ![b] = p] /\ UNCHANGED value
Unlock(p, b) == /\ owner[b] = p
                /\ owner' = [owner EXCEPT ![b] = NoProc] /\ UNCHANGED value

Change(p, b, v) == /\ owner[b] = p
                   /\ value' = [value EXCEPT ![b] = v] /\ UNCHANGED owner

Next == \E p \in Proc, b \in Block :
          Lock(p, b) \/ Unlock(p, b) \/ \E v \in Data : Change(p, b, v)

Spec == Init /\ [][Next]_bsvars
===============================================================================
