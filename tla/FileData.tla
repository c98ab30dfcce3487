------------------------------- MODULE FileData -------------------------------
(***************************************************************************)
(* The contents of files: balloc(), bfree(), bmap(), itrunc(), readi() and *)
(* writei() of kernel/fs.c, under fileread(), filewrite() of kernel/file.c *)
(* and open() with O_TRUNC.                                                *)
(*                                                                         *)
(* Grain: one block of a read, a write or a truncation is one action; the  *)
(* buffer lock of the bitmap block makes each balloc() and bfree() atomic. *)
(* A block is BSIZE cells of the size of a block number, so that it holds  *)
(* data or, as an indirect block, BSIZE block numbers.  The free map is    *)
(* one block (FSSIZE <= BPB).  Log models what a transaction does with the *)
(* blocks written here; Fs models names, descriptors and inode references. *)
(* A copy from the program that fails leaves cells in a buffer that is not *)
(* logged: they are there until the cache recycles the buffer.             *)
(***************************************************************************)
EXTENDS Integers, Sequences, FiniteSets

CONSTANTS
  Proc,         \* processes
  Inode,        \* inodes of plain files
  File,         \* open files (struct file), any process may have any of them
  Data,         \* what a program writes into a cell
  Lengths,      \* of reads and writes
  Goods,        \* how much of a buffer is there in the memory of the program
  NBLOCK,       \* data blocks of the disk
  BSIZE,        \* cells of a block
  NDIRECT,      \* direct blocks of an inode
  MAXOPBLOCKS,  \* param.h: blocks one transaction may write
  UINT,         \* where unsigned int wraps around (2^32 in the code)
  MaxCalls      \* bound on the reads, writes and opens of a behaviour

Block == 1..NBLOCK
BitmapBlock == NBLOCK + 1
InodeBlock == NBLOCK + 2
NINDIRECT == BSIZE
MAXFILE == NDIRECT + NINDIRECT
\* filewrite(): cells of one transaction.
Chunk == ((MAXOPBLOCKS - 1 - 1 - 2) \div 2) * BSIZE

ASSUME FileDataAssumption ==
  /\ NBLOCK \in Nat \ {0} /\ BSIZE \in Nat \ {0} /\ NDIRECT \in Nat
  /\ MAXOPBLOCKS \in Nat /\ MAXOPBLOCKS >= 6 /\ MaxCalls \in Nat
  /\ Data \subseteq Nat \ {0} /\ Goods \subseteq Nat
  /\ UINT \in Nat /\ UINT > 2 * MAXFILE * BSIZE /\ Lengths \subseteq 1..(UINT \div 2)

VARIABLES
  used,       \* blocks marked in the free map
  data,       \* their cells, as bread() returns them
  under,      \* what log and disk have of a block with cells not logged, or <<>>
  pins,       \* those logged and not committed, whose buffers stay
  mem,        \* struct inode: size and addrs
  dino,       \* struct dinode
  lock,       \* holder of ip->lock, or "nobody"
  file,       \* ip and off of each open file
  th,         \* where each process is in its call, with its locals
  calls       \* calls so far, for the bound MaxCalls only

vars == <<used, data, under, pins, mem, dino, lock, file, th, calls>>

\* balloc() zeroes a block; a free one holds whatever was there, here always the
\* same: cells that are neither a hole nor the end of a list of blocks.
Junk == [x \in 0..(BSIZE - 1) |-> 1]
Zero == [x \in 0..(BSIZE - 1) |-> 0]
Empty == [size |-> 0, addrs |-> [d \in 0..NDIRECT |-> 0]]
Idle == [pc |-> "idle", op |-> "none", f |-> 0, ip |-> 0, v |-> 0, n |-> 0, n1 |-> 0, tot |-> 0,
         good |-> 0, logged |-> {}]

Init ==
  /\ used = {} /\ data = [b \in Block |-> Junk]
  /\ under = [b \in Block |-> <<>>] /\ pins = {}
  /\ mem = [i \in Inode |-> Empty] /\ dino = mem
  /\ lock = [i \in Inode |-> "nobody"]
  /\ file \in [File -> [ip : Inode, off : {0}]]
  /\ th = [p \in Proc |-> Idle] /\ calls = 0

At(p, label) == th[p].pc = label
Smaller(a, b) == IF a < b THEN a ELSE b
Larger(a, b) == IF a > b THEN a ELSE b

--------------------------------------------------------------------------------
\* Blocks.  The operators below work on s, the state a call is about to change:
\* the map, the cells, the locked inode, what the transaction has logged, and
\* addr, the block number that was returned.

State(p) == [used |-> used, data |-> data, ip |-> mem[th[p].ip],
             logged |-> th[p].logged, addr |-> 0]

balloc_NotZeroed(s) ==
  LET b == CHOOSE b \in Block \ s.used : \A c \in Block \ s.used : b <= c IN
  [s EXCEPT !.used = @ \union {b}, !.addr = b, !.logged = @ \union {BitmapBlock, b}]

\* balloc() and the bzero() it ends with.
balloc(s) ==
  LET b == CHOOSE b \in Block \ s.used : \A c \in Block \ s.used : b <= c IN
  [s EXCEPT !.used = @ \union {b}, !.data[b] = Zero, !.addr = b,
            !.logged = @ \union {BitmapBlock, b}]

\* A slot of addrs: its block, allocated if there is none yet.
Slot(s, d) ==
  IF s.ip.addrs[d] # 0 THEN [s EXCEPT !.addr = s.ip.addrs[d]]
  ELSE LET t == balloc(s) IN [t EXCEPT !.ip.addrs[d] = t.addr]

\* An entry of the indirect block ind.
Entry(s, ind, j) ==
  IF s.data[ind][j] # 0 THEN [s EXCEPT !.addr = s.data[ind][j]]
  ELSE LET t == balloc(s) IN
       [t EXCEPT !.data[ind][j] = t.addr, !.logged = @ \union {ind}]

bmap(s, bn) ==
  IF bn < NDIRECT THEN Slot(s, bn)
  ELSE LET t == Slot(s, NDIRECT) IN Entry(t, t.addr, bn - NDIRECT)

\* How many blocks bmap() will take; with fewer left balloc() panics.
Wanted(ip, bn) ==
  IF bn < NDIRECT THEN IF ip.addrs[bn] = 0 THEN 1 ELSE 0
  ELSE IF ip.addrs[NDIRECT] = 0 THEN 2
  ELSE IF data[ip.addrs[NDIRECT]][bn - NDIRECT] = 0 THEN 1 ELSE 0
Room(ip, bn) == Wanted(ip, bn) <= Cardinality(Block \ used)

--------------------------------------------------------------------------------
\* Calls.  The program's memory holds only the first good cells of the buffer.

Called(p) == At(p, "idle") /\ calls < MaxCalls /\ calls' = calls + 1
Return(p) == th' = [th EXCEPT ![p] = Idle]
Lock(p, i) == lock[i] = "nobody" /\ lock' = [lock EXCEPT ![i] = p]
Unlock(p) == lock' = [lock EXCEPT ![th[p].ip] = "nobody"]

\* A length that is negative in the call is close to UINT here.
Negative == UINT - 1
Wraps(off, n) == (off + n) % UINT < off

\* fileread(): ilock(), and the checks of readi().
fileread(p, f, n, good) ==
  LET i == file[f].ip  rest == mem[i].size - file[f].off IN
  /\ Called(p) /\ rest > 0 /\ ~Wraps(file[f].off, n)
  /\ Lock(p, i)
  /\ th' = [th EXCEPT ![p] = [Idle EXCEPT !.pc = "copy", !.op = "read", !.f = f, !.ip = i,
                               !.n1 = Smaller(n, rest), !.good = Smaller(good, Smaller(n, rest))]]
  /\ UNCHANGED <<used, data, under, pins, mem, dino, file>>

\* filewrite(): begin_op(), ilock() and the checks of writei(), for the first
\* n cells of what is left to write in t.
TooFar_AnyOffset(i, off, n) == Wraps(off, n) \/ off + n > MAXFILE * BSIZE
TooFar(i, off, n) == off > mem[i].size \/ Wraps(off, n) \/ off + n > MAXFILE * BSIZE

Piece(p, t) ==
  LET o == file[t.f]  n1 == Smaller(t.n, Chunk) IN
  /\ lock[o.ip] = "nobody"
  /\ IF TooFar(o.ip, o.off, n1)
     THEN Return(p) /\ UNCHANGED lock
     ELSE /\ Lock(p, o.ip)
          /\ th' = [th EXCEPT ![p] = [t EXCEPT !.pc = "copy", !.ip = o.ip, !.n1 = n1]]
  /\ UNCHANGED <<used, data, under, pins, mem, dino, file>>

filewrite(p, f, v, n, good) ==
  /\ Called(p)
  /\ Piece(p, [Idle EXCEPT !.op = "write", !.f = f, !.v = v, !.n = n,
                           !.good = Smaller(good, n)])

filewrite_next(p) == At(p, "begin") /\ Piece(p, th[p]) /\ UNCHANGED calls

Offset(p) == file[th[p].f].off + th[p].tot
\* Cells of this turn of the loop.
Part(p) == Smaller(th[p].n1 - th[p].tot, BSIZE - (Offset(p) % BSIZE))
Copied(p) == th[p].tot + Part(p) <= th[p].good
After(p) == IF Copied(p) /\ th[p].tot + Part(p) < th[p].n1 THEN "copy" ELSE "end"

\* One turn of the loop of readi().
readi(p) ==
  LET s == bmap(State(p), Offset(p) \div BSIZE) IN
  /\ At(p, "copy") /\ th[p].op = "read" /\ Room(mem[th[p].ip], Offset(p) \div BSIZE)
  /\ used' = s.used /\ data' = s.data /\ mem' = [mem EXCEPT ![th[p].ip] = s.ip]
  /\ th' = [th EXCEPT ![p].pc = After(p), ![p].logged = s.logged,
                      ![p].tot = IF Copied(p) THEN @ + Part(p) ELSE @]
  /\ pins' = pins \union (s.logged \cap Block)
  /\ UNCHANGED <<under, dino, lock, file, calls>>

\* One turn of the loop of writei().  When either_copyin() fails, the cells that
\* it has copied stay in a buffer that is not logged; if the block is in the log
\* already, they will be committed with it.
writei(p) ==
  LET t == th[p]
      s == bmap(State(p), Offset(p) \div BSIZE)
      b == s.addr
      first == Offset(p) % BSIZE
      m == IF Copied(p) THEN Part(p) ELSE t.good - t.tot
      new == [x \in DOMAIN Zero |-> IF x \in first..(first + m - 1) THEN t.v ELSE s.data[b][x]]
      logged == IF Copied(p) THEN s.logged \union {b} ELSE s.logged
  IN
  /\ At(p, "copy") /\ t.op = "write" /\ Room(mem[t.ip], Offset(p) \div BSIZE)
  /\ used' = s.used /\ mem' = [mem EXCEPT ![t.ip] = s.ip]
  /\ data' = [s.data EXCEPT ![b] = new]
  /\ pins' = pins \union (logged \cap Block)
  /\ under' = [under EXCEPT ![b] = IF b \in pins' THEN <<>>
                                   ELSE IF @ = <<>> /\ new # data[b] THEN data[b] ELSE @]
  /\ th' = [th EXCEPT ![p].pc = After(p), ![p].logged = logged,
                      ![p].tot = IF Copied(p) THEN @ + Part(p) ELSE @]
  /\ UNCHANGED <<dino, lock, file, calls>>

\* bget() takes the buffer of block b for another one.
recycle(b) ==
  /\ under[b] # <<>>
  /\ data' = [data EXCEPT ![b] = under[b]]
  /\ under' = [under EXCEPT ![b] = <<>>]
  /\ UNCHANGED <<used, pins, mem, dino, lock, file, th, calls>>

\* fileread() after readi().
fileread_end(p) ==
  /\ At(p, "end") /\ th[p].op = "read"
  /\ file' = [file EXCEPT ![th[p].f].off = @ + th[p].tot]
  /\ Unlock(p) /\ Return(p)
  /\ UNCHANGED <<used, data, under, pins, mem, dino, calls>>

iupdate_IfGrown(i, ip) ==
  /\ mem' = [mem EXCEPT ![i] = ip]
  /\ dino' = IF ip.size # mem[i].size THEN [dino EXCEPT ![i] = ip] ELSE dino

\* A change of the size, and iupdate().
iupdate(i, ip) ==
  /\ mem' = [mem EXCEPT ![i] = ip]
  /\ dino' = [dino EXCEPT ![i] = ip]

\* The end of writei(), which returns n, and of its transaction in filewrite().
writei_end(p) ==
  LET t == th[p] IN
  /\ At(p, "end") /\ t.op = "write"
  /\ iupdate(t.ip, [mem[t.ip] EXCEPT !.size = Larger(@, Offset(p))])
  /\ file' = [file EXCEPT ![t.f].off = @ + t.n1]
  /\ Unlock(p)
  /\ th' = [th EXCEPT ![p].pc = "end_op", ![p].logged = @ \union {InodeBlock}]
  /\ UNCHANGED <<used, data, under, pins, calls>>

\* The last call of a transaction commits it, and its buffers are unpinned.
Outstanding(p) == th[p].op \in {"write", "trunc"} /\ th[p].pc # "begin"
Commit(p) == IF \E q \in Proc \ {p} : Outstanding(q) THEN pins ELSE {}

\* filewrite(): the next transaction of the same call, or the end.
end_op(p) ==
  LET t == th[p] IN
  /\ At(p, "end_op")
  /\ th' = [th EXCEPT ![p] = IF t.n > t.n1
       THEN [t EXCEPT !.pc = "begin", !.ip = 0, !.n = @ - t.n1, !.n1 = 0, !.tot = 0,
                      !.good = Larger(@ - t.n1, 0), !.logged = {}]
       ELSE Idle]
  /\ pins' = Commit(p)
  /\ UNCHANGED <<used, data, under, mem, dino, lock, file, calls>>

--------------------------------------------------------------------------------
\* open(), with O_TRUNC or without, of an open file nobody is using; and itrunc().

InUse(f) == \E p \in Proc : th[p].f = f /\ th[p].op # "none"

sys_open(p, f, i, trunc) ==
  /\ Called(p) /\ ~InUse(f) /\ lock[i] = "nobody"
  /\ file' = [file EXCEPT ![f] = [ip |-> i, off |-> 0]]
  /\ IF trunc THEN /\ Lock(p, i)
                   /\ th' = [th EXCEPT ![p] = [Idle EXCEPT !.pc = "free", !.op = "trunc",
                                                !.f = f, !.ip = i]]
              ELSE UNCHANGED <<lock, th>>
  /\ UNCHANGED <<used, data, under, pins, mem, dino>>

\* The k-th block of a file, counting those behind the indirect block last.
Nth(ip, k) ==
  IF k < NDIRECT THEN ip.addrs[k]
  ELSE IF ip.addrs[NDIRECT] = 0 THEN 0 ELSE data[ip.addrs[NDIRECT]][k - NDIRECT]

\* bfree(), if there is a block; one that is free already is a panic.
bfree(b) == (b = 0 \/ b \in used) /\ used' = used \ {b}
           /\ data' = [c \in Block |-> IF c = b THEN Junk ELSE data[c]]
           /\ under' = [c \in Block |-> IF c = b THEN <<>> ELSE under[c]]
Freed(p, b) == IF b = 0 THEN th[p].logged ELSE th[p].logged \union {BitmapBlock}

\* One turn of the loops of itrunc(); the indirect block itself is not cleared.
itrunc(p) ==
  LET t == th[p]  b == Nth(mem[t.ip], t.tot) IN
  /\ At(p, "free") /\ t.tot < MAXFILE
  /\ bfree(b)
  /\ mem' = IF t.tot < NDIRECT THEN [mem EXCEPT ![t.ip].addrs[t.tot] = 0] ELSE mem
  /\ th' = [th EXCEPT ![p].tot = @ + 1, ![p].logged = Freed(p, b)]
  /\ UNCHANGED <<pins, dino, lock, file, calls>>

\* The indirect block, the size and iupdate(); then iunlock() in open().
itrunc_end(p) ==
  LET t == th[p]  ind == mem[t.ip].addrs[NDIRECT] IN
  /\ At(p, "free") /\ t.tot = MAXFILE
  /\ bfree(ind)
  /\ iupdate(t.ip, Empty)
  /\ Unlock(p)
  /\ th' = [th EXCEPT ![p].pc = "end_op", ![p].logged = Freed(p, ind) \union {InodeBlock}]
  /\ UNCHANGED <<pins, file, calls>>

--------------------------------------------------------------------------------
Step(p) ==
  \/ \E f \in File, n \in Lengths \union {Negative}, good \in Goods : fileread(p, f, n, good)
  \/ readi(p) \/ fileread_end(p)
  \/ \E f \in File, v \in Data, n \in Lengths, good \in Goods : filewrite(p, f, v, n, good)
  \/ filewrite_next(p) \/ writei(p) \/ writei_end(p) \/ end_op(p)
  \/ \E f \in File, i \in Inode, trunc \in BOOLEAN : sys_open(p, f, i, trunc)
  \/ itrunc(p) \/ itrunc_end(p)

Next == (\E p \in Proc : Step(p)) \/ (\E b \in Block : recycle(b))

Spec == Init /\ [][Next]_vars

--------------------------------------------------------------------------------
\* Properties.

\* Where block numbers are kept: slots of inodes, the one of the indirect block
\* being MAXFILE.  A truncation is done with the ones below its counter.
Truncating(i) == lock[i] # "nobody" /\ th[lock[i]].op = "trunc"
Done(i) == IF Truncating(i) THEN th[lock[i]].tot ELSE 0
SlotBlock(i, k) ==
  IF k = MAXFILE THEN mem[i].addrs[NDIRECT] ELSE IF k < Done(i) THEN 0 ELSE Nth(mem[i], k)
Slots == {x \in Inode \X (0..MAXFILE) : SlotBlock(x[1], x[2]) # 0}

\* Every block marked in the free map is in exactly one place of one inode, and
\* no block in use is marked free, at every step of writes and truncations that
\* run together (balloc(), bfree(), bmap(), itrunc()); and the inode on the disk
\* is the one in memory whenever it is not locked (iupdate()).
BlocksExact ==
  /\ used \subseteq Block
  /\ \A i \in Inode : mem[i].size \in 0..(MAXFILE * BSIZE)
  /\ {SlotBlock(x[1], x[2]) : x \in Slots} = used
  /\ \A x, y \in Slots : SlotBlock(x[1], x[2]) = SlotBlock(y[1], y[2]) => x = y
  /\ \A i \in Inode : lock[i] = "nobody" => dino[i] = mem[i]

\* A transaction of filewrite() or open() logs at most the blocks the proofs about
\* the log allow it (two less than MAXOPBLOCKS), with the write not aligned and
\* every block new; and a read, which is outside of any transaction, logs none,
\* since no file has a hole that bmap() would fill.
TransFits == \A p \in Proc :
  /\ Cardinality(th[p].logged) <= MAXOPBLOCKS - 2
  /\ th[p].op = "read" => th[p].logged = {}

\* The calls as they appear to programs: at the moment the inode is locked.

\* Cells that readi() and writei() count.
Counted(t, off) ==
  IF t.good >= t.n1 THEN t.n1 ELSE Larger(((off + t.good) \div BSIZE) * BSIZE - off, 0)

Cell(i, x) == data[Nth(mem[i], x \div BSIZE)][x % BSIZE]
UnderCell(i, x) ==
  LET b == Nth(mem[i], x \div BSIZE) IN IF under[b] = <<>> THEN Cell(i, x) ELSE under[b][x % BSIZE]
Moving(t, f) == t.f = f /\ t.pc \in {"copy", "end"}

absOpen == [f \in File |-> [ip |-> file[f].ip, off |-> file[f].off +
  IF \E p \in Proc : Moving(th[p], f)
  THEN LET t == th[CHOOSE p \in Proc : Moving(th[p], f)] IN
       IF t.op = "write" THEN t.n1 ELSE Counted(t, file[f].off)
  ELSE 0]]

\* A write shows what it will log, and until it gets there what it will copy.
Writing(i) == lock[i] # "nobody" /\ th[lock[i]].op = "write"
WillLog(i) ==
  IF Writing(i) THEN LET t == th[lock[i]]  off == file[t.f].off IN off..(off + Counted(t, off) - 1)
  ELSE {}
WillCopy(i) ==
  IF Writing(i) /\ th[lock[i]].pc = "copy"
  THEN LET t == th[lock[i]]  off == file[t.f].off IN off..(off + Smaller(t.good, t.n1) - 1)
  ELSE {}
Length(i) ==
  IF Truncating(i) THEN 0
  ELSE IF WillLog(i) = {} THEN mem[i].size
  ELSE LET t == th[lock[i]]  off == file[t.f].off IN Larger(mem[i].size, off + Counted(t, off))

absContents == [i \in Inode |->
  LET new == WillLog(i) \union WillCopy(i) IN
  [x \in 1..Length(i) |-> IF x - 1 \in new THEN th[lock[i]].v ELSE Cell(i, x - 1)]]
absStored == [i \in Inode |->
  LET new == WillLog(i) IN
  [x \in 1..Length(i) |-> IF x - 1 \in new THEN th[lock[i]].v ELSE UnderCell(i, x - 1)]]

Abs == INSTANCE Files WITH contents <- absContents, stored <- absStored, open <- absOpen

\* Programs see files as sequences of cells: however reads, writes and truncations
\* through several open files interleave, each transaction of a write appears at
\* once, at the position of its open file, changes no other file, and shows no
\* cell that was not written (a hole, or the old contents of a reused block).  A
\* cell changes without a write in one way: one that a write copied before it
\* failed, into a buffer that it did not log, may go back to what it was.
FileSpec == Abs!Spec
===============================================================================
