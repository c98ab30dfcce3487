-------------------------------- MODULE Memory --------------------------------
(***************************************************************************)
(* Physical memory (kernel/kalloc.c) and user address spaces (kernel/vm.c) *)
(* through the calls that change them: fork(), exec(), sbrk(), exit() and  *)
(* wait(), several of them at a time, any of which may find the free list  *)
(* empty at any point.                                                     *)
(*                                                                         *)
(* Grain: a kalloc() is one step; pages that are freed one after the other *)
(* are freed in one step, which only makes the list longer.  The free list *)
(* is its length: which page kalloc() returns never matters.  Sizes count  *)
(* parts of a page, so that they need not be aligned.                      *)
(***************************************************************************)
EXTENDS Integers, Sequences, FiniteSets, FiniteSetsExt, Functions

CONSTANTS
  Slot, initproc,  \* proc[], and the slot of the first process
  NPAGE,           \* pages that kinit() puts on the free list
  PGSIZE,          \* parts of a page
  RADIX,           \* entries of a page-table page (512 in the code)
  MaxPages,        \* largest address space of a user program, in pages
  MaxArg,          \* most arguments of exec()
  Images           \* programs: where each of the segments ends

MAXVA == (RADIX * RADIX * RADIX) \div 2     \* in pages
TRAMPOLINE == MAXVA - 1
TRAPFRAME == MAXVA - 2
Top == {TRAMPOLINE, TRAPFRAME}

ASSUME MemoryAssumption ==
  /\ initproc \in Slot /\ RADIX \in Nat \ {0, 1} /\ PGSIZE \in Nat \ {0} /\ MaxArg \in Nat
  /\ NPAGE \in Nat /\ NPAGE > 8
  /\ MaxPages \in Nat /\ MaxPages < TRAPFRAME
  /\ \A img \in Images : \A k \in DOMAIN img : img[k] \in 1..((MaxPages - 2) * PGSIZE)

VARIABLES
  nfree,         \* length of kmem.freelist
  state, tf,     \* of a slot: the process, and its trapframe page
  as, sz,        \* p->pagetable and p->sz
  th             \* the system call that the process is in

vars == <<nfree, state, tf, as, sz, th>>

\* A page table: its root, the table pages below it, the pages mapped.
NoSpace == [root |-> 0, nodes |-> {}, leaves |-> {}]

\* The table pages on the path of walk() to a page, from the top.
Path(v) == << <<1, v \div (RADIX * RADIX)>>, <<0, v \div RADIX>> >>

RoundUp(n) == (n + PGSIZE - 1) \div PGSIZE     \* PGROUNDUP, in pages

\* op: the call; space: the page table it works on, its own (sbrk), the
\* child's (fork) or the new one (exec); size: the part of it that is done;
\* next, end: the page and the size it is going for; mem: a page that is
\* allocated and not mapped yet.
Idle == [op |-> "user", pc |-> "user", space |-> NoSpace, size |-> 0, next |-> 0, end |-> 0,
         mem |-> 0, args |-> 0, child |-> 0, segs |-> <<>>]

\* userinit(): one page of user memory.
Init ==
  /\ state = [s \in Slot |-> IF s = initproc THEN "USED" ELSE "UNUSED"]
  /\ tf = [s \in Slot |-> IF s = initproc THEN 1 ELSE 0]
  /\ sz = [s \in Slot |-> IF s = initproc THEN PGSIZE ELSE 0]
  /\ LET leaves == {0} \union Top
         space == [root |-> 1, nodes |-> UNION {Range(Path(v)) : v \in leaves}, leaves |-> leaves] IN
     /\ as = [s \in Slot |-> IF s = initproc THEN space ELSE NoSpace]
     /\ nfree = NPAGE - 3 - Cardinality(space.nodes)
  /\ th = [s \in Slot |-> Idle]

Call(s, c) == th' = [th EXCEPT ![s] = c]
Return(s) == Call(s, Idle)
User(s) == state[s] = "USED" /\ th[s] = Idle

--------------------------------------------------------------------------------
\* Giving back: what the loops of the code free, whatever is mapped.

Between(from, to) == from..(to - 1)

\* uvmunmap(), from page a up to b.
Unmap(space, a, b) == [space EXCEPT !.leaves = @ \ Between(a, b)]

\* The table pages that freewalk() reaches from the root.
freewalk(space) ==
  space.root + Cardinality({n \in space.nodes : n[1] = 1 \/ <<1, n[2] \div RADIX>> \in space.nodes})

\* proc_freepagetable(): the pages freed.
proc_freepagetable(space, size) == RoundUp(size) + freewalk(space)

\* uvmalloc() and uvmcopy() take back what they have mapped, from the page
\* that size ends in up to the one they could not get.
TakenBack(c) == IF c.next \in Top THEN 0 ELSE c.next - RoundUp(c.size)

fail_KeepsMem(s) ==
  LET c == th[s] IN
  /\ nfree' = nfree + TakenBack(c)
              + (CASE c.op = "sbrk" -> 0
                   [] c.op = "fork" -> 1 + freewalk(c.space)
                   [] c.op = "exec" -> c.args + RoundUp(c.size) + freewalk(c.space))
  /\ as' = IF c.op = "sbrk" THEN [as EXCEPT ![s] = Unmap(c.space, RoundUp(c.size), c.next)] ELSE as
  /\ IF c.op = "fork"
     THEN state' = [state EXCEPT ![c.child] = "UNUSED"] /\ tf' = [tf EXCEPT ![c.child] = 0]
     ELSE UNCHANGED <<state, tf>>
  /\ Return(s) /\ UNCHANGED sz

\* The error paths after a failed kalloc(): of proc_pagetable(), of uvmalloc()
\* or uvmcopy(), and then of allocproc(), fork(), growproc(), exec() and
\* sys_exec(), up to the return of the call.
fail(s) ==
  LET c == th[s] IN
  /\ nfree' = nfree + c.mem + TakenBack(c)
              + (CASE c.op = "sbrk" -> 0
                   [] c.op = "fork" -> 1 + freewalk(c.space)
                   [] c.op = "exec" -> c.args + RoundUp(c.size) + freewalk(c.space))
  /\ as' = IF c.op = "sbrk" THEN [as EXCEPT ![s] = Unmap(c.space, RoundUp(c.size), c.next)] ELSE as
  /\ IF c.op = "fork"
     THEN state' = [state EXCEPT ![c.child] = "UNUSED"] /\ tf' = [tf EXCEPT ![c.child] = 0]
     ELSE UNCHANGED <<state, tf>>
  /\ Return(s) /\ UNCHANGED sz

\* kalloc(), and what the call does with the page or without it.
kalloc(s, c) ==
  IF nfree = 0
  THEN fail(s)
  ELSE nfree' = nfree - 1 /\ Call(s, c) /\ UNCHANGED <<state, tf, as, sz>>

--------------------------------------------------------------------------------
\* Building an address space.

\* uvmcreate() in proc_pagetable()
uvmcreate(s) ==
  /\ th[s].pc = "uvmcreate"
  /\ kalloc(s, [th[s] EXCEPT !.space.root = 1, !.pc = "mappages", !.next = TRAMPOLINE])

\* mappages() of one page: walk() allocates what is missing of the path.
Missing(c) == SelectSeq(Path(c.next), LAMBDA n : n \notin c.space.nodes)

walk(s) ==
  /\ th[s].pc = "mappages" /\ Missing(th[s]) # <<>>
  /\ kalloc(s, [th[s] EXCEPT !.space.nodes = @ \union {Head(Missing(th[s]))}])

mappages(s) ==
  LET c == th[s]
      mapped == [c EXCEPT !.space.leaves = @ \union {c.next}, !.mem = 0] IN
  /\ c.pc = "mappages" /\ Missing(c) = <<>>
  /\ Call(s, CASE c.next = TRAMPOLINE -> [mapped EXCEPT !.next = TRAPFRAME]
               [] c.next = TRAPFRAME -> [mapped EXCEPT !.next = 0,
                                                       !.pc = IF c.op = "fork" THEN "pages" ELSE "segment"]
               [] OTHER -> [mapped EXCEPT !.next = c.next + 1, !.pc = "pages"])
  /\ UNCHANGED <<nfree, state, tf, as, sz>>

\* A turn of the loops of uvmalloc() and uvmcopy(): a page, to be mapped.
page(s) ==
  /\ th[s].pc = "pages" /\ th[s].next * PGSIZE < th[s].end
  /\ kalloc(s, [th[s] EXCEPT !.mem = 1, !.pc = "mappages"])

uvmalloc(s) == th[s].op # "fork" /\ page(s)

\* A page that the parent does not have is a panic.
uvmcopy(s) == th[s].op = "fork" /\ th[s].next \in as[s].leaves /\ page(s)

\* The loop is at its end.
Built(s, op) == th[s].op = op /\ th[s].pc = "pages" /\ th[s].next * PGSIZE >= th[s].end

--------------------------------------------------------------------------------
\* sbrk(): growproc()

sbrk_grow_Aligned(s, n) ==
  /\ User(s) /\ sz[s] + n <= MaxPages * PGSIZE
  /\ Call(s, [Idle EXCEPT !.op = "sbrk", !.pc = "pages", !.space = as[s], !.size = sz[s],
                          !.next = sz[s] \div PGSIZE, !.end = sz[s] + n])
  /\ as' = [as EXCEPT ![s] = NoSpace]
  /\ UNCHANGED <<nfree, state, tf, sz>>

sbrk_grow(s, n) ==
  /\ User(s) /\ sz[s] + n <= MaxPages * PGSIZE
  /\ Call(s, [Idle EXCEPT !.op = "sbrk", !.pc = "pages", !.space = as[s], !.size = sz[s],
                          !.next = RoundUp(sz[s]), !.end = sz[s] + n])
  /\ as' = [as EXCEPT ![s] = NoSpace]
  /\ UNCHANGED <<nfree, state, tf, sz>>

sbrk_done(s) ==
  /\ Built(s, "sbrk")
  /\ as' = [as EXCEPT ![s] = th[s].space] /\ sz' = [sz EXCEPT ![s] = th[s].end]
  /\ Return(s) /\ UNCHANGED <<nfree, state, tf>>

\* uvmdealloc().  A size below 0 wraps around and is then larger than the old
\* one: nothing happens, and the call succeeds.
sbrk_shrink(s, n) ==
  LET new == sz[s] - n IN
  /\ User(s) /\ new >= 0
  /\ as' = [as EXCEPT ![s] = Unmap(@, RoundUp(new), RoundUp(sz[s]))]
  /\ nfree' = nfree + RoundUp(sz[s]) - RoundUp(new)
  /\ sz' = [sz EXCEPT ![s] = new]
  /\ UNCHANGED <<state, tf, th>>

--------------------------------------------------------------------------------
\* fork(): allocproc() with its trapframe, proc_pagetable(), uvmcopy().

fork(s, child) ==
  /\ User(s) /\ state[child] = "UNUSED" /\ nfree > 0
  /\ nfree' = nfree - 1
  /\ state' = [state EXCEPT ![child] = "EMBRYO"] /\ tf' = [tf EXCEPT ![child] = 1]
  /\ Call(s, [Idle EXCEPT !.op = "fork", !.pc = "uvmcreate", !.child = child, !.end = sz[s]])
  /\ UNCHANGED <<as, sz>>

fork_done(s) ==
  LET child == th[s].child IN
  /\ Built(s, "fork")
  /\ state' = [state EXCEPT ![child] = "USED"]
  /\ as' = [as EXCEPT ![child] = th[s].space] /\ sz' = [sz EXCEPT ![child] = sz[s]]
  /\ Return(s) /\ UNCHANGED <<nfree, tf>>

\* exit() keeps the memory; freeproc() in the parent's wait() frees it.
exit(s) ==
  /\ User(s) /\ s # initproc
  /\ state' = [state EXCEPT ![s] = "ZOMBIE"]
  /\ UNCHANGED <<nfree, tf, as, sz, th>>

freeproc(s) ==
  /\ state[s] = "ZOMBIE"
  /\ nfree' = nfree + tf[s] + proc_freepagetable(as[s], sz[s])
  /\ state' = [state EXCEPT ![s] = "UNUSED"] /\ tf' = [tf EXCEPT ![s] = 0]
  /\ as' = [as EXCEPT ![s] = NoSpace] /\ sz' = [sz EXCEPT ![s] = 0]
  /\ UNCHANGED th

--------------------------------------------------------------------------------
\* exec(), from sys_exec() with a page for each argument.

sys_exec(s, img) ==
  /\ User(s)
  /\ Call(s, [Idle EXCEPT !.op = "exec", !.pc = "args", !.segs = img])
  /\ UNCHANGED <<nfree, state, tf, as, sz>>

argument(s) ==
  /\ th[s].pc = "args" /\ th[s].args < MaxArg
  /\ kalloc(s, [th[s] EXCEPT !.args = @ + 1])

exec(s) ==
  /\ th[s].pc = "args" /\ Call(s, [th[s] EXCEPT !.pc = "uvmcreate"])
  /\ UNCHANGED <<nfree, state, tf, as, sz>>

\* A segment, and after the last one two pages for the stack.  uvmalloc()
\* does nothing for a segment that ends below the size so far.
segment(s) ==
  LET c == th[s]
      from == IF c.segs = <<>> THEN RoundUp(c.size) * PGSIZE ELSE c.size
      to == IF c.segs = <<>> THEN from + 2 * PGSIZE ELSE Head(c.segs) IN
  /\ c.pc = "segment"
  /\ Call(s, IF to < from
             THEN [c EXCEPT !.segs = Tail(@)]
             ELSE [c EXCEPT !.pc = "pages", !.size = from, !.next = RoundUp(from), !.end = to])
  /\ UNCHANGED <<nfree, state, tf, as, sz>>

exec_built(s) ==
  LET c == th[s] IN
  /\ Built(s, "exec")
  /\ Call(s, [c EXCEPT !.size = c.end,
                       !.pc = IF c.segs = <<>> THEN "commit" ELSE "segment",
                       !.segs = IF c.segs = <<>> THEN <<>> ELSE Tail(@)])
  /\ UNCHANGED <<nfree, state, tf, as, sz>>

\* A goto bad for another reason than memory: no such file, no ELF header, a
\* segment that cannot be read, arguments that do not fit on the stack.
exec_bad(s) ==
  LET c == th[s] IN
  /\ c.pc \in {"args", "segment", "commit"}
  /\ nfree' = nfree + c.args + proc_freepagetable(c.space, c.size)
  /\ Return(s) /\ UNCHANGED <<state, tf, as, sz>>

\* The new image replaces the old one.
exec_commit(s) ==
  LET c == th[s] IN
  /\ c.pc = "commit"
  /\ as' = [as EXCEPT ![s] = c.space] /\ sz' = [sz EXCEPT ![s] = c.size]
  /\ nfree' = nfree + c.args + proc_freepagetable(as[s], sz[s])
  /\ Return(s) /\ UNCHANGED <<state, tf>>

Step(s) ==
  \/ uvmcreate(s) \/ walk(s) \/ mappages(s) \/ uvmalloc(s) \/ uvmcopy(s)
  \/ sbrk_done(s) \/ fork_done(s) \/ exit(s) \/ freeproc(s)
  \/ argument(s) \/ exec(s) \/ segment(s) \/ exec_built(s) \/ exec_bad(s) \/ exec_commit(s)

Next ==
  \E s \in Slot :
    \/ Step(s)
    \/ \E n \in 1..(MaxPages * PGSIZE) : sbrk_grow(s, n) \/ sbrk_shrink(s, n)
    \/ \E child \in Slot : fork(s, child)
    \/ \E img \in Images : sys_exec(s, img)

Spec == Init /\ [][Next]_vars

--------------------------------------------------------------------------------
\* Properties.

Pages(space) == space.root + Cardinality(space.nodes) + Cardinality(space.leaves \ Top)
Owned(s) == tf[s] + Pages(as[s]) + Pages(th[s].space) + th[s].mem + th[s].args

\* Every page is on the free list or belongs to exactly one address space,
\* trapframe or call: on no path through fork(), exec() and sbrk(), failed at
\* whatever point, is a page lost or freed twice.
PagesConserved == nfree >= 0 /\ nfree + SumFunction([s \in Slot |-> Owned(s)]) = NPAGE

Reachable(space) == \A n \in space.nodes : n[1] = 0 => <<1, n[2] \div RADIX>> \in space.nodes

\* What the panics of vm.c stand for ("remap", "uvmunmap: not mapped",
\* "freewalk: leaf", "uvmcopy: page not present"): the pages mapped are those
\* below p->sz, the trampoline and the trapframe, also after calls that
\* failed; a page is not mapped twice, and freewalk() reaches all table pages.
MappedExactly ==
  /\ \A s \in Slot :
       IF state[s] \in {"USED", "ZOMBIE"} /\ th[s].op # "sbrk"
       THEN as[s].leaves = Between(0, RoundUp(sz[s])) \union Top /\ Reachable(as[s])
       ELSE as[s] = NoSpace
  /\ \A s \in Slot : th[s].pc = "mappages" => th[s].next \notin th[s].space.leaves
===============================================================================
