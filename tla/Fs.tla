---------------------------------- MODULE Fs ----------------------------------
(***************************************************************************)
(* Names, inodes and open files: kernel/fs.c above the block level,        *)
(* kernel/sysfile.c and the file table of kernel/file.c.                   *)
(*                                                                         *)
(* Grain: between two waits for an inode lock a system call is one action, *)
(* and every iput() is an action of its own (three when it frees the       *)
(* inode, because it drops icache.lock on the way).  Calls run inside log  *)
(* transactions, which Log models; file contents are not modelled, the     *)
(* contents of directories are.  A path is the sequence of its elements,   *)
(* "/" first when it is absolute.  A process that panics stays where it is *)
(* with what it holds.                                                     *)
(***************************************************************************)
EXTENDS Integers, Sequences, FiniteSets, Functions

CONSTANTS
  Proc,       \* processes
  Inum,       \* inodes on the disk; 0 is none of them
  ROOTINO,    \* the inode of "/"
  NFILE,      \* entries of the file table
  NOFILE,     \* descriptors of a process
  Name,       \* names in directories besides "." and ".."
  Calls       \* system calls with their arguments, as records

Fd == 1..NOFILE
File == 1..NFILE
AllNames == Name \union {".", ".."}
Free == [type |-> "FREE", nlink |-> 0]

ASSUME FsAssumption ==
  /\ ROOTINO \in Inum /\ 0 \notin Inum /\ NFILE \in Nat \ {0} /\ NOFILE \in Nat \ {0}
  /\ Name \intersect {".", "..", "/"} = {}

VARIABLES
  disk,       \* struct dinode: type and nlink
  mem,        \* the cached copy, when ip->valid; {} when it is not
  ref,        \* ip->ref
  lock,       \* holder of ip->lock, or "nobody"
  dir,        \* contents of directories: name to inode number, 0 if absent
  ftable,     \* struct file: ref and ip
  ofile, cwd, \* of each process
  th          \* where each process is in its call, with its locals

vars == <<disk, mem, ref, lock, dir, ftable, ofile, cwd, th>>
inodes == <<disk, mem, ref, lock, dir>>
files == <<ftable, ofile, cwd>>

NoDir == [n \in AllNames |-> 0]
Idle == [pc |-> "idle", k |-> "done", after |-> "done", op |-> "none", cur |-> 0,
         ip |-> 0, path |-> <<>>, par |-> FALSE, puts |-> <<>>, path2 |-> <<>>,
         stale |-> FALSE]   \* not in the code: the inode in hand came from Up

\* The file system mkfs makes, with one process in the root directory each.
Init ==
  /\ disk = [i \in Inum |-> IF i = ROOTINO THEN [type |-> "DIR", nlink |-> 1] ELSE Free]
  /\ mem = [i \in Inum |-> {}]
  /\ ref = [i \in Inum |-> IF i = ROOTINO THEN Cardinality(Proc) ELSE 0]
  /\ lock = [i \in Inum |-> "nobody"]
  /\ dir = [i \in Inum |-> IF i = ROOTINO THEN [NoDir EXCEPT !["."] = i, ![".."] = i]
                                          ELSE NoDir]
  /\ ftable = [f \in File |-> [ref |-> 0, ip |-> 0]]
  /\ ofile = [p \in Proc |-> [fd \in Fd |-> 0]]
  /\ cwd = [p \in Proc |-> ROOTINO]
  /\ th = [p \in Proc |-> Idle]

--------------------------------------------------------------------------------
\* The inode layer.

At(p, label) == th[p].pc = label

\* To a label of the call; "done" is end_op() and the return to the program.
Become(p, t) == th' = [th EXCEPT ![p] = IF t.pc = "done" THEN Idle ELSE t]

\* Go on with the iput()s of is, then at label.
Put(p, t, is, label) == Become(p, [t EXCEPT !.pc = "iput", !.puts = is, !.after = label])

\* iget() and idup(): an entry that is not in the cache has no valid copy.
iget(i) == ref' = [ref EXCEPT ![i] = @ + 1]

\* What ilock() leaves in the cache.
ilock(i) == IF mem[i] = {} THEN {disk[i]} ELSE mem[i]
Unlocked(i) == lock[i] = "nobody"
Type(i) == (CHOOSE d \in ilock(i) : TRUE).type
Nlink(i) == (CHOOSE d \in ilock(i) : TRUE).nlink

\* The inode that a process is about to ilock(), 0 if none.
Wants(p) ==
  CASE th[p].pc = "namex" /\ th[p].path # <<>> -> th[p].cur
    [] th[p].pc \in {"open_lock", "create_lock", "unlink_lock", "link_inc",
                     "link_dir", "chdir_lock"} -> th[p].cur
    [] th[p].pc \in {"create_found", "create_init", "unlink_ip", "link_bad"} -> th[p].ip
    [] OTHER -> 0

\* panic("ilock: no type"), with the lock held.
ilock_panic(p) ==
  LET i == Wants(p) IN
  /\ i # 0 /\ Unlocked(i) /\ Type(i) = "FREE"
  /\ mem' = [mem EXCEPT ![i] = ilock(i)] /\ lock' = [lock EXCEPT ![i] = p]
  /\ th' = [th EXCEPT ![p].pc = "panic"]
  /\ UNCHANGED <<disk, ref, dir, files>>

\* ilock() ... iunlock() with no change in between.
Visit(i) == /\ Unlocked(i) /\ Type(i) # "FREE"
            /\ mem' = [mem EXCEPT ![i] = ilock(i)]
\* ilock(), change of nlink, iupdate().
Relink(i, n) == /\ mem' = [mem EXCEPT ![i] = {[type |-> Type(i), nlink |-> n]}]
                /\ disk' = [disk EXCEPT ![i] = [type |-> Type(i), nlink |-> n]]

Next1(p) == Tail(th[p].puts)
Advance(p) == Become(p, [th[p] EXCEPT !.puts = Next1(p),
                           !.pc = IF Next1(p) = <<>> THEN th[p].after ELSE "iput"])
Drop(i) == ref' = [ref EXCEPT ![i] = @ - 1]

iput_IgnoreRef(p) ==
  LET i == Head(th[p].puts) IN
  /\ At(p, "iput")
  /\ IF (ref[i] = 1 \/ Type(i) = "FILE") /\ mem[i] # {} /\ Nlink(i) = 0
     THEN /\ Unlocked(i)
          /\ lock' = [lock EXCEPT ![i] = p]
          /\ th' = [th EXCEPT ![p].pc = "iput_free"]
          /\ UNCHANGED <<ref, mem>>
     ELSE /\ Drop(i)
          /\ mem' = [mem EXCEPT ![i] = IF ref[i] = 1 THEN {} ELSE @]
          /\ Advance(p) /\ UNCHANGED lock
  /\ UNCHANGED <<disk, dir, files>>

iput(p) ==
  LET i == Head(th[p].puts) IN
  /\ At(p, "iput")
  /\ IF ref[i] = 1 /\ mem[i] # {} /\ Nlink(i) = 0
     THEN /\ Unlocked(i)
          /\ lock' = [lock EXCEPT ![i] = p]
          /\ th' = [th EXCEPT ![p].pc = "iput_free"]
          /\ UNCHANGED <<ref, mem>>
     ELSE /\ Drop(i)
          /\ mem' = [mem EXCEPT ![i] = IF ref[i] = 1 THEN {} ELSE @]
          /\ Advance(p) /\ UNCHANGED lock
  /\ UNCHANGED <<disk, dir, files>>

\* itrunc(), type = 0, iupdate(), valid = 0, releasesleep(): from here ialloc()
\* may take the inode.
iput_free(p) ==
  LET i == Head(th[p].puts) IN
  /\ At(p, "iput_free")
  /\ disk' = [disk EXCEPT ![i] = Free] /\ mem' = [mem EXCEPT ![i] = {}]
  /\ dir' = [dir EXCEPT ![i] = NoDir] /\ lock' = [lock EXCEPT ![i] = "nobody"]
  /\ th' = [th EXCEPT ![p].pc = "iput_drop"]
  /\ UNCHANGED <<ref, files>>

\* icache.lock again: somebody may have the reallocated inode by now.
iput_drop(p) ==
  LET i == Head(th[p].puts) IN
  /\ At(p, "iput_drop") /\ Drop(i) /\ Advance(p)
  /\ mem' = [mem EXCEPT ![i] = IF ref[i] = 1 THEN {} ELSE @]
  /\ UNCHANGED <<disk, lock, dir, files>>

--------------------------------------------------------------------------------
\* namex(): one element of the path per step.

\* The ".." of a directory that was removed while it was in use: no name of
\* its parent is for it any more.
Named(d) == \E n \in Name : dir[dir[d][".."]][n] = d
Up(d, n) == n = ".." /\ d # ROOTINO /\ ~Named(d)

\* The start of namex() for path: the root or the current directory.
Start(p, path) == IF path # <<>> /\ Head(path) = "/" THEN ROOTINO ELSE cwd[p]
Elements(path) == IF path # <<>> /\ Head(path) = "/" THEN Tail(path) ELSE path
OnFail(p) == IF th[p].ip # 0 THEN "link_bad" ELSE "done"
Lost_NoPut(p) == Become(p, [th[p] EXCEPT !.cur = 0, !.pc = OnFail(p)])
Lost(p) == Put(p, [th[p] EXCEPT !.cur = 0], <<th[p].cur>>, OnFail(p))

namex_end(p) ==
  /\ At(p, "namex") /\ th[p].path = <<>>
  /\ IF th[p].par THEN Lost(p) ELSE th' = [th EXCEPT ![p].pc = th[p].k]
  /\ UNCHANGED <<inodes, files>>

namex_step(p) ==
  LET t == th[p]
      name == Head(t.path)
      next == dir[t.cur][name] IN
  /\ At(p, "namex") /\ t.path # <<>> /\ Visit(t.cur)
  /\ \/ \* not a directory, or no such name
        /\ Type(t.cur) # "DIR" \/ (next = 0 /\ ~ (t.par /\ Len(t.path) = 1))
        /\ Lost(p) /\ UNCHANGED ref
     \/ \* nameiparent: stop one level early
        /\ Type(t.cur) = "DIR" /\ t.par /\ Len(t.path) = 1
        /\ th' = [th EXCEPT ![p].pc = t.k] /\ UNCHANGED ref
     \/ /\ Type(t.cur) = "DIR" /\ next # 0 /\ ~ (t.par /\ Len(t.path) = 1)
        /\ iget(next)
        /\ Put(p, [t EXCEPT !.cur = next, !.path = Tail(t.path), !.stale = Up(t.cur, name)],
               <<t.cur>>, "namex")
  /\ UNCHANGED <<disk, lock, dir, files>>

\* The last element, for the calls that use nameiparent().
name(p) == Head(th[p].path)

--------------------------------------------------------------------------------
\* The calls, from begin_op() on.

First == [open |-> "open_lock", openw |-> "open_lock", creat |-> "create_lock",
          mkdir |-> "create_lock", unlink |-> "unlink_lock", link |-> "link_inc",
          chdir |-> "chdir_lock"]

begin(p, c) ==
  /\ At(p, "idle")
  /\ iget(Start(p, c.path))
  /\ th' = [th EXCEPT ![p] = [Idle EXCEPT !.pc = "namex", !.k = First[c.op], !.op = c.op,
              !.cur = Start(p, c.path), !.path = Elements(c.path), !.path2 = c.new,
              !.par = c.op \in {"creat", "mkdir", "unlink"}]]
  /\ UNCHANGED <<disk, mem, lock, dir, files>>

--------------------------------------------------------------------------------
\* sys_link()

link_inc(p) ==
  LET i == th[p].cur
      from == Start(p, th[p].path2) IN
  /\ At(p, "link_inc") /\ Unlocked(i) /\ Type(i) # "FREE"
  /\ IF Type(i) = "DIR"
     THEN Visit(i) /\ Lost(p) /\ UNCHANGED <<ref, disk>>
     ELSE /\ Relink(i, Nlink(i) + 1)
          /\ iget(from)
          /\ Become(p, [th[p] EXCEPT !.ip = i, !.cur = from, !.pc = "namex", !.par = TRUE,
                          !.path = Elements(th[p].path2), !.path2 = <<>>, !.k = "link_dir",
                          !.stale = FALSE])
  /\ UNCHANGED <<lock, dir, files>>

\* dirlink() looks the name up first, and puts what it finds with dp locked.
link_dir(p) ==
  LET dp == th[p].cur
      found == dir[dp][name(p)] IN
  /\ At(p, "link_dir") /\ Visit(dp)
  /\ IF found # 0
     THEN /\ iget(found) /\ lock' = [lock EXCEPT ![dp] = p]
          /\ Put(p, th[p], <<found>>, "link_exists") /\ UNCHANGED dir
     ELSE /\ dir' = [dir EXCEPT ![dp][name(p)] = th[p].ip]
          /\ Put(p, [th[p] EXCEPT !.cur = 0, !.ip = 0], <<dp, th[p].ip>>, "done")
          /\ UNCHANGED <<ref, lock>>
  /\ UNCHANGED <<disk, files>>

link_exists(p) ==
  LET dp == th[p].cur IN
  /\ At(p, "link_exists") /\ lock' = [lock EXCEPT ![dp] = "nobody"]
  /\ Put(p, [th[p] EXCEPT !.cur = 0], <<dp>>, "link_bad")
  /\ UNCHANGED <<disk, mem, ref, dir, files>>

link_bad(p) ==
  LET i == th[p].ip IN
  /\ At(p, "link_bad") /\ Unlocked(i) /\ Type(i) # "FREE"
  /\ Relink(i, Nlink(i) - 1)
  /\ Put(p, [th[p] EXCEPT !.ip = 0], <<i>>, "done")
  /\ UNCHANGED <<ref, lock, dir, files>>

--------------------------------------------------------------------------------
\* sys_unlink()

isdirempty(i) == \A n \in Name : dir[i][n] = 0

unlink_lock_Dots(p) ==
  LET dp == th[p].cur
      i == dir[dp][name(p)] IN
  /\ At(p, "unlink_lock") /\ Visit(dp)
  /\ IF i = 0
     THEN Put(p, [th[p] EXCEPT !.cur = 0], <<dp>>, "done") /\ UNCHANGED <<ref, lock>>
     ELSE /\ iget(i) /\ lock' = [lock EXCEPT ![dp] = p]
          /\ Become(p, [th[p] EXCEPT !.ip = i, !.pc = "unlink_ip"])
  /\ UNCHANGED <<disk, dir, files>>

unlink_lock(p) ==
  LET dp == th[p].cur
      i == dir[dp][name(p)] IN
  /\ At(p, "unlink_lock") /\ Visit(dp)
  /\ IF name(p) \in {".", ".."} \/ i = 0
     THEN Put(p, [th[p] EXCEPT !.cur = 0], <<dp>>, "done") /\ UNCHANGED <<ref, lock>>
     ELSE /\ iget(i) /\ lock' = [lock EXCEPT ![dp] = p]
          /\ Become(p, [th[p] EXCEPT !.ip = i, !.pc = "unlink_ip"])
  /\ UNCHANGED <<disk, dir, files>>

unlink_ip(p) ==
  LET dp == th[p].cur
      i == th[p].ip
      less == [type |-> "DIR", nlink |-> Nlink(dp) - 1] IN
  /\ At(p, "unlink_ip") /\ Unlocked(i) /\ Type(i) # "FREE" /\ Nlink(i) > 0
  /\ IF Type(i) = "DIR" /\ ~isdirempty(i)
     THEN /\ Visit(i) /\ lock' = [lock EXCEPT ![dp] = "nobody"]
          /\ Put(p, [th[p] EXCEPT !.cur = 0, !.ip = 0], <<i, dp>>, "done")
          /\ UNCHANGED <<disk, dir>>
     ELSE /\ dir' = [dir EXCEPT ![dp][name(p)] = 0]
          /\ mem' = [mem EXCEPT ![i] = ilock(i),
                                ![dp] = IF Type(i) = "DIR" THEN {less} ELSE @]
          /\ disk' = [disk EXCEPT ![dp] = IF Type(i) = "DIR" THEN less ELSE @]
          /\ lock' = [lock EXCEPT ![dp] = "nobody", ![i] = p]
          /\ Put(p, [th[p] EXCEPT !.cur = 0], <<dp>>, "unlink_dec")
  /\ UNCHANGED <<ref, files>>

unlink_dec_PutFirst(p) ==
  LET i == th[p].ip IN
  /\ At(p, "unlink_dec")
  /\ Relink(i, Nlink(i) - 1)
  /\ Put(p, [th[p] EXCEPT !.ip = 0], <<i>>, "done")
  /\ UNCHANGED <<ref, lock, dir, files>>

unlink_dec(p) ==
  LET i == th[p].ip IN
  /\ At(p, "unlink_dec")
  /\ Relink(i, Nlink(i) - 1) /\ lock' = [lock EXCEPT ![i] = "nobody"]
  /\ Put(p, [th[p] EXCEPT !.ip = 0], <<i>>, "done")
  /\ UNCHANGED <<ref, dir, files>>

--------------------------------------------------------------------------------
\* create(), for sys_open(O_CREATE) and sys_mkdir()

create_lock_NoType(p) ==
  LET dp == th[p].cur
      found == dir[dp][name(p)] IN
  /\ At(p, "create_lock") /\ Visit(dp)
  /\ \/ /\ found # 0
        /\ iget(found)
        /\ Put(p, [th[p] EXCEPT !.cur = 0, !.ip = found, !.stale = Up(dp, name(p))],
               <<dp>>, "create_found")
        /\ UNCHANGED <<disk, lock>>
     \/ /\ found = 0
        /\ \E i \in Inum :
             /\ disk[i].type = "FREE"
             /\ UNCHANGED disk
             /\ iget(i)
             /\ lock' = [lock EXCEPT ![dp] = p]
             /\ Become(p, [th[p] EXCEPT !.ip = i, !.pc = "create_init"])
  /\ UNCHANGED <<dir, files>>

\* dirlookup(), then ialloc() with dp still locked: a free inode, the lowest one
\* in the code; inode numbers are not compared here.
create_lock(p) ==
  LET dp == th[p].cur
      found == dir[dp][name(p)]
      type == IF th[p].op = "mkdir" THEN "DIR" ELSE "FILE" IN
  /\ At(p, "create_lock") /\ Visit(dp)
  /\ \/ /\ found # 0
        /\ iget(found)
        /\ Put(p, [th[p] EXCEPT !.cur = 0, !.ip = found, !.stale = Up(dp, name(p))],
               <<dp>>, "create_found")
        /\ UNCHANGED <<disk, lock>>
     \/ /\ found = 0
        /\ \E i \in Inum :
             /\ disk[i].type = "FREE"
             /\ disk' = [disk EXCEPT ![i] = [type |-> type, nlink |-> 0]]
             /\ iget(i)
             /\ lock' = [lock EXCEPT ![dp] = p]
             /\ Become(p, [th[p] EXCEPT !.ip = i, !.pc = "create_init"])
  /\ UNCHANGED <<dir, files>>

create_found(p) ==
  LET i == th[p].ip IN
  /\ At(p, "create_found") /\ Visit(i)
  /\ IF th[p].op = "creat" /\ Type(i) = "FILE"
     THEN /\ lock' = [lock EXCEPT ![i] = p]
          /\ th' = [th EXCEPT ![p].pc = "open_file"]
     ELSE Put(p, [th[p] EXCEPT !.ip = 0], <<i>>, "done") /\ UNCHANGED lock
  /\ UNCHANGED <<disk, ref, dir, files>>

create_init_NoDotDot(p) ==
  LET dp == th[p].cur
      i == th[p].ip
      mkdir == th[p].op = "mkdir"
      new == [type |-> Type(i), nlink |-> 1] IN
  /\ At(p, "create_init") /\ Unlocked(i) /\ Type(i) # "FREE"
  /\ mem' = [mem EXCEPT ![i] = {new}]
  /\ disk' = [disk EXCEPT ![i] = new]
  /\ dir' = [dir EXCEPT ![dp][name(p)] = i,
               ![i] = IF mkdir THEN [NoDir EXCEPT !["."] = i, ![".."] = dp] ELSE @]
  /\ lock' = [lock EXCEPT ![dp] = "nobody", ![i] = p]
  /\ Put(p, [th[p] EXCEPT !.cur = 0], <<dp>>, IF mkdir THEN "mkdir_end" ELSE "open_file")
  /\ UNCHANGED <<ref, files>>

create_init(p) ==
  LET dp == th[p].cur
      i == th[p].ip
      mkdir == th[p].op = "mkdir"
      new == [type |-> Type(i), nlink |-> 1]
      more == [type |-> "DIR", nlink |-> Nlink(dp) + 1] IN
  /\ At(p, "create_init") /\ Unlocked(i) /\ Type(i) # "FREE"
  /\ mem' = [mem EXCEPT ![i] = {new}, ![dp] = IF mkdir THEN {more} ELSE @]
  /\ disk' = [disk EXCEPT ![i] = new, ![dp] = IF mkdir THEN more ELSE @]
  /\ dir' = [dir EXCEPT ![dp][name(p)] = i,
               ![i] = IF mkdir THEN [NoDir EXCEPT !["."] = i, ![".."] = dp] ELSE @]
  /\ lock' = [lock EXCEPT ![dp] = "nobody", ![i] = p]
  /\ Put(p, [th[p] EXCEPT !.cur = 0], <<dp>>, IF mkdir THEN "mkdir_end" ELSE "open_file")
  /\ UNCHANGED <<ref, files>>

\* sys_mkdir(): iunlockput(ip)
mkdir_end(p) ==
  LET i == th[p].ip IN
  /\ At(p, "mkdir_end")
  /\ lock' = [lock EXCEPT ![i] = "nobody"]
  /\ Put(p, [th[p] EXCEPT !.ip = 0], <<i>>, "done")
  /\ UNCHANGED <<disk, mem, ref, dir, files>>

--------------------------------------------------------------------------------
\* sys_open(), sys_chdir(), sys_dup(), sys_close()

open_lock(p) ==
  LET i == th[p].cur IN
  /\ At(p, "open_lock") /\ Visit(i)
  /\ IF Type(i) = "DIR" /\ th[p].op = "openw"
     THEN Lost(p) /\ UNCHANGED lock
     ELSE /\ lock' = [lock EXCEPT ![i] = p]
          /\ Become(p, [th[p] EXCEPT !.ip = i, !.cur = 0, !.pc = "open_file"])
  /\ UNCHANGED <<disk, ref, dir, files>>

Least(S) == CHOOSE i \in S : \A j \in S : i <= j

\* filealloc() and fdalloc(), or undo; then iunlock().
open_file(p) ==
  LET i == th[p].ip
      fs == {f \in File : ftable[f].ref = 0}
      fds == {fd \in Fd : ofile[p][fd] = 0} IN
  /\ At(p, "open_file")
  /\ IF fs = {} \/ fds = {}
     THEN Put(p, [th[p] EXCEPT !.ip = 0], <<i>>, "done") /\ UNCHANGED <<ftable, ofile>>
     ELSE /\ ftable' = [ftable EXCEPT ![Least(fs)] = [ref |-> 1, ip |-> i]]
          /\ ofile' = [ofile EXCEPT ![p][Least(fds)] = Least(fs)]
          /\ Become(p, Idle)
  /\ lock' = [lock EXCEPT ![i] = "nobody"]
  /\ UNCHANGED <<disk, mem, ref, dir, cwd>>

chdir_lock(p) ==
  LET i == th[p].cur IN
  /\ At(p, "chdir_lock") /\ Visit(i)
  /\ IF Type(i) # "DIR"
     THEN Lost(p) /\ UNCHANGED cwd
     ELSE /\ cwd' = [cwd EXCEPT ![p] = i]
          /\ Put(p, [th[p] EXCEPT !.cur = 0], <<cwd[p]>>, "done")
  /\ UNCHANGED <<disk, ref, lock, dir, ftable, ofile>>

dup(p, fd) ==
  LET f == ofile[p][fd]
      fds == {g \in Fd : ofile[p][g] = 0} IN
  /\ At(p, "idle") /\ f # 0 /\ fds # {}
  /\ ofile' = [ofile EXCEPT ![p][Least(fds)] = f]
  /\ ftable' = [ftable EXCEPT ![f].ref = @ + 1]
  /\ UNCHANGED <<inodes, cwd, th>>

\* fileclose(): the last close does iput() after it released ftable.lock.
close(p, fd) ==
  LET f == ofile[p][fd] IN
  /\ At(p, "idle") /\ f # 0
  /\ ofile' = [ofile EXCEPT ![p][fd] = 0]
  /\ IF ftable[f].ref > 1
     THEN ftable' = [ftable EXCEPT ![f].ref = @ - 1] /\ UNCHANGED th
     ELSE /\ ftable' = [ftable EXCEPT ![f] = [ref |-> 0, ip |-> 0]]
          /\ Put(p, Idle, <<ftable[f].ip>>, "done")
  /\ UNCHANGED <<inodes, cwd>>

--------------------------------------------------------------------------------
Step(p) ==
  \/ iput(p) \/ iput_free(p) \/ iput_drop(p) \/ ilock_panic(p)
  \/ namex_end(p) \/ namex_step(p)
  \/ link_inc(p) \/ link_dir(p) \/ link_exists(p) \/ link_bad(p)
  \/ unlink_lock(p) \/ unlink_ip(p) \/ unlink_dec(p)
  \/ create_lock(p) \/ create_found(p) \/ create_init(p) \/ mkdir_end(p)
  \/ open_lock(p) \/ open_file(p) \/ chdir_lock(p)

Next == \E p \in Proc :
  \/ Step(p)
  \/ \E c \in Calls : begin(p, c)
  \/ \E fd \in Fd : dup(p, fd) \/ close(p, fd)

Spec == Init /\ [][Next]_vars

--------------------------------------------------------------------------------
\* Properties.

TypeOK ==
  /\ disk \in [Inum -> [type : {"FREE", "DIR", "FILE"}, nlink : Nat]]
  /\ \A i \in Inum : Cardinality(mem[i]) <= 1
  /\ ref \in [Inum -> Nat] /\ lock \in [Inum -> Proc \union {"nobody"}]
  /\ dir \in [Inum -> [AllNames -> Inum \union {0}]]
  /\ ftable \in [File -> [ref : Nat, ip : Inum \union {0}]]
  /\ ofile \in [Proc -> [Fd -> 0..NFILE]] /\ cwd \in [Proc -> Inum]

One(b) == IF b THEN 1 ELSE 0
Held(p, i) == One(th[p].cur = i) + One(th[p].ip = i) + One(cwd[p] = i)
              + Cardinality({n \in DOMAIN th[p].puts : th[p].puts[n] = i})
Uses(i) == SumFunction([p \in Proc |-> Held(p, i)])
           + Cardinality({f \in File : ftable[f].ref > 0 /\ ftable[f].ip = i})

\* Every variable stays in its type, and "ip->ref tracks the number of
\* in-memory pointers to the entry": on no path through any call, failed or
\* not, is a reference lost or dropped twice.
RefExact == TypeOK /\ \A i \in Inum : ref[i] = Uses(i)

\* The names of an inode, and the ".." of the directories that it names.
Links(i) ==
  Cardinality({e \in Inum \X Name : dir[e[1]][e[2]] = i})
  + Cardinality({d \in Inum \ {ROOTINO} : dir[d][".."] = i /\ Named(d)})
  + One(i = ROOTINO)

\* No name is left without its inode: in every interleaving the link count
\* covers the names, so iput() never frees an inode that a directory names.
LinksCovered == \A i \in Inum : disk[i].nlink >= Links(i)

\* A file that is open and a current directory stay allocated, whatever is
\* unlinked meanwhile.
OpenStays ==
  /\ \A f \in File : ftable[f].ref > 0 => disk[ftable[f].ip].type # "FREE"
  /\ \A p \in Proc : disk[cwd[p]].type = "DIR"

\* "ip->ref == 1 means no other process can have ip locked, so this
\* acquiresleep() won't block (or deadlock)".
IputWontBlock ==
  \A p \in Proc : th[p].pc = "iput" =>
    LET i == Head(th[p].puts) IN ref[i] = 1 => Unlocked(i)

\* No set of processes waits for each other's inode locks.
NoLockCycle ==
  \A S \in SUBSET Proc : S # {} =>
    \E p \in S : Wants(p) = 0 \/ lock[Wants(p)] \notin S

\* The panics for an inconsistent file system.  ilock() finds a free inode ("ilock:
\* no type") in one way only: over the ".." of a directory that was removed while
\* it was in use, whose parent may have been removed after it.  On no other path,
\* whatever is unlinked meanwhile, is an inode freed between dirlookup() and
\* ilock(); unlink() always finds a link to remove ("unlink: nlink < 1"), and
\* dirlookup() always gets a directory ("dirlookup not DIR").
NoPanic ==
  \A p \in Proc :
    /\ th[p].pc = "panic" => th[p].stale
    /\ Wants(p) # 0 /\ Unlocked(Wants(p)) =>
         /\ th[p].pc = "unlink_ip" => Nlink(th[p].ip) > 0
         /\ th[p].pc \in {"create_lock", "unlink_lock", "link_dir"} => Type(th[p].cur) = "DIR"
===============================================================================
