---------------------------- MODULE LogSpaceProofs ----------------------------
(***************************************************************************)
(* Proofs about Log, for every number of processes, blocks and log slots:  *)
(* types, the flow of calls and commits, log space and wakeups.            *)
(***************************************************************************)
EXTENDS Log, FiniteSetTheorems, TLAPS

\* A call leaves two blocks of its reservation unused, and the log area made
\* by mkfs has LOGSIZE blocks, header included.
Sized == OpBlocks + 2 <= MAXOPBLOCKS /\ LOGSIZE <= NLOG

Space == TypeOK /\ FlowInv /\ SpaceInv

--------------------------------------------------------------------------------
\* The calls in progress and the reservations are finite sets.
LEMMA ActiveFinite == IsFiniteSet(Active)
  BY LogAssumption, FS_Subset DEF Active

\* Reservations are at most MAXOPBLOCKS blocks for each call in progress.
LEMMA ReservedBound ==
  ASSUME NEW A, IsFiniteSet(A), NEW R \in SUBSET (A \X (1..MAXOPBLOCKS))
  PROVE  /\ IsFiniteSet(R)
         /\ Cardinality(R) \in Nat
         /\ Cardinality(R) <= Cardinality(A) * MAXOPBLOCKS
<1> DEFINE All == A \X (1..MAXOPBLOCKS)
<1>1. MAXOPBLOCKS \in Nat
  BY LogAssumption
<1>2. IsFiniteSet(1..MAXOPBLOCKS) /\ Cardinality(1..MAXOPBLOCKS) = MAXOPBLOCKS
  BY <1>1, FS_Interval
<1>3. IsFiniteSet(All) /\ Cardinality(All) = Cardinality(A) * MAXOPBLOCKS
  BY <1>2, FS_Product, Zenon
<1> HIDE DEF All
<1>4. R \in SUBSET All
  BY DEF All
<1> QED
  BY <1>3, <1>4, FS_Subset, FS_CardinalityType

\* The sets of blocks a process wrote are finite.
LEMMA WroteFinite ==
  ASSUME TypeOK, NEW p \in Proc
  PROVE  IsFiniteSet(wrote[p]) /\ Cardinality(wrote[p]) \in Nat
<1>1. wrote[p] \in SUBSET Block
  BY Zenon DEF TypeOK
<1> QED
  BY <1>1, LogAssumption, FS_Subset, FS_CardinalityType

\* A call that has logged at most OpBlocks blocks still has two in reserve.
LEMMA Margin ==
  ASSUME Sized, TypeOK, NEW p \in Active, Cardinality(wrote[p]) <= OpBlocks
  PROVE  Cardinality(Reserved) >= 2
<1> DEFINE x == <<p, MAXOPBLOCKS>>
           y == <<p, MAXOPBLOCKS - 1>>
<1>1. p \in Proc /\ Cardinality(wrote[p]) \in Nat
  BY WroteFinite DEF Active
<1>2. x \in Reserved /\ y \in Reserved
  BY <1>1, LogAssumption DEF Reserved, Sized
<1>3. x # y
  BY LogAssumption
<1>4. IsFiniteSet({x}) /\ Cardinality({x}) = 1
  BY FS_Singleton, Zenon
<1> HIDE DEF x, y
<1>5. IsFiniteSet({x} \cup {y}) /\ Cardinality({x} \cup {y}) = 2
  <2>1. y \notin {x}
    BY <1>3
  <2>2. Cardinality({x} \cup {y}) = Cardinality({x}) + 1
    BY <1>4, <2>1, FS_AddElement
  <2> QED
    BY <1>4, <2>2, FS_AddElement
<1>6. {x} \cup {y} \in SUBSET Reserved
  BY <1>2
<1>7. IsFiniteSet(Reserved)
  BY ActiveFinite, ReservedBound DEF Reserved
<1>8. Cardinality({x} \cup {y}) <= Cardinality(Reserved)
  BY <1>6, <1>7, FS_Subset
<1>9. Cardinality(Reserved) \in Nat
  BY <1>7, FS_CardinalityType
<1> QED
  BY <1>5, <1>8, <1>9

\* The empty sequence.
LEMMA EmptySeq ==
  ASSUME NEW S
  PROVE  <<>> \in Seq(S) /\ Len(<<>>) = 0 /\ DOMAIN <<>> = {}
  OBVIOUS

\* Appending a block that is not in the log adds one slot and no duplicate.
LEMMA AppendNew ==
  ASSUME NEW S, NEW s \in Seq(S), NEW e \in S, e \notin Logged(s),
         \A i, j \in DOMAIN s : s[i] = s[j] => i = j
  PROVE  LET t == Append(s, e) IN
         /\ t \in Seq(S) /\ Len(t) = Len(s) + 1 /\ Len(s) \in Nat
         /\ DOMAIN s = 1..Len(s) /\ DOMAIN t = 1..(Len(s) + 1)
         /\ \A i \in DOMAIN s : t[i] = s[i]
         /\ t[Len(s) + 1] = e
         /\ \A i, j \in DOMAIN t : t[i] = t[j] => i = j
         /\ Logged(t) = Logged(s) \cup {e}
<1> DEFINE t == Append(s, e)
<1>1. /\ t \in Seq(S) /\ Len(t) = Len(s) + 1 /\ Len(s) \in Nat
      /\ DOMAIN s = 1..Len(s) /\ DOMAIN t = 1..(Len(s) + 1)
      /\ \A i \in DOMAIN s : t[i] = s[i]
      /\ t[Len(s) + 1] = e
  OBVIOUS
<1> HIDE DEF t
<1>2. \A i, j \in DOMAIN t : t[i] = t[j] => i = j
  BY <1>1 DEF Logged
<1>3. ASSUME NEW x PROVE x \in Logged(t) <=> x \in Logged(s) \cup {e}
  BY <1>1 DEF Logged
<1>4. Logged(t) = Logged(s) \cup {e}
  BY <1>3
<1> QED
  BY <1>1, <1>2, <1>4 DEF t

\* A log header is a sequence of distinct blocks that fits the log area.
LEMMA HeaderFacts ==
  ASSUME NEW s, LogHeader(s)
  PROVE  /\ s \in Seq(Block) /\ Len(s) \in Nat /\ DOMAIN s = 1..Len(s)
         /\ DOMAIN s \subseteq LogArea
         /\ \A i \in DOMAIN s : s[i] \in Block
         /\ Len(s) = 0 <=> s = <<>>
  BY LogAssumption DEF LogHeader, LogArea

\* The header of a log that holds nothing.
LEMMA EmptyHeader == LogHeader(<<>>)
  BY EmptySeq, LogAssumption DEF LogHeader

\* The machine boots with an empty log and no call in progress.
LEMMA InitSpace == Init => Space
<1> SUFFICES ASSUME Init PROVE Space
  OBVIOUS
<1>1. Active = {} /\ Committers = {} /\ Reserved = {}
  BY DEF Init, Active, Committers, CommitPc, Reserved
<1>2. TypeOK
  <2>1. LogHeader(dhead) /\ LogHeader(lh)
    BY EmptyHeader DEF Init
  <2>2. 1 \in 1..NLOG /\ 0 \in 0..(UINT - 1)
    BY LogAssumption
  <2> QED
    BY <2>1, <2>2 DEF Init, TypeOK
<1>3. FlowInv
  BY <1>1, FS_EmptySet DEF Init, FlowInv
<1>4. SpaceInv
  BY <1>1, FS_EmptySet, LogAssumption DEF Init, SpaceInv
<1> QED
  BY <1>2, <1>3, <1>4 DEF Space

\* begin_op() lets a call in only if a whole reservation still fits.
LEMMA BeginOpSpace ==
  ASSUME Space, NEW p \in Proc, begin_op(p)
  PROVE  Space'
<1> USE DEF Space
<1>1. p \notin Active /\ p \notin Committers
  BY DEF begin_op, Active, Committers, CommitPc
<1>2. CASE MustWait
  <2>1. /\ pc' = [pc EXCEPT ![p] = "asleep"]
        /\ UNCHANGED <<outstanding, wrote, diskVars, cacheVars, lh, committing,
                       tail, boot, panic, faults>>
    BY <1>2 DEF begin_op, Goto
  <2>2. Active' = Active /\ Committers' = Committers
    BY <1>1, <2>1, Zenon DEF Active, Committers, CommitPc, TypeOK
  <2>3. Reserved' = Reserved
    BY <2>1, <2>2 DEF Reserved
  <2>4. TypeOK'
    BY <2>1, Zenon DEF TypeOK, diskVars, cacheVars
  <2>5. FlowInv'
    BY <2>1, <2>2 DEF FlowInv, TypeOK, begin_op, Running, cacheVars
  <2>6. SpaceInv'
    BY <2>1, <2>2, <2>3, Zenon DEF SpaceInv, TypeOK, cacheVars
  <2> QED
    BY <2>4, <2>5, <2>6
<1>3. CASE ~MustWait
  <2>1. /\ pc' = [pc EXCEPT ![p] = "op"]
        /\ outstanding' = outstanding + 1
        /\ wrote' = [wrote EXCEPT ![p] = {}]
        /\ UNCHANGED <<disk, dlog, dhead, buf, refcnt, holder, lh, committing,
                       tail, boot, panic, faults>>
        /\ committing = 0 /\ boot = "up"
    BY <1>3 DEF begin_op, Goto, MustWait, Running, diskVars, cacheVars, TypeOK
  <2>2. Active' = Active \cup {p} /\ Committers' = Committers
    BY <1>1, <2>1, ZenonT(30) DEF Active, Committers, CommitPc, TypeOK
  <2>3. Cardinality(Active') = outstanding + 1 /\ IsFiniteSet(Active')
    BY <1>1, <2>2, ActiveFinite, FS_AddElement DEF FlowInv
  <2>4. TypeOK'
    <3>1. wrote' \in [Proc -> SUBSET Block]
      BY <2>1, Zenon DEF TypeOK
    <3>2. LogHeader(lh)' /\ LogHeader(dhead)'
      BY <2>1, Zenon DEF TypeOK, LogHeader
    <3>3. outstanding' \in Nat
      <4>1. outstanding \in Nat /\ outstanding' = outstanding + 1
        BY <2>1, Zenon DEF TypeOK
      <4> QED
        BY <4>1
    <3> QED
      BY <2>1, <3>1, <3>2, <3>3, Zenon DEF TypeOK
  <2>5. FlowInv'
    <3>1. outstanding' = Cardinality(Active')
      BY <2>1, <2>3
    <3>2. \A q \in Proc : /\ pc'[q] \in {"write_log", "install_trans"} => tail' \in DOMAIN lh'
                          /\ pc'[q] = "write_head" => lh' # <<>>
      BY <2>1 DEF FlowInv, TypeOK
    <3>3. /\ \A b \in Block : holder'[b] # NoProc => pc'[holder'[b]] = "dirty"
          /\ \A a, b \in Block : holder'[a] = holder'[b] /\ holder'[a] # NoProc => a = b
      BY <1>1, <2>1 DEF FlowInv, TypeOK, Active
    <3> QED
      BY <2>1, <2>2, <3>1, <3>2, <3>3 DEF FlowInv
  <2>6. Len(lh) + (outstanding + 1) * MAXOPBLOCKS <= LOGSIZE
    <3>1. Len(lh) \in Nat /\ outstanding \in Nat
      BY HeaderFacts, Zenon DEF TypeOK
    <3>2. (outstanding + 1) * MAXOPBLOCKS \in Nat
      BY <3>1, LogAssumption
    <3> QED
      BY <1>3, <3>1, <3>2, LogAssumption DEF MustWait
  <2>7. Cardinality(Reserved') \in Nat
        /\ Cardinality(Reserved') <= (outstanding + 1) * MAXOPBLOCKS
    <3>1. Reserved' \in SUBSET (Active' \X (1..MAXOPBLOCKS))
      BY DEF Reserved
    <3> QED
      BY <2>3, <3>1, ReservedBound
  <2>8. Len(lh') + Cardinality(Reserved') <= LOGSIZE
    <3>1. Len(lh') = Len(lh) /\ Len(lh) \in Nat /\ outstanding \in Nat
      BY <2>1, HeaderFacts, Zenon DEF TypeOK
    <3>2. (outstanding + 1) * MAXOPBLOCKS \in Nat
      BY <3>1, LogAssumption
    <3> QED
      BY <2>6, <2>7, <3>1, <3>2, LogAssumption
  <2>9. p \notin {q \in Proc : pc[q] = "dirty"} /\ wrote'[p] = {} /\ Cardinality({}) = 0
    BY <2>1, FS_EmptySet, Zenon DEF begin_op, TypeOK
  <2>10. \A b \in Block : holder[b] # NoProc => holder[b] # p /\ holder[b] \in Proc
    BY <2>9 DEF FlowInv, TypeOK
  <2>11. SpaceInv'
    <3>1. \A q \in Proc : q # p => wrote'[q] = wrote[q] /\ pc'[q] = pc[q]
      BY <2>1, Zenon DEF TypeOK
    <3>2. ASSUME NEW q \in Active'
          PROVE  wrote'[q] \subseteq Logged(lh') /\ Cardinality(wrote'[q]) <= OpBlocks
      <4>1. CASE q = p
        <5>1. 0 <= OpBlocks
          BY LogAssumption
        <5>2. wrote'[q] = {} /\ Cardinality({}) = 0
          BY <2>9, <4>1
        <5> QED
          BY <5>1, <5>2
      <4>2. CASE q # p
        BY <2>1, <2>2, <3>1, <4>2 DEF SpaceInv, Active
      <4> QED
        BY <4>1, <4>2
    <3>3. ASSUME NEW b \in Block, holder'[b] # NoProc
          PROVE  Cardinality(wrote'[holder'[b]] \cup {b}) <= OpBlocks
      BY <2>1, <2>10, <3>1, <3>3 DEF SpaceInv
    <3>4. ~ \E q \in Proc : pc'[q] = "finish"
      BY <2>1, <2>2 DEF Committers, CommitPc, FlowInv
    <3> QED
      BY <2>1, <2>2, <2>8, <3>2, <3>3, <3>4 DEF SpaceInv
  <2> QED
    BY <2>4, <2>5, <2>11
<1> QED
  BY <1>2, <1>3

\* Steps that touch only cached contents and reference counts.
LEMMA QuietSpace ==
  ASSUME Space, TypeOK',
         UNCHANGED <<holder, lh, outstanding, committing, tail, pc, wrote, boot, panic>>
  PROVE  Space'
<1> USE DEF Space
<1>1. Active' = Active /\ Committers' = Committers /\ Reserved' = Reserved
  BY DEF Active, Committers, Reserved
<1>2. FlowInv'
  BY <1>1 DEF FlowInv
<1>3. SpaceInv'
  BY <1>1 DEF SpaceInv
<1> QED
  BY <1>2, <1>3

\* While a process commits no call is in progress, it is the only committer,
\* and no buffer is locked by a call.
LEMMA CommitterFacts ==
  ASSUME Space, NEW p \in Committers
  PROVE  /\ p \in Proc /\ boot = "up" /\ committing = 1 /\ Committers = {p}
         /\ Active = {} /\ Reserved = {} /\ outstanding = 0
         /\ \A b \in Block : holder[b] = NoProc
<1> USE DEF Space
<1>1. p \in Proc /\ committing = 1 /\ Committers = {p}
  BY DEF FlowInv, Committers
<1>2. boot = "up" /\ Active = {}
  BY <1>1 DEF FlowInv, Committers, CommitPc
<1>3. Reserved = {}
  BY <1>2 DEF Reserved
<1>4. outstanding = 0
  BY <1>2, FS_EmptySet DEF FlowInv
<1>5. ASSUME NEW b \in Block, holder[b] # NoProc PROVE FALSE
  BY <1>2, <1>5 DEF FlowInv, TypeOK, Active
<1> QED
  BY <1>1, <1>2, <1>3, <1>4, <1>5

\* A step of commit() that moves the committer to l and may empty the log.
LEMMA CommitStepSpace ==
  ASSUME Space, TypeOK', NEW p \in Committers, NEW l \in CommitPc,
         pc' = [pc EXCEPT ![p] = l],
         UNCHANGED <<holder, outstanding, committing, wrote, boot, panic>>,
         lh' \in {lh, <<>>},
         l = "finish" => lh' = <<>>,
         l = "write_head" => lh' # <<>>,
         l \in {"write_log", "install_trans"} => tail' \in DOMAIN lh'
  PROVE  Space'
<1> USE DEF Space
<1>1. /\ p \in Proc /\ boot = "up" /\ committing = 1 /\ Committers = {p}
      /\ Active = {} /\ Reserved = {} /\ outstanding = 0
      /\ \A b \in Block : holder[b] = NoProc
  BY CommitterFacts
<1>2. Active' = {} /\ Committers' = {p}
  BY <1>1, Zenon DEF Active, Committers, CommitPc, TypeOK
<1>3. Reserved' = {} /\ Cardinality({}) = 0
  BY <1>2, FS_EmptySet DEF Reserved
<1>4. FlowInv'
  <2>1. \A q \in Proc : pc'[q] \in {"write_log", "write_head", "install_trans"} => q = p
    BY <1>2 DEF Committers, CommitPc
  <2>2. pc'[p] = l
    BY <1>1, Zenon DEF TypeOK
  <2> QED
    BY <1>1, <1>2, <1>3, <2>1, <2>2 DEF FlowInv
<1>5. SpaceInv'
  <2>1. Len(lh') <= Len(lh) /\ Len(lh) \in Nat /\ Len(lh') \in Nat
    <3>1. Len(lh) \in Nat
      BY HeaderFacts, Zenon DEF TypeOK
    <3>2. CASE lh' = lh
      BY <3>1, <3>2
    <3>3. CASE lh' = <<>>
      BY <3>1, <3>3
    <3> QED
      BY <3>2, <3>3
  <2>2. Len(lh') + Cardinality(Reserved') <= LOGSIZE
    <3>1. Len(lh) + 0 <= LOGSIZE
      BY <1>1, <1>3 DEF SpaceInv
    <3> QED
      BY <1>3, <2>1, <3>1, LogAssumption
  <2>3. (\E q \in Proc : pc'[q] = "finish") => lh' = <<>>
    BY <1>2, <1>1, Zenon DEF Committers, CommitPc, TypeOK
  <2> QED
    BY <1>1, <1>2, <2>2, <2>3 DEF SpaceInv
<1> QED
  BY <1>4, <1>5

\* A step of recovery, which leaves an empty log behind when it is done.
LEMMA RecoverStepSpace ==
  ASSUME Space, TypeOK', boot # "up",
         UNCHANGED <<holder, outstanding, committing, pc, wrote, panic>>,
         boot' = "up" => lh' = <<>>
  PROVE  Space'
<1> USE DEF Space
<1>1. /\ pc = [p \in Proc |-> "user"] /\ committing = 0
      /\ holder = [b \in Block |-> NoProc]
  BY DEF FlowInv
<1>2. Active' = {} /\ Committers' = {} /\ Active = {}
  BY <1>1 DEF Active, Committers, CommitPc
<1>3. Reserved' = {} /\ Cardinality({}) = 0
  BY <1>2, FS_EmptySet DEF Reserved
<1>4. FlowInv'
  BY <1>1, <1>2, <1>3 DEF FlowInv
<1>5. SpaceInv'
  BY <1>1, <1>2, <1>3, EmptySeq, LogAssumption DEF SpaceInv
<1> QED
  BY <1>4, <1>5

\* Reading a block into the cache.
LEMMA ReadBlockSpace ==
  ASSUME Space, NEW b \in Block, read_block(b)
  PROVE  Space'
<1>1. TypeOK'
  BY Zenon DEF Space, TypeOK, read_block, diskVars, logVars
<1> QED
  BY <1>1, QuietSpace DEF read_block, logVars

\* Recycling a buffer.
LEMMA EvictSpace ==
  ASSUME Space, NEW b \in Block, evict(b)
  PROVE  Space'
<1>1. TypeOK'
  BY Zenon DEF Space, TypeOK, evict, diskVars, logVars
<1> QED
  BY <1>1, QuietSpace DEF evict, logVars

\* write_log() copies the next block of the log.
LEMMA WriteLogSpace ==
  ASSUME Space, NEW p \in Proc, write_log(p)
  PROVE  Space'
<1> DEFINE l == IF tail = Len(lh) THEN "write_head" ELSE "write_log"
<1>1. p \in Committers /\ tail \in DOMAIN lh
  BY DEF Space, FlowInv, write_log, Committers, CommitPc
<1>2. /\ LogHeader(lh) /\ DOMAIN lh = 1..Len(lh) /\ Len(lh) \in Nat /\ Len(lh) < NLOG
      /\ lh[tail] \in Block /\ tail \in LogArea
  BY <1>1, HeaderFacts, Zenon DEF Space, TypeOK, LogHeader
<1>3. tail' \in 1..NLOG /\ (tail # Len(lh) => tail' \in DOMAIN lh)
  BY <1>1, <1>2, LogAssumption DEF write_log
<1>4. pc' = [pc EXCEPT ![p] = l]
  BY Zenon DEF write_log, Goto, Space, TypeOK
<1>5. View(lh[tail]) \in Data \cup {NoData}
  BY <1>2, Zenon DEF Space, TypeOK, View
<1>6. TypeOK'
  <2>1. dlog' \in [LogArea -> Data \cup {NoData}] /\ buf' \in [Block -> Data \cup {NoData}]
    BY <1>2, <1>5, Zenon DEF write_log, Space, TypeOK
  <2> QED
    BY <1>3, <1>4, <2>1, ZenonT(30) DEF write_log, Space, TypeOK
<1>7. l \in CommitPc
  BY DEF CommitPc
<1>8. l # "finish" /\ (l \in {"write_log", "install_trans"} => tail' \in DOMAIN lh')
  BY <1>3 DEF write_log
<1>9. lh' # <<>>
  BY <1>1 DEF write_log
<1> HIDE DEF l
<1> QED
  BY <1>1, <1>4, <1>6, <1>7, <1>8, <1>9, CommitStepSpace, Zenon DEF write_log

\* write_head() commits.
LEMMA WriteHeadSpace ==
  ASSUME Space, NEW p \in Proc, write_head(p)
  PROVE  Space'
<1>1. p \in Committers
  BY DEF write_head, Committers, CommitPc
<1>2. 1 \in DOMAIN lh /\ 1 \in 1..NLOG
  <2>1. LogHeader(lh) /\ lh # <<>>
    BY DEF Space, TypeOK, FlowInv, write_head
  <2> QED
    BY <2>1, HeaderFacts, LogAssumption
<1>3. TypeOK'
  BY <1>2, Zenon DEF write_head, Space, TypeOK, Goto, cacheVars
<1>4. "install_trans" \in CommitPc
  BY DEF CommitPc
<1> QED
  BY <1>1, <1>2, <1>3, <1>4, CommitStepSpace, Zenon DEF write_head, Goto, cacheVars

\* Install moves one block from the log to its home.
LEMMA InstallType ==
  ASSUME Space, tail \in DOMAIN lh, Install
  PROVE  /\ disk' \in [Block -> Data \cup {NoData}]
         /\ buf' \in [Block -> Data \cup {NoData}]
         /\ refcnt' \in [Block -> 0..(UINT - 1)]
         /\ tail' \in 1..NLOG
         /\ tail # Len(lh) => tail' \in DOMAIN lh
<1>1. /\ LogHeader(lh) /\ DOMAIN lh = 1..Len(lh) /\ Len(lh) \in Nat /\ Len(lh) < NLOG
      /\ lh[tail] \in Block /\ tail \in LogArea
  BY HeaderFacts, Zenon DEF Space, TypeOK, LogHeader
<1>2. ASSUME NEW n \in 0..(UINT - 1) PROVE bunpin(n) \in 0..(UINT - 1)
  BY LogAssumption DEF bunpin
<1>3. /\ disk' \in [Block -> Data \cup {NoData}]
      /\ buf' \in [Block -> Data \cup {NoData}]
  BY <1>1, Zenon DEF Space, TypeOK, Install
<1>4. refcnt' \in [Block -> 0..(UINT - 1)]
  BY <1>1, <1>2, Zenon DEF Space, TypeOK, Install
<1>5. tail' = tail + 1
  BY DEF Install
<1> QED
  BY <1>1, <1>3, <1>4, <1>5, LogAssumption

\* install_trans() in commit().
LEMMA InstallTransSpace ==
  ASSUME Space, NEW p \in Proc, install_trans(p)
  PROVE  Space'
<1> DEFINE l == IF tail = Len(lh) THEN "clear_head" ELSE "install_trans"
<1>1. p \in Committers /\ tail \in DOMAIN lh
  BY DEF Space, FlowInv, install_trans, Committers, CommitPc
<1>2. pc' = [pc EXCEPT ![p] = l]
  BY Zenon DEF install_trans, Goto, Space, TypeOK
<1>3. TypeOK'
  BY <1>1, <1>2, InstallType, Zenon DEF install_trans, Space, TypeOK
<1>4. l \in CommitPc
  BY DEF CommitPc
<1>5. l # "finish" /\ l # "write_head" /\ (l \in {"write_log", "install_trans"} => tail' \in DOMAIN lh')
  BY <1>1, InstallType DEF install_trans
<1> HIDE DEF l
<1> QED
  BY <1>1, <1>2, <1>3, <1>4, <1>5, CommitStepSpace, Zenon DEF install_trans

\* commit() empties the log.
LEMMA ClearHeadSpace ==
  ASSUME Space, NEW p \in Proc, clear_head(p)
  PROVE  Space'
<1>1. p \in Committers /\ "finish" \in CommitPc
  BY DEF clear_head, Committers, CommitPc
<1>2. TypeOK'
  BY EmptyHeader, Zenon DEF clear_head, Space, TypeOK, Goto, cacheVars
<1> QED
  BY <1>1, <1>2, CommitStepSpace, Zenon DEF clear_head, Goto, cacheVars

\* read_head() reads a header that an earlier commit wrote.
LEMMA ReadHeadSpace ==
  ASSUME Space, read_head
  PROVE  Space'
<1>1. 1 \in 1..NLOG
  BY LogAssumption
<1>2. TypeOK'
  BY <1>1, Zenon DEF read_head, Space, TypeOK, diskVars, cacheVars
<1> QED
  BY <1>2, RecoverStepSpace DEF read_head, cacheVars

\* install_trans() in recovery.
LEMMA RecoverInstallSpace ==
  ASSUME Space, recover_install
  PROVE  Space'
<1>1. tail \in DOMAIN lh
  <2>1. LogHeader(lh) /\ tail \in 1..NLOG /\ tail <= Len(lh)
    BY Zenon DEF recover_install, Space, TypeOK
  <2> QED
    BY <2>1, HeaderFacts, LogAssumption
<1>2. TypeOK'
  BY <1>1, InstallType, Zenon DEF recover_install, Space, TypeOK
<1> QED
  BY <1>2, RecoverStepSpace DEF recover_install

\* Recovery clears the header and file system calls may start.
LEMMA RecoverClearSpace ==
  ASSUME Space, recover_clear
  PROVE  Space'
<1>1. TypeOK'
  BY EmptyHeader, Zenon DEF recover_clear, Space, TypeOK, cacheVars
<1> QED
  BY <1>1, RecoverStepSpace DEF recover_clear, Recovered, cacheVars

\* A power failure: as after boot.
LEMMA CrashSpace ==
  ASSUME Space, crash
  PROVE  Space'
<1>1. /\ dhead' = dhead /\ buf' = [b \in Block |-> NoData]
      /\ refcnt' = [b \in Block |-> 0] /\ holder' = [b \in Block |-> NoProc]
      /\ lh' = <<>> /\ outstanding' = 0 /\ committing' = 0 /\ tail' = 1
      /\ pc' = [p \in Proc |-> "user"] /\ wrote' = [p \in Proc |-> {}]
      /\ boot' = "read_head" /\ panic' = panic /\ faults' = faults
  BY DEF crash
<1>2. Active' = {} /\ Committers' = {}
  BY <1>1 DEF Active, Committers, CommitPc
<1>3. Reserved' = {} /\ Cardinality({}) = 0
  BY <1>2, FS_EmptySet DEF Reserved
<1>4. TypeOK'
  <2>1. 1 \in 1..NLOG /\ 0 \in 0..(UINT - 1) /\ LogHeader(<<>>)
    BY LogAssumption, EmptyHeader
  <2>2. /\ disk' \in [Block -> Data \cup {NoData}]
        /\ dlog' \in [LogArea -> Data \cup {NoData}]
    BY Zenon DEF crash, Space, TypeOK
  <2> QED
    BY <1>1, <2>1, <2>2, Zenon DEF Space, TypeOK
<1>5. FlowInv'
  BY <1>1, <1>2, <1>3 DEF Space, FlowInv
<1>6. SpaceInv'
  BY <1>1, <1>2, <1>3 DEF SpaceInv
<1> QED
  BY <1>4, <1>5, <1>6, SMTT(30) DEF Space

\* finish: the end of the end_op() that committed wakes the sleepers.
LEMMA FinishSpace ==
  ASSUME Space, NEW p \in Proc, finish(p)
  PROVE  Space'
<1>1. /\ p \in Committers /\ lh = <<>>
  BY DEF finish, Committers, CommitPc, Running, Space, SpaceInv
<1>2. /\ p \in Proc /\ boot = "up" /\ committing = 1 /\ Committers = {p}
      /\ Active = {} /\ Reserved = {} /\ outstanding = 0
      /\ \A b \in Block : holder[b] = NoProc
  BY <1>1, CommitterFacts
<1>3. pc' = [q \in Proc |-> IF q = p THEN "user"
                            ELSE IF pc[q] = "asleep" THEN "begin" ELSE pc[q]]
  BY DEF finish, WakeupAndGoto
<1>4. Active' = {} /\ Committers' = {}
  BY <1>2, <1>3, Zenon DEF Active, Committers, CommitPc, Space, TypeOK
<1>5. Reserved' = {} /\ Cardinality({}) = 0
  BY <1>4, FS_EmptySet DEF Reserved
<1>6. TypeOK'
  BY <1>3, Zenon DEF finish, Space, TypeOK, diskVars, cacheVars
<1>7. FlowInv'
  <2>1. \A q \in Proc : pc'[q] \notin CommitPc
    BY <1>4, SMTT(30) DEF Committers
  <2> QED
    BY <1>2, <1>4, <1>5, <2>1 DEF finish, Space, FlowInv, cacheVars, CommitPc
<1>8. SpaceInv'
  <2>1. lh' = <<>> /\ holder' = holder /\ wrote' = wrote /\ boot' = boot
    BY <1>1 DEF finish, cacheVars
  <2>2. Len(lh') + Cardinality(Reserved') <= LOGSIZE
    BY <1>5, <2>1, EmptySeq, LogAssumption
  <2> QED
    BY <1>2, <1>4, <2>1, <2>2 DEF SpaceInv
<1> QED
  BY <1>6, <1>7, <1>8 DEF Space

\* A call in progress: counted, no commit under way.
LEMMA ActiveFacts ==
  ASSUME Space, NEW p \in Active
  PROVE  /\ p \in Proc /\ boot = "up" /\ committing = 0 /\ Committers = {}
         /\ outstanding \in Nat /\ outstanding >= 1
         /\ IsFiniteSet(Active \ {p}) /\ Cardinality(Active \ {p}) = outstanding - 1
<1>1. p \in Proc /\ boot = "up" /\ committing = 0 /\ Committers = {}
  BY DEF Space, FlowInv, TypeOK, Active
<1>2. outstanding \in Nat /\ outstanding = Cardinality(Active)
  BY DEF Space, FlowInv, TypeOK
<1>3. IsFiniteSet(Active \ {p}) /\ Cardinality(Active \ {p}) = Cardinality(Active) - 1
  BY ActiveFinite, FS_RemoveElement
<1>4. Cardinality(Active \ {p}) \in Nat
  BY <1>3, FS_CardinalityType
<1> QED
  BY <1>1, <1>2, <1>3, <1>4

\* modify: a call that keeps to its share passes the checks of log_write().
LEMMA ModifySpace ==
  ASSUME Space, Sized, NEW p \in Proc, NEW b \in Block, NEW v \in Data, modify(p, b, v)
  PROVE  Space'
<1>1. p \in Active /\ pc[p] = "op" /\ holder[b] = NoProc
  BY Zenon DEF modify, Active
<1>2. /\ boot = "up" /\ committing = 0 /\ Committers = {}
      /\ outstanding \in Nat /\ outstanding >= 1
  BY <1>1, ActiveFacts, Zenon
<1>3. Len(lh) \in Nat /\ Len(lh) + 2 <= LOGSIZE
  <2>1. Cardinality(Reserved) >= 2 /\ Len(lh) + Cardinality(Reserved) <= LOGSIZE
    BY <1>1, <1>2, Margin DEF Space, SpaceInv
  <2>2. Len(lh) \in Nat
    BY HeaderFacts, Zenon DEF Space, TypeOK
  <2>3. Cardinality(Reserved) \in Nat
    BY ActiveFinite, ReservedBound DEF Reserved
  <2> QED
    BY <2>1, <2>2, <2>3, LogAssumption
<1>4. ~(Len(lh) >= LOGSIZE \/ Len(lh) >= NLOG - 1) /\ ~(outstanding < 1)
  BY <1>2, <1>3, LogAssumption DEF Sized
<1>5. /\ pc' = [pc EXCEPT ![p] = "dirty"] /\ panic' = panic
      /\ buf' = [buf EXCEPT ![b] = v]
      /\ refcnt' = [refcnt EXCEPT ![b] = bget_ref(@)]
      /\ holder' = [holder EXCEPT ![b] = p]
      /\ UNCHANGED <<disk, dlog, dhead, lh, outstanding, committing, tail, wrote, boot,
                     faults>>
  BY <1>4 DEF modify, Goto, diskVars, logVars
<1>6. Active' = Active /\ Committers' = Committers
  BY <1>1, <1>5, Zenon DEF Active, Committers, CommitPc, Space, TypeOK
<1>7. Reserved' = Reserved
  BY <1>5, <1>6 DEF Reserved
<1>8. TypeOK'
  <2>1. ASSUME NEW n \in 0..(UINT - 1) PROVE bget_ref(n) \in 0..(UINT - 1)
    BY LogAssumption DEF bget_ref
  <2>2. refcnt' \in [Block -> 0..(UINT - 1)]
    BY <1>5, <2>1, Zenon DEF Space, TypeOK
  <2> QED
    BY <1>5, <2>2, Zenon DEF Space, TypeOK
<1>9. \A a \in Block : /\ holder'[a] = IF a = b THEN p ELSE holder[a]
                       /\ holder[a] # p
                       /\ holder[a] # NoProc => holder[a] \in Proc
  BY <1>1, <1>5, LogAssumption DEF Space, TypeOK, FlowInv
<1>10. FlowInv'
  <2>1. \A q \in Proc : pc'[q] = IF q = p THEN "dirty" ELSE pc[q]
    BY <1>5, ZenonT(30) DEF Space, TypeOK
  <2>2. \A a \in Block : holder'[a] # NoProc => pc'[holder'[a]] = "dirty"
    <3>1. \A a \in Block : holder[a] # NoProc => pc[holder[a]] = "dirty"
      BY DEF Space, FlowInv
    <3> QED
      BY <1>9, <2>1, <3>1
  <2>3. \A a, c \in Block : holder'[a] = holder'[c] /\ holder'[a] # NoProc => a = c
    <3>1. \A a, c \in Block : holder[a] = holder[c] /\ holder[a] # NoProc => a = c
      BY DEF Space, FlowInv
    <3> QED
      BY <1>9, <3>1
  <2>4. \A q \in Proc : /\ pc'[q] \in {"write_log", "install_trans"} => tail' \in DOMAIN lh'
                        /\ pc'[q] = "write_head" => lh' # <<>>
    BY <1>5, <2>1, SMTT(30) DEF Space, FlowInv
  <2> QED
    BY <1>2, <1>5, <1>6, <2>2, <2>3, <2>4 DEF Space, FlowInv
<1>11. SpaceInv'
  <2>1. \A a \in Block : holder'[a] # NoProc =>
          Cardinality(wrote'[holder'[a]] \cup {a}) <= OpBlocks
    BY <1>5, <1>9, Zenon DEF Space, SpaceInv, modify
  <2>2. ~ \E q \in Proc : pc'[q] = "finish"
    BY <1>2, <1>6 DEF Committers, CommitPc
  <2> QED
    BY <1>1, <1>5, <1>6, <1>7, <2>1, <2>2, SMTT(30) DEF Space, SpaceInv
<1> QED
  BY <1>8, <1>10, <1>11 DEF Space

\* end_op(): a reservation is given back; the last call starts the commit.
LEMMA EndOpSpace ==
  ASSUME Space, NEW p \in Proc, end_op(p)
  PROVE  Space'
<1>1. p \in Active /\ pc[p] = "op"
  BY DEF end_op, Active
<1>2. /\ boot = "up" /\ committing = 0 /\ Committers = {}
      /\ outstanding \in Nat /\ outstanding >= 1
      /\ IsFiniteSet(Active \ {p}) /\ Cardinality(Active \ {p}) = outstanding - 1
  BY <1>1, ActiveFacts, Zenon
<1>3. /\ outstanding' = outstanding - 1
      /\ UNCHANGED <<disk, dlog, dhead, buf, refcnt, holder, lh, wrote, boot, panic,
                     faults>>
      /\ \/ /\ outstanding = 1 /\ committing' = 1 /\ tail' = 1
            /\ pc' = [pc EXCEPT ![p] = IF lh = <<>> THEN "finish" ELSE "write_log"]
         \/ /\ outstanding # 1 /\ UNCHANGED <<committing, tail>>
            /\ pc' = [q \in Proc |-> IF q = p THEN "user"
                       ELSE IF pc[q] = "asleep" THEN "begin" ELSE pc[q]]
  BY <1>2 DEF end_op, Goto, WakeupAndGoto, diskVars, cacheVars
<1>4. Active' = Active \ {p}
  BY <1>1, <1>3, Zenon DEF Active, Space, TypeOK
<1>5. Reserved' \subseteq Reserved
  BY <1>3, <1>4 DEF Reserved
<1>6. /\ Cardinality(Reserved') \in Nat /\ Cardinality(Reserved) \in Nat
      /\ Cardinality(Reserved') <= Cardinality(Reserved)
  <2>1. IsFiniteSet(Reserved)
    BY ActiveFinite, ReservedBound DEF Reserved
  <2> QED
    BY <1>5, <2>1, FS_Subset, FS_CardinalityType
<1>7. Len(lh') + Cardinality(Reserved') <= LOGSIZE
  <2>1. Len(lh) \in Nat
    BY HeaderFacts, Zenon DEF Space, TypeOK
  <2>2. Len(lh) + Cardinality(Reserved) <= LOGSIZE
    BY <1>2 DEF Space, SpaceInv
  <2> QED
    BY <1>3, <1>6, <2>1, <2>2, LogAssumption
<1>8. \A q \in Proc : pc[q] = "dirty" => q # p /\ pc'[q] = "dirty"
  BY <1>1, <1>3, Zenon DEF Space, TypeOK
<1>9. \A b \in Block : holder[b] # NoProc =>
        holder[b] \in Proc /\ pc[holder[b]] = "dirty" /\ pc'[holder[b]] = "dirty"
  BY <1>8 DEF Space, TypeOK, FlowInv
<1>10. TypeOK'
  <2>1. outstanding' \in Nat /\ 1 \in 1..NLOG
    BY <1>2, <1>3, LogAssumption
  <2>2. /\ pc' \in [Proc -> {"user", "begin", "asleep", "op", "dirty", "write_log",
                      "write_head", "install_trans", "clear_head", "finish"}]
        /\ committing' \in {0, 1} /\ tail' \in 1..NLOG
    BY <1>3, <2>1, Zenon DEF Space, TypeOK
  <2> QED
    BY <1>3, <2>1, <2>2, Zenon DEF Space, TypeOK
<1>11. CASE outstanding = 1
  <2>1. /\ committing' = 1 /\ tail' = 1
        /\ pc' = [pc EXCEPT ![p] = IF lh = <<>> THEN "finish" ELSE "write_log"]
    BY <1>3, <1>11
  <2>2. Active' = {}
    BY <1>2, <1>4, <1>11, FS_EmptySet
  <2>3. Committers' = {p}
    BY <1>2, <2>1, ZenonT(30) DEF Committers, CommitPc, Space, TypeOK
  <2>4. \A q \in Proc : pc'[q] \in CommitPc => q = p
    BY <2>3 DEF Committers
  <2>5. lh # <<>> => 1 \in DOMAIN lh
    <3>1. LogHeader(lh)
      BY Zenon DEF Space, TypeOK
    <3> QED
      BY <3>1, HeaderFacts
  <2>6. pc'[p] = IF lh = <<>> THEN "finish" ELSE "write_log"
    BY <2>1, Zenon DEF Space, TypeOK
  <2>7. FlowInv'
    <3>1. \A q \in Proc : /\ pc'[q] \in {"write_log", "install_trans"} => tail' \in DOMAIN lh'
                          /\ pc'[q] = "write_head" => lh' # <<>>
      BY <1>3, <2>1, <2>4, <2>5, <2>6 DEF CommitPc
    <3>2. outstanding' = Cardinality(Active')
      BY <1>2, <1>3, <1>4
    <3> QED
      BY <1>2, <1>3, <1>9, <2>1, <2>2, <2>3, <3>1, <3>2, SMTT(30) DEF Space, FlowInv
  <2>8. SpaceInv'
    <3>1. (\E q \in Proc : pc'[q] = "finish") => lh' = <<>>
      BY <1>3, <2>4, <2>6 DEF CommitPc
    <3>2. \A b \in Block : holder'[b] # NoProc =>
            Cardinality(wrote'[holder'[b]] \cup {b}) <= OpBlocks
      BY <1>3 DEF Space, SpaceInv
    <3>3. committing' # 0
      BY <2>1
    <3> QED
      BY <1>7, <2>2, <3>1, <3>2, <3>3, Zenon DEF SpaceInv
  <2> QED
    BY <1>10, <2>7, <2>8 DEF Space
<1>12. CASE outstanding # 1
  <2>1. /\ UNCHANGED <<committing, tail>>
        /\ pc' = [q \in Proc |-> IF q = p THEN "user"
                       ELSE IF pc[q] = "asleep" THEN "begin" ELSE pc[q]]
    BY <1>3, <1>12
  <2>2. Committers' = {}
    BY <1>2, <2>1, Zenon DEF Committers, CommitPc, Space, TypeOK
  <2>3. \A q \in Proc : pc'[q] \notin CommitPc
    BY <2>2 DEF Committers
  <2>4. Active' # {}
    <3>1. Cardinality(Active') # 0
      BY <1>2, <1>4, <1>12, SMTT(30)
    <3> QED
      BY <3>1, FS_EmptySet
  <2>5. FlowInv'
    <3>1. outstanding' = Cardinality(Active')
      BY <1>2, <1>3, <1>4
    <3> QED
      BY <1>2, <1>3, <1>9, <2>1, <2>2, <2>3, <3>1, SMTT(30) DEF Space, FlowInv, CommitPc
  <2>6. SpaceInv'
    BY <1>3, <1>4, <1>7, <2>3, <2>4 DEF Space, SpaceInv, CommitPc
  <2> QED
    BY <1>10, <2>5, <2>6 DEF Space
<1> QED
  BY <1>11, <1>12

\* log_write(): a new block in the log is paid for by the caller's share.
LEMMA LogWriteSpace ==
  ASSUME Space, Sized, NEW p \in Proc, NEW b \in Block, log_write(p, b)
  PROVE  Space' /\ Len(lh') >= Len(lh)
<1>1. p \in Active /\ pc[p] = "dirty" /\ holder[b] = p
  BY DEF log_write, Active
<1>2. /\ boot = "up" /\ committing = 0 /\ Committers = {}
  BY <1>1, ActiveFacts, Zenon
<1>3. /\ pc' = [pc EXCEPT ![p] = "op"]
      /\ holder' = [holder EXCEPT ![b] = NoProc]
      /\ wrote' = [wrote EXCEPT ![p] = @ \cup {b}]
      /\ UNCHANGED <<disk, dlog, dhead, buf, outstanding, committing, tail, boot, panic,
                     faults>>
  BY DEF log_write, Goto, diskVars
<1>4. Active' = Active /\ Committers' = Committers
  BY <1>1, <1>3, Zenon DEF Active, Committers, CommitPc, Space, TypeOK
<1>5. /\ wrote'[p] = wrote[p] \cup {b}
      /\ \A q \in Proc : q # p => wrote'[q] = wrote[q]
      /\ wrote' \in [Proc -> SUBSET Block]
  BY <1>3, ZenonT(30) DEF Space, TypeOK
<1>6. /\ wrote[p] \subseteq Logged(lh) /\ Cardinality(wrote[p]) <= OpBlocks
      /\ Cardinality(wrote'[p]) <= OpBlocks
  BY <1>1, <1>5, LogAssumption, SMTT(30) DEF Space, SpaceInv
<1>7. /\ IsFiniteSet(wrote[p]) /\ Cardinality(wrote[p]) \in Nat
      /\ IsFiniteSet(wrote'[p]) /\ Cardinality(wrote'[p]) \in Nat
      /\ Cardinality(wrote[p]) <= Cardinality(wrote'[p])
  <2>1. IsFiniteSet(wrote[p]) /\ Cardinality(wrote[p]) \in Nat
    BY WroteFinite, SMTT(30) DEF Space
  <2>2. wrote'[p] \in SUBSET Block
    BY <1>5, SMTT(30)
  <2>3. IsFiniteSet(wrote'[p]) /\ Cardinality(wrote'[p]) \in Nat
    BY <2>2, LogAssumption, FS_Subset, FS_CardinalityType, SMTT(30)
  <2>4. wrote[p] \in SUBSET wrote'[p]
    BY <1>5
  <2> QED
    BY <2>1, <2>3, <2>4, FS_Subset
<1>8. Reserved' \subseteq Reserved
  BY <1>4, <1>5, <1>7 DEF Reserved, Active
<1>9. IsFiniteSet(Reserved) /\ Cardinality(Reserved) \in Nat
  BY ActiveFinite, ReservedBound, SMTT(30) DEF Reserved
<1>10. /\ LogHeader(lh) /\ Len(lh) \in Nat /\ lh \in Seq(Block)
       /\ Len(lh) + Cardinality(Reserved) <= LOGSIZE
       /\ Cardinality(Reserved) >= 2
  BY <1>1, <1>2, <1>6, HeaderFacts, Margin, Zenon DEF Space, SpaceInv, TypeOK, LogHeader
<1>11. /\ LogHeader(lh)' /\ Len(lh') >= Len(lh) /\ Logged(lh') = Logged(lh) \cup {b}
       /\ Len(lh') + Cardinality(Reserved') <= LOGSIZE
       /\ refcnt' \in [Block -> 0..(UINT - 1)]
  <2>1. ASSUME NEW n \in 0..(UINT - 1)
        PROVE  /\ brelse_ref(n) \in 0..(UINT - 1) /\ bpin(n) \in 0..(UINT - 1)
    BY LogAssumption DEF brelse_ref, bpin
  <2>2. CASE Absorbed(b)
    <3>1. lh' = lh /\ b \in Logged(lh)
      BY <2>2 DEF log_write, Absorbed
    <3>2. refcnt' \in [Block -> 0..(UINT - 1)]
      <4>1. refcnt' = [refcnt EXCEPT ![b] = brelse_ref(refcnt[b])]
        BY <2>2 DEF log_write
      <4>2. brelse_ref(refcnt[b]) \in 0..(UINT - 1)
        BY <2>1, Zenon DEF Space, TypeOK
      <4> QED
        BY <4>1, <4>2, Zenon DEF Space, TypeOK
    <3>3. Cardinality(Reserved') \in Nat /\ Cardinality(Reserved') <= Cardinality(Reserved)
      BY <1>8, <1>9, FS_Subset, FS_CardinalityType
    <3>4. Logged(lh') = Logged(lh) \cup {b} /\ LogHeader(lh)' /\ Len(lh') = Len(lh)
      BY <1>10, <3>1
    <3> QED
      BY <1>9, <1>10, <3>2, <3>3, <3>4, LogAssumption
  <2>3. CASE ~Absorbed(b)
    <3> DEFINE x == <<p, Cardinality(wrote[p]) + 1>>
    <3>1. lh' = Append(lh, b) /\ b \notin Logged(lh)
      BY <2>3 DEF log_write, Absorbed
    <3>2. refcnt' \in [Block -> 0..(UINT - 1)]
      <4>1. refcnt' = [refcnt EXCEPT ![b] = brelse_ref(bpin(refcnt[b]))]
        BY <2>3 DEF log_write
      <4>2. brelse_ref(bpin(refcnt[b])) \in 0..(UINT - 1)
        BY <2>1, Zenon DEF Space, TypeOK
      <4> QED
        BY <4>1, <4>2, Zenon DEF Space, TypeOK
    <3>3. /\ lh' \in Seq(Block) /\ Len(lh') = Len(lh) + 1
          /\ \A i, j \in DOMAIN lh' : lh'[i] = lh'[j] => i = j
          /\ Logged(lh') = Logged(lh) \cup {b}
      <4>1. lh \in Seq(Block) /\ \A i, j \in DOMAIN lh : lh[i] = lh[j] => i = j
        BY <1>10, SMTT(30) DEF LogHeader
      <4>2. /\ Append(lh, b) \in Seq(Block) /\ Len(Append(lh, b)) = Len(lh) + 1
            /\ \A i, j \in DOMAIN Append(lh, b) : Append(lh, b)[i] = Append(lh, b)[j] => i = j
            /\ Logged(Append(lh, b)) = Logged(lh) \cup {b}
        BY <3>1, <4>1, AppendNew, SMTT(30)
      <4> QED
        BY <3>1, <4>2, Zenon
    <3>4. Cardinality(wrote'[p]) = Cardinality(wrote[p]) + 1
      BY <1>5, <1>6, <1>7, <3>1, FS_AddElement, SMTT(30)
    <3>5. x \in Reserved
      BY <1>1, <1>6, <1>7, LogAssumption, SMTT(30) DEF Reserved, Sized
    <3>6. x \notin Reserved'
      BY <1>7, <3>4 DEF Reserved
    <3> HIDE DEF x
    <3>7. Reserved' \subseteq Reserved \ {x}
      BY <1>8, <3>5, <3>6
    <3>8. IsFiniteSet(Reserved \ {x}) /\ Cardinality(Reserved \ {x}) = Cardinality(Reserved) - 1
      BY <1>9, <3>5, FS_RemoveElement
    <3>9. Cardinality(Reserved') \in Nat /\ Cardinality(Reserved') <= Cardinality(Reserved) - 1
      BY <3>7, <3>8, FS_Subset, FS_CardinalityType
    <3>10. Len(lh') < NLOG
      BY <1>9, <1>10, <3>3, LogAssumption DEF Sized
    <3>11. LogHeader(lh)'
      BY <3>3, <3>10 DEF LogHeader
    <3>12. Len(lh') >= Len(lh) /\ Len(lh') + Cardinality(Reserved') <= LOGSIZE
      BY <1>9, <1>10, <3>3, <3>9, LogAssumption, SMTT(30)
    <3> QED
      BY <3>2, <3>3, <3>11, <3>12
  <2> QED
    BY <2>2, <2>3
<1>12. TypeOK'
  BY <1>3, <1>5, <1>11, Zenon DEF Space, TypeOK
<1>13. \A a \in Block : /\ holder'[a] = IF a = b THEN NoProc ELSE holder[a]
                        /\ holder'[a] # NoProc => holder[a] # p /\ holder[a] \in Proc
  <2>1. holder \in [Block -> Proc \cup {NoProc}] /\ NoProc \notin Proc
    BY LogAssumption, Zenon DEF Space, TypeOK
  <2>2. \A a \in Block : holder[a] = holder[b] /\ holder[a] # NoProc => a = b
    BY DEF Space, FlowInv
  <2> QED
    BY <1>1, <1>3, <2>1, <2>2
<1>14. FlowInv'
  <2>1. \A q \in Proc : pc'[q] = IF q = p THEN "op" ELSE pc[q]
    BY <1>3, ZenonT(30) DEF Space, TypeOK
  <2>2. \A a \in Block : holder'[a] # NoProc => pc'[holder'[a]] = "dirty"
    BY <1>13, <2>1, ZenonT(30) DEF Space, FlowInv
  <2>3. \A a, c \in Block : holder'[a] = holder'[c] /\ holder'[a] # NoProc => a = c
    BY <1>13, SMTT(30) DEF Space, FlowInv
  <2>4. \A q \in Proc : pc'[q] \notin CommitPc
    BY <1>2, <1>4, Zenon DEF Committers
  <2> QED
    BY <1>2, <1>3, <1>4, <2>2, <2>3, <2>4, SMTT(30) DEF Space, FlowInv, CommitPc
<1>15. SpaceInv'
  <2>1. \A q \in Active' : /\ wrote'[q] \subseteq Logged(lh')
                           /\ Cardinality(wrote'[q]) <= OpBlocks
    <3>1. ASSUME NEW q \in Active PROVE wrote'[q] \subseteq Logged(lh') /\ Cardinality(wrote'[q]) <= OpBlocks
      <4>1. q \in Proc /\ wrote[q] \subseteq Logged(lh) /\ Cardinality(wrote[q]) <= OpBlocks
        BY DEF Space, SpaceInv, Active
      <4>2. CASE q = p
        BY <1>5, <1>6, <1>11, <4>1, <4>2, Zenon
      <4>3. CASE q # p
        BY <1>5, <1>11, <4>1, <4>3
      <4> QED
        BY <4>2, <4>3
    <3> QED
      BY <1>4, <3>1
  <2>2. \A a \in Block : holder'[a] # NoProc =>
          Cardinality(wrote'[holder'[a]] \cup {a}) <= OpBlocks
    BY <1>5, <1>13, Zenon DEF Space, SpaceInv
  <2>3. ~ \E q \in Proc : pc'[q] = "finish"
    BY <1>2, <1>4 DEF Committers, CommitPc
  <2> QED
    BY <1>1, <1>3, <1>4, <1>11, <2>1, <2>2, <2>3, ZenonT(30) DEF SpaceInv
<1> QED
  BY <1>11, <1>12, <1>14, <1>15 DEF Space

\* Every step of the machine.
LEMMA NextSpace ==
  ASSUME Space, Sized, [Next]_vars
  PROVE  Space'
<1>1. ASSUME NEW p \in Proc, begin_op(p) \/ end_op(p) PROVE Space'
  BY <1>1, BeginOpSpace, EndOpSpace
<1>2. ASSUME NEW p \in Proc, Commit(p) PROVE Space'
  BY <1>2, WriteLogSpace, WriteHeadSpace, InstallTransSpace, ClearHeadSpace,
     FinishSpace DEF Commit
<1>3. ASSUME NEW p \in Proc, NEW b \in Block, log_write(p, b) PROVE Space'
  BY <1>3, LogWriteSpace
<1>4. ASSUME NEW p \in Proc, NEW b \in Block, NEW v \in Data, modify(p, b, v)
      PROVE  Space'
  BY <1>4, ModifySpace
<1>5. ASSUME NEW b \in Block, read_block(b) \/ evict(b) PROVE Space'
  BY <1>5, ReadBlockSpace, EvictSpace
<1>6. ASSUME Recover PROVE Space'
  BY <1>6, ReadHeadSpace, RecoverInstallSpace, RecoverClearSpace DEF Recover
<1>7. ASSUME crash PROVE Space'
  BY <1>7, CrashSpace
<1>8. ASSUME UNCHANGED vars PROVE Space'
  <2>1. TypeOK'
    BY <1>8, Zenon DEF vars, Space, TypeOK
  <2> QED
    BY <1>8, <2>1, QuietSpace, SMTT(30) DEF vars
<1> QED
  BY <1>1, <1>2, <1>3, <1>4, <1>5, <1>6, <1>7, <1>8 DEF Next

\* Types, the flow of calls and the space accounting hold in every state.
THEOREM SpaceAlways == Sized /\ Spec => []Space
<1>1. Init => Space
  BY InitSpace
<1>2. Sized /\ Space /\ [Next]_vars => Space'
  BY NextSpace
<1>3. Sized => []Sized
  <2>1. Sized => Sized'
    BY DEF Sized
  <2> QED
    BY <2>1, PTL
<1> QED
  BY <1>1, <1>2, <1>3, PTL DEF Spec

\* Type correctness: among others log.lh never outgrows the log area and
\* never holds a block twice.
THEOREM TypeCorrect == Sized /\ Spec => []TypeOK
<1>1. Space => TypeOK
  BY DEF Space
<1> QED
  BY <1>1, SpaceAlways, PTL

\* No call that leaves two blocks of its share unused makes log.c panic.
THEOREM NeverPanics == Sized /\ Spec => []NoPanic
<1>1. Space => NoPanic
  BY DEF Space, FlowInv, NoPanic
<1> QED
  BY <1>1, SpaceAlways, PTL

--------------------------------------------------------------------------------
\* Wakeups.

\* The need of a log with n blocks and c calls grows with both.
LEMMA NeedMonotone ==
  ASSUME NEW n \in Nat, NEW n2 \in Nat, NEW c \in Nat, NEW c2 \in Nat,
         NEW k \in Nat, NEW size \in Nat, n2 >= n, c2 >= c, n + (c + 1) * k > size
  PROVE  n2 + (c2 + 1) * k > size
<1> DEFINE x == c + 1
           y == c2 + 1
<1>1. x \in Nat /\ y \in Nat /\ y >= x /\ n + x * k > size
  OBVIOUS
<1> HIDE DEF x, y
<1>2. y * k >= x * k /\ y * k \in Nat /\ x * k \in Nat
  BY <1>1
<1>3. n2 + y * k > size
  BY <1>1, <1>2
<1> QED
  BY <1>3 DEF y

\* More blocks in the log, or more calls in progress, never let a sleeper in.
LEMMA MustWaitMonotone ==
  ASSUME Space, Space', MustWait, committing = 1 => committing' = 1,
         Len(lh') >= Len(lh), outstanding' >= outstanding
  PROVE  MustWait'
<1>1. /\ Len(lh) \in Nat /\ Len(lh') \in Nat
      /\ outstanding \in Nat /\ outstanding' \in Nat
  BY HeaderFacts, Zenon DEF Space, TypeOK
<1>2. MAXOPBLOCKS \in Nat /\ LOGSIZE \in Nat
  BY LogAssumption
<1> QED
  BY <1>1, <1>2, NeedMonotone, SMTT(30) DEF MustWait

\* No step leaves behind a sleeper whose reason to sleep is gone.
LEMMA NextWakeup ==
  ASSUME Space, Space', Sized, NoLostWakeup, [Next]_vars
  PROVE  NoLostWakeup'
<1> SUFFICES ASSUME boot' = "up", NEW q \in Proc, pc'[q] = "asleep"
             PROVE  MustWait'
  BY SMTT(30) DEF NoLostWakeup
<1>0. /\ boot = "up" /\ pc[q] = "asleep" => MustWait
      /\ boot # "up" => pc[q] = "user"
      /\ outstanding \in Nat /\ Len(lh) \in Nat
  BY HeaderFacts DEF NoLostWakeup, Space, FlowInv, TypeOK
<1> DEFINE Label == {"user", "begin", "asleep", "op", "dirty", "write_log",
                     "write_head", "install_trans", "clear_head", "finish"}
<1>10. ASSUME NEW p \in Proc, NEW l \in Label \ {"asleep"}, Goto(p, l)
       PROVE  pc[q] = "asleep"
  <2>1. pc \in [Proc -> Label]
    BY Zenon DEF Space, TypeOK
  <2> QED
    BY <1>10, <2>1, SMTT(30) DEF Goto
<1>1. ASSUME NEW p \in Proc, begin_op(p) PROVE MustWait'
  <2>1. MustWait /\ lh' = lh /\ committing' = committing /\ outstanding' >= outstanding
    <3>1. boot = "up" /\ lh' = lh /\ committing' = committing
      BY <1>1 DEF begin_op, Running
    <3>2. CASE MustWait /\ UNCHANGED outstanding
      BY <1>0, <3>1, <3>2
    <3>3. CASE outstanding' = outstanding + 1 /\ Goto(p, "op")
      BY <1>0, <1>10, <3>1, <3>3
    <3> QED
      BY <1>1, <3>2, <3>3, SMTT(30) DEF begin_op
  <2> QED
    BY <1>0, <2>1, MustWaitMonotone
<1>2. ASSUME NEW p \in Proc, end_op(p) PROVE MustWait'
  <2>1. committing = 0
    BY <1>2, ActiveFacts, ZenonT(30) DEF end_op, Active
  <2>2. committing' = 1
    BY <1>2, <2>1 DEF end_op, WakeupAndGoto
  <2> QED
    BY <2>2 DEF MustWait
<1>3. ASSUME NEW p \in Proc, Commit(p) PROVE MustWait'
  <2>1. CASE finish(p)
    BY <2>1 DEF finish, WakeupAndGoto
  <2>2. CASE ~finish(p)
    <3>1. committing = 1 /\ committing' = committing
      <4>1. p \in Committers
        BY <1>3, <2>2 DEF Commit, write_log, write_head, install_trans, clear_head,
                          Committers, CommitPc
      <4> QED
        BY <1>3, <2>2, <4>1, CommitterFacts
        DEF Commit, write_log, write_head, install_trans, clear_head
    <3> QED
      BY <3>1 DEF MustWait
  <2> QED
    BY <2>1, <2>2
<1>4. ASSUME NEW p \in Proc, NEW b \in Block, log_write(p, b) PROVE MustWait'
  <2>1. MustWait /\ committing' = committing /\ outstanding' = outstanding
    <3>1. boot = "up" /\ Goto(p, "op")
      BY <1>4, Zenon DEF log_write, Running
    <3> QED
      BY <1>0, <1>4, <1>10, <3>1, ZenonT(30) DEF log_write
  <2>2. Len(lh') >= Len(lh)
    BY <1>4, LogWriteSpace
  <2> QED
    BY <1>0, <2>1, <2>2, MustWaitMonotone, SMTT(30)
<1>5. ASSUME NEW p \in Proc, NEW b \in Block, NEW v \in Data, modify(p, b, v)
      PROVE  MustWait'
  <2>1. boot = "up" /\ lh' = lh /\ committing' = committing /\ outstanding' = outstanding
    BY <1>5, Zenon DEF modify, Running, logVars
  <2>2. pc[q] = "asleep"
    <3>1. Goto(p, "dirty") \/ pc' = pc
      BY <1>5, Zenon DEF modify
    <3> QED
      BY <1>10, <3>1, SMTT(30)
  <2> QED
    BY <1>0, <2>1, <2>2, SMTT(30) DEF MustWait
<1>6. ASSUME NEW b \in Block, read_block(b) \/ evict(b) PROVE MustWait'
  BY <1>0, <1>6 DEF read_block, evict, Running, MustWait, logVars
<1>7. ASSUME Recover PROVE FALSE
  BY <1>0, <1>7 DEF Recover, read_head, recover_install, recover_clear, Recovered
<1>8. ASSUME crash PROVE FALSE
  BY <1>8 DEF crash
<1>9. ASSUME UNCHANGED vars PROVE MustWait'
  <2>1. boot = "up" /\ lh' = lh /\ committing' = committing /\ outstanding' = outstanding
        /\ pc' = pc
    BY <1>9 DEF vars
  <2> QED
    BY <1>0, <2>1 DEF MustWait
<1> QED
  BY <1>1, <1>2, <1>3, <1>4, <1>5, <1>6, <1>7, <1>8, <1>9 DEF Next

\* No process sleeps in begin_op() for a reason that is gone.
THEOREM WakeupsReachEveryone == Sized /\ Spec => []NoLostWakeup
<1>1. Init => NoLostWakeup
  BY DEF Init, NoLostWakeup
<1>2. Sized /\ Space /\ Space' /\ NoLostWakeup /\ [Next]_vars => NoLostWakeup'
  BY NextWakeup
<1>3. Sized => []Sized
  <2>1. Sized => Sized'
    BY DEF Sized
  <2> QED
    BY <2>1, PTL
<1> QED
  BY <1>1, <1>2, <1>3, SpaceAlways, PTL DEF Spec
===============================================================================
