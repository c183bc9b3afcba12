------------------------------ MODULE LogProofs ------------------------------
(***************************************************************************)
(* Proofs about Log for any number of processes and blocks and any log     *)
(* size: LogInv is an invariant, no update is lost by recycling a buffer,  *)
(* and the log implements the transactional disk of TransDisk.             *)
(***************************************************************************)
EXTENDS Log, FiniteSetTheorems, TLAPS

\* Reading the durable contents: block s[i] comes from the i-th log block, a
\* block the header does not name comes from home.
LEMMA OverlayFacts ==
  ASSUME NEW h \in [Block -> Data], NEW l \in [Idx -> Data],
         NEW s \in Seq(Block), Len(s) <= LOGSIZE, NoDup(s)
  PROVE  /\ Overlay(h, l, s) \in [Block -> Data]
         /\ \A i \in 1..Len(s) : Overlay(h, l, s)[s[i]] = l[i]
         /\ \A b \in Block : (\A i \in 1..Len(s) : s[i] # b)
                               => Overlay(h, l, s)[b] = h[b]
<1> DEFINE Ix(b) == CHOOSE i \in 1..Len(s) : s[i] = b
<1>1. ASSUME NEW b \in Block, \E i \in 1..Len(s) : s[i] = b
      PROVE  Ix(b) \in 1..Len(s) /\ s[Ix(b)] = b
  BY <1>1
<1>2. \A i \in 1..Len(s) : s[i] \in Block
  OBVIOUS
<1>3. \A i \in 1..Len(s) : i \in Idx
  BY LogConstants DEF Idx
<1>4. ASSUME NEW i \in 1..Len(s) PROVE Ix(s[i]) = i
  <2>1. Ix(s[i]) \in 1..Len(s) /\ s[Ix(s[i])] = s[i]
    BY <1>1, <1>2
  <2> QED
    BY <2>1 DEF NoDup
<1>5. \A b \in Block : Overlay(h, l, s)[b] =
        IF \E i \in 1..Len(s) : s[i] = b THEN l[Ix(b)] ELSE h[b]
  BY DEF Overlay
<1>6. Overlay(h, l, s) \in [Block -> Data]
  <2>1. \A b \in Block : (IF \E i \in 1..Len(s) : s[i] = b THEN l[Ix(b)] ELSE h[b]) \in Data
    BY <1>1, <1>3
  <2> QED
    BY <2>1, Zenon DEF Overlay
<1> HIDE DEF Ix
<1> QED
  BY <1>2, <1>4, <1>5, <1>6

\* With an empty header the durable contents are the home blocks.
LEMMA OverlayEmpty ==
  ASSUME NEW h \in [Block -> Data], NEW l \in [Idx -> Data]
  PROVE  Overlay(h, l, << >>) = h
BY DEF Overlay

-----------------------------------------------------------------------------
\* The durable contents in the terms of the invariant.
LEMMA DurableFacts ==
  ASSUME IInv
  PROVE  /\ Durable \in [Block -> Data]
         /\ \A i \in 1..Len(head) : Durable[head[i]] = logd[i]
         /\ \A b \in Block : (\A i \in 1..Len(head) : head[i] # b)
                               => Durable[b] = home[b]
         /\ head = << >> => Durable = home
<1>1. /\ home \in [Block -> Data] /\ logd \in [Idx -> Data]
      /\ head \in Seq(Block) /\ Len(head) <= LOGSIZE /\ NoDup(head)
  BY DEF IInv, TypeOK, LogInv, HeaderInv
<1>2. head = << >> => Durable = home
  BY <1>1, OverlayEmpty DEF Durable
<1> QED
  BY <1>1, <1>2, OverlayFacts, Zenon DEF Durable

\* Entering and leaving a call changes the count of calls by one.
LEMMA OpsCount ==
  ASSUME TypeOK, NEW p \in Proc, outstanding = Cardinality(Ops)
  PROVE  /\ IsFiniteSet(Ops)
         /\ pc[p] # "op" => Cardinality(Ops \cup {p}) = outstanding + 1
         /\ pc[p] = "op" => Cardinality(Ops \ {p}) = outstanding - 1
         /\ pc[p] = "op" => outstanding >= 1
         /\ outstanding = 1 /\ pc[p] = "op" => Ops = {p}
<1>1. IsFiniteSet(Ops) /\ Cardinality(Ops) \in Nat
  BY FS_Subset, FS_CardinalityType, LogConstants DEF Ops
<1>2. pc[p] # "op" => Cardinality(Ops \cup {p}) = outstanding + 1
  BY <1>1, FS_AddElement, Zenon DEF Ops
<1>3. pc[p] = "op" => Cardinality(Ops \ {p}) = outstanding - 1
  BY <1>1, FS_RemoveElement DEF Ops
<1>4. IsFiniteSet(Ops \ {p}) /\ Cardinality(Ops \ {p}) \in Nat
  BY <1>1, FS_Subset, FS_CardinalityType
<1>5. pc[p] = "op" => outstanding >= 1
  BY <1>1, <1>3, <1>4
<1>6. ASSUME outstanding = 1, pc[p] = "op" PROVE Ops = {p}
  <2>1. Ops \ {p} = {}
    BY <1>3, <1>4, <1>6, FS_EmptySet
  <2> QED
    BY <2>1, <1>6 DEF Ops
<1> QED
  BY <1>1, <1>2, <1>3, <1>5, <1>6

-----------------------------------------------------------------------------
\* The initial states satisfy the invariant.
LEMMA InitIInv == Init => IInv
<1> SUFFICES ASSUME Init PROVE IInv
  OBVIOUS
<1>1. Ops = {} /\ Cardinality(Ops) = 0
  BY FS_EmptySet, Zenon DEF Init, Ops
<1>2. TypeOK
  <2>1. << >> \in Seq(Block) /\ Len(<< >>) <= LOGSIZE
    BY LogConstants
  <2>2. /\ calls \in [Proc -> 0..MAXOPBLOCKS] /\ tail \in 0..LOGSIZE /\ outstanding \in Nat
        /\ held \in [Proc -> Block \cup {NoBlock}]
    BY LogConstants DEF Init
  <2>3. cache \in [Block -> Data \cup {NoData}]
    BY DEF Init
  <2> QED
    BY <2>1, <2>2, <2>3, Zenon DEF Init, TypeOK, Stages
<1>3. HeaderInv /\ CopyInv /\ PinInv
  BY DEF Init, HeaderInv, CopyInv, PinInv, NoDup
<1>4. CleanInv /\ CallInv
  BY <1>1 DEF Init, CleanInv, CallInv
<1> QED
  BY <1>2, <1>3, <1>4 DEF IInv, LogInv

\* read_head keeps the invariant.
LEMMA ReadHeadInv ==
  ASSUME IInv, read_head PROVE IInv' /\ Durable' = Durable
<1> USE DEF IInv, LogInv, read_head, disk, buffers, procs
<1>1. Durable' = Durable /\ Ops' = Ops
  BY DEF Durable, Ops
<1>2. TypeOK'
  BY LogConstants DEF TypeOK, Stages
<1>3. HeaderInv' /\ CopyInv' /\ PinInv'
  <2>1. HeaderInv'
    BY DEF HeaderInv, NoDup, TypeOK
  <2>2. CopyInv'
    BY DEF CopyInv, TypeOK
  <2>3. PinInv'
    BY DEF PinInv, InLog, TypeOK
  <2> QED
    BY <2>1, <2>2, <2>3
<1>4. CleanInv' /\ CallInv'
  BY <1>1 DEF TypeOK, CleanInv, CallInv
<1> QED
  BY <1>1, <1>2, <1>3, <1>4

\* A block in no buffer can be read from home once recovery is over.
LEMMA UncachedIsHome ==
  ASSUME IInv, stage \notin {"boot", "recover"}, NEW x \in Block, cache[x] = NoData
  PROVE  home[x] = Durable[x]
<1>1. CASE \A i \in 1..Len(head) : head[i] # x
  BY <1>1, DurableFacts
<1>2. ASSUME NEW i \in 1..Len(head), head[i] = x
      PROVE  home[x] = Durable[x]
  <2>1. stage = "install" /\ lh = head
    BY <1>2 DEF IInv, LogInv, HeaderInv, TypeOK
  <2>2. i <= tail
    BY <1>2, <2>1 DEF IInv, LogInv, PinInv, TypeOK
  <2>3. home[x] = logd[i]
    BY <1>2, <2>1, <2>2 DEF IInv, LogInv, CopyInv
  <2> QED
    BY <1>2, <2>3, DurableFacts
<1> QED
  BY <1>1, <1>2

\* load keeps the invariant.
LEMMA LoadInv ==
  ASSUME IInv, NEW x \in Block, load(x) PROVE IInv' /\ Durable' = Durable
<1> USE DEF IInv, LogInv, load, disk, logvars, procs
<1>1. Durable' = Durable /\ Ops' = Ops
  BY DEF Durable, Ops
<1>2. home[x] = Durable[x]
  BY UncachedIsHome
<1>3. TypeOK'
  BY DEF TypeOK
<1>4. HeaderInv'
  BY DEF HeaderInv, NoDup
<1>5. CopyInv'
  <2>1. ASSUME stage = "install", NEW i \in 1..Len(lh), lh[i] = x PROVE home[x] = logd[i]
    BY <1>2, <2>1, DurableFacts DEF HeaderInv
  <2>2. stage = "write_log" => \A i \in 1..Len(lh) : lh[i] # x
    BY DEF PinInv
  <2> QED
    BY <2>1, <2>2 DEF CopyInv, TypeOK
<1>6. PinInv'
  BY LogConstants DEF PinInv, TypeOK, InLog
<1>7. CleanInv' /\ CallInv'
  BY <1>1, <1>2, LogConstants DEF TypeOK, CleanInv, CallInv
<1> QED
  BY <1>1, <1>3, <1>4, <1>5, <1>6, <1>7

\* recycle keeps the invariant.
LEMMA RecycleInv ==
  ASSUME IInv, NEW x \in Block, recycle(x) PROVE IInv' /\ Durable' = Durable
<1> USE DEF IInv, LogInv, recycle, disk, logvars, procs
<1>1. Durable' = Durable /\ Ops' = Ops
  BY DEF Durable, Ops
<1>2. TypeOK'
  BY DEF TypeOK
<1>3. HeaderInv'
  BY DEF HeaderInv, NoDup
<1>4. CopyInv'
  <2>1. stage = "write_log" => \A i \in 1..Len(lh) : lh[i] # x
    BY DEF PinInv
  <2> QED
    BY <2>1 DEF CopyInv, TypeOK
<1>5. PinInv'
  BY DEF PinInv, TypeOK, InLog
<1>6. CleanInv' /\ CallInv'
  BY <1>1, LogConstants DEF TypeOK, CleanInv, CallInv
<1> QED
  BY <1>1, <1>2, <1>3, <1>4, <1>5, <1>6

\* install keeps the invariant.
LEMMA InstallInv ==
  ASSUME IInv, install_trans
  PROVE  /\ IInv' /\ Durable' = Durable /\ lh[tail + 1] \in Block
         /\ logd[tail + 1] = Durable[lh[tail + 1]]
         /\ cache[lh[tail + 1]] # NoData => cache[lh[tail + 1]] = logd[tail + 1]
<1> USE DEF IInv, LogInv, install_trans, bunpin, logvars, procs
<1> DEFINE k == tail + 1
           x == lh[k]
<1>1. /\ k \in 1..Len(lh) /\ x \in Block /\ k \in Idx /\ logd[k] \in Data
      /\ lh = head /\ k \in 0..LOGSIZE
  BY LogConstants DEF TypeOK, HeaderInv, Idx
<1>2. /\ home' = [home EXCEPT ![x] = logd[k]]
      /\ cache' = [cache EXCEPT ![x] = logd[k]]
      /\ pin' = IF stage = "install" THEN pin \ {x} ELSE pin
      /\ tail' = k
  OBVIOUS
<1>3. TypeOK'
  BY <1>1, <1>2 DEF TypeOK
<1>4. HeaderInv'
  BY <1>1, <1>2 DEF TypeOK, HeaderInv, NoDup
<1>5. \A i \in 1..Len(lh) : lh[i] \in Block /\ (lh[i] = x <=> i = k)
  BY <1>1 DEF HeaderInv, NoDup, TypeOK
<1>6. logd[k] = Durable[x]
  BY <1>1, DurableFacts
<1>7. Ops' = Ops
  BY DEF Ops
<1>8. Durable' = Durable
  <2>1. head' = head /\ Len(head) <= LOGSIZE /\ head \in Seq(Block) /\ NoDup(head)
    BY DEF TypeOK, HeaderInv
  <2>2. \A b \in Block : Durable'[b] = Durable[b]
    <3> TAKE b \in Block
    <3>1. CASE \E i \in 1..Len(head) : head[i] = b
      BY <1>1, <3>1, <2>1 DEF Durable, Overlay
    <3>2. CASE \A i \in 1..Len(head) : head[i] # b
      <4>1. b # x
        BY <1>1, <3>2
      <4>2. home'[b] = home[b]
        BY <1>2, <4>1 DEF TypeOK
      <4> QED
        BY <4>2, <3>2, <2>1 DEF Durable, Overlay
    <3> QED
      BY <3>1, <3>2
  <2> QED
    BY <2>1, <2>2 DEF Durable, Overlay
<1>9. cache[x] # NoData => cache[x] = logd[k]
  <2>1. CASE stage = "install"
    BY <1>1, <2>1 DEF CopyInv
  <2>2. CASE stage = "recover"
    <3>1. x \notin pin /\ \A p \in Proc : held[p] # x
      BY <1>1, <2>2, LogConstants DEF PinInv, CallInv
    <3> QED
      BY <1>1, <1>6, <3>1 DEF CleanInv
  <2> QED
    BY <2>1, <2>2
<1> HIDE DEF k, x
<1>10. CopyInv'
  BY <1>1, <1>2, <1>5 DEF CopyInv, TypeOK
<1>11. PinInv'
  BY <1>1, <1>2, <1>5, LogConstants DEF PinInv, TypeOK, InLog
<1>12. CleanInv'
  BY <1>1, <1>2, <1>6, <1>8 DEF CleanInv, TypeOK
<1>13. CallInv'
  BY <1>1, <1>2, <1>7, LogConstants DEF CallInv, TypeOK
<1> QED
  BY <1>1, <1>3, <1>4, <1>6, <1>8, <1>9, <1>10, <1>11, <1>12, <1>13 DEF k, x

\* clear_head keeps the invariant.
LEMMA ClearHeadInv ==
  ASSUME IInv, clear_head PROVE IInv' /\ Durable' = Durable
<1> USE DEF IInv, LogInv, clear_head, buffers, procs
<1>1. Ops' = Ops
  BY DEF Ops
<1>2. lh = head /\ \A i \in 1..Len(lh) : home[lh[i]] = logd[i]
  BY DEF HeaderInv, CopyInv, TypeOK
<1>3. Durable' = home
  BY OverlayEmpty, Zenon DEF Durable, TypeOK
<1>4. Durable = home
  <2>1. \A b \in Block : Durable[b] = home[b]
    BY <1>2, DurableFacts
  <2> QED
    BY <2>1, DurableFacts DEF TypeOK
<1>5. TypeOK'
  <2>1. << >> \in Seq(Block) /\ Len(<< >>) <= LOGSIZE
    BY LogConstants
  <2> QED
    BY <2>1, LogConstants DEF TypeOK, Stages
<1>6. HeaderInv' /\ CopyInv'
  BY DEF TypeOK, HeaderInv, CopyInv, NoDup
<1>7. pin = {}
  <2>1. PinInv /\ tail = Len(lh) /\ stage \in {"recover", "install"}
    OBVIOUS
  <2>2. CASE stage = "recover"
    BY <2>1, <2>2 DEF PinInv
  <2>3. CASE stage = "install"
    <3>1. \A i \in 1..Len(lh) : lh[i] \in pin <=> i > tail
      BY <2>1, <2>3 DEF PinInv
    <3>2. Len(lh) \in Nat
      BY DEF TypeOK
    <3>3. \A i \in 1..Len(lh) : lh[i] \notin pin
      BY <2>1, <3>1, <3>2
    <3> HIDE DEF IInv, LogInv, clear_head
    <3>4. \A b \in pin : \E i \in 1..Len(lh) : lh[i] = b
      BY <2>1 DEF PinInv, InLog
    <3> QED
      BY <3>3, <3>4
  <2> QED
    BY <2>1, <2>2, <2>3
<1>8. PinInv'
  BY <1>7 DEF PinInv
<1>9. CleanInv' /\ CallInv'
  BY <1>1, <1>3, <1>4 DEF TypeOK, CleanInv, CallInv
<1> QED
  BY <1>3, <1>4, <1>5, <1>6, <1>8, <1>9

\* begin_op keeps the invariant.
LEMMA BeginOpInv ==
  ASSUME IInv, NEW p \in Proc, begin_op(p)
  PROVE  IInv' /\ Durable' = Durable /\ p \notin Ops /\ (Ops' = Ops \/ Ops' = Ops \cup {p})
<1> USE DEF IInv, LogInv, begin_op, disk, buffers
<1>1. Durable' = Durable
  BY DEF Durable
<1>2. TypeOK'
  <2>1. pc' \in [Proc -> {"idle", "woken", "asleep", "op", "commit"}] /\ outstanding' \in Nat
    <3>1. CASE MustWait
      BY <3>1, Zenon DEF TypeOK
    <3>2. CASE ~MustWait
      <4>1. pc' = [pc EXCEPT ![p] = "op"] /\ outstanding' = outstanding + 1
        BY <3>2
      <4>2. outstanding \in Nat
        BY DEF TypeOK
      <4> QED
        BY <4>1, <4>2 DEF TypeOK
    <3> QED
      BY <3>1, <3>2
  <2> QED
    BY <2>1 DEF TypeOK
<1>3. HeaderInv' /\ CopyInv' /\ PinInv'
  <2>1. HeaderInv'
    BY DEF HeaderInv, NoDup, TypeOK
  <2>2. CopyInv'
    BY DEF CopyInv, TypeOK
  <2>3. PinInv'
    BY DEF PinInv, InLog, TypeOK
  <2> QED
    BY <2>1, <2>2, <2>3
<1>4. CleanInv'
  BY <1>1 DEF TypeOK, CleanInv
<1>5. CASE MustWait
  <2>1. Ops' = Ops
    BY <1>5 DEF Ops, TypeOK
  <2> QED
    BY <1>1, <1>2, <1>3, <1>4, <1>5, <2>1 DEF CallInv, Ops
<1>6. CASE ~MustWait
  <2>1. Ops' = Ops \cup {p} /\ p \notin Ops
    BY <1>6 DEF Ops, TypeOK
  <2>2. stage \in {"run", "panic"}
    BY <1>6 DEF MustWait, CallInv, TypeOK, Stages
  <2>3. outstanding' = Cardinality(Ops')
    BY <1>6, <2>1, OpsCount DEF CallInv, Ops
  <2> QED
    BY <1>1, <1>2, <1>3, <1>4, <1>6, <2>1, <2>2, <2>3 DEF CallInv
<1> QED
  BY <1>5, <1>6

\* modify keeps the invariant.
LEMMA ModifyInv ==
  ASSUME IInv, NEW p \in Proc, NEW x \in Block, NEW v \in Data, modify(p, x, v)
  PROVE  IInv' /\ Durable' = Durable /\ Ops' = Ops /\ p \in Ops
<1> USE DEF IInv, LogInv, modify, HasRoom, disk, logvars
<1>1. Durable' = Durable /\ Ops' = Ops /\ p \in Ops
  BY DEF Durable, Ops
<1>2. stage \in {"run", "panic"}
  BY <1>1 DEF CallInv
<1>3. TypeOK'
  BY DEF TypeOK
<1>4. HeaderInv' /\ CopyInv'
  <2>1. UNCHANGED <<lh, head, stage, tail>> /\ HeaderInv
    OBVIOUS
  <2> HIDE DEF IInv, LogInv, modify
  <2>2. HeaderInv'
    BY <2>1 DEF HeaderInv, NoDup
  <2>3. CopyInv'
    BY <1>2, <2>1 DEF CopyInv
  <2> QED
    BY <2>2, <2>3
<1>5. PinInv'
  BY <1>2, LogConstants DEF TypeOK, PinInv, InLog
<1>6. CleanInv'
  <2> SUFFICES ASSUME NEW b \in Block, cache'[b] # NoData, b \notin pin,
                      \A q \in Proc : held'[q] # b
               PROVE  cache'[b] = Durable[b]
    BY <1>1, <1>2 DEF CleanInv
  <2>1. b # x
    BY DEF TypeOK
  <2>2. \A q \in Proc : held[q] # b
    BY LogConstants DEF TypeOK
  <2> QED
    BY <2>1, <2>2 DEF TypeOK, CleanInv
<1>7. CallInv'
  BY <1>1, <1>2, LogConstants DEF TypeOK, CallInv
<1> QED
  BY <1>1, <1>3, <1>4, <1>5, <1>6, <1>7

\* log_write keeps the invariant.
LEMMA LogWriteInv ==
  ASSUME IInv, NEW p \in Proc, log_write(p)
  PROVE  IInv' /\ Durable' = Durable /\ Ops' = Ops
<1> USE DEF IInv, LogInv, log_write, bpin, disk
<1>1. Durable' = Durable /\ Ops' = Ops /\ p \in Ops
  BY DEF Durable, Ops
<1>2. stage \in {"run", "panic"}
  BY <1>1 DEF CallInv
<1>3. CASE Len(lh) >= LOGSIZE \/ Len(lh) >= NLOG - 1 \/ outstanding < 1
  <2>1. TypeOK'
    BY <1>3 DEF TypeOK, Stages
  <2>2. HeaderInv' /\ CopyInv' /\ PinInv'
    <3>1. HeaderInv'
      BY <1>2, <1>3 DEF HeaderInv, NoDup
    <3>2. CopyInv'
      BY <1>2, <1>3 DEF CopyInv
    <3>3. PinInv'
      <4>1. stage' = "panic" /\ lh' = lh /\ pin' = pin /\ cache' = cache
        BY <1>3
      <4>2. PinInv
        OBVIOUS
      <4> HIDE DEF IInv, LogInv, log_write
      <4> QED
        BY <1>2, <4>1, <4>2 DEF PinInv, InLog
    <3> QED
      BY <3>1, <3>2, <3>3
  <2>3. CleanInv' /\ CallInv'
    BY <1>1, <1>2, <1>3 DEF CleanInv, CallInv
  <2> QED
    BY <1>1, <2>1, <2>2, <2>3
<1>4. CASE ~(Len(lh) >= LOGSIZE \/ Len(lh) >= NLOG - 1 \/ outstanding < 1)
  <2> DEFINE x == held[p]
  <2>1. /\ x \in Block /\ cache[x] # NoData /\ calls[p] < MAXOPBLOCKS
        /\ stage' = stage /\ cache' = cache
        /\ pin' = pin \cup {x}
        /\ lh' = IF InLog(x) THEN lh ELSE Append(lh, x)
        /\ held' = [held EXCEPT ![p] = NoBlock]
        /\ calls' = [calls EXCEPT ![p] = @ + 1]
    BY <1>4 DEF TypeOK, CallInv
  <2> HIDE DEF x
  <2>2. /\ lh' \in Seq(Block) /\ Len(lh') <= LOGSIZE /\ NoDup(lh')
        /\ \E i \in 1..Len(lh') : lh'[i] = x
        /\ \A i \in 1..Len(lh') : lh'[i] = x \/ \E j \in 1..Len(lh) : lh'[i] = lh[j]
        /\ \A b \in Block : InLog(b) => \E i \in 1..Len(lh') : lh'[i] = b
    <3>1. CASE InLog(x)
      BY <2>1, <3>1 DEF TypeOK, HeaderInv, InLog
    <3>2. CASE ~InLog(x)
      <4>1. lh' = Append(lh, x) /\ Len(lh') = Len(lh) + 1 /\ lh' \in Seq(Block)
        BY <2>1, <3>2 DEF TypeOK
      <4>2. /\ \A i \in 1..Len(lh) : lh'[i] = lh[i]
            /\ lh'[Len(lh) + 1] = x
        BY <4>1 DEF TypeOK
      <4>3. Len(lh') <= LOGSIZE
        BY <1>4, <4>1, LogConstants DEF TypeOK
      <4>4. /\ Len(lh) \in Nat /\ NoDup(lh)
            /\ \A i \in 1..Len(lh) : lh[i] # x
        BY <3>2 DEF TypeOK, HeaderInv, InLog
      <4> HIDE DEF IInv, LogInv, log_write
      <4>5. NoDup(lh')
        <5>1. SUFFICES ASSUME NEW i \in 1..(Len(lh) + 1), NEW j \in 1..(Len(lh) + 1),
                              lh'[i] = lh'[j]
                       PROVE  i = j
          BY <4>1, Zenon DEF NoDup
        <5> QED
          BY <4>2, <4>4, <5>1 DEF NoDup
      <4>6. \A i \in 1..Len(lh') : lh'[i] = x \/ \E j \in 1..Len(lh) : lh'[i] = lh[j]
        BY <4>1, <4>2, <4>4
      <4>7. \A b \in Block : InLog(b) => \E i \in 1..Len(lh') : lh'[i] = b
        BY <4>1, <4>2, <4>4 DEF InLog
      <4>8. \E i \in 1..Len(lh') : lh'[i] = x
        BY <4>1, <4>2, <4>4
      <4> QED
        BY <4>1, <4>3, <4>5, <4>6, <4>7, <4>8
    <3> QED
      BY <3>1, <3>2
  <2>3. TypeOK'
    <3>1. calls' \in [Proc -> 0..MAXOPBLOCKS] /\ held' \in [Proc -> Block \cup {NoBlock}]
      <4>1. /\ calls \in [Proc -> 0..MAXOPBLOCKS] /\ held \in [Proc -> Block \cup {NoBlock}]
            /\ MAXOPBLOCKS \in Nat
        BY LogConstants DEF TypeOK
      <4> HIDE DEF IInv, LogInv, log_write
      <4>2. calls[p] + 1 \in 0..MAXOPBLOCKS
        BY <2>1, <4>1
      <4> QED
        BY <2>1, <4>1, <4>2
    <3> QED
      BY <2>1, <2>2, <3>1 DEF TypeOK
  <2>4. HeaderInv' /\ CopyInv'
    BY <1>2, <2>1, <2>2 DEF HeaderInv, CopyInv
  <2>5. PinInv'
    <3>1. \A i \in 1..Len(lh') : lh'[i] \in pin'
      <4>1. \A i \in 1..Len(lh) : lh[i] \in pin
        BY <1>2 DEF PinInv
      <4> HIDE DEF IInv, LogInv, log_write
      <4> QED
        BY <2>1, <2>2, <4>1
    <3>2. \A b \in pin' : cache'[b] # NoData /\ \E i \in 1..Len(lh') : lh'[i] = b
      BY <2>1, <2>2 DEF PinInv, TypeOK
    <3> QED
      BY <1>2, <2>1, <3>1, <3>2 DEF PinInv, InLog
  <2>6. CleanInv'
    BY <1>1, <1>2, <2>1 DEF CleanInv, TypeOK, x
  <2>7. CallInv'
    BY <1>1, <1>2, <2>1, LogConstants DEF CallInv, TypeOK
  <2> QED
    BY <1>1, <2>3, <2>4, <2>5, <2>6, <2>7
<1> QED
  BY <1>3, <1>4

\* Waking sleepers neither starts nor ends a call.
LEMMA WakeupFacts ==
  ASSUME TypeOK, NEW p \in Proc, pc[p] \in {"op", "commit"},
         pc' = wakeup([pc EXCEPT ![p] = "idle"])
  PROVE  /\ pc' \in [Proc -> {"idle", "woken", "asleep", "op", "commit"}]
         /\ Ops' = Ops \ {p}
<1>1. \A q \in Proc : pc'[q] = IF q = p THEN "idle"
                                ELSE IF pc[q] = "asleep" THEN "woken" ELSE pc[q]
  BY DEF TypeOK, wakeup
<1>2. pc' \in [Proc -> {"idle", "woken", "asleep", "op", "commit"}]
  BY <1>1 DEF TypeOK, wakeup
<1> QED
  BY <1>1, <1>2, Zenon DEF Ops, TypeOK

\* end_op keeps the invariant.
LEMMA EndOpInv ==
  ASSUME IInv, NEW p \in Proc, end_op(p)
  PROVE  IInv' /\ Durable' = Durable /\ p \in Ops /\ Ops' = Ops \ {p}
<1> USE DEF IInv, LogInv, end_op, disk, buffers
<1>1. Durable' = Durable /\ p \in Ops
  BY DEF Durable, Ops
<1>2. stage \in {"run", "panic"} /\ committing = FALSE
  BY <1>1 DEF CallInv, TypeOK
<1>3. /\ outstanding >= 1 /\ outstanding - 1 = Cardinality(Ops \ {p})
      /\ outstanding = 1 => Ops = {p}
  BY OpsCount, Zenon DEF CallInv
<1>4. calls' \in [Proc -> 0..MAXOPBLOCKS] /\ tail' \in 0..LOGSIZE /\ outstanding' \in Nat
  <2>1. calls \in [Proc -> 0..MAXOPBLOCKS] /\ 0 \in 0..MAXOPBLOCKS /\ 0 \in 0..LOGSIZE
    BY LogConstants DEF TypeOK
  <2>2. outstanding \in Nat
    BY DEF TypeOK
  <2>3. calls' = [calls EXCEPT ![p] = 0] /\ tail' = 0 /\ outstanding' = outstanding - 1
    OBVIOUS
  <2> HIDE DEF IInv, LogInv, end_op
  <2>4. outstanding' \in Nat
    BY <1>3, <2>2, <2>3
  <2> QED
    BY <2>1, <2>3, <2>4
<1>5. \A q \in Proc : held[q] # NoBlock => q # p
  OBVIOUS
<1>6. CASE outstanding' = 0
  <2>1. /\ pc' = [pc EXCEPT ![p] = "commit"] /\ committing' = TRUE
        /\ stage' = IF lh # << >> THEN "write_log" ELSE "done"
    BY <1>2, <1>6, Zenon
  <2>2. Ops' = Ops \ {p} /\ Ops' = {}
    <3>1. outstanding = 1
      BY <1>3, <1>6 DEF TypeOK
    <3>2. pc \in [Proc -> {"idle", "woken", "asleep", "op", "commit"}]
      BY DEF TypeOK
    <3> HIDE DEF IInv, LogInv, end_op
    <3>3. Ops' = Ops \ {p}
      BY <2>1, <3>2 DEF Ops
    <3> QED
      BY <1>3, <3>1, <3>3
  <2>3. TypeOK'
    BY <1>4, <2>1 DEF TypeOK, Stages
  <2>4. head = << >>
    BY <1>2 DEF HeaderInv
  <2>5. HeaderInv' /\ CopyInv'
    <3>1. lh' = lh /\ head' = head /\ tail' = 0 /\ Len(lh) \in Nat /\ NoDup(lh)
      BY DEF HeaderInv, TypeOK
    <3> HIDE DEF IInv, LogInv, end_op
    <3>2. stage' \in {"write_log", "done"} /\ (stage' = "done" => lh = << >>)
      BY <2>1
    <3>3. NoDup(lh') /\ NoDup(head')
      BY <2>4, <3>1 DEF NoDup
    <3>4. HeaderInv'
      BY <2>4, <3>1, <3>2, <3>3 DEF HeaderInv
    <3>5. CopyInv'
      <4>1. \A i \in 1..Len(lh) : ~(i <= 0)
        BY <3>1
      <4> QED
        BY <3>1, <3>2, <4>1 DEF CopyInv
    <3> QED
      BY <3>4, <3>5
  <2>6. PinInv'
    <3>1. /\ lh' = lh /\ pin' = pin /\ cache' = cache
          /\ PinInv /\ lh \in Seq(Block)
      BY DEF TypeOK
    <3> HIDE DEF IInv, LogInv, end_op
    <3>2. /\ \A i \in 1..Len(lh) : lh[i] \in pin
          /\ \A b \in pin : cache[b] # NoData /\ \E i \in 1..Len(lh) : lh[i] = b
      BY <1>2, <3>1 DEF PinInv, InLog
    <3>3. CASE lh # << >>
      BY <2>1, <3>1, <3>2, <3>3 DEF PinInv, InLog
    <3>4. CASE lh = << >>
      <4>1. pin = {}
        BY <3>2, <3>4
      <4> QED
        BY <2>1, <3>1, <3>4, <4>1 DEF PinInv
    <3> QED
      BY <3>3, <3>4
  <2>7. CleanInv' /\ CallInv'
    <3>1. \A q \in Proc : held[q] = NoBlock
      <4>1. CallInv /\ held[p] = NoBlock /\ outstanding' = outstanding - 1 /\ outstanding \in Nat
        BY DEF TypeOK
      <4> HIDE DEF IInv, LogInv, end_op
      <4>2. Ops = {p}
        BY <1>3, <1>6, <4>1
      <4> QED
        BY <4>1, <4>2 DEF CallInv
    <3>2. CleanInv /\ UNCHANGED <<cache, pin, held>> /\ outstanding' = outstanding - 1
      OBVIOUS
    <3> HIDE DEF IInv, LogInv, end_op
    <3>3. CleanInv'
      BY <1>1, <2>1, <3>1, <3>2 DEF CleanInv
    <3>4. CallInv'
      BY <1>3, <2>1, <2>2, <3>1, <3>2 DEF CallInv
    <3> QED
      BY <3>3, <3>4
  <2> QED
    BY <1>1, <2>2, <2>3, <2>5, <2>6, <2>7
<1>7. CASE outstanding' # 0
  <2>1. pc' = wakeup([pc EXCEPT ![p] = "idle"]) /\ UNCHANGED <<committing, stage>>
    BY <1>2, <1>7
  <2>2. Ops' = Ops \ {p} /\ pc' \in [Proc -> {"idle", "woken", "asleep", "op", "commit"}]
    BY <2>1, WakeupFacts, Zenon
  <2>3. TypeOK'
    BY <1>4, <2>1, <2>2, Zenon DEF TypeOK
  <2>4. HeaderInv' /\ CopyInv' /\ PinInv'
    <3>1. HeaderInv'
      BY <1>2, <2>1 DEF HeaderInv, NoDup
    <3>2. CopyInv'
      BY <1>2, <2>1 DEF CopyInv
    <3>3. PinInv'
      BY <1>2, <2>1 DEF PinInv, InLog
    <3> QED
      BY <3>1, <3>2, <3>3
  <2>5. CleanInv' /\ CallInv'
    <3>1. /\ CleanInv /\ CallInv /\ UNCHANGED <<cache, pin, held>>
          /\ outstanding' = outstanding - 1
          /\ \A q \in Proc \ {p} : calls'[q] = calls[q]
      BY DEF TypeOK
    <3> HIDE DEF IInv, LogInv, end_op
    <3>2. CleanInv'
      BY <1>1, <2>1, <3>1 DEF CleanInv
    <3>3. CallInv'
      BY <1>2, <1>3, <1>5, <2>1, <2>2, <3>1 DEF CallInv
    <3> QED
      BY <3>2, <3>3
  <2> QED
    BY <1>1, <2>2, <2>3, <2>4, <2>5
<1> QED
  BY <1>6, <1>7

\* write_log keeps the invariant.
LEMMA WriteLogInv ==
  ASSUME IInv, write_log
  PROVE  IInv' /\ Durable' = Durable /\ cache' = cache
<1> USE DEF IInv, LogInv, write_log, logvars, procs
<1> DEFINE k == tail + 1
           x == lh[k]
<1>1. /\ k \in 1..Len(lh) /\ x \in Block /\ k \in Idx /\ k \in 0..LOGSIZE
      /\ head = << >> /\ x \in pin /\ cache[x] # NoData /\ cache[x] \in Data
  <2>1. /\ lh \in Seq(Block) /\ Len(lh) <= LOGSIZE /\ tail \in 0..LOGSIZE
        /\ cache \in [Block -> Data \cup {NoData}] /\ tail < Len(lh) /\ stage = "write_log"
        /\ head = << >> /\ PinInv
    BY DEF TypeOK, HeaderInv
  <2> HIDE DEF IInv, LogInv, write_log
  <2>2. k \in 1..Len(lh) /\ k \in Idx /\ k \in 0..LOGSIZE
    BY <2>1, LogConstants DEF Idx
  <2>3. x \in Block
    BY <2>1, <2>2
  <2>4. x \in pin /\ cache[x] # NoData
    BY <2>1, <2>2 DEF PinInv
  <2> QED
    BY <2>1, <2>2, <2>3, <2>4
<1>2. /\ logd' = [logd EXCEPT ![k] = cache[x]]
      /\ cache' = cache /\ tail' = k
  BY <1>1 DEF bread, TypeOK
<1>3. Durable' = Durable /\ Ops' = Ops
  <2>1. /\ logd \in [Idx -> Data] /\ logd' \in [Idx -> Data] /\ home \in [Block -> Data]
        /\ home' = home /\ head' = head /\ pc' = pc
    BY <1>1, <1>2 DEF TypeOK
  <2> HIDE DEF IInv, LogInv, write_log
  <2>2. Durable = home /\ Durable' = home
    BY <1>1, <2>1, OverlayEmpty DEF Durable
  <2> QED
    BY <2>1, <2>2 DEF Ops
<1> HIDE DEF k, x
<1>4. TypeOK'
  BY <1>1, <1>2 DEF TypeOK
<1>5. HeaderInv' /\ PinInv'
  <2>1. /\ UNCHANGED <<lh, head, pin, stage>> /\ stage = "write_log"
        /\ HeaderInv /\ PinInv /\ Len(lh) \in Nat
    BY DEF TypeOK
  <2> HIDE DEF IInv, LogInv, write_log
  <2>2. NoDup(lh') /\ NoDup(head')
    BY <2>1 DEF HeaderInv, NoDup
  <2>3. HeaderInv'
    BY <1>1, <1>2, <2>1, <2>2 DEF HeaderInv
  <2>4. PinInv'
    BY <1>2, <2>1 DEF PinInv, InLog
  <2> QED
    BY <2>3, <2>4
<1>6. CopyInv'
  <2>1. ASSUME NEW i \in 1..Len(lh), i <= tail' PROVE cache'[lh[i]] = logd'[i]
    <3>1. i \in Idx
      <4>1. lh \in Seq(Block) /\ Len(lh) <= LOGSIZE
        BY DEF TypeOK
      <4> HIDE DEF IInv, LogInv, write_log
      <4>2. Len(lh) \in Nat
        BY <4>1
      <4> QED
        BY <4>1, <4>2, LogConstants DEF Idx
    <3>2. CASE i = k
      BY <1>1, <1>2, <3>1, <3>2 DEF TypeOK, x
    <3>3. CASE i # k
      <4>1. i <= tail
        <5>1. tail \in Nat /\ i \in Int /\ i <= tail + 1 /\ i # tail + 1
          BY <1>2, <2>1, <3>3, LogConstants DEF TypeOK, k
        <5> HIDE DEF IInv, LogInv, write_log
        <5> QED
          BY <5>1
      <4> QED
        BY <1>2, <3>1, <3>3, <4>1 DEF TypeOK, CopyInv
    <3> QED
      BY <3>2, <3>3
  <2> QED
    BY <2>1 DEF CopyInv
<1>7. CleanInv' /\ CallInv'
  BY <1>1, <1>2, <1>3 DEF CleanInv, CallInv
<1> QED
  BY <1>2, <1>3, <1>4, <1>5, <1>6, <1>7

\* What becomes durable when the header in memory reaches the disk.
LEMMA CommitFacts ==
  ASSUME IInv
  PROVE  /\ Overlay(home, logd, lh) \in [Block -> Data]
         /\ \A i \in 1..Len(lh) : Overlay(home, logd, lh)[lh[i]] = logd[i]
         /\ \A b \in Block : (\A i \in 1..Len(lh) : lh[i] # b)
                               => Overlay(home, logd, lh)[b] = home[b]
<1>1. /\ home \in [Block -> Data] /\ logd \in [Idx -> Data]
      /\ lh \in Seq(Block) /\ Len(lh) <= LOGSIZE /\ NoDup(lh)
  BY DEF IInv, TypeOK, LogInv, HeaderInv
<1> QED
  BY <1>1, OverlayFacts, Zenon

\* write_head keeps the invariant.
LEMMA WriteHeadInv ==
  ASSUME IInv, write_head PROVE IInv' /\ Durable' = Mem /\ Mem' = Mem
<1> USE DEF IInv, LogInv, write_head, LogWritten, buffers, logvars, procs
<1>1. head = << >> /\ Durable = home /\ Ops' = Ops /\ Ops = {}
  BY DurableFacts DEF HeaderInv, CallInv, Ops
<1>2. \A q \in Proc : held[q] = NoBlock
  BY <1>1 DEF CallInv
<1>3. /\ Durable' \in [Block -> Data]
      /\ \A i \in 1..Len(lh) : Durable'[lh[i]] = logd[i]
      /\ \A b \in Block : (\A i \in 1..Len(lh) : lh[i] # b) => Durable'[b] = home[b]
  <2>1. Durable' = Overlay(home, logd, lh)
    BY DEF Durable
  <2> QED
    BY <2>1, CommitFacts
<1>4. \A i \in 1..Len(lh) : /\ lh[i] \in pin /\ lh[i] \in Block
                             /\ cache[lh[i]] = logd[i] /\ cache[lh[i]] # NoData
  <2>1. /\ lh \in Seq(Block) /\ stage = "write_log" /\ tail = Len(lh)
        /\ CopyInv /\ PinInv
    BY DEF TypeOK
  <2> HIDE DEF IInv, LogInv, write_head
  <2>2. \A i \in 1..Len(lh) : lh[i] \in pin /\ lh[i] \in Block
    BY <2>1 DEF PinInv
  <2>3. \A i \in 1..Len(lh) : i <= tail
    BY <2>1
  <2>4. \A i \in 1..Len(lh) : cache[lh[i]] = logd[i]
    BY <2>1, <2>3 DEF CopyInv
  <2>5. \A b \in pin : cache[b] # NoData
    BY <2>1 DEF PinInv
  <2> QED
    BY <2>2, <2>4, <2>5
<1>5. \A b \in Block : (\A i \in 1..Len(lh) : lh[i] # b) =>
        b \notin pin /\ (cache[b] # NoData => cache[b] = home[b])
  BY <1>1, <1>2, LogConstants DEF PinInv, InLog, CleanInv
<1>6. \A b \in Block : Durable'[b] = IF cache[b] # NoData THEN cache[b] ELSE Durable[b]
  <2> HIDE DEF IInv, LogInv, write_head
  <2>1. SUFFICES ASSUME NEW b \in Block
                 PROVE  Durable'[b] = IF cache[b] # NoData THEN cache[b] ELSE Durable[b]
    OBVIOUS
  <2>2. CASE \A i \in 1..Len(lh) : lh[i] # b
    BY <1>1, <1>3, <1>5, <2>2
  <2>3. CASE \E i \in 1..Len(lh) : lh[i] = b
    BY <1>3, <1>4, <2>3
  <2> QED
    BY <2>2, <2>3
<1>7. Durable' = Mem /\ Mem' = Mem
  BY <1>3, <1>6 DEF Mem
<1>8. TypeOK'
  BY LogConstants DEF TypeOK, Stages
<1>9. HeaderInv' /\ CopyInv' /\ PinInv'
  <2>1. HeaderInv'
    <3>1. NoDup(lh) /\ lh' = lh /\ head' = lh /\ stage' = "install" /\ tail' = 0
      BY DEF HeaderInv
    <3>2. Len(lh) \in Nat
      BY DEF TypeOK
    <3> HIDE DEF IInv, LogInv, write_head
    <3>3. NoDup(lh') /\ NoDup(head')
      BY <3>1 DEF NoDup
    <3> QED
      BY <3>1, <3>2, <3>3 DEF HeaderInv
  <2>2. CopyInv'
    <3>1. UNCHANGED <<lh, cache, logd>> /\ stage' = "install" /\ tail' = 0
      OBVIOUS
    <3> HIDE DEF IInv, LogInv, write_head
    <3> QED
      BY <1>4, <3>1 DEF CopyInv
  <2>3. PinInv'
    <3>1. /\ UNCHANGED <<lh, cache, pin>> /\ stage' = "install" /\ tail' = 0
          /\ PinInv /\ Len(lh) \in Nat
      BY DEF TypeOK
    <3> HIDE DEF IInv, LogInv, write_head
    <3>2. \A i \in 1..Len(lh) : i > 0
      BY <3>1
    <3> QED
      BY <1>4, <3>1, <3>2 DEF PinInv, InLog
  <2> QED
    BY <2>1, <2>2, <2>3
<1>10. CleanInv' /\ CallInv'
  BY <1>1, <1>6 DEF CleanInv, CallInv
<1> QED
  BY <1>7, <1>8, <1>9, <1>10

\* end_commit keeps the invariant.
LEMMA EndCommitInv ==
  ASSUME IInv, NEW p \in Proc, end_commit(p)
  PROVE  IInv' /\ Durable' = Durable /\ Ops' = Ops
<1> USE DEF IInv, LogInv, end_commit, disk, buffers
<1>1. /\ Ops' = Ops /\ pc' \in [Proc -> {"idle", "woken", "asleep", "op", "commit"}]
      /\ Durable' = Durable
  BY WakeupFacts, Zenon DEF Durable, Ops
<1>2. TypeOK'
  BY <1>1, Zenon DEF TypeOK, Stages
<1>3. HeaderInv' /\ CopyInv' /\ PinInv'
  <2>1. HeaderInv'
    BY DEF HeaderInv, NoDup
  <2>2. CopyInv'
    BY DEF CopyInv
  <2>3. PinInv'
    <3>1. lh' = << >> /\ pin' = {} /\ stage' = "run"
      BY DEF HeaderInv, PinInv
    <3> QED
      BY <3>1 DEF PinInv
  <2> QED
    BY <2>1, <2>2, <2>3
<1>4. CleanInv' /\ CallInv'
  BY <1>1 DEF CleanInv, CallInv
<1> QED
  BY <1>1, <1>2, <1>3, <1>4

\* crash keeps the invariant.
LEMMA CrashInv ==
  ASSUME IInv, crash
  PROVE  IInv' /\ Durable' = Durable /\ Ops' = {} /\ Mem' = Durable
<1> USE DEF IInv, LogInv, crash, disk
<1>1. Ops' = {} /\ Cardinality(Ops') = 0 /\ Durable' = Durable
  BY FS_EmptySet, Zenon DEF Ops, Durable
<1>2. TypeOK'
  <2>1. << >> \in Seq(Block) /\ Len(<< >>) <= LOGSIZE
    BY LogConstants
  <2>2. /\ calls' \in [Proc -> 0..MAXOPBLOCKS] /\ tail' \in 0..LOGSIZE /\ outstanding' \in Nat
        /\ held' \in [Proc -> Block \cup {NoBlock}]
    BY LogConstants
  <2>3. cache' \in [Block -> Data \cup {NoData}]
    OBVIOUS
  <2> QED
    BY <2>1, <2>2, <2>3, Zenon DEF TypeOK, Stages
<1>3. HeaderInv' /\ CopyInv' /\ PinInv'
  <2>1. HeaderInv'
    BY DEF HeaderInv, NoDup
  <2>2. CopyInv'
    BY DEF CopyInv
  <2>3. PinInv'
    BY DEF PinInv, InLog
  <2> QED
    BY <2>1, <2>2, <2>3
<1>4. CleanInv' /\ CallInv'
  BY <1>1 DEF CleanInv, CallInv
<1>5. Mem' = Durable
  BY <1>1, DurableFacts DEF Mem
<1> QED
  BY <1>1, <1>2, <1>3, <1>4, <1>5

\* quiesce and stuttering change nothing the invariant speaks of.
LEMMA QuietInv ==
  ASSUME IInv, quiesce \/ UNCHANGED vars
  PROVE  IInv' /\ Durable' = Durable /\ Ops' = Ops /\ Mem' = Mem
<1>1. /\ UNCHANGED <<home, logd, head, cache, pin, lh, outstanding, committing>>
      /\ UNCHANGED <<pc, held, calls, stage, tail>> /\ env' \in {env, "quiet"}
  BY DEF quiesce, vars, disk, buffers, logvars, procs
<1>2. Ops' = Ops /\ Durable' = Durable
  BY <1>1 DEF Ops, Durable
<1>3. Mem' = Mem
  BY <1>1, <1>2 DEF Mem
<1>4. TypeOK'
  BY <1>1 DEF IInv, TypeOK
<1>5. HeaderInv' /\ CopyInv'
  <2>1. HeaderInv'
    <3>1. lh' = lh /\ head' = head /\ stage' = stage /\ tail' = tail
      BY <1>1
    <3>2. HeaderInv
      BY DEF IInv, LogInv
    <3>3. NoDup(lh) /\ NoDup(head)
      BY <3>2 DEF HeaderInv
    <3>4. NoDup(lh)' /\ NoDup(head)'
      BY <3>1, <3>3 DEF NoDup
    <3> QED
      BY <3>1, <3>2, <3>4 DEF HeaderInv
  <2>2. CopyInv'
    BY <1>1 DEF IInv, LogInv, CopyInv
  <2> QED
    BY <2>1, <2>2
<1>6. PinInv'
  BY <1>1 DEF IInv, LogInv, PinInv, InLog
<1>7. CleanInv'
  BY <1>1, <1>2 DEF IInv, LogInv, CleanInv
<1>8. CallInv'
  BY <1>1, <1>2 DEF IInv, LogInv, CallInv
<1> QED
  BY <1>2, <1>3, <1>4, <1>5, <1>6, <1>7, <1>8 DEF IInv, LogInv

-----------------------------------------------------------------------------
\* Only a call that modifies a buffer, or a crash, changes what readers see.
MemStep ==
  \/ Mem' = Mem
  \/ crash
  \/ \E p \in Proc, x \in Block, v \in Data : modify(p, x, v)

\* Every step of the log keeps the invariant and is a step, or a stutter, of
\* the transactional disk.
LEMMA StepRefines ==
  ASSUME IInv, [Next]_vars
  PROVE  IInv' /\ [TD!Next]_TD!vars /\ MemStep
<1> USE DEF TD!vars, MemStep
<1>1. CASE read_head
  <2>1. IInv' /\ Durable' = Durable
    BY <1>1, ReadHeadInv
  <2> QED
    BY <1>1, <2>1 DEF read_head, buffers, procs, Mem, Ops
<1>2. CASE install_trans
  <2>1. /\ IInv' /\ Durable' = Durable
        /\ cache' = [cache EXCEPT ![lh[tail + 1]] = Durable[lh[tail + 1]]]
        /\ cache[lh[tail + 1]] # NoData => cache[lh[tail + 1]] = Durable[lh[tail + 1]]
        /\ Durable \in [Block -> Data] /\ cache \in [Block -> Data \cup {NoData}]
    <3>1. /\ logd[tail + 1] = Durable[lh[tail + 1]]
          /\ cache[lh[tail + 1]] # NoData => cache[lh[tail + 1]] = logd[tail + 1]
          /\ IInv' /\ Durable' = Durable
      BY <1>2, InstallInv
    <3>2. cache' = [cache EXCEPT ![lh[tail + 1]] = logd[tail + 1]]
      BY <1>2 DEF install_trans, bunpin
    <3>3. Durable \in [Block -> Data] /\ cache \in [Block -> Data \cup {NoData}]
      BY DurableFacts DEF IInv, TypeOK
    <3> QED
      BY <3>1, <3>2, <3>3
  <2>2. Mem' = Mem
    BY <2>1, LogConstants DEF Mem
  <2>3. Ops' = Ops
    BY <1>2 DEF install_trans, bunpin, procs, Ops
  <2> QED
    BY <2>1, <2>2, <2>3
<1>3. CASE clear_head
  <2>1. IInv' /\ Durable' = Durable
    BY <1>3, ClearHeadInv
  <2> QED
    BY <1>3, <2>1 DEF clear_head, buffers, procs, Mem, Ops
<1>4. CASE write_log
  <2>1. IInv' /\ Durable' = Durable /\ cache' = cache
    BY <1>4, WriteLogInv
  <2> QED
    BY <1>4, <2>1 DEF write_log, procs, Mem, Ops
<1>5. CASE write_head
  <2>1. IInv' /\ Durable' = Mem /\ Mem' = Mem
    BY <1>5, WriteHeadInv
  <2>2. Ops' = Ops /\ Ops = {}
    BY <1>5 DEF write_head, LogWritten, procs, Ops, IInv, LogInv, CallInv
  <2>3. TD!Commit
    BY <2>1, <2>2 DEF TD!Commit
  <2> QED
    BY <2>1, <2>3 DEF TD!Next
<1>6. ASSUME NEW p \in Proc, begin_op(p) PROVE IInv' /\ [TD!Next]_TD!vars /\ MemStep
  <2>1. /\ IInv' /\ Durable' = Durable /\ p \notin Ops
        /\ Ops' = Ops \/ Ops' = Ops \cup {p}
    BY <1>6, BeginOpInv
  <2>2. Mem' = Mem
    BY <1>6, <2>1 DEF begin_op, buffers, Mem
  <2> QED
    BY <2>1, <2>2 DEF TD!Next, TD!Begin
<1>7. ASSUME NEW p \in Proc, NEW x \in Block, NEW v \in Data, modify(p, x, v)
      PROVE  IInv' /\ [TD!Next]_TD!vars /\ MemStep
  <2>1. IInv' /\ Durable' = Durable /\ Ops' = Ops /\ p \in Ops
    BY <1>7, ModifyInv
  <2>2. /\ cache' = [cache EXCEPT ![x] = v]
        /\ cache \in [Block -> Data \cup {NoData}]
    BY <1>7 DEF modify, HasRoom, IInv, TypeOK
  <2>3. Mem' = [Mem EXCEPT ![x] = v]
    BY <2>1, <2>2, LogConstants, Zenon DEF Mem
  <2> QED
    BY <1>7, <2>1, <2>3, Zenon DEF TD!Next, TD!Write
<1>8. ASSUME NEW p \in Proc, log_write(p) PROVE IInv' /\ [TD!Next]_TD!vars /\ MemStep
  <2>1. IInv' /\ Durable' = Durable /\ Ops' = Ops
    BY <1>8, LogWriteInv
  <2> QED
    BY <1>8, <2>1 DEF log_write, bpin, Mem
<1>9. ASSUME NEW p \in Proc, end_op(p) PROVE IInv' /\ [TD!Next]_TD!vars /\ MemStep
  <2>1. IInv' /\ Durable' = Durable /\ p \in Ops /\ Ops' = Ops \ {p}
    BY <1>9, EndOpInv
  <2>2. Mem' = Mem
    BY <1>9, <2>1 DEF end_op, buffers, Mem
  <2> QED
    BY <2>1, <2>2 DEF TD!Next, TD!End
<1>10. ASSUME NEW p \in Proc, end_commit(p) PROVE IInv' /\ [TD!Next]_TD!vars /\ MemStep
  <2>1. IInv' /\ Durable' = Durable /\ Ops' = Ops
    BY <1>10, EndCommitInv
  <2> QED
    BY <1>10, <2>1 DEF end_commit, buffers, Mem
<1>11. ASSUME NEW x \in Block, load(x) PROVE IInv' /\ [TD!Next]_TD!vars /\ MemStep
  <2>1. IInv' /\ Durable' = Durable
    BY <1>11, LoadInv
  <2>2. home[x] = Durable[x] /\ cache[x] = NoData /\ cache' = [cache EXCEPT ![x] = Durable[x]]
    BY <1>11, UncachedIsHome, Zenon DEF load
  <2>3. Durable \in [Block -> Data] /\ cache \in [Block -> Data \cup {NoData}]
    BY DurableFacts DEF IInv, TypeOK
  <2>4. Mem' = Mem
    BY <2>1, <2>2, <2>3, LogConstants DEF Mem
  <2> QED
    BY <1>11, <2>1, <2>4 DEF load, procs, Ops
<1>12. ASSUME NEW x \in Block, recycle(x) PROVE IInv' /\ [TD!Next]_TD!vars /\ MemStep
  <2>1. IInv' /\ Durable' = Durable
    BY <1>12, RecycleInv
  <2>2. /\ cache[x] = Durable[x] /\ cache' = [cache EXCEPT ![x] = NoData]
        /\ cache \in [Block -> Data \cup {NoData}]
    BY <1>12 DEF recycle, IInv, LogInv, CleanInv, TypeOK
  <2>3. Mem' = Mem
    BY <2>1, <2>2, LogConstants DEF Mem
  <2> QED
    BY <1>12, <2>1, <2>3 DEF recycle, procs, Ops
<1>13. CASE crash
  <2>1. IInv' /\ Durable' = Durable /\ Ops' = {} /\ Mem' = Durable
    BY <1>13, CrashInv
  <2> QED
    BY <1>13, <2>1 DEF TD!Next, TD!Crash
<1>14. CASE quiesce \/ UNCHANGED vars
  BY <1>14, QuietInv
<1> QED
  BY <1>1, <1>2, <1>3, <1>4, <1>5, <1>6, <1>7, <1>8, <1>9, <1>10, <1>11, <1>12, <1>13, <1>14
     DEF Next, Kernel, Call

-----------------------------------------------------------------------------
\* The state of the log, of the buffers and of the disk always agree as LogInv
\* says, whatever the order of calls, commits, crashes and recoveries.
THEOREM LogInvariant == Spec => []IInv
<1>1. IInv /\ [Next]_vars => IInv'
  BY StepRefines
<1> QED
  BY InitIInv, <1>1, PTL DEF Spec

\* The log of kernel/log.c implements the transactional disk.
THEOREM LogRefinesTransDisk == Spec => AtomicCommit
<1>1. Init => TD!Init
  <2> SUFFICES ASSUME Init PROVE TD!Init
    OBVIOUS
  <2>1. Durable = home /\ home \in [Block -> Data]
    BY OverlayEmpty DEF Init, Durable
  <2>2. Mem = Durable
    BY <2>1 DEF Mem, Init
  <2>3. Ops = {}
    BY DEF Ops, Init
  <2> QED
    BY <2>1, <2>2, <2>3 DEF TD!Init
<1>2. IInv /\ [Next]_vars => [TD!Next]_TD!vars
  BY StepRefines
<1>3. Spec => []IInv
  BY LogInvariant, PTL DEF IInv
<1> QED
  BY <1>1, <1>2, <1>3, PTL DEF Spec, AtomicCommit, TD!Spec

BreadIsMem ==
  IInv /\ stage \notin {"boot", "recover"} => \A b \in Block : bread(b) = Mem[b]

\* Outside recovery, bread() returns the contents of the transactional disk.
LEMMA BreadMem == BreadIsMem /\ BreadIsMem'
<1>1. BreadIsMem
  <2> SUFFICES ASSUME IInv, stage \notin {"boot", "recover"}, NEW b \in Block
               PROVE  bread(b) = Mem[b]
    BY DEF BreadIsMem
  <2> QED
    BY UncachedIsHome DEF bread, Mem
<1> QED
  BY <1>1, PTL

\* Recycling a buffer never brings back old contents.
THEOREM NoUpdateLost == Spec => NoLostUpdate
<1>1. ASSUME IInv, [Next]_vars, stage \notin {"boot", "recover"}, stage' # "boot",
             NEW b \in Block, bread(b)' # bread(b)
      PROVE  \E p \in Proc : held[p] # b /\ held'[p] = b
  <2>1. IInv' /\ MemStep
    BY <1>1, StepRefines
  <2>2. CASE Mem' = Mem
    <3>1. bread(b) = Mem[b]
      BY <1>1, BreadMem DEF BreadIsMem
    <3>2. stage' # "recover"
      BY <1>1, Zenon DEF Next, Kernel, Call, read_head, install_trans, bunpin, clear_head, write_log,
         write_head, LogWritten, begin_op, modify, HasRoom, log_write, bpin, end_op, end_commit, load, recycle,
         crash, quiesce, vars
    <3>3. bread(b)' = Mem'[b]
      BY <1>1, <2>1, <3>2, BreadMem DEF BreadIsMem
    <3> QED
      BY <1>1, <2>2, <3>1, <3>3
  <2>3. CASE crash
    BY <1>1, <2>3 DEF crash
  <2>4. ASSUME NEW p \in Proc, NEW x \in Block, NEW v \in Data, modify(p, x, v)
        PROVE  \E q \in Proc : held[q] # b /\ held'[q] = b
    <3>1. b = x
      BY <1>1, <2>4 DEF modify, HasRoom, bread, disk, IInv, TypeOK
    <3> QED
      BY <1>1, <2>4, <3>1 DEF modify, HasRoom, IInv, TypeOK
  <2> QED
    BY <2>1, <2>2, <2>3, <2>4 DEF MemStep
<1>2. IInv /\ [Next]_vars =>
        [stage \notin {"boot", "recover"} /\ stage' # "boot" =>
           \A b \in Block : bread(b)' # bread(b) =>
             \E p \in Proc : held[p] # b /\ held'[p] = b]_vars
  BY <1>1
<1> QED
  BY LogInvariant, <1>2, PTL DEF IInv, Spec, NoLostUpdate
==============================================================================
