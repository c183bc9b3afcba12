--------------------------------- MODULE Bio ---------------------------------
(***************************************************************************)
(* The buffer cache of kernel/bio.c and the sleep locks of                 *)
(* kernel/sleeplock.c it hands buffers out with.  One action is one        *)
(* critical section of bcache.lock or of a sleep lock's spinlock; other    *)
(* processes run in between.  A process uses one buffer at a time, and     *)
(* writes or pins what it changed before it releases the buffer.           *)
(***************************************************************************)
EXTENDS Naturals, Sequences, FiniteSets, SequencesExt

CONSTANTS
  Proc,
  Buf,      \* bcache.buf[NBUF]
  Block,    \* pairs (dev, blockno)
  Data,     \* contents of a block
  None,     \* no process, no block
  MaxPins,  \* bound: pins held by the log (LOGSIZE)
  Faulty    \* may the device fail a transfer?

ASSUME BioConstants ==
  /\ None \notin Proc \cup Block \cup Buf
  /\ IsFiniteSet(Proc) /\ IsFiniteSet(Buf) /\ Buf # {}
  /\ Data # {} /\ MaxPins \in Nat /\ Faulty \in BOOLEAN

VARIABLES
  lru,     \* the list from bcache.head.next to bcache.head.prev
  blockno, \* (b->dev, b->blockno)
  valid,   \* b->valid
  refcnt,  \* b->refcnt
  data,    \* b->data
  pinned,  \* pins of the log: not in struct buf, counted in refcnt
  holder,  \* b->lock: locked, and by which pid
  disk,    \* the device
  pc, b,   \* where a process is, and its local variable b
  dirty    \* the process has changed its buffer and not written or pinned it

vars == <<lru, blockno, valid, refcnt, data, pinned, holder, disk, pc, b, dirty>>

\* binit() pushes every buffer at the front.
Init ==
  /\ lru \in SetToSeqs(Buf)
  /\ blockno = [x \in Buf |-> None]
  /\ valid = [x \in Buf |-> FALSE]
  /\ refcnt = [x \in Buf |-> 0]
  /\ data = [x \in Buf |-> CHOOSE v \in Data : TRUE]
  /\ pinned = [x \in Buf |-> 0]
  /\ holder = [x \in Buf |-> None]
  /\ disk \in [Block -> Data]
  /\ pc = [p \in Proc |-> "idle"]
  /\ b = [p \in Proc |-> None]
  /\ dirty = [p \in Proc |-> FALSE]

Cached(k) == {x \in Buf : blockno[x] = k}

\* The least recently used buffer with no reference: the search runs from the
\* tail of the list.
Free == {x \in Buf : refcnt[x] = 0}
Victim == lru[CHOOSE i \in DOMAIN lru :
                 lru[i] \in Free /\ \A j \in DOMAIN lru : lru[j] \in Free => j <= i]

MoveToFront(x) == <<x>> \o SelectSeq(lru, LAMBDA y : y # x)

-----------------------------------------------------------------------------
(* bget() *)

\* The block is cached: take a reference.
bget_hit(p, k) ==
  /\ pc[p] = "idle"
  /\ \E x \in Cached(k) :
       /\ refcnt' = [refcnt EXCEPT ![x] = @ + 1]
       /\ b' = [b EXCEPT ![p] = x]
  /\ pc' = [pc EXCEPT ![p] = "lock"]
  /\ UNCHANGED <<lru, blockno, valid, data, pinned, holder, disk, dirty>>

\* It is not: recycle a buffer, or panic("bget: no buffers").
NotCached_Skip(k) == TRUE
NotCached(k) == Cached(k) = {}

Recycle_KeepValid(x) == valid
Recycle(x) == [valid EXCEPT ![x] = FALSE]

bget_miss(p, k) ==
  /\ pc[p] = "idle" /\ NotCached(k)
  /\ IF Free = {}
     THEN /\ pc' = [pc EXCEPT ![p] = "panic"]
          /\ UNCHANGED <<blockno, valid, refcnt, b>>
     ELSE /\ blockno' = [blockno EXCEPT ![Victim] = k]
          /\ valid' = Recycle(Victim)
          /\ refcnt' = [refcnt EXCEPT ![Victim] = 1]
          /\ b' = [b EXCEPT ![p] = Victim]
          /\ pc' = [pc EXCEPT ![p] = "lock"]
  /\ UNCHANGED <<lru, data, pinned, holder, disk, dirty>>

-----------------------------------------------------------------------------
(* acquiresleep() and releasesleep() *)

LockFree(x) == holder[x] = None

acquiresleep(p) ==
  /\ pc[p] = "lock"
  /\ IF LockFree(b[p])
     THEN /\ holder' = [holder EXCEPT ![b[p]] = p]
          /\ pc' = [pc EXCEPT ![p] = "read"]
     ELSE /\ pc' = [pc EXCEPT ![p] = "asleep"]
          /\ UNCHANGED holder
  /\ UNCHANGED <<lru, blockno, valid, refcnt, data, pinned, disk, b, dirty>>

\* wakeup(lk): every sleeper goes round the loop of acquiresleep() again.
Wake(x) == [q \in Proc |-> IF pc[q] = "asleep" /\ b[q] = x THEN "lock" ELSE pc[q]]

\* brelse() panics when the caller does not hold the lock.
brelse_unlock(p) ==
  /\ pc[p] = "use" /\ ~dirty[p]
  /\ IF holder[b[p]] = p
     THEN /\ holder' = [holder EXCEPT ![b[p]] = None]
          /\ pc' = [Wake(b[p]) EXCEPT ![p] = "release"]
     ELSE /\ pc' = [pc EXCEPT ![p] = "panic"]
          /\ UNCHANGED holder
  /\ UNCHANGED <<lru, blockno, valid, refcnt, data, pinned, disk, b, dirty>>

brelse_unref(p) ==
  /\ pc[p] = "release"
  /\ refcnt' = [refcnt EXCEPT ![b[p]] = @ - 1]
  /\ lru' = IF refcnt'[b[p]] = 0 THEN MoveToFront(b[p]) ELSE lru
  /\ b' = [b EXCEPT ![p] = None]
  /\ pc' = [pc EXCEPT ![p] = "idle"]
  /\ UNCHANGED <<blockno, valid, data, pinned, holder, disk, dirty>>

-----------------------------------------------------------------------------
(* bread() after bget(), bwrite(), bpin() and bunpin() *)

\* A failed sd_read_ext2() leaves b->data as it was; b->valid is set all the
\* same.
bread(p) ==
  /\ pc[p] = "read"
  /\ IF valid[b[p]]
     THEN UNCHANGED <<valid, data>>
     ELSE /\ valid' = [valid EXCEPT ![b[p]] = TRUE]
          /\ \/ data' = [data EXCEPT ![b[p]] = disk[blockno[b[p]]]]
             \/ Faulty /\ UNCHANGED data
  /\ pc' = [pc EXCEPT ![p] = "use"]
  /\ UNCHANGED <<lru, blockno, refcnt, pinned, holder, disk, b, dirty>>

\* The user of a buffer changes its data.
change(p) ==
  /\ pc[p] = "use"
  /\ \E v \in Data : v # data[b[p]] /\ data' = [data EXCEPT ![b[p]] = v]
  /\ dirty' = [dirty EXCEPT ![p] = pinned[b[p]] = 0]
  /\ UNCHANGED <<lru, blockno, valid, refcnt, pinned, holder, disk, pc, b>>

\* A failed sd_write_ext2() is reported on the console and forgotten.
bwrite(p) ==
  /\ pc[p] = "use"
  /\ \/ disk' = [disk EXCEPT ![blockno[b[p]]] = data[b[p]]]
     \/ Faulty /\ UNCHANGED disk
  /\ dirty' = [dirty EXCEPT ![p] = FALSE]
  /\ UNCHANGED <<lru, blockno, valid, refcnt, data, pinned, holder, pc, b>>

\* log_write(): the buffer in use is pinned until the log has installed it.
Pins(x) == [refcnt EXCEPT ![x] = @ + 1]

bpin(p) ==
  /\ pc[p] = "use" /\ pinned[b[p]] = 0
  /\ Cardinality({x \in Buf : pinned[x] = 1}) < MaxPins
  /\ pinned' = [pinned EXCEPT ![b[p]] = 1]
  /\ refcnt' = Pins(b[p])
  /\ dirty' = [dirty EXCEPT ![p] = FALSE]
  /\ UNCHANGED <<lru, blockno, valid, data, holder, disk, pc, b>>

\* install_trans(): the home block is written and then unpinned.
bunpin(p) ==
  /\ pc[p] = "use" /\ pinned[b[p]] = 1
  /\ disk[blockno[b[p]]] = data[b[p]]
  /\ pinned' = [pinned EXCEPT ![b[p]] = 0]
  /\ refcnt' = [refcnt EXCEPT ![b[p]] = @ - 1]
  /\ UNCHANGED <<lru, blockno, valid, data, holder, disk, pc, b, dirty>>

Step(p) ==
  \/ acquiresleep(p) \/ bread(p) \/ brelse_unlock(p) \/ brelse_unref(p)
  \/ change(p) \/ bwrite(p) \/ bpin(p) \/ bunpin(p)

Next ==
  \E p \in Proc :
    \/ Step(p)
    \/ \E k \in Block : bget_hit(p, k) \/ bget_miss(p, k)

Spec == Init /\ [][Next]_vars

-----------------------------------------------------------------------------
TypeOK ==
  /\ lru \in Seq(Buf)
  /\ blockno \in [Buf -> Block \cup {None}]
  /\ valid \in [Buf -> BOOLEAN]
  /\ refcnt \in [Buf -> Nat]
  /\ data \in [Buf -> Data]
  /\ pinned \in [Buf -> {0, 1}]
  /\ holder \in [Buf -> Proc \cup {None}]
  /\ disk \in [Block -> Data]
  /\ pc \in [Proc -> {"idle", "lock", "asleep", "read", "use", "release", "panic"}]
  /\ b \in [Proc -> Buf \cup {None}]
  /\ dirty \in [Proc -> BOOLEAN]

Locked == {"read", "use"}

\* A block is in at most one buffer, whatever the order of misses, hits and
\* recycling; two buffers of one block would be two copies of its contents.
OneBuffer ==
  \A x, y \in Buf : blockno[x] = blockno[y] /\ blockno[x] # None => x = y

\* refcnt counts exactly the processes between bget() and the end of brelse()
\* and the pin of the log, so no buffer is recycled under its user and none is
\* lost to the cache.
RefcntExact ==
  \A x \in Buf : refcnt[x] = Cardinality({p \in Proc : b[p] = x}) + pinned[x]

\* The list always holds every buffer exactly once.
ListComplete == \A x \in Buf : \E i \in DOMAIN lru : lru[i] = x /\ \A j \in DOMAIN lru : lru[j] = x => j = i

\* The process in the middle of a buffer holds its lock and nobody else does;
\* nobody sleeps on a lock that is free.
LockInv ==
  /\ \A x \in Buf, p \in Proc : holder[x] = p <=> b[p] = x /\ pc[p] \in Locked
  /\ \A p \in Proc : pc[p] = "asleep" => holder[b[p]] # None

\* What bcache.lock and the sleep locks keep between them: one buffer per
\* block, exact counts, a complete list and exclusive locks, at every step of
\* bget() and brelse().
CacheInv == TypeOK /\ OneBuffer /\ RefcntExact /\ ListComplete /\ LockInv


\* The cache is the block store its interface comment promises: one user per
\* block, and contents that change only by the hand of that user, though they
\* move between the device and buffers that are recycled.
Holder(k) ==
  IF \E p \in Proc : pc[p] = "use" /\ b[p] \in Cached(k)
  THEN CHOOSE p \in Proc : pc[p] = "use" /\ b[p] \in Cached(k)
  ELSE None
Contents(k) ==
  IF \E x \in Cached(k) : valid[x] THEN data[CHOOSE x \in Cached(k) : valid[x]] ELSE disk[k]
BS == INSTANCE BlockStore
        WITH contents <- [k \in Block |-> Contents(k)], user <- [k \in Block |-> Holder(k)]
Implements == BS!Spec
==============================================================================
