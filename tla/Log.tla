-------------------------------- MODULE Log ----------------------------------
(***************************************************************************)
(* The redo log of kernel/log.c over the buffer cache of kernel/bio.c.     *)
(* One action is one critical section of log.lock, or one block moved      *)
(* between the cache and the disk; power may fail between any two actions. *)
(* A block write is atomic.  The cache is represented by the contents of   *)
(* the buffers that hold a block (cache), the buffers a process has locked *)
(* (held) and those bpin() keeps from being recycled (pin).                *)
(***************************************************************************)
EXTENDS Naturals, Sequences, FiniteSets

CONSTANTS
  Proc,        \* processes making file system calls
  Block,       \* home block numbers of the file system
  Data,        \* contents of a block
  NoData,      \* the block is in no buffer
  NoBlock,     \* the process holds no buffer
  MAXOPBLOCKS, \* log_write() calls one system call may make
  LOGSIZE,     \* entries of struct logheader
  NLOG         \* log.size: blocks of the on-disk log, its header included

ASSUME LogConstants ==
  /\ NoData \notin Data
  /\ NoBlock \notin Block
  /\ MAXOPBLOCKS \in Nat \ {0}
  /\ LOGSIZE \in Nat
  /\ NLOG \in Nat \ {0}
  /\ MAXOPBLOCKS <= LOGSIZE
  /\ IsFiniteSet(Proc)

VARIABLES
  home,        \* disk: the blocks at their home locations
  logd,        \* disk: the data blocks of the log
  head,        \* disk: the log header, a sequence of block numbers
  cache,       \* buffer contents by block
  pin,         \* blocks pinned by log_write()
  lh,          \* log.lh
  outstanding, \* log.outstanding
  committing,  \* log.committing
  pc,          \* where each process is
  held,        \* the buffer a process has locked and modified
  calls,       \* log_write() calls made by the current system call
  stage,       \* where recovery or commit() is
  tail,        \* the loop variable of write_log() and install_trans()
  env          \* "busy": calls arrive and power may fail; "quiet": neither

disk   == <<home, logd, head>>
buffers == <<cache, pin>>
logvars == <<lh, outstanding, committing>>
procs  == <<pc, held, calls>>
vars == <<disk, buffers, logvars, procs, stage, tail, env>>

Idx == 1..LOGSIZE

Stages == {"boot", "recover", "run", "write_log", "install", "done", "panic"}

InLog(b) == \E i \in 1..Len(lh) : lh[i] = b

\* Small steps of the code that a plausible slip would change, each after that
\* slip: bpin(), bunpin(), the reservation of a call, the order of commit().
bpin_None(b) == pin
bpin(b) == pin \cup {b}

bunpin_None(b) == pin
bunpin(b) == pin \ {b}

HasRoom(p) == calls[p] < MAXOPBLOCKS

LogWritten_Always == TRUE
LogWritten == tail = Len(lh)

\* bread(): the buffer if the block is cached, the disk otherwise.
bread(b) == IF cache[b] # NoData THEN cache[b] ELSE home[b]

Init ==
  /\ home \in [Block -> Data]
  /\ logd \in [Idx -> Data]
  /\ head = << >>
  /\ cache = [b \in Block |-> NoData]
  /\ pin = {}
  /\ lh = << >>
  /\ outstanding = 0
  /\ committing = FALSE
  /\ pc = [p \in Proc |-> "idle"]
  /\ held = [p \in Proc |-> NoBlock]
  /\ calls = [p \in Proc |-> 0]
  /\ stage = "boot"
  /\ tail = 0
  /\ env = "busy"

-----------------------------------------------------------------------------
(* initlog() and recover_from_log() *)

read_head ==
  /\ stage = "boot"
  /\ lh' = head
  /\ tail' = 0
  /\ stage' = "recover"
  /\ UNCHANGED <<disk, buffers, outstanding, committing, procs, env>>

\* One turn of the loop of install_trans(recovering); the buffer keeps its
\* pin when recovering, since recovery never took one.
install_trans ==
  /\ stage \in {"recover", "install"}
  /\ tail < Len(lh)
  /\ LET b == lh[tail + 1] IN
       /\ home' = [home EXCEPT ![b] = logd[tail + 1]]
       /\ cache' = [cache EXCEPT ![b] = logd[tail + 1]]
       /\ pin' = IF stage = "install" THEN bunpin(b) ELSE pin
  /\ tail' = tail + 1
  /\ UNCHANGED <<logd, head, logvars, procs, stage, env>>

\* log.lh.n = 0; write_head(): the log is erased.
clear_head ==
  /\ stage \in {"recover", "install"}
  /\ tail = Len(lh)
  /\ lh' = << >>
  /\ head' = << >>
  /\ tail' = 0
  /\ stage' = IF stage = "recover" THEN "run" ELSE "done"
  /\ UNCHANGED <<home, logd, buffers, outstanding, committing, procs, env>>

-----------------------------------------------------------------------------
(* begin_op(), log_write(), end_op() *)


MustWait ==
  \/ committing
  \/ Len(lh) + (outstanding + 1) * MAXOPBLOCKS > LOGSIZE

\* One turn of the loop of begin_op(), entered by a new call or after a
\* wakeup; sleep() releases log.lock atomically.  forkret() runs initlog()
\* before the first process makes a call.
begin_op(p) ==
  /\ stage \notin {"boot", "recover"}
  /\ pc[p] = "woken" \/ (pc[p] = "idle" /\ env = "busy")
  /\ IF MustWait
     THEN /\ pc' = [pc EXCEPT ![p] = "asleep"]
          /\ UNCHANGED outstanding
     ELSE /\ pc' = [pc EXCEPT ![p] = "op"]
          /\ outstanding' = outstanding + 1
  /\ UNCHANGED <<disk, buffers, lh, committing, held, calls, stage, tail, env>>

\* bp = bread(...); modify bp->data[]: the buffer stays locked.
modify(p, b, v) ==
  /\ pc[p] = "op"
  /\ held[p] = NoBlock
  /\ HasRoom(p)
  /\ \A q \in Proc : held[q] # b
  /\ cache' = [cache EXCEPT ![b] = v]
  /\ held' = [held EXCEPT ![p] = b]
  /\ UNCHANGED <<disk, pin, logvars, pc, calls, stage, tail, env>>

\* log_write(bp); brelse(bp).
log_write(p) ==
  /\ pc[p] = "op"
  /\ held[p] # NoBlock
  /\ IF Len(lh) >= LOGSIZE \/ Len(lh) >= NLOG - 1 \/ outstanding < 1
     THEN /\ stage' = "panic"
          /\ UNCHANGED <<lh, pin, held, calls>>
     ELSE /\ lh' = IF InLog(held[p]) THEN lh ELSE Append(lh, held[p])
          /\ pin' = bpin(held[p])
          /\ held' = [held EXCEPT ![p] = NoBlock]
          /\ calls' = [calls EXCEPT ![p] = @ + 1]
          /\ UNCHANGED stage
  /\ UNCHANGED <<disk, cache, outstanding, committing, pc, tail, env>>

wakeup_None(f) == f

\* wakeup(&log): every sleeper runs the loop of begin_op() again.
wakeup(f) == [q \in Proc |-> IF f[q] = "asleep" THEN "woken" ELSE f[q]]

\* The first critical section of end_op(), and the test of commit().
end_op(p) ==
  /\ pc[p] = "op"
  /\ held[p] = NoBlock
  /\ outstanding' = outstanding - 1
  /\ calls' = [calls EXCEPT ![p] = 0]
  /\ IF committing
     THEN /\ stage' = "panic"
          /\ UNCHANGED <<committing, pc>>
     ELSE IF outstanding' = 0
     THEN /\ committing' = TRUE
          /\ pc' = [pc EXCEPT ![p] = "commit"]
          /\ stage' = IF lh # << >> THEN "write_log" ELSE "done"
     ELSE /\ pc' = wakeup([pc EXCEPT ![p] = "idle"])
          /\ UNCHANGED <<committing, stage>>
  /\ tail' = 0
  /\ UNCHANGED <<disk, buffers, lh, held, env>>

-----------------------------------------------------------------------------
(* commit(), run by the process of the last end_op() *)

write_log ==
  /\ stage = "write_log"
  /\ tail < Len(lh)
  /\ LET b == lh[tail + 1] IN
       /\ logd' = [logd EXCEPT ![tail + 1] = bread(b)]
       /\ cache' = [cache EXCEPT ![b] = bread(b)]
  /\ tail' = tail + 1
  /\ UNCHANGED <<home, head, pin, logvars, procs, stage, env>>

\* The point at which the transaction commits.
write_head ==
  /\ stage = "write_log"
  /\ LogWritten
  /\ head' = lh
  /\ tail' = 0
  /\ stage' = "install"
  /\ UNCHANGED <<home, logd, buffers, logvars, procs, env>>

\* The second critical section of end_op().
end_commit(p) ==
  /\ stage = "done"
  /\ pc[p] = "commit"
  /\ committing' = FALSE
  /\ pc' = wakeup([pc EXCEPT ![p] = "idle"])
  /\ stage' = "run"
  /\ UNCHANGED <<disk, buffers, lh, outstanding, held, calls, tail, env>>

-----------------------------------------------------------------------------
(* The environment *)

\* bread() of an uncached block by a reader (nothing reads a home block before
\* initlog()), and bget() giving a buffer with refcnt 0 to some other block.
load(b) ==
  /\ stage \notin {"boot", "recover"}
  /\ cache[b] = NoData
  /\ cache' = [cache EXCEPT ![b] = home[b]]
  /\ UNCHANGED <<disk, pin, logvars, procs, stage, tail, env>>

recycle(b) ==
  /\ cache[b] # NoData
  /\ b \notin pin
  /\ \A p \in Proc : held[p] # b
  /\ cache' = [cache EXCEPT ![b] = NoData]
  /\ UNCHANGED <<disk, pin, logvars, procs, stage, tail, env>>

\* Only the disk survives.
crash ==
  /\ env = "busy"
  /\ cache' = [b \in Block |-> NoData]
  /\ pin' = {}
  /\ lh' = << >>
  /\ outstanding' = 0
  /\ committing' = FALSE
  /\ pc' = [p \in Proc |-> "idle"]
  /\ held' = [p \in Proc |-> NoBlock]
  /\ calls' = [p \in Proc |-> 0]
  /\ stage' = "boot"
  /\ tail' = 0
  /\ UNCHANGED <<disk, env>>

\* From here on no new call is made and power stays on.
quiesce ==
  /\ env = "busy"
  /\ env' = "quiet"
  /\ UNCHANGED <<disk, buffers, logvars, procs, stage, tail>>

Kernel == read_head \/ install_trans \/ clear_head \/ write_log \/ write_head

Call(p) ==
  \/ begin_op(p)
  \/ \E b \in Block, v \in Data : modify(p, b, v)
  \/ log_write(p)
  \/ end_op(p)
  \/ end_commit(p)

Next ==
  /\ stage # "panic"
  /\ \/ Kernel
     \/ \E p \in Proc : Call(p)
     \/ \E b \in Block : load(b) \/ recycle(b)
     \/ crash
     \/ quiesce

Spec == Init /\ [][Next]_vars

\* The scheduler runs every runnable process again and again (round robin in
\* scheduler()), and the file system code of a call always reaches end_op().
FairSpec ==
  /\ Spec
  /\ WF_vars(stage # "panic" /\ Kernel)
  /\ \A p \in Proc : WF_vars(stage # "panic" /\ Call(p))

-----------------------------------------------------------------------------
TypeOK ==
  /\ home \in [Block -> Data]
  /\ logd \in [Idx -> Data]
  /\ head \in Seq(Block) /\ Len(head) <= LOGSIZE
  /\ cache \in [Block -> Data \cup {NoData}]
  /\ pin \subseteq Block
  /\ lh \in Seq(Block) /\ Len(lh) <= LOGSIZE
  /\ outstanding \in Nat
  /\ committing \in BOOLEAN
  /\ pc \in [Proc -> {"idle", "woken", "asleep", "op", "commit"}]
  /\ held \in [Proc -> Block \cup {NoBlock}]
  /\ calls \in [Proc -> 0..MAXOPBLOCKS]
  /\ stage \in Stages
  /\ tail \in 0..LOGSIZE
  /\ env \in {"busy", "quiet"}


\* What recovery would restore: the blocks s names from the log, the others
\* from home.
Overlay(h, l, s) == [b \in Block |->
  IF \E i \in 1..Len(s) : s[i] = b
  THEN l[CHOOSE i \in 1..Len(s) : s[i] = b]
  ELSE h[b]]

Durable == Overlay(home, logd, head)

Mem == [b \in Block |-> IF cache[b] # NoData THEN cache[b] ELSE Durable[b]]

Ops == {p \in Proc : pc[p] = "op"}

TD == INSTANCE TransDisk WITH mem <- Mem, durable <- Durable, active <- Ops

\* The log implements a transactional disk: whatever the order of system
\* calls, block writes, buffer recycling, crashes and repeated recoveries, the
\* durable contents change only at write_head(), only when no call is in
\* progress, and then to exactly what all finished calls wrote.
AtomicCommit == TD!Spec

NoDup(s) == \A i, j \in 1..Len(s) : s[i] = s[j] => i = j

\* The header on disk, the header in memory and the loops that walk it.
HeaderInv ==
  /\ NoDup(lh) /\ NoDup(head)
  /\ head # << >> => stage \in {"boot", "recover", "install"}
  /\ stage \in {"recover", "install"} => lh = head
  /\ stage \in {"boot", "done"} => lh = << >>
  /\ stage \in {"recover", "install", "write_log"} => tail <= Len(lh)

\* The blocks already installed, and those already copied to the log.
CopyInv ==
  /\ stage \in {"recover", "install"} =>
       \A i \in 1..Len(lh) : i <= tail => home[lh[i]] = logd[i]
  /\ stage = "write_log" =>
       \A i \in 1..Len(lh) : i <= tail => cache[lh[i]] = logd[i]
  /\ stage = "install" =>
       \A i \in 1..Len(lh) : cache[lh[i]] # NoData => cache[lh[i]] = logd[i]

\* The pinned buffers are those of the blocks still to be installed.
PinInv ==
  /\ stage \in {"boot", "recover", "done"} => pin = {}
  /\ stage \in {"run", "write_log", "panic"} => \A i \in 1..Len(lh) : lh[i] \in pin
  /\ stage = "install" => \A i \in 1..Len(lh) : lh[i] \in pin <=> i > tail
  /\ \A b \in pin : cache[b] # NoData /\ InLog(b)

\* A buffer nobody has modified since the last commit is what is durable.
CleanInv ==
  /\ stage = "boot" => \A b \in Block : cache[b] = NoData
  /\ \A b \in Block :
       (cache[b] # NoData /\ b \notin pin /\ \A p \in Proc : held[p] # b)
         => cache[b] = Durable[b]

\* log.outstanding counts the calls, and a commit excludes them.
CallInv ==
  /\ outstanding = Cardinality(Ops)
  /\ Ops # {} => stage \in {"run", "panic"}
  /\ committing <=> stage \in {"write_log", "install", "done"}
  /\ \A p \in Proc : held[p] # NoBlock =>
       p \in Ops /\ cache[held[p]] # NoData /\ calls[p] < MAXOPBLOCKS

\* The inductive invariant behind AtomicCommit: which of the copies of a block
\* (home, log, buffer) agree at each point of commit(), of recovery and of the
\* calls between them, and that a commit excludes calls.
LogInv == HeaderInv /\ CopyInv /\ PinInv /\ CleanInv /\ CallInv

\* The same with the types, without which it is not inductive: every step of
\* begin_op(), log_write(), end_op(), commit() and recovery keeps it.
IInv == TypeOK /\ LogInv

\* bread() never goes back in time: once recovery is over, what a reader sees
\* in a block changes only when a call modifies the buffer.  Committing,
\* installing and recycling buffers are invisible.
NoLostUpdate ==
  [][stage \notin {"boot", "recover"} /\ stage' # "boot" =>
       \A b \in Block : bread(b)' # bread(b) =>
         \E p \in Proc : held[p] # b /\ held'[p] = b]_vars

\* Once no more calls arrive, every process asleep in begin_op() gets in and
\* finishes, and the last end_op() empties the log: no wakeup is lost and no
\* update stays uncommitted.
LogDrains ==
  (env = "quiet" /\ stage # "panic") ~>
    (stage = "run" /\ lh = << >> /\ head = << >> /\ \A p \in Proc : pc[p] = "idle")
==============================================================================
