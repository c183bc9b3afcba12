--------------------------------- MODULE Pipe ---------------------------------
(***************************************************************************)
(* A pipe of kernel/pipe.c, shared by any number of reading and writing    *)
(* processes.  pi->lock is held over a whole turn of a loop and, on the    *)
(* one CPU, nothing else runs while it is (interrupts are off); the        *)
(* indices nread and nwrite are unsigned ints and wrap.                    *)
(***************************************************************************)
EXTENDS Naturals, Sequences, FiniteSets

CONSTANTS
  Proc, None,
  Byte,
  PIPESIZE,
  UINT,      \* the number of values of an unsigned int (2^32)
  MaxN       \* bound: bytes asked for in one call

ASSUME PipeConstants ==
  /\ None \notin Proc
  /\ PIPESIZE \in Nat \ {0} /\ UINT \in Nat /\ MaxN \in Nat \ {0}
  /\ PIPESIZE < UINT /\ UINT % PIPESIZE = 0

VARIABLES
  data, nread, nwrite, readopen, writeopen,  \* struct pipe
  freed,             \* kfree(pi) has been called
  lock,              \* the process holding pi->lock
  readers, writers,  \* processes with an open descriptor of that end
  pc, left,          \* a process in piperead() or pipewrite(), and its n - i
  killed

vars == <<data, nread, nwrite, readopen, writeopen, freed, lock, readers, writers, pc, left, killed>>
pipe == <<data, nread, nwrite, readopen, writeopen, freed>>

\* The state after pipealloc() and the forks that share the descriptors.
Init ==
  /\ data = [k \in 0..(PIPESIZE - 1) |-> CHOOSE c \in Byte : TRUE]
  /\ nread = 0 /\ nwrite = 0
  /\ readopen = TRUE /\ writeopen = TRUE /\ freed = FALSE
  /\ lock = None
  /\ readers \in SUBSET Proc \ {{}} /\ writers \in SUBSET Proc \ {{}}
  /\ pc = [p \in Proc |-> "user"]
  /\ left = [p \in Proc |-> 0]
  /\ killed = [p \in Proc |-> FALSE]

\* wakeup(): the sleepers of one channel go round their loop again.
wakeup_None(asleep, awake) == pc
wakeup(asleep, awake) == [p \in Proc |-> IF pc[p] = asleep THEN awake ELSE pc[p]]
WakeReaders == wakeup("rsleep", "rwait")
WakeWriters == wakeup("wsleep", "wloop")

Call(p, where) ==
  /\ pc[p] = "user" /\ ~killed[p] /\ lock = None
  /\ \E n \in 1..MaxN : left' = [left EXCEPT ![p] = n]
  /\ pc' = [pc EXCEPT ![p] = where]
  /\ UNCHANGED <<pipe, lock, readers, writers, killed>>

\* acquire(&pi->lock), also on the way out of sleep().
Take(p) ==
  /\ lock = None /\ pc[p] \in {"rwait", "wloop"}
  /\ lock' = p
  /\ UNCHANGED <<pipe, readers, writers, pc, left, killed>>

Full_Late == nwrite = (nread + PIPESIZE + 1) % UINT
Full == nwrite = (nread + PIPESIZE) % UINT

-----------------------------------------------------------------------------
(* pipewrite() *)

pipewrite_start(p) == p \in writers /\ Call(p, "wloop")

\* The reading end is closed or the caller killed: return -1.
pipewrite_fail(p) ==
  /\ lock = p /\ pc[p] = "wloop" /\ left[p] > 0
  /\ ~readopen \/ killed[p]
  /\ lock' = None
  /\ pc' = [pc EXCEPT ![p] = "user"]
  /\ left' = [left EXCEPT ![p] = 0]
  /\ UNCHANGED <<pipe, readers, writers, killed>>

pipewrite_sleep(p) ==
  /\ lock = p /\ pc[p] = "wloop" /\ left[p] > 0
  /\ readopen /\ ~killed[p] /\ Full
  /\ pc' = [WakeReaders EXCEPT ![p] = "wsleep"]
  /\ lock' = None
  /\ UNCHANGED <<pipe, readers, writers, left, killed>>

pipewrite_put(p) ==
  /\ lock = p /\ pc[p] = "wloop" /\ left[p] > 0
  /\ readopen /\ ~killed[p] /\ ~Full
  /\ \E ch \in Byte : data' = [data EXCEPT ![nwrite % PIPESIZE] = ch]
  /\ nwrite' = (nwrite + 1) % UINT
  /\ left' = [left EXCEPT ![p] = @ - 1]
  /\ UNCHANGED <<nread, readopen, writeopen, freed, lock, readers, writers, pc, killed>>

\* Everything is written, or copyin() fails.
pipewrite_done(p) ==
  /\ lock = p /\ pc[p] = "wloop"
  /\ \/ left[p] = 0
     \/ readopen /\ ~killed[p] /\ ~Full
  /\ pc' = [WakeReaders EXCEPT ![p] = "user"]
  /\ lock' = None
  /\ left' = [left EXCEPT ![p] = 0]
  /\ UNCHANGED <<pipe, readers, writers, killed>>

-----------------------------------------------------------------------------
(* piperead() *)

piperead_start(p) == p \in readers /\ Call(p, "rwait")

piperead_wait(p) ==
  /\ lock = p /\ pc[p] = "rwait"
  /\ IF nread = nwrite /\ writeopen
     THEN pc' = [pc EXCEPT ![p] = IF killed[p] THEN "user" ELSE "rsleep"] /\ lock' = None
     ELSE pc' = [pc EXCEPT ![p] = "rcopy"] /\ UNCHANGED lock
  /\ left' = [left EXCEPT ![p] = IF pc'[p] = "user" THEN 0 ELSE @]
  /\ UNCHANGED <<pipe, readers, writers, killed>>

\* One byte; when copyout() fails the byte is gone all the same.
piperead_get(p) ==
  /\ lock = p /\ pc[p] = "rcopy"
  /\ left[p] > 0 /\ nread # nwrite
  /\ nread' = (nread + 1) % UINT
  /\ \E fault \in BOOLEAN :
       /\ left' = [left EXCEPT ![p] = IF fault THEN 0 ELSE @ - 1]
       /\ pc' = IF fault THEN [WakeWriters EXCEPT ![p] = "user"] ELSE pc
       /\ lock' = IF fault THEN None ELSE lock
  /\ UNCHANGED <<data, nwrite, readopen, writeopen, freed, readers, writers, killed>>

piperead_done(p) ==
  /\ lock = p /\ pc[p] = "rcopy"
  /\ left[p] = 0 \/ nread = nwrite
  /\ pc' = [WakeWriters EXCEPT ![p] = "user"]
  /\ lock' = None
  /\ left' = [left EXCEPT ![p] = 0]
  /\ UNCHANGED <<pipe, readers, writers, killed>>

-----------------------------------------------------------------------------
(* close() of a descriptor; pipeclose() when it is the last of its end *)

Wakes_Skip(w) == pc
Wakes(w) == IF w THEN WakeReaders ELSE WakeWriters

MayFree == ~readopen' /\ ~writeopen'

close_write(p) ==
  /\ p \in writers /\ pc[p] = "user" /\ lock = None
  /\ writers' = writers \ {p}
  /\ IF writers' = {}
     THEN /\ writeopen' = FALSE
          /\ UNCHANGED readopen
          /\ pc' = Wakes(TRUE)
          /\ freed' = MayFree
     ELSE UNCHANGED <<writeopen, readopen, pc, freed>>
  /\ UNCHANGED <<data, nread, nwrite, lock, readers, left, killed>>

close_read(p) ==
  /\ p \in readers /\ pc[p] = "user" /\ lock = None
  /\ readers' = readers \ {p}
  /\ IF readers' = {}
     THEN /\ readopen' = FALSE
          /\ UNCHANGED writeopen
          /\ pc' = Wakes(FALSE)
          /\ freed' = MayFree
     ELSE UNCHANGED <<readopen, writeopen, pc, freed>>
  /\ UNCHANGED <<data, nread, nwrite, lock, writers, left, killed>>

\* kill() wakes a sleeper.
kill(p) ==
  /\ lock = None /\ ~killed[p]
  /\ killed' = [killed EXCEPT ![p] = TRUE]
  /\ pc' = [pc EXCEPT ![p] = IF @ = "rsleep" THEN "rwait" ELSE IF @ = "wsleep" THEN "wloop" ELSE @]
  /\ UNCHANGED <<pipe, lock, readers, writers, left>>

\* What a process in the kernel does next.
Step(p) ==
  \/ Take(p)
  \/ pipewrite_fail(p) \/ pipewrite_sleep(p) \/ pipewrite_put(p) \/ pipewrite_done(p)
  \/ piperead_wait(p) \/ piperead_get(p) \/ piperead_done(p)

Next ==
  \E p \in Proc :
    \/ Step(p) \/ pipewrite_start(p) \/ piperead_start(p)
    \/ close_read(p) \/ close_write(p) \/ kill(p)

Spec == Init /\ [][Next]_vars

\* A process that holds the lock runs to the end of its turn; one that wants it
\* gets it again and again, as every holder lets it go.
FairSpec == Spec /\ \A p \in Proc : SF_vars(Step(p))

-----------------------------------------------------------------------------
Count == (nwrite + UINT - nread) % UINT

TypeOK ==
  /\ data \in [0..(PIPESIZE - 1) -> Byte]
  /\ nread \in 0..(UINT - 1) /\ nwrite \in 0..(UINT - 1)
  /\ readopen \in BOOLEAN /\ writeopen \in BOOLEAN /\ freed \in BOOLEAN
  /\ lock \in Proc \cup {None}
  /\ readers \subseteq Proc /\ writers \subseteq Proc
  /\ pc \in [Proc -> {"user", "wloop", "wsleep", "rwait", "rcopy", "rsleep"}]
  /\ left \in [Proc -> 0..MaxN]
  /\ killed \in [Proc -> BOOLEAN]
  /\ Count <= PIPESIZE

\* Nobody is in piperead() or pipewrite() on a page that has been given back,
\* and an end counts as open exactly as long as somebody has it open.
NoUseAfterFree ==
  /\ freed => \A p \in Proc : pc[p] = "user"
  /\ readopen = (readers # {}) /\ writeopen = (writers # {})

\* No wakeup is lost: when the lock is free, a reader asleep has nothing to read
\* and may still be given something; a writer asleep has no room and a reader.
NoLostWakeup ==
  lock = None =>
    \A p \in Proc :
      /\ pc[p] = "rsleep" => nread = nwrite /\ writeopen
      /\ pc[p] = "wsleep" => Full /\ readopen

\* What pi->lock keeps: the page outlives every call, and nobody in piperead()
\* or pipewrite() sleeps without a reason, though calls, closes and kills run
\* in any order.
PipeInv == TypeOK /\ NoUseAfterFree /\ NoLostWakeup

\* The ring is a bounded first-in first-out queue, also when the indices wrap.
Queue == [j \in 1..Count |-> data[(nread + j - 1) % PIPESIZE]]
F == INSTANCE Fifo WITH Capacity <- PIPESIZE, queue <- Queue
IsFifo == F!Spec

\* Once one end is closed, every call on the other end returns.
CallsReturn ==
  \A p \in Proc :
    /\ ~writeopen /\ pc[p] \in {"rwait", "rsleep", "rcopy"} ~> pc[p] = "user"
    /\ ~readopen /\ pc[p] \in {"wloop", "wsleep"} ~> pc[p] = "user"
================================================================================
