--------------------------- MODULE ProcTableProofs ---------------------------
(***************************************************************************)
(* Proofs about ProcTable for a table of any size: no orphan, no lost      *)
(* wakeup and unique pids, whatever the order of system calls.             *)
(***************************************************************************)
EXTENDS ProcTable, TLAPS

\* The table userinit() leaves satisfies the invariant.
LEMMA InitInv == Init => Inv
BY ProcConstants DEF Init, Inv, TypeOK, States, NoOrphan, NoLostWakeup, PidUnique, ProcInv, Alive, Children

\* fork_alloc keeps the invariant.
LEMMA ForkAllocInv ==
  ASSUME Inv, NEW p \in Proc, fork_alloc(p) PROVE Inv'
<1> USE ProcConstants DEF Inv, fork_alloc, Enter, allocpid
<1>1. TypeOK'
  BY DEF TypeOK, States, ProcInv, Alive
<1>2. ProcInv'
  BY DEF TypeOK, ProcInv, Alive, NoOrphan
<1>3. NoOrphan'
  BY DEF TypeOK, ProcInv, NoOrphan, Alive
<1>4. NoLostWakeup'
  BY DEF TypeOK, ProcInv, NoOrphan, NoLostWakeup, Alive, Children
<1>5. PidUnique'
  BY DEF TypeOK, ProcInv, PidUnique
<1> QED
  BY <1>1, <1>2, <1>3, <1>4, <1>5

\* fork_fail keeps the invariant.
LEMMA ForkFailInv ==
  ASSUME Inv, NEW p \in Proc, fork_fail(p) PROVE Inv'
<1> USE ProcConstants DEF Inv, fork_fail, Enter, allocpid
<1>1. TypeOK'
  BY DEF TypeOK, States, ProcInv, Alive
<1>2. ProcInv'
  BY DEF TypeOK, ProcInv, Alive, NoOrphan
<1>3. NoOrphan'
  BY DEF TypeOK, ProcInv, NoOrphan, Alive
<1>4. NoLostWakeup'
  BY DEF TypeOK, ProcInv, NoOrphan, NoLostWakeup, Alive, Children
<1>5. PidUnique'
  BY DEF TypeOK, ProcInv, PidUnique
<1> QED
  BY <1>1, <1>2, <1>3, <1>4, <1>5

\* fork_parent keeps the invariant.
LEMMA ForkParentInv ==
  ASSUME Inv, NEW p \in Proc, fork_parent(p) PROVE Inv'
<1> USE ProcConstants DEF Inv, fork_parent
<1>1. TypeOK'
  BY DEF TypeOK, States, ProcInv, Alive
<1>2. ProcInv'
  BY DEF TypeOK, ProcInv, Alive, NoOrphan
<1>3. NoOrphan'
  BY DEF TypeOK, ProcInv, NoOrphan, Alive
<1>4. NoLostWakeup'
  BY DEF TypeOK, ProcInv, NoOrphan, NoLostWakeup, Alive, Children
<1>5. PidUnique'
  BY DEF TypeOK, ProcInv, PidUnique
<1> QED
  BY <1>1, <1>2, <1>3, <1>4, <1>5

\* fork_runnable keeps the invariant.
LEMMA ForkRunnableInv ==
  ASSUME Inv, NEW p \in Proc, fork_runnable(p) PROVE Inv'
<1> USE ProcConstants DEF Inv, fork_runnable
<1>1. TypeOK'
  BY DEF TypeOK, States, ProcInv, Alive
<1>2. ProcInv'
  BY DEF TypeOK, ProcInv, Alive, NoOrphan
<1>3. NoOrphan'
  BY DEF TypeOK, ProcInv, NoOrphan, Alive
<1>4. NoLostWakeup'
  BY DEF TypeOK, ProcInv, NoOrphan, NoLostWakeup, Alive, Children
<1>5. PidUnique'
  BY DEF TypeOK, ProcInv, PidUnique
<1> QED
  BY <1>1, <1>2, <1>3, <1>4, <1>5

\* exit_start keeps the invariant.
LEMMA ExitStartInv ==
  ASSUME Inv, NEW p \in Proc, exit_start(p) PROVE Inv'
<1> USE ProcConstants DEF Inv, exit_start, MayExit
<1>1. TypeOK'
  BY DEF TypeOK, States, ProcInv, Alive
<1>2. ProcInv'
  BY DEF TypeOK, ProcInv, Alive, NoOrphan
<1>3. NoOrphan'
  BY DEF TypeOK, ProcInv, NoOrphan, Alive
<1>4. NoLostWakeup'
  BY DEF TypeOK, ProcInv, NoOrphan, NoLostWakeup, Alive, Children
<1>5. PidUnique'
  BY DEF TypeOK, ProcInv, PidUnique
<1> QED
  BY <1>1, <1>2, <1>3, <1>4, <1>5

\* exit_zombie keeps the invariant.
LEMMA ExitZombieInv ==
  ASSUME Inv, NEW p \in Proc, exit_zombie(p) PROVE Inv'
<1> USE ProcConstants DEF Inv, exit_zombie, reparent, ExitWakes, wakeup, Children
<1>1. TypeOK'
  BY DEF TypeOK, States, ProcInv, Alive
<1>2. ProcInv'
  BY DEF TypeOK, ProcInv, Alive, NoOrphan
<1>3. NoOrphan'
  BY DEF TypeOK, ProcInv, NoOrphan, Alive
<1>4. NoLostWakeup'
  <2> SUFFICES ASSUME NEW r \in Proc, state'[r] = "SLEEPING", chan'[r] = r
               PROVE  /\ \E q \in Proc : parent'[q] = r
                      /\ \A q \in Proc : parent'[q] = r => state'[q] # "ZOMBIE"
    BY DEF NoLostWakeup
  <2>1. /\ r # p /\ state[r] = "SLEEPING" /\ chan[r] = r
        /\ parent[p] # r
        /\ r = initproc => Children(p) = {}
    BY DEF TypeOK
  <2>2. PICK q \in Proc : parent[q] = r
    BY <2>1 DEF NoLostWakeup
  <2>3. parent'[q] = r
    BY <2>1, <2>2 DEF TypeOK
  <2>4. \A u \in Proc : parent'[u] = r => parent[u] = r
    BY <2>1 DEF TypeOK
  <2>5. \A u \in Proc : parent'[u] = r => state'[u] # "ZOMBIE"
    BY <2>1, <2>4 DEF NoLostWakeup, TypeOK
  <2> QED
    BY <2>3, <2>5
<1>5. PidUnique'
  BY DEF TypeOK, ProcInv, PidUnique
<1> QED
  BY <1>1, <1>2, <1>3, <1>4, <1>5

\* wait_reap keeps the invariant.
LEMMA WaitReapInv ==
  ASSUME Inv, NEW p \in Proc, NEW q \in Proc, wait_reap(p, q) PROVE Inv'
<1> USE ProcConstants DEF Inv, wait_reap, Enter
<1>1. TypeOK'
  BY DEF TypeOK, States, ProcInv, Alive
<1>2. ProcInv'
  BY DEF TypeOK, ProcInv, Alive, NoOrphan
<1>3. NoOrphan'
  BY DEF TypeOK, ProcInv, NoOrphan, Alive
<1>4. NoLostWakeup'
  BY DEF TypeOK, ProcInv, NoOrphan, NoLostWakeup, Alive, Children
<1>5. PidUnique'
  BY DEF TypeOK, ProcInv, PidUnique
<1> QED
  BY <1>1, <1>2, <1>3, <1>4, <1>5

\* wait_badaddr keeps the invariant.
LEMMA WaitBadaddrInv ==
  ASSUME Inv, NEW p \in Proc, NEW q \in Proc, wait_badaddr(p, q) PROVE Inv'
<1> USE ProcConstants DEF Inv, wait_badaddr, Enter
<1>1. TypeOK'
  BY DEF TypeOK, States, ProcInv, Alive
<1>2. ProcInv'
  BY DEF TypeOK, ProcInv, Alive, NoOrphan
<1>3. NoOrphan'
  BY DEF TypeOK, ProcInv, NoOrphan, Alive
<1>4. NoLostWakeup'
  BY DEF TypeOK, ProcInv, NoOrphan, NoLostWakeup, Alive, Children
<1>5. PidUnique'
  BY DEF TypeOK, ProcInv, PidUnique
<1> QED
  BY <1>1, <1>2, <1>3, <1>4, <1>5

\* wait_block keeps the invariant.
LEMMA WaitBlockInv ==
  ASSUME Inv, NEW p \in Proc, wait_block(p) PROVE Inv'
<1> USE ProcConstants DEF Inv, wait_block, Enter, Children
<1>1. TypeOK'
  BY DEF TypeOK, States, ProcInv, Alive
<1>2. ProcInv'
  BY DEF TypeOK, ProcInv, Alive, NoOrphan
<1>3. NoOrphan'
  BY DEF TypeOK, ProcInv, NoOrphan, Alive
<1>4. NoLostWakeup'
  BY DEF TypeOK, ProcInv, NoOrphan, NoLostWakeup, Alive, Children
<1>5. PidUnique'
  BY DEF TypeOK, ProcInv, PidUnique
<1> QED
  BY <1>1, <1>2, <1>3, <1>4, <1>5

\* kill keeps the invariant.
LEMMA KillInv ==
  ASSUME Inv, NEW p \in Proc, NEW k \in Targets, kill(p, k) PROVE Inv'
<1> USE ProcConstants DEF Inv, kill, Enter, KillState
<1>1. TypeOK'
  BY DEF TypeOK, States, ProcInv, Alive
<1>2. ProcInv'
  BY DEF TypeOK, ProcInv, Alive, NoOrphan
<1>3. NoOrphan'
  BY DEF TypeOK, ProcInv, NoOrphan, Alive
<1>4. NoLostWakeup'
  BY DEF TypeOK, ProcInv, NoOrphan, NoLostWakeup, Alive, Children
<1>5. PidUnique'
  BY DEF TypeOK, ProcInv, PidUnique
<1> QED
  BY <1>1, <1>2, <1>3, <1>4, <1>5

\* sys_sleep keeps the invariant.
LEMMA SysSleepInv ==
  ASSUME Inv, NEW p \in Proc, sys_sleep(p) PROVE Inv'
<1> USE ProcConstants DEF Inv, sys_sleep, Enter
<1>1. TypeOK'
  BY DEF TypeOK, States, ProcInv, Alive
<1>2. ProcInv'
  BY DEF TypeOK, ProcInv, Alive, NoOrphan
<1>3. NoOrphan'
  BY DEF TypeOK, ProcInv, NoOrphan, Alive
<1>4. NoLostWakeup'
  BY DEF TypeOK, ProcInv, NoOrphan, NoLostWakeup, Alive, Children
<1>5. PidUnique'
  BY DEF TypeOK, ProcInv, PidUnique
<1> QED
  BY <1>1, <1>2, <1>3, <1>4, <1>5

\* sleep_done keeps the invariant.
LEMMA SleepDoneInv ==
  ASSUME Inv, NEW p \in Proc, sleep_done(p) PROVE Inv'
<1> USE ProcConstants DEF Inv, sleep_done
<1>1. TypeOK'
  BY DEF TypeOK, States, ProcInv, Alive
<1>2. ProcInv'
  BY DEF TypeOK, ProcInv, Alive, NoOrphan
<1>3. NoOrphan'
  BY DEF TypeOK, ProcInv, NoOrphan, Alive
<1>4. NoLostWakeup'
  BY DEF TypeOK, ProcInv, NoOrphan, NoLostWakeup, Alive, Children
<1>5. PidUnique'
  BY DEF TypeOK, ProcInv, PidUnique
<1> QED
  BY <1>1, <1>2, <1>3, <1>4, <1>5

\* scheduler keeps the invariant.
LEMMA SchedulerInv ==
  ASSUME Inv, NEW p \in Proc, scheduler(p) PROVE Inv'
<1> USE ProcConstants DEF Inv, scheduler
<1>1. TypeOK'
  BY DEF TypeOK, States, ProcInv, Alive
<1>2. ProcInv'
  BY DEF TypeOK, ProcInv, Alive, NoOrphan
<1>3. NoOrphan'
  BY DEF TypeOK, ProcInv, NoOrphan, Alive
<1>4. NoLostWakeup'
  BY DEF TypeOK, ProcInv, NoOrphan, NoLostWakeup, Alive, Children
<1>5. PidUnique'
  BY DEF TypeOK, ProcInv, PidUnique
<1> QED
  BY <1>1, <1>2, <1>3, <1>4, <1>5

\* yield keeps the invariant.
LEMMA YieldInv ==
  ASSUME Inv, NEW p \in Proc, yield(p) PROVE Inv'
<1> USE ProcConstants DEF Inv, yield
<1>1. TypeOK'
  BY DEF TypeOK, States, ProcInv, Alive
<1>2. ProcInv'
  BY DEF TypeOK, ProcInv, Alive, NoOrphan
<1>3. NoOrphan'
  BY DEF TypeOK, ProcInv, NoOrphan, Alive
<1>4. NoLostWakeup'
  BY DEF TypeOK, ProcInv, NoOrphan, NoLostWakeup, Alive, Children
<1>5. PidUnique'
  BY DEF TypeOK, ProcInv, PidUnique
<1> QED
  BY <1>1, <1>2, <1>3, <1>4, <1>5

\* A clock tick keeps the invariant.
LEMMA ClockintrInv == ASSUME Inv, clockintr PROVE Inv'
<1> USE ProcConstants DEF Inv, clockintr, wakeup
<1>1. TypeOK'
  BY DEF TypeOK, States, ProcInv, Alive
<1>2. ProcInv'
  BY DEF TypeOK, ProcInv, Alive
<1>3. NoOrphan'
  BY DEF TypeOK, ProcInv, NoOrphan, Alive
<1>4. NoLostWakeup'
  BY DEF TypeOK, NoLostWakeup, Children
<1>5. PidUnique'
  BY DEF PidUnique
<1> QED
  BY <1>1, <1>2, <1>3, <1>4, <1>5

\* A step that changes nothing keeps it.
LEMMA StutterInv == Inv /\ UNCHANGED vars => Inv'
BY DEF Inv, vars, TypeOK, NoOrphan, NoLostWakeup, PidUnique, ProcInv, Alive, Children

\* Every step of the kernel keeps it.
LEMMA NextInv == Inv /\ [Next]_vars => Inv'
BY ForkAllocInv, ForkFailInv, ForkParentInv, ForkRunnableInv, ExitStartInv, ExitZombieInv,
   WaitReapInv, WaitBadaddrInv, WaitBlockInv, KillInv, SysSleepInv, SleepDoneInv,
   SchedulerInv, YieldInv, ClockintrInv, StutterInv
   DEF Next, InKernel, Wait

\* For a table of any size, any number of pids and any targets of kill(): the
\* facts that tie fork(), exit() and wait() together hold in every reachable
\* state.
THEOREM ProcInvariant == Spec => []Inv
BY InitInv, NextInv, PTL DEF Spec

\* reparent() under wait_lock never leaves a live or zombie process without a
\* live parent.
THEOREM NoOrphanAlways == Spec => []NoOrphan
<1>1. Inv => NoOrphan
  BY DEF Inv
<1> QED
  BY <1>1, ProcInvariant, PTL

\* wait() and exit() never lose a wakeup: no process sleeps in wait() while one
\* of its children is a zombie.
THEOREM NoLostWakeupAlways == Spec => []NoLostWakeup
<1>1. Inv => NoLostWakeup
  BY DEF Inv
<1> QED
  BY <1>1, ProcInvariant, PTL

\* allocpid() never gives two processes the same pid.
THEOREM PidUniqueAlways == Spec => []PidUnique
<1>1. Inv => PidUnique
  BY DEF Inv
<1> QED
  BY <1>1, ProcInvariant, PTL
==============================================================================
