------------------------------ MODULE ProcTable ------------------------------
(***************************************************************************)
(* The process table of kernel/proc.c on its one CPU (NCPU = 1): fork,     *)
(* exit, wait, kill, sleep and wakeup, and the scheduler.  One action is   *)
(* one critical section (a p->lock, or wait_lock with the p->locks taken   *)
(* under it); the timer may preempt a process between any two of them.     *)
(* User programs make system calls in any order.                           *)
(***************************************************************************)
EXTENDS Naturals

CONSTANTS
  Proc,      \* slots of proc[NPROC]
  initproc,  \* the first process; its program only forks and waits
  None,      \* a null pointer
  MaxPid,    \* bound: pids handed out
  Targets    \* arguments given to kill()

ASSUME ProcConstants ==
  /\ initproc \in Proc /\ None \notin Proc /\ "ticks" \notin Proc /\ None # "ticks"
  /\ MaxPid \in Nat \ {0} /\ Targets \subseteq Nat

VARIABLES
  state,    \* p->state
  pid,      \* p->pid
  parent,   \* p->parent
  killed,   \* p->killed
  chan,     \* p->chan
  pc,       \* where the process is in the kernel
  np,       \* the local np of fork()
  cpu,      \* c->proc
  nextpid

vars == <<state, pid, parent, killed, chan, pc, np, cpu, nextpid>>

States == {"UNUSED", "USED", "SLEEPING", "RUNNABLE", "RUNNING", "ZOMBIE"}

\* The state after userinit().
Init ==
  /\ state = [p \in Proc |-> IF p = initproc THEN "RUNNABLE" ELSE "UNUSED"]
  /\ pid = [p \in Proc |-> IF p = initproc THEN 1 ELSE 0]
  /\ parent = [p \in Proc |-> None]
  /\ killed = [p \in Proc |-> FALSE]
  /\ chan = [p \in Proc |-> None]
  /\ pc = [p \in Proc |-> "user"]
  /\ np = [p \in Proc |-> None]
  /\ cpu = None
  /\ nextpid = 2

Children(p) == {q \in Proc : parent[q] = p}

\* wakeup(c) for every c in C, applied to a state array s.
wakeup(s, C) ==
  [q \in Proc |-> IF s[q] = "SLEEPING" /\ chan[q] \in C THEN "RUNNABLE" ELSE s[q]]

\* usertrap() starts a system call only in a process that is not killed.
Enter(p) == cpu = p /\ pc[p] = "user" /\ ~killed[p]

\* allocpid(), reparent(), the channels exit() wakes, what kill() makes of its
\* target's state, and who may exit.
allocpid == nextpid + 1

reparent_Skip(p) == parent
reparent(p) == [q \in Proc |-> IF parent[q] = p THEN initproc ELSE parent[q]]

ExitWakes_None(p) == {}
ExitWakes(p) == {parent[p]} \cup (IF Children(p) # {} THEN {initproc} ELSE {})

KillState_NoWake(q) == state[q]
KillState(q) == IF state[q] = "SLEEPING" THEN "RUNNABLE" ELSE state[q]

MayExit_Any(p) == TRUE
MayExit(p) == p # initproc

-----------------------------------------------------------------------------
(* fork() *)

\* allocproc(), and the copy of the parent made under np->lock.  killed is
\* left as it was found.
fork_alloc(p) ==
  /\ Enter(p)
  /\ nextpid <= MaxPid
  /\ \E q \in Proc :
       /\ state[q] = "UNUSED"
       /\ state' = [state EXCEPT ![q] = "USED"]
       /\ pid' = [pid EXCEPT ![q] = nextpid]
       /\ np' = [np EXCEPT ![p] = q]
  /\ nextpid' = allocpid
  /\ pc' = [pc EXCEPT ![p] = "fork_parent"]
  /\ UNCHANGED <<parent, killed, chan, cpu>>

\* Memory runs out in allocproc() or uvmcopy(): freeproc(np), return -1.
fork_fail(p) ==
  /\ Enter(p)
  /\ nextpid <= MaxPid
  /\ \E q \in Proc :
       /\ state[q] = "UNUSED"
       /\ killed' = [killed EXCEPT ![q] = FALSE]
  /\ nextpid' = allocpid
  /\ UNCHANGED <<state, pid, parent, chan, pc, np, cpu>>

fork_parent(p) ==
  /\ cpu = p /\ pc[p] = "fork_parent"
  /\ parent' = [parent EXCEPT ![np[p]] = p]
  /\ pc' = [pc EXCEPT ![p] = "fork_runnable"]
  /\ UNCHANGED <<state, pid, killed, chan, np, cpu, nextpid>>

fork_runnable(p) ==
  /\ cpu = p /\ pc[p] = "fork_runnable"
  /\ state' = [state EXCEPT ![np[p]] = "RUNNABLE"]
  /\ np' = [np EXCEPT ![p] = None]
  /\ pc' = [pc EXCEPT ![p] = "user"]
  /\ UNCHANGED <<pid, parent, killed, chan, cpu, nextpid>>

-----------------------------------------------------------------------------
(* exit() and wait() *)

\* exit() called by the program, or by usertrap() because the process is
\* killed; files, mappings and cwd are dropped on the way.
exit_start(p) ==
  /\ cpu = p /\ pc[p] = "user" /\ MayExit(p)
  /\ pc' = [pc EXCEPT ![p] = "exit"]
  /\ UNCHANGED <<state, pid, parent, killed, chan, np, cpu, nextpid>>

\* The part under wait_lock: reparent(), the wakeups, ZOMBIE, sched().
exit_zombie(p) ==
  /\ cpu = p /\ pc[p] = "exit"
  /\ parent' = reparent(p)
  /\ state' = [wakeup(state, ExitWakes(p)) EXCEPT ![p] = "ZOMBIE"]
  /\ cpu' = None
  /\ pc' = [pc EXCEPT ![p] = "user"]
  /\ UNCHANGED <<pid, killed, chan, np, nextpid>>

\* The loop of wait() finds a zombie child q and frees it; copyout() of the
\* status fails in the second form and the child stays.
wait_reap(p, q) ==
  /\ cpu = p /\ (Enter(p) \/ pc[p] = "wait")
  /\ parent[q] = p /\ state[q] = "ZOMBIE"
  /\ state' = [state EXCEPT ![q] = "UNUSED"]
  /\ pid' = [pid EXCEPT ![q] = 0]
  /\ parent' = [parent EXCEPT ![q] = None]
  /\ killed' = [killed EXCEPT ![q] = FALSE]
  /\ chan' = [chan EXCEPT ![q] = None]
  /\ pc' = [pc EXCEPT ![p] = "user"]
  /\ UNCHANGED <<np, cpu, nextpid>>

wait_badaddr(p, q) ==
  /\ p # initproc
  /\ cpu = p /\ (Enter(p) \/ pc[p] = "wait")
  /\ parent[q] = p /\ state[q] = "ZOMBIE"
  /\ pc' = [pc EXCEPT ![p] = "user"]
  /\ UNCHANGED <<state, pid, parent, killed, chan, np, cpu, nextpid>>

\* No zombie: return -1, or sleep(p, &wait_lock).
wait_block(p) ==
  /\ cpu = p /\ (Enter(p) \/ pc[p] = "wait")
  /\ p = initproc => Children(p) # {}
  /\ \A q \in Children(p) : state[q] # "ZOMBIE"
  /\ IF Children(p) = {} \/ killed[p]
     THEN /\ pc' = [pc EXCEPT ![p] = "user"]
          /\ UNCHANGED <<state, chan, cpu>>
     ELSE /\ pc' = [pc EXCEPT ![p] = "wait"]
          /\ chan' = [chan EXCEPT ![p] = p]
          /\ state' = [state EXCEPT ![p] = "SLEEPING"]
          /\ cpu' = None
  /\ UNCHANGED <<pid, parent, killed, np, nextpid>>

-----------------------------------------------------------------------------
(* kill(), sys_sleep(), the clock and the scheduler *)

\* The scan stops at the first slot with the given pid.
kill(p, k) ==
  /\ Enter(p)
  /\ \E q \in Proc :
       /\ pid[q] = k
       /\ killed' = [killed EXCEPT ![q] = TRUE]
       /\ state' = [state EXCEPT ![q] = KillState(q)]
  /\ UNCHANGED <<pid, parent, chan, pc, np, cpu, nextpid>>

\* One turn of the loop of sys_sleep(), and its end: enough ticks, or killed.
sys_sleep(p) ==
  /\ cpu = p /\ p # initproc
  /\ Enter(p) \/ (pc[p] = "sleep" /\ ~killed[p])
  /\ pc' = [pc EXCEPT ![p] = "sleep"]
  /\ chan' = [chan EXCEPT ![p] = "ticks"]
  /\ state' = [state EXCEPT ![p] = "SLEEPING"]
  /\ cpu' = None
  /\ UNCHANGED <<pid, parent, killed, np, nextpid>>

sleep_done(p) ==
  /\ cpu = p /\ pc[p] = "sleep"
  /\ pc' = [pc EXCEPT ![p] = "user"]
  /\ UNCHANGED <<state, pid, parent, killed, chan, np, cpu, nextpid>>

clockintr ==
  /\ state' = wakeup(state, {"ticks"})
  /\ UNCHANGED <<pid, parent, killed, chan, pc, np, cpu, nextpid>>

\* swtch() to p; a process that slept clears p->chan before it goes on.
scheduler(p) ==
  /\ cpu = None /\ state[p] = "RUNNABLE"
  /\ state' = [state EXCEPT ![p] = "RUNNING"]
  /\ cpu' = p
  /\ chan' = [chan EXCEPT ![p] = None]
  /\ UNCHANGED <<pid, parent, killed, pc, np, nextpid>>

yield(p) ==
  /\ cpu = p
  /\ state' = [state EXCEPT ![p] = "RUNNABLE"]
  /\ cpu' = None
  /\ UNCHANGED <<pid, parent, killed, chan, pc, np, nextpid>>

InKernel(p) == fork_parent(p) \/ fork_runnable(p) \/ exit_zombie(p)

Wait(p) == wait_block(p) \/ \E q \in Proc : wait_reap(p, q)

Next ==
  \/ \E p \in Proc :
       \/ fork_alloc(p) \/ fork_fail(p) \/ InKernel(p)
       \/ exit_start(p) \/ Wait(p)
       \/ \E q \in Proc : wait_badaddr(p, q)
       \/ \E k \in Targets : kill(p, k)
       \/ sys_sleep(p) \/ sleep_done(p)
       \/ scheduler(p) \/ yield(p)
  \/ clockintr

Spec == Init /\ [][Next]_vars

\* What a process gets done once it runs: it leaves the kernel, a killed one
\* exits in usertrap(), and the program of init calls wait() again and again.
Progress(p) ==
  \/ InKernel(p) \/ sleep_done(p)
  \/ killed[p] /\ exit_start(p)
  \/ (pc[p] = "wait" \/ p = initproc) /\ Wait(p)

\* scheduler() goes round the table and reaches every runnable process again
\* and again, a process gets through its critical sections between timer
\* interrupts, and the clock ticks.
Fairness ==
  /\ WF_vars(clockintr)
  /\ WF_vars(\E p \in Proc : yield(p))
  /\ \A p \in Proc : SF_vars(scheduler(p)) /\ SF_vars(Progress(p))

FairSpec == Spec /\ Fairness

-----------------------------------------------------------------------------
TypeOK ==
  /\ state \in [Proc -> States]
  /\ pid \in [Proc -> 0..MaxPid]
  /\ parent \in [Proc -> Proc \cup {None}]
  /\ killed \in [Proc -> BOOLEAN]
  /\ chan \in [Proc -> Proc \cup {None, "ticks"}]
  /\ pc \in [Proc -> {"user", "fork_parent", "fork_runnable", "exit", "wait", "sleep"}]
  /\ np \in [Proc -> Proc \cup {None}]
  /\ cpu \in Proc \cup {None}
  /\ nextpid \in 2..(MaxPid + 1)
  /\ \A p \in Proc : state[p] = "RUNNING" <=> cpu = p

Alive(p) == state[p] \in {"SLEEPING", "RUNNABLE", "RUNNING"}

\* Whatever the order of forks, exits and waits: a live or zombie process other
\* than init has a live parent, so somebody can always reap it, and an unused
\* slot is nobody's child.
NoOrphan ==
  \A p \in Proc \ {initproc} :
    /\ Alive(p) \/ state[p] = "ZOMBIE" => parent[p] \in Proc /\ Alive(parent[p])
    /\ state[p] = "UNUSED" => parent[p] = None

\* No wakeup is lost between exit(), reparent(), wait() and sleep(): a process
\* asleep in wait() has a child, and none of its children is a zombie.
NoLostWakeup ==
  \A p \in Proc : state[p] = "SLEEPING" /\ chan[p] = p =>
    /\ Children(p) # {}
    /\ \A q \in Children(p) : state[q] # "ZOMBIE"

\* A pid names at most one process, however slots are reused.
PidUnique ==
  \A p, q \in Proc : pid[p] = pid[q] /\ pid[p] # 0 => p = q

\* What ties fork(), exit() and wait() together: a child under construction is
\* known to exactly its forking parent, a process outside the kernel's loops is
\* not asleep, a dead slot has no children, and init never dies.
ProcInv ==
  /\ Alive(initproc) /\ pc[initproc] # "exit" /\ parent[initproc] = None
  /\ \A q \in Proc : parent[q] # None => Alive(parent[q])
  /\ \A p \in Proc :
       /\ pc[p] # "user" => Alive(p)
       /\ state[p] = "SLEEPING" => /\ pc[p] \in {"wait", "sleep"}
                                  /\ chan[p] = IF pc[p] = "wait" THEN p ELSE "ticks"
       /\ IF pc[p] \in {"fork_parent", "fork_runnable"}
          THEN /\ np[p] \in Proc /\ state[np[p]] = "USED"
               /\ parent[np[p]] = IF pc[p] = "fork_parent" THEN None ELSE p
          ELSE np[p] = None
       /\ pid[p] < nextpid
       /\ \A q \in Proc : np[p] = np[q] /\ np[p] # None => p = q

\* All of them together are kept by every step of fork(), exit(), wait(),
\* kill(), sleep() and the scheduler; none is by itself.
Inv == TypeOK /\ NoOrphan /\ NoLostWakeup /\ PidUnique /\ ProcInv

\* A process that init has inherited is reaped once it is a zombie.
OrphansReaped ==
  \A p \in Proc : state[p] = "ZOMBIE" /\ parent[p] = initproc ~> state[p] = "UNUSED"

\* A killed process exits, even when it was asleep in wait() or sys_sleep().
KilledExits ==
  \A p \in Proc \ {initproc} : Alive(p) /\ killed[p] ~> state[p] = "ZOMBIE"
==============================================================================
