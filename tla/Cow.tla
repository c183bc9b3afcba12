--------------------------------- MODULE Cow ---------------------------------
(***************************************************************************)
(* Physical pages and copy-on-write (LAB_COW): kalloc() and kfree() with   *)
(* the reference counts pgcount_arr of kernel/kalloc.c, the page tables    *)
(* that uvmcopy(), uvmalloc(), uvmdealloc() and copyout() of kernel/vm.c   *)
(* change, and the page fault handler of kernel/trap.c.  A page fault and  *)
(* what fork() and wait() do run with interrupts off; a system call may be *)
(* preempted inside kfree().  Page-table pages are not counted.            *)
(***************************************************************************)
EXTENDS Integers, Sequences, FiniteSets

CONSTANTS
  Proc,
  first,       \* the first user process
  Page,        \* physical pages
  NoPte,       \* an entry without PTE_V; also no page
  Data,        \* contents of a page
  Zero, Junk,  \* what memset() leaves in a new page and in a free one
  MaxVA,       \* bound: pages of a process
  Preempt      \* may the timer strike inside kfree()?

ASSUME CowConstants ==
  /\ first \in Proc /\ NoPte \notin Page \cup [pa : Page, w : BOOLEAN, cow : BOOLEAN]
  /\ {Zero, Junk} \subseteq Data
  /\ MaxVA \in Nat \ {0}
  /\ Preempt \in BOOLEAN

VARIABLES
  pt,       \* page table of a process: its pages 0 .. sz/PGSIZE - 1
  pgcount,  \* pgcount_arr
  free,     \* how often a page is on kmem.freelist (its order is left out)
  mem,      \* physical memory
  pc,       \* "user", the call a process is freeing a page in, or its panic
  pa        \* the page that call is freeing

vars == <<pt, pgcount, free, mem, pc, pa>>

\* After kinit() and userinit(); freerange() leaves the counts at -1.
Init ==
  \E pg \in Page :
    /\ pt = [p \in Proc |-> IF p = first THEN <<[pa |-> pg, w |-> TRUE, cow |-> FALSE]>> ELSE <<>>]
    /\ pgcount = [x \in Page |-> IF x = pg THEN 1 ELSE -1]
    /\ free = [x \in Page |-> IF x = pg THEN 0 ELSE 1]
    /\ mem = [x \in Page |-> IF x = pg THEN Zero ELSE Junk]
    /\ pc = [p \in Proc |-> "user"]
    /\ pa = [p \in Proc |-> NoPte]

Live(p) == pt[p] # <<>>
InKfree(p) == pc[p] \in {"shrink", "copyout"}
Run(p) == Live(p) /\ pc[p] = "user" /\ (Preempt \/ \A q \in Proc : ~InKfree(q))
Hole(p) == \E a \in DOMAIN pt[p] : pt[p][a] = NoPte
Pages(p) == {pt[p][a].pa : a \in {x \in DOMAIN pt[p] : pt[p][x] # NoPte}}
FreePages == {x \in Page : free[x] > 0}

\* kfree() of every page in S, run without interruption: the counts drop, and
\* a page nobody refers to any more is filled with junk and put on the list.
Counts(S) == [x \in Page |-> IF x \in S THEN pgcount[x] - 1 ELSE pgcount[x]]
Unreferenced(S) == {x \in S : pgcount[x] - 1 <= 0}
Frees(S) == [x \in Page |-> IF x \in Unreferenced(S) THEN free[x] + 1 ELSE free[x]]
Junked(S) == [x \in Page |-> IF x \in Unreferenced(S) THEN Junk ELSE mem[x]]

-----------------------------------------------------------------------------
(* fork() and wait() *)

\* uvmcopy(): writable pages become copy-on-write in both page tables.
Shared(e) == IF e.w THEN [e EXCEPT !.w = FALSE, !.cow = TRUE] ELSE e
MarkCow(p, k) == [a \in DOMAIN pt[p] |-> IF a <= k THEN Shared(pt[p][a]) ELSE pt[p][a]]
CountUp_No(p) == pgcount
CountUp(p) == [x \in Page |-> IF x \in Pages(p) THEN pgcount[x] + 1 ELSE pgcount[x]]

fork(p, q) ==
  /\ Run(p) /\ ~Live(q)
  /\ ~Hole(p)
  /\ pt' = [pt EXCEPT ![p] = MarkCow(p, Len(pt[p])), ![q] = [a \in DOMAIN pt[p] |-> Shared(pt[p][a])]]
  /\ pgcount' = CountUp(p)
  /\ UNCHANGED <<free, mem, pc, pa>>

\* No page for the child's page table at page k: what was copied is undone.
fork_fail(p) ==
  /\ Run(p)
  /\ \E k \in DOMAIN pt[p] :
       /\ \A a \in 1..k : pt[p][a] # NoPte
       /\ pt' = [pt EXCEPT ![p] = MarkCow(p, k)]
  /\ UNCHANGED <<pgcount, free, mem, pc, pa>>

\* The process exits and its parent's wait() frees its memory.
freeproc(p) ==
  /\ Run(p) /\ p # first /\ ~Hole(p)
  /\ pt' = [pt EXCEPT ![p] = <<>>]
  /\ pgcount' = Counts(Pages(p))
  /\ free' = Frees(Pages(p))
  /\ mem' = Junked(Pages(p))
  /\ UNCHANGED <<pc, pa>>

\* uvmcopy() and uvmunmap() panic at a page that is not present.
walk_panic(p) ==
  /\ Run(p) /\ Hole(p)
  /\ pc' = [pc EXCEPT ![p] = "panic"]
  /\ UNCHANGED <<pt, pgcount, free, mem, pa>>

-----------------------------------------------------------------------------
(* stores and page faults *)

Writable(p, a) == pt[p][a] # NoPte /\ pt[p][a].w
IsCow(p, a) == pt[p][a] # NoPte /\ pt[p][a].cow

store(p) ==
  /\ Run(p)
  /\ \E a \in DOMAIN pt[p], v \in Data :
       /\ Writable(p, a)
       /\ mem' = [mem EXCEPT ![pt[p][a].pa] = v]
  /\ UNCHANGED <<pt, pgcount, free, pc, pa>>

\* handle_pagefault(): a private copy, and kfree() of the shared page.
pagefault(p) ==
  /\ Run(p)
  /\ \E a \in DOMAIN pt[p], new \in FreePages :
       LET old == pt[p][a].pa IN
       /\ IsCow(p, a)
       /\ pt' = [pt EXCEPT ![p][a] = [pa |-> new, w |-> TRUE, cow |-> FALSE]]
       /\ pgcount' = [Counts({old}) EXCEPT ![new] = 1]
       /\ free' = [Frees({old}) EXCEPT ![new] = @ - 1]
       /\ mem' = [Junked({old}) EXCEPT ![new] = mem[old]]
  /\ UNCHANGED <<pc, pa>>

\* kalloc() fails: every page below the faulting one is unmapped and freed, and
\* the process goes on.
pagefault_nomem(p) ==
  /\ Run(p) /\ FreePages = {}
  /\ \E a \in DOMAIN pt[p] :
       LET below == {pt[p][k].pa : k \in 1..(a - 1)} IN
       /\ IsCow(p, a) /\ \A k \in 1..(a - 1) : pt[p][k] # NoPte
       /\ pt' = [pt EXCEPT ![p] = [k \in DOMAIN pt[p] |-> IF k < a THEN NoPte ELSE pt[p][k]]]
       /\ pgcount' = Counts(below)
       /\ free' = Frees(below)
       /\ mem' = Junked(below)
  /\ UNCHANGED <<pc, pa>>

-----------------------------------------------------------------------------
(* system calls: kfree() is two steps, as the timer may strike after it has *)
(* dropped the count *)

\* growproc(n), n > 0; on failure uvmalloc() undoes what it did.
sbrk_grow(p) ==
  /\ Run(p) /\ Len(pt[p]) < MaxVA
  /\ \E new \in FreePages :
       /\ pt' = [pt EXCEPT ![p] = Append(@, [pa |-> new, w |-> TRUE, cow |-> FALSE])]
       /\ pgcount' = [pgcount EXCEPT ![new] = 1]
       /\ free' = [free EXCEPT ![new] = @ - 1]
       /\ mem' = [mem EXCEPT ![new] = Zero]
  /\ UNCHANGED <<pc, pa>>

sbrk_shrink(p) ==
  /\ Run(p) /\ Len(pt[p]) > 1 /\ pt[p][Len(pt[p])] # NoPte
  /\ pa' = [pa EXCEPT ![p] = pt[p][Len(pt[p])].pa]
  /\ pgcount' = Counts({pt[p][Len(pt[p])].pa})
  /\ pc' = [pc EXCEPT ![p] = "shrink"]
  /\ UNCHANGED <<pt, free, mem>>

\* copyout() to a copy-on-write page; panic when there is no memory.
copyout(p) ==
  /\ Run(p)
  /\ \E a \in DOMAIN pt[p] :
       LET old == pt[p][a].pa IN
       /\ IsCow(p, a)
       /\ IF FreePages = {}
          THEN /\ pc' = [pc EXCEPT ![p] = "nomem"]
               /\ UNCHANGED <<pt, pgcount, free, mem, pa>>
          ELSE \E new \in FreePages, v \in Data :
                 /\ pt' = [pt EXCEPT ![p][a] = [pa |-> new, w |-> TRUE, cow |-> FALSE]]
                 /\ mem' = [mem EXCEPT ![new] = v]
                 /\ pgcount' = [Counts({old}) EXCEPT ![new] = 1]
                 /\ free' = [free EXCEPT ![new] = @ - 1]
                 /\ pa' = [pa EXCEPT ![p] = old]
                 /\ pc' = [pc EXCEPT ![p] = "copyout"]

\* The rest of kfree(): the count is read again, without cowlock.
kfree_end(p) ==
  /\ InKfree(p)
  /\ IF pgcount[pa[p]] > 0
     THEN UNCHANGED <<free, mem>>
     ELSE /\ free' = [free EXCEPT ![pa[p]] = @ + 1]
          /\ mem' = [mem EXCEPT ![pa[p]] = Junk]
  /\ pt' = IF pc[p] = "shrink" THEN [pt EXCEPT ![p] = SubSeq(@, 1, Len(@) - 1)] ELSE pt
  /\ pc' = [pc EXCEPT ![p] = "user"]
  /\ pa' = [pa EXCEPT ![p] = NoPte]
  /\ UNCHANGED pgcount

Next ==
  \E p \in Proc :
    \/ \E q \in Proc : fork(p, q)
    \/ fork_fail(p) \/ walk_panic(p) \/ freeproc(p)
    \/ store(p) \/ pagefault(p) \/ pagefault_nomem(p)
    \/ sbrk_grow(p) \/ sbrk_shrink(p) \/ copyout(p) \/ kfree_end(p)

Spec == Init /\ [][Next]_vars

-----------------------------------------------------------------------------
Pte == [pa : Page, w : BOOLEAN, cow : BOOLEAN] \cup {NoPte}

TypeOK ==
  /\ \A p \in Proc : Len(pt[p]) <= MaxVA /\ \A a \in DOMAIN pt[p] : pt[p][a] \in Pte
  /\ pgcount \in [Page -> -1..Cardinality(Proc)]
  /\ free \in [Page -> 0..1]
  /\ mem \in [Page -> Data]
  /\ pc \in [Proc -> {"user", "shrink", "copyout", "panic", "nomem"}]
  /\ pa \in [Proc -> Page \cup {NoPte}]

\* The processes that have page x mapped.
Refs(x) == {p \in Proc : x \in Pages(p)}

\* kfree() gives a page back exactly when nobody has it mapped any more: a page
\* on the free list is on it once and is in no page table, and any other page is
\* mapped as often as its count says (outside the two steps of kfree()).
CountExact ==
  (\A p \in Proc : ~InKfree(p)) => \A x \in Page :
    /\ free[x] <= 1
    /\ IF free[x] = 1 THEN Refs(x) = {} ELSE Refs(x) # {} /\ pgcount[x] = Cardinality(Refs(x))

\* A page that two processes have mapped is writable in neither, so no store
\* bypasses the copy.
SharedReadOnly ==
  \A p, q \in Proc : p # q =>
    \A a \in DOMAIN pt[p], c \in DOMAIN pt[q] :
      pt[p][a] # NoPte /\ pt[q][c] # NoPte /\ pt[p][a].pa = pt[q][c].pa
        => ~pt[p][a].w /\ ~pt[q][c].w

\* Counts and permissions agree with the page tables, whatever the order of
\* fork(), faults, exits and failures of kalloc().
MemInv == TypeOK /\ CountExact /\ SharedReadOnly

\* Copy-on-write is invisible: processes see private memory, copied at fork().
View == [p \in Proc |-> [a \in DOMAIN pt[p] |-> IF pt[p][a] = NoPte THEN Junk ELSE mem[pt[p][a].pa]]]
AS == INSTANCE AddressSpace WITH view <- View

==============================================================================
