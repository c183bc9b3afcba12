--------------------------------- MODULE File ---------------------------------
(***************************************************************************)
(* The file table of kernel/file.c, the descriptor tables of the processes *)
(* and the references that mmap() takes (kernel/sysfile.c, kernel/vm.c,    *)
(* fork() and exit() of kernel/proc.c).  What a file is open on (an inode, *)
(* one end of a pipe, a socket) is an object with a count of its own.      *)
(***************************************************************************)
EXTENDS Naturals, FiniteSets

CONSTANTS
  Proc,
  first,    \* the process that is there at the start
  File,     \* ftable.file[NFILE]
  Fd,       \* 0 .. NOFILE - 1
  Object,
  None,
  MaxVma,   \* bound: mapped regions of a process (MMAP_PAGES)
  MaxRef,   \* bound: references to a file, with those that exit() leaks
  Preempt   \* may the timer strike inside "vm->file->ref++"?

ASSUME FileConstants ==
  /\ first \in Proc /\ None \notin File \cup Object
  /\ IsFiniteSet(Proc) /\ IsFiniteSet(File) /\ IsFiniteSet(Fd)
  /\ MaxVma \in Nat /\ MaxRef \in Nat /\ Preempt \in BOOLEAN

VARIABLES
  ref, obj,   \* f->ref, and what f is open on (None: FD_NONE)
  ofile,      \* p->ofile
  vma,        \* vma[p][i]: the file of p's i-th region
  objref,     \* references to an object
  pc,         \* "dead", "user", "put", "exit", "exitput", "mmap"
  ff,         \* the object fileclose() is about to put
  load,       \* the count sys_mmap() has loaded
  leaked,     \* history: references of regions whose process has exited
  lost        \* history: objects whose last file went in munmap()

history == <<leaked, lost>>
vars == <<ref, obj, ofile, vma, objref, pc, ff, load, history>>

Vma == 1..MaxVma

Init ==
  /\ ref = [f \in File |-> 0] /\ obj = [f \in File |-> None]
  /\ ofile = [p \in Proc |-> [d \in Fd |-> None]]
  /\ vma = [p \in Proc |-> [v \in Vma |-> None]]
  /\ objref = [o \in Object |-> 0]
  /\ pc = [p \in Proc |-> IF p = first THEN "user" ELSE "dead"]
  /\ ff = [p \in Proc |-> None]
  /\ load = [p \in Proc |-> 0]
  /\ leaked = [f \in File |-> 0] /\ lost = [o \in Object |-> 0]

Turn(p) == Preempt \/ \A q \in Proc : pc[q] # "mmap"
Run(p) == pc[p] = "user" /\ Turn(p)

\* Descriptors and regions of a process, or of all, that refer to f.
Fds(p, f) == {d \in Fd : ofile[p][d] = f}
Vmas(p, f) == {v \in Vma : vma[p][v] = f}
Held(p, f) == Cardinality(Fds(p, f)) + Cardinality(Vmas(p, f))
Users(f) == Cardinality({x \in Proc \X Fd : ofile[x[1]][x[2]] = f})
          + Cardinality({x \in Proc \X Vma : vma[x[1]][x[2]] = f})

-----------------------------------------------------------------------------
(* descriptors *)

\* sys_open(): filealloc() and fdalloc().  Without a slot in either table what
\* was taken is given back and nothing changes.
sys_open(p) ==
  /\ Run(p)
  /\ \E f \in File, d \in Fd, o \in Object :
       /\ ref[f] = 0 /\ ofile[p][d] = None
       /\ objref[o] < MaxRef
       /\ ref' = [ref EXCEPT ![f] = 1]
       /\ obj' = [obj EXCEPT ![f] = o]
       /\ objref' = [objref EXCEPT ![o] = @ + 1]
       /\ ofile' = [ofile EXCEPT ![p][d] = f]
  /\ UNCHANGED <<vma, pc, ff, load, history>>

filedup(f) == [ref EXCEPT ![f] = @ + 1]

sys_dup(p) ==
  /\ Run(p)
  /\ \E d, e \in Fd :
       /\ ofile[p][d] # None /\ ofile[p][e] = None
       /\ ofile' = [ofile EXCEPT ![p][e] = ofile[p][d]]
       /\ ref' = filedup(ofile[p][d])
  /\ UNCHANGED <<obj, vma, objref, pc, ff, load, history>>

\* fileclose(): the last reference empties the slot under ftable.lock and puts
\* the object afterwards, when the slot may already be somebody else's.
Last_Never(f) == FALSE
Last(f) == ref[f] = 1

fileclose(p, d, then) ==
  LET f == ofile[p][d] IN
  /\ f # None
  /\ ofile' = [ofile EXCEPT ![p][d] = None]
  /\ ref' = [ref EXCEPT ![f] = @ - 1]
  /\ IF Last(f)
     THEN /\ ff' = [ff EXCEPT ![p] = obj[f]]
          /\ obj' = [obj EXCEPT ![f] = None]
          /\ pc' = [pc EXCEPT ![p] = then]
     ELSE UNCHANGED <<ff, obj, pc>>
  /\ UNCHANGED <<vma, objref, load, history>>

sys_close(p) == Run(p) /\ \E d \in Fd : fileclose(p, d, "put")

\* pipeclose(), iput() or socket_close() of what the file was open on.
put(p) ==
  /\ pc[p] \in {"put", "exitput"} /\ Turn(p)
  /\ objref' = [objref EXCEPT ![ff[p]] = @ - 1]
  /\ ff' = [ff EXCEPT ![p] = None]
  /\ pc' = [pc EXCEPT ![p] = IF @ = "put" THEN "user" ELSE "exit"]
  /\ UNCHANGED <<ref, obj, ofile, vma, load, history>>

-----------------------------------------------------------------------------
(* processes *)

ForkRefs(p) == [f \in File |-> ref[f] + Held(p, f)]

fork(p, q) ==
  /\ Run(p) /\ pc[q] = "dead"
  /\ \A f \in File : ref[f] + Held(p, f) <= MaxRef
  /\ pc' = [pc EXCEPT ![q] = "user"]
  /\ ofile' = [ofile EXCEPT ![q] = ofile[p]]
  /\ vma' = [vma EXCEPT ![q] = vma[p]]
  /\ ref' = ForkRefs(p)
  /\ UNCHANGED <<obj, objref, ff, load, history>>

exit_start(p) ==
  /\ Run(p) /\ p # first
  /\ pc' = [pc EXCEPT ![p] = "exit"]
  /\ UNCHANGED <<ref, obj, ofile, vma, objref, ff, load, history>>

exit_close(p) == pc[p] = "exit" /\ Turn(p) /\ \E d \in Fd : fileclose(p, d, "exitput")

\* "free all VMA areas": the regions are marked free, their files are kept.
exit_end(p) ==
  /\ pc[p] = "exit" /\ Turn(p) /\ \A d \in Fd : ofile[p][d] = None
  /\ vma' = [vma EXCEPT ![p] = [v \in Vma |-> None]]
  /\ leaked' = [f \in File |-> leaked[f] + Cardinality(Vmas(p, f))]
  /\ pc' = [pc EXCEPT ![p] = "dead"]
  /\ UNCHANGED <<ref, obj, ofile, objref, ff, load, lost>>

-----------------------------------------------------------------------------
(* mmap() and munmap() *)

\* vm->file = p->ofile[fd]; vm->file->ref++ without ftable.lock: a load and a
\* store.
MmapRef(f, n) == [ref EXCEPT ![f] = n + 1]

sys_mmap(p) ==
  /\ Run(p)
  /\ \E d \in Fd, v \in Vma :
       /\ ofile[p][d] # None /\ vma[p][v] = None
       /\ ref[ofile[p][d]] < MaxRef
       /\ vma' = [vma EXCEPT ![p][v] = ofile[p][d]]
       /\ load' = [load EXCEPT ![p] = ref[ofile[p][d]]]
       /\ ff' = [ff EXCEPT ![p] = ofile[p][d]]
  /\ pc' = [pc EXCEPT ![p] = "mmap"]
  /\ UNCHANGED <<ref, obj, ofile, objref, history>>

sys_mmap_store(p) ==
  /\ pc[p] = "mmap"
  /\ ref' = MmapRef(ff[p], load[p])
  /\ load' = [load EXCEPT ![p] = 0]
  /\ ff' = [ff EXCEPT ![p] = None]
  /\ pc' = [pc EXCEPT ![p] = "user"]
  /\ UNCHANGED <<obj, ofile, vma, objref, history>>

\* munmap() of a whole region: vm->file->ref--, and nothing else.
sys_munmap(p) ==
  /\ Run(p)
  /\ \E v \in Vma :
       /\ vma[p][v] # None
       /\ ref' = [ref EXCEPT ![vma[p][v]] = @ - 1]
       /\ vma' = [vma EXCEPT ![p][v] = None]
       /\ lost' = IF Last(vma[p][v]) THEN [lost EXCEPT ![obj[vma[p][v]]] = @ + 1] ELSE lost
  /\ UNCHANGED <<obj, ofile, objref, pc, ff, load, leaked>>

Next ==
  \E p \in Proc :
    \/ sys_open(p) \/ sys_dup(p) \/ sys_close(p) \/ put(p)
    \/ \E q \in Proc : fork(p, q)
    \/ exit_start(p) \/ exit_close(p) \/ exit_end(p)
    \/ sys_mmap(p) \/ sys_mmap_store(p) \/ sys_munmap(p)

Spec == Init /\ [][Next]_vars

-----------------------------------------------------------------------------
TypeOK ==
  /\ ref \in [File -> Nat]
  /\ obj \in [File -> Object \cup {None}]
  /\ ofile \in [Proc -> [Fd -> File \cup {None}]]
  /\ vma \in [Proc -> [Vma -> File \cup {None}]]
  /\ objref \in [Object -> Nat]
  /\ pc \in [Proc -> {"dead", "user", "put", "exit", "exitput", "mmap"}]
  /\ ff \in [Proc -> Object \cup File \cup {None}]
  /\ load \in [Proc -> Nat]
  /\ leaked \in [File -> Nat] /\ lost \in [Object -> Nat]

\* Every descriptor and every mapped region refers to an open file whose object
\* has not been put, however descriptors are shared, closed and reused.
InUseOpen ==
  \A f \in File : (\A p \in Proc : pc[p] # "mmap") /\ Users(f) > 0 =>
    ref[f] > 0 /\ obj[f] # None /\ objref[obj[f]] > 0

\* f->ref is exactly the number of descriptors and regions, so the slot is
\* freed when the last of them goes and not before; only the regions a process
\* has when it exits are counted for ever.
RefExact ==
  (\A p \in Proc : pc[p] # "mmap") =>
    \A f \in File : ref[f] = Users(f) + leaked[f]


\* "Decrement ref count, close when reaches 0": an object is referred to once
\* for every file open on it and every fileclose() about to put it; only a
\* last reference dropped by munmap() is never put.
ClosedAtZero ==
  \A o \in Object :
    objref[o] = Cardinality({f \in File : ref[f] > 0 /\ obj[f] = o})
              + Cardinality({p \in Proc : pc[p] \in {"put", "exitput"} /\ ff[p] = o})
              + lost[o]
================================================================================
