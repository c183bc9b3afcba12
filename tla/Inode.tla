-------------------------------- MODULE Inode --------------------------------
(***************************************************************************)
(* The inode cache of kernel/vfs.c with the s5 operations under it         *)
(* (kernel/s5.c): iget(), ilock(), iunlock(), iput(), ialloc() and the     *)
(* pool of private parts that fill_inode() takes from.  A name and the     *)
(* link count it stands for change together, under the locks of the        *)
(* directory and of the inode; each process has one inode at a time.       *)
(* Nothing is mounted on these inodes: the mount table is left out.        *)
(***************************************************************************)
EXTENDS Integers, FiniteSets

CONSTANTS
  Proc,
  Slot,     \* itable.inode[NINODE]
  Entry,    \* s5_inode_pool.s5_i_entry[NINODE]
  Inum,     \* inode numbers
  Name,     \* the names there can be in the directories
  DirOf,    \* the directory of a name
  None

ASSUME InodeConstants ==
  /\ None \notin Slot \cup Entry \cup Inum
  /\ IsFiniteSet(Proc) /\ IsFiniteSet(Name)
  /\ DOMAIN DirOf = Name /\ \A x \in Name : DirOf[x] # None

VARIABLES
  inum, ref, busy, valid, type, nlink, private,  \* struct inode, per slot
  used, addrs,           \* a pool entry, and whose block addresses it holds
  dtype, dnlink, names,  \* on disk: type (0 is free), link count, names
  pc, ip,                \* where a process is, and its inode
  s5ip,                  \* ip->i_private as s5_ilock() read it on entry
  dp,                    \* the directory a lookup or a create() has locked
  fresh                  \* processes in create() with an inode not linked yet

cache == <<inum, ref, busy, valid, type, nlink, private>>
disk == <<dtype, dnlink, names>>
vars == <<cache, used, addrs, disk, pc, ip, dp, fresh, s5ip>>

Init ==
  /\ inum = [s \in Slot |-> None] /\ ref = [s \in Slot |-> 0]
  /\ busy = [s \in Slot |-> FALSE] /\ valid = [s \in Slot |-> FALSE]
  /\ type = [s \in Slot |-> 0] /\ nlink = [s \in Slot |-> 0]
  /\ private = [s \in Slot |-> None]
  /\ used = [e \in Entry |-> FALSE] /\ addrs = [e \in Entry |-> None]
  /\ names \in [Inum -> SUBSET Name]
  /\ \A m, n \in Inum : m # n => names[m] \cap names[n] = {}
  /\ dnlink = [n \in Inum |-> Cardinality(names[n])]
  /\ dtype = [n \in Inum |-> IF names[n] = {} THEN 0 ELSE 1]
  /\ pc = [p \in Proc |-> "idle"]
  /\ ip = [p \in Proc |-> None]
  /\ dp = [p \in Proc |-> None]
  /\ fresh = {}
  /\ s5ip = [p \in Proc |-> None]

At(p, where) == pc[p] = where
Unlocked(d) == \A p \in Proc : dp[p] # d
Goto(p, where) == pc' = [pc EXCEPT ![p] = where]

-----------------------------------------------------------------------------
(* iget() *)

Cached(n) == {s \in Slot : ref[s] > 0 /\ inum[s] = n}
Miss_Any(n) == TRUE
Miss(n) == Cached(n) = {}

\* Found in the table, or an empty slot is taken (panic when there is none).
iget(p, n) ==
  \/ \E s \in Cached(n) :
       /\ ref' = [ref EXCEPT ![s] = @ + 1]
       /\ ip' = [ip EXCEPT ![p] = s]
       /\ Goto(p, "hold")
       /\ UNCHANGED <<inum, busy, valid, type, nlink, private>>
  \/ /\ Miss(n)
     /\ IF \A s \in Slot : ref[s] > 0
        THEN Goto(p, "panic") /\ UNCHANGED <<inum, ref, busy, valid, ip>>
        ELSE /\ \E s \in Slot :
                  /\ ref[s] = 0
                  /\ inum' = [inum EXCEPT ![s] = n]
                  /\ ref' = [ref EXCEPT ![s] = 1]
                  /\ busy' = [busy EXCEPT ![s] = FALSE]
                  /\ valid' = [valid EXCEPT ![s] = FALSE]
                  /\ ip' = [ip EXCEPT ![p] = s]
             /\ Goto(p, "fill")
     /\ UNCHANGED <<type, nlink, private>>

\* s5_fill_inode(), after itable.lock has been released.
fill_inode(p) ==
  /\ At(p, "fill")
  /\ IF \A e \in Entry : used[e]
     THEN Goto(p, "panic") /\ UNCHANGED <<used, private>>
     ELSE \E e \in Entry :
            /\ ~used[e]
            /\ used' = [used EXCEPT ![e] = TRUE]
            /\ private' = [private EXCEPT ![ip[p]] = e]
            /\ Goto(p, "hold")
  /\ dp' = IF p \in fresh THEN dp ELSE [dp EXCEPT ![p] = None]
  /\ UNCHANGED <<inum, ref, busy, valid, type, nlink, addrs, disk, ip, fresh, s5ip>>

\* dirlookup() finds a name of n in a directory the caller has locked, and
\* calls iget() before it is unlocked.
lookup(p) ==
  /\ At(p, "idle")
  /\ \E n \in Inum : \E x \in names[n] :
       /\ Unlocked(DirOf[x])
       /\ iget(p, n)
       /\ dp' = [dp EXCEPT ![p] = IF pc'[p] = "fill" THEN DirOf[x] ELSE None]
  /\ UNCHANGED <<used, addrs, disk, fresh, s5ip>>

\* create() has the directory locked; ialloc() marks a free inode allocated.

ialloc(p) ==
  /\ At(p, "idle")
  /\ \E x \in Name : Unlocked(DirOf[x]) /\ dp' = [dp EXCEPT ![p] = DirOf[x]]
  /\ \E n \in Inum :
       /\ dtype[n] = 0
       /\ dtype' = [dtype EXCEPT ![n] = 1]
       /\ dnlink' = [dnlink EXCEPT ![n] = 0]
       /\ ip' = [ip EXCEPT ![p] = n]
  /\ Goto(p, "alloc")
  /\ fresh' = fresh \cup {p}
  /\ UNCHANGED <<cache, used, addrs, names, s5ip>>

ialloc_iget(p) ==
  /\ At(p, "alloc")
  /\ iget(p, ip[p])
  /\ UNCHANGED <<used, addrs, disk, dp, fresh, s5ip>>

\* idup(): a process without an inode gets another's (fork(), an open file).
idup(p, q) ==
  /\ At(p, "hold") /\ p \notin fresh /\ pc[q] = "idle"
  /\ ref' = [ref EXCEPT ![ip[p]] = @ + 1]
  /\ ip' = [ip EXCEPT ![q] = ip[p]]
  /\ Goto(q, "hold")
  /\ UNCHANGED <<inum, busy, valid, type, nlink, private, used, addrs, disk, dp, fresh, s5ip>>

-----------------------------------------------------------------------------
(* ilock(), what is done under the lock, iunlock() *)

ilock(p) ==
  /\ At(p, "hold") \/ At(p, "woken")
  /\ s5ip' = IF pc[p] = "hold" THEN [s5ip EXCEPT ![p] = private[ip[p]]] ELSE s5ip
  /\ IF busy[ip[p]]
     THEN Goto(p, "asleep") /\ UNCHANGED busy
     ELSE busy' = [busy EXCEPT ![ip[p]] = TRUE] /\ Goto(p, "read")
  /\ UNCHANGED <<inum, ref, valid, type, nlink, private, used, addrs, disk, ip, dp, fresh>>

\* s5_ilock() reads an inode that is not valid, its addresses into s5ip, and
\* panics when its type is 0.
ilock_read(p) ==
  LET s == ip[p] IN
  /\ At(p, "read")
  /\ s5ip' = [s5ip EXCEPT ![p] = None]
  /\ IF valid[s]
     THEN UNCHANGED <<valid, type, nlink, addrs>> /\ Goto(p, "locked")
     ELSE /\ type' = [type EXCEPT ![s] = dtype[inum[s]]]
          /\ nlink' = [nlink EXCEPT ![s] = dnlink[inum[s]]]
          /\ addrs' = [x \in Entry |-> IF x = s5ip[p] THEN inum[s] ELSE addrs[x]]
          /\ valid' = [valid EXCEPT ![s] = TRUE]
          /\ Goto(p, IF dtype[inum[s]] = 0 THEN "panic" ELSE "locked")
  /\ UNCHANGED <<inum, ref, busy, private, used, disk, ip, dp, fresh>>

Wake(s) == [q \in Proc |-> IF pc[q] = "asleep" /\ ip[q] = s THEN "woken" ELSE pc[q]]

\* ip->nlink += d and iupdate().
AddLinks(s, d) ==
  /\ nlink' = [nlink EXCEPT ![s] = @ + d]
  /\ dnlink' = [dnlink EXCEPT ![inum[s]] = nlink[s] + d]
  /\ UNCHANGED <<inum, ref, valid, type, private, used, addrs, dtype, ip, s5ip>>

FreeNames == Name \ UNION {names[n] : n \in Inum}

\* create() links the new inode into its directory, or fails and leaves it
\* without a link for iput() to free.
create_link(p) ==
  LET n == inum[ip[p]] IN
  /\ At(p, "locked") /\ p \in fresh
  /\ \/ \E x \in FreeNames :
          /\ DirOf[x] = dp[p]
          /\ names' = [names EXCEPT ![n] = {x}]
          /\ AddLinks(ip[p], 1)
     \/ AddLinks(ip[p], 0) /\ UNCHANGED names
  /\ fresh' = fresh \ {p}
  /\ dp' = [dp EXCEPT ![p] = None]
  /\ UNCHANGED <<busy, pc>>

\* sys_link() raises the count and unlocks the inode, before it adds the name
\* to the directory or, when that fails, lowers the count again.
sys_link(p) ==
  /\ At(p, "locked") /\ p \notin fresh
  /\ nlink[ip[p]] < Cardinality(Name)
  /\ AddLinks(ip[p], 1)
  /\ busy' = [busy EXCEPT ![ip[p]] = FALSE]
  /\ pc' = [Wake(ip[p]) EXCEPT ![p] = "linking"]
  /\ UNCHANGED <<names, dp, fresh>>

sys_link_name(p) ==
  /\ At(p, "linking")
  /\ \E x \in FreeNames :
       /\ Unlocked(DirOf[x])
       /\ names' = [names EXCEPT ![inum[ip[p]]] = @ \cup {x}]
  /\ Goto(p, "hold")
  /\ UNCHANGED <<cache, used, addrs, dtype, dnlink, ip, dp, fresh, s5ip>>

sys_link_bad(p) ==
  /\ At(p, "linking") /\ ~busy[ip[p]]
  /\ AddLinks(ip[p], 0 - 1)
  /\ Goto(p, "hold")
  /\ UNCHANGED <<busy, names, dp, fresh>>

sys_unlink(p) ==
  /\ At(p, "locked") /\ p \notin fresh
  /\ \E x \in names[inum[ip[p]]] :
       /\ Unlocked(DirOf[x])
       /\ names' = [names EXCEPT ![inum[ip[p]]] = @ \ {x}]
  /\ AddLinks(ip[p], 0 - 1)
  /\ UNCHANGED <<busy, pc, dp, fresh>>

iunlock(p) ==
  /\ At(p, "locked") /\ p \notin fresh
  /\ busy' = [busy EXCEPT ![ip[p]] = FALSE]
  /\ pc' = [Wake(ip[p]) EXCEPT ![p] = "hold"]
  /\ UNCHANGED <<inum, ref, valid, type, nlink, private, used, addrs, disk, ip, dp, fresh, s5ip>>

-----------------------------------------------------------------------------
(* iput() *)

\* The last reference to an inode without links frees it.
Dies_Never(s) == FALSE
Dies(s) == ref[s] = 1 /\ valid[s] /\ nlink[s] = 0

\* ip->ref--; at 0 the private part goes back to its pool.
Cleanup(s) == ref[s] = 1
Dropped(n) == n - 1
Drop(s) ==
  /\ ref' = [ref EXCEPT ![s] = Dropped(@)]
  /\ used' = [e \in Entry |-> IF Cleanup(s) /\ e = private[s] THEN FALSE ELSE used[e]]
  /\ addrs' = [e \in Entry |-> IF Cleanup(s) /\ e = private[s] THEN None ELSE addrs[e]]

iput(p) ==
  LET s == ip[p] IN
  /\ At(p, "hold") /\ p \notin fresh
  /\ IF Dies(s)
     THEN /\ busy' = [busy EXCEPT ![s] = TRUE]
          /\ Goto(p, IF busy[s] THEN "panic" ELSE "trunc")
          /\ UNCHANGED <<ref, used, addrs, ip>>
     ELSE /\ Drop(s)
          /\ Goto(p, "idle")
          /\ ip' = [ip EXCEPT ![p] = None]
          /\ UNCHANGED busy
  /\ UNCHANGED <<inum, valid, type, nlink, private, disk, dp, fresh, s5ip>>

\* itrunc(), type = 0, iupdate(): the inode is free on disk.
iput_trunc(p) ==
  LET s == ip[p] IN
  /\ At(p, "trunc")
  /\ type' = [type EXCEPT ![s] = 0]
  /\ dtype' = [dtype EXCEPT ![inum[s]] = 0]
  /\ dnlink' = [dnlink EXCEPT ![inum[s]] = nlink[s]]
  /\ Goto(p, "trunced")
  /\ UNCHANGED <<inum, ref, busy, valid, nlink, private, used, addrs, names, ip, dp, fresh, s5ip>>

\* ip->flags = 0, wakeup, and the reference goes.
Forget_KeepValid(s) == valid
Forget(s) == [valid EXCEPT ![s] = FALSE]

iput_end(p) ==
  LET s == ip[p] IN
  /\ At(p, "trunced")
  /\ busy' = [busy EXCEPT ![s] = FALSE]
  /\ valid' = Forget(s)
  /\ Drop(s)
  /\ pc' = [Wake(s) EXCEPT ![p] = "idle"]
  /\ ip' = [ip EXCEPT ![p] = None]
  /\ UNCHANGED <<inum, type, nlink, private, disk, dp, fresh, s5ip>>

Next ==
  \E p \in Proc :
    \/ lookup(p) \/ ialloc(p) \/ ialloc_iget(p) \/ fill_inode(p)
    \/ \E q \in Proc : idup(p, q)
    \/ ilock(p) \/ ilock_read(p) \/ create_link(p) \/ sys_link(p) \/ sys_link_name(p)
    \/ sys_link_bad(p) \/ sys_unlink(p) \/ iunlock(p)
    \/ iput(p) \/ iput_trunc(p) \/ iput_end(p)

Spec == Init /\ [][Next]_vars

-----------------------------------------------------------------------------
Holds(p, s) == pc[p] # "alloc" /\ ip[p] = s

TypeOK ==
  /\ inum \in [Slot -> Inum \cup {None}] /\ ref \in [Slot -> 0..Cardinality(Proc)]
  /\ busy \in [Slot -> BOOLEAN] /\ valid \in [Slot -> BOOLEAN]
  /\ type \in [Slot -> {0, 1}] /\ nlink \in [Slot -> 0..Cardinality(Name)]
  /\ private \in [Slot -> Entry \cup {None}]
  /\ used \in [Entry -> BOOLEAN] /\ addrs \in [Entry -> Inum \cup {None}]
  /\ dtype \in [Inum -> {0, 1}] /\ dnlink \in [Inum -> 0..Cardinality(Name)]
  /\ names \in [Inum -> SUBSET Name]
  /\ pc \in [Proc -> {"idle", "alloc", "fill", "hold", "asleep", "woken", "linking", "read", "locked",
                      "trunc", "trunced", "panic"}]
  /\ ip \in [Proc -> Slot \cup Inum \cup {None}] /\ fresh \subseteq Proc
  /\ dp \in [Proc -> {DirOf[x] : x \in Name} \cup {None}]
  /\ s5ip \in [Proc -> Entry \cup {None}]

\* An inode is in at most one slot of the table, and ref counts exactly the
\* pointers to the slot, so a slot is reused when nobody points to it.
OneSlot ==
  /\ \A s, t \in Slot : ref[s] > 0 /\ ref[t] > 0 /\ inum[s] = inum[t] => s = t
  /\ \A s \in Slot : ref[s] = Cardinality({p \in Proc : Holds(p, s)})

\* No panic: iput() never meets a locked inode, ilock() never a free one, and
\* table and pool have room for one inode per process.
NoPanic == \A p \in Proc : pc[p] # "panic"

\* I_BUSY is one process's at a time and nobody sleeps on a free lock.
Owners(s) == {p \in Proc : Holds(p, s) /\ pc[p] \in {"read", "locked", "trunc", "trunced"}}
LockInv ==
  /\ \A s \in Slot : Cardinality(Owners(s)) = IF busy[s] THEN 1 ELSE 0
  /\ \A p \in Proc : pc[p] = "asleep" => busy[ip[p]]

\* The table as iget() and iput() need it: one slot per inode, exact
\* references, one owner of I_BUSY and no panic on the way.
InodeInv == TypeOK /\ OneSlot /\ LockInv /\ NoPanic

\* What the file system sees under the lock is the inode: its type and link
\* count are those on disk and its block addresses are its own.
LockedCorrect ==
  \A p \in Proc : pc[p] = "locked" =>
    LET s == ip[p] IN
    /\ valid[s] /\ type[s] = 1 /\ nlink[s] = dnlink[inum[s]]
    /\ private[s] # None /\ addrs[private[s]] = inum[s]

\* A name never leads to a free inode, and an inode without a name is freed
\* by its last user: none stays allocated with nobody to free it.
NamesLead ==
  \A n \in Inum :
    /\ names[n] # {} => dtype[n] = 1
    /\ dtype[n] = 1 /\ dnlink[n] = 0 =>
         \/ \E p \in Proc : pc[p] = "alloc" /\ ip[p] = n
         \/ \E s \in Cached(n) : ref[s] > 0
==============================================================================
