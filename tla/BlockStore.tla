------------------------------ MODULE BlockStore ------------------------------
(***************************************************************************)
(* What the buffer cache promises its users (the interface comment of      *)
(* kernel/bio.c): a block is used by one process at a time, and its        *)
(* contents change only when the process that uses it changes them.        *)
(***************************************************************************)
CONSTANTS Proc, Block, Data, None

VARIABLES contents, user

Init == contents \in [Block -> Data] /\ user = [k \in Block |-> None]

\* bread() returns the buffer of block k to p.
Acquire(p, k) ==
  /\ user[k] = None
  /\ user' = [user EXCEPT ![k] = p]
  /\ UNCHANGED contents

Change(p, k) ==
  /\ user[k] = p
  /\ \E v \in Data : contents' = [contents EXCEPT ![k] = v]
  /\ UNCHANGED user

\* brelse()
Release(p, k) ==
  /\ user[k] = p
  /\ user' = [user EXCEPT ![k] = None]
  /\ UNCHANGED contents

Next == \E p \in Proc, k \in Block : Acquire(p, k) \/ Change(p, k) \/ Release(p, k)

Spec == Init /\ [][Next]_<<contents, user>>
================================================================================
