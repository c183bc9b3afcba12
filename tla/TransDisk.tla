------------------------------ MODULE TransDisk ------------------------------
(***************************************************************************)
(* What the logging layer (kernel/log.c) promises its callers: a disk      *)
(* whose durable contents only ever jump from one state in which no file   *)
(* system call is half done to another such state.  A power failure throws *)
(* away exactly the updates made since the last jump.                      *)
(***************************************************************************)
CONSTANTS Proc,    \* processes making file system calls
          Block,   \* block numbers
          Data     \* block contents

VARIABLES mem,     \* the contents a bread() returns now
          durable, \* the contents a bread() would return after a reboot
          active   \* processes between begin_op() and end_op()

vars == <<mem, durable, active>>

Init ==
  /\ durable \in [Block -> Data]
  /\ mem = durable
  /\ active = {}

Begin(p) ==
  /\ p \notin active
  /\ active' = active \cup {p}
  /\ UNCHANGED <<mem, durable>>

Write(p, b, v) ==
  /\ p \in active
  /\ mem' = [mem EXCEPT ![b] = v]
  /\ UNCHANGED <<durable, active>>

End(p) ==
  /\ p \in active
  /\ active' = active \ {p}
  /\ UNCHANGED <<mem, durable>>

\* All or nothing, and only between calls.
Commit ==
  /\ active = {}
  /\ durable' = mem
  /\ UNCHANGED <<mem, active>>

Crash ==
  /\ mem' = durable
  /\ active' = {}
  /\ UNCHANGED durable

Next ==
  \/ \E p \in Proc : Begin(p) \/ End(p)
  \/ \E p \in Proc, b \in Block, v \in Data : Write(p, b, v)
  \/ Commit
  \/ Crash

Spec == Init /\ [][Next]_vars
==============================================================================
