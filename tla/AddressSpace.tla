----------------------------- MODULE AddressSpace -----------------------------
(***************************************************************************)
(* What virtual memory promises: every process has pages of its own.  A    *)
(* fork copies them, and afterwards nobody's stores show up anywhere else. *)
(***************************************************************************)
EXTENDS Naturals, Sequences

CONSTANTS Proc, Data, Zero

VARIABLES view  \* the pages of a process; <<>> when there is no process

Init == \E p \in Proc : Len(view[p]) = 1 /\ \A q \in Proc \ {p} : view[q] = <<>>

Fork(p, q) == view[q] = <<>> /\ view' = [view EXCEPT ![q] = view[p]]

Store(p) == \E a \in 1..Len(view[p]), v \in Data : view' = [view EXCEPT ![p][a] = v]

Grow(p) == view' = [view EXCEPT ![p] = Append(@, Zero)]

Shrink(p) == Len(view[p]) > 1 /\ view' = [view EXCEPT ![p] = SubSeq(@, 1, Len(@) - 1)]

Free(p) == view' = [view EXCEPT ![p] = <<>>]

Next ==
  \E p \in Proc :
    \/ Store(p) \/ Grow(p) \/ Shrink(p) \/ Free(p)
    \/ \E q \in Proc : Fork(p, q)

Spec == Init /\ [][Next]_view
================================================================================
