--------------------------------- MODULE Fifo ---------------------------------
(***************************************************************************)
(* What a pipe promises: a bounded queue of bytes, read in the order they  *)
(* were written, to which nothing is added once the reading end is closed  *)
(* or the writing end is.                                                  *)
(***************************************************************************)
EXTENDS Naturals, Sequences

CONSTANTS Byte, Capacity

VARIABLES queue, readopen, writeopen

Init == queue = <<>> /\ readopen = TRUE /\ writeopen = TRUE

Put ==
  /\ readopen /\ writeopen /\ Len(queue) < Capacity
  /\ \E c \in Byte : queue' = Append(queue, c)
  /\ UNCHANGED <<readopen, writeopen>>

Get ==
  /\ readopen /\ queue # <<>>
  /\ queue' = Tail(queue)
  /\ UNCHANGED <<readopen, writeopen>>

CloseRead == readopen' = FALSE /\ UNCHANGED <<queue, writeopen>>
CloseWrite == writeopen' = FALSE /\ UNCHANGED <<queue, readopen>>

Next == Put \/ Get \/ CloseRead \/ CloseWrite

Spec == Init /\ [][Next]_<<queue, readopen, writeopen>>
================================================================================
