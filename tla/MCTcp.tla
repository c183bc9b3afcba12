-------------------------------- MODULE MCTcp --------------------------------
(* Tcp for TLC: random() returns values far apart, as in the kernel. *)
EXTENDS Tcp

MCIss == <<10, 20>>
MCData == [client |-> 0, server |-> 1]
MCData2 == [client |-> 2, server |-> 0]
MCIss1 == <<10>>
==============================================================================
