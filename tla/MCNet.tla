------------------------------- MODULE MCNet ---------------------------------
(***************************************************************************)
(* Addresses of four bits.  Host 1 is the board, 2 and 3 hosts of its      *)
(* network 0..7, 4 the gateway, 9 a host beyond it.                        *)
(***************************************************************************)
EXTENDS Net

MCWire ==
  { Frame("ARP_REQUEST", HwBroadcast, 2, Me, 0, ANY),
    Frame("ARP_REPLY", Me, 4, Me, 0, ANY),
    Frame("UDP", HwBroadcast, 2, 7, 1, ANY),
    Frame("ECHO", Me, 9, Me, 0, ANY),
    Frame("LONG", Me, 2, Me, 0, ANY) }
MCDst == {3, 9}
==============================================================================
