-------------------------------- MODULE MCLog --------------------------------
(* The instance of Log for TLC: its constants are in MCLog.cfg. *)
EXTENDS Log
==============================================================================
