-------------------------------- MODULE MCPipe --------------------------------
(* The instance of Pipe for TLC: its constants are in MCPipe.cfg. *)
EXTENDS Pipe
================================================================================
