----------------------------- MODULE MCProcTable -----------------------------
(* The instance of ProcTable for TLC: its constants are in MCProcTable.cfg. *)
EXTENDS ProcTable
==============================================================================
