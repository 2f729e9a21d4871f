------------------------------- MODULE MCPipe -------------------------------
(* The instance of Pipe for TLC. *)
EXTENDS Pipe
=============================================================================
