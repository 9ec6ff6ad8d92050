------------------------------- MODULE MCPipe -------------------------------
(* Instances of Pipe for TLC; the constants are in the .cfg files. *)
EXTENDS Pipe
=============================================================================
