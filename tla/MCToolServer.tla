---------------------------- MODULE MCToolServer ----------------------------
(* Instances of ToolServer for TLC. *)
EXTENDS ToolServer
=============================================================================
