---------------------------- MODULE MCNexusSession ----------------------------
(* NexusSession for TLC; no symmetry set, because its runs check liveness. *)
EXTENDS NexusSession
=============================================================================
