---------------------------- MODULE MCSdwanSession ----------------------------
(* SdwanSession for TLC; no symmetry set, because its runs check liveness. *)
EXTENDS SdwanSession
=============================================================================
