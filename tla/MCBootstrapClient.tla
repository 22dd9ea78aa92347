------------------------- MODULE MCBootstrapClient -------------------------
(* BootstrapClient for TLC; no symmetry set, because its run checks liveness.  *)
EXTENDS BootstrapClient
=============================================================================
