--------------------------- MODULE MCOAuthManager ---------------------------
(* Instances of OAuthManager for TLC. *)
EXTENDS OAuthManager, TLC

Symmetry == Permutations(Callers)
=============================================================================
