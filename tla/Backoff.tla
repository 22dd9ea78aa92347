------------------------------ MODULE Backoff ------------------------------
(***************************************************************************)
(* The backoff after a number of failures in closed form: both clients     *)
(* that retry (intersight/oauth.go, implementations/intersight/            *)
(* api_caller.go) keep only the last backoff and double it up to a cap.    *)
(***************************************************************************)
EXTENDS Naturals

\* 2 ^ n, defined so that proofs can use it.
PowerOfTwo[n \in Nat] == IF n = 0 THEN 1 ELSE 2 * PowerOfTwo[n - 1]

\* After the k-th failure in a row, for a first backoff and a cap.
BackoffAfter(first, cap, k) ==
  LET doubled == first * PowerOfTwo[k - 1]
  IN  IF doubled < cap THEN doubled ELSE cap
=============================================================================
