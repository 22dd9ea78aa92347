---------------------------- MODULE MCSdkBridge ----------------------------
(* Instances of SdkBridge for TLC. *)
EXTENDS SdkBridge, TLC

Symmetry == Permutations(Execs)

\* The firmware policy is made for one platform, the NTP policy for any.
TargetOf == [policy \in Policies |-> IF policy = "ntp" THEN "" ELSE "standalone"]
=============================================================================
