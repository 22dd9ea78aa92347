--------------------------- MODULE ExecutionPool ---------------------------
(***************************************************************************)
(* What the limiter of tools/common.go promises: at most Limit executions  *)
(* run at a time (no limit if it is 0), a call runs at most once, and a    *)
(* call is refused only when the limit is reached, and then never runs.    *)
(***************************************************************************)
EXTENDS Naturals

CONSTANTS Calls, Limit

VARIABLES
  running,   \* the calls whose code may run
  verdict    \* per call: none so far, ran or refused

\* Every seat of the pool is taken by a call of its own.
Full ==
  /\ Limit > 0
  /\ \E seat \in [1..Limit -> running] : \A i, j \in 1..Limit : seat[i] = seat[j] => i = j

Init == running = {} /\ verdict = [c \in Calls |-> "none"]

Enter(c) ==
  /\ verdict[c] = "none"
  /\ ~Full
  /\ running' = running \cup {c}
  /\ verdict' = [verdict EXCEPT ![c] = "ran"]

Refuse(c) ==
  /\ verdict[c] = "none"
  /\ Full
  /\ verdict' = [verdict EXCEPT ![c] = "refused"]
  /\ UNCHANGED running

Leave(c) ==
  /\ c \in running
  /\ running' = running \ {c}
  /\ UNCHANGED verdict

Next == \E c \in Calls : Enter(c) \/ Refuse(c) \/ Leave(c)

vars == <<running, verdict>>

Spec == Init /\ [][Next]_vars
=============================================================================
