---------------------------- MODULE TokenSource ----------------------------
(***************************************************************************)
(* What the OAuth manager promises to the goroutines that call Token,      *)
(* without clocks, locks, backoff or shared flights.  Tokens are numbered  *)
(* in the order they are requested from the identity endpoint; `latest'    *)
(* numbers the token in service.  A call remembers the token in service    *)
(* when it began (its floor) and either fails or returns a token that is   *)
(* not older than that one and has been in service: callers never see the  *)
(* token go backwards.                                                     *)
(***************************************************************************)
EXTENDS Naturals

CONSTANT Callers

VARIABLES
  latest,     \* number of the token in service, 0 before the first one
  calls       \* per caller: what it is doing, its floor, the token returned

Statuses == {"idle", "pending", "served", "failed"}

Calls == [status : Statuses, floor : Nat, returned : Nat]

TypeOK ==
  /\ latest \in Nat
  /\ calls \in [Callers -> Calls]

Init ==
  /\ latest = 0
  /\ calls = [c \in Callers |-> [status |-> "idle", floor |-> 0, returned |-> 0]]

\* A newer token replaces the one in service.
Install ==
  /\ latest' \in Nat
  /\ latest' > latest
  /\ UNCHANGED calls

Begin(c) ==
  /\ calls[c].status # "pending"
  /\ latest > 0
  /\ calls' = [calls EXCEPT ![c] = [status |-> "pending", floor |-> latest, returned |-> 0]]
  /\ UNCHANGED latest

\* Every call of a set that shares one answer returns in the same step.
Finish(S) ==
  /\ \A c \in S : calls[c].status = "pending"
  /\ \A c \in S : \/ calls'[c] = [calls[c] EXCEPT !.status = "failed"]
                  \/ \E n \in calls[c].floor .. latest :
                       calls'[c] = [status |-> "served", floor |-> calls[c].floor,
                                    returned |-> n]
  /\ calls' \in [Callers -> Calls]
  /\ \A c \in Callers \ S : calls'[c] = calls[c]
  /\ UNCHANGED latest

Next ==
  \/ Install
  \/ \E c \in Callers : Begin(c)
  \/ \E S \in SUBSET Callers : Finish(S)

vars == <<latest, calls>>

Spec == Init /\ [][Next]_vars
=============================================================================
