----------------------------- MODULE LazyClient -----------------------------
(***************************************************************************)
(* What the bootstrap client promises to the calls that ask it for an API  *)
(* client: it is built at most once, a call gets that client or fails, and *)
(* a call that begins after it was built does not fail.                    *)
(***************************************************************************)
EXTENDS Naturals

CONSTANT Callers

VARIABLES
  built,      \* whether the client exists
  calls       \* per caller: its status, and whether the client was there first

Statuses == {"idle", "pending", "served", "failed"}

TypeOK ==
  /\ built \in BOOLEAN
  /\ calls \in [Callers -> [status : Statuses, late : BOOLEAN]]

Init ==
  /\ built = FALSE
  /\ calls = [c \in Callers |-> [status |-> "idle", late |-> FALSE]]

Build ==
  /\ ~built
  /\ built' = TRUE
  /\ UNCHANGED calls

Begin(c) ==
  /\ calls[c].status # "pending"
  /\ calls' = [calls EXCEPT ![c] = [status |-> "pending", late |-> built]]
  /\ UNCHANGED built

Serve(c) ==
  /\ built
  /\ calls[c].status = "pending"
  /\ calls' = [calls EXCEPT ![c].status = "served"]
  /\ UNCHANGED built

Fail(c) ==
  /\ calls[c].status = "pending"
  /\ ~calls[c].late
  /\ calls' = [calls EXCEPT ![c].status = "failed"]
  /\ UNCHANGED built

Next == Build \/ \E c \in Callers : Begin(c) \/ Serve(c) \/ Fail(c)

Spec == Init /\ [][Next]_<<built, calls>>
=============================================================================
