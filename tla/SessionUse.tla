----------------------------- MODULE SessionUse -----------------------------
(***************************************************************************)
(* What a client that logs in with a password promises about the sessions  *)
(* its calls use: a call sends its request at most twice, never twice with *)
(* the same session, never again once the product carried it out, and it   *)
(* reports success only of a request that was carried out.                 *)
(*                                                                         *)
(* Sessions are numbered in the order the product issues them.             *)
(***************************************************************************)
EXTENDS Naturals

CONSTANT Callers

VARIABLES
  issued,     \* sessions issued so far
  live,       \* sessions the product honours
  calls       \* per caller: its status, the sessions it sent, the answers

Statuses == {"idle", "pending", "served", "refused", "failed"}
Answers == {"applied", "forbidden", "unknown_session"}

TypeOK ==
  /\ issued \in Nat
  /\ live \in SUBSET (1 .. issued)
  /\ calls \in [Callers -> [status : Statuses, tried : SUBSET (1 .. issued),
                            answers : SUBSET Answers]]

NoCall == [status |-> "idle", tried |-> {}, answers |-> {}]

Init ==
  /\ issued \in Nat
  /\ live \in SUBSET (1 .. issued)
  /\ calls = [c \in Callers |-> NoCall]

Issue ==
  /\ issued' = issued + 1
  /\ live' = live \cup {issued'}
  /\ UNCHANGED calls

Expire ==
  /\ \E s \in live : live' = live \ {s}
  /\ UNCHANGED <<issued, calls>>

Begin(c) ==
  /\ calls[c].status # "pending"
  /\ calls' = [calls EXCEPT ![c] = [NoCall EXCEPT !.status = "pending"]]
  /\ UNCHANGED <<issued, live>>

\* The product answers a request sent with session s.
AnswersFor(s) == IF s \in live THEN {"applied", "forbidden"} ELSE {"unknown_session"}

\* The first session, or the second.
Send(c, s) ==
  /\ calls[c].status = "pending"
  /\ "applied" \notin calls[c].answers
  /\ \A t, u \in calls[c].tried : t = u
  /\ s \notin calls[c].tried
  /\ \E answer \in AnswersFor(s), status \in {"pending", "served", "refused", "failed"} :
       /\ status = "served" => answer = "applied"
       /\ status = "refused" => answer # "applied"
       /\ calls' = [calls EXCEPT ![c] = [status |-> status, tried |-> calls[c].tried \cup {s},
                                         answers |-> calls[c].answers \cup {answer}]]
  /\ UNCHANGED <<issued, live>>

\* The call gives up: no session to be had, or the request failed on the way.
Fail(c) ==
  /\ calls[c].status = "pending"
  /\ \E status \in {"refused", "failed"} :
       /\ status = "refused" => calls[c].answers # {}
       /\ calls' = [calls EXCEPT ![c].status = status]
  /\ UNCHANGED <<issued, live>>

Next ==
  \/ Issue \/ Expire
  \/ \E c \in Callers : Begin(c) \/ Fail(c) \/ \E s \in 1 .. issued : Send(c, s)

vars == <<issued, live, calls>>

Spec == Init /\ [][Next]_vars
=============================================================================
