---------------------------- MODULE NexusSession ----------------------------
(***************************************************************************)
(* implementations/nexus-dashboard/api_caller.go with user name and        *)
(* password: concurrent calls of Client.Do share one session token.  A     *)
(* call that finds none logs in without holding the lock; a call that is   *)
(* refused forgets the shared token, whichever it is, and tries once more. *)
(* The other ways to authenticate keep no state and try once.              *)
(*                                                                         *)
(* Every critical section of Client.mu and every answer of the product is  *)
(* one step.                                                               *)
(***************************************************************************)
EXTENDS Naturals, FiniteSets

CONSTANTS
  Callers,     \* goroutines that call Do
  MaxLogins,   \* bound: sessions the product issues
  MaxCalls     \* bound: calls per caller

ASSUME BoundsAssumption == {MaxLogins, MaxCalls} \subseteq Nat

VARIABLES
  sessionToken,  \* c.sessionToken, 0 for the empty string
  issued,        \* sessions the product issued
  live,          \* sessions it honours
  pc,            \* where each call is
  token,         \* the token the call has in hand
  attempt,       \* doAuthedRequest: first or second
  tried,         \* history: the sessions the call sent
  answers,       \* history: the product's answers to the requests of the call
  result,        \* what the last call returned
  runs           \* calls so far

server == <<issued, live>>
call == <<token, attempt, tried, answers, result, runs>>
vars == <<sessionToken, server, pc, call>>

Init ==
  /\ sessionToken = 0
  /\ issued = 0
  /\ live = {}
  /\ pc = [c \in Callers |-> "idle"]
  /\ token = [c \in Callers |-> 0]
  /\ attempt = [c \in Callers |-> 1]
  /\ tried = [c \in Callers |-> {}]
  /\ answers = [c \in Callers |-> {}]
  /\ result = [c \in Callers |-> "idle"]
  /\ runs = [c \in Callers |-> 0]

Goto(c, label) == pc' = [pc EXCEPT ![c] = label]

\* Do returns; what it had in hand is gone.
Return(c, outcome) ==
  /\ result' = [result EXCEPT ![c] = outcome]
  /\ token' = [token EXCEPT ![c] = 0]
  /\ attempt' = [attempt EXCEPT ![c] = 1]
  /\ Goto(c, "idle")
  /\ UNCHANGED runs

Begin(c) ==
  /\ pc[c] = "idle"
  /\ runs[c] < MaxCalls
  /\ runs' = [runs EXCEPT ![c] = @ + 1]
  /\ tried' = [tried EXCEPT ![c] = {}]
  /\ answers' = [answers EXCEPT ![c] = {}]
  /\ result' = [result EXCEPT ![c] = "idle"]
  /\ Goto(c, "ensure")
  /\ UNCHANGED <<sessionToken, server, token, attempt>>

\* ensureSessionToken finds a token, or goes and logs in.
Ensure(c) ==
  /\ pc[c] = "ensure"
  /\ token' = [token EXCEPT ![c] = sessionToken]
  /\ Goto(c, IF sessionToken # 0 THEN "send" ELSE "login")
  /\ UNCHANGED <<sessionToken, server, attempt, tried, answers, result, runs>>

LoginSucceeds(c) ==
  /\ pc[c] = "login"
  /\ issued < MaxLogins
  /\ issued' = issued + 1
  /\ live' = live \cup {issued'}
  /\ token' = [token EXCEPT ![c] = issued']
  /\ Goto(c, "store")
  /\ UNCHANGED <<sessionToken, attempt, tried, answers, result, runs>>

\* Unreachable, rejected, no token in the answer: status 0, so no retry.
LoginFails(c) ==
  /\ pc[c] = "login"
  /\ Return(c, "failed")
  /\ UNCHANGED <<sessionToken, server, tried, answers>>

\* Mutant: the loser of a race between logins waits.
StoreIfEmpty(c) ==
  /\ pc[c] = "store"
  /\ sessionToken = 0
  /\ sessionToken' = token[c]
  /\ Goto(c, "send")
  /\ UNCHANGED <<server, call>>

\* The first login to come back wins; the others take its token.
Store(c) ==
  /\ pc[c] = "store"
  /\ sessionToken' = IF sessionToken = 0 THEN token[c] ELSE sessionToken
  /\ token' = [token EXCEPT ![c] = sessionToken']
  /\ Goto(c, "send")
  /\ UNCHANGED <<server, attempt, tried, answers, result, runs>>

AnswersFor(s) == IF s \in live THEN {"applied", "forbidden"} ELSE {"unknown_session"}

\* The product answers the request.
Answered(c, a) ==
  /\ tried' = [tried EXCEPT ![c] = @ \cup {token[c]}]
  /\ answers' = [answers EXCEPT ![c] = @ \cup {a}]

\* Mutant: a request whose answer is lost is sent again.
AcceptedOrResent(c) ==
  /\ pc[c] = "send"
  /\ "applied" \in AnswersFor(token[c])
  /\ Answered(c, "applied")
  /\ \/ Return(c, "served")
     \/ attempt[c] = 1 /\ Goto(c, "clear") /\ UNCHANGED <<token, attempt, result, runs>>
  /\ UNCHANGED <<sessionToken, server>>

\* It is carried out; its answer arrives, or is lost, too large or not JSON.
Accepted(c) ==
  /\ pc[c] = "send"
  /\ "applied" \in AnswersFor(token[c])
  /\ Answered(c, "applied")
  /\ \E outcome \in {"served", "failed"} : Return(c, outcome)
  /\ UNCHANGED <<sessionToken, server>>

\* The request does not arrive, or the product fails.
Lost(c) ==
  /\ pc[c] = "send"
  /\ Return(c, "failed")
  /\ UNCHANGED <<sessionToken, server, tried, answers>>

\* 401 or 403: forget the session and try again, the first time.
Refused(c) ==
  /\ pc[c] = "send"
  /\ \E a \in AnswersFor(token[c]) \ {"applied"} : Answered(c, a)
  /\ IF attempt[c] = 1
     THEN /\ Goto(c, "clear")
          /\ UNCHANGED <<token, attempt, result, runs>>
     ELSE Return(c, "refused")
  /\ UNCHANGED <<sessionToken, server>>

\* Mutant: the retry starts with the session that was refused.
ClearNothing(c) ==
  /\ pc[c] = "clear"
  /\ attempt' = [attempt EXCEPT ![c] = 2]
  /\ Goto(c, "ensure")
  /\ UNCHANGED <<sessionToken, token, server, tried, answers, result, runs>>

ClearSessionToken(c) ==
  /\ pc[c] = "clear"
  /\ sessionToken' = 0
  /\ token' = [token EXCEPT ![c] = 0]
  /\ attempt' = [attempt EXCEPT ![c] = 2]
  /\ Goto(c, "ensure")
  /\ UNCHANGED <<server, tried, answers, result, runs>>

\* The product ends a session: a timeout, a logout, another login.
Expire ==
  /\ \E s \in live : live' = live \ {s}
  /\ UNCHANGED <<sessionToken, issued, pc, call>>

-----------------------------------------------------------------------------
CallStep(c) ==
  \/ Ensure(c) \/ LoginSucceeds(c) \/ LoginFails(c) \/ Store(c)
  \/ Accepted(c) \/ Lost(c) \/ Refused(c) \/ ClearSessionToken(c)

Next ==
  \/ \E c \in Callers : Begin(c) \/ CallStep(c)
  \/ Expire

Spec == Init /\ [][Next]_vars

\* Goroutines are scheduled, and the HTTP client has a timeout
\* (internal/bootstrap/bootstrap.go:162).
Fairness == \A c \in Callers : WF_vars(CallStep(c))

FairSpec == Spec /\ Fairness
-----------------------------------------------------------------------------
(* Properties. *)

Sessions == 1 .. issued

\* Type invariant of the client, the product and the calls.
TypeOK ==
  /\ issued \in Nat
  /\ sessionToken \in 0 .. issued
  /\ live \in SUBSET Sessions
  /\ pc \in [Callers -> {"idle", "ensure", "login", "store", "send", "clear"}]
  /\ token \in [Callers -> 0 .. issued]
  /\ attempt \in [Callers -> {1, 2}]
  /\ tried \in [Callers -> SUBSET Sessions]
  /\ answers \in [Callers -> SUBSET {"applied", "forbidden", "unknown_session"}]
  /\ result \in [Callers -> {"idle", "served", "refused", "failed"}]
  /\ runs \in [Callers -> Nat]

\* A call reports that it was refused only after it tried two sessions, and
\* unless the product forbids it the operation both are dead, however the
\* logins of other calls came between (api_caller.go:71-75, 322).
RefusedTwice ==
  \A c \in Callers : result[c] = "refused" =>
    /\ Cardinality(tried[c]) = 2
    /\ "forbidden" \in answers[c] \/ tried[c] \cap live = {}

\* Every call returns.
CallsReturn == \A c \in Callers : pc[c] # "idle" ~> pc[c] = "idle"

(***************************************************************************)
(* The client implements SessionUse.                                       *)
(***************************************************************************)
Use == INSTANCE SessionUse WITH
  calls <- [c \in Callers |->
              [status |-> IF pc[c] = "idle" THEN result[c] ELSE "pending",
               tried |-> tried[c], answers |-> answers[c]]]

ImplementsSessionUse == Use!Spec
=============================================================================
