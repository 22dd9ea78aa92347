-------------------------- MODULE BootstrapClient --------------------------
(***************************************************************************)
(* implementations/intersight/api_caller.go: RetryingBootstrapClient makes *)
(* the OAuth manager, and with it the API client, when the first call asks *)
(* for it.  Calls share one bootstrap flight (singleflight.DoChan), a      *)
(* failed attempt is cached with a backoff, and a call whose context ends  *)
(* stops waiting while the flight goes on.                                 *)
(*                                                                         *)
(* The flight runs in a goroutine of its own.  It authenticates under the  *)
(* context of the call that started it, its leader.                        *)
(***************************************************************************)
EXTENDS Integers, FiniteSets, Backoff

CONSTANTS
  Callers,      \* goroutines that call ensureClient
  InitBackoff,  \* initialBackoff
  MaxBackoff,   \* maxBackoff
  MaxTime,      \* bound: the clock stops here
  MaxCalls      \* bound: calls per caller

ASSUME BackoffAssumption ==
  /\ {InitBackoff, MaxBackoff} \subseteq Nat \ {0}
  /\ InitBackoff <= MaxBackoff
ASSUME BoundsAssumption == {MaxTime, MaxCalls} \subseteq Nat

VARIABLES
  clock,                 \* c.now
  client,                \* whether c.client is set
  lastErr,               \* c.lastErr: the failed attempt, 0 for nil
  bootstrapBackoff,      \* c.bootstrapBackoff
  nextBootstrapAttempt,  \* c.nextBootstrapAttempt, 0 for the zero time
  flight,                \* the "bootstrap-client" entry of c.bootstrapGroup
  attempts,              \* calls of NewOAuthManager so far
  managers,              \* OAuth managers made, each with its refreshLoop
  pc,                    \* where each call is
  now,                   \* ensureClient's `now', 0 once it looked
  ctx,                   \* whether the context of the call is live
  inbox,                 \* the channel DoChan returned: what is in it
  result,                \* what the last call returned
  runs,                  \* calls so far
  began,                 \* history: lastErr and client at the beginning of the call,
                         \* and the error a flight not yet dropped held out then
  lastStart              \* history: when the last attempt started

cache == <<client, lastErr, bootstrapBackoff, nextBootstrapAttempt>>
flown == <<flight, attempts, managers, lastStart>>
locals == <<now, ctx, inbox, result, runs, began>>
vars == <<clock, cache, flown, pc, locals>>

Nothing == [kind |-> "none", n |-> 0]
TheClient == [kind |-> "client", n |-> 0]
Failure(n) == [kind |-> "error", n |-> n]
OwnContext == [kind |-> "context", n |-> 0]

NoFlight == [phase |-> "none", now |-> 0, outcome |-> Nothing]

\* cachedClient: the client, the cached error while it holds, or nothing.
Cached(time) ==
  IF client THEN TheClient
  ELSE IF lastErr # 0 /\ time < nextBootstrapAttempt THEN Failure(lastErr)
  ELSE Nothing

Init ==
  /\ clock = 0
  /\ client = FALSE
  /\ lastErr = 0
  /\ bootstrapBackoff = 0
  /\ nextBootstrapAttempt = 0
  /\ flight = NoFlight
  /\ attempts = 0
  /\ managers = 0
  /\ lastStart = 0
  /\ pc = [c \in Callers |-> "idle"]
  /\ now = [c \in Callers |-> 0]
  /\ ctx = [c \in Callers |-> TRUE]
  /\ inbox = [c \in Callers |-> Nothing]
  /\ result = [c \in Callers |-> Nothing]
  /\ runs = [c \in Callers |-> 0]
  /\ began = [c \in Callers |-> [errors |-> 0, leaving |-> 0, client |-> FALSE]]

-----------------------------------------------------------------------------
(* ensureClient. *)

Goto(c, label) == pc' = [pc EXCEPT ![c] = label]

Return(c, outcome) ==
  /\ result' = [result EXCEPT ![c] = outcome]
  /\ now' = [now EXCEPT ![c] = 0]
  /\ inbox' = [inbox EXCEPT ![c] = Nothing]
  /\ ctx' = [ctx EXCEPT ![c] = TRUE]
  /\ began' = [began EXCEPT ![c].errors = 0, ![c].leaving = 0]
  /\ Goto(c, "idle")
  /\ UNCHANGED runs

Enter(c) ==
  /\ pc[c] = "idle"
  /\ runs[c] < MaxCalls
  /\ runs' = [runs EXCEPT ![c] = @ + 1]
  /\ now' = [now EXCEPT ![c] = clock]
  /\ result' = [result EXCEPT ![c] = Nothing]
  /\ began' = [began EXCEPT ![c] =
                 [errors |-> lastErr, leaving |-> flight.outcome.n, client |-> client]]
  /\ Goto(c, "look")
  /\ UNCHANGED <<clock, cache, flown, ctx, inbox>>

\* cachedClient has an answer.
LookHit(c) ==
  /\ pc[c] = "look"
  /\ Cached(now[c]) # Nothing
  /\ Return(c, Cached(now[c]))
  /\ UNCHANGED <<clock, cache, flown>>

LookMiss(c) ==
  /\ pc[c] = "look"
  /\ Cached(now[c]) = Nothing
  /\ now' = [now EXCEPT ![c] = 0]
  /\ Goto(c, "join")
  /\ UNCHANGED <<clock, cache, flown, ctx, inbox, result, runs, began>>

\* DoChan: start a flight or join the one under way.
Join(c) ==
  /\ pc[c] = "join"
  /\ flight' = IF flight = NoFlight THEN [NoFlight EXCEPT !.phase = "begun"] ELSE flight
  /\ Goto(c, "wait")
  /\ UNCHANGED <<clock, cache, attempts, managers, lastStart, locals>>

\* The deadline of the call passes, or its client goes away.
ContextEnds(c) ==
  /\ pc[c] # "idle" /\ ctx[c]
  /\ ctx' = [ctx EXCEPT ![c] = FALSE]
  /\ UNCHANGED <<clock, cache, flown, pc, now, inbox, result, runs, began>>

\* The select: either branch, if both are ready.
GiveUp(c) ==
  /\ pc[c] = "wait" /\ ~ctx[c]
  /\ Return(c, OwnContext)
  /\ UNCHANGED <<clock, cache, flown>>

Receive(c) ==
  /\ pc[c] = "wait" /\ inbox[c] # Nothing
  /\ Return(c, inbox[c])
  /\ UNCHANGED <<clock, cache, flown>>

-----------------------------------------------------------------------------
(* The flight. *)

\* Mutant: the flight takes the cached error whatever its age.
FlightHitForever ==
  /\ flight.phase = "begun"
  /\ client \/ lastErr # 0
  /\ flight' = [flight EXCEPT !.phase = "done",
                              !.outcome = IF client THEN TheClient ELSE Failure(lastErr)]
  /\ UNCHANGED <<clock, cache, attempts, managers, lastStart, pc, locals>>

\* It looks at the cache again, at a clock it reads itself.
FlightHit ==
  /\ flight.phase = "begun"
  /\ Cached(clock) # Nothing
  /\ flight' = [flight EXCEPT !.phase = "done", !.outcome = Cached(clock)]
  /\ UNCHANGED <<clock, cache, attempts, managers, lastStart, pc, locals>>

\* Mutant: the flight does not look at the cache again.
AuthenticateUnseen ==
  /\ flight.phase = "begun"
  /\ flight' = [flight EXCEPT !.phase = "auth", !.now = clock]
  /\ attempts' = attempts + 1
  /\ lastStart' = clock
  /\ UNCHANGED <<clock, cache, managers, pc, locals>>

\* It makes a manager: NewOAuthManager asks for a token and validates it.
Authenticate ==
  /\ flight.phase = "begun"
  /\ Cached(clock) = Nothing
  /\ flight' = [flight EXCEPT !.phase = "auth", !.now = clock]
  /\ attempts' = attempts + 1
  /\ lastStart' = clock
  /\ UNCHANGED <<clock, cache, managers, pc, locals>>

\* Manager in hand, refreshLoop started, lock not yet taken.
AuthSucceeds ==
  /\ flight.phase = "auth"
  /\ flight' = [flight EXCEPT !.phase = "made"]
  /\ managers' = managers + 1
  /\ UNCHANGED <<clock, cache, attempts, lastStart, pc, locals>>

\* Rejected, unreachable, timed out, or the context of the leader ended.
AuthFails ==
  /\ flight.phase = "auth"
  /\ flight' = [flight EXCEPT !.phase = "failed"]
  /\ UNCHANGED <<clock, cache, attempts, managers, lastStart, pc, locals>>

\* Mutant: the client is handed out and not kept.
HandOutClient ==
  /\ flight.phase = "made"
  /\ flight' = [flight EXCEPT !.phase = "done", !.outcome = TheClient]
  /\ UNCHANGED <<clock, cache, attempts, managers, lastStart, pc, locals>>

StoreClient ==
  /\ flight.phase = "made"
  /\ IF client
     THEN UNCHANGED cache
     ELSE /\ client' = TRUE
          /\ lastErr' = 0
          /\ bootstrapBackoff' = 0
          /\ nextBootstrapAttempt' = 0
  /\ flight' = [flight EXCEPT !.phase = "done", !.outcome = TheClient]
  /\ UNCHANGED <<clock, attempts, managers, lastStart, pc, locals>>

\* Mutants: no cap; no growth.
UncappedBackoff == IF bootstrapBackoff = 0 THEN InitBackoff ELSE 2 * bootstrapBackoff

FlatBackoff == InitBackoff

NextBackoff ==
  IF bootstrapBackoff = 0 THEN InitBackoff
  ELSE IF 2 * bootstrapBackoff < MaxBackoff THEN 2 * bootstrapBackoff
  ELSE MaxBackoff

\* The backoff runs from the start of the attempt.
RecordBootstrapFailure ==
  /\ flight.phase = "failed"
  /\ lastErr' = attempts
  /\ bootstrapBackoff' = NextBackoff
  /\ nextBootstrapAttempt' = flight.now + NextBackoff
  /\ flight' = [flight EXCEPT !.phase = "done", !.outcome = Failure(attempts)]
  /\ UNCHANGED <<clock, client, attempts, managers, lastStart, pc, locals>>

\* History: the flight leaves; a call that did not join it shares the next one.
FlightLeaves ==
  began' = [c \in Callers |-> IF pc[c] = "wait" THEN began[c]
                             ELSE [began[c] EXCEPT !.leaving = 0]]

\* Mutant: nobody is told of a failed flight.
DeliverSuccessOnly ==
  /\ flight.phase = "done" /\ flight.outcome = TheClient
  /\ inbox' = [c \in Callers |-> IF pc[c] = "wait" THEN flight.outcome ELSE inbox[c]]
  /\ flight' = NoFlight
  /\ FlightLeaves
  /\ UNCHANGED <<clock, cache, attempts, managers, lastStart, pc, now, ctx, result, runs>>

\* The group drops the flight and fills the channel of every waiting call.
Deliver ==
  /\ flight.phase = "done"
  /\ inbox' = [c \in Callers |-> IF pc[c] = "wait" /\ inbox[c] = Nothing
                                 THEN flight.outcome ELSE inbox[c]]
  /\ flight' = NoFlight
  /\ FlightLeaves
  /\ UNCHANGED <<clock, cache, attempts, managers, lastStart, pc, now, ctx, result, runs>>

Tick ==
  /\ clock < MaxTime
  /\ clock' = clock + 1
  /\ UNCHANGED <<cache, flown, pc, locals>>

-----------------------------------------------------------------------------
CallStep(c) == LookHit(c) \/ LookMiss(c) \/ Join(c) \/ GiveUp(c) \/ Receive(c)

AuthAnswer == AuthSucceeds \/ AuthFails

FlightStep == FlightHit \/ Authenticate \/ StoreClient \/ RecordBootstrapFailure \/ Deliver

Next ==
  \/ \E c \in Callers : Enter(c) \/ CallStep(c) \/ ContextEnds(c)
  \/ AuthAnswer \/ FlightStep
  \/ Tick

Spec == Init /\ [][Next]_vars

\* Goroutines are scheduled fairly and an attempt ends: it runs under
\* context.WithTimeout (api_caller.go:172).  No context need end otherwise.
Fairness ==
  /\ \A c \in Callers : WF_vars(CallStep(c))
  /\ WF_vars(AuthAnswer)
  /\ WF_vars(FlightStep)

FairSpec == Spec /\ Fairness
-----------------------------------------------------------------------------
(* Properties. *)

Outcomes == [kind : {"none", "client", "error", "context"}, n : Nat]
Flights == [phase : {"none", "begun", "auth", "made", "failed", "done"},
            now : Nat, outcome : Outcomes]

\* Type invariant of the cache, the flight and the calls.
TypeOK ==
  /\ clock \in Nat
  /\ client \in BOOLEAN
  /\ lastErr \in Nat
  /\ bootstrapBackoff \in 0 .. MaxBackoff
  /\ nextBootstrapAttempt \in Nat
  /\ flight \in Flights
  /\ attempts \in Nat /\ managers \in Nat /\ lastStart \in Nat
  /\ pc \in [Callers -> {"idle", "look", "join", "wait"}]
  /\ now \in [Callers -> Nat]
  /\ ctx \in [Callers -> BOOLEAN]
  /\ inbox \in [Callers -> Outcomes]
  /\ result \in [Callers -> Outcomes]
  /\ runs \in [Callers -> Nat]
  /\ began \in [Callers -> [errors : Nat, leaving : Nat, client : BOOLEAN]]

\* Calls that missed the cache before the client was stored start another
\* flight after it; still only one manager, with one refreshLoop nobody
\* could stop, is ever made (api_caller.go:80).
OneManager == managers <= 1

\* Attempt k + 1 starts at least the k-th backoff after attempt k started,
\* also when its flight was started by a call that looked at the cache
\* before that attempt failed.
AttemptsSpaced ==
  [][attempts' # attempts /\ attempts > 0
       => clock >= lastStart + BackoffAfter(InitBackoff, MaxBackoff, attempts)]_vars

\* An error that was recorded before a call began is returned to that call
\* only by its own look at the cache, inside the backoff, or by a flight that
\* was at its end with this error when the call began, and that the call still
\* joined.  Such a flight may be the attempt itself or one that only found the
\* error in the cache while it held: the backoff may be over when it answers.
\* A flight that looks at the cache, or ends its attempt, after the call began
\* never gives it an error older than the call.
ErrorIsCurrent ==
  [][\A c \in Callers :
       /\ pc[c] # "idle" /\ pc'[c] = "idle"
       /\ result'[c].kind = "error" /\ result'[c].n <= began[c].errors
       => \/ pc[c] = "look" /\ now[c] < nextBootstrapAttempt
          \/ pc[c] = "wait" /\ began[c].leaving = result'[c].n]_vars

\* Every call returns, without its context ending.
CallsReturn == \A c \in Callers : pc[c] # "idle" ~> pc[c] = "idle"

(***************************************************************************)
(* The bootstrap client implements LazyClient.                             *)
(***************************************************************************)
CallStatus(c) ==
  IF pc[c] # "idle" THEN "pending"
  ELSE CASE result[c].kind = "none" -> "idle"
         [] result[c].kind = "client" -> "served"
         [] OTHER -> "failed"

Lazy == INSTANCE LazyClient WITH
  built <- client,
  calls <- [c \in Callers |-> [status |-> CallStatus(c), late |-> began[c].client]]

ImplementsLazyClient == Lazy!Spec
=============================================================================
