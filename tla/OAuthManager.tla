---------------------------- MODULE OAuthManager ----------------------------
(***************************************************************************)
(* intersight/oauth.go: the Manager that hands OAuth access tokens to the  *)
(* API client.  Goroutines that call Token and the background refreshLoop  *)
(* share one token, one refresh flight (singleflight), a retry backoff and *)
(* a degraded mode that failures within a window switch on.                *)
(*                                                                         *)
(* Every critical section of Manager.mu, every reading of the clock and    *)
(* every call into the flight group is one step.  Manager.mu is an         *)
(* RWMutex: a section that never waits while it holds the lock is one      *)
(* step; nextRefreshDelay, which takes the read lock again while it holds  *)
(* it, is two, and a writer that finds it held bars new readers.           *)
(***************************************************************************)
EXTENDS Integers, FiniteSets, Backoff

CONSTANTS
  Callers,        \* goroutines that call Token
  Loop,           \* the refreshLoop goroutine
  ExpiresIn,      \* expires_in values the endpoint answers with
  HalfRange,      \* a Duration holds -HalfRange .. HalfRange - 1
  Window,         \* refreshFailureWindow
  InitBackoff,    \* time.Second in recordRefreshFailure
  MaxBackoff,     \* maxRefreshBackoff
  MinLead,        \* minRefreshLead
  DefaultLead,    \* defaultRefreshLead
  EndpointFails,  \* whether a token request may fail (or be cancelled)
  MaxTime,        \* bound: the clock stops here
  MaxCalls,       \* bound: Token calls per caller
  MaxLoopRuns     \* bound: wake-ups of refreshLoop

ASSUME CallersAssumption == Loop \notin Callers
ASSUME ExpiresAssumption == ExpiresIn \subseteq Nat \ {0}
ASSUME DurationAssumption ==
  /\ {HalfRange, Window, InitBackoff, MaxBackoff, MinLead, DefaultLead} \subseteq Nat \ {0}
  /\ InitBackoff <= MaxBackoff
  /\ MaxBackoff <= Window
  /\ 2 * MinLead <= DefaultLead
ASSUME BoundsAssumption ==
  /\ EndpointFails \in BOOLEAN
  /\ {MaxTime, MaxCalls, MaxLoopRuns} \subseteq Nat

VARIABLES
  clock,               \* m.clock
  token,               \* m.token; its id numbers token requests
  refreshFailures,     \* m.refreshFailures: [n : request, at : time]
  refreshBackoff,      \* m.refreshBackoff
  nextRefreshAttempt,  \* m.nextRefreshAttempt, 0 for the zero time
  degraded,            \* m.degraded
  degradedUntil,       \* m.degradedUntil, 0 for the zero time
  proactive,           \* m.proactiveRefreshAlive
  flight,              \* the "oauth-refresh" entry of m.refreshGroup
  requests,            \* token requests started
  pc,                  \* where each goroutine is
  frame,               \* per call of Token: its locals, see Frames
  wakeAt,              \* refreshLoop: when the timer fires
  result,              \* what the last Token call returned
  runs,                \* per goroutine: Token calls or wake-ups so far
  floor,               \* history: token in service when the call began; for the
                       \* loop the one when its delay was computed, 0 once replaced
  passed,              \* history: failures seen when the backoff check passed
  failureLog           \* history: every failure since the last success

state == <<token, refreshFailures, refreshBackoff, nextRefreshAttempt, degraded,
           degradedUntil, proactive, failureLog>>
calls == <<result, runs, floor>>
vars == <<clock, state, flight, requests, pc, frame, wakeAt, calls, passed>>

Actors == Callers \cup {Loop}
NoToken == [id |-> 0, expiresAt |-> 0, refreshAt |-> 0]
NoFlight == [phase |-> "none", ok |-> FALSE, token |-> NoToken, at |-> 0]
NoResult == [kind |-> "none", id |-> 0]
Error == [kind |-> "error", id |-> 0]
Served(t) == [kind |-> "token", id |-> t.id]

\* Locals of Token (token, now), of ensureAvailable (degradedUntil), and which
\* of the two called refreshToken; reset when the call returns.
NoFrame == [saw |-> NoToken, now |-> 0, until |-> 0, site |-> "token"]

-----------------------------------------------------------------------------
(* Pure parts of the code. *)

\* time.Duration(payload.ExpiresIn) * time.Second, which wraps around.
Lifetime(expiresIn) == ((expiresIn + HalfRange) % (2 * HalfRange)) - HalfRange

RefreshLeadTime(lifetime) ==
  IF lifetime <= 0 THEN 0
  ELSE IF lifetime <= 2 * MinLead THEN lifetime \div 2
  ELSE IF lifetime < DefaultLead THEN MinLead
  ELSE DefaultLead

\* The accessToken fetchToken builds; issuedAt is read after the answer.
TokenFrom(expiresIn) ==
  LET lifetime == Lifetime(expiresIn)
  IN  [id        |-> requests,
       expiresAt |-> clock + lifetime,
       refreshAt |-> clock + (lifetime - RefreshLeadTime(lifetime))]

ShouldRefresh(t, time) == t = NoToken \/ time >= t.refreshAt
TokenStillUsable(t, time) == t # NoToken /\ time < t.expiresAt
DelayedAt(time) == time < nextRefreshAttempt

\* Mutant: the window's older edge excluded.
WithinOpenWindow(failures, time) == {f \in failures : f.at > time - Window}

\* Entries not older than the window survive a new failure.
WithinWindow(failures, time) == {f \in failures : f.at >= time - Window}

\* A writer that waits for mu bars every new reader.
CanRead == flight.phase # "locking"
HoldsReadLock(a) == pc[a] = "measuring"

-----------------------------------------------------------------------------
(* NewOAuthManager: nothing else holds the manager yet, so the first token *)
(* request, its validation and recordRefreshSuccess are one step.          *)

Init ==
  /\ clock = 0
  /\ token = NoToken
  /\ refreshFailures = {}
  /\ failureLog = {}
  /\ refreshBackoff = 0
  /\ nextRefreshAttempt = 0
  /\ degraded = FALSE
  /\ degradedUntil = 0
  /\ proactive = TRUE
  /\ flight = NoFlight
  /\ requests = 0
  /\ pc = [a \in Actors |-> "unborn"]
  /\ frame = [c \in Callers |-> NoFrame]
  /\ wakeAt = 0
  /\ result = [c \in Callers |-> NoResult]
  /\ runs = [a \in Actors |-> 0]
  /\ floor = [a \in Actors |-> 0]
  /\ passed = [a \in Actors |-> 0]

BootRequest ==
  /\ requests = 0
  /\ requests' = 1
  /\ UNCHANGED <<clock, state, flight, pc, frame, wakeAt, calls, passed>>

\* The token is valid and the endpoint accepts it: the manager is published
\* and refreshLoop is started.
BootSucceeds(expiresIn) ==
  /\ requests = 1 /\ pc[Loop] = "unborn"
  /\ token' = TokenFrom(expiresIn)
  /\ pc' = [a \in Actors |-> IF a = Loop THEN "measure" ELSE "idle"]
  /\ UNCHANGED <<clock, refreshFailures, refreshBackoff, nextRefreshAttempt, degraded,
                 degradedUntil, proactive, failureLog, flight, requests, frame, wakeAt,
                 calls, passed>>

\* Fetch or validation fails: NewOAuthManager returns an error, no manager.
BootFails ==
  /\ requests = 1 /\ pc[Loop] = "unborn"
  /\ EndpointFails
  /\ pc' = [a \in Actors |-> "stopped"]
  /\ UNCHANGED <<clock, state, flight, requests, frame, wakeAt, calls, passed>>

-----------------------------------------------------------------------------
(* Manager.Token and ensureAvailable. *)

Goto(a, label) == pc' = [pc EXCEPT ![a] = label]

Return(c, outcome) ==
  /\ result' = [result EXCEPT ![c] = outcome]
  /\ frame' = [frame EXCEPT ![c] = NoFrame]
  /\ Goto(c, "idle")

\* The call goes on to refreshToken, called by Token or by ensureAvailable.
CallRefresh(c, site) ==
  /\ frame' = [frame EXCEPT ![c].now = IF site = "token" THEN clock ELSE @, ![c].site = site]
  /\ Goto(c, "backoff")
  /\ UNCHANGED result

unmoved == <<clock, state, flight, requests, wakeAt, runs, floor, passed>>

\* Entry of Token: read the token under mu.
Begin(c) ==
  /\ pc[c] = "idle" /\ CanRead
  /\ runs[c] < MaxCalls
  /\ runs' = [runs EXCEPT ![c] = @ + 1]
  /\ frame' = [frame EXCEPT ![c].saw = token]
  /\ floor' = [floor EXCEPT ![c] = token.id]
  /\ result' = [result EXCEPT ![c] = NoResult]
  /\ Goto(c, "check")
  /\ UNCHANGED <<clock, state, flight, requests, wakeAt, passed>>

\* Fresh enough: return it.
CheckFresh(c) ==
  /\ pc[c] = "check"
  /\ TokenStillUsable(frame[c].saw, clock) /\ ~ShouldRefresh(frame[c].saw, clock)
  /\ Return(c, Served(frame[c].saw))
  /\ UNCHANGED unmoved

\* Mutant: a token that is due goes through ensureAvailable, usable or not.
CheckDueEnsures(c) ==
  /\ pc[c] = "check"
  /\ TokenStillUsable(frame[c].saw, clock) /\ ShouldRefresh(frame[c].saw, clock)
  /\ Goto(c, "ensure")
  /\ UNCHANGED <<unmoved, frame, result>>

\* Mutant: a usable token is refreshed, due or not.
CheckDueEarly(c) ==
  /\ pc[c] = "check"
  /\ TokenStillUsable(frame[c].saw, clock)
  /\ CallRefresh(c, "token")
  /\ UNCHANGED unmoved

\* Usable but due: refresh it.
CheckDue(c) ==
  /\ pc[c] = "check"
  /\ TokenStillUsable(frame[c].saw, clock) /\ ShouldRefresh(frame[c].saw, clock)
  /\ CallRefresh(c, "token")
  /\ UNCHANGED unmoved

CheckExpired(c) ==
  /\ pc[c] = "check"
  /\ ~TokenStillUsable(frame[c].saw, clock)
  /\ Goto(c, "ensure")
  /\ UNCHANGED <<unmoved, frame, result>>

\* ensureAvailable: read degraded and degradedUntil under mu.
EnsureAvailable(c) ==
  /\ pc[c] = "ensure" /\ CanRead
  /\ \/ /\ ~degraded
        /\ Goto(c, "reread")
        /\ UNCHANGED frame
     \/ /\ degraded
        /\ frame' = [frame EXCEPT ![c].until = degradedUntil]
        /\ Goto(c, "cooldown")
  /\ UNCHANGED <<unmoved, result>>

\* ensureAvailable: fail inside the cooldown, refresh after it.
Cooldown(c) ==
  /\ pc[c] = "cooldown"
  /\ \/ clock < frame[c].until /\ Return(c, Error)
     \/ clock >= frame[c].until /\ CallRefresh(c, "ensure")
  /\ UNCHANGED unmoved

\* Token reads the token again once ensureAvailable let it through.
Reread(c) ==
  /\ pc[c] = "reread" /\ CanRead
  /\ frame' = [frame EXCEPT ![c] = [NoFrame EXCEPT !.saw = token]]
  /\ Goto(c, "recheck")
  /\ UNCHANGED <<unmoved, result>>

Recheck(c) ==
  /\ pc[c] = "recheck"
  /\ \/ ShouldRefresh(frame[c].saw, clock) /\ CallRefresh(c, "token")
     \/ ~ShouldRefresh(frame[c].saw, clock) /\ Return(c, Served(frame[c].saw))
  /\ UNCHANGED unmoved

-----------------------------------------------------------------------------
(* refreshToken and the shared flight. *)

\* Where a goroutine goes when refreshToken returns, ok or not.
PcAfter(a, ok) ==
  IF a = Loop THEN "measure"
  ELSE IF frame[a].site = "ensure" /\ ok THEN "reread"
  ELSE "idle"

\* Mutant: fall back on the token held without asking whether it is usable.
ResultAfterUnchecked(c, ok, t) ==
  IF frame[c].site = "ensure" THEN (IF ok THEN result[c] ELSE Error)
  ELSE IF ok THEN Served(t) ELSE Served(frame[c].saw)

\* What its Token call has returned by then: on failure Token falls back on
\* the token it holds if that was usable at the `now' it holds.
ResultAfter(c, ok, t) ==
  IF frame[c].site = "ensure" THEN (IF ok THEN result[c] ELSE Error)
  ELSE IF ok THEN Served(t)
  ELSE IF TokenStillUsable(frame[c].saw, frame[c].now) THEN Served(frame[c].saw)
  ELSE Error

\* refreshToken returns to all of S.
RefreshReturns(S, ok, t) ==
  /\ pc' = [a \in Actors |-> IF a \in S THEN PcAfter(a, ok) ELSE pc[a]]
  /\ result' = [c \in Callers |-> IF c \in S THEN ResultAfter(c, ok, t) ELSE result[c]]
  /\ frame' = [c \in Callers |-> IF c \in S THEN NoFrame ELSE frame[c]]

\* delayUntilRefreshAllowed bars the refresh: refreshToken fails at once.
BackedOff(a) ==
  /\ pc[a] = "backoff" /\ CanRead
  /\ DelayedAt(clock)
  /\ RefreshReturns({a}, FALSE, NoToken)
  /\ UNCHANGED unmoved

\* Mutant: no look at the backoff.
BackoffIgnored(a) ==
  /\ pc[a] = "backoff" /\ CanRead
  /\ passed' = [passed EXCEPT ![a] = Cardinality(failureLog)]
  /\ Goto(a, "join")
  /\ UNCHANGED <<clock, state, flight, requests, frame, wakeAt, calls>>

BackoffPassed(a) ==
  /\ pc[a] = "backoff" /\ CanRead
  /\ ~DelayedAt(clock)
  /\ passed' = [passed EXCEPT ![a] = Cardinality(failureLog)]
  /\ Goto(a, "join")
  /\ UNCHANGED <<clock, state, flight, requests, frame, wakeAt, calls>>

\* refreshGroup.Do with no flight under way: this goroutine fetches.
StartFlight(a) ==
  /\ pc[a] = "join"
  /\ flight = NoFlight
  /\ flight' = [NoFlight EXCEPT !.phase = "fetch"]
  /\ requests' = requests + 1
  /\ passed' = [passed EXCEPT ![a] = 0]
  /\ Goto(a, "wait")
  /\ UNCHANGED <<clock, state, frame, wakeAt, calls>>

\* refreshGroup.Do while a flight is under way: wait for its result.
JoinFlight(a) ==
  /\ pc[a] = "join"
  /\ flight # NoFlight
  /\ passed' = [passed EXCEPT ![a] = 0]
  /\ Goto(a, "wait")
  /\ UNCHANGED <<clock, state, flight, requests, frame, wakeAt, calls>>

FetchSucceeds(expiresIn) ==
  /\ flight.phase = "fetch"
  /\ flight' = [phase |-> "answered", ok |-> TRUE, token |-> TokenFrom(expiresIn), at |-> clock]
  /\ UNCHANGED <<clock, state, requests, pc, frame, wakeAt, calls, passed>>

\* A transport error, a status outside 2xx, a body without a usable token,
\* or the end of the context of the goroutine that started the flight;
\* recordRefreshFailure has read the clock.
FetchFails ==
  /\ flight.phase = "fetch"
  /\ EndpointFails
  /\ flight' = [phase |-> "answered", ok |-> FALSE, token |-> NoToken, at |-> clock]
  /\ UNCHANGED <<clock, state, requests, pc, frame, wakeAt, calls, passed>>

\* mu.Lock() finds the read lock held: the writer waits and bars readers.
WriterWaits ==
  /\ flight.phase = "answered"
  /\ \E a \in Actors : HoldsReadLock(a)
  /\ flight' = [flight EXCEPT !.phase = "locking"]
  /\ UNCHANGED <<clock, state, requests, pc, frame, wakeAt, calls, passed>>

CanWrite ==
  /\ flight.phase \in {"answered", "locking"}
  /\ \A a \in Actors : ~HoldsReadLock(a)

\* Mutant: the backoff outlives a successful refresh.
RecordKeepsBackoff ==
  /\ CanWrite /\ flight.ok
  /\ token' = flight.token
  /\ refreshFailures' = {} /\ failureLog' = {}
  /\ nextRefreshAttempt' = 0
  /\ degraded' = FALSE /\ degradedUntil' = 0 /\ proactive' = TRUE
  /\ flight' = [flight EXCEPT !.phase = "recorded"]
  /\ passed' = [a \in Actors |-> 0]
  /\ UNCHANGED <<clock, refreshBackoff, requests, pc, frame, wakeAt, calls>>

RecordRefreshSuccess ==
  /\ CanWrite /\ flight.ok
  /\ token' = flight.token
  /\ refreshFailures' = {}
  /\ failureLog' = {}
  /\ refreshBackoff' = 0
  /\ nextRefreshAttempt' = 0
  /\ degraded' = FALSE
  /\ degradedUntil' = 0
  /\ proactive' = TRUE
  /\ flight' = [flight EXCEPT !.phase = "recorded"]
  /\ passed' = [a \in Actors |-> 0]
  /\ floor' = [floor EXCEPT ![Loop] = 0]
  /\ UNCHANGED <<clock, requests, pc, frame, wakeAt, result, runs>>

\* Mutant: doubles without a cap.
UncappedBackoff == IF refreshBackoff = 0 THEN InitBackoff ELSE 2 * refreshBackoff

NextBackoff ==
  IF refreshBackoff = 0 THEN InitBackoff
  ELSE IF 2 * refreshBackoff < MaxBackoff THEN 2 * refreshBackoff
  ELSE MaxBackoff

\* Mutant: a failed refresh drops the token in service.
RecordDropsToken ==
  /\ CanWrite /\ ~flight.ok
  /\ token' = NoToken
  /\ flight' = [flight EXCEPT !.phase = "recorded"]
  /\ UNCHANGED <<clock, refreshFailures, refreshBackoff, nextRefreshAttempt, degraded,
                 degradedUntil, proactive, failureLog, requests, pc, frame, wakeAt, calls,
                 passed>>

RecordRefreshFailure ==
  /\ CanWrite /\ ~flight.ok
  /\ LET failure == [n |-> requests, at |-> flight.at]
     IN  /\ refreshFailures' = WithinWindow(refreshFailures, flight.at) \cup {failure}
         /\ failureLog' = failureLog \cup {failure}
  /\ refreshBackoff' = NextBackoff
  /\ nextRefreshAttempt' = flight.at + NextBackoff
  /\ IF Cardinality(refreshFailures') >= 3
     THEN /\ degraded' = TRUE
          /\ degradedUntil' = flight.at + Window
          /\ proactive' = FALSE
     ELSE UNCHANGED <<degraded, degradedUntil, proactive>>
  /\ flight' = [flight EXCEPT !.phase = "recorded"]
  /\ UNCHANGED <<clock, token, requests, pc, frame, wakeAt, calls, passed>>

\* Mutant: the waiters get the result before it is recorded.
DeliverUnrecorded ==
  /\ flight.phase \in {"answered", "recorded"}
  /\ RefreshReturns({a \in Actors : pc[a] = "wait"}, flight.ok, flight.token)
  /\ flight' = NoFlight
  /\ UNCHANGED <<clock, state, requests, wakeAt, runs, floor, passed>>

\* Mutant: nobody is told of a failed flight.
DeliverSuccessOnly ==
  /\ flight.phase = "recorded" /\ flight.ok
  /\ RefreshReturns({a \in Actors : pc[a] = "wait"}, flight.ok, flight.token)
  /\ flight' = NoFlight
  /\ UNCHANGED <<clock, state, requests, wakeAt, runs, floor, passed>>

\* The flight group drops the flight and hands its result to every waiter.
Deliver ==
  /\ flight.phase = "recorded"
  /\ RefreshReturns({a \in Actors : pc[a] = "wait"}, flight.ok, flight.token)
  /\ flight' = NoFlight
  /\ UNCHANGED <<clock, state, requests, wakeAt, runs, floor, passed>>

-----------------------------------------------------------------------------
(* refreshLoop and nextRefreshDelay. *)

LaterOf(t, u) == IF t < u THEN u ELSE t

\* nextRefreshDelay in degraded mode: sleep for a whole window.
MeasureDegraded ==
  /\ pc[Loop] = "measure" /\ CanRead
  /\ degraded \/ ~proactive
  /\ wakeAt' = clock + Window
  /\ floor' = [floor EXCEPT ![Loop] = token.id]
  /\ Goto(Loop, "sleep")
  /\ UNCHANGED <<clock, state, flight, requests, frame, result, runs, passed>>

\* nextRefreshDelay otherwise: keep the read lock and go for it again.
MeasureHolds ==
  /\ pc[Loop] = "measure" /\ CanRead
  /\ ~degraded /\ proactive
  /\ Goto(Loop, "measuring")
  /\ UNCHANGED <<clock, state, flight, requests, frame, wakeAt, calls, passed>>

\* delayUntilRefreshAllowed takes the read lock a second time.
MeasureAgain ==
  /\ pc[Loop] = "measuring" /\ CanRead
  /\ wakeAt' = LaterOf(clock, LaterOf(token.refreshAt, nextRefreshAttempt))
  /\ floor' = [floor EXCEPT ![Loop] = token.id]
  /\ Goto(Loop, "sleep")
  /\ UNCHANGED <<clock, state, flight, requests, frame, result, runs, passed>>

Wake ==
  /\ pc[Loop] = "sleep" /\ CanRead
  /\ clock >= wakeAt
  /\ runs[Loop] < MaxLoopRuns
  /\ runs' = [runs EXCEPT ![Loop] = @ + 1]
  /\ wakeAt' = 0
  /\ Goto(Loop, IF degraded \/ ~proactive THEN "measure" ELSE "backoff")
  /\ UNCHANGED <<clock, state, flight, requests, frame, result, floor, passed>>

\* The server shuts down: refreshLoop returns.
LoopStops ==
  /\ pc[Loop] = "sleep"
  /\ wakeAt' = 0
  /\ floor' = [floor EXCEPT ![Loop] = 0]
  /\ Goto(Loop, "stopped")
  /\ UNCHANGED <<clock, state, flight, requests, frame, result, runs, passed>>

Tick ==
  /\ clock < MaxTime
  /\ pc[Loop] # "unborn"
  /\ clock' = clock + 1
  /\ UNCHANGED <<state, flight, requests, pc, frame, wakeAt, calls, passed>>

-----------------------------------------------------------------------------
Boot == BootRequest \/ BootFails \/ \E e \in ExpiresIn : BootSucceeds(e)

TokenStep(c) ==
  \/ CheckFresh(c) \/ CheckDue(c) \/ CheckExpired(c)
  \/ EnsureAvailable(c) \/ Cooldown(c) \/ Reread(c) \/ Recheck(c)

RefreshStep(a) ==
  \/ BackedOff(a) \/ BackoffPassed(a) \/ StartFlight(a) \/ JoinFlight(a)

Answer == FetchFails \/ \E e \in ExpiresIn : FetchSucceeds(e)

FlightStep == WriterWaits \/ RecordRefreshSuccess \/ RecordRefreshFailure \/ Deliver

LoopStep == MeasureDegraded \/ MeasureHolds \/ MeasureAgain \/ Wake

Next ==
  \/ Boot
  \/ \E c \in Callers : Begin(c) \/ TokenStep(c)
  \/ \E a \in Actors : RefreshStep(a)
  \/ Answer
  \/ FlightStep
  \/ LoopStep
  \/ LoopStops
  \/ Tick

Spec == Init /\ [][Next]_vars

(***************************************************************************)
(* Goroutines are scheduled fairly, and a token request ends: the HTTP     *)
(* client has a timeout (internal/bootstrap/bootstrap.go:162).  Callers    *)
(* need not call, the loop need not be stopped, time need not pass.        *)
(***************************************************************************)
Fairness ==
  /\ \A c \in Callers : WF_vars(TokenStep(c))
  /\ \A a \in Actors : WF_vars(RefreshStep(a))
  /\ WF_vars(Answer)
  /\ WF_vars(FlightStep)
  /\ WF_vars(LoopStep)

FairSpec == Spec /\ Fairness
-----------------------------------------------------------------------------
(* Properties. *)

Tokens == [id : Nat, expiresAt : Int, refreshAt : Int]
Frames == [saw : Tokens, now : Nat, until : Nat, site : {"token", "ensure"}]
Flights == [phase : {"none", "fetch", "answered", "locking", "recorded"},
            ok : BOOLEAN, token : Tokens, at : Nat]
Results == [kind : {"none", "error", "token"}, id : Nat]
Failures == [n : Nat, at : Nat]
Labels == {"unborn", "stopped", "idle", "check", "ensure", "cooldown", "reread", "recheck",
           "backoff", "join", "wait", "measure", "measuring", "sleep"}

\* Type invariant of the manager, its flight and the goroutines' frame.
TypeOK ==
  /\ clock \in Nat
  /\ token \in Tokens
  /\ refreshFailures \in SUBSET Failures
  /\ failureLog \in SUBSET Failures /\ IsFiniteSet(failureLog)
  /\ refreshBackoff \in 0 .. MaxBackoff
  /\ nextRefreshAttempt \in Nat
  /\ degraded \in BOOLEAN
  /\ degradedUntil \in Nat
  /\ proactive \in BOOLEAN
  /\ flight \in Flights
  /\ requests \in Nat
  /\ pc \in [Actors -> Labels]
  /\ frame \in [Callers -> Frames]
  /\ wakeAt \in Int
  /\ result \in [Callers -> Results]
  /\ runs \in [Actors -> Nat]
  /\ floor \in [Actors -> Nat]
  /\ passed \in [Actors -> Nat]

\* recordRefreshFailure prunes its list at every failure and never clears
\* `degraded'.  Still, the manager is degraded exactly when, since the last
\* successful refresh, some window ended by a failure held three of them,
\* and the cooldown runs from the last such failure.
IsLastOf(f, failures) == f \in failures /\ \A g \in failures : g.at <= f.at

Trips == {f \in failureLog :
            Cardinality({g \in failureLog : f.at - Window <= g.at /\ g.n <= f.n}) >= 3}

DegradedIffTripped ==
  /\ degraded <=> Trips # {}
  /\ proactive <=> ~degraded
  /\ degraded => \E f \in Trips : IsLastOf(f, Trips) /\ degradedUntil = f.at + Window

\* The backoff counts every failure since the last success, also those the
\* window has forgotten: it doubles up to MaxBackoff, and the next attempt
\* is one backoff after the last failure.
BackoffFollowsFailures ==
  IF failureLog = {} THEN refreshBackoff = 0 /\ nextRefreshAttempt = 0
  ELSE /\ refreshBackoff = BackoffAfter(InitBackoff, MaxBackoff, Cardinality(failureLog))
       /\ \E f \in failureLog : /\ IsLastOf(f, failureLog)
                                /\ nextRefreshAttempt = f.at + refreshBackoff

\* A Token call never returns a token older than the one in service when the
\* call began, nor one that was never put in service, whichever goroutine
\* fetched it (oauth.go:142, 154, 163, 166).
NoTokenRegression ==
  \A c \in Callers : result[c].kind = "token" =>
    /\ result[c].id >= floor[c]
    /\ result[c].id <= token.id

\* A token a call returns without a successful refresh of its own or shared,
\* be it after a failed one, was live when the call last looked at the clock
\* (oauth.go:147, 165, 172).
Returns(c, kind) == pc[c] # "idle" /\ pc'[c] = "idle" /\ result'[c].kind = kind

LastLooked(c) == IF pc[c] \in {"check", "recheck"} THEN clock ELSE frame[c].now

CachedTokenWasLive ==
  [][\A c \in Callers : Returns(c, "token") /\ ~(pc[c] = "wait" /\ flight.ok)
                          => LastLooked(c) < frame[c].saw.expiresAt]_vars

\* A failed refresh is no error for a caller as long as the token it holds
\* has not expired (the claim of oauth_test.go:321 and 255).
ErrorOnlyOnceExpired ==
  [][\A c \in Callers : Returns(c, "error") => frame[c].saw.expiresAt <= clock]_vars

\* The backoff is checked before the flight is joined, so a token request
\* may start inside a backoff.  Only a goroutine that checked before the
\* last failure was recorded does that.
EarlyRequestWasRaced ==
  [][\A a \in Actors : StartFlight(a) /\ DelayedAt(clock)
                          => passed[a] < Cardinality(failureLog)]_vars

\* oauth_test.go:170: callers that find the same expired token share one
\* refresh, so no request starts while the token in service is not due.
RefreshOnlyWhenDue ==
  [][\A a \in Actors : StartFlight(a) => ShouldRefresh(token, clock)]_vars

\* What holds instead: a goroutine requests a token that is not due only if
\* another one was put in service since it last looked, a caller at the token
\* (oauth.go:133, 155) and refreshLoop when it computes its delay (201), after
\* which it may sleep for a whole window.
LastSeen(a) == IF a = Loop THEN floor[Loop] ELSE frame[a].saw.id

ExtraRequestWasRaced ==
  [][\A a \in Actors : StartFlight(a) /\ ~ShouldRefresh(token, clock)
                          => LastSeen(a) < token.id]_vars

\* The writer waits for the reader, which waits for the writer.
LockUp == flight.phase = "locking" /\ pc[Loop] = "measuring"

Calling(c) == pc[c] \notin {"unborn", "stopped", "idle"}

\* There is no way out of it: the loop stays where it is, also when the server
\* shuts down, the token is never replaced and no further call gets as far as
\* reading it (oauth.go:131, 181, 219-235, 372, 386, 421).
LockedUpForGood ==
  [][LockUp => /\ LockUp' /\ token' = token
               /\ \A c \in Callers : Calling(c)' => Calling(c)]_vars

\* A Token call returns unless refreshLoop and a finished refresh lock the
\* manager up: nothing else can keep a caller waiting.
CallsReturnOrLockUp == \A c \in Callers : Calling(c) ~> (~Calling(c) \/ LockUp)

\* oauth_test.go:162: every Token call returns.
CallsReturn == \A c \in Callers : Calling(c) ~> ~Calling(c)

(***************************************************************************)
(* The manager implements TokenSource: a refresh installs a token at       *)
(* recordRefreshSuccess, a call is pending from its first read to its      *)
(* return.                                                                 *)
(***************************************************************************)
CallStatus(c) ==
  IF Calling(c) THEN "pending"
  ELSE CASE result[c].kind = "none"  -> "idle"
         [] result[c].kind = "error" -> "failed"
         [] result[c].kind = "token" -> "served"

Source == INSTANCE TokenSource WITH
  latest <- token.id,
  calls  <- [c \in Callers |-> [status |-> CallStatus(c), floor |-> floor[c],
                                returned |-> result[c].id]]

ImplementsTokenSource == Source!Spec
=============================================================================
