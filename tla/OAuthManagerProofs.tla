------------------------- MODULE OAuthManagerProofs -------------------------
(***************************************************************************)
(* TLAPS proofs about OAuthManager, for any number of callers, any         *)
(* endpoint answers, any durations that meet the assumptions, and any      *)
(* value of the bounds.                                                    *)
(***************************************************************************)
EXTENDS OAuthManager, InductionTheorems, FiniteSetTheorems, TLAPS

(***************************************************************************)
(* Lemmas about the pure parts.                                            *)
(***************************************************************************)

\* The refresh lead never exceeds a positive lifetime, and a lifetime that
\* wrapped below zero has none (oauth.go:255-266).
LEMMA LeadWithinLifetime ==
  ASSUME NEW lifetime \in Int
  PROVE  /\ RefreshLeadTime(lifetime) \in Nat
         /\ lifetime > 0 => RefreshLeadTime(lifetime) <= lifetime
  BY DurationAssumption DEF RefreshLeadTime

\* A Duration is an integer whatever expires_in is (oauth.go:336).
LEMMA LifetimeType ==
  ASSUME NEW e \in ExpiresIn
  PROVE  Lifetime(e) \in Int
  BY ExpiresAssumption, DurationAssumption DEF Lifetime

LEMMA TokenFromType ==
  ASSUME NEW e \in ExpiresIn, TypeOK
  PROVE  /\ TokenFrom(e) \in Tokens
         /\ TokenFrom(e).id = requests
         /\ TokenFrom(e).refreshAt <= TokenFrom(e).expiresAt
<1> DEFINE l == Lifetime(e)
<1>1. l \in Int
  BY LifetimeType
<1>2. RefreshLeadTime(l) \in Nat
  BY <1>1, LeadWithinLifetime
<1>3. TokenFrom(e) = [id |-> requests, expiresAt |-> clock + l,
                      refreshAt |-> clock + (l - RefreshLeadTime(l))]
  BY DEF TokenFrom
<1> HIDE DEF l
<1>4. QED
  BY <1>1, <1>2, <1>3 DEF TypeOK, Tokens

LEMMA NextBackoffType ==
  ASSUME TypeOK
  PROVE  NextBackoff \in 1 .. MaxBackoff
  BY DurationAssumption DEF NextBackoff, TypeOK

\* The values the record variables start from.
LEMMA DefaultTypes ==
  /\ NoToken \in Tokens
  /\ NoFlight \in Flights
  /\ NoFrame \in Frames
  /\ NoResult \in Results
  /\ Error \in Results
  /\ \A t \in Tokens : Served(t) \in Results
  BY DEF NoToken, Tokens, NoFlight, Flights, NoFrame, Frames, NoResult, Error, Served, Results

LEMMA FrameTypes ==
  ASSUME NEW f \in Frames, NEW t \in Tokens, NEW n \in Nat, NEW s \in {"token", "ensure"}
  PROVE  /\ [f EXCEPT !.saw = t] \in Frames
         /\ [f EXCEPT !.until = n] \in Frames
         /\ [f EXCEPT !.now = n, !.site = s] \in Frames
         /\ [NoFrame EXCEPT !.saw = t] \in Frames
         /\ f.saw \in Tokens /\ f.now \in Nat /\ f.until \in Nat
  BY DefaultTypes DEF Frames

(***************************************************************************)
(* Type correctness.                                                       *)
(***************************************************************************)

LEMMA InitTypeOK == Init => TypeOK
<1> SUFFICES ASSUME Init PROVE TypeOK
  OBVIOUS
<1>1. IsFiniteSet({})
  BY FS_EmptySet
<1>2. /\ refreshBackoff \in 0 .. MaxBackoff
      /\ pc \in [Actors -> Labels] /\ runs \in [Actors -> Nat] /\ passed \in [Actors -> Nat]
  BY DurationAssumption DEF Init, Labels
<1>3. /\ frame \in [Callers -> Frames] /\ result \in [Callers -> Results]
      /\ floor \in [Actors -> Nat] /\ flight \in Flights /\ token \in Tokens
  BY DefaultTypes DEF Init
<1>4. degraded \in BOOLEAN /\ proactive \in BOOLEAN
  BY Zenon DEF Init
<1>5. clock \in Nat /\ nextRefreshAttempt \in Nat /\ degradedUntil \in Nat
      /\ requests \in Nat /\ wakeAt \in Int
  BY DEF Init
<1>6. /\ refreshFailures \in SUBSET Failures
      /\ failureLog \in SUBSET Failures /\ IsFiniteSet(failureLog)
  BY <1>1 DEF Init
<1>7. QED
  BY <1>2, <1>3, <1>4, <1>5, <1>6, Zenon DEF TypeOK

\* What refreshToken's return does to the goroutines keeps their types.
LEMMA RefreshReturnsType ==
  ASSUME TypeOK, NEW S \in SUBSET Actors, NEW ok \in BOOLEAN, NEW t \in Tokens,
         RefreshReturns(S, ok, t)
  PROVE  /\ pc' \in [Actors -> Labels]
         /\ result' \in [Callers -> Results]
         /\ frame' \in [Callers -> Frames]
<1>1. \A c \in Callers : ResultAfter(c, ok, t) \in Results
  BY DefaultTypes, FrameTypes DEF ResultAfter, TypeOK
<1>2. \A a \in Actors : PcAfter(a, ok) \in Labels
  BY DEF PcAfter, Labels
<1>3. QED
  BY <1>1, <1>2, DefaultTypes DEF RefreshReturns, TypeOK

LEMMA BootType ==
  ASSUME TypeOK, Boot
  PROVE  TypeOK'
<1>1. CASE BootRequest
  BY <1>1 DEF BootRequest, TypeOK, state, calls
<1>2. CASE BootFails
  BY <1>2 DEF BootFails, TypeOK, state, calls, Labels
<1>3. ASSUME NEW e \in ExpiresIn, BootSucceeds(e)
      PROVE  TypeOK'
  BY <1>3, TokenFromType DEF BootSucceeds, TypeOK, calls, Labels
<1>4. QED
  BY <1>1, <1>2, <1>3 DEF Boot

LEMMA TokenType ==
  ASSUME TypeOK, NEW c \in Callers, Begin(c) \/ TokenStep(c)
  PROVE  TypeOK'
<1> USE DEF TypeOK, Goto, unmoved, state, calls, Labels
<1>0. frame[c] \in Frames /\ c \in Actors
  BY DEF Actors
<1>a. ASSUME NEW r \in Results, Return(c, r), UNCHANGED unmoved
      PROVE  TypeOK'
  BY <1>0, <1>a, DefaultTypes DEF Return
<1>b. ASSUME NEW s \in {"token", "ensure"}, CallRefresh(c, s), UNCHANGED unmoved
      PROVE  TypeOK'
  <2>1. frame' \in [Callers -> Frames]
    <3> DEFINE n == IF s = "token" THEN clock ELSE frame[c].now
    <3>1. n \in Nat
      BY <1>0, FrameTypes
    <3>2. frame' = [frame EXCEPT ![c] = [frame[c] EXCEPT !.now = n, !.site = s]]
      BY <1>b DEF CallRefresh
    <3> HIDE DEF n
    <3>3. [frame[c] EXCEPT !.now = n, !.site = s] \in Frames
      BY <1>0, <3>1, FrameTypes
    <3>4. QED
      BY <3>2, <3>3
  <2>2. QED
    BY <1>0, <1>b, <2>1 DEF CallRefresh
<1>1. CASE Begin(c)
  <2>1. [frame[c] EXCEPT !.saw = token] \in Frames
    BY <1>0, FrameTypes
  <2>2. frame' = [frame EXCEPT ![c] = [frame[c] EXCEPT !.saw = token]]
    BY <1>1 DEF Begin
  <2>3. frame' \in [Callers -> Frames]
    BY <2>1, <2>2
  <2>4. token.id \in Nat
    BY DEF Tokens
  <2>5. runs' \in [Actors -> Nat]
    <3>1. runs[c] + 1 \in Nat
      BY <1>0
    <3>2. runs' = [runs EXCEPT ![c] = runs[c] + 1]
      BY <1>1 DEF Begin
    <3>3. QED
      BY <3>1, <3>2
  <2>6. floor' \in [Actors -> Nat] /\ result' \in [Callers -> Results]
    BY <1>1, <2>4, DefaultTypes DEF Begin
  <2>7. pc' \in [Actors -> Labels]
    BY <1>1 DEF Begin
  <2>8. QED
    BY <1>1, <2>3, <2>5, <2>6, <2>7 DEF Begin
<1>2. CASE CheckFresh(c)
  BY <1>0, <1>2, <1>a, DefaultTypes, FrameTypes DEF CheckFresh
<1>3. CASE CheckDue(c)
  BY <1>3, <1>b DEF CheckDue
<1>4. CASE CheckExpired(c)
  BY <1>0, <1>4 DEF CheckExpired
<1>5. CASE EnsureAvailable(c)
  <2>1. [frame[c] EXCEPT !.until = degradedUntil] \in Frames
    BY <1>0, FrameTypes
  <2>2. \/ frame' = frame
        \/ frame' = [frame EXCEPT ![c] = [frame[c] EXCEPT !.until = degradedUntil]]
    BY <1>5 DEF EnsureAvailable
  <2>3. frame' \in [Callers -> Frames]
    BY <2>1, <2>2
  <2>4. QED
    BY <1>0, <1>5, <2>3 DEF EnsureAvailable
<1>6. CASE Cooldown(c)
  BY <1>6, <1>a, <1>b, DefaultTypes DEF Cooldown
<1>7. CASE Reread(c)
  <2>1. [NoFrame EXCEPT !.saw = token] \in Frames
    BY <1>0, FrameTypes
  <2>2. QED
    BY <1>0, <1>7, <2>1 DEF Reread
<1>8. CASE Recheck(c)
  BY <1>0, <1>8, <1>a, <1>b, DefaultTypes, FrameTypes DEF Recheck
<1>9. QED
  BY <1>1, <1>2, <1>3, <1>4, <1>5, <1>6, <1>7, <1>8 DEF TokenStep

LEMMA RefreshType ==
  ASSUME TypeOK, NEW a \in Actors, RefreshStep(a)
  PROVE  TypeOK'
<1>1. CASE BackedOff(a)
  <2>1. NoToken \in Tokens
    BY DefaultTypes
  <2>2. RefreshReturns({a}, FALSE, NoToken)
    BY <1>1 DEF BackedOff
  <2>3. QED
    BY <1>1, <2>1, <2>2, RefreshReturnsType DEF BackedOff, TypeOK, unmoved, state
<1>2. CASE BackoffPassed(a)
  <2>1. Cardinality(failureLog) \in Nat
    BY FS_CardinalityType DEF TypeOK
  <2>2. QED
    BY <1>2, <2>1 DEF BackoffPassed, TypeOK, Goto, state, calls, Labels
<1>3. CASE StartFlight(a)
  <2>1. flight' \in Flights
    BY <1>3, DefaultTypes DEF StartFlight, Flights
  <2>2. QED
    BY <1>3, <2>1 DEF StartFlight, TypeOK, Goto, state, calls, Labels
<1>4. CASE JoinFlight(a)
  BY <1>4 DEF JoinFlight, TypeOK, Goto, state, calls, Labels
<1>5. QED
  BY <1>1, <1>2, <1>3, <1>4 DEF RefreshStep

LEMMA AnswerType ==
  ASSUME TypeOK, Answer
  PROVE  TypeOK'
<1>1. CASE FetchFails
  BY <1>1, DefaultTypes DEF FetchFails, TypeOK, state, calls, Flights
<1>2. ASSUME NEW e \in ExpiresIn, FetchSucceeds(e)
      PROVE  TypeOK'
  BY <1>2, TokenFromType DEF FetchSucceeds, TypeOK, state, calls, Flights
<1>3. QED
  BY <1>1, <1>2 DEF Answer

LEMMA FlightType ==
  ASSUME TypeOK, FlightStep
  PROVE  TypeOK'
<1>1. CASE WriterWaits
  BY <1>1 DEF WriterWaits, TypeOK, state, calls, Flights
<1>2. CASE RecordRefreshSuccess
  <2>1. IsFiniteSet({})
    BY FS_EmptySet
  <2>2. flight' \in Flights /\ token' \in Tokens
    BY <1>2 DEF RecordRefreshSuccess, TypeOK, Flights
  <2>3. refreshBackoff' \in 0 .. MaxBackoff
    BY <1>2, DurationAssumption DEF RecordRefreshSuccess
  <2>4. QED
    BY <1>2, <2>1, <2>2, <2>3 DEF RecordRefreshSuccess, TypeOK, calls
<1>3. CASE RecordRefreshFailure
  <2> DEFINE failure == [n |-> requests, at |-> flight.at]
  <2>1. failure \in Failures
    BY DEF TypeOK, Failures, Flights
  <2>2. /\ failureLog' = failureLog \cup {failure}
        /\ refreshFailures' = WithinWindow(refreshFailures, flight.at) \cup {failure}
    BY <1>3 DEF RecordRefreshFailure
  <2>3. /\ failureLog' \in SUBSET Failures
        /\ refreshFailures' \in SUBSET Failures
        /\ IsFiniteSet(failureLog')
    BY <2>1, <2>2, FS_AddElement DEF TypeOK, WithinWindow
  <2>4. /\ refreshBackoff' \in 0 .. MaxBackoff
        /\ nextRefreshAttempt' \in Nat
    BY <1>3, NextBackoffType, DurationAssumption DEF RecordRefreshFailure, TypeOK, Flights
  <2>5. /\ degraded' \in BOOLEAN
        /\ degradedUntil' \in Nat
        /\ proactive' \in BOOLEAN
    <3>1. CASE Cardinality(refreshFailures') >= 3
      <4>1. degraded' = TRUE /\ degradedUntil' = flight.at + Window /\ proactive' = FALSE
        BY <1>3, <3>1 DEF RecordRefreshFailure
      <4>2. degradedUntil' \in Nat
        BY <4>1, DurationAssumption DEF TypeOK, Flights
      <4>3. QED
        BY <4>1, <4>2, Zenon
    <3>2. CASE ~(Cardinality(refreshFailures') >= 3)
      BY <1>3, <3>2 DEF RecordRefreshFailure, TypeOK
    <3>3. QED
      BY <3>1, <3>2
  <2>6. flight' \in Flights
    BY <1>3 DEF RecordRefreshFailure, TypeOK, Flights
  <2>7. QED
    BY <1>3, <2>3, <2>4, <2>5, <2>6 DEF RecordRefreshFailure, TypeOK, calls
<1>4. CASE Deliver
  <2>1. RefreshReturns({a \in Actors : pc[a] = "wait"}, flight.ok, flight.token)
    BY <1>4 DEF Deliver
  <2>2. flight.ok \in BOOLEAN /\ flight.token \in Tokens
    BY DEF TypeOK, Flights
  <2>3. QED
    BY <1>4, <2>1, <2>2, RefreshReturnsType, DefaultTypes DEF Deliver, TypeOK, state
<1>5. QED
  BY <1>1, <1>2, <1>3, <1>4 DEF FlightStep

LEMMA LoopType ==
  ASSUME TypeOK, LoopStep \/ LoopStops
  PROVE  TypeOK'
<1> USE DurationAssumption DEF TypeOK, Goto, state, calls, Labels, Actors
<1>1. CASE MeasureDegraded
  BY <1>1 DEF MeasureDegraded, Tokens
<1>2. CASE MeasureHolds
  BY <1>2 DEF MeasureHolds
<1>3. CASE MeasureAgain
  BY <1>3 DEF MeasureAgain, LaterOf, Tokens
<1>4. CASE Wake
  BY <1>4 DEF Wake
<1>5. CASE LoopStops
  BY <1>5 DEF LoopStops
<1>6. QED
  BY <1>1, <1>2, <1>3, <1>4, <1>5 DEF LoopStep

LEMMA NextTypeOK == TypeOK /\ [Next]_vars => TypeOK'
<1> SUFFICES ASSUME TypeOK, [Next]_vars PROVE TypeOK'
  OBVIOUS
<1>1. CASE Tick
  BY <1>1 DEF Tick, TypeOK, state, calls
<1>2. CASE UNCHANGED vars
  BY <1>2 DEF vars, TypeOK, state, calls
<1>3. QED
  BY <1>1, <1>2, BootType, TokenType, RefreshType, AnswerType, FlightType, LoopType DEF Next

\* Every variable of the manager and its goroutines keeps its type.
THEOREM TypeCorrect == Spec => []TypeOK
<1>1. QED
  BY InitTypeOK, NextTypeOK, PTL DEF Spec

(***************************************************************************)
(* Tokens never go backwards.                                              *)
(*                                                                         *)
(* NoTokenRegression is not inductive: it needs that the flight carries    *)
(* the newest request, that a recorded flight carries the token in         *)
(* service, and that what a pending call read is between its floor and     *)
(* the token in service.                                                   *)
(***************************************************************************)

Unborn ==
  /\ \A a \in Actors : pc[a] = "unborn"
  /\ \A c \in Callers : result[c].kind = "none"
  /\ flight.phase = "none"
  /\ token.id = 0

FlightOrder ==
  /\ pc[Loop] = "unborn" => Unborn
  /\ pc[Loop] # "unborn" => requests >= 1
  /\ token.id <= requests
  /\ flight.phase \in {"fetch", "answered", "locking"} => token.id < requests
  /\ flight.ok /\ flight.phase \in {"answered", "locking"} => flight.token.id = requests
  /\ flight.ok /\ flight.phase = "recorded" => flight.token.id = token.id

\* The labels between the reading of the token and the return of the call,
\* where ensureAvailable has not refreshed the token yet.
Holding(c) == pc[c] \in {"check", "ensure", "cooldown", "recheck", "backoff", "join", "wait"}

CallOrder ==
  \A c \in Callers :
    /\ pc[c] \notin {"unborn", "stopped"} => token.id >= 1
    /\ Calling(c) => floor[c] <= token.id
    /\ Holding(c) => floor[c] <= frame[c].saw.id /\ frame[c].saw.id <= token.id
    /\ result[c].kind = "token" => floor[c] <= result[c].id /\ result[c].id <= token.id

TokenOrder == FlightOrder /\ CallOrder

LEMMA InitTokenOrder == Init => TokenOrder
  BY DEF Init, TokenOrder, FlightOrder, CallOrder, Unborn, Holding, Calling, NoToken, NoFlight,
         NoResult, Actors

LEMMA BootTokenOrder ==
  ASSUME TypeOK, TokenOrder, Boot
  PROVE  TokenOrder'
<1> USE DEF TypeOK, Actors, Tokens, Flights, TokenOrder, FlightOrder, CallOrder, Unborn,
            Holding, Calling
<1>1. CASE BootRequest
  BY <1>1 DEF BootRequest, state, calls
<1>2. CASE BootFails
  BY <1>2 DEF BootFails, state, calls
<1>3. ASSUME NEW e \in ExpiresIn, BootSucceeds(e)
      PROVE  TokenOrder'
  <2>1. token'.id = 1
    BY <1>3, TokenFromType DEF BootSucceeds
  <2>2. /\ flight' = flight /\ requests' = requests /\ requests = 1 /\ frame' = frame
        /\ result' = result /\ floor' = floor /\ pc[Loop] = "unborn"
        /\ \A c \in Callers : pc'[c] = "idle"
        /\ pc'[Loop] = "measure"
    BY <1>3, CallersAssumption DEF BootSucceeds, calls
  <2>3. FlightOrder'
    BY <2>1, <2>2
  <2>4. CallOrder'
    BY <2>1, <2>2
  <2>5. QED
    BY <2>3, <2>4
<1>4. QED
  BY <1>1, <1>2, <1>3 DEF Boot

LEMMA TokenStepOrder ==
  ASSUME TypeOK, TokenOrder, NEW c \in Callers, Begin(c) \/ TokenStep(c)
  PROVE  TokenOrder'
<1>1. /\ token' = token /\ flight' = flight /\ requests' = requests
      /\ pc[c] # "unborn" /\ pc'[c] # "unborn" /\ pc[c] # "stopped" /\ pc'[c] # "stopped"
      /\ \A a \in Actors \ {c} : pc'[a] = pc[a]
      /\ c \in Actors /\ Loop \in Actors /\ c # Loop
  BY CallersAssumption
  DEF Actors, TypeOK, TokenStep, Begin, CheckFresh, CheckDue, CheckExpired, EnsureAvailable,
      Cooldown, Reread, Recheck, Return, CallRefresh, Goto, unmoved, state
<1>2. FlightOrder'
  BY <1>1 DEF TokenOrder, FlightOrder, Unborn, TypeOK
<1>3. ASSUME NEW d \in Callers, d # c
      PROVE  pc'[d] = pc[d] /\ frame'[d] = frame[d] /\ floor'[d] = floor[d]
             /\ result'[d] = result[d]
  BY <1>3 DEF Actors, TypeOK, TokenStep, Begin, CheckFresh, CheckDue, CheckExpired,
      EnsureAvailable, Cooldown, Reread, Recheck, Return, CallRefresh, Goto, unmoved
<1>4. /\ pc'[c] \notin {"unborn", "stopped"} => token'.id >= 1
      /\ Calling(c)' => floor'[c] <= token'.id
      /\ Holding(c)' => floor'[c] <= frame'[c].saw.id /\ frame'[c].saw.id <= token'.id
      /\ result'[c].kind = "token" => floor'[c] <= result'[c].id /\ result'[c].id <= token'.id
  <2> USE <1>1 DEF Actors, TypeOK, Tokens, Frames, TokenOrder, CallOrder, Holding, Calling, Goto
  <2>1. CASE Begin(c)
    BY <2>1 DEF Begin, NoResult
  <2>2. CASE CheckFresh(c)
    BY <2>2 DEF CheckFresh, Return, Served, unmoved
  <2>3. CASE CheckDue(c)
    BY <2>3 DEF CheckDue, CallRefresh, unmoved
  <2>4. CASE CheckExpired(c)
    BY <2>4 DEF CheckExpired, unmoved
  <2>5. CASE EnsureAvailable(c)
    <3>1. /\ frame'[c].saw = frame[c].saw /\ pc'[c] \in {"reread", "cooldown"}
          /\ result' = result /\ floor' = floor /\ pc[c] = "ensure"
      BY <2>5 DEF EnsureAvailable, unmoved
    <3>2. QED
      BY <3>1
  <2>6. CASE Cooldown(c)
    <3>1. CASE Return(c, Error)
      <4>1. /\ pc'[c] = "idle" /\ result'[c] = Error
            /\ floor' = floor /\ pc[c] = "cooldown"
        BY <2>6, <3>1 DEF Cooldown, Return, unmoved
      <4>2. QED
        BY <4>1 DEF Error
    <3>2. CASE CallRefresh(c, "ensure")
      <4>1. /\ frame'[c].saw = frame[c].saw /\ pc'[c] = "backoff"
            /\ result' = result /\ floor' = floor /\ pc[c] = "cooldown"
        BY <2>6, <3>2 DEF Cooldown, CallRefresh, unmoved
      <4>2. QED
        BY <4>1
    <3>3. QED
      BY <2>6, <3>1, <3>2 DEF Cooldown
  <2>7. CASE Reread(c)
    BY <2>7 DEF Reread, NoFrame, unmoved
  <2>8. CASE Recheck(c)
    BY <2>8 DEF Recheck, Return, CallRefresh, Served, unmoved
  <2>9. QED
    BY <2>1, <2>2, <2>3, <2>4, <2>5, <2>6, <2>7, <2>8 DEF TokenStep
<1>5. CallOrder'
  BY <1>1, <1>3, <1>4 DEF TokenOrder, CallOrder, Holding, Calling
<1>6. QED
  BY <1>2, <1>5 DEF TokenOrder

\* When refreshToken returns, a caller is handed the token of the flight, if
\* that succeeded, or the one it held.
LEMMA ReturnOrder ==
  ASSUME TypeOK, TokenOrder, NEW S \in SUBSET Actors, NEW ok \in BOOLEAN, NEW t \in Tokens,
         \A a \in S : pc[a] \in {"backoff", "wait"},
         ok => t.id = token.id,
         RefreshReturns(S, ok, t), token' = token, floor' = floor
  PROVE  CallOrder'
<1> SUFFICES ASSUME NEW c \in Callers
             PROVE  /\ pc'[c] \notin {"unborn", "stopped"} => token'.id >= 1
                    /\ Calling(c)' => floor'[c] <= token'.id
                    /\ Holding(c)' => /\ floor'[c] <= frame'[c].saw.id
                                      /\ frame'[c].saw.id <= token'.id
                    /\ result'[c].kind = "token" => /\ floor'[c] <= result'[c].id
                                                    /\ result'[c].id <= token'.id
  BY DEF CallOrder
<1>1. c \in Actors /\ c # Loop
  BY CallersAssumption DEF Actors
<1>2. CASE c \notin S
  <2>1. pc'[c] = pc[c] /\ frame'[c] = frame[c] /\ result'[c] = result[c]
    BY <1>1, <1>2 DEF RefreshReturns
  <2>2. QED
    BY <2>1 DEF TokenOrder, CallOrder, Calling, Holding
<1>3. CASE c \in S
  <2>1. /\ pc'[c] = PcAfter(c, ok)
        /\ result'[c] = ResultAfter(c, ok, t)
    BY <1>1, <1>3 DEF RefreshReturns
  <2>2. pc'[c] \in {"reread", "idle"}
    BY <1>1, <2>1 DEF PcAfter
  <2>3. /\ Calling(c) /\ Holding(c)
        /\ pc[c] \notin {"unborn", "stopped"}
    BY <1>3 DEF Calling, Holding
  <2>4. /\ token.id >= 1 /\ floor[c] <= token.id
        /\ floor[c] <= frame[c].saw.id /\ frame[c].saw.id <= token.id
        /\ result[c].kind = "token" => floor[c] <= result[c].id /\ result[c].id <= token.id
    BY <2>3 DEF TokenOrder, CallOrder
  <2>5. result'[c].kind = "token" => floor[c] <= result'[c].id /\ result'[c].id <= token.id
    BY <2>1, <2>4 DEF ResultAfter, Served, Error, TypeOK, Tokens
  <2>6. QED
    BY <2>2, <2>4, <2>5 DEF Holding
<1>4. QED
  BY <1>2, <1>3

LEMMA RefreshStepOrder ==
  ASSUME TypeOK, TokenOrder, NEW a \in Actors, RefreshStep(a)
  PROVE  TokenOrder'
<1>1. CASE BackedOff(a)
  <2>1. RefreshReturns({a}, FALSE, NoToken) /\ NoToken \in Tokens
    BY <1>1, DefaultTypes DEF BackedOff
  <2>2. /\ token' = token /\ floor' = floor /\ flight' = flight /\ requests' = requests
        /\ pc[a] = "backoff"
    BY <1>1 DEF BackedOff, unmoved, state
  <2>3. CallOrder'
    <3>1. {a} \in SUBSET Actors /\ \A b \in {a} : pc[b] \in {"backoff", "wait"}
      BY <2>2
    <3>2. QED
      BY <2>1, <2>2, <3>1, ReturnOrder
  <2>4. pc[Loop] # "unborn" /\ pc'[Loop] # "unborn"
    BY <2>1, <2>2 DEF TokenOrder, FlightOrder, Unborn, RefreshReturns, PcAfter, Actors
  <2>5. QED
    BY <2>2, <2>3, <2>4 DEF TokenOrder, FlightOrder
<1>2. CASE BackoffPassed(a)
  BY <1>2 DEF BackoffPassed, Goto, TypeOK, state, calls, TokenOrder, FlightOrder, CallOrder,
              Unborn, Calling, Holding, Actors
<1>3. CASE StartFlight(a)
  BY <1>3 DEF StartFlight, NoFlight, Goto, TypeOK, Tokens, state, calls, TokenOrder,
              FlightOrder, CallOrder, Unborn, Calling, Holding, Actors
<1>4. CASE JoinFlight(a)
  BY <1>4 DEF JoinFlight, Goto, TypeOK, state, calls, TokenOrder, FlightOrder, CallOrder,
              Unborn, Calling, Holding, Actors
<1>5. QED
  BY <1>1, <1>2, <1>3, <1>4 DEF RefreshStep

LEMMA FlightStepOrder ==
  ASSUME TypeOK, TokenOrder, Answer \/ FlightStep
  PROVE  TokenOrder'
<1> USE DEF TypeOK, Tokens, Flights
<1>1. CASE FetchFails
  BY <1>1 DEF FetchFails, state, calls, TokenOrder, FlightOrder, CallOrder, Unborn, Calling,
              Holding
<1>2. ASSUME NEW e \in ExpiresIn, FetchSucceeds(e)
      PROVE  TokenOrder'
  BY <1>2, TokenFromType DEF FetchSucceeds, state, calls, TokenOrder, FlightOrder, CallOrder,
                             Unborn, Calling, Holding
<1>3. CASE WriterWaits
  BY <1>3 DEF WriterWaits, state, calls, TokenOrder, FlightOrder, CallOrder, Unborn, Calling,
              Holding
<1>4. CASE RecordRefreshSuccess
  <2>1. /\ token' = flight.token /\ requests' = requests /\ pc' = pc /\ frame' = frame
        /\ result' = result /\ \A c \in Callers : floor'[c] = floor[c]
        /\ flight'.phase = "recorded" /\ flight'.token = flight.token /\ flight'.ok = flight.ok
    BY <1>4, CallersAssumption DEF RecordRefreshSuccess, Actors
  <2>2. token'.id = requests /\ token.id < token'.id /\ pc[Loop] # "unborn"
    BY <1>4, <2>1 DEF RecordRefreshSuccess, CanWrite, TokenOrder, FlightOrder, Unborn
  <2>3. FlightOrder'
    BY <2>1, <2>2 DEF TokenOrder, FlightOrder
  <2>4. CallOrder'
    BY <2>1, <2>2 DEF TokenOrder, CallOrder, Calling, Holding, Frames, Results, Actors
  <2>5. QED
    BY <2>3, <2>4 DEF TokenOrder
<1>5. CASE RecordRefreshFailure
  <2>1. /\ token' = token /\ requests' = requests /\ pc' = pc /\ frame' = frame
        /\ result' = result /\ floor' = floor
        /\ flight'.phase = "recorded" /\ ~flight'.ok /\ pc[Loop] # "unborn"
    BY <1>5 DEF RecordRefreshFailure, calls, CanWrite, TokenOrder, FlightOrder, Unborn
  <2>2. QED
    BY <2>1 DEF TokenOrder, FlightOrder, CallOrder, Calling, Holding
<1>6. CASE Deliver
  <2> DEFINE S == {a \in Actors : pc[a] = "wait"}
  <2>1. RefreshReturns(S, flight.ok, flight.token)
    BY <1>6 DEF Deliver
  <2>2. /\ token' = token /\ floor' = floor /\ requests' = requests
        /\ flight'.phase = "none" /\ flight.phase = "recorded"
    BY <1>6 DEF Deliver, NoFlight, state
  <2>3. CallOrder'
    BY <2>1, <2>2, ReturnOrder DEF TokenOrder, FlightOrder
  <2>4. pc[Loop] # "unborn" /\ pc'[Loop] # "unborn"
    BY <2>1, <2>2 DEF TokenOrder, FlightOrder, Unborn, RefreshReturns, PcAfter, Actors
  <2>5. QED
    BY <2>2, <2>3, <2>4 DEF TokenOrder, FlightOrder
<1>7. QED
  BY <1>1, <1>2, <1>3, <1>4, <1>5, <1>6 DEF Answer, FlightStep

LEMMA LoopStepOrder ==
  ASSUME TypeOK, TokenOrder, LoopStep \/ LoopStops \/ Tick
  PROVE  TokenOrder'
<1>1. /\ token' = token /\ flight' = flight /\ requests' = requests /\ frame' = frame
      /\ result' = result
      /\ pc[Loop] # "unborn" /\ pc'[Loop] # "unborn"
      /\ \A c \in Callers : pc'[c] = pc[c] /\ floor'[c] = floor[c]
  BY CallersAssumption
  DEF LoopStep, MeasureDegraded, MeasureHolds, MeasureAgain, Wake, LoopStops, Tick, Goto,
      TypeOK, Actors, state, calls
<1>2. QED
  BY <1>1 DEF TokenOrder, FlightOrder, CallOrder, Calling, Holding

LEMMA NextTokenOrder == TypeOK /\ TokenOrder /\ [Next]_vars => TokenOrder'
<1> SUFFICES ASSUME TypeOK, TokenOrder, [Next]_vars PROVE TokenOrder'
  OBVIOUS
<1>1. CASE UNCHANGED vars
  BY <1>1 DEF vars, state, calls, TokenOrder, FlightOrder, CallOrder, Unborn, Calling, Holding
<1>2. QED
  BY <1>1, BootTokenOrder, TokenStepOrder, RefreshStepOrder, FlightStepOrder, LoopStepOrder
  DEF Next

THEOREM TokensInOrder == Spec => []TokenOrder
<1>1. QED
  BY InitTokenOrder, NextTokenOrder, TypeCorrect, PTL, InitTypeOK, NextTypeOK DEF Spec

\* A Token call never returns a token older than the one in service when it
\* began, nor one that is not yet in service, whoever fetched it.
THEOREM NoTokenRegressionHolds == Spec => []NoTokenRegression
<1>1. TypeOK /\ TokenOrder => NoTokenRegression
  BY DEF TokenOrder, CallOrder, NoTokenRegression, TypeOK, Results, Tokens
<1>2. QED
  BY <1>1, TypeCorrect, TokensInOrder, PTL

-----------------------------------------------------------------------------
(***************************************************************************)
(* Refinement of TokenSource.  A call that is pending has no result yet;   *)
(* with TokenOrder, what it returns lies between its floor and the token   *)
(* in service.                                                             *)
(***************************************************************************)
PendingHasNoResult == \A c \in Callers : Calling(c) => result[c] = NoResult

LEMMA InitPending == Init => PendingHasNoResult
  BY DEF Init, PendingHasNoResult

\* The manager's part of TokenStep, in the three ways it can end.
LEMMA TokenStepEnds ==
  ASSUME TypeOK, NEW c \in Callers, TokenStep(c)
  PROVE  /\ Calling(c)
         /\ UNCHANGED unmoved
         /\ \/ Calling(c)' /\ result' = result /\ pc' = [pc EXCEPT ![c] = pc'[c]]
            \/ Return(c, Error)
            \/ Return(c, Served(frame[c].saw)) /\ Holding(c)
<1> USE DEF Calling, Holding
<1>a. ASSUME NEW l \in Labels \ {"unborn", "stopped", "idle"}, Goto(c, l), result' = result
      PROVE  Calling(c)' /\ result' = result /\ pc' = [pc EXCEPT ![c] = pc'[c]]
  BY <1>a DEF Goto, TypeOK, Actors
<1> USE DEF Labels
<1>1. CASE CheckFresh(c)
  BY <1>1 DEF CheckFresh
<1>2. CASE CheckDue(c)
  BY <1>2, <1>a DEF CheckDue, CallRefresh
<1>3. CASE CheckExpired(c)
  BY <1>3, <1>a DEF CheckExpired
<1>4. CASE EnsureAvailable(c)
  BY <1>4, <1>a DEF EnsureAvailable
<1>5. CASE Cooldown(c)
  BY <1>5, <1>a DEF Cooldown, CallRefresh
<1>6. CASE Reread(c)
  BY <1>6, <1>a DEF Reread
<1>7. CASE Recheck(c)
  BY <1>7, <1>a DEF Recheck, CallRefresh
<1>8. QED
  BY <1>1, <1>2, <1>3, <1>4, <1>5, <1>6, <1>7 DEF TokenStep

AbstractCalls ==
  [c \in Callers |-> [status |-> CallStatus(c), floor |-> floor[c], returned |-> result[c].id]]

LEMMA AbstractCallsType == TypeOK => AbstractCalls \in [Callers -> Source!Calls]
  BY DEF TypeOK, AbstractCalls, CallStatus, Source!Calls, Source!Statuses, Results, Actors

\* A set of calls that return together is a Finish of TokenSource.
LEMMA FinishRefines ==
  ASSUME TypeOK, TypeOK', TokenOrder', PendingHasNoResult,
         token' = token, floor' = floor,
         NEW F \in SUBSET Callers,
         \A c \in F : Calling(c) /\ pc'[c] = "idle" /\ result'[c].kind \in {"token", "error"},
         \A c \in F : result'[c].kind = "error" => result'[c].id = 0,
         \A c \in Callers \ F : AbstractCalls'[c] = AbstractCalls[c]
  PROVE  Source!Finish(F)
<1>1. ASSUME NEW c \in F
      PROVE  AbstractCalls[c] = [status |-> "pending", floor |-> floor[c], returned |-> 0]
  BY DEF AbstractCalls, CallStatus, PendingHasNoResult, NoResult
<1>2. ASSUME NEW c \in F
      PROVE  AbstractCalls'[c] =
               [status |-> IF result'[c].kind = "token" THEN "served" ELSE "failed",
                floor |-> floor[c], returned |-> result'[c].id]
  BY DEF AbstractCalls, CallStatus, Calling
<1>3. ASSUME NEW c \in F
      PROVE  \/ AbstractCalls'[c] = [AbstractCalls[c] EXCEPT !.status = "failed"]
             \/ \E n \in AbstractCalls[c].floor .. token.id :
                  AbstractCalls'[c] = [status |-> "served", floor |-> AbstractCalls[c].floor,
                                       returned |-> n]
  <2> DEFINE old == [status |-> "pending", floor |-> floor[c], returned |-> 0]
  <2>1. CASE result'[c].kind = "error"
    <3>1. AbstractCalls'[c] = [status |-> "failed", floor |-> floor[c], returned |-> 0]
      BY <1>2, <2>1
    <3>2. [old EXCEPT !.status = "failed"]
            = [status |-> "failed", floor |-> floor[c], returned |-> 0]
      OBVIOUS
    <3>3. QED
      BY <1>1, <3>1, <3>2, Zenon
  <2>2. CASE result'[c].kind = "token"
    <3>1. floor[c] <= result'[c].id /\ result'[c].id <= token.id
      BY <2>2 DEF TokenOrder, CallOrder
    <3>2. result'[c].id \in floor[c] .. token.id
      BY <3>1 DEF TypeOK, Results, Tokens
    <3>3. AbstractCalls[c].floor = floor[c]
      BY DEF AbstractCalls
    <3>4. AbstractCalls'[c]
            = [status |-> "served", floor |-> floor[c], returned |-> result'[c].id]
      BY <1>2, <2>2
    <3>5. QED
      BY <3>2, <3>3, <3>4, Zenon
  <2>3. QED
    BY <2>1, <2>2
<1>4. AbstractCalls' \in [Callers -> Source!Calls]
  <2>1. TypeOK' => AbstractCalls' \in [Callers -> Source!Calls]
    BY DEF TypeOK, AbstractCalls, CallStatus, Source!Calls, Source!Statuses, Results, Actors
  <2>2. QED
    BY <2>1
<1>5. ASSUME NEW c \in F PROVE AbstractCalls[c].status = "pending"
  BY DEF AbstractCalls, CallStatus
<1>6. token.id' = token.id
  OBVIOUS
<1>7. QED
  BY <1>3, <1>4, <1>5, <1>6, Zenon DEF Source!Finish, AbstractCalls

\* Steps that move no call: the abstract calls stand still.
LEMMA CallsStandStill ==
  ASSUME result' = result,
         \A c \in Callers : floor'[c] = floor[c] /\ (Calling(c)' <=> Calling(c))
  PROVE  AbstractCalls' = AbstractCalls
  BY Zenon DEF AbstractCalls, CallStatus

\* The goroutines that leave refreshToken with their Token call finish it.
LEMMA ReturnsRefine ==
  ASSUME TypeOK, TypeOK', TokenOrder', PendingHasNoResult,
         NEW S \in SUBSET Actors, NEW ok, NEW t,
         \A a \in S : pc[a] \in {"backoff", "wait"},
         RefreshReturns(S, ok, t), token' = token, floor' = floor
  PROVE  Source!Next /\ PendingHasNoResult'
<1>0. PICK F \in SUBSET Callers : F = {c \in Callers : c \in S /\ pc'[c] = "idle"}
  OBVIOUS
<1>1. ASSUME NEW c \in Callers, c \in S
      PROVE  /\ Calling(c)
             /\ pc'[c] = PcAfter(c, ok) /\ result'[c] = ResultAfter(c, ok, t)
             /\ pc'[c] # "idle" => Calling(c)' /\ result'[c] = result[c]
             /\ pc'[c] = "idle" => /\ result'[c].kind \in {"token", "error"}
                                   /\ result'[c].kind = "error" => result'[c].id = 0
  <2>1. pc'[c] = PcAfter(c, ok) /\ result'[c] = ResultAfter(c, ok, t)
    BY <1>1 DEF RefreshReturns, Actors
  <2>2. Calling(c) /\ c # Loop
    BY <1>1, CallersAssumption DEF Calling
  <2>3. CASE frame[c].site = "ensure" /\ ok
    BY <2>1, <2>2, <2>3 DEF PcAfter, ResultAfter, Calling
  <2>4. CASE ~(frame[c].site = "ensure" /\ ok)
    <3>1. pc'[c] = "idle"
      BY <2>1, <2>2, <2>4 DEF PcAfter
    <3>2. result'[c] = Error \/ \E u : result'[c] = Served(u)
      BY <2>1, <2>4 DEF ResultAfter
    <3>3. QED
      BY <2>1, <2>2, <3>1, <3>2 DEF Error, Served
  <2>5. QED
    BY <2>3, <2>4
<1>2. ASSUME NEW c \in Callers, c \notin S
      PROVE  pc'[c] = pc[c] /\ result'[c] = result[c]
  BY <1>2 DEF RefreshReturns, Actors
<1>3. ASSUME NEW c \in Callers \ F
      PROVE  AbstractCalls'[c] = AbstractCalls[c]
  <2>1. CASE c \in S
    BY <1>0, <1>1, <1>3, <2>1 DEF AbstractCalls, CallStatus
  <2>2. CASE c \notin S
    BY <1>2, <1>3, <2>2 DEF AbstractCalls, CallStatus, Calling
  <2>3. QED
    BY <2>1, <2>2
<1>4. Source!Finish(F)
  BY <1>0, <1>1, <1>3, FinishRefines
<1>5. PendingHasNoResult'
  <2>1. ASSUME NEW c \in Callers, Calling(c)'
        PROVE  result'[c] = NoResult
    <3>1. CASE c \in S
      BY <1>1, <2>1, <3>1 DEF PendingHasNoResult, Calling
    <3>2. CASE c \notin S
      BY <1>2, <2>1, <3>2 DEF PendingHasNoResult, Calling
    <3>3. QED
      BY <3>1, <3>2
  <2>2. QED
    BY <2>1 DEF PendingHasNoResult
<1>6. QED
  BY <1>4, <1>5 DEF Source!Next

LEMMA TokenStepRefines ==
  ASSUME TypeOK, TypeOK', TokenOrder, TokenOrder', PendingHasNoResult,
         NEW c \in Callers, Begin(c) \/ TokenStep(c)
  PROVE  /\ PendingHasNoResult'
         /\ [Source!Next]_<<token.id, AbstractCalls>>
<1>0. c \in Actors
  BY DEF Actors
<1>1. CASE Begin(c)
  <2>1. /\ token' = token /\ pc[c] = "idle" /\ pc'[c] = "check"
        /\ result'[c] = NoResult /\ floor'[c] = token.id
        /\ \A d \in Callers \ {c} : /\ pc'[d] = pc[d] /\ result'[d] = result[d]
                                    /\ floor'[d] = floor[d]
    BY <1>0, <1>1 DEF Begin, Goto, state, TypeOK, Actors
  <2>2. token.id >= 1
    BY <2>1 DEF TokenOrder, CallOrder
  <2>3. AbstractCalls'[c] = [status |-> "pending", floor |-> token.id, returned |-> 0]
    BY <2>1 DEF AbstractCalls, CallStatus, Calling, NoResult
  <2>4. ASSUME NEW d \in Callers \ {c} PROVE AbstractCalls'[d] = AbstractCalls[d]
    BY <2>1 DEF AbstractCalls, CallStatus, Calling
  <2>5. AbstractCalls[c].status # "pending"
    BY <2>1 DEF AbstractCalls, CallStatus, Calling, TypeOK, Results
  <2>6. AbstractCalls' = [AbstractCalls EXCEPT ![c] =
                            [status |-> "pending", floor |-> token.id, returned |-> 0]]
    BY <2>3, <2>4 DEF AbstractCalls
  <2>7. Source!Begin(c)
    <3>1. token.id' = token.id /\ token.id > 0
      BY <2>1, <2>2 DEF TypeOK, Tokens
    <3>2. QED
      BY <2>5, <2>6, <3>1, Zenon DEF Source!Begin, AbstractCalls
  <2>8. PendingHasNoResult'
    BY <2>1 DEF PendingHasNoResult, Calling
  <2>9. QED
    BY <2>7, <2>8 DEF Source!Next
<1>2. CASE TokenStep(c) /\ Calling(c)' /\ result' = result /\ pc' = [pc EXCEPT ![c] = pc'[c]]
  <2>1. Calling(c) /\ token' = token /\ floor' = floor
    BY <1>2, TokenStepEnds DEF unmoved, state
  <2>2. \A d \in Callers : Calling(d)' <=> Calling(d)
    BY <1>0, <1>2, <2>1 DEF Calling, TypeOK, Actors
  <2>3. AbstractCalls' = AbstractCalls
    BY <1>2, <2>1, <2>2, CallsStandStill
  <2>4. PendingHasNoResult'
    BY <1>2, <2>2 DEF PendingHasNoResult
  <2>5. QED
    BY <2>1, <2>3, <2>4
<1>3. ASSUME TokenStep(c), NEW o, Return(c, o), o = Error \/ o = Served(frame[c].saw)
      PROVE  PendingHasNoResult' /\ Source!Next
  <2>1. /\ Calling(c) /\ token' = token /\ floor' = floor
        /\ pc'[c] = "idle" /\ result'[c] = o
        /\ \A d \in Callers \ {c} : pc'[d] = pc[d] /\ result'[d] = result[d]
    BY <1>0, <1>3, TokenStepEnds DEF unmoved, state, Return, Goto, TypeOK, Actors
  <2>2. o.kind \in {"token", "error"} /\ (o.kind = "error" => o.id = 0)
    BY <1>3 DEF Error, Served
  <2>3. ASSUME NEW d \in Callers \ {c} PROVE AbstractCalls'[d] = AbstractCalls[d]
    BY <2>1 DEF AbstractCalls, CallStatus, Calling
  <2>4. Source!Finish({c})
    BY <2>1, <2>2, <2>3, FinishRefines
  <2>5. PendingHasNoResult'
    BY <2>1 DEF PendingHasNoResult, Calling
  <2>6. QED
    BY <2>4, <2>5 DEF Source!Next
<1>4. QED
  BY <1>1, <1>2, <1>3, TokenStepEnds

LEMMA RefreshStepRefines ==
  ASSUME TypeOK, TypeOK', TokenOrder', PendingHasNoResult,
         NEW a \in Actors, RefreshStep(a)
  PROVE  /\ PendingHasNoResult'
         /\ [Source!Next]_<<token.id, AbstractCalls>>
<1>1. CASE BackedOff(a)
  <2>1. /\ RefreshReturns({a}, FALSE, NoToken) /\ token' = token /\ floor' = floor
        /\ \A b \in {a} : pc[b] \in {"backoff", "wait"}
    BY <1>1 DEF BackedOff, unmoved, state
  <2>2. {a} \in SUBSET Actors
    OBVIOUS
  <2>3. QED
    BY <2>1, <2>2, ReturnsRefine
<1>2. CASE ~BackedOff(a)
  <2>1. /\ token' = token /\ floor' = floor /\ result' = result
        /\ \A c \in Callers : Calling(c)' <=> Calling(c)
    BY <1>2 DEF RefreshStep, BackoffPassed, StartFlight, JoinFlight, Goto, state, calls, Calling,
                TypeOK, Actors
  <2>2. QED
    BY <2>1, CallsStandStill DEF PendingHasNoResult
<1>3. QED
  BY <1>1, <1>2

\* Steps of the flight other than Deliver, of the loop, of boot and time.
LEMMA OtherStepRefines ==
  ASSUME TypeOK, TypeOK', TokenOrder, PendingHasNoResult,
         Boot \/ Answer \/ (FlightStep /\ ~Deliver) \/ LoopStep \/ LoopStops \/ Tick
           \/ UNCHANGED vars
  PROVE  /\ PendingHasNoResult'
         /\ [Source!Next]_<<token.id, AbstractCalls>>
<1>1. result' = result /\ \A c \in Callers : floor'[c] = floor[c]
  BY CallersAssumption
  DEF Boot, BootRequest, BootFails, BootSucceeds, Answer, FetchFails, FetchSucceeds,
      FlightStep, WriterWaits, RecordRefreshSuccess, RecordRefreshFailure, LoopStep,
      MeasureDegraded, MeasureHolds, MeasureAgain, Wake, LoopStops, Tick, vars, calls,
      TypeOK, Actors
<1>2. \A c \in Callers : Calling(c)' <=> Calling(c)
  <2>1. CASE Boot
    <3>1. CASE BootRequest
      BY <3>1 DEF BootRequest, Calling
    <3>2. CASE ~BootRequest
      <4>1. \A c \in Callers : c # Loop /\ pc[c] = "unborn" /\ pc'[c] \in {"idle", "stopped"}
        BY <2>1, <3>2, CallersAssumption DEF Boot, BootFails, BootSucceeds, TokenOrder,
           FlightOrder, Unborn, Actors
      <4>2. QED
        BY <4>1 DEF Calling
    <3>3. QED
      BY <3>1, <3>2
  <2>2. CASE Answer \/ (FlightStep /\ ~Deliver) \/ Tick \/ UNCHANGED vars
    BY <2>2 DEF Answer, FetchFails, FetchSucceeds, FlightStep, WriterWaits,
                RecordRefreshSuccess, RecordRefreshFailure, Tick, vars, Calling
  <2>3. CASE LoopStep \/ LoopStops
    BY <2>3, CallersAssumption
    DEF LoopStep, MeasureDegraded, MeasureHolds, MeasureAgain, Wake, LoopStops, Goto, Calling,
        TypeOK, Actors
  <2>4. QED
    BY <2>1, <2>2, <2>3
<1>3. AbstractCalls' = AbstractCalls /\ PendingHasNoResult'
  BY <1>1, <1>2, CallsStandStill DEF PendingHasNoResult
<1>4. token' = token \/ token.id' > token.id
  <2>1. CASE \E e \in ExpiresIn : BootSucceeds(e)
    <3>1. PICK e \in ExpiresIn : BootSucceeds(e)
      BY <2>1
    <3>2. token'.id = 1 /\ token.id = 0
      BY <3>1, TokenFromType DEF BootSucceeds, TokenOrder, FlightOrder, Unborn
    <3>3. QED
      BY <3>2
  <2>2. CASE RecordRefreshSuccess
    BY <2>2 DEF RecordRefreshSuccess, CanWrite, TokenOrder, FlightOrder, TypeOK, Tokens, Flights
  <2>3. CASE ~(\E e \in ExpiresIn : BootSucceeds(e)) /\ ~RecordRefreshSuccess
    BY <2>3 DEF Boot, BootRequest, BootFails, Answer, FetchFails, FetchSucceeds,
         FlightStep, WriterWaits, RecordRefreshFailure, LoopStep,
         MeasureDegraded, MeasureHolds, MeasureAgain, Wake, LoopStops, Tick, vars, state
  <2>4. QED
    BY <2>1, <2>2, <2>3
<1>5. CASE token.id' > token.id
  <2>1. token.id' \in Nat
    BY DEF TypeOK, Tokens
  <2>2. Source!Install
    BY <1>3, <1>5, <2>1, Zenon DEF Source!Install, AbstractCalls
  <2>3. QED
    BY <1>3, <2>2 DEF Source!Next
<1>6. CASE token' = token
  BY <1>3, <1>6
<1>7. QED
  BY <1>4, <1>5, <1>6

LEMMA DeliverRefines ==
  ASSUME TypeOK, TypeOK', TokenOrder', PendingHasNoResult, Deliver
  PROVE  PendingHasNoResult' /\ Source!Next
<1> DEFINE S == {a \in Actors : pc[a] = "wait"}
<1>1. RefreshReturns(S, flight.ok, flight.token) /\ token' = token /\ floor' = floor
  BY DEF Deliver, state
<1>2. S \in SUBSET Actors /\ \A a \in S : pc[a] \in {"backoff", "wait"}
  OBVIOUS
<1> HIDE DEF S
<1>3. QED
  BY <1>1, <1>2, ReturnsRefine

\* Every Token call fails or returns a token that is not older than the one
\* in service when it began and has been in service: the manager implements
\* TokenSource.
THEOREM Refines == Spec => ImplementsTokenSource
<1>1. Init => Source!Init
  BY DEF Init, Source!Init, CallStatus, Calling, NoResult, NoToken, Actors
<1>2. TypeOK /\ TypeOK' /\ TokenOrder /\ TokenOrder' /\ PendingHasNoResult /\ [Next]_vars
        => PendingHasNoResult' /\ [Source!Next]_<<token.id, AbstractCalls>>
  BY TokenStepRefines, RefreshStepRefines, OtherStepRefines, DeliverRefines DEF Next
<1>3. QED
  BY <1>1, <1>2, InitPending, TypeCorrect, TokensInOrder, PTL
  DEF Spec, ImplementsTokenSource, Source!Spec, Source!vars, AbstractCalls

-----------------------------------------------------------------------------
(***************************************************************************)
(* What a call may return without a refresh: a token is due before it      *)
(* expires, a caller's reading of the clock is in the past, and a caller   *)
(* in ensureAvailable holds a token that has expired.                      *)
(***************************************************************************)
DueFirst(t) == t.refreshAt <= t.expiresAt

FrameTimes(c) ==
  /\ DueFirst(frame[c].saw)
  /\ frame[c].now <= clock
  /\ \/ pc[c] \in {"ensure", "cooldown"}
     \/ pc[c] \in {"backoff", "join", "wait"} /\ frame[c].site = "ensure"
     => frame[c].saw.expiresAt <= clock

CallTimes ==
  /\ DueFirst(token)
  /\ DueFirst(flight.token)
  /\ \A c \in Callers : FrameTimes(c)

LEMMA InitCallTimes == Init => CallTimes
  BY DEF Init, CallTimes, FrameTimes, DueFirst, NoToken, NoFlight, NoFrame, Actors

LEMMA TokenStepTimes ==
  ASSUME TypeOK, CallTimes, NEW c \in Callers, Begin(c) \/ TokenStep(c)
  PROVE  CallTimes'
<1>1. /\ token' = token /\ flight' = flight /\ clock' = clock /\ c \in Actors
      /\ \A d \in Callers \ {c} : pc'[d] = pc[d] /\ frame'[d] = frame[d]
  BY DEF Actors, TypeOK, TokenStep, Begin, CheckFresh, CheckDue, CheckExpired, EnsureAvailable,
      Cooldown, Reread, Recheck, Return, CallRefresh, Goto, unmoved, state
<1>2. FrameTimes(c)'
  <2> USE <1>1 DEF TypeOK, Frames, Tokens, CallTimes, FrameTimes, DueFirst, Goto
  <2>a. ASSUME NEW s \in {"token", "ensure"}, CallRefresh(c, s),
               s = "ensure" => frame[c].saw.expiresAt <= clock
        PROVE  FrameTimes(c)'
    <3>1. /\ frame'[c].saw = frame[c].saw /\ frame'[c].now \in {clock, frame[c].now}
          /\ frame'[c].site = s /\ pc'[c] = "backoff"
      BY <2>a DEF CallRefresh
    <3>2. QED
      BY <2>a, <3>1
  <2>b. ASSUME NEW r, Return(c, r)
        PROVE  FrameTimes(c)'
    BY <2>b DEF Return, NoFrame, NoToken
  <2>1. CASE Begin(c)
    BY <2>1 DEF Begin
  <2>2. CASE CheckFresh(c)
    BY <2>2, <2>b DEF CheckFresh
  <2>3. CASE CheckDue(c)
    BY <2>3, <2>a DEF CheckDue
  <2>4. CASE CheckExpired(c)
    BY <2>4 DEF CheckExpired, TokenStillUsable, NoToken
  <2>5. CASE EnsureAvailable(c)
    <3>1. /\ frame'[c].saw = frame[c].saw /\ frame'[c].now = frame[c].now
          /\ frame'[c].site = frame[c].site /\ pc'[c] \in {"reread", "cooldown"}
          /\ pc[c] = "ensure"
      BY <2>5 DEF EnsureAvailable
    <3>2. QED
      BY <3>1
  <2>6. CASE Cooldown(c)
    BY <2>6, <2>a, <2>b DEF Cooldown
  <2>7. CASE Reread(c)
    BY <2>7 DEF Reread, NoFrame
  <2>8. CASE Recheck(c)
    BY <2>8, <2>a, <2>b DEF Recheck
  <2>9. QED
    BY <2>1, <2>2, <2>3, <2>4, <2>5, <2>6, <2>7, <2>8 DEF TokenStep
<1>3. QED
  BY <1>1, <1>2 DEF CallTimes, FrameTimes

LEMMA ReturnTimes ==
  ASSUME TypeOK, CallTimes, NEW S \in SUBSET Actors, NEW ok, NEW t,
         RefreshReturns(S, ok, t), clock' = clock
  PROVE  \A c \in Callers : FrameTimes(c)'
<1> SUFFICES ASSUME NEW c \in Callers PROVE FrameTimes(c)'
  OBVIOUS
<1>1. CASE c \in S
  <2>1. frame'[c] = NoFrame /\ pc'[c] = PcAfter(c, ok)
    BY <1>1 DEF RefreshReturns, Actors
  <2>2. QED
    BY <2>1 DEF FrameTimes, PcAfter, NoFrame, NoToken, DueFirst, TypeOK
<1>2. CASE c \notin S
  BY <1>2 DEF RefreshReturns, Actors, CallTimes, FrameTimes
<1>3. QED
  BY <1>1, <1>2

LEMMA NextCallTimes == TypeOK /\ CallTimes /\ [Next]_vars => CallTimes'
<1> SUFFICES ASSUME TypeOK, CallTimes, [Next]_vars PROVE CallTimes'
  OBVIOUS
<1>a. ASSUME clock' = clock, frame' = frame, DueFirst(token'), DueFirst(flight'.token),
             \A c \in Callers : \/ pc'[c] = pc[c]
                                \/ pc'[c] \notin {"ensure", "cooldown", "backoff", "join", "wait"}
                                \/ pc[c] \in {"backoff", "join"} /\ pc'[c] \in {"join", "wait"}
      PROVE  CallTimes'
  BY <1>a DEF CallTimes, FrameTimes, DueFirst
<1>b. DueFirst(token) /\ DueFirst(flight.token) /\ DueFirst(NoToken)
  BY DEF CallTimes, DueFirst, NoToken
<1>1. CASE Boot
  <2>1. CASE BootRequest \/ BootFails
    BY <1>a, <1>b, <2>1 DEF BootRequest, BootFails, state, Actors
  <2>2. ASSUME NEW e \in ExpiresIn, BootSucceeds(e) PROVE CallTimes'
    <3>1. DueFirst(token')
      BY <2>2, TokenFromType DEF BootSucceeds, DueFirst
    <3>2. QED
      BY <1>a, <1>b, <2>2, <3>1, CallersAssumption DEF BootSucceeds, Actors
  <2>3. QED
    BY <1>1, <2>1, <2>2 DEF Boot
<1>2. ASSUME NEW a \in Actors, RefreshStep(a) PROVE CallTimes'
  <2>1. CASE BackedOff(a)
    <3>1. /\ RefreshReturns({a}, FALSE, NoToken) /\ clock' = clock
          /\ token' = token /\ flight' = flight /\ {a} \in SUBSET Actors
      BY <2>1 DEF BackedOff, unmoved, state
    <3>2. QED
      BY <3>1, ReturnTimes DEF CallTimes, DueFirst
  <2>2. CASE BackoffPassed(a) \/ JoinFlight(a)
    BY <1>a, <1>b, <2>2 DEF BackoffPassed, JoinFlight, Goto, TypeOK, state, Actors
  <2>3. CASE StartFlight(a)
    BY <1>a, <1>b, <2>3 DEF StartFlight, NoFlight, Goto, TypeOK, state, Actors
  <2>4. QED
    BY <1>2, <2>1, <2>2, <2>3 DEF RefreshStep
<1>3. CASE Answer
  <2>1. CASE FetchFails
    BY <1>a, <1>b, <2>1 DEF FetchFails, state
  <2>2. ASSUME NEW e \in ExpiresIn, FetchSucceeds(e) PROVE CallTimes'
    <3>1. DueFirst(flight'.token)
      BY <2>2, TokenFromType DEF FetchSucceeds, DueFirst
    <3>2. QED
      BY <1>a, <1>b, <2>2, <3>1 DEF FetchSucceeds, state
  <2>3. QED
    BY <1>3, <2>1, <2>2 DEF Answer
<1>4. CASE FlightStep
  <2>1. CASE WriterWaits
    BY <1>a, <1>b, <2>1 DEF WriterWaits, state, TypeOK, Flights
  <2>2. CASE RecordRefreshSuccess
    BY <1>a, <1>b, <2>2 DEF RecordRefreshSuccess, TypeOK, Flights
  <2>3. CASE RecordRefreshFailure
    <3>1. /\ token' = token /\ flight'.token = flight.token /\ clock' = clock
          /\ frame' = frame /\ pc' = pc
      BY <2>3 DEF RecordRefreshFailure, TypeOK, Flights
    <3>2. QED
      BY <1>a, <1>b, <3>1
  <2>4. CASE Deliver
    <3>1. /\ RefreshReturns({a \in Actors : pc[a] = "wait"}, flight.ok, flight.token)
          /\ clock' = clock /\ token' = token /\ flight'.token = NoToken
      BY <2>4 DEF Deliver, NoFlight, state
    <3>2. \A c \in Callers : FrameTimes(c)'
      BY <3>1, ReturnTimes
    <3>3. QED
      BY <1>b, <3>1, <3>2 DEF CallTimes, DueFirst
  <2>5. QED
    BY <1>4, <2>1, <2>2, <2>3, <2>4 DEF FlightStep
<1>5. CASE LoopStep \/ LoopStops
  BY <1>a, <1>b, <1>5, CallersAssumption
  DEF LoopStep, MeasureDegraded, MeasureHolds, MeasureAgain, Wake, LoopStops, Goto, TypeOK,
      Actors, state
<1>6. CASE Tick
  BY <1>6 DEF Tick, state, CallTimes, FrameTimes, DueFirst, TypeOK, Frames, Tokens
<1>7. CASE UNCHANGED vars
  BY <1>7 DEF vars, state, CallTimes, FrameTimes, DueFirst
<1>8. QED
  BY <1>1, <1>2, <1>3, <1>4, <1>5, <1>6, <1>7, TokenStepTimes DEF Next

\* The steps by which a Token call returns.
LEMMA WaysToReturn ==
  ASSUME TypeOK, TokenOrder, Next, NEW c \in Callers, pc[c] # "idle", pc'[c] = "idle"
  PROVE  \/ result'[c].kind = "none"
         \/ CheckFresh(c) \/ Cooldown(c) \/ Recheck(c)
         \/ \E S \in SUBSET Actors, t \in Tokens :
              c \in S /\ pc[c] = "backoff" /\ RefreshReturns(S, FALSE, t)
         \/ \E S \in SUBSET Actors :
              c \in S /\ pc[c] = "wait" /\ RefreshReturns(S, flight.ok, flight.token)
<1>0. c \in Actors /\ c # Loop
  BY CallersAssumption DEF Actors
<1>1. CASE Boot
  BY <1>0, <1>1 DEF Boot, BootRequest, BootFails, BootSucceeds, TokenOrder, FlightOrder, Unborn,
                    Actors, calls
<1>2. ASSUME NEW d \in Callers, Begin(d) \/ TokenStep(d)
      PROVE  CheckFresh(c) \/ Cooldown(c) \/ Recheck(c)
  BY <1>0, <1>2 DEF TokenStep, Begin, CheckFresh, CheckDue, CheckExpired, EnsureAvailable,
     Cooldown, Reread, Recheck, CallRefresh, Return, Goto, TypeOK, Actors
<1>3. ASSUME NEW a \in Actors, RefreshStep(a)
      PROVE  \E S \in SUBSET Actors, t \in Tokens :
               c \in S /\ pc[c] = "backoff" /\ RefreshReturns(S, FALSE, t)
  <2>1. BackedOff(a)
    BY <1>0, <1>3 DEF RefreshStep, BackoffPassed, StartFlight, JoinFlight, Goto, TypeOK, Actors
  <2>2. pc[a] = "backoff" /\ RefreshReturns({a}, FALSE, NoToken)
    BY <2>1 DEF BackedOff
  <2>3. c = a
    BY <1>0, <2>2 DEF RefreshReturns
  <2>4. QED
    BY <1>0, <2>2, <2>3, DefaultTypes
<1>4. CASE Deliver
  <2>1. RefreshReturns({a \in Actors : pc[a] = "wait"}, flight.ok, flight.token)
    BY <1>4 DEF Deliver
  <2>2. c \in {a \in Actors : pc[a] = "wait"}
    BY <1>0, <2>1 DEF RefreshReturns
  <2>3. QED
    BY <2>1, <2>2
<1>5. CASE Answer \/ (FlightStep /\ ~Deliver) \/ LoopStep \/ LoopStops \/ Tick
  <2>1. pc'[c] = pc[c]
    BY <1>0, <1>5 DEF Answer, FetchFails, FetchSucceeds, FlightStep, WriterWaits,
       RecordRefreshSuccess, RecordRefreshFailure, LoopStep, MeasureDegraded, MeasureHolds,
       MeasureAgain, Wake, LoopStops, Tick, Goto, TypeOK, Actors
  <2>2. QED
    BY <2>1
<1>6. QED
  BY <1>1, <1>2, <1>3, <1>4, <1>5 DEF Next

\* A token returned without a successful refresh was live when the call last
\* looked at the clock (oauth.go:147, 165, 172).
THEOREM CachedTokenWasLiveHolds == Spec => CachedTokenWasLive
<1>1. ASSUME TypeOK, TokenOrder, CallTimes, Next, NEW c \in Callers,
             Returns(c, "token"), ~(pc[c] = "wait" /\ flight.ok)
      PROVE  LastLooked(c) < frame[c].saw.expiresAt
  <2> USE DEF Returns
  <2>1. frame[c].saw \in Tokens /\ frame[c].saw.refreshAt <= frame[c].saw.expiresAt
    BY <1>1 DEF TypeOK, Frames, CallTimes, FrameTimes, DueFirst
  <2>2. CASE CheckFresh(c)
    BY <2>2 DEF CheckFresh, TokenStillUsable, LastLooked
  <2>3. CASE Cooldown(c)
    BY <1>1, <2>3 DEF Cooldown, Return, CallRefresh, Goto, Error, TypeOK, Actors
  <2>4. CASE Recheck(c)
    <3>1. ~ShouldRefresh(frame[c].saw, clock) /\ pc[c] = "recheck"
      BY <1>1, <2>4 DEF Recheck, CallRefresh, Goto, TypeOK, Actors
    <3>2. clock < frame[c].saw.refreshAt
      BY <1>1, <2>1, <3>1 DEF ShouldRefresh, TypeOK, Tokens
    <3>3. QED
      BY <1>1, <2>1, <3>1, <3>2 DEF LastLooked, TypeOK, Tokens
  <2>5. ASSUME NEW S \in SUBSET Actors, NEW t \in Tokens, c \in S,
               pc[c] \in {"backoff", "wait"}, RefreshReturns(S, FALSE, t)
        PROVE  LastLooked(c) < frame[c].saw.expiresAt
    <3>1. result'[c] = ResultAfter(c, FALSE, t)
      BY <2>5 DEF RefreshReturns
    <3>2. TokenStillUsable(frame[c].saw, frame[c].now)
      BY <1>1, <3>1 DEF ResultAfter, Error
    <3>3. QED
      BY <2>5, <3>2 DEF TokenStillUsable, LastLooked
  <2>6. pc[c] = "wait" => flight.ok = FALSE /\ flight.token \in Tokens
    BY <1>1 DEF TypeOK, Flights
  <2>7. QED
    BY <1>1, <2>2, <2>3, <2>4, <2>5, <2>6, WaysToReturn
<1>2. TypeOK /\ TokenOrder /\ CallTimes /\ [Next]_vars
        => [\A c \in Callers : Returns(c, "token") /\ ~(pc[c] = "wait" /\ flight.ok)
                                 => LastLooked(c) < frame[c].saw.expiresAt]_vars
  BY <1>1
<1>3. QED
  BY <1>2, InitCallTimes, NextCallTimes, TypeCorrect, TokensInOrder, PTL
  DEF Spec, CachedTokenWasLive

\* A failed refresh is an error for a caller only if the token it holds has
\* expired (the claim of oauth_test.go:321 and 255).
THEOREM ErrorOnlyOnceExpiredHolds == Spec => ErrorOnlyOnceExpired
<1>1. ASSUME TypeOK, TokenOrder, CallTimes, Next, NEW c \in Callers, Returns(c, "error")
      PROVE  frame[c].saw.expiresAt <= clock
  <2> USE DEF Returns
  <2>1. frame[c] \in Frames /\ FrameTimes(c) /\ clock \in Nat
    BY <1>1 DEF TypeOK, CallTimes
  <2>2. CASE CheckFresh(c)
    BY <1>1, <2>2 DEF CheckFresh, Return, Served, TypeOK
  <2>3. CASE Cooldown(c)
    BY <2>1, <2>3 DEF Cooldown, FrameTimes
  <2>4. CASE Recheck(c)
    BY <1>1, <2>4 DEF Recheck, CallRefresh, Return, Served, Goto, TypeOK, Actors
  <2>5. ASSUME NEW S \in SUBSET Actors, NEW ok, NEW t, c \in S,
               pc[c] \in {"backoff", "wait"}, RefreshReturns(S, ok, t)
        PROVE  frame[c].saw.expiresAt <= clock
    <3>1. result'[c] = ResultAfter(c, ok, t)
      BY <2>5 DEF RefreshReturns
    <3>2. CASE frame[c].site = "ensure"
      BY <2>1, <2>5, <3>2 DEF FrameTimes
    <3>3. CASE frame[c].site # "ensure"
      <4>1. ~TokenStillUsable(frame[c].saw, frame[c].now)
        BY <1>1, <3>1, <3>3 DEF ResultAfter, Served
      <4>2. QED
        BY <2>1, <4>1 DEF TokenStillUsable, FrameTimes, NoToken, Frames, Tokens
    <3>4. QED
      BY <3>2, <3>3
  <2>6. QED
    BY <1>1, <2>2, <2>3, <2>4, <2>5, WaysToReturn
<1>2. TypeOK /\ TokenOrder /\ CallTimes /\ [Next]_vars
        => [\A c \in Callers : Returns(c, "error") => frame[c].saw.expiresAt <= clock]_vars
  BY <1>1
<1>3. QED
  BY <1>2, InitCallTimes, NextCallTimes, TypeCorrect, TokensInOrder, PTL
  DEF Spec, ErrorOnlyOnceExpired

-----------------------------------------------------------------------------
(***************************************************************************)
(* Requests inside a backoff.  Failures carry the number of their request, *)
(* so each one makes the log longer; a goroutine that saw the whole log    *)
(* when it checked the backoff is not inside one.                          *)
(***************************************************************************)
FailuresNumbered ==
  /\ \A f \in failureLog : f.n <= requests
  /\ flight.phase \in {"fetch", "answered", "locking"} => \A f \in failureLog : f.n < requests

CheckedAgainstLog ==
  \A a \in Actors : pc[a] = "join" =>
    /\ passed[a] <= Cardinality(failureLog)
    /\ passed[a] = Cardinality(failureLog) => nextRefreshAttempt <= clock

RaceOrder == FailuresNumbered /\ CheckedAgainstLog

LEMMA InitRaceOrder == Init => RaceOrder
  BY DEF Init, RaceOrder, FailuresNumbered, CheckedAgainstLog, NoFlight

LEMMA NextRaceOrder == TypeOK /\ RaceOrder /\ [Next]_vars => RaceOrder'
<1> SUFFICES ASSUME TypeOK, RaceOrder, [Next]_vars PROVE RaceOrder'
  OBVIOUS
<1> USE DEF RaceOrder, FailuresNumbered
<1>0. Cardinality(failureLog) \in Nat
  BY FS_CardinalityType DEF TypeOK
\* Steps that neither record nor check.
<1>a. ASSUME failureLog' = failureLog, nextRefreshAttempt' = nextRefreshAttempt,
             clock' \in Nat, clock <= clock',
             \A a \in Actors : pc'[a] = "join" => pc[a] = "join" /\ passed'[a] = passed[a]
      PROVE  CheckedAgainstLog'
  BY <1>a DEF CheckedAgainstLog, TypeOK
<1>b. ASSUME requests' = requests, failureLog' = failureLog,
             flight' = flight \/ flight'.phase \notin {"fetch", "answered", "locking"}
               \/ flight.phase \in {"fetch", "answered", "locking"}
      PROVE  FailuresNumbered'
  BY <1>b
<1>1. CASE Boot
  <2>1. ASSUME NEW a \in Actors, pc'[a] = "join" PROVE pc[a] = "join" /\ passed'[a] = passed[a]
    BY <1>1, <2>1 DEF Boot, BootRequest, BootFails, BootSucceeds
  <2>2. /\ failureLog' = failureLog /\ nextRefreshAttempt' = nextRefreshAttempt
        /\ clock' = clock /\ flight' = flight /\ requests' \in Nat /\ requests <= requests'
    BY <1>1 DEF Boot, BootRequest, BootFails, BootSucceeds, state, TypeOK
  <2>3. FailuresNumbered'
    BY <2>2 DEF TypeOK, Failures
  <2>4. QED
    BY <1>a, <2>1, <2>2, <2>3 DEF TypeOK
<1>2. ASSUME NEW c \in Callers, Begin(c) \/ TokenStep(c) PROVE RaceOrder'
  <2>1. ASSUME NEW a \in Actors, pc'[a] = "join" PROVE pc[a] = "join" /\ passed'[a] = passed[a]
    BY <1>2, <2>1 DEF TokenStep, Begin, CheckFresh, CheckDue, CheckExpired, EnsureAvailable,
       Cooldown, Reread, Recheck, CallRefresh, Return, Goto, TypeOK, Actors, unmoved
  <2>2. /\ failureLog' = failureLog /\ nextRefreshAttempt' = nextRefreshAttempt
        /\ clock' = clock /\ flight' = flight /\ requests' = requests
    BY <1>2 DEF TokenStep, Begin, CheckFresh, CheckDue, CheckExpired, EnsureAvailable,
       Cooldown, Reread, Recheck, unmoved, state
  <2>3. QED
    BY <1>a, <1>b, <2>1, <2>2 DEF TypeOK
<1>c. ASSUME NEW S \in SUBSET Actors, NEW ok, NEW t, RefreshReturns(S, ok, t), passed' = passed,
             NEW a \in Actors, pc'[a] = "join"
      PROVE  pc[a] = "join" /\ passed'[a] = passed[a]
  BY <1>c DEF RefreshReturns, PcAfter
<1>3. ASSUME NEW a \in Actors, RefreshStep(a) PROVE RaceOrder'
  <2>1. CASE BackedOff(a)
    <3>1. /\ failureLog' = failureLog /\ nextRefreshAttempt' = nextRefreshAttempt
          /\ clock' = clock /\ flight' = flight /\ requests' = requests /\ passed' = passed
          /\ RefreshReturns({a}, FALSE, NoToken) /\ {a} \in SUBSET Actors
      BY <2>1 DEF BackedOff, unmoved, state
    <3>2. \A b \in Actors : pc'[b] = "join" => pc[b] = "join" /\ passed'[b] = passed[b]
      BY <1>c, <3>1
    <3>3. CheckedAgainstLog'
      BY <1>a, <3>1, <3>2 DEF TypeOK
    <3>4. QED
      BY <1>b, <3>1, <3>3
  <2>2. CASE BackoffPassed(a)
    <3>1. /\ failureLog' = failureLog /\ nextRefreshAttempt' = nextRefreshAttempt
          /\ clock' = clock /\ flight' = flight /\ requests' = requests
          /\ passed' = [passed EXCEPT ![a] = Cardinality(failureLog)]
          /\ pc' = [pc EXCEPT ![a] = "join"] /\ ~(clock < nextRefreshAttempt)
      BY <2>2 DEF BackoffPassed, Goto, state, DelayedAt
    <3>2. CheckedAgainstLog'
      BY <1>0, <3>1 DEF CheckedAgainstLog, TypeOK
    <3>3. QED
      BY <1>b, <3>1, <3>2
  <2>3. CASE JoinFlight(a)
    <3>1. /\ failureLog' = failureLog /\ nextRefreshAttempt' = nextRefreshAttempt
          /\ clock' = clock /\ flight' = flight /\ requests' = requests
          /\ \A b \in Actors : pc'[b] = "join" => pc[b] = "join" /\ passed'[b] = passed[b]
      BY <2>3 DEF JoinFlight, Goto, state, TypeOK
    <3>2. QED
      BY <1>a, <1>b, <3>1 DEF TypeOK
  <2>4. CASE StartFlight(a)
    <3>1. /\ failureLog' = failureLog /\ nextRefreshAttempt' = nextRefreshAttempt
          /\ clock' = clock /\ requests' = requests + 1
          /\ \A b \in Actors : pc'[b] = "join" => pc[b] = "join" /\ passed'[b] = passed[b]
      BY <2>4 DEF StartFlight, Goto, state, TypeOK
    <3>2. FailuresNumbered'
      BY <3>1 DEF TypeOK, Failures
    <3>3. QED
      BY <1>a, <3>1, <3>2 DEF TypeOK
  <2>5. QED
    BY <1>3, <2>1, <2>2, <2>3, <2>4 DEF RefreshStep
<1>4. CASE Answer \/ WriterWaits \/ LoopStep \/ LoopStops \/ Tick \/ UNCHANGED vars
  <2>1. /\ failureLog' = failureLog /\ nextRefreshAttempt' = nextRefreshAttempt
        /\ requests' = requests /\ passed' = passed
    BY <1>4 DEF Answer, FetchFails, FetchSucceeds, WriterWaits, LoopStep, MeasureDegraded,
       MeasureHolds, MeasureAgain, Wake, LoopStops, Tick, vars, state
  <2>2. clock' \in Nat /\ clock <= clock'
    BY <1>4 DEF Answer, FetchFails, FetchSucceeds, WriterWaits, LoopStep, MeasureDegraded,
       MeasureHolds, MeasureAgain, Wake, LoopStops, Tick, vars, TypeOK
  <2>3. flight' = flight \/ flight.phase \in {"fetch", "answered", "locking"}
    BY <1>4 DEF Answer, FetchFails, FetchSucceeds, WriterWaits, LoopStep, MeasureDegraded,
       MeasureHolds, MeasureAgain, Wake, LoopStops, Tick, vars
  <2>4. \A a \in Actors : pc'[a] = "join" => pc[a] = "join"
    BY <1>4 DEF Answer, FetchFails, FetchSucceeds, WriterWaits, LoopStep, MeasureDegraded,
       MeasureHolds, MeasureAgain, Wake, LoopStops, Tick, vars, Goto, TypeOK
  <2>5. QED
    BY <1>a, <1>b, <2>1, <2>2, <2>3, <2>4
<1>5. CASE RecordRefreshSuccess
  <2>1. /\ failureLog' = {} /\ nextRefreshAttempt' = 0 /\ clock' = clock
        /\ passed' = [a \in Actors |-> 0]
    BY <1>5 DEF RecordRefreshSuccess
  <2>2. CheckedAgainstLog'
    BY <2>1, FS_EmptySet DEF CheckedAgainstLog, TypeOK
  <2>3. QED
    BY <2>1, <2>2
<1>6. CASE RecordRefreshFailure
  <2> DEFINE failure == [n |-> requests, at |-> flight.at]
  <2>1. /\ failureLog' = failureLog \cup {failure} /\ requests' = requests
        /\ pc' = pc /\ passed' = passed /\ flight'.phase = "recorded"
        /\ flight.phase \in {"answered", "locking"}
    BY <1>6 DEF RecordRefreshFailure, CanWrite, TypeOK, Flights
  <2>2. failure.n = requests /\ failure \notin failureLog
    BY <2>1 DEF TypeOK, Failures
  <2>3. Cardinality(failureLog') = Cardinality(failureLog) + 1
    BY <2>1, <2>2, FS_AddElement DEF TypeOK
  <2>4. CheckedAgainstLog'
    BY <1>0, <2>1, <2>3 DEF CheckedAgainstLog, TypeOK
  <2>5. FailuresNumbered'
    BY <2>1, <2>2 DEF TypeOK
  <2>6. QED
    BY <2>4, <2>5
<1>7. CASE Deliver
  <2>1. /\ RefreshReturns({a \in Actors : pc[a] = "wait"}, flight.ok, flight.token)
        /\ failureLog' = failureLog /\ nextRefreshAttempt' = nextRefreshAttempt
        /\ clock' = clock /\ requests' = requests /\ passed' = passed
        /\ flight'.phase = "none"
    BY <1>7 DEF Deliver, NoFlight, state
  <2>2. QED
    BY <1>a, <1>b, <1>c, <2>1 DEF TypeOK
<1>8. QED
  BY <1>1, <1>2, <1>3, <1>4, <1>5, <1>6, <1>7 DEF Next, FlightStep

\* A token request starts inside a backoff only by a goroutine that checked
\* it before the last failure was recorded (oauth.go:269, 273).
THEOREM EarlyRequestWasRacedHolds == Spec => EarlyRequestWasRaced
<1>1. TypeOK /\ RaceOrder /\ [Next]_vars
        => [\A a \in Actors : StartFlight(a) /\ DelayedAt(clock)
                                => passed[a] < Cardinality(failureLog)]_vars
  <2>1. ASSUME TypeOK, RaceOrder, NEW a \in Actors, StartFlight(a), DelayedAt(clock)
        PROVE  passed[a] < Cardinality(failureLog)
    <3>1. Cardinality(failureLog) \in Nat /\ passed[a] \in Nat
      BY <2>1, FS_CardinalityType DEF TypeOK
    <3>2. pc[a] = "join" /\ clock < nextRefreshAttempt
      BY <2>1 DEF StartFlight, DelayedAt
    <3>3. QED
      BY <2>1, <3>1, <3>2 DEF RaceOrder, CheckedAgainstLog, TypeOK
  <2>2. QED
    BY <2>1
<1>2. QED
  BY <1>1, InitRaceOrder, NextRaceOrder, TypeCorrect, PTL DEF Spec, EarlyRequestWasRaced

-----------------------------------------------------------------------------
(***************************************************************************)
(* Requests for a token that is not due.  A caller whose token is still    *)
(* the one in service holds its times, and they let it pass; refreshLoop   *)
(* sleeps no shorter than the token in service asks for, unless the        *)
(* manager is degraded, where it does not refresh.                         *)
(***************************************************************************)
SawDue(c) ==
  /\ Holding(c) /\ frame[c].saw.id = token.id => frame[c].saw = token
  /\ pc[c] \in {"backoff", "join"} => frame[c].saw.refreshAt <= clock

LoopDue ==
  /\ floor[Loop] <= token.id
  /\ floor[Loop] = token.id =>
       /\ pc[Loop] = "sleep" => degraded \/ ~proactive \/ token.refreshAt <= wakeAt
       /\ pc[Loop] \in {"backoff", "join"} => token.refreshAt <= clock

DueWhenSeen == LoopDue /\ \A c \in Callers : SawDue(c)

LEMMA InitDueWhenSeen == Init => DueWhenSeen
  BY CallersAssumption
  DEF Init, DueWhenSeen, SawDue, LoopDue, Holding, NoToken, Actors

\* Both parts look at one goroutine and what all share.
LEMMA CallerDue ==
  ASSUME TypeOK, NEW c \in Callers, SawDue(c),
         token' = token, clock' \in Nat, clock <= clock',
         \/ frame'[c] = frame[c] /\ pc'[c] = pc[c]
         \/ frame'[c] = frame[c] /\ pc[c] = "backoff" /\ pc'[c] = "join"
         \/ frame'[c] = frame[c] /\ Holding(c) /\ pc'[c] \in {"ensure", "wait"}
         \/ pc'[c] \in {"idle", "reread", "stopped"}
  PROVE  SawDue(c)'
<1>1. frame[c].saw.refreshAt \in Int
  BY DEF TypeOK, Frames, Tokens
<1>2. QED
  BY <1>1 DEF TypeOK, SawDue, Holding

LEMMA LoopStillDue ==
  ASSUME TypeOK, LoopDue, token' = token, clock' \in Nat, clock <= clock',
         floor'[Loop] = floor[Loop], wakeAt' = wakeAt,
         degraded \/ ~proactive => degraded' \/ ~proactive',
         \/ pc'[Loop] = pc[Loop]
         \/ pc[Loop] = "backoff" /\ pc'[Loop] = "join"
         \/ pc'[Loop] \notin {"sleep", "backoff", "join"}
  PROVE  LoopDue'
<1>1. token.refreshAt \in Int
  BY DEF TypeOK, Tokens
<1>2. QED
  BY <1>1 DEF TypeOK, LoopDue

LEMMA TokenStepDue ==
  ASSUME TypeOK, TokenOrder, CallTimes, DueWhenSeen, NEW c \in Callers, Begin(c) \/ TokenStep(c)
  PROVE  DueWhenSeen'
<1>0. /\ c \in Actors /\ Loop \in Actors /\ c # Loop
      /\ frame[c] \in Frames /\ token \in Tokens /\ clock \in Nat
  BY CallersAssumption DEF Actors, TypeOK
<1>1. /\ token' = token /\ clock' = clock /\ wakeAt' = wakeAt
      /\ degraded' = degraded /\ proactive' = proactive
      /\ \A a \in Actors \ {c} : pc'[a] = pc[a] /\ floor'[a] = floor[a]
      /\ \A d \in Callers \ {c} : frame'[d] = frame[d]
  BY <1>0 DEF Actors, TypeOK, TokenStep, Begin, CheckFresh, CheckDue, CheckExpired,
      EnsureAvailable, Cooldown, Reread, Recheck, Return, CallRefresh, Goto, unmoved, state
<1>2. LoopDue'
  BY <1>0, <1>1, LoopStillDue DEF DueWhenSeen
<1>3. SawDue(c)'
  <2>a. ASSUME NEW s, CallRefresh(c, s), Holding(c), frame[c].saw.refreshAt <= clock
        PROVE  SawDue(c)'
    <3>1. frame'[c].saw = frame[c].saw
      BY <1>0, <2>a DEF CallRefresh, TypeOK, Frames
    <3>2. QED
      BY <1>1, <2>a, <3>1 DEF DueWhenSeen, SawDue
  <2>b. ASSUME pc'[c] = "idle" PROVE SawDue(c)'
    BY <2>b DEF Holding, SawDue
  <2>c. ASSUME ShouldRefresh(frame[c].saw, clock)
        PROVE  frame[c].saw.refreshAt <= clock
    BY <1>0, <2>c DEF ShouldRefresh, NoToken, Frames, Tokens
  <2>d. ASSUME NEW r, Return(c, r) PROVE pc'[c] = "idle"
    BY <1>0, <2>d DEF Return, Goto, TypeOK
  <2>1. CASE Begin(c)
    <3>1. frame'[c].saw = token /\ pc'[c] = "check"
      BY <1>0, <2>1 DEF Begin, Goto, TypeOK, Frames
    <3>2. QED
      BY <1>1, <3>1 DEF SawDue
  <2>2. CASE CheckFresh(c)
    BY <2>2, <2>b, <2>d DEF CheckFresh
  <2>3. CASE CheckDue(c)
    BY <2>3, <2>a, <2>c DEF CheckDue, Holding
  <2>4. CASE CheckExpired(c)
    BY <1>0, <1>1, <2>4 DEF CheckExpired, Goto, TypeOK, Holding, DueWhenSeen, SawDue
  <2>5. CASE EnsureAvailable(c)
    <3>1. pc[c] = "ensure" /\ pc'[c] \in {"reread", "cooldown"} /\ frame'[c].saw = frame[c].saw
      BY <1>0, <2>5 DEF EnsureAvailable, Goto, TypeOK, Frames
    <3>2. QED
      BY <1>1, <3>1 DEF Holding, DueWhenSeen, SawDue
  <2>6. CASE Cooldown(c)
    <3>1. frame[c].saw.refreshAt <= clock
      BY <1>0, <2>6 DEF Cooldown, CallTimes, FrameTimes, DueFirst, Frames, Tokens
    <3>2. QED
      BY <2>6, <2>a, <2>b, <2>d, <3>1 DEF Cooldown, Holding
  <2>7. CASE Reread(c)
    <3>1. frame'[c].saw = token /\ pc'[c] = "recheck"
      BY <1>0, <2>7 DEF Reread, Goto, TypeOK, NoFrame
    <3>2. QED
      BY <1>1, <3>1 DEF SawDue
  <2>8. CASE Recheck(c)
    BY <2>8, <2>a, <2>b, <2>c, <2>d DEF Recheck, Holding
  <2>9. QED
    BY <2>1, <2>2, <2>3, <2>4, <2>5, <2>6, <2>7, <2>8 DEF TokenStep
<1>4. ASSUME NEW d \in Callers, d # c PROVE SawDue(d)'
  BY <1>0, <1>1, <1>4, CallerDue DEF DueWhenSeen, Actors
<1>5. QED
  BY <1>2, <1>3, <1>4 DEF DueWhenSeen

\* refreshToken returns to some: they hold nothing any more.
LEMMA ReturnDue ==
  ASSUME TypeOK, DueWhenSeen, NEW S \in SUBSET Actors, NEW ok, NEW t,
         RefreshReturns(S, ok, t),
         UNCHANGED <<clock, token, floor, wakeAt, degraded, proactive>>
  PROVE  DueWhenSeen'
<1>0. Loop \in Actors /\ Callers \subseteq Actors
  BY DEF Actors
<1>1. \A c \in Callers : SawDue(c)'
  <2>1. ASSUME NEW c \in Callers
        PROVE  \/ frame'[c] = frame[c] /\ pc'[c] = pc[c]
               \/ pc'[c] \in {"idle", "reread", "stopped"}
    BY <1>0, CallersAssumption DEF RefreshReturns, PcAfter
  <2>2. QED
    BY <2>1, CallerDue DEF DueWhenSeen, TypeOK
<1>2. LoopDue'
  BY <1>0, LoopStillDue DEF RefreshReturns, PcAfter, DueWhenSeen, TypeOK
<1>3. QED
  BY <1>1, <1>2 DEF DueWhenSeen

LEMMA RefreshStepDue ==
  ASSUME TypeOK, DueWhenSeen, NEW a \in Actors, RefreshStep(a)
  PROVE  DueWhenSeen'
<1>1. CASE BackedOff(a)
  <2>1. /\ RefreshReturns({a}, FALSE, NoToken) /\ {a} \in SUBSET Actors
        /\ UNCHANGED <<clock, token, floor, wakeAt, degraded, proactive>>
    BY <1>1 DEF BackedOff, unmoved, state
  <2>2. QED
    BY <2>1, ReturnDue
<1>2. CASE BackoffPassed(a) \/ StartFlight(a) \/ JoinFlight(a)
  <2>1. /\ UNCHANGED <<clock, token, floor, wakeAt, degraded, proactive, frame>>
        /\ \A b \in Actors : \/ pc'[b] = pc[b]
                             \/ pc[b] = "backoff" /\ pc'[b] = "join"
                             \/ pc[b] = "join" /\ pc'[b] = "wait"
    BY <1>2 DEF BackoffPassed, StartFlight, JoinFlight, Goto, TypeOK, state, calls
  <2>2. LoopDue'
    BY <2>1, LoopStillDue DEF DueWhenSeen, TypeOK, Actors
  <2>3. \A c \in Callers : SawDue(c)'
    BY <2>1, CallerDue DEF DueWhenSeen, TypeOK, Actors, Holding
  <2>4. QED
    BY <2>2, <2>3 DEF DueWhenSeen
<1>3. QED
  BY <1>1, <1>2 DEF RefreshStep

LEMMA FlightStepDue ==
  ASSUME TypeOK, TokenOrder, DueWhenSeen, FlightStep
  PROVE  DueWhenSeen'
<1>1. CASE WriterWaits
  BY <1>1 DEF WriterWaits, state, calls, DueWhenSeen, SawDue, LoopDue, Holding
\* Nobody has seen the token that is put in service here.
<1>2. CASE RecordRefreshSuccess
  <2>1. /\ pc' = pc /\ frame' = frame /\ clock' = clock /\ token' = flight.token
        /\ floor'[Loop] = 0
    BY <1>2 DEF RecordRefreshSuccess, TypeOK, Actors
  <2>2. token'.id = requests /\ token.id < requests /\ token.id \in Nat /\ requests \in Nat
    BY <1>2, <2>1 DEF RecordRefreshSuccess, CanWrite, TokenOrder, FlightOrder, TypeOK, Tokens
  <2>3. LoopDue'
    BY <2>1, <2>2 DEF LoopDue
  <2>4. ASSUME NEW c \in Callers, Holding(c)
        PROVE  frame[c].saw.id # token'.id
    <3>1. frame[c].saw.id <= token.id /\ frame[c].saw.id \in Nat
      BY <2>4 DEF TokenOrder, CallOrder, TypeOK, Frames, Tokens
    <3>2. QED
      BY <2>2, <3>1
  <2>5. \A c \in Callers : SawDue(c)'
    BY <2>1, <2>4 DEF DueWhenSeen, SawDue, Holding
  <2>6. QED
    BY <2>3, <2>5 DEF DueWhenSeen
<1>3. CASE RecordRefreshFailure
  <2>1. /\ UNCHANGED <<clock, token, floor, wakeAt, frame, pc>>
        /\ degraded \/ ~proactive => degraded' \/ ~proactive'
    BY <1>3 DEF RecordRefreshFailure, calls
  <2>2. LoopDue'
    BY <2>1, LoopStillDue DEF DueWhenSeen, TypeOK
  <2>3. \A c \in Callers : SawDue(c)'
    BY <2>1 DEF DueWhenSeen, SawDue, Holding
  <2>4. QED
    BY <2>2, <2>3 DEF DueWhenSeen
<1>4. CASE Deliver
  <2>1. /\ RefreshReturns({a \in Actors : pc[a] = "wait"}, flight.ok, flight.token)
        /\ UNCHANGED <<clock, token, floor, wakeAt, degraded, proactive>>
    BY <1>4 DEF Deliver, state
  <2>2. QED
    BY <2>1, ReturnDue
<1>5. QED
  BY <1>1, <1>2, <1>3, <1>4 DEF FlightStep

LEMMA LoopStepDue ==
  ASSUME TypeOK, DueWhenSeen, LoopStep \/ LoopStops
  PROVE  DueWhenSeen'
<1>0. /\ Loop \in Actors /\ Loop \notin Callers
      /\ token.id \in Nat /\ token.refreshAt \in Int /\ clock \in Nat /\ wakeAt \in Int
  BY CallersAssumption DEF Actors, TypeOK, Tokens
<1>1. /\ token' = token /\ clock' = clock /\ degraded' = degraded /\ proactive' = proactive
      /\ frame' = frame /\ \A c \in Callers : pc'[c] = pc[c]
  BY <1>0 DEF LoopStep, MeasureDegraded, MeasureHolds, MeasureAgain, Wake, LoopStops, Goto,
     TypeOK, Actors, state, calls
<1>2. \A c \in Callers : SawDue(c)'
  BY <1>1 DEF DueWhenSeen, SawDue, Holding
<1>3. LoopDue'
  <2> USE <1>0, <1>1 DEF TypeOK, Goto
  <2>1. CASE MeasureDegraded
    BY <2>1 DEF MeasureDegraded, LoopDue
  <2>2. CASE MeasureHolds
    BY <2>2, LoopStillDue DEF MeasureHolds, calls, DueWhenSeen
  <2>3. CASE MeasureAgain
    <3>1. wakeAt' = LaterOf(clock, LaterOf(token.refreshAt, nextRefreshAttempt))
          /\ pc'[Loop] = "sleep" /\ floor'[Loop] = token.id
      BY <2>3 DEF MeasureAgain
    <3>2. token.refreshAt <= wakeAt'
      BY <3>1 DEF LaterOf
    <3>3. QED
      BY <3>1, <3>2 DEF LoopDue
  <2>4. CASE Wake
    <3>1. /\ pc[Loop] = "sleep" /\ clock >= wakeAt /\ floor' = floor
          /\ pc'[Loop] = IF degraded \/ ~proactive THEN "measure" ELSE "backoff"
      BY <2>4 DEF Wake
    <3>2. QED
      BY <3>1 DEF DueWhenSeen, LoopDue
  <2>5. CASE LoopStops
    BY <2>5 DEF LoopStops, LoopDue
  <2>6. QED
    BY <2>1, <2>2, <2>3, <2>4, <2>5 DEF LoopStep
<1>4. QED
  BY <1>2, <1>3 DEF DueWhenSeen

LEMMA NextDueWhenSeen ==
  TypeOK /\ TokenOrder /\ CallTimes /\ DueWhenSeen /\ [Next]_vars => DueWhenSeen'
<1> SUFFICES ASSUME TypeOK, TokenOrder, CallTimes, DueWhenSeen, [Next]_vars
             PROVE  DueWhenSeen'
  OBVIOUS
<1>1. CASE Boot
  <2>1. ASSUME NEW c \in Callers PROVE ~Holding(c)'
    BY <1>1, <2>1 DEF Boot, BootRequest, BootFails, BootSucceeds, Holding, TokenOrder,
       FlightOrder, Unborn, Actors
\* Before the manager is published nobody has seen a token.
  <2>2. pc'[Loop] \notin {"sleep", "backoff", "join"} /\ floor' = floor
    BY <1>1 DEF Boot, BootRequest, BootFails, BootSucceeds, TokenOrder, FlightOrder, Unborn,
       Actors, calls
  <2>3. floor[Loop] <= token'.id
    <3>1. token' = token \/ \E e \in ExpiresIn : token' = TokenFrom(e)
      BY <1>1 DEF Boot, BootRequest, BootFails, BootSucceeds, state
    <3>2. token.id <= token'.id /\ token'.id \in Nat
      BY <3>1, TokenFromType DEF TokenOrder, FlightOrder, TypeOK, Tokens
    <3>3. QED
      BY <3>2 DEF DueWhenSeen, LoopDue, TypeOK, Tokens, Actors
  <2>4. QED
    BY <2>1, <2>2, <2>3 DEF DueWhenSeen, SawDue, LoopDue, Holding
<1>2. CASE Answer \/ Tick \/ UNCHANGED vars
  <2>1. /\ UNCHANGED <<token, floor, wakeAt, frame, pc, degraded, proactive>>
        /\ clock' \in Nat /\ clock <= clock'
    BY <1>2 DEF Answer, FetchFails, FetchSucceeds, Tick, vars, state, calls, TypeOK
  <2>2. LoopDue'
    BY <2>1, LoopStillDue DEF DueWhenSeen
  <2>3. \A c \in Callers : SawDue(c)'
    BY <2>1, CallerDue DEF DueWhenSeen
  <2>4. QED
    BY <2>2, <2>3 DEF DueWhenSeen
<1>3. QED
  BY <1>1, <1>2, TokenStepDue, RefreshStepDue, FlightStepDue, LoopStepDue DEF Next

\* A goroutine requests a token that is not due only if another one was put
\* in service since it last looked (oauth.go:133, 155, 201, 223).
THEOREM ExtraRequestWasRacedHolds == Spec => ExtraRequestWasRaced
<1>1. ASSUME TypeOK, TokenOrder, DueWhenSeen, NEW a \in Actors, StartFlight(a),
             ~ShouldRefresh(token, clock)
      PROVE  LastSeen(a) < token.id
  <2>1. pc[a] = "join" /\ ~(token.refreshAt <= clock) /\ token.id \in Nat
    BY <1>1 DEF StartFlight, ShouldRefresh, TypeOK, Tokens
  <2>2. CASE a = Loop
    BY <1>1, <2>1, <2>2 DEF LastSeen, DueWhenSeen, LoopDue, TypeOK
  <2>3. CASE a # Loop
    <3>1. a \in Callers /\ Holding(a)
      BY <2>1, <2>3 DEF Actors, Holding
    <3>2. frame[a].saw.id <= token.id /\ frame[a].saw.id \in Nat
      BY <1>1, <3>1 DEF TokenOrder, CallOrder, TypeOK, Frames, Tokens
    <3>3. frame[a].saw.id # token.id
      BY <1>1, <2>1, <3>1 DEF DueWhenSeen, SawDue
    <3>4. QED
      BY <2>1, <2>3, <3>2, <3>3 DEF LastSeen
  <2>4. QED
    BY <2>2, <2>3
<1>2. TypeOK /\ TokenOrder /\ DueWhenSeen /\ [Next]_vars
        => [\A a \in Actors : StartFlight(a) /\ ~ShouldRefresh(token, clock)
                                => LastSeen(a) < token.id]_vars
  BY <1>1
<1>3. QED
  BY <1>2, InitDueWhenSeen, NextDueWhenSeen, InitCallTimes, NextCallTimes, TypeCorrect,
     TokensInOrder, PTL DEF Spec, ExtraRequestWasRaced

-----------------------------------------------------------------------------
(***************************************************************************)
(* Degraded mode.  The list recordRefreshFailure prunes holds those of all *)
(* failures since the last success that are within a window of every other *)
(* one, so what it counts at a failure is what ends the window there.      *)
(***************************************************************************)
PrunedLog ==
  /\ \A f \in failureLog : f.at <= clock
  /\ flight.phase \in {"answered", "locking"}
       => flight.at <= clock /\ \A f \in failureLog : f.at <= flight.at
  /\ refreshFailures =
       {f \in failureLog : \A g \in failureLog : f.at >= g.at - Window}

DegradedHistory == PrunedLog /\ DegradedIffTripped

LEMMA InitDegraded == Init => DegradedHistory
<1> SUFFICES ASSUME Init PROVE DegradedHistory
  OBVIOUS
<1>1. PrunedLog
  BY DEF Init, PrunedLog, NoFlight
<1>2. Trips = {}
  BY DEF Init, Trips
<1>3. degraded = FALSE /\ proactive = TRUE
  BY Zenon DEF Init
<1>4. QED
  BY <1>1, <1>2, <1>3, Zenon DEF DegradedHistory, DegradedIffTripped

LEMMA FailureKeepsDegraded ==
  ASSUME TypeOK, RaceOrder, DegradedHistory, RecordRefreshFailure
  PROVE  DegradedHistory'
<1> DEFINE now == flight.at
           new == [n |-> requests, at |-> now]
<1>0. /\ new \in Failures /\ new.n = requests /\ new.at = now /\ now \in Nat /\ Window \in Nat
      /\ now <= clock
      /\ \A f \in failureLog : f \in Failures /\ f.n < requests /\ f.at <= now
  BY DurationAssumption DEF RecordRefreshFailure, CanWrite, DegradedHistory, PrunedLog, RaceOrder,
     FailuresNumbered, TypeOK, Flights, Failures
<1>1. /\ failureLog' = failureLog \cup {new}
      /\ refreshFailures' = {f \in refreshFailures : f.at >= now - Window} \cup {new}
      /\ clock' = clock /\ flight'.phase = "recorded"
  BY DEF RecordRefreshFailure, WithinWindow, TypeOK, Flights
<1> HIDE DEF new, now
<1>2. refreshFailures' = {f \in failureLog' : f.at >= now - Window}
  BY <1>0, <1>1 DEF DegradedHistory, PrunedLog, Failures
<1>3. PrunedLog'
  <2>1. {f \in failureLog' : f.at >= now - Window}
          = {f \in failureLog' : \A g \in failureLog' : f.at >= g.at - Window}
    BY <1>0, <1>1 DEF Failures
  <2>2. \A f \in failureLog' : f.at <= clock'
    BY <1>0, <1>1 DEF Failures, TypeOK
  <2>3. QED
    BY <1>1, <1>2, <2>1, <2>2 DEF PrunedLog
\* The windows that older failures end are as they were; the new one ends
\* the window the code counts.
<1> DEFINE Before(f, log) == {g \in log : f.at - Window <= g.at /\ g.n <= f.n}
<1>4. ASSUME NEW f \in failureLog PROVE Before(f, failureLog') = Before(f, failureLog)
  BY <1>0, <1>1 DEF Failures, TypeOK
<1>5. Before(new, failureLog') = refreshFailures'
  BY <1>0, <1>1, <1>2 DEF Failures, TypeOK
<1>6. /\ Trips = {f \in failureLog : Cardinality(Before(f, failureLog)) >= 3}
      /\ Trips' = {f \in failureLog' : Cardinality(Before(f, failureLog')) >= 3}
  BY DEF Trips
<1> HIDE DEF Before
<1>7. CASE Cardinality(refreshFailures') >= 3
  <2>1. Trips' = Trips \cup {new}
    BY <1>1, <1>4, <1>5, <1>6, <1>7
  <2>2. degraded' = TRUE /\ proactive' = FALSE /\ degradedUntil' = now + Window
    BY <1>7 DEF RecordRefreshFailure, now
  <2>3. IsLastOf(new, Trips')
    BY <1>0, <1>6, <2>1 DEF IsLastOf, Failures
  <2>4. new \in Trips' /\ degradedUntil' = new.at + Window
    BY <1>0, <2>1, <2>2
  <2>5. (degraded <=> Trips # {})' /\ (proactive <=> ~degraded)'
    BY <2>2, <2>4, Zenon
  <2>6. QED
    BY <1>3, <2>3, <2>4, <2>5, Zenon DEF DegradedHistory, DegradedIffTripped, IsLastOf
<1>8. CASE ~(Cardinality(refreshFailures') >= 3)
  <2>1. Trips' = Trips
    BY <1>1, <1>4, <1>5, <1>6, <1>8
  <2>2. UNCHANGED <<degraded, degradedUntil, proactive>>
    BY <1>8 DEF RecordRefreshFailure
  <2>3. QED
    BY <1>3, <2>1, <2>2, Zenon DEF DegradedHistory, DegradedIffTripped, IsLastOf
<1>9. QED
  BY <1>7, <1>8

LEMMA NextDegraded == TypeOK /\ RaceOrder /\ DegradedHistory /\ [Next]_vars => DegradedHistory'
<1> SUFFICES ASSUME TypeOK, RaceOrder, DegradedHistory, [Next]_vars PROVE DegradedHistory'
  OBVIOUS
<1>1. CASE RecordRefreshFailure
  BY <1>1, FailureKeepsDegraded
<1>2. CASE RecordRefreshSuccess
  <2>1. /\ failureLog' = {} /\ refreshFailures' = {} /\ flight'.phase = "recorded"
        /\ degraded' = FALSE /\ proactive' = TRUE
    BY <1>2 DEF RecordRefreshSuccess, TypeOK, Flights
  <2>2. PrunedLog' /\ Trips' = {}
    BY <2>1 DEF PrunedLog, Trips
  <2>3. QED
    BY <2>1, <2>2, Zenon DEF DegradedHistory, DegradedIffTripped
<1>3. CASE ~RecordRefreshFailure /\ ~RecordRefreshSuccess
  <2>1. UNCHANGED <<refreshFailures, failureLog, degraded, degradedUntil, proactive>>
    BY <1>3 DEF Next, Boot, BootRequest, BootFails, BootSucceeds, TokenStep, Begin, CheckFresh,
       CheckDue, CheckExpired, EnsureAvailable, Cooldown, Reread, Recheck, RefreshStep, BackedOff,
       BackoffPassed, StartFlight, JoinFlight, Answer, FetchFails, FetchSucceeds, FlightStep,
       WriterWaits, Deliver, LoopStep, MeasureDegraded, MeasureHolds, MeasureAgain, Wake,
       LoopStops, Tick, vars, unmoved, state
  <2>2. clock' \in Nat /\ clock <= clock'
    <3>1. CASE Tick
      BY <3>1 DEF Tick, TypeOK
    <3>2. CASE ~Tick
      <4>1. clock' = clock
        BY <1>3, <3>2 DEF Next, Boot, BootRequest, BootFails, BootSucceeds, TokenStep, Begin,
           CheckFresh, CheckDue, CheckExpired, EnsureAvailable, Cooldown, Reread, Recheck,
           RefreshStep, BackedOff, BackoffPassed, StartFlight, JoinFlight, Answer, FetchFails,
           FetchSucceeds, FlightStep, WriterWaits, Deliver, LoopStep, MeasureDegraded,
           MeasureHolds, MeasureAgain, Wake, LoopStops, vars, unmoved
      <4>2. QED
        BY <4>1 DEF TypeOK
    <3>3. QED
      BY <3>1, <3>2
  <2>3. \/ flight'.phase \notin {"answered", "locking"}
        \/ flight'.at = clock /\ clock' = clock
        \/ flight'.at = flight.at /\ flight.phase \in {"answered", "locking"}
    <3>1. CASE Answer
      BY <3>1 DEF Answer, FetchFails, FetchSucceeds
    <3>2. CASE WriterWaits \/ Deliver
      BY <3>2 DEF WriterWaits, Deliver, NoFlight, TypeOK, Flights
    <3>3. CASE \E a \in Actors : RefreshStep(a)
      BY <3>3 DEF RefreshStep, BackedOff, BackoffPassed, StartFlight, JoinFlight, unmoved, NoFlight
    <3>4. CASE ~Answer /\ ~WriterWaits /\ ~Deliver /\ ~(\E a \in Actors : RefreshStep(a))
      <4>1. flight' = flight
        BY <1>3, <3>4 DEF Next, Boot, BootRequest, BootFails, BootSucceeds, TokenStep, Begin,
           CheckFresh, CheckDue, CheckExpired, EnsureAvailable, Cooldown, Reread, Recheck,
           FlightStep, LoopStep, MeasureDegraded, MeasureHolds, MeasureAgain, Wake, LoopStops,
           Tick, vars, unmoved
      <4>2. QED
        BY <4>1
    <3>5. QED
      BY <3>1, <3>2, <3>3, <3>4
  <2>4. PrunedLog'
    BY <2>1, <2>2, <2>3 DEF DegradedHistory, PrunedLog, TypeOK, Flights, Failures
  <2>5. DegradedIffTripped'
    BY <2>1, Zenon DEF DegradedHistory, DegradedIffTripped, Trips, IsLastOf
  <2>6. QED
    BY <2>4, <2>5 DEF DegradedHistory
<1>4. QED
  BY <1>1, <1>2, <1>3

\* The manager is degraded exactly when three failures since the last
\* success fell within one window, and until one window after the last such
\* failure (recordRefreshFailure, oauth.go:384-413).
THEOREM DegradedIffTrippedHolds == Spec => []DegradedIffTripped
<1>1. Spec => []RaceOrder
  BY InitRaceOrder, NextRaceOrder, TypeCorrect, PTL DEF Spec
<1>2. DegradedHistory => DegradedIffTripped
  BY DEF DegradedHistory
<1>3. QED
  BY <1>1, <1>2, InitDegraded, NextDegraded, TypeCorrect, PTL DEF Spec

-----------------------------------------------------------------------------
(***************************************************************************)
(* The backoff.  It is inductive together with the numbering of failures   *)
(* (each one makes the log longer by one) and with the order of their      *)
(* times (the failure that is recorded is the last one).                   *)
(***************************************************************************)
LEMMA InitBackoffFollows == Init => BackoffFollowsFailures
  BY DEF Init, BackoffFollowsFailures

\* One more failure doubles the backoff, up to the cap.
LEMMA NextBackoffDoubles ==
  ASSUME TypeOK, BackoffFollowsFailures
  PROVE  NextBackoff = BackoffAfter(InitBackoff, MaxBackoff, Cardinality(failureLog) + 1)
<1> DEFINE n == Cardinality(failureLog)
<1>1. n \in Nat /\ (n = 0 <=> failureLog = {})
  BY FS_CardinalityType, FS_EmptySet DEF TypeOK
<1>2. /\ InitBackoff \in Nat \ {0} /\ MaxBackoff \in Nat /\ InitBackoff <= MaxBackoff
  BY DurationAssumption
<1>3. CASE failureLog = {}
  <2>1. NextBackoff = InitBackoff /\ n = 0
    BY <1>1, <1>3 DEF BackoffFollowsFailures, NextBackoff
  <2>2. QED
    BY <1>2, <2>1, BackoffDoubles
<1>4. CASE failureLog # {}
  <2>1. refreshBackoff = BackoffAfter(InitBackoff, MaxBackoff, n) /\ n \in Nat \ {0}
    BY <1>1, <1>4 DEF BackoffFollowsFailures
  <2> HIDE DEF n
  <2>2. /\ BackoffAfter(InitBackoff, MaxBackoff, n) \in InitBackoff .. MaxBackoff
        /\ BackoffAfter(InitBackoff, MaxBackoff, n + 1) =
             IF 2 * BackoffAfter(InitBackoff, MaxBackoff, n) < MaxBackoff
             THEN 2 * BackoffAfter(InitBackoff, MaxBackoff, n) ELSE MaxBackoff
    <3>1. \A k \in Nat \ {0} :
            /\ BackoffAfter(InitBackoff, MaxBackoff, k) \in InitBackoff .. MaxBackoff
            /\ BackoffAfter(InitBackoff, MaxBackoff, k + 1) =
                 IF 2 * BackoffAfter(InitBackoff, MaxBackoff, k) < MaxBackoff
                 THEN 2 * BackoffAfter(InitBackoff, MaxBackoff, k) ELSE MaxBackoff
      BY <1>2, BackoffDoubles
    <3>2. QED
      BY <2>1, <3>1
  <2>3. /\ refreshBackoff \in InitBackoff .. MaxBackoff
        /\ BackoffAfter(InitBackoff, MaxBackoff, n + 1) =
             IF 2 * refreshBackoff < MaxBackoff THEN 2 * refreshBackoff ELSE MaxBackoff
    BY <2>1, <2>2
  <2>4. QED
    BY <1>2, <2>3 DEF NextBackoff, n
<1>5. QED
  BY <1>3, <1>4

LEMMA NextBackoffFollows ==
  TypeOK /\ RaceOrder /\ DegradedHistory /\ BackoffFollowsFailures /\ [Next]_vars
    => BackoffFollowsFailures'
<1> SUFFICES ASSUME TypeOK, RaceOrder, DegradedHistory, BackoffFollowsFailures, [Next]_vars
             PROVE  BackoffFollowsFailures'
  OBVIOUS
<1>1. CASE RecordRefreshFailure
  <2> DEFINE new == [n |-> requests, at |-> flight.at]
  <2>1. /\ failureLog' = failureLog \cup {new}
        /\ refreshBackoff' = NextBackoff /\ nextRefreshAttempt' = flight.at + NextBackoff
        /\ flight.phase \in {"answered", "locking"}
    BY <1>1 DEF RecordRefreshFailure, CanWrite
  <2>2. new \notin failureLog /\ \A f \in failureLog : f.at <= new.at
    BY <2>1 DEF RaceOrder, FailuresNumbered, DegradedHistory, PrunedLog, TypeOK, Failures
  <2>3. Cardinality(failureLog') = Cardinality(failureLog) + 1
    BY <2>1, <2>2, FS_AddElement DEF TypeOK
  <2>4. refreshBackoff' = BackoffAfter(InitBackoff, MaxBackoff, Cardinality(failureLog'))
    BY <2>1, <2>3, NextBackoffDoubles
  <2>5. new.at \in Nat
    BY DEF TypeOK, Flights
  <2>6. IsLastOf(new, failureLog')
    BY <2>1, <2>2, <2>5 DEF IsLastOf
  <2>7. nextRefreshAttempt' = new.at + refreshBackoff' /\ new \in failureLog'
    BY <2>1
  <2> HIDE DEF new
  <2>8. QED
    BY <2>4, <2>6, <2>7 DEF BackoffFollowsFailures, IsLastOf
<1>2. CASE RecordRefreshSuccess
  BY <1>2 DEF RecordRefreshSuccess, BackoffFollowsFailures
<1>3. CASE ~RecordRefreshFailure /\ ~RecordRefreshSuccess
  <2>1. UNCHANGED <<failureLog, refreshBackoff, nextRefreshAttempt>>
    BY <1>3 DEF Next, Boot, BootRequest, BootFails, BootSucceeds, TokenStep, Begin, CheckFresh,
       CheckDue, CheckExpired, EnsureAvailable, Cooldown, Reread, Recheck, RefreshStep, BackedOff,
       BackoffPassed, StartFlight, JoinFlight, Answer, FetchFails, FetchSucceeds, FlightStep,
       WriterWaits, Deliver, LoopStep, MeasureDegraded, MeasureHolds, MeasureAgain, Wake,
       LoopStops, Tick, vars, unmoved, state
  <2>2. QED
    BY <2>1 DEF BackoffFollowsFailures, IsLastOf
<1>4. QED
  BY <1>1, <1>2, <1>3

\* After any number of failures the backoff is the first one doubled once per
\* further failure, up to maxRefreshBackoff, and the next attempt is one
\* backoff after the last failure, also when the window has forgotten
\* failures (recordRefreshFailure, oauth.go:384-413).
THEOREM BackoffFollowsFailuresHolds == Spec => []BackoffFollowsFailures
<1>1. Spec => []RaceOrder
  BY InitRaceOrder, NextRaceOrder, TypeCorrect, PTL DEF Spec
<1>2. Spec => []DegradedHistory
  BY <1>1, InitDegraded, NextDegraded, TypeCorrect, PTL DEF Spec
<1>3. QED
  BY <1>1, <1>2, InitBackoffFollows, NextBackoffFollows, TypeCorrect, PTL DEF Spec

-----------------------------------------------------------------------------
(***************************************************************************)
(* A locked-up manager.  Whatever would end it has to take the lock that   *)
(* the waiting writer bars or that the loop holds.                         *)
(***************************************************************************)
LEMMA NextLockedUp ==
  ASSUME TypeOK, Next, LockUp
  PROVE  /\ LockUp' /\ token' = token
         /\ \A c \in Callers : Calling(c)' => Calling(c)
<1> USE DEF LockUp, TypeOK
<1>1. Loop \in Actors /\ Loop \notin Callers /\ Callers \subseteq Actors
  BY CallersAssumption DEF Actors
<1>2. ~CanRead /\ ~CanWrite
  BY <1>1 DEF CanRead, CanWrite, HoldsReadLock
<1>3. ~RefreshStep(Loop) /\ ~LoopStep /\ ~LoopStops /\ ~FlightStep
  <2>1. ~RefreshStep(Loop)
    BY DEF RefreshStep, BackedOff, BackoffPassed, StartFlight, JoinFlight
  <2>2. ~LoopStep /\ ~LoopStops
    BY <1>2 DEF LoopStep, MeasureDegraded, MeasureHolds, MeasureAgain, Wake, LoopStops
  <2>3. ~FlightStep
    BY <1>2 DEF FlightStep, WriterWaits, RecordRefreshSuccess, RecordRefreshFailure, Deliver
  <2>4. QED
    BY <2>1, <2>2, <2>3
<1>4. CASE Boot \/ Answer \/ Tick
  <2>1. UNCHANGED <<flight, token, pc>>
    BY <1>4 DEF Boot, BootRequest, BootFails, BootSucceeds, Answer, FetchFails, FetchSucceeds,
       Tick, state
  <2>2. QED
    BY <2>1 DEF Calling
<1>5. ASSUME NEW c \in Callers, Begin(c) \/ TokenStep(c) \/ RefreshStep(c)
      PROVE  /\ UNCHANGED <<flight, token>> /\ Calling(c)
             /\ \A a \in Actors : a # c => pc'[a] = pc[a]
  <2>1. CASE Begin(c)
    BY <1>2, <2>1 DEF Begin
  <2>2. CASE TokenStep(c)
    BY <1>1, <2>2 DEF TokenStep, CheckFresh, CheckDue, CheckExpired, EnsureAvailable, Cooldown,
       Reread, Recheck, Goto, Return, CallRefresh, Calling, unmoved, state
  <2>3. CASE RefreshStep(c)
    <3>1. flight # NoFlight
      BY DEF NoFlight
    <3>2. JoinFlight(c)
      BY <1>2, <2>3, <3>1 DEF RefreshStep, BackedOff, BackoffPassed, StartFlight
    <3>3. QED
      BY <1>1, <3>2 DEF JoinFlight, Goto, Calling, state
  <2>4. QED
    BY <1>5, <2>1, <2>2, <2>3
<1>6. CASE \E c \in Callers : Begin(c) \/ TokenStep(c) \/ RefreshStep(c)
  <2>1. PICK c \in Callers : Begin(c) \/ TokenStep(c) \/ RefreshStep(c)
    BY <1>6
  <2>2. QED
    BY <1>1, <1>5, <2>1 DEF Calling
<1>7. QED
  BY <1>3, <1>4, <1>6 DEF Next, Actors

\* Once the writer of a refresh and the second read lock of refreshLoop wait
\* for each other, the manager is lost: no step of any goroutine helps.
THEOREM LockedUpForGoodHolds == Spec => LockedUpForGood
<1>1. TypeOK /\ [Next]_vars
        => [LockUp => /\ LockUp' /\ token' = token
                      /\ \A c \in Callers : Calling(c)' => Calling(c)]_vars
  BY NextLockedUp
<1>2. QED
  BY <1>1, TypeCorrect, PTL DEF Spec, LockedUpForGood

-----------------------------------------------------------------------------
(***************************************************************************)
(* Nothing but the lock-up leaves a call without a step that would bring   *)
(* it on: what CallsReturnOrLockUp says of every behaviour, as far as it   *)
(* is about single states.                                                 *)
(***************************************************************************)

\* The guards of TokenStep and RefreshStep, where c stands.
MovesItself(c) ==
  \/ pc[c] \in {"check", "cooldown", "recheck", "join"}
  \/ pc[c] \in {"ensure", "reread", "backoff"} /\ CanRead

\* The guards of Answer and FlightStep.
FlightMoves ==
  \/ flight.phase \in {"fetch", "recorded"}
  \/ flight.phase = "answered" /\ \E a \in Actors : HoldsReadLock(a)
  \/ CanWrite

StuckOnlyByLockUp ==
  \A c \in Callers : Calling(c) => MovesItself(c) \/ FlightMoves \/ LockUp

\* A goroutine that waits for a flight has one to wait for, and only
\* refreshLoop computes delays.
WaitersHaveFlight ==
  /\ flight.phase = "none" => flight = NoFlight
  /\ \A a \in Actors : pc[a] = "wait" => flight.phase # "none"
  /\ \A c \in Callers : pc[c] \notin {"measure", "measuring", "sleep"}

LEMMA InitWaiters == Init => WaitersHaveFlight
  BY DEF Init, WaitersHaveFlight, Actors

LEMMA NextWaiters == TypeOK /\ WaitersHaveFlight /\ [Next]_vars => WaitersHaveFlight'
<1> SUFFICES ASSUME TypeOK, WaitersHaveFlight, [Next]_vars PROVE WaitersHaveFlight'
  OBVIOUS
<1> USE DEF TypeOK, WaitersHaveFlight
<1>0. Loop \in Actors /\ Loop \notin Callers /\ Callers \subseteq Actors
  BY CallersAssumption DEF Actors
<1>1. CASE Boot
  BY <1>0, <1>1 DEF Boot, BootRequest, BootFails, BootSucceeds
<1>2. ASSUME NEW c \in Callers, Begin(c) \/ TokenStep(c)
      PROVE  WaitersHaveFlight'
  <2>1. /\ flight' = flight /\ pc'[c] \notin {"wait", "measure", "measuring", "sleep"}
        /\ \A a \in Actors : a # c => pc'[a] = pc[a]
    BY <1>0, <1>2 DEF Begin, TokenStep, CheckFresh, CheckDue, CheckExpired, EnsureAvailable,
       Cooldown, Reread, Recheck, Goto, Return, CallRefresh, unmoved
  <2>2. QED
    BY <1>0, <2>1
<1>3. ASSUME NEW a \in Actors, RefreshStep(a)
      PROVE  WaitersHaveFlight'
  <2>1. CASE BackedOff(a)
    <3>1. /\ flight' = flight /\ pc'[a] = PcAfter(a, FALSE)
          /\ \A b \in Actors : b # a => pc'[b] = pc[b]
      BY <2>1 DEF BackedOff, RefreshReturns, unmoved
    <3>2. QED
      BY <1>0, <3>1 DEF PcAfter
  <2>2. CASE BackoffPassed(a)
    BY <1>0, <2>2 DEF BackoffPassed, Goto
  <2>3. CASE StartFlight(a)
    <3>1. flight'.phase = "fetch" /\ pc' = [pc EXCEPT ![a] = "wait"]
      BY <2>3 DEF StartFlight, Goto, NoFlight
    <3>2. QED
      BY <1>0, <3>1
  <2>4. CASE JoinFlight(a)
    <3>1. flight.phase # "none"
      BY <2>4 DEF JoinFlight
    <3>2. flight' = flight /\ pc' = [pc EXCEPT ![a] = "wait"]
      BY <2>4 DEF JoinFlight, Goto
    <3>3. QED
      BY <1>0, <3>1, <3>2
  <2>5. QED
    BY <1>3, <2>1, <2>2, <2>3, <2>4 DEF RefreshStep
<1>4. CASE Answer \/ WriterWaits \/ RecordRefreshSuccess \/ RecordRefreshFailure
  <2>1. pc' = pc /\ flight'.phase # "none"
    BY <1>4 DEF Answer, FetchFails, FetchSucceeds, WriterWaits, RecordRefreshSuccess,
       RecordRefreshFailure, Flights
  <2>2. QED
    BY <2>1
<1>5. CASE Deliver
  <2>1. /\ flight' = NoFlight
        /\ \A a \in Actors : pc'[a] = IF pc[a] = "wait" THEN PcAfter(a, flight.ok) ELSE pc[a]
    BY <1>5 DEF Deliver, RefreshReturns
  <2>2. \A a \in Actors : pc'[a] # "wait"
    BY <2>1 DEF PcAfter
  <2>3. \A c \in Callers : PcAfter(c, flight.ok) \in {"reread", "idle"}
    BY <1>0 DEF PcAfter
  <2>4. \A c \in Callers : pc'[c] \in {pc[c], "reread", "idle"}
    BY <1>0, <2>1, <2>3
  <2>5. QED
    BY <2>1, <2>2, <2>4
<1>6. CASE LoopStep \/ LoopStops
  <2>1. flight' = flight /\ \E l \in Labels \ {"wait"} : pc' = [pc EXCEPT ![Loop] = l]
    BY <1>6 DEF LoopStep, MeasureDegraded, MeasureHolds, MeasureAgain, Wake, LoopStops, Goto, Labels
  <2>2. QED
    BY <1>0, <2>1
<1>7. CASE Tick \/ UNCHANGED vars
  BY <1>7 DEF Tick, vars
<1>8. QED
  BY <1>1, <1>2, <1>3, <1>4, <1>5, <1>6, <1>7 DEF Next, FlightStep

\* A call under way can always take its next step, or the flight it waits for
\* or that bars its read can, or the manager is locked up: no other wait
\* closes on itself (oauth.go:131-181, 219-235, 269-289).
THEOREM StuckOnlyByLockUpHolds == Spec => []StuckOnlyByLockUp
<1>1. TypeOK /\ WaitersHaveFlight => StuckOnlyByLockUp
  <2> SUFFICES ASSUME TypeOK, WaitersHaveFlight, NEW c \in Callers, Calling(c),
                      ~MovesItself(c), ~FlightMoves
               PROVE  LockUp
    BY DEF StuckOnlyByLockUp
  <2>1. pc[c] \in {"ensure", "reread", "backoff", "wait"}
    BY DEF TypeOK, Labels, Calling, MovesItself, WaitersHaveFlight, Actors
  <2>2. flight.phase # "none"
    BY <2>1 DEF MovesItself, CanRead, WaitersHaveFlight, Actors
  <2>3. flight.phase = "locking" /\ \E a \in Actors : HoldsReadLock(a)
    BY <2>2 DEF FlightMoves, CanWrite, TypeOK, Flights
  <2>4. QED
    BY <2>3 DEF LockUp, HoldsReadLock, WaitersHaveFlight, Actors
<1>2. QED
  BY <1>1, InitWaiters, NextWaiters, TypeCorrect, PTL DEF Spec
=============================================================================
