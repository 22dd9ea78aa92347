----------------------- MODULE BootstrapClientProofs -----------------------
(***************************************************************************)
(* Proofs about BootstrapClient, for any number of callers and any backoff.*)
(***************************************************************************)
EXTENDS BootstrapClient, InductionTheorems

-----------------------------------------------------------------------------
(* Types. *)

LEMMA OutcomeTypes ==
  /\ Nothing \in Outcomes /\ TheClient \in Outcomes /\ OwnContext \in Outcomes
  /\ \A n \in Nat : Failure(n) \in Outcomes
  /\ Nothing # TheClient
  /\ NoFlight \in Flights
BY DEF Nothing, TheClient, OwnContext, Failure, Outcomes, NoFlight, Flights

LEMMA CachedType ==
  ASSUME NEW t, TypeOK
  PROVE  Cached(t) \in Outcomes
BY OutcomeTypes DEF Cached, TypeOK

LEMMA NextBackoffType == TypeOK => NextBackoff \in 0 .. MaxBackoff
BY BackoffAssumption DEF TypeOK, NextBackoff

LEMMA InitTypeOK == Init => TypeOK
<1> SUFFICES ASSUME Init PROVE TypeOK
  OBVIOUS
<1>1. began \in [Callers -> [errors : Nat, leaving : Nat, client : BOOLEAN]]
  BY DEF Init
<1>2. inbox \in [Callers -> Outcomes] /\ result \in [Callers -> Outcomes] /\ flight \in Flights
  BY OutcomeTypes DEF Init
<1>3. 0 \in 0 .. MaxBackoff
  BY BackoffAssumption
<1>4. ctx \in [Callers -> BOOLEAN] /\ client \in BOOLEAN
  BY DEF Init
<1>5. QED
  BY <1>1, <1>2, <1>3, <1>4 DEF Init, TypeOK

LEMMA ReturnType ==
  ASSUME TypeOK, NEW c \in Callers, NEW o \in Outcomes, Return(c, o)
  PROVE  /\ pc' \in [Callers -> {"idle", "look", "join", "wait"}]
         /\ now' \in [Callers -> Nat]
         /\ ctx' \in [Callers -> BOOLEAN]
         /\ inbox' \in [Callers -> Outcomes]
         /\ result' \in [Callers -> Outcomes]
         /\ runs' \in [Callers -> Nat]
         /\ began' \in [Callers -> [errors : Nat, leaving : Nat, client : BOOLEAN]]
BY OutcomeTypes DEF TypeOK, Return, Goto

LEMMA CallTypeOK ==
  ASSUME TypeOK, NEW c \in Callers, Enter(c) \/ CallStep(c) \/ ContextEnds(c)
  PROVE  TypeOK'
<1>1. CASE Enter(c)
  <2>1. [errors |-> lastErr, leaving |-> flight.outcome.n, client |-> client]
          \in [errors : Nat, leaving : Nat, client : BOOLEAN]
    BY DEF TypeOK, Flights, Outcomes
  <2>2. QED
    BY <1>1, <2>1, OutcomeTypes DEF TypeOK, Enter, Goto, cache, flown
<1>2. CASE LookHit(c)
  BY <1>2, ReturnType, CachedType DEF TypeOK, LookHit, cache, flown
<1>3. CASE LookMiss(c)
  BY <1>3 DEF TypeOK, LookMiss, Goto, cache, flown, locals
<1>4. CASE Join(c)
  <2>1. flight' \in Flights
    BY <1>4 DEF Join, TypeOK, Flights, NoFlight, Nothing, Outcomes
  <2>2. QED
    BY <1>4, <2>1 DEF TypeOK, Join, Goto, cache, locals
<1>5. CASE GiveUp(c)
  BY <1>5, ReturnType, OutcomeTypes DEF TypeOK, GiveUp, cache, flown
<1>6. CASE Receive(c)
  <2>1. inbox[c] \in Outcomes
    BY DEF TypeOK
  <2>2. QED
    BY <1>6, <2>1, ReturnType DEF TypeOK, Receive, cache, flown
<1>7. CASE ContextEnds(c)
  BY <1>7 DEF TypeOK, ContextEnds, cache, flown
<1>8. QED
  BY <1>1, <1>2, <1>3, <1>4, <1>5, <1>6, <1>7 DEF CallStep

LEMMA FlightTypeOK ==
  ASSUME TypeOK, AuthAnswer \/ FlightStep \/ Tick
  PROVE  TypeOK'
<1>1. CASE FlightHit
  <2>1. flight' \in Flights
    BY <1>1, CachedType DEF FlightHit, TypeOK, Flights
  <2>2. QED
    BY <1>1, <2>1 DEF TypeOK, FlightHit, cache, locals
<1>2. CASE Authenticate
  <2>1. flight' \in Flights
    BY <1>2 DEF Authenticate, TypeOK, Flights
  <2>2. QED
    BY <1>2, <2>1 DEF TypeOK, Authenticate, cache, locals
<1>3. CASE AuthSucceeds
  <2>1. flight' \in Flights
    BY <1>3 DEF AuthSucceeds, TypeOK, Flights
  <2>2. QED
    BY <1>3, <2>1 DEF TypeOK, AuthSucceeds, cache, locals
<1>4. CASE AuthFails
  <2>1. flight' \in Flights
    BY <1>4 DEF AuthFails, TypeOK, Flights
  <2>2. QED
    BY <1>4, <2>1 DEF TypeOK, AuthFails, cache, locals
<1>5. CASE StoreClient
  <2>1. flight' \in Flights
    BY <1>5, OutcomeTypes DEF StoreClient, TypeOK, Flights
  <2>2. CASE client
    BY <1>5, <2>1, <2>2 DEF TypeOK, StoreClient, cache, locals
  <2>3. CASE ~client
    BY <1>5, <2>1, <2>3, BackoffAssumption DEF TypeOK, StoreClient, locals
  <2>4. QED
    BY <2>2, <2>3
<1>6. CASE RecordBootstrapFailure
  <2>1. flight' \in Flights
    BY <1>6, OutcomeTypes DEF RecordBootstrapFailure, TypeOK, Flights
  <2>2. flight.now + NextBackoff \in Nat
    BY NextBackoffType DEF TypeOK, Flights
  <2>3. QED
    BY <1>6, <2>1, <2>2, NextBackoffType DEF TypeOK, RecordBootstrapFailure, locals
<1>7. CASE Deliver
  <2>1. inbox' \in [Callers -> Outcomes]
    BY <1>7 DEF Deliver, TypeOK, Flights
  <2>2. began' \in [Callers -> [errors : Nat, leaving : Nat, client : BOOLEAN]]
    BY <1>7 DEF Deliver, FlightLeaves, TypeOK
  <2>3. QED
    BY <1>7, <2>1, <2>2, OutcomeTypes DEF TypeOK, Deliver, cache
<1>8. CASE Tick
  BY <1>8 DEF TypeOK, Tick, cache, flown, locals
<1>9. QED
  BY <1>1, <1>2, <1>3, <1>4, <1>5, <1>6, <1>7, <1>8 DEF AuthAnswer, FlightStep

LEMMA NextTypeOK == TypeOK /\ [Next]_vars => TypeOK'
<1>1. ASSUME TypeOK, UNCHANGED vars PROVE TypeOK'
  BY <1>1 DEF TypeOK, vars, cache, flown, locals
<1>2. QED
  BY <1>1, CallTypeOK, FlightTypeOK DEF Next

\* Every variable keeps its type; the backoff never exceeds maxBackoff.
THEOREM TypeCorrect == Spec => []TypeOK
<1>1. QED
  BY InitTypeOK, NextTypeOK, PTL DEF Spec

-----------------------------------------------------------------------------
(***************************************************************************)
(* One manager.  OneManager is not inductive: it needs that an attempt is  *)
(* under way only while there is no client, which holds since the flight   *)
(* looks at the cache again and only the flight stores a client.           *)
(***************************************************************************)
ManagerCount ==
  /\ flight.phase \in {"auth", "failed"} => ~client /\ managers = 0
  /\ flight.phase = "made" => ~client /\ managers = 1
  /\ flight.phase \in {"none", "begun", "done"} => managers = IF client THEN 1 ELSE 0

LEMMA InitManagerCount == Init => ManagerCount
BY DEF Init, ManagerCount, NoFlight

LEMMA NextManagerCount == TypeOK /\ ManagerCount /\ [Next]_vars => ManagerCount'
<1> SUFFICES ASSUME TypeOK, ManagerCount, [Next]_vars
             PROVE  ManagerCount'
  OBVIOUS
<1> USE DEF ManagerCount
<1>1. ASSUME NEW c \in Callers, Enter(c) \/ CallStep(c) \/ ContextEnds(c)
      PROVE  ManagerCount'
  <2>1. CASE Join(c)
    BY <2>1 DEF Join, cache, NoFlight
  <2>2. CASE ~Join(c)
    <3>1. client' = client /\ managers' = managers /\ flight' = flight
      BY <1>1, <2>2 DEF CallStep, Enter, LookHit, LookMiss, GiveUp, Receive, ContextEnds, cache,
                        flown
    <3>2. QED
      BY <3>1
  <2>3. QED
    BY <2>1, <2>2
<1>2. CASE FlightHit
  BY <1>2 DEF FlightHit, TypeOK, Flights, cache
<1>3. CASE Authenticate
  <2>1. ~client
    BY <1>3, OutcomeTypes DEF Authenticate, Cached
  <2>2. flight'.phase = "auth" /\ flight.phase = "begun"
        /\ managers' = managers /\ client' = client
    BY <1>3 DEF Authenticate, TypeOK, Flights, cache
  <2>3. QED
    BY <2>1, <2>2
<1>4. CASE AuthSucceeds
  BY <1>4 DEF AuthSucceeds, TypeOK, Flights, cache
<1>5. CASE AuthFails
  BY <1>5 DEF AuthFails, TypeOK, Flights, cache
<1>6. CASE StoreClient
  BY <1>6 DEF StoreClient, TypeOK, Flights, cache
<1>7. CASE RecordBootstrapFailure
  BY <1>7 DEF RecordBootstrapFailure, TypeOK, Flights
<1>8. CASE Deliver
  BY <1>8 DEF Deliver, NoFlight, cache
<1>9. CASE Tick \/ UNCHANGED vars
  BY <1>9 DEF Tick, vars, cache, flown
<1>10. QED
  BY <1>1, <1>2, <1>3, <1>4, <1>5, <1>6, <1>7, <1>8, <1>9 DEF Next, AuthAnswer, FlightStep

\* One manager at most is ever made, whichever calls race for it.
THEOREM OneManagerHolds == Spec => []OneManager
<1>1. TypeOK /\ ManagerCount => OneManager
  BY DEF ManagerCount, OneManager, TypeOK, Flights
<1>2. QED
  BY <1>1, InitManagerCount, NextManagerCount, TypeCorrect, PTL DEF Spec

-----------------------------------------------------------------------------
(***************************************************************************)
(* Refinement of LazyClient.  A call is handed the client only once it is  *)
(* stored, and a call that began after that is answered by its first look. *)
(***************************************************************************)
ClientKnown ==
  /\ flight.outcome.kind = "client" => client
  /\ flight.phase = "done" => flight.outcome.kind \in {"client", "error"}
  /\ \A c \in Callers :
       /\ inbox[c] = Nothing \/ inbox[c].kind \in {"client", "error"}
       /\ inbox[c].kind = "client" => client
       /\ began[c].client => client
       /\ began[c].client /\ pc[c] # "idle" => pc[c] = "look"

LEMMA InitClientKnown == Init => ClientKnown
BY DEF Init, ClientKnown, NoFlight, Nothing

LEMMA CachedKnown ==
  ASSUME NEW t, Cached(t) # Nothing
  PROVE  /\ Cached(t).kind \in {"client", "error"}
         /\ Cached(t).kind = "client" <=> client
BY DEF Cached, TheClient, Failure, Nothing

LEMMA CallClientKnown ==
  ASSUME TypeOK, ClientKnown, NEW c \in Callers, Enter(c) \/ CallStep(c) \/ ContextEnds(c)
  PROVE  ClientKnown'
<1>1. client' = client
  BY DEF CallStep, Enter, LookHit, LookMiss, Join, GiveUp, Receive, ContextEnds, cache
<1>2. /\ flight'.outcome = flight.outcome
      /\ flight'.phase = "done" => flight.phase = "done"
  BY DEF CallStep, Enter, LookHit, LookMiss, Join, GiveUp, Receive, ContextEnds, flown, TypeOK,
         Flights, NoFlight
<1>3. ASSUME NEW d \in Callers, d # c
      PROVE  pc'[d] = pc[d] /\ inbox'[d] = inbox[d] /\ began'[d] = began[d]
  BY <1>3 DEF CallStep, Enter, LookHit, LookMiss, Join, GiveUp, Receive, ContextEnds, Return, Goto,
              locals, TypeOK
<1>4. /\ inbox'[c] \in {inbox[c], Nothing}
      /\ began'[c].client => client
      /\ began'[c].client /\ pc'[c] # "idle" => pc'[c] = "look"
  <2> USE <1>1 DEF TypeOK, ClientKnown
  <2>1. CASE Enter(c)
    BY <2>1 DEF Enter, Goto
  <2>2. CASE LookHit(c)
    BY <2>2 DEF LookHit, Return, Goto
  <2>3. CASE LookMiss(c)
    <3>1. ~client
      BY <2>3 DEF LookMiss, Cached, TheClient, Nothing
    <3>2. QED
      BY <2>3, <3>1 DEF LookMiss, Goto, locals
  <2>4. CASE Join(c)
    BY <2>4 DEF Join, Goto, locals
  <2>5. CASE GiveUp(c)
    BY <2>5 DEF GiveUp, Return, Goto
  <2>6. CASE Receive(c)
    BY <2>6 DEF Receive, Return, Goto
  <2>7. CASE ContextEnds(c)
    BY <2>7 DEF ContextEnds
  <2>8. QED
    BY <2>1, <2>2, <2>3, <2>4, <2>5, <2>6, <2>7 DEF CallStep
<1>5. QED
  BY <1>1, <1>2, <1>3, <1>4 DEF ClientKnown, Nothing

LEMMA FlightClientKnown ==
  ASSUME TypeOK, ClientKnown, AuthAnswer \/ FlightStep \/ Tick
  PROVE  ClientKnown'
<1> USE DEF ClientKnown
<1>1. CASE FlightHit
  BY <1>1, CachedKnown DEF FlightHit, TypeOK, Flights, cache, locals
<1>2. CASE Authenticate
  BY <1>2 DEF Authenticate, TypeOK, Flights, cache, locals
<1>3. CASE AuthSucceeds
  BY <1>3 DEF AuthSucceeds, TypeOK, Flights, cache, locals
<1>4. CASE AuthFails
  BY <1>4 DEF AuthFails, TypeOK, Flights, cache, locals
<1>5. CASE StoreClient
  <2>1. client' /\ flight'.outcome.kind = "client"
    BY <1>5 DEF StoreClient, TypeOK, Flights, cache, TheClient
  <2>2. inbox' = inbox /\ began' = began /\ pc' = pc
    BY <1>5 DEF StoreClient, locals
  <2>3. QED
    BY <2>1, <2>2
<1>6. CASE RecordBootstrapFailure
  BY <1>6 DEF RecordBootstrapFailure, TypeOK, Flights, Failure, locals
<1>7. CASE Deliver
  <2>1. /\ client' = client /\ pc' = pc
        /\ \A c \in Callers : began'[c].client = began[c].client
        /\ flight'.outcome = Nothing /\ flight'.phase = "none"
        /\ flight.phase = "done"
    BY <1>7 DEF Deliver, FlightLeaves, NoFlight, cache, TypeOK
  <2>2. \A c \in Callers : inbox'[c] \in {flight.outcome, inbox[c]}
    BY <1>7 DEF Deliver
  <2>3. QED
    BY <2>1, <2>2 DEF Nothing
<1>8. CASE Tick
  BY <1>8 DEF Tick, cache, flown, locals
<1>9. QED
  BY <1>1, <1>2, <1>3, <1>4, <1>5, <1>6, <1>7, <1>8 DEF AuthAnswer, FlightStep

LEMMA NextClientKnown == TypeOK /\ ClientKnown /\ [Next]_vars => ClientKnown'
<1>1. ASSUME ClientKnown, UNCHANGED vars PROVE ClientKnown'
  BY <1>1 DEF ClientKnown, vars, cache, flown, locals
<1>2. QED
  BY <1>1, CallClientKnown, FlightClientKnown DEF Next

AbstractCalls == [c \in Callers |-> [status |-> CallStatus(c), late |-> began[c].client]]

LEMMA InitRefines == Init => Lazy!Init
BY DEF Init, Lazy!Init, CallStatus, Nothing

\* A step of one call changes the abstract state of that call only.
LEMMA OneCallMoves ==
  ASSUME TypeOK, NEW c \in Callers, Enter(c) \/ CallStep(c) \/ ContextEnds(c)
  PROVE  /\ client' = client
         /\ AbstractCalls' = [AbstractCalls EXCEPT ![c] =
                                [status |-> CallStatus(c)', late |-> began'[c].client]]
<1>1. client' = client
  BY DEF CallStep, Enter, LookHit, LookMiss, Join, GiveUp, Receive, ContextEnds, cache
<1>2. ASSUME NEW d \in Callers, d # c
      PROVE  pc'[d] = pc[d] /\ result'[d] = result[d] /\ began'[d] = began[d]
  BY <1>2 DEF CallStep, Enter, LookHit, LookMiss, Join, GiveUp, Receive, ContextEnds, Return, Goto,
              locals, TypeOK
<1>3. ASSUME NEW d \in Callers, d # c
      PROVE  AbstractCalls'[d] = AbstractCalls[d]
  BY <1>2, <1>3 DEF AbstractCalls, CallStatus
<1>4. AbstractCalls'[c] = [status |-> CallStatus(c)', late |-> began'[c].client]
  BY DEF AbstractCalls
<1>5. QED
  BY <1>1, <1>3, <1>4 DEF AbstractCalls

LEMMA CallRefines ==
  ASSUME TypeOK, ClientKnown, NEW c \in Callers, Enter(c) \/ CallStep(c) \/ ContextEnds(c)
  PROVE  [Lazy!Next]_<<client, AbstractCalls>>
<1> DEFINE new == [status |-> CallStatus(c)', late |-> began'[c].client]
<1>1. /\ client' = client
      /\ AbstractCalls' = [AbstractCalls EXCEPT ![c] = new]
  BY OneCallMoves
<1>2. AbstractCalls[c] = [status |-> CallStatus(c), late |-> began[c].client]
  BY DEF AbstractCalls
<1>3. CASE new = AbstractCalls[c]
  <2>1. AbstractCalls' = AbstractCalls
    BY <1>1, <1>3 DEF AbstractCalls
  <2>2. QED
    BY <1>1, <2>1
<1>4. CASE Enter(c)
  <2>1. pc[c] = "idle" /\ pc'[c] = "look" /\ began'[c].client = client
    BY <1>4 DEF Enter, Goto, TypeOK
  <2>2. new = [status |-> "pending", late |-> client] /\ AbstractCalls[c].status # "pending"
    BY <1>2, <2>1 DEF CallStatus
  <2>3. Lazy!Begin(c)
    BY <1>1, <2>2 DEF Lazy!Begin, AbstractCalls
  <2>4. QED
    BY <2>3 DEF Lazy!Next
<1>5. ASSUME NEW o \in Outcomes, Return(c, o), pc[c] # "idle",
             o.kind = "client" => client,
             o.kind # "client" => ~began[c].client, o.kind # "none"
      PROVE  Lazy!Next
  <2>1. pc'[c] = "idle" /\ result'[c] = o /\ began'[c].client = began[c].client
    BY <1>5 DEF Return, Goto, TypeOK
  <2>2. AbstractCalls[c].status = "pending" /\ AbstractCalls[c].late = began[c].client
    BY <1>2, <1>5 DEF CallStatus
  <2>3. CASE o.kind = "client"
    <3>1. new = [AbstractCalls[c] EXCEPT !.status = "served"]
      BY <1>2, <2>1, <2>3 DEF CallStatus
    <3>2. Lazy!Serve(c)
      BY <1>1, <1>5, <2>2, <2>3, <3>1 DEF Lazy!Serve, AbstractCalls
    <3>3. QED
      BY <3>2 DEF Lazy!Next
  <2>4. CASE o.kind # "client"
    <3>1. new = [AbstractCalls[c] EXCEPT !.status = "failed"]
      BY <1>2, <1>5, <2>1, <2>4 DEF CallStatus
    <3>2. Lazy!Fail(c)
      BY <1>1, <1>5, <2>2, <2>4, <3>1 DEF Lazy!Fail, AbstractCalls
    <3>3. QED
      BY <3>2 DEF Lazy!Next
  <2>5. QED
    BY <2>3, <2>4
<1>6. CASE LookHit(c)
  BY <1>5, <1>6, CachedKnown, CachedType DEF LookHit, ClientKnown
<1>7. CASE LookMiss(c)
  <2>1. pc[c] # "idle" /\ pc'[c] # "idle" /\ began' = began
    BY <1>7 DEF LookMiss, Goto, TypeOK, locals
  <2>2. QED
    BY <1>2, <1>3, <2>1 DEF CallStatus
<1>8. CASE Join(c)
  <2>1. pc[c] # "idle" /\ pc'[c] # "idle" /\ began' = began
    BY <1>8 DEF Join, Goto, TypeOK, locals
  <2>2. QED
    BY <1>2, <1>3, <2>1 DEF CallStatus
<1>9. CASE GiveUp(c)
  <2>1. ~began[c].client /\ pc[c] = "wait" /\ Return(c, OwnContext)
    BY <1>9 DEF GiveUp, ClientKnown
  <2>2. QED
    BY <1>5, <2>1, OutcomeTypes DEF OwnContext
<1>10. CASE Receive(c)
  <2>1. /\ ~began[c].client /\ pc[c] = "wait" /\ Return(c, inbox[c])
        /\ inbox[c] \in Outcomes /\ inbox[c].kind \in {"client", "error"}
        /\ inbox[c].kind = "client" => client
    BY <1>10 DEF Receive, ClientKnown, TypeOK
  <2>2. QED
    BY <1>5, <2>1
<1>11. CASE ContextEnds(c)
  <2>1. pc' = pc /\ began' = began /\ result' = result
    BY <1>11 DEF ContextEnds
  <2>2. QED
    BY <1>2, <1>3, <2>1 DEF CallStatus
<1>12. QED
  BY <1>4, <1>6, <1>7, <1>8, <1>9, <1>10, <1>11 DEF CallStep

LEMMA FlightRefines ==
  ASSUME TypeOK, AuthAnswer \/ FlightStep \/ Tick \/ UNCHANGED vars
  PROVE  [Lazy!Next]_<<client, AbstractCalls>>
<1>1. /\ pc' = pc /\ result' = result
      /\ \A c \in Callers : began'[c].client = began[c].client
  BY DEF AuthAnswer, FlightStep, AuthSucceeds, AuthFails, FlightHit, Authenticate, StoreClient,
         RecordBootstrapFailure, Deliver, FlightLeaves, Tick, vars, locals, TypeOK
<1>2. AbstractCalls' = AbstractCalls
  BY <1>1 DEF AbstractCalls, CallStatus
<1>3. client' = client \/ (~client /\ client' = TRUE)
  BY DEF AuthAnswer, FlightStep, AuthSucceeds, AuthFails, FlightHit, Authenticate, StoreClient,
         RecordBootstrapFailure, Deliver, Tick, vars, cache
<1>4. QED
  BY <1>2, <1>3 DEF Lazy!Next, Lazy!Build, AbstractCalls

\* The bootstrap client implements LazyClient: it is built once, and a call
\* that begins after that is served.
THEOREM Refines == Spec => ImplementsLazyClient
<1>1. Init => Lazy!Init
  BY InitRefines
<1>2. TypeOK /\ ClientKnown /\ [Next]_vars => [Lazy!Next]_<<client, AbstractCalls>>
  BY CallRefines, FlightRefines DEF Next
<1>3. QED
  BY <1>1, <1>2, InitClientKnown, NextClientKnown, TypeCorrect, PTL
  DEF Spec, ImplementsLazyClient, Lazy!Spec, AbstractCalls

-----------------------------------------------------------------------------
(***************************************************************************)
(* Attempts are a backoff apart, whichever call starts them.  The clients  *)
(* keep the last backoff only; Spacing says that outside an attempt it is  *)
(* the one that belongs to the number of attempts so far, and that the     *)
(* cached error holds until that long after the last attempt started.      *)
(***************************************************************************)
AfterAttempts(k) == IF k = 0 THEN 0 ELSE BackoffAfter(InitBackoff, MaxBackoff, k)

Spacing ==
  /\ flight.phase \in {"auth", "failed"}
       => /\ flight.now = lastStart /\ attempts > 0
          /\ bootstrapBackoff = AfterAttempts(attempts - 1)
  /\ flight.phase \in {"none", "begun", "done"} /\ ~client
       => /\ lastErr = attempts
          /\ bootstrapBackoff = AfterAttempts(attempts)
          /\ attempts > 0 => nextBootstrapAttempt = lastStart + bootstrapBackoff

LEMMA InitSpacing == Init => Spacing
BY DEF Init, Spacing, NoFlight, AfterAttempts

\* A failure moves the backoff on to the one for one attempt more.
LEMMA NextBackoffDoubles ==
  ASSUME TypeOK, NEW k \in Nat, bootstrapBackoff = AfterAttempts(k)
  PROVE  NextBackoff = AfterAttempts(k + 1)
<1>1. /\ InitBackoff \in Nat \ {0} /\ MaxBackoff \in Nat /\ InitBackoff <= MaxBackoff
  BY BackoffAssumption
<1>2. CASE k = 0
  BY <1>1, <1>2, BackoffDoubles DEF AfterAttempts, NextBackoff
<1>3. CASE k # 0
  <2>1. \A j \in Nat \ {0} :
          /\ BackoffAfter(InitBackoff, MaxBackoff, j) \in InitBackoff .. MaxBackoff
          /\ BackoffAfter(InitBackoff, MaxBackoff, j + 1) =
               IF 2 * BackoffAfter(InitBackoff, MaxBackoff, j) < MaxBackoff
               THEN 2 * BackoffAfter(InitBackoff, MaxBackoff, j) ELSE MaxBackoff
    BY <1>1, BackoffDoubles
  <2>2. /\ AfterAttempts(k) \in InitBackoff .. MaxBackoff
        /\ AfterAttempts(k + 1) = IF 2 * AfterAttempts(k) < MaxBackoff
                                  THEN 2 * AfterAttempts(k) ELSE MaxBackoff
    BY <1>3, <2>1 DEF AfterAttempts
  <2>3. QED
    BY <1>1, <2>2 DEF NextBackoff
<1>4. QED
  BY <1>2, <1>3

LEMMA NextSpacing == TypeOK /\ Spacing /\ [Next]_vars => Spacing'
<1> SUFFICES ASSUME TypeOK, Spacing, [Next]_vars
             PROVE  Spacing'
  OBVIOUS
<1> USE DEF Spacing
<1>1. ASSUME NEW c \in Callers, Enter(c) \/ CallStep(c) \/ ContextEnds(c)
      PROVE  Spacing'
  <2>1. UNCHANGED <<client, lastErr, bootstrapBackoff, nextBootstrapAttempt, attempts, lastStart>>
    BY <1>1 DEF CallStep, Enter, LookHit, LookMiss, Join, GiveUp, Receive, ContextEnds, cache,
                flown
  <2>2. flight' = flight \/ (flight.phase = "none" /\ flight'.phase = "begun")
    BY <1>1 DEF CallStep, Enter, LookHit, LookMiss, Join, GiveUp, Receive, ContextEnds, flown,
                NoFlight
  <2>3. QED
    BY <2>1, <2>2
<1>2. CASE FlightHit
  BY <1>2 DEF FlightHit, TypeOK, Flights, cache
<1>3. CASE Authenticate
  <2>1. ~client /\ flight.phase = "begun"
    BY <1>3, OutcomeTypes DEF Authenticate, Cached
  <2>2. /\ flight'.phase = "auth" /\ flight'.now = clock /\ lastStart' = clock
        /\ attempts' = attempts + 1 /\ bootstrapBackoff' = bootstrapBackoff
    BY <1>3 DEF Authenticate, TypeOK, Flights, cache
  <2>3. attempts' > 0 /\ attempts' - 1 = attempts
    BY <2>2 DEF TypeOK
  <2>4. QED
    BY <2>1, <2>2, <2>3
<1>4. CASE AuthSucceeds \/ AuthFails
  BY <1>4 DEF AuthSucceeds, AuthFails, TypeOK, Flights, cache
<1>5. CASE StoreClient
  BY <1>5 DEF StoreClient, TypeOK, Flights, cache
<1>6. CASE RecordBootstrapFailure
  <2>1. /\ attempts - 1 \in Nat /\ attempts > 0 /\ flight.now = lastStart
        /\ bootstrapBackoff = AfterAttempts(attempts - 1)
    BY <1>6 DEF RecordBootstrapFailure, TypeOK
  <2>2. NextBackoff = AfterAttempts(attempts)
    <3>1. NextBackoff = AfterAttempts((attempts - 1) + 1)
      BY <2>1, NextBackoffDoubles
    <3>2. (attempts - 1) + 1 = attempts
      BY DEF TypeOK
    <3>3. QED
      BY <3>1, <3>2
  <2>3. /\ lastErr' = attempts /\ attempts' = attempts /\ lastStart' = lastStart
        /\ bootstrapBackoff' = NextBackoff
        /\ nextBootstrapAttempt' = flight.now + NextBackoff
        /\ flight'.phase = "done"
    BY <1>6 DEF RecordBootstrapFailure, TypeOK, Flights
  <2>4. QED
    BY <2>1, <2>2, <2>3
<1>7. CASE Deliver
  BY <1>7 DEF Deliver, NoFlight, cache
<1>8. CASE Tick \/ UNCHANGED vars
  BY <1>8 DEF Tick, vars, cache, flown
<1>9. QED
  BY <1>1, <1>2, <1>3, <1>4, <1>5, <1>6, <1>7, <1>8 DEF Next, AuthAnswer, FlightStep

\* Attempt k + 1 starts no earlier than the k-th backoff after attempt k
\* started: initialBackoff doubled k - 1 times, up to maxBackoff
\* (recordBootstrapFailure, api_caller.go:132-148).
THEOREM AttemptsSpacedHolds == Spec => AttemptsSpaced
<1>1. TypeOK /\ Spacing /\ [Next]_vars
        => [attempts' # attempts /\ attempts > 0
              => clock >= lastStart + BackoffAfter(InitBackoff, MaxBackoff, attempts)]_vars
  <2> SUFFICES ASSUME TypeOK, Spacing, Next, attempts' # attempts, attempts > 0
               PROVE  clock >= lastStart + BackoffAfter(InitBackoff, MaxBackoff, attempts)
    OBVIOUS
  <2>1. Authenticate
    BY DEF Next, CallStep, Enter, LookHit, LookMiss, Join, GiveUp, Receive, ContextEnds, flown,
           AuthAnswer, FlightStep, AuthSucceeds, AuthFails, FlightHit, StoreClient,
           RecordBootstrapFailure, Deliver, Tick
  <2>2. ~client /\ ~(lastErr # 0 /\ clock < nextBootstrapAttempt) /\ flight.phase = "begun"
    BY <2>1, OutcomeTypes DEF Authenticate, Cached, Failure, Nothing
  <2>3. /\ lastErr = attempts
        /\ nextBootstrapAttempt = lastStart + bootstrapBackoff
        /\ bootstrapBackoff = BackoffAfter(InitBackoff, MaxBackoff, attempts)
    BY <2>2 DEF Spacing, TypeOK, AfterAttempts
  <2>4. QED
    BY <2>2, <2>3 DEF TypeOK
<1>2. QED
  BY <1>1, InitSpacing, NextSpacing, TypeCorrect, PTL DEF Spec, AttemptsSpaced

-----------------------------------------------------------------------------
(***************************************************************************)
(* No call gets an error recorded before it began, but by its own look     *)
(* inside the backoff or by a flight that held that error out already.     *)
(* The failure an attempt records is younger than every call; and a flight *)
(* that finds an error in the cache found it still holding, at a time not  *)
(* before any waiting call looked, so that a call that missed that error   *)
(* cannot be waiting for it, unless the flight was done when it began.     *)
(***************************************************************************)
\* What a call knew is older than the attempt under way.
KnownErrors ==
  /\ lastErr <= attempts
  /\ flight.phase \in {"auth", "failed"} => lastErr < attempts
  /\ \A c \in Callers : /\ began[c].errors <= attempts
                        /\ flight.phase \in {"auth", "failed"} => began[c].errors < attempts

\* A call past its look missed the cached error, because it had run out, or
\* the error is younger than the call.
MissedErrors ==
  \A c \in Callers :
    /\ pc[c] # "idle" => now[c] <= clock
    /\ pc[c] \in {"join", "wait"}
         => began[c].errors < lastErr \/ lastErr = 0 \/ nextBootstrapAttempt <= clock

\* An error about to be delivered: a call that knew it will hit it in the cache,
\* or began while the flight already held it out.
OutcomeErrors ==
  flight.phase = "done" /\ flight.outcome.kind = "error" =>
    /\ flight.outcome.n = lastErr /\ lastErr # 0
    /\ \A c \in Callers : pc[c] # "idle" =>
         \/ began[c].errors < flight.outcome.n
         \/ pc[c] = "look" /\ now[c] < nextBootstrapAttempt
         \/ began[c].leaving = flight.outcome.n

DeliveredErrors ==
  \A c \in Callers : inbox[c].kind = "error" =>
    /\ pc[c] = "wait"
    /\ began[c].errors < inbox[c].n \/ began[c].leaving = inbox[c].n

ErrorAges == KnownErrors /\ MissedErrors /\ OutcomeErrors /\ DeliveredErrors

LEMMA InitErrorAges == Init => ErrorAges
BY DEF Init, ErrorAges, KnownErrors, MissedErrors, OutcomeErrors, DeliveredErrors, NoFlight,
       Nothing

LEMMA CallErrorAges ==
  ASSUME TypeOK, ErrorAges, NEW c \in Callers, Enter(c) \/ CallStep(c) \/ ContextEnds(c)
  PROVE  ErrorAges'
<1>1. UNCHANGED <<clock, client, lastErr, nextBootstrapAttempt, attempts>>
  BY DEF CallStep, Enter, LookHit, LookMiss, Join, GiveUp, Receive, ContextEnds, cache, flown
<1>2. flight' = flight \/ flight'.phase = "begun"
  BY DEF CallStep, Enter, LookHit, LookMiss, Join, GiveUp, Receive, ContextEnds, flown, NoFlight
<1>3. ASSUME NEW d \in Callers, d # c
      PROVE  /\ pc'[d] = pc[d] /\ now'[d] = now[d]
             /\ inbox'[d] = inbox[d] /\ began'[d] = began[d]
  BY <1>3 DEF CallStep, Enter, LookHit, LookMiss, Join, GiveUp, Receive, ContextEnds, Return, Goto,
              locals, TypeOK
<1>4. \/ /\ pc[c] = "idle" /\ pc'[c] = "look" /\ now'[c] = clock /\ inbox'[c] = inbox[c]
         /\ began'[c].errors = lastErr /\ began'[c].leaving = flight.outcome.n
      \/ /\ pc'[c] = "idle" /\ inbox'[c] = Nothing /\ began'[c].errors = 0
      \/ /\ pc[c] = "look" /\ pc'[c] = "join"
         /\ lastErr = 0 \/ nextBootstrapAttempt <= now[c]
         /\ now'[c] = 0 /\ UNCHANGED <<inbox, began>>
      \/ /\ pc[c] = "join" /\ pc'[c] = "wait" /\ UNCHANGED <<now, inbox, began>>
      \/ UNCHANGED <<pc, now, inbox, began>>
  <2> USE DEF TypeOK
  <2>1. CASE Enter(c)
    BY <2>1 DEF Enter, Goto
  <2>2. CASE LookHit(c) \/ GiveUp(c) \/ Receive(c)
    BY <2>2 DEF LookHit, GiveUp, Receive, Return, Goto
  <2>3. CASE LookMiss(c)
    <3>1. lastErr = 0 \/ nextBootstrapAttempt <= now[c]
      BY <2>3 DEF LookMiss, Cached, TheClient, Failure, Nothing
    <3>2. QED
      BY <2>3, <3>1 DEF LookMiss, Goto, locals
  <2>4. CASE Join(c)
    BY <2>4 DEF Join, Goto, locals
  <2>5. CASE ContextEnds(c)
    BY <2>5 DEF ContextEnds
  <2>6. QED
    BY <2>1, <2>2, <2>3, <2>4, <2>5 DEF CallStep
<1> USE DEF TypeOK
<1>5. KnownErrors'
  BY <1>1, <1>2, <1>3, <1>4 DEF ErrorAges, KnownErrors
<1>6. MissedErrors'
  BY <1>1, <1>3, <1>4 DEF ErrorAges, MissedErrors
<1>7. OutcomeErrors'
  BY <1>1, <1>2, <1>3, <1>4 DEF ErrorAges, OutcomeErrors
<1>8. DeliveredErrors'
  BY <1>1, <1>3, <1>4 DEF ErrorAges, DeliveredErrors, Nothing
<1>9. QED
  BY <1>5, <1>6, <1>7, <1>8 DEF ErrorAges

LEMMA FlightErrorAges ==
  ASSUME TypeOK, Spacing, ErrorAges, AuthAnswer \/ FlightStep \/ Tick
  PROVE  ErrorAges'
<1> USE DEF TypeOK, ErrorAges
<1>1. CASE FlightHit
  <2>1. /\ UNCHANGED <<clock, lastErr, nextBootstrapAttempt, attempts, pc, now, inbox, began>>
        /\ flight'.phase = "done" /\ flight'.outcome = Cached(clock)
    BY <1>1 DEF FlightHit, Flights, cache, locals
  <2>2. Cached(clock).kind = "error" =>
          lastErr # 0 /\ clock < nextBootstrapAttempt /\ Cached(clock) = Failure(lastErr)
    BY DEF Cached, TheClient, Failure, Nothing
  <2>3. KnownErrors' /\ MissedErrors' /\ DeliveredErrors'
    BY <2>1 DEF KnownErrors, MissedErrors, DeliveredErrors
  <2>4. OutcomeErrors'
    <3>1. SUFFICES ASSUME Cached(clock).kind = "error", NEW c \in Callers, pc[c] # "idle"
                   PROVE  \/ began[c].errors < lastErr
                          \/ pc[c] = "look" /\ now[c] < nextBootstrapAttempt
      BY <2>1, <2>2 DEF OutcomeErrors, Failure
    <3>2. now[c] <= clock
      BY <3>1 DEF MissedErrors
    <3>3. now[c] < nextBootstrapAttempt /\ ~(nextBootstrapAttempt <= clock) /\ lastErr # 0
      BY <2>2, <3>1, <3>2
    <3>4. pc[c] = "look" \/ pc[c] \in {"join", "wait"}
      BY <3>1
    <3>5. QED
      BY <3>3, <3>4 DEF MissedErrors
  <2>5. QED
    BY <2>3, <2>4
<1>2. CASE Authenticate
  <2>1. /\ UNCHANGED <<clock, lastErr, nextBootstrapAttempt, pc, now, inbox, began>>
        /\ flight'.phase = "auth" /\ attempts' = attempts + 1
    BY <1>2 DEF Authenticate, Flights, cache, locals
  <2>2. QED
    BY <2>1 DEF KnownErrors, MissedErrors, DeliveredErrors, OutcomeErrors
<1>3. CASE AuthSucceeds \/ AuthFails
  <2>1. /\ UNCHANGED <<clock, lastErr, nextBootstrapAttempt, attempts, pc, now, inbox, began>>
        /\ flight.phase = "auth" /\ flight'.phase \in {"made", "failed"}
    BY <1>3 DEF AuthSucceeds, AuthFails, Flights, cache, locals
  <2>2. QED
    BY <2>1 DEF KnownErrors, MissedErrors, DeliveredErrors, OutcomeErrors
<1>4. CASE StoreClient
  <2>1. /\ UNCHANGED <<clock, attempts, pc, now, inbox, began>>
        /\ flight'.phase = "done" /\ flight'.outcome = TheClient
        /\ \/ UNCHANGED <<lastErr, nextBootstrapAttempt>>
           \/ lastErr' = 0 /\ nextBootstrapAttempt' = 0
    BY <1>4 DEF StoreClient, Flights, cache, locals
  <2>2. QED
    BY <2>1 DEF KnownErrors, MissedErrors, DeliveredErrors, OutcomeErrors, TheClient
<1>5. CASE RecordBootstrapFailure
  <2>1. /\ UNCHANGED <<clock, attempts, pc, now, inbox, began>>
        /\ flight.phase = "failed" /\ lastErr' = attempts
        /\ flight'.phase = "done" /\ flight'.outcome = Failure(attempts)
    BY <1>5 DEF RecordBootstrapFailure, Flights, locals
  <2>2. attempts > 0 /\ \A c \in Callers : began[c].errors < attempts
    BY <2>1 DEF KnownErrors, Spacing
  <2>3. QED
    BY <2>1, <2>2 DEF KnownErrors, MissedErrors, DeliveredErrors, OutcomeErrors, Failure
<1>6. CASE Deliver
  <2>1. /\ UNCHANGED <<clock, lastErr, nextBootstrapAttempt, attempts, pc, now>>
        /\ flight.phase = "done" /\ flight'.phase = "none"
        /\ \A c \in Callers :
             /\ began'[c].errors = began[c].errors
             /\ pc[c] = "wait" => began'[c].leaving = began[c].leaving
    BY <1>6 DEF Deliver, FlightLeaves, NoFlight, cache
  <2>2. KnownErrors' /\ MissedErrors' /\ OutcomeErrors'
    BY <2>1 DEF KnownErrors, MissedErrors, OutcomeErrors
  <2>3. \A c \in Callers : \/ inbox'[c] = inbox[c]
                           \/ inbox'[c] = flight.outcome /\ pc[c] = "wait"
    BY <1>6 DEF Deliver
  <2>4. DeliveredErrors'
    BY <2>1, <2>3 DEF OutcomeErrors, DeliveredErrors
  <2>5. QED
    BY <2>2, <2>4
<1>7. CASE Tick
  <2>1. /\ UNCHANGED <<lastErr, nextBootstrapAttempt, attempts, flight, pc, now, inbox, began>>
        /\ clock' = clock + 1
    BY <1>7 DEF Tick, cache, flown, locals
  <2>2. QED
    BY <2>1 DEF KnownErrors, MissedErrors, DeliveredErrors, OutcomeErrors
<1>8. QED
  BY <1>1, <1>2, <1>3, <1>4, <1>5, <1>6, <1>7 DEF AuthAnswer, FlightStep

LEMMA NextErrorAges == TypeOK /\ Spacing /\ ErrorAges /\ [Next]_vars => ErrorAges'
<1>1. ASSUME ErrorAges, UNCHANGED vars PROVE ErrorAges'
  BY <1>1 DEF ErrorAges, KnownErrors, MissedErrors, OutcomeErrors, DeliveredErrors, vars, cache,
              flown, locals
<1>2. QED
  BY <1>1, CallErrorAges, FlightErrorAges DEF Next

\* A call is given an error recorded before it began only by its own look at
\* the cache, inside the backoff, or by a flight that it joined and that was
\* at its end with this error when the call began: a flight that looks or
\* fails later never hands it one (ensureClient and cachedClient,
\* api_caller.go:72-130).
THEOREM ErrorIsCurrentHolds == Spec => ErrorIsCurrent
<1>1. TypeOK /\ ErrorAges /\ [Next]_vars
        => [\A c \in Callers :
              /\ pc[c] # "idle" /\ pc'[c] = "idle"
              /\ result'[c].kind = "error" /\ result'[c].n <= began[c].errors
              => \/ pc[c] = "look" /\ now[c] < nextBootstrapAttempt
                 \/ pc[c] = "wait" /\ began[c].leaving = result'[c].n]_vars
  <2> SUFFICES ASSUME TypeOK, ErrorAges, Next, NEW c \in Callers,
                      pc[c] # "idle", pc'[c] = "idle",
                      result'[c].kind = "error", result'[c].n <= began[c].errors
               PROVE  \/ pc[c] = "look" /\ now[c] < nextBootstrapAttempt
                      \/ pc[c] = "wait" /\ began[c].leaving = result'[c].n
    OBVIOUS
  <2>1. LookHit(c) \/ GiveUp(c) \/ Receive(c)
    <3>1. ASSUME AuthAnswer \/ FlightStep \/ Tick
          PROVE  pc' = pc
      BY <3>1 DEF AuthAnswer, FlightStep, AuthSucceeds, AuthFails, FlightHit, Authenticate,
                  StoreClient, RecordBootstrapFailure, Deliver, Tick
    <3>2. ASSUME NEW d \in Callers, Enter(d) \/ LookMiss(d) \/ Join(d) \/ ContextEnds(d)
          PROVE  pc'[c] # "idle"
      BY <3>2 DEF Enter, LookMiss, Join, ContextEnds, Goto, TypeOK
    <3>3. ASSUME NEW d \in Callers, LookHit(d) \/ GiveUp(d) \/ Receive(d)
          PROVE  d = c
      BY <3>3 DEF LookHit, GiveUp, Receive, Return, Goto, TypeOK
    <3>4. QED
      BY <3>1, <3>2, <3>3 DEF Next, CallStep
  <2>2. CASE LookHit(c)
    <3>1. pc[c] = "look" /\ Cached(now[c]).kind = "error"
      BY <2>2 DEF LookHit, Return, TypeOK
    <3>2. QED
      BY <3>1 DEF Cached, TheClient, Nothing
  <2>3. CASE GiveUp(c)
    BY <2>3 DEF GiveUp, Return, OwnContext, TypeOK
  <2>4. CASE Receive(c)
    <3>1. result'[c] = inbox[c]
      BY <2>4 DEF Receive, Return, TypeOK
    <3>2. /\ began[c].errors < inbox[c].n \/ began[c].leaving = inbox[c].n
          /\ inbox[c].n \in Nat /\ began[c].errors \in Nat /\ pc[c] = "wait"
      BY <3>1 DEF ErrorAges, DeliveredErrors, TypeOK, Outcomes
    <3>3. QED
      BY <3>1, <3>2
  <2>5. QED
    BY <2>1, <2>2, <2>3, <2>4
<1>2. QED
  BY <1>1, InitSpacing, NextSpacing, InitErrorAges, NextErrorAges, TypeCorrect, PTL
  DEF Spec, ErrorIsCurrent

-----------------------------------------------------------------------------
(***************************************************************************)
(* No answer is lost.  A call joins the flight after it looked at the      *)
(* cache, perhaps when the flight it would have shared is over; it never   *)
(* waits with an empty channel and nothing under way.  Each phase of a     *)
(* flight has a step of its own, so this is why CallsReturn needs no       *)
(* context to end.                                                         *)
(***************************************************************************)
AnswerComes ==
  \A c \in Callers : pc[c] = "wait" /\ inbox[c] = Nothing => flight.phase # "none"

\* A flight that is over has an outcome, and a flight dropped leaves nothing.
FlightsEnd ==
  /\ flight.phase = "none" => flight = NoFlight
  /\ flight.phase = "done" => flight.outcome # Nothing

WaitInv == AnswerComes /\ FlightsEnd

LEMMA InitWaitInv == Init => WaitInv
BY DEF Init, WaitInv, AnswerComes, FlightsEnd, NoFlight

LEMMA NextWaitInv == TypeOK /\ WaitInv /\ [Next]_vars => WaitInv'
<1> SUFFICES ASSUME TypeOK, WaitInv, [Next]_vars PROVE WaitInv'
  OBVIOUS
<1> USE DEF TypeOK, WaitInv, AnswerComes, FlightsEnd
<1>1. ASSUME NEW c \in Callers, Enter(c) \/ CallStep(c) \/ ContextEnds(c)
      PROVE  WaitInv'
  <2>1. CASE Join(c)
    <3>1. /\ inbox' = inbox /\ pc' = [pc EXCEPT ![c] = "wait"]
          /\ flight' = IF flight = NoFlight THEN [NoFlight EXCEPT !.phase = "begun"] ELSE flight
      BY <2>1 DEF Join, Goto, locals
    <3>2. flight'.phase # "none" /\ (flight'.phase = "done" => flight'.outcome # Nothing)
      BY <3>1 DEF NoFlight
    <3>3. QED
      BY <3>1, <3>2
  <2>2. CASE ~Join(c)
    <3>1. /\ flight' = flight /\ (pc'[c] # "wait" \/ UNCHANGED <<pc, inbox>>)
          /\ \A d \in Callers : d # c => pc'[d] = pc[d] /\ inbox'[d] = inbox[d]
      BY <1>1, <2>2 DEF CallStep, Enter, LookHit, LookMiss, GiveUp, Receive, ContextEnds, Return,
                        Goto, flown, locals
    <3>2. QED
      BY <3>1
  <2>3. QED
    BY <2>1, <2>2
<1>2. CASE FlightHit \/ StoreClient \/ RecordBootstrapFailure
  <2>1. UNCHANGED <<pc, inbox>> /\ flight'.phase = "done"
    BY <1>2 DEF FlightHit, StoreClient, RecordBootstrapFailure, Flights, locals
  <2>2. \/ flight'.outcome = Cached(clock) /\ Cached(clock) # Nothing
        \/ flight'.outcome \in {TheClient, Failure(attempts)}
    BY <1>2 DEF FlightHit, StoreClient, RecordBootstrapFailure, Flights
  <2>3. Nothing \notin {TheClient, Failure(attempts)}
    BY DEF TheClient, Failure, Nothing
  <2>4. QED
    BY <2>1, <2>2, <2>3
<1>3. CASE Authenticate \/ AuthAnswer
  <2>1. UNCHANGED <<pc, inbox>> /\ flight'.phase \in {"auth", "made", "failed"}
    BY <1>3 DEF Authenticate, AuthAnswer, AuthSucceeds, AuthFails, Flights, locals
  <2>2. QED
    BY <2>1
<1>4. CASE Deliver
  <2>1. /\ pc' = pc /\ flight' = NoFlight /\ flight.outcome # Nothing
        /\ \A c \in Callers :
             inbox'[c] = IF pc[c] = "wait" /\ inbox[c] = Nothing THEN flight.outcome ELSE inbox[c]
    BY <1>4 DEF Deliver
  <2>2. flight'.phase = "none" /\ \A c \in Callers : pc'[c] = "wait" => inbox'[c] # Nothing
    BY <2>1 DEF NoFlight
  <2>3. QED
    BY <2>1, <2>2
<1>5. CASE Tick \/ UNCHANGED vars
  BY <1>5 DEF Tick, vars, flown, locals
<1>6. QED
  BY <1>1, <1>2, <1>3, <1>4, <1>5 DEF Next, FlightStep

\* A call that waits has its answer or a flight that will bring one, whenever
\* it came to wait (ensureClient, api_caller.go:86-129).
THEOREM AnswerComesHolds == Spec => []AnswerComes
<1>1. WaitInv => AnswerComes
  BY DEF WaitInv
<1>2. QED
  BY <1>1, InitWaitInv, NextWaitInv, TypeCorrect, PTL DEF Spec
=============================================================================
