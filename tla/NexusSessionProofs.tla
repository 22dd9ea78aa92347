------------------------- MODULE NexusSessionProofs -------------------------
(***************************************************************************)
(* TLAPS proofs about NexusSession, for any number of callers and any      *)
(* value of the bounds.                                                    *)
(***************************************************************************)
EXTENDS NexusSession, FiniteSetTheorems, TLAPS

(***************************************************************************)
(* The inductive invariant.  A login's token is known to nobody else until *)
(* it is stored, and stored once, so a session a call was refused cannot   *)
(* come back after the call has cleared it.                                *)
(***************************************************************************)
InHand(c) == pc[c] \in {"store", "send", "clear"} => token[c] # 0

Unshared(c) ==
  pc[c] = "store" =>
    /\ token[c] # sessionToken
    /\ \A d \in Callers : token[c] \notin tried[d] /\ (d # c => token[d] # token[c])

TriedSoFar(c) ==
  /\ pc[c] = "clear" => attempt[c] = 1
  /\ pc[c] # "idle" => "applied" \notin answers[c]
  /\ pc[c] # "idle" /\ attempt[c] = 1 /\ pc[c] # "clear" => tried[c] = {} /\ answers[c] = {}
  /\ pc[c] # "idle" /\ (attempt[c] = 2 \/ pc[c] = "clear") =>
       /\ \E s \in Sessions : tried[c] = {s}
       /\ answers[c] # {}
  /\ attempt[c] = 2 =>
       /\ pc[c] # "idle"
       /\ sessionToken \notin tried[c]
       /\ pc[c] = "send" => token[c] \notin tried[c]

Refusal(c) ==
  pc[c] # "idle" \/ result[c] = "refused" =>
    "forbidden" \in answers[c] \/ tried[c] \cap live = {}

RefusedPair(c) ==
  result[c] = "refused" => \E s, t \in Sessions : s # t /\ tried[c] = {s, t}

CallInv(c) == InHand(c) /\ Unshared(c) /\ TriedSoFar(c) /\ Refusal(c) /\ RefusedPair(c)

IInv == TypeOK /\ \A c \in Callers : CallInv(c)

LEMMA InitIInv == Init => IInv
  BY DEF Init, IInv, TypeOK, Sessions, CallInv, InHand, Unshared, TriedSoFar, Refusal, RefusedPair

\* What a step of one call does to the others.
LEMMA OthersUnmoved ==
  ASSUME TypeOK, NEW c \in Callers, Begin(c) \/ CallStep(c), NEW d \in Callers, d # c
  PROVE  /\ pc'[d] = pc[d] /\ token'[d] = token[d] /\ attempt'[d] = attempt[d]
         /\ tried'[d] = tried[d] /\ answers'[d] = answers[d] /\ result'[d] = result[d]
  BY DEF TypeOK, CallStep, Begin, Ensure, LoginSucceeds, LoginFails, Store, Accepted, Lost,
         Refused, ClearSessionToken, Return, Answered, Goto, call

LEMMA BeginInv ==
  ASSUME IInv, NEW c \in Callers, Begin(c)
  PROVE  TypeOK' /\ CallInv(c)'
<1> USE DEF IInv, TypeOK, Sessions, CallInv, InHand, Unshared, TriedSoFar, Refusal, RefusedPair
<1>1. QED
  BY DEF Begin, Goto, server

LEMMA EnsureInv ==
  ASSUME IInv, NEW c \in Callers, Ensure(c)
  PROVE  TypeOK' /\ CallInv(c)'
<1> USE DEF IInv, TypeOK, Sessions, CallInv, InHand, Unshared, TriedSoFar, Refusal, RefusedPair
<1>1. QED
  BY DEF Ensure, Goto, server

LEMMA LoginSucceedsInv ==
  ASSUME IInv, NEW c \in Callers, LoginSucceeds(c)
  PROVE  TypeOK' /\ CallInv(c)'
<1> USE DEF IInv, TypeOK, Sessions, CallInv, InHand, Unshared, TriedSoFar, Refusal, RefusedPair
<1>1. QED
  BY DEF LoginSucceeds, Goto, server

LEMMA StoreInv ==
  ASSUME IInv, NEW c \in Callers, Store(c)
  PROVE  TypeOK' /\ CallInv(c)'
<1> USE DEF IInv, TypeOK, Sessions, CallInv, InHand, Unshared, TriedSoFar, Refusal, RefusedPair
<1>1. QED
  BY DEF Store, Goto, server

LEMMA ClearInv ==
  ASSUME IInv, NEW c \in Callers, ClearSessionToken(c)
  PROVE  TypeOK' /\ CallInv(c)'
<1> USE DEF IInv, TypeOK, Sessions, CallInv, InHand, Unshared, TriedSoFar, Refusal, RefusedPair
<1>1. QED
  BY DEF ClearSessionToken, Goto, server

LEMMA FailsInv ==
  ASSUME IInv, NEW c \in Callers, LoginFails(c) \/ Lost(c)
  PROVE  TypeOK' /\ CallInv(c)'
<1> USE DEF IInv, TypeOK, Sessions, CallInv, InHand, Unshared, TriedSoFar, Refusal, RefusedPair
<1>1. /\ pc[c] \in {"login", "send"}
      /\ Return(c, "failed")
      /\ UNCHANGED <<sessionToken, issued, live, tried, answers>>
  BY DEF LoginFails, Lost, server
<1>2. TypeOK'
  BY <1>1 DEF Return, Goto
<1>3. pc'[c] = "idle" /\ token'[c] = 0 /\ attempt'[c] = 1 /\ result'[c] = "failed"
  BY <1>1 DEF Return, Goto
<1>4. CallInv(c)'
  BY <1>1, <1>2, <1>3
<1>5. QED
  BY <1>2, <1>4

LEMMA AcceptedInv ==
  ASSUME IInv, NEW c \in Callers, Accepted(c)
  PROVE  TypeOK' /\ CallInv(c)'
<1> USE DEF IInv, TypeOK, Sessions, CallInv, InHand, Unshared, TriedSoFar, Refusal, RefusedPair
<1>1. QED
  BY DEF Accepted, Answered, Return, Goto, server

LEMMA RefusedInv ==
  ASSUME IInv, NEW c \in Callers, Refused(c)
  PROVE  TypeOK' /\ CallInv(c)'
<1> USE DEF IInv, TypeOK, Sessions, CallInv, InHand, Unshared, TriedSoFar, Refusal, RefusedPair
<1>1. PICK a \in AnswersFor(token[c]) \ {"applied"} : Answered(c, a)
  BY DEF Refused
<1>2. CASE attempt[c] = 1
  BY <1>1, <1>2 DEF Refused, AnswersFor, Answered, Goto, server
<1>3. CASE attempt[c] # 1
  BY <1>1, <1>3 DEF Refused, AnswersFor, Answered, Return, Goto, server
<1>4. QED
  BY <1>2, <1>3

(***************************************************************************)
(* A step of c keeps the invariant of every other call d.                  *)
(***************************************************************************)
LEMMA SharedState ==
  ASSUME IInv, NEW c \in Callers, Begin(c) \/ CallStep(c)
  PROVE  /\ sessionToken' \in {sessionToken, 0} \/ (pc[c] = "store" /\ sessionToken' = token[c])
         /\ issued' >= issued
         /\ live' \ live \subseteq {issued + 1}
         /\ token'[c] \in {0, token[c], sessionToken, issued + 1}
         /\ pc'[c] = "store" => token'[c] = issued + 1
         /\ tried'[c] \subseteq tried[c] \cup (IF pc[c] = "send" THEN {token[c]} ELSE {})
         /\ token'[c] = issued + 1 => pc[c] = "login"
<1> USE DEF IInv, TypeOK, Sessions
<1>1. CASE Begin(c)
  BY <1>1 DEF Begin, server, Goto
<1>2. CASE Ensure(c)
  BY <1>2 DEF Ensure, server, Goto
<1>3. CASE LoginSucceeds(c)
  BY <1>3 DEF LoginSucceeds, server, Goto
<1>4. CASE LoginFails(c)
  BY <1>4 DEF LoginFails, Return, server, Goto
<1>5. CASE Store(c)
  BY <1>5 DEF Store, server, Goto
<1>6. CASE Accepted(c)
  BY <1>6 DEF Accepted, Answered, Return, server, Goto
<1>7. CASE Lost(c)
  BY <1>7 DEF Lost, Return, server, Goto
<1>8. CASE Refused(c)
  BY <1>8 DEF Refused, Answered, Return, server, Goto
<1>9. CASE ClearSessionToken(c)
  BY <1>9 DEF ClearSessionToken, server, Goto
<1>10. QED
  BY <1>1, <1>2, <1>3, <1>4, <1>5, <1>6, <1>7, <1>8, <1>9 DEF CallStep

LEMMA OthersInv ==
  ASSUME IInv, NEW c \in Callers, Begin(c) \/ CallStep(c), TypeOK', CallInv(c)',
         NEW d \in Callers, d # c
  PROVE  CallInv(d)'
<1>1. /\ pc'[d] = pc[d] /\ token'[d] = token[d] /\ attempt'[d] = attempt[d]
      /\ tried'[d] = tried[d] /\ answers'[d] = answers[d] /\ result'[d] = result[d]
  BY OthersUnmoved DEF IInv
<1> USE <1>1, SharedState DEF IInv, TypeOK, Sessions, CallInv
<1>2. InHand(d)'
  BY DEF InHand
<1>3. Unshared(d)'
  <2> SUFFICES ASSUME pc[d] = "store"
               PROVE  Unshared(d)'
    BY DEF Unshared
  <2>1. /\ token[d] # sessionToken /\ token[d] # 0 /\ token[c] # token[d]
        /\ \A e \in Callers : token[d] \notin tried[e] /\ (e # d => token[e] # token[d])
    BY DEF Unshared, InHand
  <2>2. token[d] # sessionToken'
    BY <2>1
  <2>3. token[d] \notin tried'[c] /\ token'[c] # token[d]
    BY <2>1
  <2>4. ASSUME NEW e \in Callers, e # c
        PROVE  tried'[e] = tried[e] /\ token'[e] = token[e]
    BY <2>4, OthersUnmoved DEF IInv
  <2>5. QED
    BY <2>1, <2>2, <2>3, <2>4 DEF Unshared
<1>4. TriedSoFar(d)'
  <2>1. TriedSoFar(d) /\ Unshared(c)
    OBVIOUS
  <2>2. attempt[d] = 2 => sessionToken' \notin tried[d]
    <3>1. 0 \notin tried[d]
      OBVIOUS
    <3>2. pc[c] = "store" => token[c] \notin tried[d]
      BY <2>1 DEF Unshared
    <3>3. QED
      BY <2>1, <3>1, <3>2 DEF TriedSoFar
  <2>3. Sessions \subseteq Sessions'
    OBVIOUS
  <2>4. QED
    BY <2>1, <2>2, <2>3 DEF TriedSoFar
<1>5. Refusal(d)'
  <2>1. tried[d] \cap live = {} => tried[d] \cap live' = {}
    OBVIOUS
  <2>2. QED
    BY <2>1 DEF Refusal
<1>6. RefusedPair(d)'
  <2>1. RefusedPair(d) /\ Sessions \subseteq Sessions'
    OBVIOUS
  <2>2. QED
    BY <1>1, <2>1 DEF RefusedPair
<1>7. QED
  BY <1>2, <1>3, <1>4, <1>5, <1>6

LEMMA NextIInv == IInv /\ [Next]_vars => IInv'
<1> SUFFICES ASSUME IInv, [Next]_vars PROVE IInv'
  OBVIOUS
<1>1. ASSUME NEW c \in Callers, Begin(c) \/ CallStep(c)
      PROVE  IInv'
  <2>1. TypeOK' /\ CallInv(c)'
    BY <1>1, BeginInv, EnsureInv, LoginSucceedsInv, FailsInv, StoreInv, AcceptedInv, RefusedInv,
       ClearInv DEF CallStep
  <2>2. QED
    BY <1>1, <2>1, OthersInv DEF IInv
<1>2. CASE Expire
  <2>1. TypeOK' /\ live' \subseteq live
    BY <1>2 DEF IInv, TypeOK, Sessions, Expire, call
  <2>2. ASSUME NEW c \in Callers PROVE CallInv(c)'
    BY <1>2, <2>1 DEF IInv, Expire, call, CallInv, InHand, Unshared, TriedSoFar, Refusal,
                      RefusedPair, Sessions
  <2>3. QED
    BY <2>1, <2>2 DEF IInv
<1>3. CASE UNCHANGED vars
  BY <1>3 DEF vars, call, server, IInv, TypeOK, CallInv, InHand, Unshared, TriedSoFar, Refusal,
              RefusedPair, Sessions
<1>4. QED
  BY <1>1, <1>2, <1>3 DEF Next

\* The invariant holds in every behaviour.
THEOREM Inductive == Spec => []IInv
  BY InitIInv, NextIInv, PTL DEF Spec

\* Every variable keeps its type; in particular the client, every call and the
\* product know only sessions that were issued.
THEOREM TypeCorrect == Spec => []TypeOK
<1>1. IInv => TypeOK
  BY DEF IInv
<1>2. QED
  BY Inductive, <1>1, PTL

\* A call that reports a refusal tried two different sessions, and unless the
\* operation is forbidden both are dead (api_caller.go:71-75, 322).
THEOREM RefusedTwiceHolds == Spec => []RefusedTwice
<1>1. ASSUME IInv PROVE RefusedTwice
  <2> SUFFICES ASSUME NEW c \in Callers, result[c] = "refused"
               PROVE  /\ Cardinality(tried[c]) = 2
                      /\ "forbidden" \in answers[c] \/ tried[c] \cap live = {}
    BY DEF RefusedTwice
  <2>1. PICK s \in Sessions, t \in Sessions : s # t /\ tried[c] = {s, t}
    BY <1>1 DEF IInv, CallInv, RefusedPair
  <2>2. IsFiniteSet({s}) /\ Cardinality({s}) = 1
    BY FS_Singleton
  <2>3. Cardinality({s} \cup {t}) = 2
    <3>1. t \notin {s}
      BY <2>1
    <3>2. Cardinality({s} \cup {t}) = Cardinality({s}) + 1
      BY <2>2, <3>1, FS_AddElement
    <3>3. QED
      BY <2>2, <3>2
  <2>4. tried[c] = {s} \cup {t}
    BY <2>1
  <2>5. QED
    BY <1>1, <2>3, <2>4 DEF IInv, CallInv, Refusal
<1>2. QED
  BY Inductive, <1>1, PTL

-----------------------------------------------------------------------------
(***************************************************************************)
(* Refinement of SessionUse.                                               *)
(***************************************************************************)
Status(c) == IF pc[c] = "idle" THEN result[c] ELSE "pending"

AbstractCall(c) == [status |-> Status(c), tried |-> tried[c], answers |-> answers[c]]

AbstractCalls == [c \in Callers |-> AbstractCall(c)]

LEMMA OneCallMoves ==
  ASSUME TypeOK, NEW c \in Callers, Begin(c) \/ CallStep(c)
  PROVE  AbstractCalls' = [AbstractCalls EXCEPT ![c] = AbstractCall(c)']
<1>1. ASSUME NEW d \in Callers, d # c
      PROVE  AbstractCalls'[d] = AbstractCalls[d]
  BY <1>1, OthersUnmoved DEF AbstractCalls, AbstractCall, Status
<1>2. AbstractCalls'[c] = AbstractCall(c)'
  BY DEF AbstractCalls
<1>3. QED
  BY <1>1, <1>2 DEF AbstractCalls

\* What the call in hand may send: a session it has not tried, as its first or
\* its second.
LEMMA MaySend ==
  ASSUME IInv, NEW c \in Callers, pc[c] = "send"
  PROVE  /\ token[c] \in Sessions
         /\ "applied" \notin answers[c]
         /\ token[c] \notin tried[c]
         /\ \A t, u \in tried[c] : t = u
<1>1. TypeOK /\ InHand(c) /\ TriedSoFar(c)
  BY DEF IInv, CallInv
<1>2. token[c] \in Sessions
  BY <1>1 DEF InHand, TypeOK, Sessions
<1>3. "applied" \notin answers[c] /\ token[c] \notin tried[c]
  BY <1>1 DEF TriedSoFar, TypeOK
<1>4. tried[c] = {} \/ \E s \in Sessions : tried[c] = {s}
  BY <1>1 DEF TriedSoFar, TypeOK
<1>5. \A t, u \in tried[c] : t = u
  BY <1>4
<1>6. QED
  BY <1>2, <1>3, <1>5

LEMMA RequestRefines ==
  ASSUME IInv, NEW c \in Callers, NEW a \in AnswersFor(token[c]),
         pc[c] = "send", Answered(c, a), UNCHANGED server,
         AbstractCalls' = [AbstractCalls EXCEPT ![c] = AbstractCall(c)'],
         Status(c)' \in {"pending", "served", "refused", "failed"},
         Status(c)' = "served" => a = "applied",
         Status(c)' = "refused" => a # "applied"
  PROVE  \E s \in 1 .. issued : Use!Send(c, s)
<1> PICK s \in 1 .. issued : s = token[c]
  BY MaySend DEF Sessions
<1>1. PICK status \in {"pending", "served", "refused", "failed"} : status = Status(c)'
  OBVIOUS
<1>2. AbstractCalls[c] = [status |-> "pending", tried |-> tried[c], answers |-> answers[c]]
  BY DEF AbstractCalls, AbstractCall, Status
<1>3. /\ AbstractCalls[c].status = "pending"
      /\ AbstractCalls[c].tried = tried[c]
      /\ AbstractCalls[c].answers = answers[c]
  BY <1>2
<1>4. AbstractCall(c)' = [status |-> status, tried |-> tried[c] \cup {s},
                         answers |-> answers[c] \cup {a}]
  BY <1>1 DEF AbstractCall, Answered, IInv, TypeOK
<1>5. a \in Use!AnswersFor(s)
  BY DEF AnswersFor, Use!AnswersFor
<1>6. AbstractCalls' = [AbstractCalls EXCEPT ![c] =
                          [status |-> status, tried |-> AbstractCalls[c].tried \cup {s},
                           answers |-> AbstractCalls[c].answers \cup {a}]]
  BY <1>3, <1>4, Zenon
<1>7. /\ "applied" \notin AbstractCalls[c].answers
      /\ \A t, u \in AbstractCalls[c].tried : t = u
      /\ s \notin AbstractCalls[c].tried
  BY <1>3, MaySend
<1>8. (status = "served" => a = "applied") /\ (status = "refused" => a # "applied")
  BY <1>1
<1>9. UNCHANGED <<issued, live>>
  BY DEF server
<1>10. \E answer \in Use!AnswersFor(s), st \in {"pending", "served", "refused", "failed"} :
         /\ st = "served" => answer = "applied"
         /\ st = "refused" => answer # "applied"
         /\ AbstractCalls' = [AbstractCalls EXCEPT ![c] =
                                [status |-> st, tried |-> AbstractCalls[c].tried \cup {s},
                                 answers |-> AbstractCalls[c].answers \cup {answer}]]
  BY <1>5, <1>6, <1>8
<1>11. Use!Send(c, s)
  BY <1>3, <1>7, <1>9, <1>10, Zenon DEF Use!Send, AbstractCalls, AbstractCall, Status
<1>12. QED
  BY <1>11

LEMMA CallRefines ==
  ASSUME IInv, NEW c \in Callers, Begin(c) \/ CallStep(c)
  PROVE  [Use!Next]_<<issued, live, AbstractCalls>>
<1>1. AbstractCalls' = [AbstractCalls EXCEPT ![c] = AbstractCall(c)']
  BY OneCallMoves DEF IInv
<1>2. AbstractCalls[c] = AbstractCall(c)
  BY DEF AbstractCalls
<1>3. ASSUME AbstractCall(c)' = AbstractCall(c)
      PROVE  AbstractCalls' = AbstractCalls
  BY <1>1, <1>3 DEF AbstractCalls
<1>4. CASE Begin(c)
  <2>1. /\ pc[c] = "idle" /\ pc'[c] = "ensure" /\ tried'[c] = {} /\ answers'[c] = {}
        /\ UNCHANGED <<issued, live>>
    BY <1>4 DEF Begin, Goto, server, IInv, TypeOK
  <2>2. AbstractCall(c)' = [status |-> "pending", tried |-> {}, answers |-> {}]
    BY <2>1 DEF AbstractCall, Status
  <2>3. [Use!NoCall EXCEPT !.status = "pending"]
          = [status |-> "pending", tried |-> {}, answers |-> {}]
    BY DEF Use!NoCall
  <2>4. AbstractCalls[c].status # "pending"
    BY <1>2, <2>1 DEF AbstractCall, Status, IInv, TypeOK
  <2>5. Use!Begin(c)
    BY <1>1, <2>1, <2>2, <2>3, <2>4, Zenon DEF Use!Begin, AbstractCalls, AbstractCall, Status
  <2>6. QED
    BY <2>5 DEF Use!Next
<1>5. CASE Ensure(c) \/ Store(c) \/ ClearSessionToken(c)
  <2>1. AbstractCall(c)' = AbstractCall(c) /\ UNCHANGED <<issued, live>>
    BY <1>5 DEF Ensure, Store, ClearSessionToken, Goto, server, AbstractCall, Status, IInv, TypeOK
  <2>2. QED
    BY <1>3, <2>1
<1>6. CASE LoginSucceeds(c)
  <2>1. AbstractCall(c)' = AbstractCall(c) /\ issued' = issued + 1 /\ live' = live \cup {issued'}
    BY <1>6 DEF LoginSucceeds, Goto, AbstractCall, Status, IInv, TypeOK
  <2>2. Use!Issue
    BY <1>3, <2>1 DEF Use!Issue, AbstractCalls, AbstractCall, Status
  <2>3. QED
    BY <2>2 DEF Use!Next
<1>7. CASE LoginFails(c) \/ Lost(c)
  <2>1. /\ pc[c] # "idle" /\ pc'[c] = "idle" /\ result'[c] = "failed"
        /\ tried' = tried /\ answers' = answers /\ UNCHANGED <<issued, live>>
    BY <1>7 DEF LoginFails, Lost, Return, Goto, server, IInv, TypeOK
  <2>2. AbstractCalls[c] = [status |-> "pending", tried |-> tried[c], answers |-> answers[c]]
    BY <1>2, <2>1 DEF AbstractCall, Status
  <2>3. AbstractCall(c)' = [status |-> "failed", tried |-> tried[c], answers |-> answers[c]]
    BY <2>1 DEF AbstractCall, Status
  <2>4. AbstractCall(c)' = [AbstractCalls[c] EXCEPT !.status = "failed"]
    BY <2>2, <2>3
  <2>5. AbstractCalls[c].status = "pending"
    BY <2>2
  <2>6. AbstractCalls' = [AbstractCalls EXCEPT ![c] = [AbstractCalls[c] EXCEPT !.status = "failed"]]
    BY <1>1, <2>4, Zenon
  <2>7. Use!Fail(c)
    BY <2>1, <2>5, <2>6 DEF Use!Fail, AbstractCalls, AbstractCall, Status
  <2>8. QED
    BY <2>7 DEF Use!Next
<1>8. CASE Accepted(c)
  <2>1. /\ pc[c] = "send" /\ "applied" \in AnswersFor(token[c]) /\ Answered(c, "applied")
        /\ UNCHANGED server /\ pc'[c] = "idle" /\ result'[c] \in {"served", "failed"}
    BY <1>8 DEF Accepted, Return, Goto, IInv, TypeOK
  <2>2. \E s \in 1 .. issued : Use!Send(c, s)
    BY <1>1, <2>1, RequestRefines DEF Status
  <2>3. QED
    BY <2>2 DEF Use!Next
<1>9. CASE Refused(c)
  <2>1. PICK a \in AnswersFor(token[c]) \ {"applied"} : Answered(c, a)
    BY <1>9 DEF Refused
  <2>2. /\ pc[c] = "send" /\ UNCHANGED server
        /\ pc'[c] = "clear" \/ (pc'[c] = "idle" /\ result'[c] = "refused")
    BY <1>9 DEF Refused, Return, Goto, IInv, TypeOK
  <2>3. \E s \in 1 .. issued : Use!Send(c, s)
    BY <1>1, <2>1, <2>2, RequestRefines DEF Status
  <2>4. QED
    BY <2>3 DEF Use!Next
<1>10. QED
  BY <1>4, <1>5, <1>6, <1>7, <1>8, <1>9 DEF CallStep

\* The client implements SessionUse: a request goes out at most twice, never
\* twice with one session, and never again once it was carried out.
THEOREM Refines == Spec => ImplementsSessionUse
<1>1. Init => Use!Init
  BY DEF Init, Use!Init, Use!NoCall
<1>2. IInv /\ [Next]_vars => [Use!Next]_<<issued, live, AbstractCalls>>
  <2> SUFFICES ASSUME IInv, [Next]_vars
               PROVE  [Use!Next]_<<issued, live, AbstractCalls>>
    OBVIOUS
  <2>1. CASE Expire
    <3>1. AbstractCalls' = AbstractCalls
      BY <2>1 DEF Expire, call, AbstractCalls, AbstractCall, Status
    <3>2. QED
      BY <2>1, <3>1 DEF Expire, Use!Next, Use!Expire, AbstractCalls, AbstractCall, Status
  <2>2. CASE UNCHANGED vars
    BY <2>2 DEF vars, server, call, AbstractCalls, AbstractCall, Status
  <2>3. QED
    BY <2>1, <2>2, CallRefines DEF Next
<1>3. QED
  BY Inductive, <1>1, <1>2, PTL
  DEF Spec, ImplementsSessionUse, Use!Spec, Use!vars, AbstractCalls, AbstractCall, Status
=============================================================================
