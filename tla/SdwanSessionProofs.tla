------------------------- MODULE SdwanSessionProofs -------------------------
(***************************************************************************)
(* TLAPS proofs about SdwanSession, for any number of callers and any      *)
(* value of the bounds.                                                    *)
(***************************************************************************)
EXTENDS SdwanSession, TLAPS

(***************************************************************************)
(* The inductive invariant.  Cookie, XSRF token and loggedIn are written   *)
(* together, so what is stored or in hand is a pair; a session is known to *)
(* nobody else until it is stored, and stored once, so one that a call was *)
(* refused cannot come back after the call has reset it.                   *)
(***************************************************************************)
StoredPair == (loggedIn <=> cookie # 0) /\ (cookie # 0 => xsrf \in {0, cookie})

Pair(c) ==
  pc[c] \in {"xsrf", "store", "send"} => hand[c].cookie # 0 /\ hand[c].xsrf \in {0, hand[c].cookie}

Unshared(c) ==
  pc[c] \in {"xsrf", "store"} =>
    /\ hand[c].cookie # cookie
    /\ \A d \in Callers : /\ hand[c].cookie \notin tried[d]
                          /\ d # c => hand[d].cookie # hand[c].cookie

\* The call has been refused, and is on the way to its second attempt or in it.
Second(c) == attempt[c] = 2 \/ site[c] = "reset" \/ pc[c] = "reset"

TriedSoFar(c) ==
  /\ pc[c] = "idle" => attempt[c] = 1 /\ site[c] = "apply"
  /\ site[c] = "reset" => pc[c] \notin {"send", "reset", "reread"}
  /\ pc[c] # "idle" => "applied" \notin answers[c]
  /\ pc[c] # "idle" /\ ~Second(c) => tried[c] = {} /\ answers[c] = {}
  /\ Second(c) => (\E s \in Sessions : tried[c] = {s}) /\ answers[c] # {}
  /\ Second(c) /\ pc[c] # "reset" =>
       /\ attempt[c] = 1 => site[c] = "reset" /\ pc[c] \in {"login", "post", "xsrf", "store"}
       /\ cookie \notin tried[c]
       /\ pc[c] = "send" => hand[c].cookie \notin tried[c]
  /\ pc[c] = "reset" => attempt[c] = 1

Forgot(c) == pc[c] = "reread" /\ cookie = 0 => forgotten[c]

CallInv(c) == Pair(c) /\ Unshared(c) /\ TriedSoFar(c) /\ Forgot(c)

IInv == TypeOK /\ StoredPair /\ \A c \in Callers : CallInv(c)

LEMMA InitIInv == Init => IInv
<1> SUFFICES ASSUME Init PROVE IInv
  OBVIOUS
<1>1. NoSession \in Hands
  BY DEF Init, NoSession, Hands
<1>2. TypeOK
  BY <1>1 DEF Init, TypeOK, Sessions
<1>3. StoredPair
  BY DEF Init, StoredPair
<1>4. ASSUME NEW c \in Callers PROVE CallInv(c)
  BY DEF Init, NoSession, CallInv, Pair, Unshared, Second, TriedSoFar, Forgot
<1>5. QED
  BY <1>2, <1>3, <1>4 DEF IInv

\* What a step of one call does to the others.
LEMMA OthersUnmoved ==
  ASSUME TypeOK, NEW c \in Callers, Begin(c) \/ CallStep(c), NEW d \in Callers, d # c
  PROVE  /\ pc'[d] = pc[d] /\ hand'[d] = hand[d] /\ attempt'[d] = attempt[d] /\ site'[d] = site[d]
         /\ tried'[d] = tried[d] /\ answers'[d] = answers[d] /\ result'[d] = result[d]
<1> USE DEF TypeOK, shared, server, sent, Goto, Return, LoginReturns, LoginFails, Answered
<1>1. CASE Begin(c) \/ ReadSession(c) \/ Reread(c) \/ RereadNothing(c)
  BY <1>1 DEF Begin, ReadSession, Reread, RereadNothing
<1>2. CASE LoginFound(c) \/ NoCredentials(c) \/ PostLogin(c) \/ GotCookie(c)
  BY <1>2 DEF LoginFound, NoCredentials, PostLogin, GotCookie
<1>3. CASE GotXSRFToken(c) \/ LoginRequestFails(c) \/ StoreSession(c)
  BY <1>3 DEF GotXSRFToken, LoginRequestFails, StoreSession
<1>4. CASE Accepted(c) \/ Lost(c) \/ Refused(c) \/ ResetSession(c)
  BY <1>4 DEF Accepted, Lost, Refused, ResetSession
<1>5. QED
  BY <1>1, <1>2, <1>3, <1>4 DEF CallStep, LoginStep, RequestStep

LEMMA BeginInv ==
  ASSUME IInv, NEW c \in Callers, Begin(c)
  PROVE  TypeOK' /\ StoredPair' /\ CallInv(c)'
<1> USE DEF IInv, TypeOK, Hands, Sessions, StoredPair, CallInv, shared, server, sent, Goto
<1>1. TypeOK' /\ StoredPair'
  BY DEF Begin
<1>2. Pair(c)' /\ Unshared(c)' /\ Forgot(c)'
  BY DEF Begin, Pair, Unshared, Forgot
<1>3. TriedSoFar(c)'
  BY DEF Begin, TriedSoFar, Second
<1>4. QED
  BY <1>1, <1>2, <1>3

LEMMA ReadSessionInv ==
  ASSUME IInv, NEW c \in Callers, ReadSession(c)
  PROVE  TypeOK' /\ StoredPair' /\ CallInv(c)'
<1> USE DEF IInv, TypeOK, Hands, Sessions, StoredPair, CallInv, shared, server, sent, Goto
<1>1. TypeOK' /\ StoredPair'
  BY DEF ReadSession
<1>2. Pair(c)' /\ Unshared(c)' /\ Forgot(c)'
  BY DEF ReadSession, Pair, Unshared, Forgot
<1>3. TriedSoFar(c)'
  BY DEF ReadSession, TriedSoFar, Second
<1>4. QED
  BY <1>1, <1>2, <1>3

LEMMA RereadInv ==
  ASSUME IInv, NEW c \in Callers, Reread(c)
  PROVE  TypeOK' /\ StoredPair' /\ CallInv(c)'
<1> USE DEF IInv, TypeOK, Hands, Sessions, StoredPair, CallInv, shared, server, sent, Goto
<1>1. TypeOK' /\ StoredPair'
  BY DEF Reread
<1>2. Pair(c)' /\ Unshared(c)' /\ Forgot(c)'
  BY DEF Reread, Pair, Unshared, Forgot
<1>3. TriedSoFar(c)'
  BY DEF Reread, TriedSoFar, Second
<1>4. QED
  BY <1>1, <1>2, <1>3

LEMMA LoginFoundInv ==
  ASSUME IInv, NEW c \in Callers, LoginFound(c)
  PROVE  TypeOK' /\ StoredPair' /\ CallInv(c)'
<1> USE DEF IInv, TypeOK, Hands, Sessions, StoredPair, CallInv, shared, server, sent, Goto
<1>1. TypeOK' /\ StoredPair'
  BY DEF LoginFound, LoginReturns
<1>2. Pair(c)' /\ Unshared(c)' /\ Forgot(c)'
  BY DEF LoginFound, LoginReturns, Pair, Unshared, Forgot
<1>3. TriedSoFar(c)'
  BY DEF LoginFound, LoginReturns, TriedSoFar, Second
<1>4. QED
  BY <1>1, <1>2, <1>3

LEMMA PostLoginInv ==
  ASSUME IInv, NEW c \in Callers, PostLogin(c)
  PROVE  TypeOK' /\ StoredPair' /\ CallInv(c)'
<1> USE DEF IInv, TypeOK, Hands, Sessions, StoredPair, CallInv, shared, server, sent, Goto
<1>1. TypeOK' /\ StoredPair'
  BY DEF PostLogin
<1>2. Pair(c)' /\ Unshared(c)' /\ Forgot(c)'
  BY DEF PostLogin, Pair, Unshared, Forgot
<1>3. TriedSoFar(c)'
  BY DEF PostLogin, TriedSoFar, Second
<1>4. QED
  BY <1>1, <1>2, <1>3

LEMMA GotCookieInv ==
  ASSUME IInv, NEW c \in Callers, GotCookie(c)
  PROVE  TypeOK' /\ StoredPair' /\ CallInv(c)'
<1> USE DEF IInv, TypeOK, Hands, Sessions, StoredPair, CallInv, shared, server, sent, Goto
<1>1. TypeOK' /\ StoredPair'
  BY DEF GotCookie
<1>2. Pair(c)' /\ Unshared(c)' /\ Forgot(c)'
  BY DEF GotCookie, Pair, Unshared, Forgot
<1>3. TriedSoFar(c)'
  BY DEF GotCookie, TriedSoFar, Second
<1>4. QED
  BY <1>1, <1>2, <1>3

LEMMA GotXSRFTokenInv ==
  ASSUME IInv, NEW c \in Callers, GotXSRFToken(c)
  PROVE  TypeOK' /\ StoredPair' /\ CallInv(c)'
<1> USE DEF IInv, TypeOK, Hands, Sessions, StoredPair, CallInv, shared, server, sent, Goto
<1>1. TypeOK' /\ StoredPair'
  BY DEF GotXSRFToken
<1>2. Pair(c)' /\ Unshared(c)' /\ Forgot(c)'
  BY DEF GotXSRFToken, Pair, Unshared, Forgot
<1>3. TriedSoFar(c)'
  BY DEF GotXSRFToken, TriedSoFar, Second
<1>4. QED
  BY <1>1, <1>2, <1>3

LEMMA StoreSessionInv ==
  ASSUME IInv, NEW c \in Callers, StoreSession(c)
  PROVE  TypeOK' /\ StoredPair' /\ CallInv(c)'
<1> USE DEF IInv, TypeOK, Hands, Sessions, StoredPair, CallInv, shared, server, sent, Goto
<1>0. hand[c] \in Hands /\ NoSession \in Hands /\ hand[c].cookie # 0
      /\ hand[c].xsrf \in {0, hand[c].cookie}
  BY DEF StoreSession, NoSession, Pair
<1>1. TypeOK' /\ StoredPair'
  <2>1. cookie' \in 0 .. issued /\ xsrf' \in 0 .. issued /\ loggedIn'
    BY <1>0 DEF StoreSession
  <2>2. hand' \in [Callers -> Hands] /\ pc' \in [Callers -> {"idle", "apply", "login", "post",
                                              "xsrf", "store", "reread", "send", "reset"}]
    BY <1>0 DEF StoreSession, LoginReturns
  <2>3. QED
    BY <1>0, <2>1, <2>2 DEF StoreSession, LoginReturns
<1>2. Pair(c)' /\ Unshared(c)' /\ Forgot(c)'
  BY DEF StoreSession, LoginReturns, NoSession, Pair, Unshared, Forgot
<1>3. TriedSoFar(c)'
  <2>1. pc[c] = "store" /\ cookie' = hand[c].cookie /\ cookie' \notin tried[c]
    BY DEF StoreSession, Unshared
  <2>2. pc'[c] = (IF site[c] = "apply" THEN "reread" ELSE "apply")
    BY DEF StoreSession, LoginReturns
  <2>3. attempt'[c] = (IF site[c] = "apply" THEN attempt[c] ELSE 2)
    BY DEF StoreSession, LoginReturns
  <2>4. UNCHANGED <<site, tried, answers, issued>>
    BY DEF StoreSession, LoginReturns
  <2>5. QED
    BY <2>1, <2>2, <2>3, <2>4 DEF TriedSoFar, Second
<1>4. QED
  BY <1>1, <1>2, <1>3

LEMMA ResetSessionInv ==
  ASSUME IInv, NEW c \in Callers, ResetSession(c)
  PROVE  TypeOK' /\ StoredPair' /\ CallInv(c)'
<1> USE DEF IInv, TypeOK, Hands, Sessions, StoredPair, CallInv, shared, server, sent, Goto
<1>0. NoSession \in Hands /\ 0 \in 0 .. issued
  BY DEF NoSession
<1>1. TypeOK' /\ StoredPair'
  <2>1. UNCHANGED <<credentials, issued, live, attempt, tried, answers, result, runs>>
    BY DEF ResetSession
  <2>2. hand' \in [Callers -> Hands] /\ site' \in [Callers -> {"apply", "reset"}]
    BY <1>0 DEF ResetSession
  <2>3. pc' \in [Callers -> {"idle", "apply", "login", "post", "xsrf", "store", "reread", "send",
                            "reset"}]
    BY DEF ResetSession
  <2>4. forgotten' \in [Callers -> BOOLEAN]
    <3>1. \A d \in Callers : (forgotten[d] \/ (d # c /\ pc[d] = "reread")) \in BOOLEAN
      OBVIOUS
    <3>2. QED
      BY <3>1, Zenon DEF ResetSession
  <2>5. cookie' = 0 /\ xsrf' = 0 /\ loggedIn' = FALSE
    BY DEF ResetSession
  <2>6. QED
    BY <1>0, <2>1, <2>2, <2>3, <2>4, <2>5
<1>2. Pair(c)' /\ Unshared(c)' /\ Forgot(c)'
  BY DEF ResetSession, NoSession, Pair, Unshared, Forgot
<1>3. TriedSoFar(c)'
  <2>1. pc[c] = "reset" /\ pc'[c] = "login" /\ site'[c] = "reset" /\ cookie' = 0
    BY DEF ResetSession
  <2>2. UNCHANGED <<attempt, tried, answers, issued>>
    BY DEF ResetSession
  <2>3. 0 \notin tried[c] /\ Second(c) /\ attempt[c] = 1
    BY <2>1 DEF TriedSoFar, Second
  <2>4. QED
    BY <2>1, <2>2, <2>3 DEF TriedSoFar, Second
<1>4. QED
  BY <1>1, <1>2, <1>3

\* The steps that end a call.
LEMMA ReturnInv ==
  ASSUME IInv, NEW c \in Callers, NEW o \in {"served", "refused", "failed"}, Return(c, o),
         UNCHANGED <<shared, server>>,
         tried'[c] \in SUBSET Sessions, tried' = [tried EXCEPT ![c] = tried'[c]],
         answers'[c] \in SUBSET {"applied", "forbidden", "unknown_session"},
         answers' = [answers EXCEPT ![c] = answers'[c]]
  PROVE  TypeOK' /\ StoredPair' /\ CallInv(c)'
<1> USE DEF IInv, TypeOK, Hands, Sessions, StoredPair, CallInv, shared, server, Goto, Return
<1>1. NoSession \in Hands
  BY DEF NoSession
<1>2. TypeOK' /\ StoredPair'
  BY <1>1
<1>3. pc'[c] = "idle" /\ attempt'[c] = 1 /\ site'[c] = "apply"
  OBVIOUS
<1>4. CallInv(c)'
  BY <1>3 DEF Pair, Unshared, Forgot, TriedSoFar, Second
<1>5. QED
  BY <1>2, <1>4

LEMMA FailsInv ==
  ASSUME IInv, NEW c \in Callers,
         NoCredentials(c) \/ LoginRequestFails(c) \/ RereadNothing(c) \/ Lost(c)
  PROVE  TypeOK' /\ StoredPair' /\ CallInv(c)'
<1>1. \E o \in {"served", "refused", "failed"} : Return(c, o)
  BY DEF NoCredentials, LoginRequestFails, LoginFails, RereadNothing, Lost
<1>2. UNCHANGED <<shared, server, sent>>
  BY DEF NoCredentials, LoginRequestFails, RereadNothing, Lost
<1>3. /\ tried'[c] \in SUBSET Sessions
      /\ answers'[c] \in SUBSET {"applied", "forbidden", "unknown_session"}
      /\ tried' = [tried EXCEPT ![c] = tried'[c]] /\ answers' = [answers EXCEPT ![c] = answers'[c]]
  BY <1>2 DEF sent, IInv, TypeOK
<1>4. QED
  BY <1>1, <1>2, <1>3, ReturnInv

LEMMA AnsweredInv ==
  ASSUME IInv, NEW c \in Callers, Accepted(c) \/ Refused(c)
  PROVE  TypeOK' /\ StoredPair' /\ CallInv(c)'
<1>1. PICK a \in AnswersFor(hand[c].cookie) : Answered(c, a) /\ (Refused(c) => a # "applied")
  BY DEF Accepted, Refused
<1>2. pc[c] = "send" /\ UNCHANGED <<shared, server>>
  BY DEF Accepted, Refused
<1>3. hand[c].cookie \in Sessions /\ a \in {"applied", "forbidden", "unknown_session"}
  BY <1>2 DEF IInv, TypeOK, CallInv, Pair, Hands, Sessions, AnswersFor
<1>4. /\ tried'[c] = tried[c] \cup {hand[c].cookie} /\ answers'[c] = answers[c] \cup {a}
      /\ tried' = [tried EXCEPT ![c] = tried'[c]] /\ answers' = [answers EXCEPT ![c] = answers'[c]]
      /\ tried'[c] \in SUBSET Sessions
      /\ answers'[c] \in SUBSET {"applied", "forbidden", "unknown_session"}
  BY <1>1, <1>3 DEF Answered, IInv, TypeOK
<1>5. CASE \E o \in {"served", "refused", "failed"} : Return(c, o)
  BY <1>2, <1>4, <1>5, ReturnInv
<1>6. CASE /\ Refused(c) /\ attempt[c] = 1 /\ Goto(c, "reset")
           /\ UNCHANGED <<site, hand, attempt, result, runs, forgotten>>
  <2> USE DEF IInv, TypeOK, Hands, Sessions, StoredPair, CallInv, shared, server, Goto
  <2>1. TypeOK' /\ StoredPair'
    <3>1. tried' \in [Callers -> SUBSET Sessions]
      BY <1>4
    <3>2. answers' \in [Callers -> SUBSET {"applied", "forbidden", "unknown_session"}]
      BY <1>4
    <3>3. pc' \in [Callers -> {"idle", "apply", "login", "post", "xsrf", "store", "reread",
                              "send", "reset"}]
      BY <1>6
    <3>4. QED
      BY <1>2, <1>6, <3>1, <3>2, <3>3
  <2>2. pc'[c] = "reset"
    BY <1>6
  <2>3. Pair(c)' /\ Unshared(c)' /\ Forgot(c)'
    BY <2>2 DEF Pair, Unshared, Forgot
  <2>4. ~Second(c)
    BY <1>2, <1>6 DEF Second, TriedSoFar
  <2>5. tried'[c] = {hand[c].cookie} /\ answers'[c] = {a} /\ a # "applied"
    BY <1>1, <1>2, <1>4, <1>6, <2>4 DEF TriedSoFar
  <2>6. site'[c] = site[c] /\ attempt'[c] = attempt[c] /\ issued' = issued /\ site[c] # "reset"
    BY <1>2, <1>6 DEF TriedSoFar
  <2>7. TriedSoFar(c)'
    BY <1>3, <1>6, <2>2, <2>5, <2>6 DEF TriedSoFar, Second
  <2>8. QED
    BY <2>1, <2>3, <2>7
<1>7. QED
  BY <1>5, <1>6 DEF Accepted, Refused

LEMMA StepInv ==
  ASSUME IInv, NEW c \in Callers, Begin(c) \/ CallStep(c)
  PROVE  TypeOK' /\ StoredPair' /\ CallInv(c)'
<1> USE DEF CallStep, LoginStep, RequestStep
<1>1. CASE Begin(c) \/ ReadSession(c) \/ Reread(c) \/ ResetSession(c)
  BY <1>1, BeginInv, ReadSessionInv, RereadInv, ResetSessionInv
<1>2. CASE LoginFound(c) \/ PostLogin(c) \/ GotCookie(c) \/ GotXSRFToken(c) \/ StoreSession(c)
  BY <1>2, LoginFoundInv, PostLoginInv, GotCookieInv, GotXSRFTokenInv, StoreSessionInv
<1>3. CASE NoCredentials(c) \/ LoginRequestFails(c) \/ RereadNothing(c) \/ Lost(c)
  BY <1>3, FailsInv
<1>4. CASE Accepted(c) \/ Refused(c)
  BY <1>4, AnsweredInv
<1>5. QED
  BY <1>1, <1>2, <1>3, <1>4

(***************************************************************************)
(* A step of c keeps the invariant of every other call d.                  *)
(***************************************************************************)
LEMMA SharedState ==
  ASSUME IInv, NEW c \in Callers, Begin(c) \/ CallStep(c)
  PROVE  /\ cookie' \in {cookie, 0} \/ (pc[c] = "store" /\ cookie' = hand[c].cookie)
         /\ issued' >= issued
         /\ hand'[c].cookie \in {0, hand[c].cookie, cookie, issued + 1}
         /\ tried'[c] \subseteq tried[c] \cup (IF pc[c] = "send" THEN {hand[c].cookie} ELSE {})
         /\ \A d \in Callers : d # c =>
              /\ forgotten[d] => forgotten'[d]
              /\ pc[d] = "reread" /\ cookie # 0 /\ cookie' = 0 => forgotten'[d]
<1> USE DEF IInv, TypeOK, Sessions, Hands, StoredPair, NoSession,
            shared, server, sent, Goto, Return, LoginReturns, LoginFails, Answered
<1>1. CASE Begin(c) \/ ReadSession(c) \/ Reread(c) \/ RereadNothing(c)
  BY <1>1 DEF Begin, ReadSession, Reread, RereadNothing
<1>2. CASE LoginFound(c) \/ NoCredentials(c) \/ PostLogin(c) \/ GotCookie(c)
  BY <1>2 DEF LoginFound, NoCredentials, PostLogin, GotCookie
<1>3. CASE GotXSRFToken(c) \/ LoginRequestFails(c) \/ StoreSession(c)
  BY <1>3 DEF GotXSRFToken, LoginRequestFails, StoreSession, CallInv, Pair
<1>4. CASE Accepted(c) \/ Lost(c) \/ Refused(c) \/ ResetSession(c)
  BY <1>4 DEF Accepted, Lost, Refused, ResetSession
<1>5. QED
  BY <1>1, <1>2, <1>3, <1>4 DEF CallStep, LoginStep, RequestStep

LEMMA OthersInv ==
  ASSUME IInv, NEW c \in Callers, Begin(c) \/ CallStep(c), TypeOK',
         NEW d \in Callers, d # c
  PROVE  CallInv(d)'
<1>1. /\ pc'[d] = pc[d] /\ hand'[d] = hand[d] /\ attempt'[d] = attempt[d] /\ site'[d] = site[d]
      /\ tried'[d] = tried[d] /\ answers'[d] = answers[d]
  BY OthersUnmoved DEF IInv
<1> USE <1>1, SharedState DEF IInv, TypeOK, Sessions, CallInv
<1>2. Pair(d)'
  BY DEF Pair
<1>3. Unshared(d)'
  <2> SUFFICES ASSUME pc[d] \in {"xsrf", "store"}
               PROVE  Unshared(d)'
    BY DEF Unshared
  <2>1. /\ hand[d].cookie # cookie /\ hand[d].cookie # 0 /\ hand[d].cookie \in 0 .. issued
        /\ \A e \in Callers : /\ hand[d].cookie \notin tried[e]
                              /\ e # d => hand[e].cookie # hand[d].cookie
    BY DEF Unshared, Pair, Hands
  <2>2. hand[d].cookie # cookie'
    BY <2>1
  <2>3. hand[d].cookie \notin tried'[c] /\ hand'[c].cookie # hand[d].cookie
    BY <2>1
  <2>4. ASSUME NEW e \in Callers, e # c
        PROVE  tried'[e] = tried[e] /\ hand'[e] = hand[e]
    BY <2>4, OthersUnmoved DEF IInv
  <2>5. QED
    BY <2>1, <2>2, <2>3, <2>4 DEF Unshared
<1>4. TriedSoFar(d)'
  <2>1. TriedSoFar(d) /\ Unshared(c) /\ 0 \notin tried[d]
    OBVIOUS
  <2>2. Second(d)' <=> Second(d)
    BY DEF Second
  <2>3. cookie \notin tried[d] => cookie' \notin tried[d]
    BY <2>1 DEF Unshared
  <2>4. \A s \in Sessions : s \in Sessions'
    OBVIOUS
  <2>5. QED
    BY <2>1, <2>2, <2>3, <2>4 DEF TriedSoFar
<1>5. Forgot(d)'
  BY DEF Forgot
<1>6. QED
  BY <1>2, <1>3, <1>4, <1>5

LEMMA NextIInv == IInv /\ [Next]_vars => IInv'
<1> SUFFICES ASSUME IInv, [Next]_vars PROVE IInv'
  OBVIOUS
<1>1. ASSUME NEW c \in Callers, Begin(c) \/ CallStep(c)
      PROVE  IInv'
  <2>1. TypeOK' /\ StoredPair' /\ CallInv(c)'
    BY <1>1, StepInv
  <2>2. QED
    BY <1>1, <2>1, OthersInv DEF IInv
<1>2. CASE Expire \/ UNCHANGED vars
  <2>1. /\ live' \subseteq live
        /\ UNCHANGED <<shared, issued, pc, site, hand, attempt, sent, result, runs, forgotten>>
    BY <1>2 DEF Expire, vars, server
  <2>2. TypeOK' /\ StoredPair'
    BY <2>1 DEF IInv, TypeOK, StoredPair, Sessions, Hands, shared, sent
  <2>3. ASSUME NEW c \in Callers PROVE CallInv(c)'
    BY <2>1 DEF IInv, shared, sent, CallInv, Pair, Unshared, Second, TriedSoFar, Forgot, Sessions
  <2>4. QED
    BY <2>2, <2>3 DEF IInv
<1>3. QED
  BY <1>1, <1>2 DEF Next

\* The invariant holds in every behaviour.
THEOREM Inductive == Spec => []IInv
  BY InitIInv, NextIInv, PTL DEF Spec

\* Every variable keeps its type; in particular the client, every call and the
\* product know only sessions that were issued.
THEOREM TypeCorrect == Spec => []TypeOK
<1>1. IInv => TypeOK
  BY DEF IInv
<1>2. QED
  BY Inductive, <1>1, PTL

\* A request goes out with a cookie, and with the XSRF token of the same login
\* or with none, whatever other calls store or reset (api_caller.go:184-206).
THEOREM PairOfOneLoginHolds == Spec => []PairOfOneLogin
<1>1. IInv => PairOfOneLogin
  BY DEF IInv, CallInv, Pair, PairOfOneLogin
<1>2. QED
  BY Inductive, <1>1, PTL

\* A call that has just logged in finds no session only because another call
\* forgot it in between (api_caller.go:194-202, 321-326).
THEOREM NothingOnlyIfForgottenHolds == Spec => NothingOnlyIfForgotten
<1>1. IInv => \A c \in Callers : RereadNothing(c) => forgotten[c]
  BY DEF IInv, CallInv, Forgot, RereadNothing
<1>2. IInv /\ [Next]_vars => [\A c \in Callers : RereadNothing(c) => forgotten[c]]_vars
  BY <1>1
<1>3. QED
  BY Inductive, <1>2, PTL DEF Spec, NothingOnlyIfForgotten

-----------------------------------------------------------------------------
(***************************************************************************)
(* Refinement of SessionUse.                                               *)
(***************************************************************************)
Status(c) == IF pc[c] = "idle" THEN result[c] ELSE "pending"

AbstractCall(c) == [status |-> Status(c), tried |-> tried[c], answers |-> answers[c]]

AbstractCalls == [c \in Callers |-> AbstractCall(c)]

LEMMA OneCallMoves ==
  ASSUME TypeOK, NEW c \in Callers, Begin(c) \/ CallStep(c)
  PROVE  AbstractCalls' = [AbstractCalls EXCEPT ![c] = AbstractCall(c)']
<1>1. ASSUME NEW d \in Callers, d # c
      PROVE  AbstractCalls'[d] = AbstractCalls[d]
  BY <1>1, OthersUnmoved DEF AbstractCalls, AbstractCall, Status
<1>2. AbstractCalls'[c] = AbstractCall(c)'
  BY DEF AbstractCalls
<1>3. QED
  BY <1>1, <1>2 DEF AbstractCalls

\* What the call in hand may send: a session it has not tried, as its first or
\* its second.
LEMMA MaySend ==
  ASSUME IInv, NEW c \in Callers, pc[c] = "send"
  PROVE  /\ hand[c].cookie \in Sessions
         /\ "applied" \notin answers[c]
         /\ hand[c].cookie \notin tried[c]
         /\ \A t, u \in tried[c] : t = u
<1>1. TypeOK /\ Pair(c) /\ TriedSoFar(c)
  BY DEF IInv, CallInv
<1>2. hand[c].cookie \in Sessions
  BY <1>1 DEF Pair, TypeOK, Hands, Sessions
<1>3. "applied" \notin answers[c] /\ hand[c].cookie \notin tried[c]
  BY <1>1 DEF TriedSoFar, TypeOK
<1>4. tried[c] = {} \/ \E s \in Sessions : tried[c] = {s}
  BY <1>1 DEF TriedSoFar, TypeOK
<1>5. QED
  BY <1>2, <1>3, <1>4

LEMMA RequestRefines ==
  ASSUME IInv, NEW c \in Callers, NEW a \in AnswersFor(hand[c].cookie),
         pc[c] = "send", Answered(c, a), UNCHANGED server,
         AbstractCalls' = [AbstractCalls EXCEPT ![c] = AbstractCall(c)'],
         Status(c)' \in {"pending", "served", "refused", "failed"},
         Status(c)' = "served" => a = "applied",
         Status(c)' = "refused" => a # "applied"
  PROVE  \E s \in 1 .. issued : Use!Send(c, s)
<1> PICK s \in 1 .. issued : s = hand[c].cookie
  BY MaySend DEF Sessions
<1>1. PICK status \in {"pending", "served", "refused", "failed"} : status = Status(c)'
  OBVIOUS
<1>2. AbstractCalls[c] = [status |-> "pending", tried |-> tried[c], answers |-> answers[c]]
  BY DEF AbstractCalls, AbstractCall, Status
<1>3. /\ AbstractCalls[c].status = "pending"
      /\ AbstractCalls[c].tried = tried[c]
      /\ AbstractCalls[c].answers = answers[c]
  BY <1>2
<1>4. AbstractCall(c)' = [status |-> status, tried |-> tried[c] \cup {s},
                         answers |-> answers[c] \cup {a}]
  BY <1>1 DEF AbstractCall, Answered, IInv, TypeOK
<1>5. a \in Use!AnswersFor(s)
  BY DEF AnswersFor, Use!AnswersFor
<1>6. AbstractCalls' = [AbstractCalls EXCEPT ![c] =
                          [status |-> status, tried |-> AbstractCalls[c].tried \cup {s},
                           answers |-> AbstractCalls[c].answers \cup {a}]]
  BY <1>3, <1>4, Zenon
<1>7. /\ "applied" \notin AbstractCalls[c].answers
      /\ \A t, u \in AbstractCalls[c].tried : t = u
      /\ s \notin AbstractCalls[c].tried
  BY <1>3, MaySend
<1>8. (status = "served" => a = "applied") /\ (status = "refused" => a # "applied")
  BY <1>1
<1>9. UNCHANGED <<issued, live>>
  BY DEF server
<1>10. \E answer \in Use!AnswersFor(s), st \in {"pending", "served", "refused", "failed"} :
         /\ st = "served" => answer = "applied"
         /\ st = "refused" => answer # "applied"
         /\ AbstractCalls' = [AbstractCalls EXCEPT ![c] =
                                [status |-> st, tried |-> AbstractCalls[c].tried \cup {s},
                                 answers |-> AbstractCalls[c].answers \cup {answer}]]
  BY <1>5, <1>6, <1>8
<1>11. Use!Send(c, s)
  BY <1>3, <1>7, <1>9, <1>10, Zenon DEF Use!Send, AbstractCalls, AbstractCall, Status
<1>12. QED
  BY <1>11

LEMMA GiveUpRefines ==
  ASSUME IInv, NEW c \in Callers, pc[c] # "idle", UNCHANGED <<server, sent>>,
         AbstractCalls' = [AbstractCalls EXCEPT ![c] = AbstractCall(c)'],
         NEW o \in {"refused", "failed"}, Status(c)' = o,
         o = "refused" => answers[c] # {}
  PROVE  Use!Fail(c)
<1>1. AbstractCalls[c] = [status |-> "pending", tried |-> tried[c], answers |-> answers[c]]
  BY DEF AbstractCalls, AbstractCall, Status
<1>2. AbstractCall(c)' = [status |-> o, tried |-> tried[c], answers |-> answers[c]]
  BY DEF AbstractCall, sent
<1>3. AbstractCall(c)' = [AbstractCalls[c] EXCEPT !.status = o]
  BY <1>1, <1>2
<1>4. AbstractCalls[c].status = "pending" /\ AbstractCalls[c].answers = answers[c]
  BY <1>1
<1>5. AbstractCalls' = [AbstractCalls EXCEPT ![c] = [AbstractCalls[c] EXCEPT !.status = o]]
  BY <1>3, Zenon
<1>6. UNCHANGED <<issued, live>>
  BY DEF server
<1>7. QED
  BY <1>4, <1>5, <1>6 DEF Use!Fail, AbstractCalls, AbstractCall, Status

LEMMA CallRefines ==
  ASSUME IInv, NEW c \in Callers, Begin(c) \/ CallStep(c)
  PROVE  [Use!Next]_<<issued, live, AbstractCalls>>
<1>1. AbstractCalls' = [AbstractCalls EXCEPT ![c] = AbstractCall(c)']
  BY OneCallMoves DEF IInv
<1>2. AbstractCalls[c] = AbstractCall(c)
  BY DEF AbstractCalls
<1>3. ASSUME AbstractCall(c)' = AbstractCall(c)
      PROVE  AbstractCalls' = AbstractCalls
  BY <1>1, <1>3 DEF AbstractCalls
<1>4. CASE Begin(c)
  <2>1. /\ pc[c] = "idle" /\ pc'[c] = "apply" /\ tried'[c] = {} /\ answers'[c] = {}
        /\ UNCHANGED <<issued, live>>
    BY <1>4 DEF Begin, Goto, server, IInv, TypeOK
  <2>2. AbstractCall(c)' = [status |-> "pending", tried |-> {}, answers |-> {}]
    BY <2>1 DEF AbstractCall, Status
  <2>3. [Use!NoCall EXCEPT !.status = "pending"]
          = [status |-> "pending", tried |-> {}, answers |-> {}]
    BY DEF Use!NoCall
  <2>4. AbstractCalls[c].status # "pending"
    BY <1>2, <2>1 DEF AbstractCall, Status, IInv, TypeOK
  <2>5. Use!Begin(c)
    BY <1>1, <2>1, <2>2, <2>3, <2>4, Zenon DEF Use!Begin, AbstractCalls, AbstractCall, Status
  <2>6. QED
    BY <2>5 DEF Use!Next
<1>5. CASE \/ ReadSession(c) \/ Reread(c) \/ LoginFound(c) \/ PostLogin(c) \/ GotXSRFToken(c)
           \/ StoreSession(c) \/ ResetSession(c)
  <2>1. pc[c] # "idle" /\ pc'[c] # "idle" /\ UNCHANGED <<server, sent>>
    BY <1>5 DEF ReadSession, Reread, LoginFound, PostLogin, GotXSRFToken, StoreSession,
                ResetSession, LoginReturns, Goto, IInv, TypeOK
  <2>2. AbstractCall(c)' = AbstractCall(c) /\ UNCHANGED <<issued, live>>
    BY <2>1 DEF server, sent, AbstractCall, Status
  <2>3. QED
    BY <1>3, <2>2
<1>6. CASE GotCookie(c)
  <2>1. AbstractCall(c)' = AbstractCall(c) /\ issued' = issued + 1 /\ live' = live \cup {issued'}
    BY <1>6 DEF GotCookie, Goto, sent, AbstractCall, Status, IInv, TypeOK
  <2>2. Use!Issue
    BY <1>3, <2>1 DEF Use!Issue, AbstractCalls, AbstractCall, Status
  <2>3. QED
    BY <2>2 DEF Use!Next
<1>7. CASE NoCredentials(c) \/ LoginRequestFails(c) \/ RereadNothing(c) \/ Lost(c)
  <2>1. pc[c] # "idle" /\ UNCHANGED <<server, sent>>
    BY <1>7 DEF NoCredentials, LoginRequestFails, RereadNothing, Lost
  <2>2. PICK o \in {"refused", "failed"} :
          Return(c, o) /\ (o = "refused" => site[c] # "apply")
    BY <1>7 DEF NoCredentials, LoginRequestFails, LoginFails, RereadNothing, Lost
  <2>3. site[c] # "apply" => answers[c] # {}
    BY DEF IInv, TypeOK, CallInv, TriedSoFar, Second
  <2>4. Status(c)' = o
    BY <2>2 DEF Return, Goto, Status, IInv, TypeOK
  <2>5. Use!Fail(c)
    BY <1>1, <2>1, <2>2, <2>3, <2>4, GiveUpRefines
  <2>6. QED
    BY <2>5 DEF Use!Next
<1>8. CASE Accepted(c)
  <2>1. /\ pc[c] = "send" /\ "applied" \in AnswersFor(hand[c].cookie) /\ Answered(c, "applied")
        /\ UNCHANGED server /\ pc'[c] = "idle" /\ result'[c] \in {"served", "failed"}
    BY <1>8 DEF Accepted, Return, Goto, IInv, TypeOK
  <2>2. \E s \in 1 .. issued : Use!Send(c, s)
    BY <1>1, <2>1, RequestRefines DEF Status
  <2>3. QED
    BY <2>2 DEF Use!Next
<1>9. CASE Refused(c)
  <2>1. PICK a \in AnswersFor(hand[c].cookie) \ {"applied"} : Answered(c, a)
    BY <1>9 DEF Refused
  <2>2. /\ pc[c] = "send" /\ UNCHANGED server
        /\ pc'[c] = "reset" \/ (pc'[c] = "idle" /\ result'[c] = "refused")
    BY <1>9 DEF Refused, Return, Goto, IInv, TypeOK
  <2>3. \E s \in 1 .. issued : Use!Send(c, s)
    BY <1>1, <2>1, <2>2, RequestRefines DEF Status
  <2>4. QED
    BY <2>3 DEF Use!Next
<1>10. QED
  BY <1>4, <1>5, <1>6, <1>7, <1>8, <1>9 DEF CallStep, LoginStep, RequestStep

\* The client implements SessionUse: a request goes out at most twice, never
\* twice with one session, and never again once it was carried out.
THEOREM Refines == Spec => ImplementsSessionUse
<1>1. Init => Use!Init
  BY DEF Init, Use!Init, Use!NoCall
<1>2. IInv /\ [Next]_vars => [Use!Next]_<<issued, live, AbstractCalls>>
  <2> SUFFICES ASSUME IInv, [Next]_vars
               PROVE  [Use!Next]_<<issued, live, AbstractCalls>>
    OBVIOUS
  <2>1. CASE Expire
    <3>1. AbstractCalls' = AbstractCalls
      BY <2>1 DEF Expire, sent, AbstractCalls, AbstractCall, Status
    <3>2. QED
      BY <2>1, <3>1 DEF Expire, Use!Next, Use!Expire, AbstractCalls, AbstractCall, Status
  <2>2. CASE UNCHANGED vars
    BY <2>2 DEF vars, server, sent, AbstractCalls, AbstractCall, Status
  <2>3. QED
    BY <2>1, <2>2, CallRefines DEF Next
<1>3. QED
  BY Inductive, <1>1, <1>2, PTL
  DEF Spec, ImplementsSessionUse, Use!Spec, Use!vars, AbstractCalls, AbstractCall, Status
=============================================================================
