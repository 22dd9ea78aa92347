---------------------------- MODULE SdwanSession ----------------------------
(***************************************************************************)
(* implementations/catalyst-sdwan/api_caller.go without a bearer token:    *)
(* concurrent calls of Client.Do share a session cookie and the XSRF token *)
(* that belongs to it.  A login is two requests, made without the lock; a  *)
(* call that is refused forgets the shared session, logs in and tries once *)
(* more.                                                                   *)
(*                                                                         *)
(* Every critical section of Client.mu and every answer of the product is  *)
(* one step.  A session's cookie and XSRF token carry its number.          *)
(***************************************************************************)
EXTENDS Naturals, FiniteSets

CONSTANTS
  Callers,     \* goroutines that call Do
  MaxLogins,   \* bound: sessions the product issues
  MaxCalls     \* bound: calls per caller

ASSUME BoundsAssumption == {MaxLogins, MaxCalls} \subseteq Nat

VARIABLES
  credentials,  \* whether user name and password are configured
  cookie,       \* c.cookie, 0 for the empty string
  xsrf,         \* c.xsrf, 0 for the empty string
  loggedIn,     \* c.loggedIn
  issued,       \* sessions the product issued
  live,         \* sessions it honours
  pc,           \* where each call is
  site,         \* who called login: applyAuth or resetSession
  hand,         \* cookie and XSRF token the call has in hand
  attempt,      \* doRequest: first, or second (allowRetry = false)
  tried,        \* history: the sessions the call sent
  answers,      \* history: the product's answers to the requests of the call
  result,       \* what the last call returned
  runs,         \* calls so far
  forgotten     \* history: per call, whether another call forgot the session
                \* since this one came back from login

server == <<issued, live>>
shared == <<credentials, cookie, xsrf, loggedIn>>
sent == <<tried, answers>>
vars == <<shared, server, pc, site, hand, attempt, sent, result, runs, forgotten>>

NoSession == [cookie |-> 0, xsrf |-> 0]

\* A session may be configured; so may be an XSRF token alone.
Init ==
  /\ credentials \in BOOLEAN
  /\ cookie \in {0, 1} /\ xsrf \in {0, 1}
  /\ loggedIn = (cookie # 0)
  /\ issued = 1
  /\ live \in SUBSET {1}
  /\ pc = [c \in Callers |-> "idle"]
  /\ site = [c \in Callers |-> "apply"]
  /\ hand = [c \in Callers |-> NoSession]
  /\ attempt = [c \in Callers |-> 1]
  /\ tried = [c \in Callers |-> {}]
  /\ answers = [c \in Callers |-> {}]
  /\ result = [c \in Callers |-> "idle"]
  /\ runs = [c \in Callers |-> 0]
  /\ forgotten = [c \in Callers |-> FALSE]

Goto(c, label) == pc' = [pc EXCEPT ![c] = label]

Return(c, outcome) ==
  /\ result' = [result EXCEPT ![c] = outcome]
  /\ hand' = [hand EXCEPT ![c] = NoSession]
  /\ attempt' = [attempt EXCEPT ![c] = 1]
  /\ site' = [site EXCEPT ![c] = "apply"]
  /\ forgotten' = [forgotten EXCEPT ![c] = FALSE]
  /\ Goto(c, "idle")
  /\ UNCHANGED runs

Begin(c) ==
  /\ pc[c] = "idle"
  /\ runs[c] < MaxCalls
  /\ runs' = [runs EXCEPT ![c] = @ + 1]
  /\ tried' = [tried EXCEPT ![c] = {}]
  /\ answers' = [answers EXCEPT ![c] = {}]
  /\ result' = [result EXCEPT ![c] = "idle"]
  /\ Goto(c, "apply")
  /\ UNCHANGED <<shared, server, site, hand, attempt, forgotten>>

-----------------------------------------------------------------------------
(* applyAuth and login. *)

\* applyAuth reads the session; without one it logs in, unless it is logged
\* in without a cookie, which goes where a second reading finds none.
ReadSession(c) ==
  /\ pc[c] = "apply"
  /\ hand' = [hand EXCEPT ![c] = [cookie |-> cookie, xsrf |-> xsrf]]
  /\ site' = [site EXCEPT ![c] = "apply"]
  /\ Goto(c, IF cookie # 0 THEN "send" ELSE IF loggedIn THEN "reread" ELSE "login")
  /\ UNCHANGED <<shared, server, attempt, sent, result, runs, forgotten>>

\* login returns to applyAuth, which reads again, or to resetSession, which
\* starts the second attempt.
LoginReturns(c) ==
  /\ Goto(c, IF site[c] = "apply" THEN "reread" ELSE "apply")
  /\ attempt' = [attempt EXCEPT ![c] = IF site[c] = "apply" THEN @ ELSE 2]
  /\ forgotten' = [forgotten EXCEPT ![c] = FALSE]
  /\ UNCHANGED <<result, runs, site>>

\* login fails: applyAuth fails, or doRequest keeps the refusal.
LoginFails(c) == Return(c, IF site[c] = "apply" THEN "failed" ELSE "refused")

\* login, when it begins: another call has logged in meanwhile.
LoginFound(c) ==
  /\ pc[c] = "login"
  /\ credentials
  /\ loggedIn /\ cookie # 0
  /\ LoginReturns(c)
  /\ UNCHANGED <<shared, server, hand, sent>>

NoCredentials(c) ==
  /\ pc[c] = "login"
  /\ ~credentials
  /\ LoginFails(c)
  /\ UNCHANGED <<shared, server, sent>>

PostLogin(c) ==
  /\ pc[c] = "login"
  /\ credentials
  /\ ~(loggedIn /\ cookie # 0)
  /\ Goto(c, "post")
  /\ UNCHANGED <<shared, server, site, hand, attempt, sent, result, runs, forgotten>>

GotCookie(c) ==
  /\ pc[c] = "post"
  /\ issued < MaxLogins
  /\ issued' = issued + 1
  /\ live' = live \cup {issued'}
  /\ hand' = [hand EXCEPT ![c] = [cookie |-> issued', xsrf |-> 0]]
  /\ Goto(c, "xsrf")
  /\ UNCHANGED <<shared, site, attempt, sent, result, runs, forgotten>>

\* fetchXSRFToken; products without such tokens answer 404.
GotXSRFToken(c) ==
  /\ pc[c] = "xsrf"
  /\ \E x \in {0, hand[c].cookie} : hand' = [hand EXCEPT ![c].xsrf = x]
  /\ Goto(c, "store")
  /\ UNCHANGED <<shared, server, site, attempt, sent, result, runs, forgotten>>

\* Either request of the login fails or is rejected.
LoginRequestFails(c) ==
  /\ pc[c] \in {"post", "xsrf"}
  /\ LoginFails(c)
  /\ UNCHANGED <<shared, server, sent>>

\* Mutant: keeps the XSRF token there is.
StoreCookieFirst(c) ==
  /\ pc[c] = "store"
  /\ cookie' = hand[c].cookie
  /\ xsrf' = IF xsrf = 0 THEN hand[c].xsrf ELSE xsrf
  /\ loggedIn' = TRUE
  /\ hand' = [hand EXCEPT ![c] = NoSession]
  /\ LoginReturns(c)
  /\ UNCHANGED <<credentials, server, sent>>

\* Mutant: the loser of a race between logins waits.
StoreIfEmpty(c) ==
  /\ pc[c] = "store"
  /\ cookie = 0
  /\ cookie' = hand[c].cookie /\ xsrf' = hand[c].xsrf /\ loggedIn' = TRUE
  /\ hand' = [hand EXCEPT ![c] = NoSession]
  /\ LoginReturns(c)
  /\ UNCHANGED <<credentials, server, sent>>

\* The last login to come back wins.
StoreSession(c) ==
  /\ pc[c] = "store"
  /\ cookie' = hand[c].cookie
  /\ xsrf' = hand[c].xsrf
  /\ loggedIn' = TRUE
  /\ hand' = [hand EXCEPT ![c] = NoSession]
  /\ LoginReturns(c)
  /\ UNCHANGED <<credentials, server, sent>>

\* applyAuth reads the session a second time.
Reread(c) ==
  /\ pc[c] = "reread"
  /\ cookie # 0
  /\ hand' = [hand EXCEPT ![c] = [cookie |-> cookie, xsrf |-> xsrf]]
  /\ Goto(c, "send")
  /\ UNCHANGED <<shared, server, site, attempt, sent, result, runs, forgotten>>

\* "session cookie is not available"
RereadNothing(c) ==
  /\ pc[c] = "reread"
  /\ cookie = 0
  /\ Return(c, "failed")
  /\ UNCHANGED <<shared, server, sent>>

-----------------------------------------------------------------------------
(* The request. *)

AnswersFor(s) == IF s \in live THEN {"applied", "forbidden"} ELSE {"unknown_session"}

Answered(c, a) ==
  /\ tried' = [tried EXCEPT ![c] = @ \cup {hand[c].cookie}]
  /\ answers' = [answers EXCEPT ![c] = @ \cup {a}]

\* It is carried out; its answer arrives, is lost or is too large.
Accepted(c) ==
  /\ pc[c] = "send"
  /\ "applied" \in AnswersFor(hand[c].cookie)
  /\ Answered(c, "applied")
  /\ \E outcome \in {"served", "failed"} : Return(c, outcome)
  /\ UNCHANGED <<shared, server>>

Lost(c) ==
  /\ pc[c] = "send"
  /\ Return(c, "failed")
  /\ UNCHANGED <<shared, server, sent>>

\* 401 or 403: the first time, and with credentials, log in again.
Refused(c) ==
  /\ pc[c] = "send"
  /\ \E a \in AnswersFor(hand[c].cookie) \ {"applied"} : Answered(c, a)
  /\ IF attempt[c] = 1 /\ credentials
     THEN /\ Goto(c, "reset")
          /\ UNCHANGED <<site, hand, attempt, result, runs, forgotten>>
     ELSE Return(c, "refused")
  /\ UNCHANGED <<shared, server>>

\* Mutants: the session stays; the client stays logged in.
ResetNothing(c) ==
  /\ pc[c] = "reset"
  /\ hand' = [hand EXCEPT ![c] = NoSession]
  /\ site' = [site EXCEPT ![c] = "reset"]
  /\ Goto(c, "login")
  /\ UNCHANGED <<shared, server, attempt, sent, result, runs, forgotten>>

ResetCookieOnly(c) ==
  /\ pc[c] = "reset"
  /\ cookie' = 0 /\ xsrf' = 0
  /\ hand' = [hand EXCEPT ![c] = NoSession]
  /\ site' = [site EXCEPT ![c] = "reset"]
  /\ forgotten' = [d \in Callers |-> forgotten[d] \/ (d # c /\ pc[d] = "reread")]
  /\ Goto(c, "login")
  /\ UNCHANGED <<credentials, loggedIn, server, attempt, sent, result, runs>>

\* resetSession: forget the session, whichever it is, and log in.
ResetSession(c) ==
  /\ pc[c] = "reset"
  /\ cookie' = 0
  /\ xsrf' = 0
  /\ loggedIn' = FALSE
  /\ hand' = [hand EXCEPT ![c] = NoSession]
  /\ site' = [site EXCEPT ![c] = "reset"]
  /\ forgotten' = [d \in Callers |-> forgotten[d] \/ (d # c /\ pc[d] = "reread")]
  /\ Goto(c, "login")
  /\ UNCHANGED <<credentials, server, attempt, sent, result, runs>>

Expire ==
  /\ \E s \in live : live' = live \ {s}
  /\ UNCHANGED <<shared, issued, pc, site, hand, attempt, sent, result, runs, forgotten>>

-----------------------------------------------------------------------------
LoginStep(c) ==
  \/ LoginFound(c) \/ NoCredentials(c) \/ PostLogin(c) \/ GotCookie(c) \/ GotXSRFToken(c)
  \/ LoginRequestFails(c) \/ StoreSession(c)

RequestStep(c) == Accepted(c) \/ Lost(c) \/ Refused(c) \/ ResetSession(c)

CallStep(c) ==
  ReadSession(c) \/ Reread(c) \/ RereadNothing(c) \/ LoginStep(c) \/ RequestStep(c)

Next ==
  \/ \E c \in Callers : Begin(c) \/ CallStep(c)
  \/ Expire

Spec == Init /\ [][Next]_vars

\* Goroutines are scheduled, and the HTTP client has a timeout
\* (internal/bootstrap/bootstrap.go:162).
Fairness == \A c \in Callers : WF_vars(CallStep(c))

FairSpec == Spec /\ Fairness
-----------------------------------------------------------------------------
(* Properties. *)

Sessions == 1 .. issued
Hands == [cookie : 0 .. issued, xsrf : 0 .. issued]

\* Type invariant of the client, the product and the calls.
TypeOK ==
  /\ credentials \in BOOLEAN
  /\ issued \in Nat
  /\ cookie \in 0 .. issued /\ xsrf \in 0 .. issued /\ loggedIn \in BOOLEAN
  /\ live \in SUBSET Sessions
  /\ pc \in [Callers -> {"idle", "apply", "login", "post", "xsrf", "store", "reread", "send",
                         "reset"}]
  /\ site \in [Callers -> {"apply", "reset"}]
  /\ hand \in [Callers -> Hands]
  /\ attempt \in [Callers -> {1, 2}]
  /\ tried \in [Callers -> SUBSET Sessions]
  /\ answers \in [Callers -> SUBSET {"applied", "forbidden", "unknown_session"}]
  /\ result \in [Callers -> {"idle", "served", "refused", "failed"}]
  /\ runs \in [Callers -> Nat]
  /\ forgotten \in [Callers -> BOOLEAN]

\* However logins and resets of other calls come between, a request goes out
\* with a cookie, and with the XSRF token of the same login or with none
\* (api_caller.go:184-206, 277-281).
PairOfOneLogin ==
  \A c \in Callers : pc[c] = "send" =>
    hand[c].cookie # 0 /\ hand[c].xsrf \in {0, hand[c].cookie}

\* A call that has just logged in finds no session only because another call
\* forgot it in between (api_caller.go:194-202, 321-326).
NothingOnlyIfForgotten ==
  [][\A c \in Callers : RereadNothing(c) => forgotten[c]]_vars

\* Every call returns.
CallsReturn == \A c \in Callers : pc[c] # "idle" ~> pc[c] = "idle"

(***************************************************************************)
(* The client implements SessionUse.                                       *)
(***************************************************************************)
Use == INSTANCE SessionUse WITH
  calls <- [c \in Callers |->
              [status |-> IF pc[c] = "idle" THEN result[c] ELSE "pending",
               tried |-> tried[c], answers |-> answers[c]]]

ImplementsSessionUse == Use!Spec
=============================================================================
