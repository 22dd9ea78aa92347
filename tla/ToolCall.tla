------------------------------ MODULE ToolCall ------------------------------
(***************************************************************************)
(* What a query or mutate tool call may do to the managed system: it sends *)
(* at most MaxAPICalls requests, a request of a mutate call changes at     *)
(* most one object, a query call changes none, and a call that answered    *)
(* sends nothing any more.  A request whose answer was lost may still be   *)
(* carried out, once, even after the call answered.                        *)
(***************************************************************************)
EXTENDS Naturals

CONSTANTS Execs, Profiles, MaxAPICalls

VARIABLES
  store,      \* the managed system: profile to its contents
  owed,       \* per call: requests that may still be carried out
  calls       \* per call: status, mode and requests sent

Call(status, mode) == [status |-> status, mode |-> mode, sent |-> 0]

Init ==
  /\ owed = [e \in Execs |-> {}]
  /\ calls = [e \in Execs |-> Call("idle", "query")]

Begin(e) ==
  /\ calls[e].status = "idle"
  /\ \E mode \in {"query", "mutate"} : calls' = [calls EXCEPT ![e] = Call("running", mode)]
  /\ UNCHANGED <<store, owed>>

ChangesOneObject == \E p \in Profiles : \A q \in Profiles \ {p} : store'[q] = store[q]

\* A request that is answered, or whose answer is lost.
Request(e) ==
  /\ calls[e].status = "running"
  /\ calls[e].sent < MaxAPICalls
  /\ calls' = [calls EXCEPT ![e].sent = @ + 1]
  /\ \/ UNCHANGED <<store, owed>>
     \/ calls[e].mode = "mutate" /\ ChangesOneObject /\ UNCHANGED owed
     \/ /\ calls[e].mode = "mutate"
        /\ owed' = [owed EXCEPT ![e] = @ \cup {calls'[e].sent}]
        /\ UNCHANGED store

CarryOut(e) ==
  /\ \E n \in owed[e] : owed' = [owed EXCEPT ![e] = @ \ {n}]
  /\ ChangesOneObject
  /\ UNCHANGED calls

Answer(e) ==
  /\ calls[e].status = "running"
  /\ calls' = [calls EXCEPT ![e] = Call("answered", "query")]
  /\ UNCHANGED <<store, owed>>

Next == \E e \in Execs : Begin(e) \/ Request(e) \/ CarryOut(e) \/ Answer(e)

vars == <<store, owed, calls>>

Spec == Init /\ [][Next]_vars
=============================================================================
