-------------------------- MODULE SdkBridgeProofs --------------------------
(***************************************************************************)
(* TLAPS proofs about SdkBridge, for any executions, profiles, policies    *)
(* and bounds.                                                             *)
(*                                                                         *)
(* The inductive invariant says of every execution what its preflight has  *)
(* established so far (RunOK), that what it read of the profile is still   *)
(* true unless the platform was changed since the call began (BasedOK),    *)
(* and the same of its writes without an answer (LateOK).                  *)
(***************************************************************************)
EXTENDS SdkBridge, TLAPS

\* A write keeps the platform the caller named; a create that names a bucket
\* names its platform.
Named(op) ==
  /\ op.platform # "" => op.target = op.platform
  /\ op.kind = "create" /\ op.platform = "" => op.bucket = {}

\* A write whose policies were checked against the platform found.
Checked(op) ==
  op.target # "" => \A p \in op.bucket \cap Resolvable : Compatible(p, op.target)

\* An error the script holds says that it is the call limit; it knows its class,
\* if rejectionValue has a kind for it and it was met by the read or the write
\* itself; otherwise it may have lost it.
Traceable(thrown) ==
  /\ thrown.cause = "none" => thrown.kind = "none"
  /\ thrown.cause = "limit" => thrown.kind \in {"limit", "plain"} /\ thrown.says = "limit"
  /\ thrown.direct /\ thrown.cause \in Kinds =>
       /\ thrown.kind = thrown.cause
       /\ thrown.cause = "timeout" => thrown.says = "timeout"
  /\ thrown.kind \in {"none", "plain", thrown.cause}
  /\ thrown.says \in {"", thrown.cause}

RunOK(r) ==
  /\ r.sent <= r.count
  /\ r.pc = "idle" => r = Idle
  /\ r.mode = "query" => r.pc \in {"idle", "script", "read", "done"}
  /\ r.pc = "target" => r.op.platform = ""
  /\ r.pc \in {"policies", "write"} => Named(r.op)
  /\ r.pc = "policies" =>
       \A p \in (r.op.bucket \cap Resolvable) \ r.todo : Compatible(p, r.op.target)
  /\ r.pc = "write" => Checked(r.op)
  /\ Traceable(r.thrown)

\* The target of an update that was checked is the platform of the profile,
\* unless that changed since the call began.
Based(op, s) ==
  op.kind = "update" /\ op.platform = "" /\ op.bucket # {} =>
    /\ op.profile \in Profiles
    /\ op.moves <= s[op.profile].moves
    /\ op.moves = s[op.profile].moves => op.target = s[op.profile].platform

BasedOK(r, s) ==
  /\ r.pc = "target" /\ r.op.kind = "update" =>
       r.op.profile \in Profiles /\ r.op.moves <= s[r.op.profile].moves
  /\ r.pc \in {"policies", "write"} => Based(r.op, s)

Good(r, s) == r \in Runs /\ RunOK(r) /\ BasedOK(r, s)

\* The writes without an answer were checked too, and were requests of their own.
LateOK(ops, r, s) ==
  /\ \A op \in ops : Named(op) /\ Checked(op) /\ Based(op, s)
  /\ \A op \in ops : r.pc # "done" => op.n <= r.sent
  /\ \A op1, op2 \in ops : op1.n = op2.n => op1 = op2

IInv ==
  /\ store \in [Profiles -> Objects]
  /\ run \in [Execs -> Runs]
  /\ late \in [Execs -> SUBSET Ops]
  /\ \A e \in Execs : Good(run[e], store) /\ LateOK(late[e], run[e], store)

-----------------------------------------------------------------------------
(* What the parts of an execution are made of. *)

LEMMA ConstantParts ==
  /\ NoOp \in Ops /\ Named(NoOp) /\ Checked(NoOp)
  /\ Nothing \in Thrown
  /\ Traceable(Nothing)
  /\ Absent \in Objects
<1>1. NoOp \in Ops /\ Named(NoOp) /\ Checked(NoOp)
  BY DEF NoOp, Ops, Named, Checked
<1>2. Nothing \in Thrown
  BY DEF Nothing, Because, Rejected, Thrown
<1>3. Traceable(Nothing)
  BY DEF Nothing, Because, Rejected, Traceable, Kinds
<1>4. Absent \in Objects
  BY DEF Absent, Objects
<1> QED
  BY <1>1, <1>2, <1>3, <1>4

LEMMA Bounds == MaxAPICalls \in Nat /\ MaxCalls \in Nat
  BY BoundsAssumption

LEMMA Reflexive == \A n \in Nat : n <= n
  OBVIOUS

LEMMA Between ==
  \A i, m, n \in Nat : i <= m /\ m <= n => i <= n /\ (i = n => i = m /\ n = m)
  OBVIOUS

LEMMA Zeros == 0 \in 0 .. MaxCalls /\ 0 \in 0 .. MaxAPICalls /\ 0 \in Nat /\ 0 <= 0
  BY Bounds

LEMMA IdleGood == Good(Idle, store)
<1>1. Idle \in Runs
  BY Zeros, ConstantParts DEF Idle, Runs
<1>2. /\ Idle.pc = "idle" /\ Idle.sent = 0 /\ Idle.count = 0 /\ Idle.thrown = Nothing
  BY DEF Idle
<1>3. RunOK(Idle)
  BY <1>2, Zeros, ConstantParts DEF RunOK
<1> QED
  BY <1>1, <1>2, <1>3 DEF Good, BasedOK

\* What callSDK throws when a request fails.
LEMMA KindKept ==
  ASSUME NEW class \in Kinds
  PROVE  LET says == IF class \in {"limit", "timeout"} THEN class ELSE ""
             thrown == [kind |-> class, says |-> says, cause |-> class, direct |-> TRUE]
         IN  thrown \in Thrown /\ Traceable(thrown)
  BY DEF Thrown, Traceable, Kinds, Classes

LEMMA KindLost ==
  ASSUME NEW class \in Classes, NEW direct \in BOOLEAN, ~(direct /\ class \in Kinds)
  PROVE  LET says == IF class = "limit" THEN class ELSE ""
             thrown == [kind |-> "plain", says |-> says, cause |-> class, direct |-> direct]
         IN  thrown \in Thrown /\ Traceable(thrown)
  BY DEF Thrown, Traceable, Kinds, Classes

LEMMA RejectionOK ==
  ASSUME NEW label, NEW class \in Classes
  PROVE  LET thrown == Because(Rejection(label, class), class, label \in {"read", "write"})
         IN  thrown \in Thrown /\ Traceable(thrown)
<1> DEFINE direct == label \in {"read", "write"}
           thrown == Because(Rejection(label, class), class, direct)
<1>1. CASE direct /\ class \in Kinds
  <2>1. direct = TRUE
    BY <1>1
  <2>2. thrown = [kind |-> class, says |-> IF class \in {"limit", "timeout"} THEN class ELSE "",
                  cause |-> class, direct |-> TRUE]
    BY <1>1, <2>1 DEF Rejection, Rejected, Because
  <2> QED
    BY <1>1, <2>2, KindKept
<1>2. CASE ~(direct /\ class \in Kinds)
  <2>1. thrown = [kind |-> "plain", says |-> IF class = "limit" THEN class ELSE "",
                  cause |-> class, direct |-> direct]
    BY <1>2 DEF Rejection, Rejected, Because
  <2>2. direct \in BOOLEAN
    OBVIOUS
  <2> QED
    BY <1>2, <2>1, <2>2, KindLost
<1> QED
  BY <1>1, <1>2

LEMMA InvalidOK == Invalid \in Thrown /\ Traceable(Invalid)
  BY DEF Invalid, Rejected, Because, Thrown, Traceable, Kinds, Classes

LEMMA FailureClass == ASSUME NEW e \in Execs, run[e].ctx \in {"open", "deadline", "canceled"}
                      PROVE  FailuresNow(e) \subseteq Classes
  BY FailuresAssumption DEF FailuresNow, Kinds, Classes

-----------------------------------------------------------------------------
(* The ways an execution moves, each into a state in order: it goes on     *)
(* without a request, it sends one, or it ends.                            *)

Progress(e, r) ==
  /\ run' = [run EXCEPT ![e] = r]
  /\ Good(r, store)
  /\ r.pc # "done" => run[e].pc # "done" /\ run[e].sent <= r.sent

Active(r) == r.pc \notin {"idle", "done"}

Continues(e, r) ==
  /\ Progress(e, r) /\ Active(run[e]) /\ Active(r)
  /\ r.sent = run[e].sent /\ r.mode = run[e].mode

Sends(e, r) ==
  /\ Progress(e, r) /\ Active(run[e]) /\ Active(r)
  /\ run[e].sent < MaxAPICalls
  /\ r.sent = run[e].sent + 1 /\ r.mode = run[e].mode

Ends(e, r) ==
  Progress(e, r) /\ Active(run[e]) /\ r.pc = "done" /\ r.mode = "query" /\ r.sent = 0

LEMMA Typed ==
  ASSUME IInv, NEW e \in Execs
  PROVE  /\ run[e] \in Runs /\ RunOK(run[e]) /\ BasedOK(run[e], store)
         /\ run[e].count \in Nat /\ run[e].sent \in 0 .. MaxAPICalls /\ run[e].sent \in Nat
         /\ run[e].calls \in 0 .. MaxCalls
         /\ run[e].op \in Ops /\ run[e].todo \subseteq Policies /\ run[e].thrown \in Thrown
         /\ Traceable(run[e].thrown)
         /\ run[e].sent <= run[e].count /\ run[e].sent <= run[e].sent
<1>1. run[e] \in Runs /\ RunOK(run[e]) /\ BasedOK(run[e], store)
  BY DEF IInv, Good
<1>2. /\ run[e].count \in Nat /\ run[e].sent \in 0 .. MaxAPICalls /\ run[e].calls \in 0 .. MaxCalls
      /\ run[e].op \in Ops /\ run[e].todo \subseteq Policies /\ run[e].thrown \in Thrown
  BY <1>1 DEF Runs
<1>3. run[e].sent \in Nat /\ run[e].sent <= run[e].sent
  BY <1>2, Bounds
<1> QED
  BY <1>1, <1>2, <1>3 DEF RunOK

LEMMA BeginMoves ==
  ASSUME IInv, NEW e \in Execs, Begin(e)
  PROVE  \E r : /\ Progress(e, r) /\ run[e] = Idle
                /\ r.sent = 0 /\ r.pc = "script" /\ r.mode \in {"query", "mutate"}
<1>1. PICK mode \in {"query", "mutate"} : run' = [run EXCEPT ![e].pc = "script", ![e].mode = mode]
  BY DEF Begin
<1> DEFINE r == [run[e] EXCEPT !.pc = "script", !.mode = mode]
<1>2. run[e] = Idle /\ run[e].pc = "idle"
  BY Typed DEF RunOK, Begin
<1>3. run' = [run EXCEPT ![e] = r]
  BY <1>1 DEF IInv
<1>4. r \in Runs
  BY <1>1, Typed DEF Runs
<1>5. /\ r.pc = "script" /\ r.mode = mode /\ r.sent = 0 /\ r.count = 0 /\ r.thrown = Nothing
      /\ run[e].sent = 0
  BY <1>2 DEF Idle
<1>6. Good(r, store)
  BY <1>4, <1>5, Zeros, ConstantParts DEF Good, RunOK, BasedOK
<1> QED
  BY <1>1, <1>2, <1>3, <1>5, <1>6, Zeros DEF Progress

\* Enter goes to a label that the operation may go to.
MayGo(e, label, op, todo) ==
  /\ run[e].mode = "query" => label \in {"script", "read"}
  /\ label = "target" => op.platform = ""
  /\ label = "target" /\ op.kind = "update" =>
       op.profile \in Profiles /\ op.moves <= store[op.profile].moves
  /\ label \in {"policies", "write"} => Named(op) /\ Based(op, store)
  /\ label = "policies" => \A p \in (op.bucket \cap Resolvable) \ todo : Compatible(p, op.target)
  /\ label = "write" => Checked(op)

LEMMA EnterMoves ==
  ASSUME IInv, NEW e \in Execs, Calls(e),
         NEW label \in {"script", "read", "target", "policies", "write"}, NEW op \in Ops,
         NEW todo \in SUBSET Policies, NEW thrown \in Thrown, Traceable(thrown),
         Enter(e, label, op, todo, thrown), MayGo(e, label, op, todo)
  PROVE  \E r : Continues(e, r)
<1> DEFINE r == [run[e] EXCEPT !.pc = label, !.calls = run[e].calls + 1, !.op = op,
                               !.todo = todo, !.thrown = thrown]
<1>1. run[e].calls < MaxCalls /\ run[e].pc = "script"
  BY DEF Calls
<1>2. run' = [run EXCEPT ![e] = r]
  BY DEF Enter, IInv
<1>3. run[e].calls + 1 \in 0 .. MaxCalls
  BY <1>1, Typed, Bounds
<1>4. r \in Runs
  BY <1>3, Typed DEF Runs
<1>5. /\ r.pc = label /\ r.mode = run[e].mode /\ r.sent = run[e].sent /\ r.count = run[e].count
      /\ r.op = op /\ r.todo = todo /\ r.thrown = thrown
  BY Typed DEF Runs
<1> HIDE DEF r
<1>6. RunOK(r)
  BY <1>5, Typed DEF RunOK, MayGo
<1>7. BasedOK(r, store)
  BY <1>5 DEF BasedOK, MayGo
<1> QED
  BY <1>1, <1>2, <1>4, <1>5, <1>6, <1>7, Typed DEF Progress, Continues, Good, Active

LEMMA CallMoves ==
  ASSUME IInv, NEW e \in Execs, Call(e)
  PROVE  (\E r : Continues(e, r)) /\ UNCHANGED <<store, late>>
<1> USE ConstantParts
<1>1. CASE CallOffline(e)
  <2>1. Calls(e) /\ Enter(e, "script", NoOp, {}, Nothing) /\ UNCHANGED <<store, late>>
    BY <1>1 DEF CallOffline
  <2>2. MayGo(e, "script", NoOp, {})
    BY DEF MayGo
  <2> QED
    BY <2>1, <2>2, EnterMoves
<1>2. CASE CallRejected(e)
  <2>1. /\ Calls(e) /\ UNCHANGED <<store, late>>
        /\ Enter(e, "script", NoOp, {}, Invalid)
    BY <1>2 DEF CallRejected
  <2>2. MayGo(e, "script", NoOp, {})
    BY DEF MayGo
  <2> QED
    BY <2>1, <2>2, EnterMoves, InvalidOK
<1>3. CASE CallRead(e)
  <2>1. Calls(e) /\ Enter(e, "read", NoOp, {}, Nothing) /\ UNCHANGED <<store, late>>
    BY <1>3 DEF CallRead
  <2>2. MayGo(e, "read", NoOp, {})
    BY DEF MayGo
  <2> QED
    BY <2>1, <2>2, EnterMoves
<1>4. CASE CallDelete(e)
  <2>1. PICK p \in Profiles :
          Enter(e, "write", [NoOp EXCEPT !.kind = "delete", !.profile = p], {}, Nothing)
    BY <1>4 DEF CallDelete
  <2> DEFINE op == [NoOp EXCEPT !.kind = "delete", !.profile = p]
  <2>2. op \in Ops
    BY DEF Ops
  <2>3. op.platform = "" /\ op.bucket = {} /\ op.kind = "delete"
    BY DEF NoOp
  <2>4. Calls(e) /\ run[e].mode = "mutate" /\ UNCHANGED <<store, late>>
    BY <1>4 DEF CallDelete
  <2>5. Enter(e, "write", op, {}, Nothing)
    BY <2>1
  <2> HIDE DEF op
  <2>6. MayGo(e, "write", op, {})
    BY <2>3, <2>4 DEF Named, Checked, Based, MayGo
  <2> QED
    BY <2>2, <2>4, <2>5, <2>6, EnterMoves
<1>5. CASE CallWrite(e)
  <2>1. PICK p \in Profiles \cup {""}, platform \in Platforms \cup {""}, bucket \in SUBSET Policies :
          Preflight(e, [kind |-> IF p = "" THEN "create" ELSE "update", profile |-> p,
                        platform |-> platform, bucket |-> bucket, target |-> platform, n |-> 0,
                        moves |-> IF p = "" THEN 0 ELSE store[p].moves])
    BY <1>5 DEF CallWrite
  <2> DEFINE op == [kind |-> IF p = "" THEN "create" ELSE "update", profile |-> p,
                    platform |-> platform, bucket |-> bucket, target |-> platform, n |-> 0,
                    moves |-> IF p = "" THEN 0 ELSE store[p].moves]
             checked == op.bucket \cap Resolvable
             label == IF op.bucket # {} /\ op.platform = "" THEN "target"
                      ELSE IF checked = {} THEN "write" ELSE "policies"
             todo == IF op.platform = "" THEN {} ELSE checked
  <2>0. p # "" => p \in Profiles /\ store[p].moves \in Nat
    BY DEF IInv, Objects
  <2>2. p # "" => p \in Profiles /\ store[p].moves \in Nat /\ store[p].moves <= store[p].moves
    BY <2>0, Reflexive, Zenon
  <2>3. op \in Ops
    BY <2>2 DEF Ops
  <2>4. /\ op.target = op.platform /\ op.bucket \in SUBSET Policies
        /\ op.kind = "update" => op.profile \in Profiles /\ op.moves <= store[op.profile].moves
    BY <2>2
  <2>5. Calls(e) /\ run[e].mode = "mutate" /\ UNCHANGED <<store, late>>
    BY <1>5 DEF CallWrite
  <2>6. Enter(e, label, op, todo, Nothing)
    BY <2>1 DEF Preflight
  <2> HIDE DEF op
  <2>7. label \in {"target", "policies", "write"} /\ todo \in SUBSET Policies
    BY <2>4
  <2>8. /\ label = "target" => op.platform = "" /\ op.bucket # {}
        /\ label = "policies" => op.platform # "" /\ todo = op.bucket \cap Resolvable
        /\ label = "write" => op.bucket = {} \/ (op.platform # "" /\ op.bucket \cap Resolvable = {})
    OBVIOUS
  <2> HIDE DEF label, todo
  <2>9. MayGo(e, label, op, todo)
    BY <2>4, <2>5, <2>7, <2>8 DEF Named, Checked, Based, MayGo
  <2> QED
    BY <2>3, <2>5, <2>6, <2>7, <2>9, EnterMoves
<1> QED
  BY <1>1, <1>2, <1>3, <1>4, <1>5 DEF Call


\* A call that ends, in whichever way, leaves the script running.
LEMMA SettledGood ==
  ASSUME NEW r \in Runs, r.sent <= r.count, NEW thrown \in Thrown, Traceable(thrown)
  PROVE  /\ Good(Settled(r, thrown), store)
         /\ Settled(r, thrown).sent = r.sent /\ Settled(r, thrown).pc = "script"
         /\ Settled(r, thrown).mode = r.mode
<1> DEFINE s == Settled(r, thrown)
<1>1. s \in Runs
  BY ConstantParts DEF Settled, Runs
<1>2. /\ s.sent = r.sent /\ s.count = r.count /\ s.pc = "script" /\ s.mode = r.mode
      /\ s.thrown = thrown
  BY DEF Settled, Runs
<1> QED
  BY <1>1, <1>2 DEF Good, RunOK, BasedOK

LEMMA RequestingIsActive ==
  ASSUME NEW e \in Execs, Requesting(e)
  PROVE  Active(run[e])
  BY DEF Requesting, Active

LEMMA SendingParts ==
  ASSUME IInv, NEW e \in Execs, MaySend(e)
  PROVE  /\ Sending(e) \in Runs /\ Sending(e).sent <= Sending(e).count
         /\ run[e].sent < MaxAPICalls /\ run[e].sent <= run[e].sent + 1
         /\ Sending(e).sent = run[e].sent + 1 /\ Sending(e).pc = run[e].pc
         /\ Sending(e).mode = run[e].mode /\ Sending(e).op = run[e].op
         /\ Sending(e).todo = run[e].todo /\ Sending(e).thrown = run[e].thrown
<1> DEFINE s == Sending(e)
<1>1. s = [run[e] EXCEPT !.count = run[e].count + 1, !.sent = run[e].sent + 1]
  BY DEF Sending
<1>2. run[e].count < MaxAPICalls
  BY DEF MaySend
<1>3. /\ run[e].count + 1 \in Nat /\ run[e].sent + 1 \in 0 .. MaxAPICalls
      /\ run[e].sent < MaxAPICalls /\ run[e].sent <= run[e].sent + 1
      /\ run[e].sent + 1 <= run[e].count + 1
  BY <1>2, Typed, Bounds
<1>4. s \in Runs
  BY <1>1, <1>3, Typed DEF Runs
<1>5. /\ s.sent = run[e].sent + 1 /\ s.pc = run[e].pc /\ s.count = run[e].count + 1
      /\ s.mode = run[e].mode /\ s.op = run[e].op /\ s.todo = run[e].todo
      /\ s.thrown = run[e].thrown
  BY <1>1, Typed DEF Runs
<1> QED
  BY <1>3, <1>4, <1>5

\* A request that ends the call.
LEMMA SettledMoves ==
  ASSUME IInv, NEW e \in Execs, Requesting(e), MaySend(e),
         NEW thrown \in Thrown, Traceable(thrown),
         run' = [run EXCEPT ![e] = Settled(Sending(e), thrown)]
  PROVE  \E r : Sends(e, r)
<1> DEFINE r == Settled(Sending(e), thrown)
<1>1. /\ Good(r, store) /\ r.sent = run[e].sent + 1 /\ r.pc = "script" /\ r.mode = run[e].mode
  BY SendingParts, SettledGood
<1>2. Active(run[e]) /\ Active(r)
  BY <1>1, RequestingIsActive DEF Active
<1>3. run' = [run EXCEPT ![e] = r]
  OBVIOUS
<1> HIDE DEF r
<1> QED
  BY <1>1, <1>2, <1>3, SendingParts DEF Sends, Progress, Active

LEMMA FailsMoves ==
  ASSUME IInv, NEW e \in Execs, Requesting(e), MaySend(e), NEW class \in Classes,
         run' = [run EXCEPT ![e] = Fails(Sending(e), class)]
  PROVE  \E r : Sends(e, r)
<1> DEFINE thrown == Because(Rejection(run[e].pc, class), class, run[e].pc \in {"read", "write"})
<1>1. thrown \in Thrown /\ Traceable(thrown)
  BY RejectionOK
<1>2. Fails(Sending(e), class) = Settled(Sending(e), thrown)
  BY SendingParts DEF Fails
<1> QED
  BY <1>1, <1>2, SettledMoves

\* A request after which the call goes on.
LEMMA GoesOnMoves ==
  ASSUME IInv, NEW e \in Execs, Requesting(e), MaySend(e), NEW r \in Runs,
         run' = [run EXCEPT ![e] = r], Active(r),
         r.sent = Sending(e).sent, r.count = Sending(e).count, r.mode = run[e].mode,
         r.thrown = run[e].thrown,
         r.mode = "query" => r.pc \in {"script", "read"},
         r.pc # "target",
         r.pc \in {"policies", "write"} => Named(r.op) /\ Based(r.op, store),
         r.pc = "policies" => \A p \in (r.op.bucket \cap Resolvable) \ r.todo : Compatible(p, r.op.target),
         r.pc = "write" => Checked(r.op)
  PROVE  \E t : Sends(e, t)
<1>1. RunOK(r)
  BY SendingParts, Typed DEF RunOK, Active
<1>2. BasedOK(r, store)
  BY DEF BasedOK
<1> QED
  BY <1>1, <1>2, SendingParts, RequestingIsActive DEF Sends, Progress, Good, Active

LEMMA OverLimitMoves ==
  ASSUME IInv, NEW e \in Execs, OverLimit(e)
  PROVE  \E r : Continues(e, r)
<1> DEFINE s == [run[e] EXCEPT !.count = run[e].count + 1]
           thrown == Because(Rejection(run[e].pc, "limit"), "limit", run[e].pc \in {"read", "write"})
           r == Settled(s, thrown)
<1>1. run[e].count + 1 \in Nat /\ run[e].sent <= run[e].count + 1
  BY Typed
<1>2. s \in Runs
  BY <1>1, Typed DEF Runs
<1>3. /\ s.sent = run[e].sent /\ s.count = run[e].count + 1 /\ s.mode = run[e].mode
      /\ s.pc = run[e].pc
  BY Typed DEF Runs
<1>4. s.sent <= s.count
  BY <1>1, <1>3
<1>5. run' = [run EXCEPT ![e] = r]
  BY <1>3 DEF OverLimit, Fails
<1>6. thrown \in Thrown /\ Traceable(thrown)
  BY RejectionOK DEF Kinds, Classes
<1> HIDE DEF s, thrown
<1>7. Good(r, store) /\ r.sent = s.sent /\ r.pc = "script" /\ r.mode = s.mode
  BY <1>2, <1>4, <1>6, SettledGood
<1> HIDE DEF r
<1> QED
  BY <1>3, <1>5, <1>7, Typed, RequestingIsActive DEF Continues, Progress, Active, OverLimit

LEMMA ContextMoves ==
  ASSUME IInv, NEW e \in Execs, NEW how \in {"deadline", "canceled"}, ContextEnds(e, how)
  PROVE  \E r : Continues(e, r)
<1> DEFINE r == [run[e] EXCEPT !.ctx = how]
<1>1. run' = [run EXCEPT ![e] = r]
  BY DEF ContextEnds, IInv
<1>2. r \in Runs
  BY Typed DEF Runs
<1>3. /\ r.pc = run[e].pc /\ r.sent = run[e].sent /\ r.mode = run[e].mode /\ r.op = run[e].op
      /\ r.todo = run[e].todo /\ r.thrown = run[e].thrown /\ r.count = run[e].count
  BY Typed DEF Runs
<1>4. Active(run[e])
  BY DEF ContextEnds, Running, Active
<1> HIDE DEF r
<1>5. RunOK(r) /\ BasedOK(r, store)
  BY <1>3, <1>4, Typed DEF RunOK, BasedOK, Active
<1> QED
  BY <1>1, <1>2, <1>3, <1>4, <1>5, Typed DEF Continues, Progress, Good, Active

LEMMA EndMoves ==
  ASSUME IInv, NEW e \in Execs, End(e)
  PROVE  \E r : Ends(e, r)
<1>1. /\ run[e].pc = "script"
      /\ \E answer \in {"own", "validation"} \cup Classes : Done(e, answer)
  <2>1. CASE Rethrow(e)
    <3>1. PICK kind \in {run[e].thrown.kind, "plain"} : ThrowAs(e, kind)
      BY <2>1 DEF Rethrow, LetThrough, Wrap
    <3>2. ClassOf(kind, run[e].thrown.says) \in {"validation"} \cup Classes
      BY Typed DEF Thrown, ClassOf, Kinds, Classes
    <3>3. EndOf(run[e].ctx) \in Classes
      BY DEF EndOf, Kinds, Classes
    <3> QED
      BY <3>1, <3>2, <3>3 DEF ThrowAs
  <2>2. CASE Throw(e)
    BY <2>2 DEF Throw, EndOf, Kinds, Classes
  <2>3. CASE Return(e)
    BY <2>3 DEF Return
  <2>4. CASE Close(e)
    BY <2>4 DEF Close, EndOf, Kinds, Classes
  <2> QED
    BY <2>1, <2>2, <2>3, <2>4 DEF End
<1>2. PICK answer \in {"own", "validation"} \cup Classes : Done(e, answer)
  BY <1>1
<1> DEFINE r == [Idle EXCEPT !.pc = "done", !.answer = answer]
<1>3. run' = [run EXCEPT ![e] = r]
  BY <1>2 DEF Done
<1>4. Idle \in Runs
  BY IdleGood DEF Good
<1>5. r \in Runs
  BY <1>2, <1>4 DEF Runs
<1>6. r.pc = "done" /\ r.mode = "query" /\ r.sent = 0 /\ r.count = 0 /\ r.thrown = Nothing
  BY DEF Idle
<1> HIDE DEF r
<1>7. Good(r, store)
  BY <1>5, <1>6, Zeros, ConstantParts DEF Good, RunOK, BasedOK
<1> QED
  BY <1>1, <1>3, <1>6, <1>7 DEF Ends, Progress, Active

-----------------------------------------------------------------------------
(* The requests. *)

\* What a request does to the managed system: nothing, its write, or its write
\* is left to be carried out.
Wrote(e) ==
  run[e].pc = "write" /\ UNCHANGED late /\ \E p \in Profiles : Carried(run[e].op, p)

Lost(e) ==
  /\ run[e].pc = "write" /\ UNCHANGED store
  /\ late' = [late EXCEPT ![e] = @ \cup {[run[e].op EXCEPT !.n = run[e].sent + 1]}]

LEMMA FailedRequest ==
  ASSUME IInv, NEW e \in Execs, RequestFails(e)
  PROVE  (\E r : Sends(e, r)) /\ UNCHANGED <<store, late>>
<1>1. PICK class \in FailuresNow(e) : run' = [run EXCEPT ![e] = Fails(Sending(e), class)]
  BY DEF RequestFails
<1>2. class \in Classes
  BY FailureClass, Typed DEF Runs
<1> QED
  BY <1>1, <1>2, FailsMoves DEF RequestFails

LEMMA ReadRequest ==
  ASSUME IInv, NEW e \in Execs, Read(e)
  PROVE  (\E r : Sends(e, r)) /\ UNCHANGED <<store, late>>
<1>1. /\ Requesting(e) /\ MaySend(e)
      /\ run' = [run EXCEPT ![e] = Settled(Sending(e), Nothing)]
  BY DEF Read, Answered, Requesting, Resolved
<1> QED
  BY <1>1, ConstantParts, SettledMoves DEF Read

LEMMA TargetRequest ==
  ASSUME IInv, NEW e \in Execs, ReadTarget(e)
  PROVE  (\E r : Sends(e, r)) /\ UNCHANGED <<store, late>>
<1> DEFINE op == run[e].op
           found == op.kind = "update" /\ store[op.profile].exists
           target == store[op.profile].platform
           checked == op.bucket \cap Resolvable
<1>1. Requesting(e) /\ MaySend(e) /\ run[e].pc = "target" /\ UNCHANGED <<store, late>>
  BY DEF ReadTarget, Answered, Requesting
<1>2. CASE ~found
  <2>1. run' = [run EXCEPT ![e] = Fails(Sending(e), "http")]
    BY <1>2 DEF ReadTarget
  <2> QED
    BY <1>1, <2>1, FailsMoves DEF Kinds, Classes
<1>3. CASE found
  <2>1. /\ op.kind = "update" /\ op.profile \in Profiles /\ op.platform = "" /\ op \in Ops
        /\ op.moves <= store[op.profile].moves
        /\ run[e].mode # "query"
    BY <1>1, <1>3, Typed DEF BasedOK, RunOK
  <2>2. target \in Platforms \cup {""}
    BY <2>1 DEF IInv, Objects
  <2> DEFINE s == Sending(e)
             direct == [s EXCEPT !.pc = "write", !.op.target = target]
             checking == [s EXCEPT !.pc = "policies", !.op.target = target, !.todo = checked]
             found_op == [op EXCEPT !.target = target]
  <2>3. /\ found_op \in Ops
        /\ found_op.kind = op.kind /\ found_op.profile = op.profile /\ found_op.moves = op.moves
        /\ found_op.platform = "" /\ found_op.bucket = op.bucket /\ found_op.target = target
    BY <2>1, <2>2 DEF Ops
  <2>4. Named(found_op) /\ Based(found_op, store)
    BY <2>1, <2>3 DEF Named, Based
  <2>5. s \in Runs /\ s.op = op /\ s.mode = run[e].mode /\ s.thrown = run[e].thrown
    BY SendingParts, <1>1
  <2>6. CASE target = "" \/ checked = {}
    <3>1. run' = [run EXCEPT ![e] = direct]
      BY <1>3, <2>6 DEF ReadTarget
    <3>2. direct \in Runs
      BY <2>3, <2>5 DEF Runs
    <3>3. /\ direct.pc = "write" /\ direct.op = found_op /\ direct.mode = run[e].mode
          /\ direct.sent = s.sent /\ direct.count = s.count /\ direct.thrown = run[e].thrown
      BY <2>5 DEF Runs
    <3>4. Checked(found_op)
      BY <2>3, <2>6 DEF Checked
    <3> HIDE DEF direct, found_op
    <3> QED
      BY <1>1, <2>1, <2>4, <3>1, <3>2, <3>3, <3>4, GoesOnMoves DEF Active
  <2>7. CASE ~(target = "" \/ checked = {})
    <3>1. run' = [run EXCEPT ![e] = checking]
      BY <1>3, <2>7 DEF ReadTarget
    <3>2. checking \in Runs
      BY <2>3, <2>5, TargetAssumption DEF Runs
    <3>3. /\ checking.pc = "policies" /\ checking.op = found_op /\ checking.mode = run[e].mode
          /\ checking.sent = s.sent /\ checking.count = s.count /\ checking.thrown = run[e].thrown
          /\ checking.todo = found_op.bucket \cap Resolvable
      BY <2>3, <2>5 DEF Runs
    <3> HIDE DEF checking, found_op
    <3>4. \A p \in (checking.op.bucket \cap Resolvable) \ checking.todo :
            Compatible(p, checking.op.target)
      BY <3>3
    <3> QED
      BY <1>1, <2>1, <2>4, <3>1, <3>2, <3>3, <3>4, GoesOnMoves DEF Active
  <2> QED
    BY <2>6, <2>7
<1> QED
  BY <1>2, <1>3

LEMMA PolicyRequest ==
  ASSUME IInv, NEW e \in Execs, ReadPolicy(e)
  PROVE  (\E r : Sends(e, r)) /\ UNCHANGED <<store, late>>
<1> DEFINE s == Sending(e)
<1>1. /\ Requesting(e) /\ MaySend(e) /\ run[e].pc = "policies" /\ UNCHANGED <<store, late>>
      /\ run[e].mode # "query"
  BY Typed DEF ReadPolicy, Answered, Requesting, RunOK
<1>2. PICK policy \in run[e].todo :
        run' = [run EXCEPT ![e] =
          IF ~Compatible(policy, run[e].op.target)
            THEN Settled(s, Invalid)
            ELSE [s EXCEPT !.todo = @ \ {policy},
                           !.pc = IF run[e].todo = {policy} THEN "write" ELSE @]]
  BY DEF ReadPolicy
<1>3. CASE ~Compatible(policy, run[e].op.target)
  BY <1>1, <1>2, <1>3, InvalidOK, SettledMoves
<1>4. CASE Compatible(policy, run[e].op.target)
  <2> DEFINE r == [s EXCEPT !.todo = run[e].todo \ {policy},
                            !.pc = IF run[e].todo = {policy} THEN "write" ELSE "policies"]
  <2>1. s \in Runs /\ s.op = run[e].op /\ s.mode = run[e].mode /\ s.thrown = run[e].thrown
        /\ s.todo = run[e].todo /\ s.pc = "policies"
    BY SendingParts, <1>1
  <2>2. run' = [run EXCEPT ![e] = r]
    BY <1>2, <1>4, <2>1
  <2>3. r \in Runs
    BY <2>1, Typed DEF Runs
  <2>4. /\ r.op = run[e].op /\ r.mode = run[e].mode /\ r.thrown = run[e].thrown
        /\ r.sent = s.sent /\ r.count = s.count /\ r.todo = run[e].todo \ {policy}
        /\ r.pc = IF run[e].todo = {policy} THEN "write" ELSE "policies"
    BY <2>1 DEF Runs
  <2>5. Named(run[e].op) /\ Based(run[e].op, store)
    BY <1>1, Typed DEF RunOK, BasedOK
  <2>6. \A p \in (r.op.bucket \cap Resolvable) \ r.todo : Compatible(p, r.op.target)
    BY <1>1, <1>4, <2>4, Typed DEF RunOK
  <2>7. r.pc = "write" => Checked(r.op)
    <3>1. r.pc = "write" => r.todo = {}
      BY <2>4
    <3> QED
      BY <2>6, <3>1 DEF Checked
  <2> HIDE DEF r
  <2> QED
    BY <1>1, <2>2, <2>3, <2>4, <2>5, <2>6, <2>7, GoesOnMoves DEF Active
<1> QED
  BY <1>3, <1>4

LEMMA WriteRequest ==
  ASSUME IInv, NEW e \in Execs, Write(e)
  PROVE  (\E r : Sends(e, r)) /\ Wrote(e)
<1> DEFINE s == Sending(e)
           op == run[e].op
<1>1. Requesting(e) /\ MaySend(e) /\ run[e].pc = "write" /\ run[e].mode # "query" /\ UNCHANGED late
  BY Typed DEF Write, Answered, Requesting, RunOK
<1>2. PICK p \in Profiles, named \in BOOLEAN :
        /\ Carried(op, p)
        /\ run' = [run EXCEPT ![e] =
             IF op.bucket = {} THEN Resolved(s)
             ELSE [s EXCEPT !.pc = "verify", !.op.profile = IF named THEN p ELSE ""]]
  BY DEF Write
<1>3. CASE op.bucket = {}
  <2>1. run' = [run EXCEPT ![e] = Settled(s, Nothing)]
    BY <1>2, <1>3 DEF Resolved
  <2> QED
    BY <1>1, <1>2, <2>1, ConstantParts, SettledMoves DEF Wrote
<1>4. CASE op.bucket # {}
  <2> DEFINE r == [s EXCEPT !.pc = "verify", !.op.profile = IF named THEN p ELSE ""]
  <2>1. s \in Runs /\ s.mode = run[e].mode /\ s.thrown = run[e].thrown /\ s.op = op
    BY SendingParts, <1>1
  <2>2. [op EXCEPT !.profile = IF named THEN p ELSE ""] \in Ops
    BY Typed DEF Ops
  <2>3. r \in Runs
    BY <2>1, <2>2 DEF Runs
  <2>4. /\ r.pc = "verify" /\ r.mode = run[e].mode /\ r.thrown = run[e].thrown
        /\ r.sent = s.sent /\ r.count = s.count
    BY <2>1 DEF Runs
  <2>5. run' = [run EXCEPT ![e] = r]
    BY <1>2, <1>4
  <2> HIDE DEF r
  <2> QED
    BY <1>1, <1>2, <2>3, <2>4, <2>5, GoesOnMoves DEF Active, Wrote
<1> QED
  BY <1>3, <1>4

LEMMA TooLargeRequest ==
  ASSUME IInv, NEW e \in Execs, WriteTooLarge(e)
  PROVE  (\E r : Sends(e, r)) /\ Wrote(e)
<1>1. /\ Requesting(e) /\ MaySend(e)
      /\ run' = [run EXCEPT ![e] = Fails(Sending(e), "output")]
  BY DEF WriteTooLarge, Answered, Requesting
<1>2. Wrote(e)
  BY DEF WriteTooLarge, Wrote
<1> QED
  BY <1>1, <1>2, FailsMoves DEF Classes

LEMMA RefusedRequest ==
  ASSUME IInv, NEW e \in Execs, WriteRefused(e)
  PROVE  (\E r : Sends(e, r)) /\ UNCHANGED <<store, late>>
<1>1. /\ Requesting(e) /\ MaySend(e) /\ UNCHANGED <<store, late>>
      /\ run' = [run EXCEPT ![e] = Fails(Sending(e), "http")]
  BY DEF WriteRefused, Answered, Requesting
<1> QED
  BY <1>1, FailsMoves DEF Kinds, Classes

LEMMA LostRequest ==
  ASSUME IInv, NEW e \in Execs, WriteLost(e)
  PROVE  (\E r : Sends(e, r)) /\ Lost(e)
<1>1. Requesting(e) /\ MaySend(e) /\ Lost(e)
  BY DEF WriteLost, Requesting, Lost
<1>2. PICK class \in FailuresNow(e) \cap {"http", "network", "timeout"} :
        run' = [run EXCEPT ![e] = Fails(Sending(e), class)]
  BY DEF WriteLost
<1>3. class \in Classes
  BY FailureClass, Typed DEF Runs
<1> QED
  BY <1>1, <1>2, <1>3, FailsMoves

LEMMA VerifyRequest ==
  ASSUME IInv, NEW e \in Execs, Verify(e)
  PROVE  (\E r : Sends(e, r)) /\ UNCHANGED <<store, late>>
<1>1. Requesting(e) /\ MaySend(e) /\ UNCHANGED <<store, late>>
  BY DEF Verify, Answered, Requesting
<1>2. \/ run' = [run EXCEPT ![e] = Fails(Sending(e), "http")]
      \/ run' = [run EXCEPT ![e] = Settled(Sending(e), Nothing)]
      \/ run' = [run EXCEPT ![e] = Settled(Sending(e), Invalid)]
  BY DEF Verify, Resolved
<1> QED
  BY <1>1, <1>2, FailsMoves, SettledMoves, ConstantParts, InvalidOK DEF Kinds, Classes

LEMMA RequestMoves ==
  ASSUME IInv, NEW e \in Execs, RequestStep(e)
  PROVE  /\ UNCHANGED <<store, late>> \/ Wrote(e) \/ Lost(e)
         /\ \/ \E r : Sends(e, r)
            \/ (\E r : Continues(e, r)) /\ UNCHANGED <<store, late>>
<1>1. CASE OverLimit(e)
  BY <1>1, OverLimitMoves DEF OverLimit
<1> QED
  BY <1>1, FailedRequest, ReadRequest, TargetRequest, PolicyRequest, WriteRequest,
     TooLargeRequest, RefusedRequest, LostRequest, VerifyRequest, Zenon DEF RequestStep

-----------------------------------------------------------------------------
(* The managed system. *)

\* A platform changes only together with the count of its changes.
StoreGrows ==
  /\ store' \in [Profiles -> Objects]
  /\ \A p \in Profiles :
       /\ store[p].moves \in Nat /\ store'[p].moves \in Nat
       /\ store[p].moves <= store'[p].moves
       /\ store'[p].moves = store[p].moves => store'[p].platform = store[p].platform

LEMMA SameStoreGrows ==
  ASSUME IInv, UNCHANGED store
  PROVE  StoreGrows
<1>1. \A p \in Profiles : store[p].moves \in Nat
  BY DEF IInv, Objects
<1> QED
  BY <1>1, Reflexive, Zenon DEF IInv, StoreGrows

LEMMA PersistedObject ==
  ASSUME NEW op \in Ops, NEW old \in Objects, NEW o \in Persisted(op, old)
  PROVE  /\ o \in Objects /\ old.moves <= o.moves
         /\ o.moves = old.moves => o.platform = old.platform
         /\ o.platform = IF op.platform = "" THEN old.platform ELSE op.platform
         /\ o.bucket \subseteq op.bucket \/ o.bucket = old.bucket
<1> DEFINE platform == IF op.platform = "" THEN old.platform ELSE op.platform
           moves == IF platform = old.platform THEN old.moves ELSE old.moves + 1
<1>1. PICK bucket \in (IF op.bucket = {} THEN {old.bucket, {}} ELSE SUBSET op.bucket) :
        o = [exists |-> TRUE, platform |-> platform, bucket |-> bucket, moves |-> moves]
  BY DEF Persisted
<1>2. /\ op.platform \in Platforms \cup {""} /\ op.bucket \subseteq Policies
      /\ old.platform \in Platforms \cup {""} /\ old.bucket \subseteq Policies
  BY DEF Ops, Objects
<1>3. old.moves \in Nat
  BY DEF Objects
<1>4. platform \in Platforms \cup {""} /\ bucket \subseteq Policies
  BY <1>1, <1>2
<1>5. moves \in Nat /\ old.moves <= moves /\ (moves = old.moves => platform = old.platform)
  <2>1. old.moves + 1 \in Nat /\ old.moves <= old.moves + 1 /\ old.moves + 1 # old.moves
    BY <1>3
  <2> QED
    BY <1>3, <2>1, Reflexive, Zenon
<1>6. o.platform = platform /\ o.bucket = bucket /\ o.moves = moves
  BY <1>1
<1>7. o \in Objects
  BY <1>1, <1>4, <1>5 DEF Objects
<1>8. bucket \subseteq op.bucket \/ bucket = old.bucket
  BY <1>1
<1> QED
  BY <1>5, <1>6, <1>7, <1>8

\* A write replaces one object.
LEMMA CarriedObject ==
  ASSUME IInv, NEW op \in Ops, NEW p \in Profiles, Carried(op, p)
  PROVE  \E o \in Objects :
           /\ store' = [store EXCEPT ![p] = o]
           /\ store[p].moves <= o.moves
           /\ o.moves = store[p].moves => o.platform = store[p].platform
           /\ \/ o \in Persisted(op, store[p]) /\ op.kind = "create"
              \/ o \in Persisted(op, store[p]) /\ op.kind = "update" /\ p = op.profile
              \/ o.bucket = {}
<1>1. store[p] \in Objects
  BY DEF IInv
<1>2. CASE op.kind = "delete"
  <2> DEFINE o == [Absent EXCEPT !.moves = store[p].moves + 1]
  <2>1. store' = [store EXCEPT ![p] = o]
    BY <1>2 DEF Carried
  <2>2. store[p].moves \in Nat
    BY <1>1 DEF Objects
  <2>3. store[p].moves + 1 \in Nat /\ store[p].moves <= store[p].moves + 1
        /\ store[p].moves + 1 # store[p].moves
    BY <2>2
  <2>4. o \in Objects /\ o.moves = store[p].moves + 1 /\ o.bucket = {}
    BY <2>3, ConstantParts DEF Absent, Objects
  <2> HIDE DEF o
  <2> QED
    BY <2>1, <2>3, <2>4
<1>3. CASE op.kind # "delete"
  <2>1. PICK o \in Persisted(op, store[p]) :
          /\ store' = [store EXCEPT ![p] = o]
          /\ op.kind = "create" \/ (op.kind = "update" /\ p = op.profile)
    BY <1>3 DEF Carried
  <2> QED
    BY <1>1, <2>1, PersistedObject
<1> QED
  BY <1>2, <1>3

LEMMA CarriedGrows ==
  ASSUME IInv, NEW op \in Ops, NEW p \in Profiles, Carried(op, p)
  PROVE  StoreGrows /\ \A q \in Profiles \ {p} : store'[q] = store[q]
<1>1. PICK o \in Objects :
         /\ store' = [store EXCEPT ![p] = o]
         /\ store[p].moves <= o.moves
         /\ o.moves = store[p].moves => o.platform = store[p].platform
  BY CarriedObject
<1>2. store \in [Profiles -> Objects] /\ store' \in [Profiles -> Objects]
  BY <1>1 DEF IInv
<1>3. \A q \in Profiles : store[q].moves \in Nat /\ store'[q].moves \in Nat
  BY <1>2 DEF Objects
<1>4. \A q \in Profiles \ {p} : store'[q] = store[q]
  BY <1>1, <1>2
<1>5. store'[p] = o
  BY <1>1, <1>2
<1> QED
  BY <1>1, <1>2, <1>3, <1>4, <1>5, Reflexive, Zenon DEF StoreGrows

-----------------------------------------------------------------------------
(* What a step of one execution leaves of the others. *)

LEMMA BasedKept ==
  ASSUME StoreGrows, NEW op \in Ops, Based(op, store)
  PROVE  Based(op, store')
<1> SUFFICES ASSUME op.kind = "update", op.platform = "", op.bucket # {}
             PROVE  /\ op.profile \in Profiles
                    /\ op.moves <= store'[op.profile].moves
                    /\ op.moves = store'[op.profile].moves => op.target = store'[op.profile].platform
  BY DEF Based
<1> DEFINE m == store[op.profile].moves
           n == store'[op.profile].moves
<1>1. /\ op.profile \in Profiles /\ op.moves <= m
      /\ op.moves = m => op.target = store[op.profile].platform
  BY DEF Based
<1>2. m \in Nat /\ n \in Nat /\ m <= n /\ (n = m => store'[op.profile].platform = store[op.profile].platform)
  BY <1>1 DEF StoreGrows
<1>3. op.moves \in Nat
  BY DEF Ops
<1> HIDE DEF m, n
<1>4. op.moves <= n /\ (op.moves = n => op.moves = m /\ n = m)
  BY <1>1, <1>2, <1>3, Between, Zenon
<1> QED
  BY <1>1, <1>2, <1>4 DEF m, n

LEMMA GoodKept ==
  ASSUME StoreGrows, NEW r, Good(r, store)
  PROVE  Good(r, store')
<1>1. r \in Runs /\ RunOK(r) /\ BasedOK(r, store) /\ r.op \in Ops
  BY DEF Good, Runs
<1>2. ASSUME r.pc = "target", r.op.kind = "update"
      PROVE  r.op.profile \in Profiles /\ r.op.moves <= store'[r.op.profile].moves
  <2>1. /\ r.op.profile \in Profiles /\ r.op.moves <= store[r.op.profile].moves
        /\ store[r.op.profile].moves \in Nat /\ store'[r.op.profile].moves \in Nat
        /\ store[r.op.profile].moves <= store'[r.op.profile].moves
    BY <1>1, <1>2 DEF BasedOK, StoreGrows
  <2>2. r.op.moves \in Nat
    BY <1>1 DEF Ops
  <2> QED
    BY <2>1, <2>2
<1>3. r.pc \in {"policies", "write"} => Based(r.op, store')
  BY <1>1, BasedKept DEF BasedOK
<1> QED
  BY <1>1, <1>2, <1>3 DEF Good, BasedOK

\* Writes that were in order stay so while the execution sends more or ends.
LEMMA LateKept ==
  ASSUME StoreGrows, NEW ops \in SUBSET Ops, NEW r, NEW t, LateOK(ops, r, store),
         r.sent \in Nat, t.sent \in Nat,
         t.pc # "done" => r.pc # "done" /\ r.sent <= t.sent
  PROVE  LateOK(ops, t, store')
<1>1. \A op \in ops : Named(op) /\ Checked(op) /\ Based(op, store')
  BY BasedKept DEF LateOK
<1>2. ASSUME NEW op \in ops, t.pc # "done"
      PROVE  op.n <= t.sent
  <2>1. op.n \in Nat /\ op.n <= r.sent /\ r.sent <= t.sent
    BY <1>2 DEF LateOK, Ops
  <2> QED
    BY <2>1
<1> QED
  BY <1>1, <1>2 DEF LateOK

\* Others keep what they have.
LEMMA OthersKept ==
  ASSUME IInv, StoreGrows, NEW f \in Execs
  PROVE  Good(run[f], store') /\ LateOK(late[f], run[f], store')
<1>1. Good(run[f], store) /\ LateOK(late[f], run[f], store) /\ late[f] \in SUBSET Ops
  BY DEF IInv
<1> QED
  BY <1>1, GoodKept, LateKept, Typed, Zenon

LEMMA ProgressKeeps ==
  ASSUME IInv, NEW e \in Execs, NEW r, Progress(e, r), StoreGrows, UNCHANGED late
  PROVE  IInv'
<1>1. run' = [run EXCEPT ![e] = r] /\ r \in Runs /\ Good(r, store)
  BY DEF Progress, Good
<1>2. run' \in [Execs -> Runs] /\ run'[e] = r /\ \A f \in Execs \ {e} : run'[f] = run[f]
  BY <1>1 DEF IInv
<1>3. store' \in [Profiles -> Objects] /\ late' \in [Execs -> SUBSET Ops]
  BY DEF StoreGrows, IInv
<1>4. Good(r, store')
  BY <1>1, GoodKept
<1>5. r.sent \in Nat
  BY <1>1, Bounds DEF Runs
<1>6. LateOK(late[e], r, store')
  <2>1. LateOK(late[e], run[e], store) /\ late[e] \in SUBSET Ops
    BY DEF IInv
  <2>2. r.pc # "done" => run[e].pc # "done" /\ run[e].sent <= r.sent
    BY DEF Progress
  <2> QED
    BY <1>5, <2>1, <2>2, Typed, LateKept
<1>7. \A f \in Execs : Good(run'[f], store') /\ LateOK(late'[f], run'[f], store')
  BY <1>2, <1>4, <1>6, OthersKept
<1> QED
  BY <1>2, <1>3, <1>7 DEF IInv

\* A write is lost.
LEMMA LostKeeps ==
  ASSUME IInv, NEW e \in Execs, NEW r, Sends(e, r), Lost(e)
  PROVE  IInv'
<1> DEFINE op == [run[e].op EXCEPT !.n = run[e].sent + 1]
           ops == late[e] \cup {op}
<1>1. run' = [run EXCEPT ![e] = r] /\ r \in Runs /\ Good(r, store) /\ r.sent = run[e].sent + 1
  BY DEF Sends, Progress, Good
<1>2. run' \in [Execs -> Runs] /\ run'[e] = r /\ \A f \in Execs \ {e} : run'[f] = run[f]
  BY <1>1 DEF IInv
<1>3. StoreGrows
  BY SameStoreGrows DEF Lost
<1>4. run[e].sent + 1 \in Nat /\ run[e].sent + 1 <= run[e].sent + 1
  BY Typed
<1>5. /\ op \in Ops /\ op.n = run[e].sent + 1 /\ op.kind = run[e].op.kind
      /\ op.profile = run[e].op.profile /\ op.platform = run[e].op.platform
      /\ op.bucket = run[e].op.bucket /\ op.target = run[e].op.target
      /\ op.moves = run[e].op.moves
  BY <1>4, Typed DEF Ops
<1>6. late' = [late EXCEPT ![e] = ops]
  BY DEF Lost, IInv
<1> HIDE DEF op
<1>7. Named(op) /\ Checked(op) /\ Based(op, store)
  <2>1. Named(run[e].op) /\ Checked(run[e].op) /\ Based(run[e].op, store)
    BY Typed DEF Lost, RunOK, BasedOK
  <2> QED
    BY <1>5, <2>1 DEF Named, Checked, Based
<1>8. late[e] \in SUBSET Ops /\ LateOK(late[e], run[e], store) /\ run[e].pc # "done"
  BY DEF IInv, Lost
<1>9. \A o \in late[e] : o.n <= r.sent /\ o.n # op.n
  <2> SUFFICES ASSUME NEW o \in late[e] PROVE o.n <= r.sent /\ o.n # op.n
    OBVIOUS
  <2>1. o.n \in Nat /\ o.n <= run[e].sent
    BY <1>8 DEF LateOK, Ops
  <2> QED
    BY <1>1, <1>5, <2>1, Typed
<1>10. LateOK(ops, r, store')
  BY <1>1, <1>3, <1>4, <1>5, <1>7, <1>8, <1>9 DEF LateOK, Lost
<1>11. late' \in [Execs -> SUBSET Ops] /\ late'[e] = ops /\ \A f \in Execs \ {e} : late'[f] = late[f]
  BY <1>5, <1>6 DEF IInv
<1>12. Good(r, store')
  BY <1>1, <1>3, GoodKept
<1>13. \A f \in Execs : Good(run'[f], store') /\ LateOK(late'[f], run'[f], store')
  BY <1>2, <1>3, <1>10, <1>11, <1>12, OthersKept
<1>14. store' \in [Profiles -> Objects]
  BY <1>3 DEF StoreGrows
<1> QED
  BY <1>2, <1>11, <1>13, <1>14 DEF IInv

LEMMA CarryOutKeeps ==
  ASSUME IInv, NEW e \in Execs, CarryOut(e)
  PROVE  IInv'
<1>1. PICK op \in late[e], p \in Profiles :
        Carried(op, p) /\ late' = [late EXCEPT ![e] = @ \ {op}] /\ UNCHANGED run
  BY DEF CarryOut
<1>2. StoreGrows
  BY <1>1, CarriedGrows DEF IInv
<1>3. /\ late' \in [Execs -> SUBSET Ops] /\ late'[e] = late[e] \ {op}
      /\ \A f \in Execs \ {e} : late'[f] = late[f]
  BY <1>1 DEF IInv
<1>4. LateOK(late[e] \ {op}, run[e], store')
  BY <1>2, OthersKept DEF LateOK
<1>5. \A f \in Execs : Good(run'[f], store') /\ LateOK(late'[f], run'[f], store')
  BY <1>1, <1>2, <1>3, <1>4, OthersKept
<1>6. store' \in [Profiles -> Objects] /\ run' \in [Execs -> Runs]
  BY <1>1, <1>2 DEF StoreGrows, IInv
<1> QED
  BY <1>3, <1>5, <1>6 DEF IInv

LEMMA InitIInv == Init => IInv
<1> SUFFICES ASSUME Init PROVE IInv
  OBVIOUS
<1>1. \A o \in [exists : {TRUE}, platform : Platforms \cup {""}, bucket : AtStart, moves : {0}] :
        o \in Objects
  BY Zeros, TargetAssumption DEF Objects
<1>2. store \in [Profiles -> Objects]
  BY <1>1, ConstantParts DEF Init
<1>3. Good(Idle, store) /\ Idle \in Runs
  BY IdleGood DEF Good
<1>4. run = [e \in Execs |-> Idle] /\ late = [e \in Execs |-> {}]
  BY DEF Init
<1>5. \A e \in Execs : Good(run[e], store) /\ LateOK(late[e], run[e], store)
  BY <1>3, <1>4 DEF LateOK
<1> QED
  BY <1>2, <1>3, <1>4, <1>5 DEF IInv

LEMMA NextIInv == IInv /\ [Next]_vars => IInv'
<1> SUFFICES ASSUME IInv, [Next]_vars PROVE IInv'
  OBVIOUS
<1>1. ASSUME NEW e \in Execs, Begin(e) PROVE IInv'
  BY <1>1, BeginMoves, SameStoreGrows, ProgressKeeps DEF Begin
<1>2. ASSUME NEW e \in Execs, Call(e) PROVE IInv'
  BY <1>2, CallMoves, SameStoreGrows, ProgressKeeps DEF Continues
<1>3. ASSUME NEW e \in Execs, RequestStep(e) PROVE IInv'
  <2>1. CASE UNCHANGED <<store, late>>
    BY <1>3, <2>1, RequestMoves, SameStoreGrows, ProgressKeeps DEF Continues, Sends
  <2>2. CASE Wrote(e)
    <3>1. StoreGrows /\ UNCHANGED late
      BY <2>2, Typed, CarriedGrows DEF Wrote
    <3> QED
      BY <1>3, <3>1, RequestMoves, ProgressKeeps DEF Continues, Sends
  <2>3. CASE Lost(e)
    <3>1. PICK r : Sends(e, r) \/ (Continues(e, r) /\ UNCHANGED <<store, late>>)
      BY <1>3, RequestMoves
    <3> QED
      BY <2>1, <2>3, <3>1, LostKeeps
  <2> QED
    BY <1>3, <2>1, <2>2, <2>3, RequestMoves
<1>4. ASSUME NEW e \in Execs, CarryOut(e) PROVE IInv'
  BY <1>4, CarryOutKeeps
<1>5. ASSUME NEW e \in Execs, End(e) PROVE IInv'
  <2>1. UNCHANGED <<store, late>>
    BY <1>5 DEF End, Rethrow, LetThrough, Wrap, ThrowAs, Throw, Return, Close
  <2> QED
    BY <1>5, <2>1, EndMoves, SameStoreGrows, ProgressKeeps DEF Ends
<1>6. ASSUME NEW e \in Execs, NEW how \in {"deadline", "canceled"}, ContextEnds(e, how) PROVE IInv'
  BY <1>6, ContextMoves, SameStoreGrows, ProgressKeeps DEF Continues, ContextEnds
<1>7. CASE UNCHANGED vars
  BY <1>7 DEF vars, IInv
<1> QED
  BY <1>1, <1>2, <1>3, <1>4, <1>5, <1>6, <1>7 DEF Next

\* The inductive invariant holds in every reachable state.
THEOREM Inductive == Spec => []IInv
<1>1. Init => IInv
  BY InitIInv
<1>2. IInv /\ [Next]_vars => IInv'
  BY NextIInv
<1> QED
  BY <1>1, <1>2, PTL DEF Spec

\* Every variable keeps its type; in particular no execution sends more than
\* maxAPICalls requests, whatever it does between them (validator.go).
THEOREM TypeCorrect == Spec => []TypeOK
<1>1. IInv => TypeOK
  BY DEF IInv, TypeOK
<1> QED
  BY <1>1, Inductive, PTL

-----------------------------------------------------------------------------
(* The preflight. *)

LEMMA CarriedFits ==
  ASSUME IInv, NEW op \in Ops, Named(op), Checked(op), Based(op, store),
         NEW p \in Profiles, Carried(op, p), NEW q \in Profiles,
         store'[q].bucket # store[q].bucket, ~Fits(store'[q])
  PROVE  op.profile = q /\ op.platform = "" /\ op.moves # store[q].moves
<1>1. PICK o \in Objects :
         /\ store' = [store EXCEPT ![p] = o]
         /\ o.moves = store[p].moves => o.platform = store[p].platform
         /\ \/ o \in Persisted(op, store[p]) /\ op.kind = "create"
            \/ o \in Persisted(op, store[p]) /\ op.kind = "update" /\ p = op.profile
            \/ o.bucket = {}
  BY CarriedObject
<1>2. q = p /\ store'[q] = o /\ store[p] \in Objects
  BY <1>1 DEF IInv
<1>3. o.bucket # {}
  BY <1>2 DEF Fits
<1>4. /\ o.platform = IF op.platform = "" THEN store[p].platform ELSE op.platform
      /\ o.bucket \subseteq op.bucket
  <2>1. o \in Persisted(op, store[p]) /\ store[p] \in Objects
    BY <1>1, <1>2, <1>3
  <2>2. /\ o.platform = IF op.platform = "" THEN store[p].platform ELSE op.platform
        /\ o.bucket \subseteq op.bucket \/ o.bucket = store[p].bucket
    BY <2>1, PersistedObject
  <2> QED
    BY <1>2, <2>2
<1>5. op.bucket # {}
  BY <1>3, <1>4
<1>6. o.platform # op.target
  <2> SUFFICES ASSUME o.platform = op.target PROVE FALSE
    OBVIOUS
  <2>1. Fits(o)
    BY <1>4 DEF Checked, Compatible, Fits
  <2> QED
    BY <1>2, <2>1
<1>7. op.platform = ""
  BY <1>4, <1>6 DEF Named
<1>8. op.kind = "update" /\ p = op.profile
  BY <1>1, <1>3, <1>5, <1>7 DEF Named
<1>9. op.moves # store[p].moves
  BY <1>4, <1>5, <1>6, <1>7, <1>8 DEF Based
<1> QED
  BY <1>2, <1>7, <1>8, <1>9

\* No write, late or not, gives a profile policies that do not fit its platform,
\* unless the platform was changed since the call that writes began
\* (preflightMutation, server_profile_verification.go).
THEOREM WrittenAsCheckedHolds == Spec => WrittenAsChecked
<1>1. ASSUME IInv, NEW e \in Execs, Wrote(e) PROVE Respects
  <2>1. PICK p \in Profiles : Carried(run[e].op, p)
    BY <1>1 DEF Wrote
  <2>2. run[e].op \in Ops /\ Named(run[e].op) /\ Checked(run[e].op) /\ Based(run[e].op, store)
    BY <1>1, Typed DEF Wrote, RunOK, BasedOK
  <2>3. run[e].op \in Pending
    <3>1. e \in {f \in Execs : run[f].pc = "write"}
      BY <1>1 DEF Wrote
    <3>2. run[e].op \in {run[f].op : f \in {g \in Execs : run[g].pc = "write"}}
      BY <3>1
    <3> QED
      BY <3>2 DEF Pending
  <2> QED
    BY <1>1, <2>1, <2>2, <2>3, CarriedFits DEF Respects
<1>2. ASSUME IInv, NEW e \in Execs, CarryOut(e) PROVE Respects
  <2>1. PICK op \in late[e], p \in Profiles : Carried(op, p)
    BY <1>2 DEF CarryOut
  <2>2. op \in Ops /\ Named(op) /\ Checked(op) /\ Based(op, store)
    BY <1>2 DEF IInv, LateOK
  <2>3. op \in Pending
    BY DEF Pending
  <2> QED
    BY <1>2, <2>1, <2>2, <2>3, CarriedFits DEF Respects
<1>3. IInv /\ [Next]_vars => [Respects]_vars
  <2> SUFFICES ASSUME IInv, Next, store' # store PROVE Respects
    BY DEF vars, Respects
  <2>1. PICK e \in Execs :
          \/ Begin(e) \/ Call(e) \/ RequestStep(e) \/ CarryOut(e) \/ End(e)
          \/ ContextEnds(e, "deadline") \/ ContextEnds(e, "canceled")
    BY DEF Next
  <2>2. CASE Begin(e) \/ Call(e) \/ End(e) \/ ContextEnds(e, "deadline") \/ ContextEnds(e, "canceled")
    BY <2>2, CallMoves DEF Begin, End, Rethrow, LetThrough, Wrap, ThrowAs, Throw, Return, Close, ContextEnds
  <2>3. CASE RequestStep(e)
    BY <2>3, <1>1, RequestMoves DEF Lost
  <2> QED
    BY <1>2, <2>1, <2>2, <2>3
<1> QED
  BY <1>3, Inductive, PTL DEF Spec, WrittenAsChecked

-----------------------------------------------------------------------------
(* Classes of errors. *)

\* While the context is open, the call limit is answered as such wherever it was
\* met and however the script passes the error on; a failure of the read or the
\* write itself for which rejectionValue has a kind is answered as its class if
\* the script lets it through, a timeout also if it wraps it; and whatever loses
\* its class becomes a validation error (api_helper.go:126, qjs_executor.go:299).
THEOREM ClassSurvivesHolds == Spec => ClassSurvives
<1>1. ASSUME IInv, NEW e \in Execs, run[e].ctx = "open", Rethrow(e)
      PROVE  KeepsClass(e)
  <2> DEFINE thrown == run[e].thrown
             answer == run'[e].answer
  <2>1. thrown \in Thrown /\ Traceable(thrown) /\ thrown.kind # "none"
    BY <1>1, Typed DEF Rethrow, LetThrough, Wrap, ThrowAs
  <2>2. ASSUME NEW kind, ThrowAs(e, kind)
        PROVE  answer = ClassOf(kind, thrown.says)
    BY <1>1, <2>2 DEF ThrowAs, Done, IInv, Idle
  <2>3. LetThrough(e) => answer = ClassOf(thrown.kind, thrown.says)
    BY <2>2 DEF LetThrough
  <2>4. answer = ClassOf(thrown.kind, thrown.says) \/ answer = ClassOf("plain", thrown.says)
    BY <1>1, <2>2 DEF Rethrow, LetThrough, Wrap
  <2> HIDE DEF thrown, answer
  <2>5. thrown.cause = "limit" => answer = "limit"
    BY <2>1, <2>4 DEF Traceable, ClassOf
  <2>6. ASSUME thrown.direct, thrown.cause \in Kinds, LetThrough(e) \/ thrown.cause = "timeout"
        PROVE  answer = thrown.cause
    <3>1. thrown.kind = thrown.cause /\ (thrown.cause = "timeout" => thrown.says = "timeout")
      BY <2>1, <2>6 DEF Traceable
    <3>2. CASE LetThrough(e)
      BY <2>3, <2>6, <3>1, <3>2 DEF ClassOf, Kinds
    <3>3. CASE thrown.cause = "timeout"
      BY <2>4, <3>1, <3>3 DEF ClassOf
    <3> QED
      BY <2>6, <3>2, <3>3
  <2>7. answer \in {thrown.cause, "validation"}
    BY <2>1, <2>4 DEF Traceable, ClassOf
  <2> QED
    BY <2>5, <2>6, <2>7 DEF KeepsClass, thrown, answer
<1>2. IInv /\ [Next]_vars => [\A e \in Execs : KeepsClass(e)]_vars
  BY <1>1 DEF KeepsClass
<1> QED
  BY <1>2, Inductive, PTL DEF Spec, ClassSurvives

-----------------------------------------------------------------------------
(* Refinement of ToolCall. *)

LEMMA OneCallMoves ==
  ASSUME IInv, NEW e \in Execs, NEW r, run' = [run EXCEPT ![e] = r]
  PROVE  /\ ToolCalls[e] = CallOf(run[e])
         /\ ToolCalls' = [ToolCalls EXCEPT ![e] = CallOf(r)]
         /\ ToolCalls'[e] = CallOf(r)
  BY DEF IInv, ToolCalls

LEMMA ActiveCall ==
  ASSUME NEW r, Active(r)
  PROVE  CallOf(r) = [status |-> "running", mode |-> r.mode, sent |-> r.sent]
  BY DEF Active, CallOf

LEMMA Stutters ==
  ASSUME IInv, NEW e \in Execs, NEW r, Continues(e, r), UNCHANGED <<store, late>>
  PROVE  UNCHANGED <<store, Owed, ToolCalls>>
<1>1. CallOf(r) = CallOf(run[e])
  BY ActiveCall DEF Continues
<1>2. ToolCalls' = [ToolCalls EXCEPT ![e] = ToolCalls[e]]
  BY <1>1, OneCallMoves DEF Continues, Progress
<1> QED
  BY <1>2 DEF ToolCalls, Owed

LEMMA OwedUnchanged == UNCHANGED late => UNCHANGED Owed
  BY DEF Owed

LEMMA SendsRefines ==
  ASSUME IInv, NEW e \in Execs, NEW r, Sends(e, r),
         UNCHANGED <<store, late>> \/ Wrote(e) \/ Lost(e)
  PROVE  Tool!Request(e)
<1>1. /\ ToolCalls[e] = [status |-> "running", mode |-> run[e].mode, sent |-> run[e].sent]
      /\ ToolCalls' = [ToolCalls EXCEPT ![e] =
                         [status |-> "running", mode |-> run[e].mode, sent |-> run[e].sent + 1]]
      /\ ToolCalls'[e] = [status |-> "running", mode |-> run[e].mode, sent |-> run[e].sent + 1]
  <2>1. run' = [run EXCEPT ![e] = r]
    BY DEF Sends, Progress
  <2>2. /\ CallOf(run[e]) = [status |-> "running", mode |-> run[e].mode, sent |-> run[e].sent]
        /\ CallOf(r) = [status |-> "running", mode |-> run[e].mode, sent |-> run[e].sent + 1]
    BY ActiveCall DEF Sends
  <2> QED
    BY <2>1, <2>2, OneCallMoves, Zenon
<1>2. ToolCalls[e].status = "running" /\ ToolCalls[e].sent < MaxAPICalls
  BY <1>1 DEF Sends
<1>3. ToolCalls' = [ToolCalls EXCEPT ![e].sent = @ + 1]
  <2>1. [ToolCalls[e] EXCEPT !.sent = ToolCalls[e].sent + 1]
          = [status |-> "running", mode |-> run[e].mode, sent |-> run[e].sent + 1]
    BY <1>1
  <2> QED
    BY <1>1, <2>1, Zenon
<1>4. Wrote(e) \/ Lost(e) => ToolCalls[e].mode = "mutate"
  <2>1. Wrote(e) \/ Lost(e) => run[e].mode = "mutate"
    BY Typed DEF Wrote, Lost, RunOK, Runs
  <2>2. ToolCalls[e].mode = run[e].mode
    BY <1>1
  <2> QED
    BY <2>1, <2>2
<1>5. \/ UNCHANGED <<store, Owed>>
      \/ ToolCalls[e].mode = "mutate" /\ Tool!ChangesOneObject /\ UNCHANGED Owed
      \/ /\ ToolCalls[e].mode = "mutate"
         /\ Owed' = [Owed EXCEPT ![e] = @ \cup {ToolCalls'[e].sent}]
         /\ UNCHANGED store
  <2>1. CASE UNCHANGED <<store, late>>
    BY <2>1, OwedUnchanged
  <2>2. CASE Wrote(e)
    <3>1. PICK p \in Profiles : \A q \in Profiles \ {p} : store'[q] = store[q]
      BY <2>2, Typed, CarriedGrows DEF Wrote
    <3> QED
      BY <1>4, <2>2, <3>1, OwedUnchanged DEF Tool!ChangesOneObject, Wrote
  <2>3. CASE Lost(e)
    <3> DEFINE op == [run[e].op EXCEPT !.n = run[e].sent + 1]
    <3>1. op.n = run[e].sent + 1
      BY Typed DEF Ops
    <3>2. late' = [late EXCEPT ![e] = late[e] \cup {op}]
      BY <2>3 DEF Lost, IInv
    <3> HIDE DEF op
    <3>3. {o.n : o \in late[e] \cup {op}} = {o.n : o \in late[e]} \cup {run[e].sent + 1}
      BY <3>1
    <3>4. Owed' = [Owed EXCEPT ![e] = Owed[e] \cup {run[e].sent + 1}]
      BY <3>2, <3>3 DEF Owed, IInv
    <3>5. ToolCalls'[e].sent = run[e].sent + 1
      BY <1>1
    <3> QED
      BY <1>4, <2>3, <3>4, <3>5, Zenon DEF Lost
  <2> QED
    BY <2>1, <2>2, <2>3
<1> QED
  BY <1>2, <1>3, <1>5, Zenon DEF Tool!Request

LEMMA CarryOutRefines ==
  ASSUME IInv, NEW e \in Execs, CarryOut(e)
  PROVE  Tool!CarryOut(e)
<1>1. PICK op \in late[e], p \in Profiles :
        Carried(op, p) /\ late' = [late EXCEPT ![e] = @ \ {op}] /\ UNCHANGED run
  BY DEF CarryOut
<1>2. \A o \in late[e] : o.n = op.n => o = op
  BY DEF IInv, LateOK
<1>3. {o.n : o \in late[e] \ {op}} = {o.n : o \in late[e]} \ {op.n}
  BY <1>2
<1>4. Owed' = [Owed EXCEPT ![e] = Owed[e] \ {op.n}] /\ op.n \in Owed[e]
  BY <1>1, <1>3 DEF Owed, IInv
<1>5. op \in Ops
  BY DEF IInv
<1>6. Tool!ChangesOneObject
  BY <1>1, <1>5, CarriedGrows DEF Tool!ChangesOneObject
<1>7. UNCHANGED ToolCalls
  BY <1>1 DEF ToolCalls
<1> QED
  BY <1>4, <1>6, <1>7 DEF Tool!CarryOut

\* Calls, preflight, lost writes, limits and deadlines implement ToolCall: every
\* request is charged, a query call changes nothing, an execution that ended
\* sends nothing, and a lost write is carried out once at most.
THEOREM Refines == Spec => ImplementsToolCall
<1>1. Init => Tool!Init
  <2> SUFFICES ASSUME Init PROVE Tool!Init
    OBVIOUS
  <2>1. Owed = [e \in Execs |-> {}]
    BY DEF Owed, Init
  <2>2. CallOf(Idle) = Tool!Call("idle", "query")
    BY DEF CallOf, Idle, Tool!Call
  <2>3. ToolCalls = [e \in Execs |-> Tool!Call("idle", "query")]
    BY <2>2 DEF ToolCalls, Init
  <2> QED
    BY <2>1, <2>3 DEF Tool!Init
<1>2. IInv /\ [Next]_vars => [Tool!Next]_<<store, Owed, ToolCalls>>
  <2> SUFFICES ASSUME IInv, [Next]_vars
               PROVE  [Tool!Next]_<<store, Owed, ToolCalls>>
    OBVIOUS
  <2>1. ASSUME NEW e \in Execs, Begin(e) PROVE Tool!Begin(e)
    <3>1. PICK r : /\ Progress(e, r) /\ run[e] = Idle
                   /\ r.sent = 0 /\ r.pc = "script" /\ r.mode \in {"query", "mutate"}
      BY <2>1, BeginMoves
    <3>6. /\ ToolCalls[e] = CallOf(run[e])
          /\ ToolCalls' = [ToolCalls EXCEPT ![e] = CallOf(r)]
      BY <3>1, OneCallMoves, Zenon DEF Progress
    <3>2. ToolCalls[e].status = "idle"
      BY <3>1, <3>6 DEF CallOf, Idle
    <3>3. CallOf(r) = Tool!Call("running", r.mode)
      BY <3>1, ActiveCall DEF Active, Tool!Call
    <3>4. \E mode \in {"query", "mutate"} :
            ToolCalls' = [ToolCalls EXCEPT ![e] = Tool!Call("running", mode)]
      BY <3>1, <3>3, <3>6, Zenon
    <3>5. UNCHANGED <<store, Owed>>
      BY <2>1, OwedUnchanged DEF Begin
    <3> QED
      BY <3>2, <3>4, <3>5, Zenon DEF Tool!Begin
  <2>2. ASSUME NEW e \in Execs, Call(e) PROVE UNCHANGED <<store, Owed, ToolCalls>>
    BY <2>2, CallMoves, Stutters
  <2>3. ASSUME NEW e \in Execs, RequestStep(e)
        PROVE  Tool!Request(e) \/ UNCHANGED <<store, Owed, ToolCalls>>
    BY <2>3, RequestMoves, SendsRefines, Stutters
  <2>4. ASSUME NEW e \in Execs, End(e) PROVE Tool!Answer(e)
    <3>1. PICK r : Ends(e, r)
      BY <2>4, EndMoves
    <3>2. CallOf(r) = Tool!Call("answered", "query")
      BY <3>1 DEF Ends, CallOf, Tool!Call
    <3>6. /\ ToolCalls[e] = CallOf(run[e])
          /\ ToolCalls' = [ToolCalls EXCEPT ![e] = CallOf(r)]
      BY <3>1, OneCallMoves, Zenon DEF Ends, Progress
    <3>3. ToolCalls[e].status = "running"
      BY <3>1, <3>6, ActiveCall DEF Ends
    <3>4. ToolCalls' = [ToolCalls EXCEPT ![e] = Tool!Call("answered", "query")]
      BY <3>2, <3>6, Zenon
    <3>5. UNCHANGED <<store, late>>
      BY <2>4 DEF End, Rethrow, LetThrough, Wrap, ThrowAs, Throw, Return, Close
    <3> QED
      BY <3>3, <3>4, <3>5, OwedUnchanged, Zenon DEF Tool!Answer
  <2>5. ASSUME NEW e \in Execs, NEW how \in {"deadline", "canceled"}, ContextEnds(e, how)
        PROVE  UNCHANGED <<store, Owed, ToolCalls>>
    <3>1. UNCHANGED <<store, late>>
      BY <2>5 DEF ContextEnds
    <3> QED
      BY <2>5, <3>1, ContextMoves, Stutters
  <2>6. CASE UNCHANGED vars
    BY <2>6 DEF vars, Owed, ToolCalls
  <2> QED
    BY <2>1, <2>2, <2>3, <2>4, <2>5, <2>6, CarryOutRefines DEF Next, Tool!Next
<1> QED
  BY <1>1, <1>2, Inductive, PTL DEF Spec, ImplementsToolCall, Tool!Spec, Tool!vars

=============================================================================
