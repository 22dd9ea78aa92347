----------------------------- MODULE SdkBridge -----------------------------
(***************************************************************************)
(* sandbox/validator.go and sandbox/server_profile_verification.go: what   *)
(* an SDK call of the submitted JavaScript does to the managed system, and *)
(* sandbox/qjs_executor.go: how the execution ends.                        *)
(*                                                                         *)
(* An execution runs its SDK calls one after the other (the host function  *)
(* returns before the script goes on); several executions run at the same  *)
(* time and share the managed system.  A mutate call that writes a server  *)
(* profile with a policy bucket reads the profile and the policies first,  *)
(* writes, and reads the profile back.  Every request is a step, in which  *)
(* the managed system acts and its answer arrives; a write whose answer is *)
(* lost may be carried out later or never.                                 *)
(*                                                                         *)
(* The managed system is external: server profiles with a target platform  *)
(* and a policy bucket, policies that are made for one platform or for any *)
(* ("").                                                                   *)
(***************************************************************************)
EXTENDS Naturals

CONSTANTS
  Execs,        \* concurrent executions of query and mutate
  Profiles,     \* the server profiles there can be
  Policies,
  Resolvable,   \* policies whose object type maps to an API path
  Platforms,
  PolicyTarget, \* policy to the platform it is made for, or ""
  MaxAPICalls,  \* Config.MaxAPICalls
  AtStart,      \* bound: the policy buckets the profiles start with
  MaxCalls,     \* bound: SDK calls of an execution
  Failures      \* how a request may fail for reasons of its own

ASSUME TargetAssumption ==
  /\ "" \notin Platforms \cup Profiles
  /\ Resolvable \subseteq Policies
  /\ PolicyTarget \in [Policies -> Platforms \cup {""}]
  /\ AtStart \subseteq SUBSET Policies

ASSUME BoundsAssumption == {MaxAPICalls, MaxCalls} \subseteq Nat

\* The classes of errors rejectionValue has a kind for, and those of a request:
\* an answer beyond the size limit, and what fails inside the client.
Kinds == {"auth", "http", "network", "timeout", "limit"}
Classes == Kinds \cup {"output", "internal"}

ASSUME FailuresAssumption == Failures \subseteq Classes \ {"limit"}

VARIABLES
  store,      \* the managed system: profile to its platform and policy bucket
  late,       \* per execution: writes without an answer, not carried out so far
  run         \* per execution: what it is doing

vars == <<store, late, run>>

\* "moves" is history: how often the platform of the profile changed.
Objects == [exists : BOOLEAN, platform : Platforms \cup {""}, bucket : SUBSET Policies, moves : Nat]
Absent == [exists |-> FALSE, platform |-> "", bucket |-> {}, moves |-> 0]

\* A rejection as the script sees it: its kind, or "plain" for an object with a
\* message only, and the phrase in the message.
Rejected(kind, says) == [kind |-> kind, says |-> says]

\* What a call threw, with its history: the class of the cause, and whether that
\* was met by the read or the write itself.
Because(rejected, class, direct) ==
  [kind |-> rejected.kind, says |-> rejected.says, cause |-> class, direct |-> direct]

Nothing == Because(Rejected("none", ""), "none", FALSE)

\* What does not compile, does not fit or was not persisted as written.
Invalid == Because(Rejected("plain", ""), "validation", FALSE)

\* A compiled profile write.  "profile" is the one its path or the answer names,
\* "platform" the body's TargetPlatform, "target" the platform the preflight
\* found, n the number of the request that writes; "moves" is history, those of
\* the profile when the call began.
NoOp == [kind |-> "none", profile |-> "", platform |-> "", bucket |-> {}, target |-> "",
         n |-> 0, moves |-> 0]

Idle == [pc |-> "idle", mode |-> "query", ctx |-> "open", calls |-> 0, count |-> 0, sent |-> 0,
         op |-> NoOp, todo |-> {}, thrown |-> Nothing, answer |-> "none"]

Init ==
  /\ store \in [Profiles -> {Absent} \cup [exists : {TRUE}, platform : Platforms \cup {""},
                                         bucket : AtStart, moves : {0}]]
  /\ late = [e \in Execs |-> {}]
  /\ run = [e \in Execs |-> Idle]

-----------------------------------------------------------------------------
(* Execute begins and the script calls an SDK method. *)

Begin(e) ==
  /\ run[e].pc = "idle"
  /\ \E mode \in {"query", "mutate"} :
       run' = [run EXCEPT ![e].pc = "script", ![e].mode = mode]
  /\ UNCHANGED <<store, late>>

\* The script calls again; it caught what the last call threw.
Calls(e) == run[e].pc = "script" /\ run[e].calls < MaxCalls

Enter(e, label, op, todo, thrown) ==
  run' = [run EXCEPT ![e].pc = label, ![e].calls = @ + 1, ![e].op = op,
                     ![e].todo = todo, ![e].thrown = thrown]

\* A write in query mode gets an offline report and no request.
CallOffline(e) ==
  /\ Calls(e)
  /\ run[e].mode = "query"
  /\ Enter(e, "script", NoOp, {}, Nothing)
  /\ UNCHANGED <<store, late>>

\* compileOperation rejects what does not compile or is not for this mode.  A body
\* that fails the local validation is sent all the same in mutate mode.
CallRejected(e) ==
  /\ Calls(e)
  /\ Enter(e, "script", NoOp, {}, Invalid)
  /\ UNCHANGED <<store, late>>

\* A GET, or in query mode the POST of a telemetry query: one request.
CallRead(e) ==
  /\ Calls(e)
  /\ Enter(e, "read", NoOp, {}, Nothing)
  /\ UNCHANGED <<store, late>>

\* Mutant of Preflight: an update that names no platform is not checked.
PreflightNamedOnly(e, op) ==
  LET checked == op.bucket \cap Resolvable IN
  Enter(e, IF checked = {} \/ op.platform = "" THEN "write" ELSE "policies",
        op, IF op.platform = "" THEN {} ELSE checked, Nothing)

\* preflightMutation: where a compiled write goes on.
Preflight(e, op) ==
  LET checked == op.bucket \cap Resolvable IN
  Enter(e, IF op.bucket # {} /\ op.platform = "" THEN "target"
           ELSE IF checked = {} THEN "write" ELSE "policies",
        op, IF op.platform = "" THEN {} ELSE checked, Nothing)

CallDelete(e) ==
  /\ Calls(e)
  /\ run[e].mode = "mutate"
  /\ \E p \in Profiles : Enter(e, "write", [NoOp EXCEPT !.kind = "delete", !.profile = p], {}, Nothing)
  /\ UNCHANGED <<store, late>>

\* Mutant of CallWrite: query mode does not divert writes to the offline report.
CallWriteAnyMode(e) ==
  /\ Calls(e)
  /\ \E p \in Profiles \cup {""}, platform \in Platforms \cup {""}, bucket \in SUBSET Policies :
       Preflight(e, [kind |-> IF p = "" THEN "create" ELSE "update", profile |-> p,
                     platform |-> platform, bucket |-> bucket, target |-> platform, n |-> 0,
                     moves |-> IF p = "" THEN 0 ELSE store[p].moves])
  /\ UNCHANGED <<store, late>>

\* server.profiles.create and server.profiles.update.
CallWrite(e) ==
  /\ Calls(e)
  /\ run[e].mode = "mutate"
  /\ \E p \in Profiles \cup {""}, platform \in Platforms \cup {""}, bucket \in SUBSET Policies :
       Preflight(e, [kind |-> IF p = "" THEN "create" ELSE "update", profile |-> p,
                     platform |-> platform, bucket |-> bucket, target |-> platform, n |-> 0,
                     moves |-> IF p = "" THEN 0 ELSE store[p].moves])
  /\ UNCHANGED <<store, late>>

-----------------------------------------------------------------------------
(* executeOperation and the requests of a call. *)

\* Mutant of MaySend: the limit itself passes.
MaySendOneMore(e) == run[e].count <= MaxAPICalls

\* The request is counted and sent.
MaySend(e) == run[e].count < MaxAPICalls

Sending(e) == [run[e] EXCEPT !.count = @ + 1, !.sent = @ + 1]

\* callSDK is done with the call: it resolves, or it rejects.
Settled(r, thrown) == [r EXCEPT !.pc = "script", !.op = NoOp, !.todo = {}, !.thrown = thrown]

Resolved(r) == Settled(r, Nothing)

\* Mutant of Rejection: a failed read is returned as it is, like the preflight's.
RejectionWithoutKind(label, class) ==
  IF label = "write" /\ class \in Kinds
    THEN Rejected(class, IF class \in {"limit", "timeout"} THEN class ELSE "")
    ELSE Rejected("plain", IF class = "limit" THEN "limit" ELSE "")

\* rejectionValue names the class of a failed read or write, if it has a kind for
\* it.  Any other error, and every failure of the preflight or the verification,
\* is returned as it is, of which rejectPromise keeps the message only; that of
\* the call limit has the phrase already.
Rejection(label, class) ==
  IF label \in {"read", "write"} /\ class \in Kinds
    THEN Rejected(class, IF class \in {"limit", "timeout"} THEN class ELSE "")
    ELSE Rejected("plain", IF class = "limit" THEN "limit" ELSE "")

Fails(r, class) ==
  Settled(r, Because(Rejection(r.pc, class), class, r.pc \in {"read", "write"}))

Requesting(e) == run[e].pc \in {"read", "target", "policies", "write", "verify"}

\* The call after the last one that may be sent is refused unsent.
OverLimit(e) ==
  /\ Requesting(e)
  /\ ~MaySend(e)
  /\ run' = [run EXCEPT ![e] = Fails([run[e] EXCEPT !.count = @ + 1], "limit")]
  /\ UNCHANGED <<store, late>>

\* How a request ends that gets no answer of use: by itself, or because the
\* context of the execution ended.
FailuresNow(e) ==
  Failures \cup CASE run[e].ctx = "open"     -> {}
                  [] run[e].ctx = "deadline" -> {"timeout"}
                  [] run[e].ctx = "canceled" -> {"network"}

\* Nothing changed: a read, or a write that was refused or did not get there.
RequestFails(e) ==
  /\ Requesting(e)
  /\ MaySend(e)
  /\ \E class \in FailuresNow(e) : run' = [run EXCEPT ![e] = Fails(Sending(e), class)]
  /\ UNCHANGED <<store, late>>

Answered(e) == MaySend(e) /\ run[e].ctx = "open"

Read(e) ==
  /\ run[e].pc = "read"
  /\ Answered(e)
  /\ run' = [run EXCEPT ![e] = Resolved(Sending(e))]
  /\ UNCHANGED <<store, late>>

\* serverProfileTargetPlatform: the profile the last segment of the path names;
\* for a create that is the name of the collection, which is no profile.
ReadTarget(e) ==
  LET op == run[e].op
      found == op.kind = "update" /\ store[op.profile].exists
      target == store[op.profile].platform
      checked == op.bucket \cap Resolvable IN
  /\ run[e].pc = "target"
  /\ Answered(e)
  /\ run' = [run EXCEPT ![e] =
       IF ~found THEN Fails(Sending(e), "http")
       ELSE IF target = "" \/ checked = {}
              THEN [Sending(e) EXCEPT !.pc = "write", !.op.target = target]
              ELSE [Sending(e) EXCEPT !.pc = "policies", !.op.target = target, !.todo = checked]]
  /\ UNCHANGED <<store, late>>

Compatible(policy, platform) == PolicyTarget[policy] \in {"", platform}

\* preflightMutation, one policy; the first that does not fit ends the call.
ReadPolicy(e) ==
  /\ run[e].pc = "policies"
  /\ Answered(e)
  /\ \E policy \in run[e].todo :
       run' = [run EXCEPT ![e] =
         IF ~Compatible(policy, run[e].op.target)
           THEN Settled(Sending(e), Invalid)
           ELSE [Sending(e) EXCEPT !.todo = @ \ {policy},
                                   !.pc = IF run[e].todo = {policy} THEN "write" ELSE @]]
  /\ UNCHANGED <<store, late>>

-----------------------------------------------------------------------------
(* The write and its verification. *)

\* What the managed system makes of a write that names a bucket: all of it, or
\* what is left after it dropped entries.  An empty list is taken for none by
\* the bridge, and clears the bucket.
Persisted(op, old) ==
  LET platform == IF op.platform = "" THEN old.platform ELSE op.platform IN
  {[exists   |-> TRUE,
    platform |-> platform,
    bucket   |-> bucket,
    moves    |-> IF platform = old.platform THEN old.moves ELSE old.moves + 1] :
      bucket \in IF op.bucket = {} THEN {old.bucket, {}} ELSE SUBSET op.bucket}

\* The managed system carries out a write on profile p.
Carried(op, p) ==
  \/ /\ op.kind = "create"
     /\ ~store[p].exists
     /\ \E o \in Persisted(op, store[p]) : store' = [store EXCEPT ![p] = o]
  \/ /\ op.kind = "update" /\ p = op.profile
     /\ store[p].exists
     /\ \E o \in Persisted(op, store[p]) : store' = [store EXCEPT ![p] = o]
  \/ /\ op.kind = "delete" /\ p = op.profile
     /\ store[p].exists
     /\ store' = [store EXCEPT ![p] = [Absent EXCEPT !.moves = store[p].moves + 1]]

\* verifyMutationResult reads back only what named a bucket; the answer to a
\* create may lack the Moid, and then the path names the collection.
Write(e) ==
  LET op == run[e].op IN
  /\ run[e].pc = "write"
  /\ Answered(e)
  /\ \E p \in Profiles, named \in BOOLEAN :
       /\ Carried(op, p)
       /\ named \/ op.kind = "create"
       /\ run' = [run EXCEPT ![e] =
            IF op.bucket = {} THEN Resolved(Sending(e))
            ELSE [Sending(e) EXCEPT !.pc = "verify", !.op.profile = IF named THEN p ELSE ""]]
  /\ UNCHANGED late

\* The write is carried out, and the answer is larger than the client takes.
WriteTooLarge(e) ==
  /\ run[e].pc = "write"
  /\ Answered(e)
  /\ "output" \in Failures
  /\ \E p \in Profiles : Carried(run[e].op, p)
  /\ run' = [run EXCEPT ![e] = Fails(Sending(e), "output")]
  /\ UNCHANGED late

\* The managed system refuses what it cannot do.
WriteRefused(e) ==
  LET op == run[e].op IN
  /\ run[e].pc = "write"
  /\ Answered(e)
  /\ op.kind # "create"
  /\ ~store[op.profile].exists
  /\ run' = [run EXCEPT ![e] = Fails(Sending(e), "http")]
  /\ UNCHANGED <<store, late>>

\* The write got there, its answer does not come back.
WriteLost(e) ==
  /\ run[e].pc = "write"
  /\ MaySend(e)
  /\ \E class \in FailuresNow(e) \cap {"http", "network", "timeout"} :
       run' = [run EXCEPT ![e] = Fails(Sending(e), class)]
  /\ late' = [late EXCEPT ![e] = @ \cup {[run[e].op EXCEPT !.n = run[e].sent + 1]}]
  /\ UNCHANGED store

CarryOut(e) ==
  /\ \E op \in late[e], p \in Profiles :
       /\ Carried(op, p)
       /\ late' = [late EXCEPT ![e] = @ \ {op}]
  /\ UNCHANGED run

\* The profile read back has exactly the policies the write named.
Verify(e) ==
  LET op == run[e].op
      found == op.profile # "" /\ store[op.profile].exists IN
  /\ run[e].pc = "verify"
  /\ Answered(e)
  /\ run' = [run EXCEPT ![e] =
       IF ~found THEN Fails(Sending(e), "http")
       ELSE IF store[op.profile].bucket = op.bucket THEN Resolved(Sending(e))
       ELSE Settled(Sending(e), Invalid)]
  /\ UNCHANGED <<store, late>>

-----------------------------------------------------------------------------
(* How the execution ends. *)

Done(e, answer) == run' = [run EXCEPT ![e] = [Idle EXCEPT !.pc = "done", !.answer = answer]]

\* normalizeThrown while the context is open: the kind of the error, else what
\* the message says.
ClassOf(kind, says) ==
  IF kind \notin {"none", "plain"} THEN kind
  ELSE IF says \in {"limit", "timeout"} THEN says
  ELSE "validation"

\* ... and when it ended.
EndOf(ctx) == IF ctx = "deadline" THEN "timeout" ELSE "internal"

\* normalizeThrown of what the last call threw, seen with this kind.
ThrowAs(e, kind) ==
  /\ run[e].pc = "script"
  /\ run[e].thrown.kind # "none"
  /\ Done(e, IF run[e].ctx = "open" THEN ClassOf(kind, run[e].thrown.says) ELSE EndOf(run[e].ctx))
  /\ UNCHANGED <<store, late>>

\* The script does not catch what the last call threw ...
LetThrough(e) == ThrowAs(e, run[e].thrown.kind)

\* ... or throws a new error with the message of it.
Wrap(e) == ThrowAs(e, "plain")

Rethrow(e) == LetThrough(e) \/ Wrap(e)

\* The script throws an error of its own; "own" is whatever normalizeThrown makes
\* of it ...
Throw(e) ==
  /\ run[e].pc = "script"
  /\ Done(e, IF run[e].ctx = "open" THEN "own" ELSE EndOf(run[e].ctx))
  /\ UNCHANGED <<store, late>>

\* ... or returns, and it is what executeWithRuntime makes of the value, which may
\* be too large or not decode.
Return(e) ==
  /\ run[e].pc = "script"
  /\ Done(e, "own")
  /\ UNCHANGED <<store, late>>

Running(e) == run[e].pc \notin {"idle", "done"}

\* The execution's deadline passes, or the client of the server goes away.
ContextEnds(e, how) ==
  /\ Running(e)
  /\ run[e].ctx = "open"
  /\ run' = [run EXCEPT ![e].ctx = how]
  /\ UNCHANGED <<store, late>>

\* CloseOnContextDone: the engine stops the script, unless a host function runs.
Close(e) ==
  /\ run[e].pc = "script"
  /\ run[e].ctx # "open"
  /\ Done(e, EndOf(run[e].ctx))
  /\ UNCHANGED <<store, late>>

-----------------------------------------------------------------------------
Call(e) ==
  CallOffline(e) \/ CallRejected(e) \/ CallRead(e) \/ CallDelete(e) \/ CallWrite(e)

RequestStep(e) ==
  \/ OverLimit(e) \/ RequestFails(e) \/ Read(e) \/ ReadTarget(e) \/ ReadPolicy(e)
  \/ Write(e) \/ WriteTooLarge(e) \/ WriteRefused(e) \/ WriteLost(e) \/ Verify(e)

End(e) == Rethrow(e) \/ Throw(e) \/ Return(e) \/ Close(e)

Next ==
  \E e \in Execs :
    \/ Begin(e) \/ Call(e) \/ RequestStep(e) \/ CarryOut(e) \/ End(e)
    \/ ContextEnds(e, "deadline") \/ ContextEnds(e, "canceled")

Spec == Init /\ [][Next]_vars

-----------------------------------------------------------------------------
(* What is checked. *)

Ops == [kind : {"none", "create", "update", "delete"}, profile : Profiles \cup {""},
        platform : Platforms \cup {""}, bucket : SUBSET Policies,
        target : Platforms \cup {""}, n : Nat, moves : Nat]

Thrown == [kind : {"none", "plain"} \cup Kinds, says : {"", "limit", "timeout"},
           cause : {"none", "validation"} \cup Classes, direct : BOOLEAN]

Runs == [pc : {"idle", "script", "read", "target", "policies", "write", "verify", "done"},
         mode : {"query", "mutate"}, ctx : {"open", "deadline", "canceled"},
         calls : 0 .. MaxCalls, count : Nat, sent : 0 .. MaxAPICalls, op : Ops,
         todo : SUBSET Policies, thrown : Thrown,
         answer : {"none", "own", "validation"} \cup Classes]

\* Every variable keeps its type; in particular an execution never sends more
\* than maxAPICalls requests, preflight and verification included.
TypeOK ==
  /\ store \in [Profiles -> Objects]
  /\ late \in [Execs -> SUBSET Ops]
  /\ run \in [Execs -> Runs]

\* The writes that may be carried out now.
Pending ==
  (UNION {late[e] : e \in Execs}) \cup {run[e].op : e \in {f \in Execs : run[f].pc = "write"}}

Fits(object) ==
  object.platform = "" \/ \A p \in object.bucket \cap Resolvable :
                             PolicyTarget[p] \in {"", object.platform}

\* preflightMutation: no write gives a profile a policy bucket that does not fit
\* its platform, unless the platform was changed since the call that writes began.
Respects ==
  \A p \in Profiles :
    store'[p].bucket # store[p].bucket /\ ~Fits(store'[p])
      => \E op \in Pending : op.profile = p /\ op.platform = "" /\ op.moves # store[p].moves

WrittenAsChecked == [][Respects]_vars

\* The class of what a call threw, against the answer the tool call gets while its
\* context is open.  The call limit is answered as such wherever it was met and
\* however the script passes it on.  A failure of the read or the write itself is
\* answered as its class if rejectionValue has a kind for it and the script lets
\* it through; a timeout also when the script wraps it.  Otherwise the class may
\* be lost, to a validation error and to nothing else: that of a failed preflight
\* or verification, of an answer that is too large, of an error in the client.
KeepsClass(e) ==
  LET thrown == run[e].thrown
      answer == run'[e].answer IN
  run[e].ctx = "open" /\ Rethrow(e) =>
    /\ thrown.cause = "limit" => answer = "limit"
    /\ thrown.direct /\ thrown.cause \in Kinds /\ (LetThrough(e) \/ thrown.cause = "timeout")
         => answer = thrown.cause
    /\ answer \in {thrown.cause, "validation"}

ClassSurvives == [][\A e \in Execs : KeepsClass(e)]_vars

\* A create that names policies for any platform and no platform of its own is
\* not rejected before it is sent.
CreateNeedsNoPlatform ==
  [][\A e \in Execs :
       LET op == run[e].op IN
       (/\ op.kind = "create"
        /\ op.platform = ""
        /\ \A p \in op.bucket : PolicyTarget[p] = ""
        /\ run[e].pc = "target" /\ run[e].ctx = "open" /\ MaySend(e))
         => run'[e].pc # "script"]_vars

CallOf(r) ==
  [status |-> CASE r.pc = "idle" -> "idle"
                [] r.pc = "done" -> "answered"
                [] OTHER         -> "running",
   mode |-> r.mode, sent |-> r.sent]

Owed == [e \in Execs |-> {op.n : op \in late[e]}]

ToolCalls == [e \in Execs |-> CallOf(run[e])]

\* The bridge implements ToolCall: every request is charged, a query call never
\* changes the managed system, and an execution that ended sends nothing.
Tool == INSTANCE ToolCall WITH owed <- Owed, calls <- ToolCalls

ImplementsToolCall == Tool!Spec
=============================================================================
