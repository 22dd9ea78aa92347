----------------------------- MODULE ToolServer -----------------------------
(***************************************************************************)
(* server/mcp.go, tools/common.go and the executors of sandbox/: how tool  *)
(* calls are read from the input, limited, run under a deadline and        *)
(* answered, and how the server stops.                                     *)
(*                                                                         *)
(* The stdio server of mcp-go is external: it reads lines, gives tool      *)
(* calls to a pool of workers, and returns when the input ended or its     *)
(* context was canceled and the workers are done; a call that no worker    *)
(* has taken by then is dropped.  QuickJS is external too: a script ends   *)
(* in any of the ways executeWithRuntime tells apart, or not at all until  *)
(* its context ends.                                                       *)
(***************************************************************************)
EXTENDS Naturals, FiniteSets

CONSTANTS
  Calls,          \* the tool calls there may be
  Workers,        \* external: the number of workers of the stdio server
  MaxConcurrent,  \* RuntimeConfig.MaxConcurrent, 0 for no limit
  LogLimit,       \* Config.MaxOutputBytes as the log buffer uses it
  MaxWritten,     \* bound: bytes an execution writes to the log buffer
  ScriptErrors    \* classes of what a script may fail with

ASSUME BoundsAssumption == {Workers, MaxConcurrent, LogLimit, MaxWritten} \subseteq Nat

ASSUME CallsAssumption == IsFiniteSet(Calls)

ASSUME LogAssumption == LogLimit > 0

ASSUME ClassesAssumption ==
  ScriptErrors \cap {"none", "ok", "refused", "rejected", "tooLarge", "panicked", "internal"} = {}

VARIABLES
  serve,      \* starting, listening, draining, returned, or failed to start
  readOnly,   \* Config.ReadOnly
  sawEOF,     \* cancelOnEOFReader.sawEOF
  canceledBy, \* history: what canceled the context of Listen
  slots,      \* the tokens in Limiter.slots
  call        \* per call: where it is

vars == <<serve, readOnly, sawEOF, canceledBy, slots, call>>

Tools == {"search", "query", "mutate"}

\* The log buffer; "wrote" is history.
EmptyLog == [kept |-> 0, cut |-> FALSE, wrote |-> 0]

\* "ran" is history: whether the limiter let the call in; "logged" says whether
\* the script logged lines of its own, "logs" what the answer holds.
Unsent == [pc |-> "unsent", tool |-> "search", ctx |-> "open", ran |-> FALSE, log |-> EmptyLog,
           logged |-> FALSE, answer |-> "none", logs |-> "none"]

Init ==
  /\ serve = "starting"
  /\ readOnly \in BOOLEAN
  /\ sawEOF = FALSE
  /\ canceledBy = "none"
  /\ slots = 0
  /\ call = [c \in Calls |-> Unsent]

At(label) == {c \in Calls : call[c].pc = label}

Executing == At("setup") \cup At("script")

Handled == At("taken") \cup Executing

Canceled == canceledBy # "none"

-----------------------------------------------------------------------------
(* ServeWithIOAndHTTPClient and Listen. *)

\* The configuration, the connection, the artifacts or the proxy are wrong.
StartFails ==
  /\ serve = "starting"
  /\ serve' = "failed"
  /\ UNCHANGED <<readOnly, sawEOF, canceledBy, slots, call>>

Start ==
  /\ serve = "starting"
  /\ serve' = "listening"
  /\ UNCHANGED <<readOnly, sawEOF, canceledBy, slots, call>>

\* The context of a call is a child of the one of Listen.
CancelAll(by) ==
  /\ canceledBy' = IF Canceled THEN canceledBy ELSE by
  /\ call' = [c \in Calls |-> IF c \in Handled /\ call[c].ctx = "open"
                                THEN [call[c] EXCEPT !.ctx = "canceled"] ELSE call[c]]

\* Mutant of Read: the end is reported with the last bytes.
ReadCancelsAtOnce ==
  /\ serve = "listening" /\ ~Canceled
  /\ ~sawEOF /\ At("buffered") = {}
  /\ \E batch \in SUBSET At("unsent") \ {{}}, tool \in Tools, last \in BOOLEAN :
       /\ call' = [c \in Calls |-> IF c \in batch THEN [call[c] EXCEPT !.pc = "buffered", !.tool = tool]
                                                ELSE call[c]]
       /\ canceledBy' = IF last THEN "eof" ELSE "none"
  /\ UNCHANGED <<serve, readOnly, sawEOF, slots>>

\* cancelOnEOFReader.Read with bytes, which may be the last ones; the stdio
\* server reads again when it has handled what it read.
Read ==
  /\ serve = "listening" /\ ~Canceled
  /\ ~sawEOF /\ At("buffered") = {}
  /\ \E batch \in SUBSET At("unsent") \ {{}}, tool \in Tools :
       call' = [c \in Calls |-> IF c \in batch THEN [call[c] EXCEPT !.pc = "buffered", !.tool = tool]
                                                ELSE call[c]]
  /\ sawEOF' \in BOOLEAN
  /\ UNCHANGED <<serve, readOnly, canceledBy, slots>>

\* Read at the end of the input.
ReadEnd ==
  /\ serve = "listening" /\ ~Canceled
  /\ At("buffered") = {}
  /\ CancelAll("eof")
  /\ serve' = "draining"
  /\ UNCHANGED <<readOnly, sawEOF, slots>>

\* A signal cancels the context Listen was called with.
Signal ==
  /\ serve \in {"listening", "draining"} /\ ~Canceled
  /\ CancelAll("signal")
  /\ UNCHANGED <<serve, readOnly, sawEOF, slots>>

StopReading ==
  /\ serve = "listening" /\ Canceled
  /\ serve' = "draining"
  /\ UNCHANGED <<readOnly, sawEOF, canceledBy, slots, call>>

Set(c, record) == call' = [call EXCEPT ![c] = record]

Enqueue(c) ==
  /\ serve = "listening" /\ ~Canceled
  /\ call[c].pc = "buffered"
  /\ Set(c, [call[c] EXCEPT !.pc = "queued"])
  /\ UNCHANGED <<serve, readOnly, sawEOF, canceledBy, slots>>

\* A worker takes a call, of a tool that is registered; it may do so after the
\* cancellation.
Take(c) ==
  /\ serve \in {"listening", "draining"}
  /\ call[c].pc = "queued"
  /\ Cardinality(Handled) < Workers
  /\ Set(c, IF readOnly /\ call[c].tool = "mutate"
              THEN [Unsent EXCEPT !.pc = "answered", !.answer = "rejected"]
              ELSE [call[c] EXCEPT !.pc = "taken", !.ctx = IF Canceled THEN "canceled" ELSE "open"])
  /\ UNCHANGED <<serve, readOnly, sawEOF, canceledBy, slots>>

\* Listen returns and the executors are closed.
Return ==
  /\ serve = "draining"
  /\ Handled = {}
  /\ serve' = "returned"
  /\ UNCHANGED <<readOnly, sawEOF, canceledBy, slots, call>>

-----------------------------------------------------------------------------
(* The tool handler. *)

\* Mutant of Free: the slots are counted from one.
FreeOneMore == MaxConcurrent = 0 \/ slots <= MaxConcurrent

\* Limiter.Acquire would succeed.
Free == MaxConcurrent = 0 \/ slots < MaxConcurrent

\* toolErrorResult and toolSuccessResult; what the handler held is gone, but for
\* the history of the call.
Answered(r, answer, logs) ==
  [Unsent EXCEPT !.pc = "answered", !.answer = answer, !.logs = logs,
                 !.ctx = r.ctx, !.ran = r.ran, !.log = r.log]

\* The arguments do not bind, or the code or the summary is blank.
Invalid(c) ==
  /\ call[c].pc = "taken"
  /\ Set(c, Answered(call[c], "rejected", "none"))
  /\ UNCHANGED <<serve, readOnly, sawEOF, canceledBy, slots>>

Refuse(c) ==
  /\ call[c].pc = "taken"
  /\ ~Free
  /\ Set(c, Answered(call[c], "refused", "none"))
  /\ UNCHANGED <<serve, readOnly, sawEOF, canceledBy, slots>>

Acquire(c) ==
  /\ call[c].pc = "taken"
  /\ Free
  /\ slots' = IF MaxConcurrent = 0 THEN slots ELSE slots + 1
  /\ Set(c, [call[c] EXCEPT !.pc = "setup", !.ran = TRUE])
  /\ UNCHANGED <<serve, readOnly, sawEOF, canceledBy>>

\* Mutant of Release: only an answer without an error gives the slot back.
ReleaseOnSuccess(answer) == slots' = IF slots = 0 \/ answer # "ok" THEN slots ELSE slots - 1

\* The deferred Limiter.Release, which never blocks.
Release(answer) == slots' = IF slots = 0 THEN slots ELSE slots - 1

Answer(c, answer, logs) ==
  /\ Set(c, Answered(call[c], answer, logs))
  /\ Release(answer)
  /\ UNCHANGED <<serve, readOnly, sawEOF, canceledBy>>

-----------------------------------------------------------------------------
(* Executor.Execute. *)

\* Mutant of Normalized: what the script threw is looked at first.
NormalizedByScript(ctx, class) ==
  IF class # "internal" \/ ctx = "open" THEN class
  ELSE IF ctx = "deadline" THEN "timeout" ELSE "internal"

\* normalizeThrown, normalizeJSError and normalizePanic.
Normalized(ctx, class) ==
  CASE ctx = "open"     -> class
    [] ctx = "deadline" -> "timeout"
    [] ctx = "canceled" -> "internal"

\* The runtime could not be made; or the search globals were not loaded, because
\* the context had ended.
SetupFails(c) ==
  /\ call[c].pc = "setup"
  /\ \/ Answer(c, "internal", "none")
     \/ /\ call[c].tool = "search" /\ call[c].ctx # "open"
        /\ Answer(c, Normalized(call[c].ctx, "internal"), "none")

\* sdkRuntime.install runs outside of a recover: a runtime closed under it panics
\* through the handler, and the server answers.  A search call recovers.
SetupPanics(c) ==
  /\ call[c].pc = "setup"
  /\ call[c].ctx # "open"
  /\ Answer(c, IF call[c].tool = "search" THEN Normalized(call[c].ctx, "internal") ELSE "panicked", "none")

CodeTooLarge(c) ==
  /\ call[c].pc = "setup"
  /\ Answer(c, "rejected", "none")

\* loadGlobals looks at the context, install does not.
RunScript(c) ==
  /\ call[c].pc = "setup"
  /\ call[c].tool = "search" => call[c].ctx = "open"
  /\ Set(c, [call[c] EXCEPT !.pc = "script"])
  /\ UNCHANGED <<serve, readOnly, sawEOF, canceledBy, slots>>

\* Mutant of Write: the limit is not looked at.
WriteAll(log, n) == [kept |-> log.kept + n, cut |-> FALSE, wrote |-> log.wrote + n]

\* Mutant of Write: a full buffer drops what is written and does not say so.
WriteDropsWhenFull(log, n) ==
  [kept |-> IF n > LogLimit - log.kept THEN LogLimit ELSE log.kept + n,
   cut |-> log.cut \/ (log.kept < LogLimit /\ n > LogLimit - log.kept),
   wrote |-> log.wrote + n]

\* logBuffer.Write.
Write(log, n) ==
  [kept |-> IF n > LogLimit - log.kept THEN LogLimit ELSE log.kept + n,
   cut |-> log.cut \/ n > LogLimit - log.kept,
   wrote |-> log.wrote + n]

\* dispatch prints the warnings of a mutate call on the console of the runtime.
Warn(c) ==
  /\ call[c].pc = "script"
  /\ call[c].tool = "mutate" /\ call[c].ctx = "open"
  /\ \E n \in 1..MaxWritten - call[c].log.wrote :
       Set(c, [call[c] EXCEPT !.log = Write(call[c].log, n)])
  /\ UNCHANGED <<serve, readOnly, sawEOF, canceledBy, slots>>

\* The console of the script is another one.
Log(c) ==
  /\ call[c].pc = "script"
  /\ call[c].ctx = "open"
  /\ Set(c, [call[c] EXCEPT !.logged = TRUE])
  /\ UNCHANGED <<serve, readOnly, sawEOF, canceledBy, slots>>

\* logBuffer.Lines.
Lines(log) == IF log.cut THEN "cut" ELSE IF log.kept = 0 THEN "none" ELSE "whole"

\* The lines of the buffer are used when the result has none of its own.
LogsWith(r) == IF r.logged THEN "script" ELSE Lines(r.log)

\* The script delivers a value, or throws, or leaves what is too large or no
\* result at all; it may have done so just before its context ended.
Ends(c) ==
  /\ call[c].pc = "script"
  /\ \/ Answer(c, "ok", LogsWith(call[c]))
     \/ Answer(c, "tooLarge", Lines(call[c].log))
     \/ Answer(c, "internal", Lines(call[c].log))

\* Thrown in the script and caught by the wrapper.
Throws(c) ==
  /\ call[c].pc = "script"
  /\ \E class \in ScriptErrors : Answer(c, Normalized(call[c].ctx, class), LogsWith(call[c]))

\* Eval or Await fails, or the runtime panics.
Breaks(c) ==
  /\ call[c].pc = "script"
  /\ \E class \in ScriptErrors \cup {"internal"} :
       Answer(c, Normalized(call[c].ctx, class), Lines(call[c].log))

\* Mutant of Deadline: searches run without a timeout.
DeadlineOfQueries(c) ==
  /\ c \in Executing
  /\ call[c].ctx = "open" /\ call[c].tool # "search"
  /\ Set(c, [call[c] EXCEPT !.ctx = "deadline"])
  /\ UNCHANGED <<serve, readOnly, sawEOF, canceledBy, slots>>

\* The timeout of the execution.
Deadline(c) ==
  /\ c \in Executing
  /\ call[c].ctx = "open"
  /\ Set(c, [call[c] EXCEPT !.ctx = "deadline"])
  /\ UNCHANGED <<serve, readOnly, sawEOF, canceledBy, slots>>

-----------------------------------------------------------------------------
Handle(c) == Invalid(c) \/ Refuse(c) \/ Acquire(c)

Setup(c) == SetupFails(c) \/ SetupPanics(c) \/ CodeTooLarge(c) \/ RunScript(c)

Finish(c) == Ends(c) \/ Throws(c) \/ Breaks(c)

Execution(c) == Setup(c) \/ Warn(c) \/ Log(c) \/ Finish(c) \/ Deadline(c)

Server == StartFails \/ Start \/ Read \/ ReadEnd \/ Signal \/ StopReading \/ Return

Next == Server \/ \E c \in Calls : Enqueue(c) \/ Take(c) \/ Handle(c) \/ Execution(c)

Spec == Init /\ [][Next]_vars

\* Workers and handlers go on, the timer fires, and a script whose context ended
\* ends: QuickJS is closed under it.  Before that, a script may run for ever.
Fairness ==
  \A c \in Calls :
    /\ WF_vars(Take(c)) /\ WF_vars(Handle(c)) /\ WF_vars(Setup(c)) /\ WF_vars(Deadline(c))
    /\ WF_vars(call[c].ctx # "open" /\ Finish(c))

FairSpec == Spec /\ Fairness

-----------------------------------------------------------------------------
(* Properties. *)

Answers == {"none", "ok", "refused", "rejected", "tooLarge", "panicked", "internal", "timeout"}
             \cup ScriptErrors

Records ==
  [pc : {"unsent", "buffered", "queued", "taken", "setup", "script", "answered"},
   tool : Tools, ctx : {"open", "deadline", "canceled"}, ran : BOOLEAN,
   log : [kept : 0..LogLimit, cut : BOOLEAN, wrote : 0..MaxWritten],
   logged : BOOLEAN, answer : Answers, logs : {"none", "whole", "cut", "script"}]

\* Every variable has its type: the state of Listen, of the limiter and of the
\* calls is one the code can hold.
TypeOK ==
  /\ serve \in {"starting", "listening", "draining", "returned", "failed"}
  /\ readOnly \in BOOLEAN /\ sawEOF \in BOOLEAN
  /\ canceledBy \in {"none", "eof", "signal"}
  /\ slots \in Nat
  /\ call \in [Calls -> Records]

\* Every way out of a tool handler gives back the slot its call took, and no
\* other: the tokens in the limiter are the calls being executed, so that the
\* limit is never passed and never shrinks for good.
SlotsMatchExecutions ==
  MaxConcurrent > 0 => slots = Cardinality(Executing) /\ slots <= MaxConcurrent

\* When the end of the input came with the last bytes, the requests in them are
\* handed to the workers before the reader cancels anything.
ReadBeforeCanceled == canceledBy = "eof" => At("buffered") = {}

\* A call whose context ended while its script ran is answered with the timeout or
\* the cancellation, never with the error the broken script ended in.
ScriptNotBlamed ==
  \A c \in Calls :
    call[c].ran /\ call[c].ctx # "open" => call[c].answer \notin ScriptErrors \ {"timeout"}

\* The warnings of mutate calls reach the answer unless the script logged lines of
\* its own; when the buffer had no room for all of them, the answer says so.
WarningsReach ==
  \A c \in Calls :
    LET r == call[c] IN
    r.pc = "answered" /\ r.log.wrote > 0 /\ r.logs # "script" =>
      r.logs = IF r.log.wrote > LogLimit THEN "cut" ELSE "whole"

Verdict(r) ==
  IF r.ran THEN "ran" ELSE IF r.answer = "refused" THEN "refused" ELSE "none"

Verdicts == [c \in Calls |-> Verdict(call[c])]

\* The limiter is an ExecutionPool.
Pool == INSTANCE ExecutionPool WITH Limit <- MaxConcurrent, running <- Executing, verdict <- Verdicts

\* At most MaxConcurrent executions at a time, and a call is refused only when
\* that many run.
ImplementsPool == Pool!Spec

\* Whatever the scripts do, a call that was accepted is answered, unless no worker
\* has taken it when the server is canceled.
AcceptedIsAnswered ==
  \A c \in Calls :
    call[c].pc \in {"queued", "taken"} ~>
      call[c].pc = "answered" \/ (call[c].pc = "queued" /\ Canceled)
=============================================================================
