-------------------------- MODULE ToolServerProofs --------------------------
(***************************************************************************)
(* TLAPS proofs about ToolServer, for any calls, workers and limits.       *)
(*                                                                         *)
(* The inductive invariant counts the tokens in the limiter (SlotsOK) and  *)
(* says of every call what its log buffer holds and what it may have been  *)
(* answered with so far (CallOK).                                          *)
(***************************************************************************)
EXTENDS ToolServer, FiniteSetTheorems, TLAPS

SlotsOK ==
  /\ slots = IF MaxConcurrent = 0 THEN 0 ELSE Cardinality(Executing)
  /\ slots <= MaxConcurrent

\* The buffer holds what was written up to the limit, and knows whether it cut.
LogOK(log) ==
  /\ log.kept = IF log.wrote > LogLimit THEN LogLimit ELSE log.wrote
  /\ log.cut <=> log.wrote > LogLimit

\* An answer does not blame the script for the end of its context, nor hide the
\* warnings.
AnswerOK(r, answer, logs) ==
  /\ answer \in Answers \ {"none"}
  /\ logs \in {"none", "whole", "cut", "script"}
  /\ r.ran /\ r.ctx # "open" => answer \notin ScriptErrors \ {"timeout"}
  /\ r.log.wrote > 0 /\ logs # "script" => logs = IF r.log.wrote > LogLimit THEN "cut" ELSE "whole"
  /\ r.ran => answer # "refused"

CallOK(r) ==
  /\ r \in Records
  /\ LogOK(r.log)
  /\ r.pc \notin {"script", "answered"} => r.log = EmptyLog
  /\ r.pc \in {"setup", "script"} => r.ran
  /\ r.pc \in {"unsent", "buffered", "queued", "taken"} => ~r.ran
  /\ r.pc \in {"unsent", "buffered", "queued"} => r.ctx = "open"
  /\ r.pc # "answered" => r.answer = "none"
  /\ r.pc = "answered" => AnswerOK(r, r.answer, r.logs)

ServeOK ==
  /\ serve \in {"starting", "listening", "draining", "returned", "failed"}
  /\ readOnly \in BOOLEAN /\ sawEOF \in BOOLEAN
  /\ canceledBy \in {"none", "eof", "signal"}
  /\ slots \in Nat

CallsOK == DOMAIN call = Calls /\ call = [c \in Calls |-> call[c]] /\ \A c \in Calls : CallOK(call[c])

IInv == ServeOK /\ CallsOK /\ SlotsOK /\ ReadBeforeCanceled

-----------------------------------------------------------------------------
(* What the parts of a call are made of. *)

LEMMA Bounds == Workers \in Nat /\ MaxConcurrent \in Nat /\ LogLimit \in Nat /\ MaxWritten \in Nat
BY BoundsAssumption

LEMMA EmptyOK == LogOK(EmptyLog) /\ EmptyLog \in [kept : 0..LogLimit, cut : BOOLEAN, wrote : 0..MaxWritten]
<1>1. ~(0 > LogLimit) /\ 0 \in 0..LogLimit /\ 0 \in 0..MaxWritten
  BY Bounds
<1>2. QED
  BY <1>1 DEF LogOK, EmptyLog

LEMMA UnsentOK == CallOK(Unsent)
<1>1. Unsent \in Records
  BY EmptyOK DEF Unsent, Records, Answers, Tools
<1>2. QED
  BY <1>1, EmptyOK DEF CallOK, Unsent

\* What Write leaves is a log buffer as it should be.
LEMMA Written ==
  ASSUME NEW log \in [kept : 0..LogLimit, cut : BOOLEAN, wrote : 0..MaxWritten], LogOK(log),
         NEW n \in 1..MaxWritten - log.wrote
  PROVE  LogOK(Write(log, n)) /\ Write(log, n) \in [kept : 0..LogLimit, cut : BOOLEAN, wrote : 0..MaxWritten]
<1> DEFINE w == Write(log, n)
<1>1. /\ log.wrote \in Nat /\ log.kept \in Nat /\ n \in Nat /\ n >= 1
      /\ log.wrote + n <= MaxWritten /\ log.kept <= LogLimit
  BY Bounds
<1>2. log.kept = (IF log.wrote > LogLimit THEN LogLimit ELSE log.wrote) /\ (log.cut <=> log.wrote > LogLimit)
  BY DEF LogOK
<1>3. /\ w.kept = IF n > LogLimit - log.kept THEN LogLimit ELSE log.kept + n
      /\ w.cut = (log.cut \/ n > LogLimit - log.kept)
      /\ w.wrote = log.wrote + n
      /\ w = [kept |-> w.kept, cut |-> w.cut, wrote |-> w.wrote]
  BY DEF Write
<1> HIDE DEF w
<1>4. w.wrote \in 0..MaxWritten /\ w.kept \in 0..LogLimit
  BY <1>1, <1>3, Bounds
<1>5. w.kept = IF w.wrote > LogLimit THEN LogLimit ELSE w.wrote
  BY <1>1, <1>2, <1>3, Bounds
<1>6. w.cut <=> w.wrote > LogLimit
  <2>1. log.wrote > LogLimit => w.wrote > LogLimit
    BY <1>1, <1>3, Bounds
  <2>2. ~(log.wrote > LogLimit) => (n > LogLimit - log.kept <=> w.wrote > LogLimit)
    BY <1>1, <1>2, <1>3, Bounds
  <2>3. QED
    BY <1>2, <1>3, <2>1, <2>2
<1>7. QED
  BY <1>3, <1>4, <1>5, <1>6 DEF LogOK, w

\* An answer of the handler leaves the record of a call as it should be.
LEMMA AnsweredOK ==
  ASSUME NEW r, CallOK(r), NEW answer, NEW logs, AnswerOK(r, answer, logs)
  PROVE  CallOK(Answered(r, answer, logs)) /\ Answered(r, answer, logs).pc = "answered"
<1> DEFINE a == Answered(r, answer, logs)
<1>1. /\ a.pc = "answered" /\ a.answer = answer /\ a.logs = logs
      /\ a.ctx = r.ctx /\ a.ran = r.ran /\ a.log = r.log
  BY DEF Answered, Unsent
<1>2. a \in Records
  <2>1. r \in Records
    BY DEF CallOK
  <2>2. answer \in Answers /\ logs \in {"none", "whole", "cut", "script"}
    BY DEF AnswerOK
  <2>3. QED
    BY <2>1, <2>2 DEF Answered, Unsent, Records, Tools
<1>3. AnswerOK(a, a.answer, a.logs)
  BY <1>1 DEF AnswerOK
<1>4. LogOK(a.log)
  BY <1>1 DEF CallOK
<1> HIDE DEF a
<1>5. QED
  BY <1>1, <1>2, <1>3, <1>4 DEF CallOK, a

\* The lines of the buffer tell what it holds.
LEMMA LinesTell ==
  ASSUME NEW r, CallOK(r)
  PROVE  /\ Lines(r.log) \in {"none", "whole", "cut"}
         /\ r.log.wrote > 0 => Lines(r.log) = IF r.log.wrote > LogLimit THEN "cut" ELSE "whole"
<1>1. r.log.wrote \in Nat /\ r.log.kept \in Nat
  BY Bounds DEF CallOK, Records
<1>2. LogOK(r.log)
  BY DEF CallOK
<1>3. r.log.wrote > 0 => (r.log.wrote > LogLimit \/ r.log.kept # 0)
  BY <1>1, <1>2, Bounds DEF LogOK
<1>4. QED
  BY <1>2, <1>3 DEF LogOK, Lines

-----------------------------------------------------------------------------
(* A step of one call. *)

LEMMA ExecutingFinite == IsFiniteSet(Executing) /\ Cardinality(Executing) \in Nat
<1>1. Executing \in SUBSET Calls
  BY DEF Executing, At
<1>2. QED
  BY <1>1, CallsAssumption, FS_Subset, FS_CardinalityType

LEMMA SetCall ==
  ASSUME CallsOK, NEW c \in Calls, NEW r, CallOK(r), Set(c, r)
  PROVE  /\ CallsOK'
         /\ call'[c] = r /\ \A d \in Calls \ {c} : call'[d] = call[d]
BY DEF CallsOK, Set

\* The call keeps its slot, or its want of one.
LEMMA Stays ==
  ASSUME CallsOK, NEW c \in Calls, NEW r, CallOK(r), Set(c, r),
         r.pc \in {"setup", "script"} <=> call[c].pc \in {"setup", "script"}
  PROVE  Executing' = Executing
BY SetCall DEF Executing, At

LEMMA Leaves ==
  ASSUME CallsOK, NEW c \in Executing, NEW r, CallOK(r), Set(c, r), r.pc = "answered"
  PROVE  Executing' = Executing \ {c}
<1>1. c \in Calls
  BY DEF Executing, At
<1>2. QED
  BY <1>1, SetCall DEF Executing, At

LEMMA Joins ==
  ASSUME CallsOK, NEW c \in Calls, NEW r, CallOK(r), Set(c, r), r.pc = "setup"
  PROVE  Executing' = Executing \cup {c}
BY SetCall DEF Executing, At

\* No call comes back into the buffer of the reader.
LEMMA NotBuffered ==
  ASSUME CallsOK, ReadBeforeCanceled, NEW c \in Calls, NEW r, CallOK(r), Set(c, r),
         r.pc # "buffered", canceledBy' = canceledBy
  PROVE  ReadBeforeCanceled'
BY SetCall DEF ReadBeforeCanceled, At

\* A step of one call that leaves the slots alone.
LEMMA CallStep ==
  ASSUME IInv, NEW c \in Calls, NEW r, CallOK(r), Set(c, r), r.pc # "buffered",
         r.pc \in {"setup", "script"} <=> call[c].pc \in {"setup", "script"},
         UNCHANGED <<serve, readOnly, sawEOF, canceledBy, slots>>
  PROVE  IInv' /\ Executing' = Executing
<1>1. CallsOK'
  BY SetCall DEF IInv
<1>2. Executing' = Executing
  BY Stays DEF IInv
<1>3. ReadBeforeCanceled'
  BY NotBuffered DEF IInv
<1>4. SlotsOK'
  BY <1>2 DEF IInv, SlotsOK
<1>5. ServeOK'
  BY DEF IInv, ServeOK
<1>6. QED
  BY <1>1, <1>2, <1>3, <1>4, <1>5 DEF IInv

\* The handler of an executing call returns.
LEMMA AnswerStep ==
  ASSUME IInv, NEW c \in Executing, NEW answer, NEW logs, AnswerOK(call[c], answer, logs),
         Answer(c, answer, logs)
  PROVE  IInv' /\ Executing' = Executing \ {c} /\ c \in Calls
              /\ call'[c] = Answered(call[c], answer, logs)
              /\ \A d \in Calls \ {c} : call'[d] = call[d]
<1>1. c \in Calls
  BY DEF Executing, At
<1>2. CallOK(Answered(call[c], answer, logs)) /\ Answered(call[c], answer, logs).pc = "answered"
  BY <1>1, AnsweredOK DEF IInv, CallsOK
<1>3. Set(c, Answered(call[c], answer, logs)) /\ UNCHANGED <<serve, readOnly, sawEOF, canceledBy>>
  BY DEF Answer
<1>4. CallsOK' /\ call'[c] = Answered(call[c], answer, logs) /\ \A d \in Calls \ {c} : call'[d] = call[d]
  BY <1>1, <1>2, <1>3, SetCall DEF IInv
<1>5. Executing' = Executing \ {c}
  BY <1>2, <1>3, Leaves DEF IInv
<1>6. Cardinality(Executing') = Cardinality(Executing) - 1 /\ Cardinality(Executing) >= 1
  <2>1. Cardinality(Executing \ {c}) = Cardinality(Executing) - 1 /\ IsFiniteSet(Executing \ {c})
    BY ExecutingFinite, FS_RemoveElement
  <2>2. Cardinality(Executing \ {c}) \in Nat
    BY <2>1, FS_CardinalityType
  <2>3. QED
    BY <1>5, <2>1, <2>2, ExecutingFinite
<1>7. slots' = IF slots = 0 THEN slots ELSE slots - 1
  BY DEF Answer, Release
<1>8. slots \in Nat
  BY DEF IInv, ServeOK
<1>9. SlotsOK' /\ slots' \in Nat
  BY <1>6, <1>7, <1>8, ExecutingFinite, Bounds DEF IInv, SlotsOK
<1>10. ServeOK'
  BY <1>3, <1>9 DEF IInv, ServeOK
<1>11. ReadBeforeCanceled'
  BY <1>1, <1>2, <1>3, NotBuffered DEF IInv
<1>12. QED
  BY <1>1, <1>4, <1>5, <1>9, <1>10, <1>11 DEF IInv

-----------------------------------------------------------------------------
(* The steps of the server. *)

\* A step that moves no call.
LEMMA QuietStep ==
  ASSUME IInv, UNCHANGED <<sawEOF, readOnly, canceledBy, slots, call>>,
         serve' \in {"starting", "listening", "draining", "returned", "failed"}
  PROVE  IInv' /\ Executing' = Executing
BY DEF IInv, ServeOK, CallsOK, SlotsOK, ReadBeforeCanceled, Executing, At

LEMMA ReadStep ==
  ASSUME IInv, Read
  PROVE  IInv' /\ Executing' = Executing /\ Verdicts' = Verdicts
<1>1. PICK batch \in SUBSET At("unsent") \ {{}}, tool \in Tools :
        call' = [c \in Calls |-> IF c \in batch THEN [call[c] EXCEPT !.pc = "buffered", !.tool = tool]
                                               ELSE call[c]]
  BY DEF Read
<1>2. \A c \in Calls : CallOK(call[c])
  BY DEF IInv, CallsOK
<1>3. ASSUME NEW c \in Calls
      PROVE  /\ CallOK(call'[c])
             /\ call'[c].pc \in {"setup", "script"} <=> call[c].pc \in {"setup", "script"}
             /\ Verdict(call'[c]) = Verdict(call[c])
  <2>1. CASE c \notin batch
    BY <1>1, <1>2, <2>1
  <2>2. CASE c \in batch
    <3>1. call[c].pc = "unsent"
      BY <2>2 DEF At
    <3>2. call'[c] = [call[c] EXCEPT !.pc = "buffered", !.tool = tool] /\ call[c] \in Records
      BY <1>1, <1>2, <2>2 DEF CallOK
    <3>3. CallOK(call'[c])
      BY <1>2, <3>1, <3>2 DEF CallOK, Records
    <3>4. QED
      BY <3>1, <3>2, <3>3 DEF Verdict, Records
  <2>3. QED
    BY <2>1, <2>2
<1>4. CallsOK'
  BY <1>1, <1>3 DEF CallsOK
<1>5. Executing' = Executing
  BY <1>3 DEF Executing, At
<1>6. Verdicts' = Verdicts
  BY <1>3 DEF Verdicts
<1>7. canceledBy' = "none" /\ slots' = slots /\ serve' = serve /\ readOnly' = readOnly /\ sawEOF' \in BOOLEAN
  BY DEF Read, Canceled
<1>8. QED
  BY <1>4, <1>5, <1>6, <1>7 DEF IInv, ServeOK, SlotsOK, ReadBeforeCanceled

LEMMA CancelStep ==
  ASSUME IInv, NEW by \in {"eof", "signal"}, CancelAll(by), by = "eof" => At("buffered") = {},
         UNCHANGED <<readOnly, sawEOF, slots>>,
         serve' \in {"starting", "listening", "draining", "returned", "failed"}
  PROVE  IInv' /\ Executing' = Executing /\ Verdicts' = Verdicts
<1>1. call' = [c \in Calls |-> IF c \in Handled /\ call[c].ctx = "open"
                                THEN [call[c] EXCEPT !.ctx = "canceled"] ELSE call[c]]
  BY DEF CancelAll
<1>2. \A c \in Calls : CallOK(call[c])
  BY DEF IInv, CallsOK
<1>3. ASSUME NEW c \in Calls
      PROVE  CallOK(call'[c]) /\ call'[c].pc = call[c].pc /\ Verdict(call'[c]) = Verdict(call[c])
  <2>1. CASE ~(c \in Handled /\ call[c].ctx = "open")
    BY <1>1, <1>2, <2>1
  <2>2. CASE c \in Handled /\ call[c].ctx = "open"
    <3>1. call[c].pc \in {"taken", "setup", "script"}
      BY <2>2 DEF Handled, Executing, At
    <3>2. call'[c] = [call[c] EXCEPT !.ctx = "canceled"] /\ call[c] \in Records
      BY <1>1, <1>2, <2>2 DEF CallOK
    <3>3. CallOK(call'[c])
      BY <1>2, <3>1, <3>2 DEF CallOK, Records
    <3>4. QED
      BY <3>2, <3>3 DEF Verdict, Records
  <2>3. QED
    BY <2>1, <2>2
<1>4. CallsOK'
  BY <1>1, <1>3 DEF CallsOK
<1>5. Executing' = Executing /\ At("buffered")' = At("buffered")
  BY <1>3 DEF Executing, At
<1>6. Verdicts' = Verdicts
  BY <1>3 DEF Verdicts
<1>7. canceledBy' = IF Canceled THEN canceledBy ELSE by
  BY DEF CancelAll
<1>8. canceledBy' \in {"none", "eof", "signal"} /\ (canceledBy' = "eof" => At("buffered") = {})
  BY <1>7 DEF IInv, ServeOK, ReadBeforeCanceled, Canceled
<1>9. QED
  BY <1>4, <1>5, <1>6, <1>8 DEF IInv, ServeOK, SlotsOK, ReadBeforeCanceled

LEMMA ServerStep ==
  ASSUME IInv, Server
  PROVE  IInv' /\ Executing' = Executing /\ Verdicts' = Verdicts
<1>1. CASE StartFails \/ Start \/ StopReading \/ Return
  <2>1. UNCHANGED <<sawEOF, readOnly, canceledBy, slots, call>>
    BY <1>1 DEF StartFails, Start, StopReading, Return
  <2>2. serve' \in {"starting", "listening", "draining", "returned", "failed"}
    BY <1>1 DEF StartFails, Start, StopReading, Return
  <2>3. QED
    BY <2>1, <2>2, QuietStep DEF Verdicts
<1>2. CASE Read
  BY <1>2, ReadStep
<1>3. CASE ReadEnd
  <2>1. CancelAll("eof") /\ At("buffered") = {} /\ serve' = "draining" /\ UNCHANGED <<readOnly, sawEOF, slots>>
    BY <1>3 DEF ReadEnd
  <2>2. QED
    BY <2>1, CancelStep
<1>4. CASE Signal
  <2>1. CancelAll("signal") /\ UNCHANGED <<serve, readOnly, sawEOF, slots>>
    BY <1>4 DEF Signal
  <2>2. serve' \in {"starting", "listening", "draining", "returned", "failed"}
    BY <2>1 DEF IInv, ServeOK
  <2>3. QED
    BY <2>1, <2>2, CancelStep
<1>5. QED
  BY <1>1, <1>2, <1>3, <1>4 DEF Server

-----------------------------------------------------------------------------
(* The steps of a call before and beside its execution. *)

Moves(c) ==
  \/ Enqueue(c) \/ Take(c) \/ Invalid(c) \/ RunScript(c) \/ Warn(c) \/ Log(c) \/ Deadline(c)

LEMMA Moved ==
  ASSUME IInv, NEW c \in Calls, Moves(c)
  PROVE  \E r : /\ CallOK(r) /\ Set(c, r) /\ r.pc # "buffered"
                /\ r.pc \in {"setup", "script"} <=> call[c].pc \in {"setup", "script"}
                /\ Verdict(r) = Verdict(call[c])
                /\ UNCHANGED <<serve, readOnly, sawEOF, canceledBy, slots>>
<1> DEFINE old == call[c]
<1>0. CallOK(old) /\ old \in Records
  BY DEF IInv, CallsOK, CallOK
<1>1. CASE Enqueue(c)
  <2> DEFINE r == [old EXCEPT !.pc = "queued"]
  <2>1. old.pc = "buffered" /\ Set(c, r) /\ UNCHANGED <<serve, readOnly, sawEOF, canceledBy, slots>>
    BY <1>1 DEF Enqueue
  <2>2. CallOK(r) /\ Verdict(r) = Verdict(old) /\ r.pc = "queued"
    BY <1>0, <2>1 DEF CallOK, Records, Verdict
  <2>3. QED
    BY <2>1, <2>2
<1>2. CASE Take(c)
  <2>1. old.pc = "queued" /\ UNCHANGED <<serve, readOnly, sawEOF, canceledBy, slots>>
    BY <1>2 DEF Take
  <2>2. CASE readOnly /\ old.tool = "mutate"
    <3> DEFINE r == [Unsent EXCEPT !.pc = "answered", !.answer = "rejected"]
    <3>1. Set(c, r)
      BY <1>2, <2>2 DEF Take
    <3>2. r.pc = "answered" /\ r.answer = "rejected" /\ r.logs = "none" /\ ~r.ran /\ r.ctx = "open" /\ r.log = EmptyLog
      BY DEF Unsent
    <3>3. AnswerOK(r, r.answer, r.logs)
      BY <3>2 DEF AnswerOK, Answers, EmptyLog
    <3>4. r \in Records
      BY UnsentOK DEF CallOK, Records, Answers, Unsent
    <3>5. CallOK(r)
      BY <3>2, <3>3, <3>4, EmptyOK DEF CallOK
    <3>6. Verdict(r) = Verdict(old)
      BY <1>0, <2>1, <3>2 DEF Verdict, CallOK
    <3>7. QED
      BY <2>1, <3>1, <3>2, <3>5, <3>6
  <2>3. CASE ~(readOnly /\ old.tool = "mutate")
    <3> DEFINE r == [old EXCEPT !.pc = "taken", !.ctx = IF Canceled THEN "canceled" ELSE "open"]
    <3>1. Set(c, r)
      BY <1>2, <2>3 DEF Take
    <3>2. CallOK(r) /\ Verdict(r) = Verdict(old) /\ r.pc = "taken"
      BY <1>0, <2>1 DEF CallOK, Records, Verdict
    <3>3. QED
      BY <2>1, <3>1, <3>2
  <2>4. QED
    BY <2>2, <2>3
<1>3. CASE Invalid(c)
  <2>1. old.pc = "taken" /\ Set(c, Answered(old, "rejected", "none")) /\ UNCHANGED <<serve, readOnly, sawEOF, canceledBy, slots>>
    BY <1>3 DEF Invalid
  <2>2. AnswerOK(old, "rejected", "none")
    BY <1>0, <2>1 DEF CallOK, AnswerOK, Answers, EmptyLog
  <2>3. CallOK(Answered(old, "rejected", "none")) /\ Answered(old, "rejected", "none").pc = "answered"
    BY <1>0, <2>2, AnsweredOK
  <2>4. Verdict(Answered(old, "rejected", "none")) = Verdict(old)
    BY <1>0, <2>1 DEF Verdict, Answered, Unsent, CallOK
  <2>5. QED
    BY <2>1, <2>3, <2>4
<1>4. CASE RunScript(c)
  <2> DEFINE r == [old EXCEPT !.pc = "script"]
  <2>1. old.pc = "setup" /\ Set(c, r) /\ UNCHANGED <<serve, readOnly, sawEOF, canceledBy, slots>>
    BY <1>4 DEF RunScript
  <2>2. CallOK(r) /\ Verdict(r) = Verdict(old) /\ r.pc = "script"
    BY <1>0, <2>1 DEF CallOK, Records, Verdict
  <2>3. QED
    BY <2>1, <2>2
<1>5. CASE Warn(c)
  <2>1. old.pc = "script" /\ UNCHANGED <<serve, readOnly, sawEOF, canceledBy, slots>>
    BY <1>5 DEF Warn
  <2>2. PICK n \in 1..MaxWritten - old.log.wrote : Set(c, [old EXCEPT !.log = Write(old.log, n)])
    BY <1>5 DEF Warn
  <2> DEFINE log == Write(old.log, n)
             r == [old EXCEPT !.log = log]
  <2>3. old.log \in [kept : 0..LogLimit, cut : BOOLEAN, wrote : 0..MaxWritten] /\ LogOK(old.log)
    BY <1>0 DEF CallOK, Records
  <2>4. LogOK(log) /\ log \in [kept : 0..LogLimit, cut : BOOLEAN, wrote : 0..MaxWritten]
    BY <2>3, Written
  <2> HIDE DEF log
  <2>5. CallOK(r) /\ Verdict(r) = Verdict(old) /\ r.pc = "script"
    BY <1>0, <2>1, <2>4 DEF CallOK, Records, Verdict
  <2>6. QED
    BY <2>1, <2>2, <2>5 DEF log
<1>6. CASE Log(c)
  <2> DEFINE r == [old EXCEPT !.logged = TRUE]
  <2>1. old.pc = "script" /\ Set(c, r) /\ UNCHANGED <<serve, readOnly, sawEOF, canceledBy, slots>>
    BY <1>6 DEF Log
  <2>2. CallOK(r) /\ Verdict(r) = Verdict(old) /\ r.pc = "script"
    BY <1>0, <2>1 DEF CallOK, Records, Verdict
  <2>3. QED
    BY <2>1, <2>2
<1>7. CASE Deadline(c)
  <2> DEFINE r == [old EXCEPT !.ctx = "deadline"]
  <2>1. old.pc \in {"setup", "script"} /\ Set(c, r) /\ UNCHANGED <<serve, readOnly, sawEOF, canceledBy, slots>>
    BY <1>7 DEF Deadline, Executing, At
  <2>2. CallOK(r) /\ Verdict(r) = Verdict(old) /\ r.pc = old.pc
    BY <1>0, <2>1 DEF CallOK, Records, Verdict
  <2>3. QED
    BY <2>1, <2>2
<1>8. QED
  BY <1>1, <1>2, <1>3, <1>4, <1>5, <1>6, <1>7 DEF Moves

LEMMA VerdictsKept ==
  ASSUME IInv, NEW c \in Calls, NEW r, CallOK(r), Set(c, r), Verdict(r) = Verdict(call[c])
  PROVE  Verdicts' = Verdicts
<1>1. \A d \in Calls : Verdict(call'[d]) = Verdict(call[d])
  BY SetCall DEF IInv
<1>2. QED
  BY <1>1 DEF Verdicts

LEMMA MoveStep ==
  ASSUME IInv, NEW c \in Calls, Moves(c)
  PROVE  IInv' /\ Executing' = Executing /\ Verdicts' = Verdicts
<1>1. PICK r : /\ CallOK(r) /\ Set(c, r) /\ r.pc # "buffered"
               /\ r.pc \in {"setup", "script"} <=> call[c].pc \in {"setup", "script"}
               /\ Verdict(r) = Verdict(call[c])
               /\ UNCHANGED <<serve, readOnly, sawEOF, canceledBy, slots>>
  BY Moved
<1>2. IInv' /\ Executing' = Executing
  BY <1>1, CallStep
<1>3. Verdicts' = Verdicts
  BY <1>1, VerdictsKept
<1>4. QED
  BY <1>2, <1>3

-----------------------------------------------------------------------------
(* The steps that use the limiter. *)

LEMMA FullIsFull ==
  ASSUME IInv
  PROVE  ~Free <=> Pool!Full
<1>0. slots \in Nat /\ MaxConcurrent \in Nat /\ slots <= MaxConcurrent
  BY Bounds DEF IInv, ServeOK, SlotsOK
<1>1. CASE MaxConcurrent = 0
  BY <1>1 DEF Free, Pool!Full
<1>2. CASE MaxConcurrent > 0
  <2>1. slots = Cardinality(Executing)
    BY <1>2, Bounds DEF IInv, SlotsOK
  <2>2. IsFiniteSet(1..MaxConcurrent) /\ Cardinality(1..MaxConcurrent) = MaxConcurrent
    BY <1>2, Bounds, FS_Interval
  <2>3. ASSUME ~Free PROVE Pool!Full
    <3>1. slots = MaxConcurrent
      BY <1>0, <1>2, <2>3 DEF Free
    <3>2. ExistsBijection(1..MaxConcurrent, Executing)
      BY <2>1, <3>1, ExecutingFinite, FS_CardinalityType
    <3>3. PICK f \in Injection(1..MaxConcurrent, Executing) : TRUE
      BY <3>2 DEF ExistsBijection, Bijection
    <3>4. f \in [1..MaxConcurrent -> Executing] /\ \A i, j \in 1..MaxConcurrent : f[i] = f[j] => i = j
      BY <3>3 DEF Injection, IsInjective
    <3>5. QED
      BY <1>2, <3>4 DEF Pool!Full
  <2>4. ASSUME Free, Pool!Full PROVE FALSE
    <3>1. slots < MaxConcurrent
      BY <1>0, <1>2, <2>4 DEF Free
    <3>2. PICK f \in [1..MaxConcurrent -> Executing] : \A i, j \in 1..MaxConcurrent : f[i] = f[j] => i = j
      BY <2>4 DEF Pool!Full
    <3>3. f \in Injection(1..MaxConcurrent, Executing)
      BY <3>2 DEF Injection, IsInjective
    <3>4. Cardinality(1..MaxConcurrent) <= Cardinality(Executing)
      BY <3>3, ExecutingFinite, FS_Injection
    <3>5. QED
      BY <1>0, <2>1, <2>2, <3>1, <3>4
  <2>5. QED
    BY <2>3, <2>4
<1>3. QED
  BY <1>0, <1>1, <1>2

LEMMA RefuseStep ==
  ASSUME IInv, NEW c \in Calls, Refuse(c)
  PROVE  /\ IInv' /\ Executing' = Executing
         /\ Verdicts[c] = "none" /\ Verdicts' = [Verdicts EXCEPT ![c] = "refused"] /\ Pool!Full
<1> DEFINE old == call[c]
           r == Answered(old, "refused", "none")
<1>1. old.pc = "taken" /\ ~Free /\ Set(c, r) /\ UNCHANGED <<serve, readOnly, sawEOF, canceledBy, slots>>
  BY DEF Refuse
<1>2. CallOK(old)
  BY DEF IInv, CallsOK
<1>3. AnswerOK(old, "refused", "none")
  BY <1>1, <1>2 DEF CallOK, AnswerOK, Answers, EmptyLog
<1>4. CallOK(r) /\ r.pc = "answered"
  BY <1>2, <1>3, AnsweredOK
<1>5. Verdict(old) = "none" /\ Verdict(r) = "refused"
  BY <1>1, <1>2 DEF Verdict, Answered, Unsent, CallOK
<1> HIDE DEF r, old
<1>6. IInv' /\ Executing' = Executing
  BY <1>1, <1>4, CallStep DEF old
<1>7. \A d \in Calls \ {c} : call'[d] = call[d]
  BY <1>1, <1>4, SetCall DEF IInv
<1>8. call'[c] = r
  BY <1>1, <1>4, SetCall DEF IInv
<1>9. Verdicts[c] = "none" /\ Verdicts' = [Verdicts EXCEPT ![c] = "refused"]
  <2>1. Verdict(call[c]) = "none" /\ Verdict(call'[c]) = "refused"
    BY <1>5, <1>8 DEF old
  <2>2. \A d \in Calls \ {c} : Verdict(call'[d]) = Verdict(call[d])
    BY <1>7
  <2>3. QED
    BY <2>1, <2>2 DEF Verdicts
<1>10. QED
  BY <1>1, <1>6, <1>9, FullIsFull

LEMMA AcquireStep ==
  ASSUME IInv, NEW c \in Calls, Acquire(c)
  PROVE  /\ IInv' /\ Executing' = Executing \cup {c}
         /\ Verdicts[c] = "none" /\ Verdicts' = [Verdicts EXCEPT ![c] = "ran"] /\ ~Pool!Full
<1> DEFINE old == call[c]
           r == [old EXCEPT !.pc = "setup", !.ran = TRUE]
<1>1. /\ old.pc = "taken" /\ Free /\ Set(c, r) /\ UNCHANGED <<serve, readOnly, sawEOF, canceledBy>>
      /\ slots' = IF MaxConcurrent = 0 THEN slots ELSE slots + 1
  BY DEF Acquire
<1>2. CallOK(old)
  BY DEF IInv, CallsOK
<1>3. CallOK(r) /\ r.pc = "setup" /\ Verdict(old) = "none" /\ Verdict(r) = "ran"
  BY <1>1, <1>2 DEF CallOK, Records, Verdict
<1>4. c \notin Executing
  BY <1>1 DEF Executing, At
<1> HIDE DEF r, old
<1>5. CallsOK' /\ call'[c] = r /\ \A d \in Calls \ {c} : call'[d] = call[d]
  BY <1>1, <1>3, SetCall DEF IInv
<1>6. Executing' = Executing \cup {c}
  BY <1>1, <1>3, Joins DEF IInv
<1>7. Cardinality(Executing') = Cardinality(Executing) + 1
  BY <1>4, <1>6, ExecutingFinite, FS_AddElement
<1>8. SlotsOK' /\ slots' \in Nat
  BY <1>1, <1>7, ExecutingFinite, Bounds DEF IInv, ServeOK, SlotsOK, Free
<1>9. ServeOK'
  BY <1>1, <1>8 DEF IInv, ServeOK
<1>10. ReadBeforeCanceled'
  BY <1>1, <1>3, NotBuffered DEF IInv
<1>11. Verdicts[c] = "none" /\ Verdicts' = [Verdicts EXCEPT ![c] = "ran"]
  BY <1>3, <1>5 DEF Verdicts, old
<1>12. QED
  BY <1>1, <1>5, <1>6, <1>8, <1>9, <1>10, <1>11, FullIsFull DEF IInv

\* However an execution ends, its answer is one it may have.
LEMMA Answering ==
  ASSUME IInv, NEW c \in Calls, SetupFails(c) \/ SetupPanics(c) \/ CodeTooLarge(c) \/ Finish(c)
  PROVE  \E answer, logs : c \in Executing /\ AnswerOK(call[c], answer, logs) /\ Answer(c, answer, logs)
<1> DEFINE r == call[c]
<1>0. CallOK(r) /\ r \in Records
  BY DEF IInv, CallsOK, CallOK
<1>1. \A class : r.ctx # "open" =>
         Normalized(r.ctx, class) \in {"timeout", "internal"} /\ Normalized(r.ctx, "internal") \in {"timeout", "internal"}
  BY <1>0 DEF Normalized, Records
<1>2. \A class : r.ctx = "open" => Normalized(r.ctx, class) = class
  BY DEF Normalized
<1>3. {"ok", "rejected", "tooLarge", "panicked", "internal"} \cap ScriptErrors = {}
  BY ClassesAssumption
<1>4. "refused" \notin ScriptErrors /\ "none" \notin ScriptErrors
  BY ClassesAssumption
<1>5. r.pc = "setup" => r.log.wrote = 0
  BY <1>0 DEF CallOK, EmptyLog
<1>6. CASE SetupFails(c) \/ SetupPanics(c) \/ CodeTooLarge(c)
  <2>1. r.pc = "setup"
    BY <1>6 DEF SetupFails, SetupPanics, CodeTooLarge
  <2>2. \E answer \in {"internal", "panicked", "rejected", "timeout"} : Answer(c, answer, "none")
    BY <1>1, <1>6 DEF SetupFails, SetupPanics, CodeTooLarge
  <2>3. \A answer \in {"internal", "panicked", "rejected", "timeout"} : AnswerOK(r, answer, "none")
    BY <1>3, <1>5, <2>1 DEF AnswerOK, Answers
  <2>4. QED
    BY <2>1, <2>2, <2>3 DEF Executing, At
<1>7. CASE Finish(c)
  <2>1. r.pc = "script"
    BY <1>7 DEF Finish, Ends, Throws, Breaks
  <2>2. \E answer \in {"ok", "tooLarge", "internal"} \cup {Normalized(r.ctx, class) : class \in ScriptErrors \cup {"internal"}},
            logs \in {Lines(r.log), LogsWith(r)} : Answer(c, answer, logs)
    BY <1>7 DEF Finish, Ends, Throws, Breaks
  <2>3. ASSUME NEW logs \in {Lines(r.log), LogsWith(r)}
        PROVE  /\ logs \in {"none", "whole", "cut", "script"}
               /\ r.log.wrote > 0 /\ logs # "script" => logs = IF r.log.wrote > LogLimit THEN "cut" ELSE "whole"
    BY <1>0, LinesTell DEF LogsWith
  <2>4. ASSUME NEW answer \in {"ok", "tooLarge", "internal"} \cup {Normalized(r.ctx, class) : class \in ScriptErrors \cup {"internal"}}
        PROVE  /\ answer \in Answers \ {"none", "refused"}
               /\ r.ctx # "open" => answer \notin ScriptErrors \ {"timeout"}
    BY <1>1, <1>2, <1>3, <1>4 DEF Answers
  <2>5. \E answer, logs : AnswerOK(r, answer, logs) /\ Answer(c, answer, logs)
    BY <2>2, <2>3, <2>4 DEF AnswerOK
  <2>6. QED
    BY <2>1, <2>5 DEF Executing, At
<1>8. QED
  BY <1>6, <1>7

LEMMA LeaveStep ==
  ASSUME IInv, NEW c \in Calls, SetupFails(c) \/ SetupPanics(c) \/ CodeTooLarge(c) \/ Finish(c)
  PROVE  IInv' /\ c \in Executing /\ Executing' = Executing \ {c} /\ Verdicts' = Verdicts
<1>1. PICK answer, logs : c \in Executing /\ AnswerOK(call[c], answer, logs) /\ Answer(c, answer, logs)
  BY Answering
<1>2. /\ IInv' /\ Executing' = Executing \ {c} /\ call'[c] = Answered(call[c], answer, logs)
      /\ \A d \in Calls \ {c} : call'[d] = call[d]
  BY <1>1, AnswerStep
<1>3. call[c].ran
  BY <1>1 DEF IInv, CallsOK, CallOK, Executing, At
<1>4. Verdict(call'[c]) = Verdict(call[c])
  BY <1>2, <1>3 DEF Verdict, Answered
<1>5. \A d \in Calls : Verdict(call'[d]) = Verdict(call[d])
  BY <1>2, <1>4
<1>6. QED
  BY <1>1, <1>2, <1>5 DEF Verdicts

-----------------------------------------------------------------------------
(* The theorems. *)

\* What a step of the server is for the pool.
PoolStep ==
  \/ Executing' = Executing /\ Verdicts' = Verdicts
  \/ \E c \in Calls : Pool!Enter(c) \/ Pool!Refuse(c) \/ Pool!Leave(c)

LEMMA Step ==
  ASSUME IInv, [Next]_vars
  PROVE  IInv' /\ PoolStep
<1>1. CASE Server
  BY <1>1, ServerStep DEF PoolStep
<1>2. ASSUME NEW c \in Calls, Moves(c) PROVE IInv' /\ PoolStep
  BY <1>2, MoveStep DEF PoolStep
<1>3. ASSUME NEW c \in Calls, Refuse(c) PROVE IInv' /\ PoolStep
  <2>1. Pool!Refuse(c)
    BY <1>3, RefuseStep DEF Pool!Refuse
  <2>2. QED
    BY <1>3, <2>1, RefuseStep DEF PoolStep
<1>4. ASSUME NEW c \in Calls, Acquire(c) PROVE IInv' /\ PoolStep
  <2>1. Pool!Enter(c)
    BY <1>4, AcquireStep DEF Pool!Enter
  <2>2. QED
    BY <1>4, <2>1, AcquireStep DEF PoolStep
<1>5. ASSUME NEW c \in Calls, SetupFails(c) \/ SetupPanics(c) \/ CodeTooLarge(c) \/ Finish(c)
      PROVE  IInv' /\ PoolStep
  <2>1. Pool!Leave(c)
    BY <1>5, LeaveStep DEF Pool!Leave
  <2>2. QED
    BY <1>5, <2>1, LeaveStep DEF PoolStep
<1>6. CASE UNCHANGED vars
  <2>1. IInv'
    BY <1>6 DEF vars, IInv, ServeOK, CallsOK, SlotsOK, ReadBeforeCanceled, Executing, At
  <2>2. Executing' = Executing /\ Verdicts' = Verdicts
    BY <1>6 DEF vars, Executing, At, Verdicts
  <2>3. QED
    BY <2>1, <2>2 DEF PoolStep
<1>7. QED
  BY <1>1, <1>2, <1>3, <1>4, <1>5, <1>6 DEF Next, Handle, Execution, Setup, Moves

LEMMA InitOK == Init => IInv /\ Pool!Init
<1> SUFFICES ASSUME Init PROVE IInv /\ Pool!Init
  OBVIOUS
<1>1. \A c \in Calls : call[c] = Unsent
  BY DEF Init
<1>2. Executing = {} /\ At("buffered") = {}
  BY <1>1 DEF Executing, At, Unsent
<1>3. CallsOK
  BY <1>1, UnsentOK DEF Init, CallsOK
<1>4. SlotsOK
  BY <1>2, FS_EmptySet, Bounds DEF Init, SlotsOK
<1>5. IInv
  BY <1>2, <1>3, <1>4 DEF Init, IInv, ServeOK, ReadBeforeCanceled
<1>6. Verdicts = [c \in Calls |-> "none"]
  BY <1>1 DEF Verdicts, Verdict, Unsent
<1>7. QED
  BY <1>2, <1>5, <1>6 DEF Pool!Init

\* Everything the invariant says is so in every reachable state.
THEOREM Invariant == Spec => []IInv
<1>1. Init => IInv
  BY InitOK
<1>2. IInv /\ [Next]_vars => IInv'
  BY Step
<1>3. QED
  BY <1>1, <1>2, PTL DEF Spec

\* Every variable keeps its type, whatever calls arrive.
THEOREM TypeCorrect == Spec => []TypeOK
<1>1. IInv => TypeOK
  BY DEF IInv, ServeOK, CallsOK, CallOK, TypeOK
<1>2. QED
  BY <1>1, Invariant, PTL

\* The limiter holds one token for every execution, on every way out of the handler.
THEOREM SlotsMatchExecutionsHolds == Spec => []SlotsMatchExecutions
<1>1. IInv => SlotsMatchExecutions
  BY Bounds DEF IInv, SlotsOK, SlotsMatchExecutions
<1>2. QED
  BY <1>1, Invariant, PTL

\* No request that came with the end of the input is lost to the cancellation the
\* reader makes.
THEOREM ReadBeforeCanceledHolds == Spec => []ReadBeforeCanceled
<1>1. IInv => ReadBeforeCanceled
  BY DEF IInv
<1>2. QED
  BY <1>1, Invariant, PTL

\* The end of a context is reported as such.
THEOREM ScriptNotBlamedHolds == Spec => []ScriptNotBlamed
<1>1. IInv => ScriptNotBlamed
  <2>1. ASSUME NEW r, CallOK(r), r.ran, r.ctx # "open" PROVE r.answer \notin ScriptErrors \ {"timeout"}
    BY <2>1, ClassesAssumption DEF CallOK, AnswerOK
  <2>2. QED
    BY <2>1 DEF IInv, CallsOK, ScriptNotBlamed
<1>2. QED
  BY <1>1, Invariant, PTL

\* The log buffer loses nothing without saying so.
THEOREM WarningsReachHolds == Spec => []WarningsReach
<1>1. IInv => WarningsReach
  BY DEF IInv, CallsOK, CallOK, AnswerOK, WarningsReach
<1>2. QED
  BY <1>1, Invariant, PTL

\* The limiter as the handlers use it implements the pool.
THEOREM Refines == Spec => ImplementsPool
<1>1. Init => Pool!Init
  BY InitOK
<1>2. IInv /\ [Next]_vars => [Pool!Next]_(Pool!vars)
  BY Step DEF PoolStep, Pool!Next, Pool!vars
<1>3. QED
  BY <1>1, <1>2, Invariant, PTL DEF Spec, ImplementsPool, Pool!Spec
=============================================================================
