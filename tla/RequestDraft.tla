---------------------------- MODULE RequestDraft ----------------------------
(* A caller writes the body of a write request with the help of the offline   *)
(* validation: it submits a draft (the validate tool), repairs one of the     *)
(* reported issues, submits again, and in mutate mode has the request sent.   *)
(* Mutate refuses a request only for the form of the call; a body that fails  *)
(* the local validation is sent with a warning, which is the report kept here *)
(* with the phase "sent".                                                     *)
(*                                                                            *)
(* The environment is the caller, the clock (it only moves past the moments   *)
(* in Instants) and the server, which stores what it is sent. The normaliser  *)
(* and the validator of bodies are parameters: BodySchema has the code's.     *)
EXTENDS RuleResolution, BodyRules

CONSTANTS
  Catalog,                \* the rules of the methods: the embedded artifact
  Lost,                   \* the rules of the table the catalog does not have
  Normalization(_, _, _), \* a body, given the schemas and the one it should meet
  SchemaIssues(_, _, _),  \* the issues of a body, given the same
  Drafts(_, _),           \* the arguments a caller may start a method with
  Repairs(_, _, _, _),    \* what a caller may make of the arguments, given an issue
  Instants                \* timestamps the clock may pass

(* What the catalog of the methods is like (RuleCatalog builds it): nothing   *)
(* the table states is missing but what Lost names.                           *)
ASSUME CatalogAssumption ==
  /\ DOMAIN Catalog \subseteq {m \in Methods : m.body # ""}
  /\ \A m \in DOMAIN Catalog : \A rule \in RangeOf(Catalog[m].rules) :
       rule.check \in PresenceChecks \cup ValueChecks
  /\ \A m \in Methods : \A rule \in Stated[m] :
       \/ <<m.resource, rule>> \in Lost
       \/ m \in DOMAIN Catalog /\ rule \in RangeOf(Catalog[m].rules)

VARIABLES
  sdk,     \* sdkRuntime: the rules (per method) and schemas it has loaded
  method,  \* the SDK method called
  args,    \* its arguments [stray, bad, path, body]: in which of them are names
           \* the method does not know, which are malformed; Moid; body
  phase,   \* "draft", "reported", "valid" or "sent"
  report,  \* the issues of the last validation, or the warnings of the call
  origin,  \* "new", or "stored" for a body the server was sent before
  passed   \* the timestamps the clock has passed

vars == <<sdk, method, args, phase, report, origin, passed>>

\* Mutant of RulesOf: only a create has its rules found.
RulesOfCreate(catalog, m) ==
  IF m \in DOMAIN catalog /\ m.verb = "create" THEN catalog[m].rules ELSE <<>>
RulesOf(catalog, m) == IF m \in DOMAIN catalog THEN catalog[m].rules ELSE <<>>

(* What the server loads, as far as the callers of one resource use it. (No   *)
(* body schema of the Intersight spec as it is modelled refers to another.)   *)
Loaded(methods, catalog, spec) ==
  [rules |-> [m \in methods |-> RulesOf(catalog, m)],
   schemas |-> [name \in {m.body : m \in methods} \cap DOMAIN spec |-> spec[name]]]
MethodsOf(resource) == {m \in Methods : m.resource = resource}

(* -------------------------- compileOperation --------------------------- *)
(* The form of the call, in the order of the checks: the first that fails is  *)
(* the whole report.                                                          *)
ContractIssue(path, type) == Issue({path}, type, "sdk_contract", "", Null)
Check(fails, path, type) == [fails |-> fails, issue |-> ContractIssue(path, type)]

ArgChecks(m, a) == <<Check("args" \in a.stray, <<"args">>, "unknown_field")>>

PathChecks(m, a) ==
  <<Check("path" \in a.bad, <<"path">>, "type_mismatch"),
    Check("path" \in a.stray, <<"path">>, "unknown_field"),
    Check(m.moid /\ a.path = "", <<"path">>, "required")>>

QueryChecks(m, a) ==
  <<Check("query" \in a.bad, <<"query">>, "type_mismatch"),
    Check("query" \in a.stray, <<"query">>, "unknown_field")>>

(* The headers of a method (If-Match, If-None-Match) are checked if they are   *)
(* given. The check for one its operation requires is left out: the embedded  *)
(* spec of Intersight, which would name it, is not in the repository.         *)
HeaderChecks(m, a) == <<Check("header" \in a.bad, <<"header">>, "type_mismatch")>>

BodyChecks(m, a) ==
  <<Check(a.body # <<>> /\ m.body = "", <<"body">>, "sdk_contract"),
    Check(a.body = <<>> /\ m.body # "", <<"body">>, "sdk_contract")>>

FirstFailing(checks) ==
  LET failing == {i \in DOMAIN checks : checks[i].fails} IN
    {checks[i].issue : i \in {j \in failing : \A k \in failing : j <= k}}

CallIssues(m, a) ==
  FirstFailing(ArgChecks(m, a) \o PathChecks(m, a) \o QueryChecks(m, a)
                 \o HeaderChecks(m, a) \o BodyChecks(m, a))

(* The body may name no Moid but the one of the path. The Moid of a path is   *)
(* its last segment, also when that is the name of the collection.            *)
Collection == "Policies"
\* Mutant of PathMoid: the segment before the Moid is taken for it.
PathMoidCutShort(m, a) == Collection
PathMoid(m, a) == IF m.moid THEN a.path ELSE Collection
MoidMatches(m, a) ==
  BlankStr(Get(a.body[1], "Moid")) \/ Get(a.body[1], "Moid").s = PathMoid(m, a)
MoidIssues(m, a) ==
  IF a.body # <<>> /\ ~MoidMatches(m, a)
  THEN {ContractIssue(<<"body", "Moid">>, "sdk_contract")} ELSE {}

Normalized(m, a) ==
  IF a.body = <<>> \/ m.body = "" THEN a.body
  ELSE <<Normalization(sdk.schemas, BodyOf(m), a.body[1])>>

BodyIssues(m, body) ==
  IF body = <<>> THEN {}
  ELSE SchemaIssues(sdk.schemas, BodyOf(m), body[1])
         \cup SemanticIssues(sdk.rules[m], body[1], passed)

\* Mutant of Compile: the Moids are compared only when the call is to be sent.
CompileMoidOnSend(mode, m, a) ==
  LET call == CallIssues(m, a)
      body == Normalized(m, a)
      found == IF call # {} THEN {} ELSE BodyIssues(m, body)
      stops == IF call # {} THEN call
               ELSE IF mode # "mutate" THEN found
               ELSE MoidIssues(m, [a EXCEPT !.body = body])
  IN  [body |-> body, stops |-> stops, warns |-> IF stops = {} THEN found ELSE {}]

(* What a call comes to: the body it would send, the issues that stop it, and *)
(* those mutate only warns of.                                                *)
Compile(mode, m, a) ==
  LET call == CallIssues(m, a)
      body == Normalized(m, a)
      found == IF call # {} THEN {} ELSE BodyIssues(m, body)
      stops == IF call # {} THEN call
               ELSE IF found # {} /\ mode # "mutate" THEN found
               ELSE MoidIssues(m, [a EXCEPT !.body = body])
  IN  [body |-> body, stops |-> stops, warns |-> IF stops = {} THEN found ELSE {}]

(* ------------------------------ actions -------------------------------- *)
Init ==
  /\ \E resource \in {m.resource : m \in Methods} :
       sdk = Loaded(MethodsOf(resource), Catalog, Schemas)
  /\ method \in DOMAIN sdk.rules
  /\ args \in Drafts(sdk.schemas, method)
  /\ phase = "draft"
  /\ report = {}
  /\ origin = "new"
  /\ passed = {}

(* validateSDKOffline: the issues, or a report that the call is valid.        *)
Validate ==
  /\ phase = "draft"
  /\ report' = Compile("validate", method, args).stops
  /\ phase' = IF report' = {} THEN "valid" ELSE "reported"
  /\ UNCHANGED <<sdk, method, args, origin, passed>>

(* The caller acts on one issue.                                              *)
Repair ==
  /\ phase = "reported"
  /\ \E issue \in report : args' \in Repairs(sdk.schemas, method, args, issue)
  /\ phase' = "draft"
  /\ report' = {}
  /\ UNCHANGED <<sdk, method, origin, passed>>

\* Mutant of Send: a call with warnings is refused, and its report is lost.
SendOnlyValid ==
  /\ phase \in {"reported", "valid"}
  /\ LET call == Compile("mutate", method, args) IN
       IF call.stops \cup call.warns # {}
       THEN phase' = "reported" /\ report' = call.stops /\ UNCHANGED args
       ELSE phase' = "sent" /\ report' = {} /\ args' = [args EXCEPT !.body = call.body]
  /\ UNCHANGED <<sdk, method, origin, passed>>

(* Mutate mode, after a valid report or in spite of the issues. Preflight,    *)
(* answer and verification are in SdkBridge.                                  *)
Send ==
  /\ phase \in {"reported", "valid"}
  /\ LET call == Compile("mutate", method, args) IN
       IF call.stops # {}
       THEN phase' = "reported" /\ report' = call.stops /\ UNCHANGED args
       ELSE phase' = "sent" /\ report' = call.warns /\ args' = [args EXCEPT !.body = call.body]
  /\ UNCHANGED <<sdk, method, origin, passed>>

(* The caller edits what a create stored: it takes the stored body, which is  *)
(* the one sent with its new Moid, as the body of another write on it.        *)
Reopen ==
  /\ phase = "sent" /\ report = {}
  /\ origin = "new" /\ method.verb = "create"
  /\ \E m \in DOMAIN sdk.rules :
       /\ m.moid
       /\ method' = m
       /\ args' = [args EXCEPT !.path = "m1",
                                !.body = <<With(@[1], "Moid", Str("m1"))>>]
  /\ origin' = "stored"
  /\ phase' = "draft"
  /\ UNCHANGED <<sdk, report, passed>>

(* Time passes; only a method with a rule about the future tells.             *)
Tick ==
  /\ phase \in {"valid", "sent"}
  /\ \E i \in DOMAIN sdk.rules[method] : sdk.rules[method][i].check = "future"
  /\ \E t \in Instants \ passed : passed' = passed \cup {t}
  /\ UNCHANGED <<sdk, method, args, phase, report, origin>>

Next == Validate \/ Repair \/ Send \/ Reopen \/ Tick

(* The caller keeps validating and repairing. The first conjunct is           *)
(* WF_vars(Validate): in a draft Validate is enabled and nothing else is, and *)
(* it leaves the draft. (TLC evaluates ENABLED Validate far too slowly.)      *)
Fairness == []<>(phase # "draft") /\ WF_vars(Repair)
Spec == Init /\ [][Next]_vars /\ Fairness

(* ------------------------------ properties ----------------------------- *)
IssueTypes ==
  {"unknown_field", "required", "sdk_contract", "type_mismatch", "nullable",
   "relationship", "one_of", "any_of", "enum", "pattern", "schema_reference", "min_items",
   "required_each", "forbidden", "minimum", "maximum", "future", "contains", "custom"}

IsIssue(i) == i.type \in IssueTypes /\ i.source \in {"sdk_contract", "openapi", "rules"}

IsCall(a) ==
  /\ DOMAIN a = {"stray", "bad", "path", "body"}
  /\ a.stray \subseteq {"args", "path", "query"}
  /\ a.bad \subseteq {"path", "query", "header"}
  /\ a.path \in {"", "m1"} /\ Len(a.body) <= 1

(* The variables have the types of the code, and there is something to report *)
(* exactly in a report that says so.                                          *)
TypeOK ==
  /\ method \in DOMAIN sdk.rules
  /\ IsCall(args)
  /\ phase \in {"draft", "reported", "valid", "sent"}
  /\ \A issue \in report : IsIssue(issue)
  /\ phase = "reported" => report # {}
  /\ phase \in {"draft", "valid"} => report = {}
  /\ origin \in {"new", "stored"}
  /\ passed \subseteq Instants

(* What a report of no issues means: the body meets every rule that any       *)
(* template states for the method, also where templates overlap; the lost     *)
(* rules excepted. (A timestamp that was in the future may have passed since. *)
(* A rule left to the schema would have to be met too, but there is none: no  *)
(* rule is Omitted in the run, and none is missing in rules.json for that.)   *)
ValidMeetsTheTable ==
  phase = "valid" =>
    \A rule \in Stated[method] :
      \/ rule.check = "future"
      \/ <<method.resource, rule>> \in Lost
      \/ ~Broken(rule, Normalized(method, args)[1], {})

(* What validate reports as valid, mutate sends, as it was validated: the     *)
(* call is not stopped any more, the body sent is the normalised one, and the *)
(* caller is warned of nothing but a timestamp that has passed meanwhile. The *)
(* two modes run the checks in different orders and stop at different ones.   *)
ValidIsSent ==
  [][phase = "valid" /\ phase' # "valid" =>
       /\ phase' = "sent"
       /\ args' = [args EXCEPT !.body = Normalized(method, args)]
       /\ \A issue \in report' : issue.type = "future"]_vars

(* The server's own objects can be edited: a body that a create accepted,     *)
(* given back to post or update as it is stored, is not refused, unless for a *)
(* timestamp that has passed meanwhile. The rules of the verbs, the Moid of   *)
(* the path and the references filled in by normalisation agree.              *)
AcceptedStaysAccepted ==
  origin = "stored" /\ phase = "reported" => \A issue \in report : issue.type = "future"

(* One alternative of a one-of rule is enough: with one given, no rule asks   *)
(* for another, except one whose condition is the value of an alternative. An *)
(* alarm suppression is an exception: AlarmRules[].Property is reported       *)
(* missing when AlarmRules is absent, so Entity alone never does              *)
(* (sdk_rules.go:386).                                                        *)
RuleRange(m) == RangeOf(sdk.rules[m])
Choices(m) == {rule \in RuleRange(m) : rule.check = "requireAny"}
Demands(m) == {rule \in RuleRange(m) : rule.check \in {"requireAny", "require", "requireEach"}}
Meets(path, fields) == path # <<>> /\ path[1] \in {f[1] : f \in fields}
ChoiceIsFree ==
  phase = "reported" /\ method.resource # "cond.AlarmSuppression" =>
    \A choice \in Choices(method) :
      (args.body # <<>> /\ \E f \in choice.fields : Present(args.body[1], f)) =>
        \A rule \in Demands(method) :
          IssueOf(rule) \in report /\ ~Meets(rule.when.field, choice.fields)
            => ~\E path \in FieldsOf(rule) : Meets(path, choice.fields)

(* What that asks of the table: no other demand of the method is about an     *)
(* alternative, unless its condition is.                                      *)
ChoicesApart ==
  \A m \in DOMAIN Catalog : m.resource # "cond.AlarmSuppression" =>
    \A choice, rule \in RangeOf(Catalog[m].rules) :
      /\ choice.check = "requireAny"
      /\ rule.check \in {"requireAny", "require", "requireEach"} /\ rule # choice
      /\ ~Meets(rule.when.field, choice.fields)
      => ~\E path \in FieldsOf(rule) : Meets(path, choice.fields)

(* The reports lead somewhere: whoever keeps doing what they ask, in any      *)
(* order, comes to a valid request. No two rules of a method want opposite    *)
(* things, and no issue comes back for ever.                                  *)
RepairsConverge == phase = "draft" ~> phase \in {"valid", "sent"}
=============================================================================
