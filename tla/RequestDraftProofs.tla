------------------------ MODULE RequestDraftProofs ------------------------
(* Theorems about RequestDraft, for every spec, catalog of methods, table of  *)
(* rules and caller.                                                          *)
(*                                                                            *)
(* The inductive invariant says what a report "valid" leaves true until the   *)
(* call is sent: the method, its arguments and the loaded rules stay, and the *)
(* clock, which moves, only matters to rules about the future.                *)
EXTENDS RequestDraft, InductionTheorems, TLAPS

(* ------------------------- the rules, by form --------------------------- *)

(* The clock only matters to a rule about the future.                         *)
LEMMA OnlyFutureAges ==
  ASSUME NEW rule, NEW body, NEW p, NEW q,
         rule.check # "future", Broken(rule, body, p)
  PROVE  Broken(rule, body, q)
<1>1. CASE rule.check \notin ValueChecks
  BY <1>1 DEF Broken
<1>2. CASE rule.check \in ValueChecks
  <2>1. ValuesHold(rule, body, p) = ValuesHold(rule, body, q)
    BY <1>2 DEF ValuesHold, ValueChecks
  <2>2. QED
    BY <1>2, <2>1 DEF Broken
<1>3. QED
  BY <1>1, <1>2

(* The issue of a rule about the future says so.                              *)
LEMMA FutureIssue ==
  ASSUME NEW rule, rule.check = "future"
  PROVE  IssueOf(rule).type = "future"
BY DEF IssueOf, ValueChecks, ValueIssue, RuleIssue, Issue

(* What the semantic rules report, when nothing but rules about the future is *)
(* broken.                                                                    *)
LEMMA FutureIssuesOnly ==
  ASSUME NEW rules, NEW body, NEW p, NEW q,
         SemanticIssues(rules, body, p) = {}
  PROVE  \A issue \in SemanticIssues(rules, body, q) : issue.type = "future"
<1>1. CASE ~IsObj(body)
  BY <1>1 DEF SemanticIssues
<1>2. CASE IsObj(body)
  <2> SUFFICES ASSUME NEW i \in DOMAIN rules, Broken(rules[i], body, q)
               PROVE  IssueOf(rules[i]).type = "future"
    BY <1>2 DEF SemanticIssues
  <2>1. ~Broken(rules[i], body, p)
    BY <1>2 DEF SemanticIssues
  <2>2. rules[i].check = "future"
    BY <2>1, OnlyFutureAges
  <2>3. QED
    BY <2>2, FutureIssue
<1>3. QED
  BY <1>1, <1>2

(* --------------------------- the invariant ------------------------------ *)
(* The rules and the schemas loaded are those of the resource of the method.  *)
Scope ==
  /\ method \in MethodsOf(method.resource)
  /\ sdk = Loaded(MethodsOf(method.resource), Catalog, Schemas)

(* At some moment that has been, the body had no issue.                       *)
FoundNothing(m, body) ==
  \/ body = <<>>
  \/ /\ SchemaIssues(sdk.schemas, BodyOf(m), body[1]) = {}
     /\ \E p \in SUBSET passed : SemanticIssues(sdk.rules[m], body[1], p) = {}

(* The call of a valid report: well-formed, of a body that names no other     *)
(* Moid than its path and in which nothing was found.                         *)
Settled(m, a) ==
  /\ CallIssues(m, a) = {}
  /\ MoidIssues(m, [a EXCEPT !.body = Normalized(m, a)]) = {}
  /\ FoundNothing(m, Normalized(m, a))

ValidInv == Scope /\ (phase = "valid" => Settled(method, args))

(* Validate settles what it calls valid.                                      *)
LEMMA ValidSettles ==
  ASSUME Compile("validate", method, args).stops = {}
  PROVE  Settled(method, args)
<1> DEFINE body == Normalized(method, args)
<1>1. CallIssues(method, args) = {}
  BY DEF Compile
<1>2. BodyIssues(method, body) = {}
  BY <1>1 DEF Compile
<1>3. MoidIssues(method, [args EXCEPT !.body = body]) = {}
  BY <1>1, <1>2 DEF Compile
<1>4. FoundNothing(method, body)
  <2>1. passed \in SUBSET passed
    OBVIOUS
  <2>2. QED
    BY <1>2, <2>1 DEF BodyIssues, FoundNothing
<1>5. QED
  BY <1>1, <1>3, <1>4 DEF Settled

(* Mutate sends what is settled, and warns of nothing but the clock.          *)
LEMMA SettledIsSent ==
  ASSUME Settled(method, args)
  PROVE  /\ Compile("mutate", method, args).stops = {}
         /\ Compile("mutate", method, args).body = Normalized(method, args)
         /\ \A issue \in Compile("mutate", method, args).warns : issue.type = "future"
<1> DEFINE body == Normalized(method, args)
<1>1. CallIssues(method, args) = {}
  BY DEF Settled
<1>2. MoidIssues(method, [args EXCEPT !.body = body]) = {}
  BY DEF Settled
<1>3. \A issue \in BodyIssues(method, body) : issue.type = "future"
  <2>1. CASE body = <<>>
    BY <2>1 DEF BodyIssues
  <2>2. CASE body # <<>>
    <3>1. SchemaIssues(sdk.schemas, BodyOf(method), body[1]) = {}
      BY <2>2 DEF Settled, FoundNothing
    <3>2. PICK p : SemanticIssues(sdk.rules[method], body[1], p) = {}
      BY <2>2 DEF Settled, FoundNothing
    <3>3. \A issue \in SemanticIssues(sdk.rules[method], body[1], passed) :
            issue.type = "future"
      BY <3>2, FutureIssuesOnly
    <3>4. QED
      BY <2>2, <3>1, <3>3 DEF BodyIssues
  <2>3. QED
    BY <2>1, <2>2
<1>4. QED
  BY <1>1, <1>2, <1>3 DEF Compile

LEMMA ValidInvInitially ==
  ASSUME Init
  PROVE  ValidInv
<1>1. PICK resource : sdk = Loaded(MethodsOf(resource), Catalog, Schemas)
  BY DEF Init
<1>2. method \in MethodsOf(resource)
  BY <1>1 DEF Init, Loaded
<1>3. method.resource = resource
  BY <1>2 DEF MethodsOf
<1>4. QED
  BY <1>1, <1>2, <1>3 DEF Init, Scope, ValidInv

LEMMA ValidInvPreserved ==
  ASSUME ValidInv, [Next]_vars
  PROVE  ValidInv'
<1>1. CASE Validate
  <2>1. Scope'
    BY <1>1 DEF Validate, ValidInv, Scope
  <2>2. ASSUME phase' = "valid"
        PROVE  Settled(method, args)'
    <3>1. Compile("validate", method, args).stops = {}
      BY <1>1, <2>2 DEF Validate
    <3>2. Settled(method, args)
      BY <3>1, ValidSettles
    <3>3. UNCHANGED <<sdk, method, args, passed>>
      BY <1>1 DEF Validate
    <3>4. QED
      BY <3>2, <3>3 DEF Settled, FoundNothing, Normalized
  <2>3. QED
    BY <2>1, <2>2 DEF ValidInv
<1>2. CASE Repair
  BY <1>2 DEF Repair, ValidInv, Scope
<1>3. CASE Send
  BY <1>3 DEF Send, ValidInv, Scope
<1>4. CASE Reopen
  <2>1. PICK m \in DOMAIN sdk.rules : method' = m
    BY <1>4 DEF Reopen
  <2>2. m \in MethodsOf(method.resource)
    BY <2>1 DEF ValidInv, Scope, Loaded
  <2>3. m.resource = method.resource
    BY <2>2 DEF MethodsOf
  <2>4. QED
    BY <1>4, <2>1, <2>2, <2>3 DEF Reopen, ValidInv, Scope
<1>5. CASE Tick
  <2>1. UNCHANGED <<sdk, method, args, phase>> /\ passed \subseteq passed'
    BY <1>5 DEF Tick
  <2>2. Scope'
    BY <2>1 DEF ValidInv, Scope
  <2>3. ASSUME Settled(method, args)
        PROVE  Settled(method, args)'
    BY <2>1, <2>3 DEF Settled, FoundNothing, Normalized
  <2>4. QED
    BY <2>1, <2>2, <2>3 DEF ValidInv
<1>6. CASE UNCHANGED vars
  BY <1>6 DEF vars, ValidInv, Scope, Settled, FoundNothing, Normalized
<1>7. QED
  BY <1>1, <1>2, <1>3, <1>4, <1>5, <1>6 DEF Next

(* A valid report keeps its word: the invariant of RequestDraft.              *)
THEOREM ValidInvHolds == Spec => []ValidInv
<1>1. Init => ValidInv
  BY ValidInvInitially
<1>2. ValidInv /\ [Next]_vars => ValidInv'
  BY ValidInvPreserved
<1>3. QED
  BY <1>1, <1>2, PTL DEF Spec

(* ----------------------- validate and mutate agree ---------------------- *)
LEMMA ValidStepSends ==
  ASSUME ValidInv, [Next]_vars, phase = "valid", phase' # "valid"
  PROVE  /\ phase' = "sent"
         /\ args' = [args EXCEPT !.body = Normalized(method, args)]
         /\ \A issue \in report' : issue.type = "future"
<1>1. Send
  BY DEF Next, Validate, Repair, Reopen, Tick, vars
<1>2. Settled(method, args)
  BY DEF ValidInv
<1>3. QED
  BY <1>1, <1>2, SettledIsSent DEF Send

(* What validate reports as valid, mutate sends as it was validated, with no  *)
(* warning but for a timestamp that has passed meanwhile.                     *)
THEOREM ValidIsSentHolds == Spec => ValidIsSent
<1>1. ValidInv /\ [Next]_vars =>
        [phase = "valid" /\ phase' # "valid" =>
           /\ phase' = "sent"
           /\ args' = [args EXCEPT !.body = Normalized(method, args)]
           /\ \A issue \in report' : issue.type = "future"]_vars
  BY ValidStepSends
<1>2. QED
  BY <1>1, ValidInvHolds, PTL DEF Spec, ValidIsSent

(* --------------------- valid bodies meet the table ---------------------- *)
(* The schemas the server has loaded for a method.                            *)
SchemasFor(m) == Loaded(MethodsOf(m.resource), Catalog, Schemas).schemas

(* A body that is not an object has a schema issue: the schema of a method    *)
(* with rules asks for an object.                                             *)
RefusesNonObjects ==
  \A m \in DOMAIN Catalog : \A v :
    SchemaIssues(SchemasFor(m), BodyOf(m), v) = {} => IsObj(v)

(* A rule of the table that is not lost is one the server has loaded.         *)
LEMMA StatedIsLoaded ==
  ASSUME Scope, NEW rule \in Stated[method], <<method.resource, rule>> \notin Lost
  PROVE  /\ method \in DOMAIN Catalog
         /\ \E i \in DOMAIN sdk.rules[method] : sdk.rules[method][i] = rule
<1>1. method \in Methods
  BY DEF Scope, MethodsOf
<1>2. method \in DOMAIN Catalog /\ rule \in RangeOf(Catalog[method].rules)
  BY <1>1, CatalogAssumption
<1>3. sdk.rules[method] = Catalog[method].rules
  BY <1>2 DEF Scope, Loaded, RulesOf
<1>4. QED
  BY <1>2, <1>3 DEF RangeOf

(* Of checks the last of which fails, one is the first to fail.               *)
LEMMA FailingIsFound ==
  ASSUME NEW checks, NEW n \in Nat, n \in DOMAIN checks, DOMAIN checks = 1 .. n,
         checks[n].fails
  PROVE  FirstFailing(checks) # {}
<1> DEFINE failing == {i \in DOMAIN checks : checks[i].fails}
<1>1. failing \subseteq Nat /\ failing # {}
  OBVIOUS
<1>2. PICK i \in failing : \A k \in failing : i <= k
  BY <1>1, LeastElement
<1>3. checks[i].issue \in FirstFailing(checks)
  BY <1>2 DEF FirstFailing
<1>4. QED
  BY <1>3

LEMMA LastOfFive ==
  ASSUME NEW S, NEW a \in Seq(S), NEW b \in Seq(S), NEW c \in Seq(S), NEW d \in Seq(S),
         NEW e \in Seq(S), Len(e) > 0, e[Len(e)].fails
  PROVE  FirstFailing(a \o b \o c \o d \o e) # {}
<1> DEFINE p == a \o b \o c \o d
           all == p \o e
<1>1. p \in Seq(S)
  OBVIOUS
<1> HIDE DEF p
<1>2. Len(all) \in Nat /\ DOMAIN all = 1 .. Len(all) /\ Len(all) \in DOMAIN all
  BY <1>1
<1>3. all[Len(all)] = e[Len(e)]
  BY <1>1
<1> HIDE DEF all
<1>4. all[Len(all)].fails
  BY <1>3
<1>5. FirstFailing(all) # {}
  BY <1>2, <1>4, FailingIsFound
<1>6. QED
  BY <1>5 DEF all, p

(* The groups of checks of a call: their issues are issues.                   *)
LEMMA ChecksTyped ==
  ASSUME NEW m, NEW a
  PROVE  \E S : /\ \A c \in S : IsIssue(c.issue) /\ c.issue.source = "sdk_contract"
                /\ ArgChecks(m, a) \in Seq(S)
                /\ PathChecks(m, a) \in Seq(S)
                /\ QueryChecks(m, a) \in Seq(S)
                /\ HeaderChecks(m, a) \in Seq(S)
                /\ BodyChecks(m, a) \in Seq(S)
                /\ Len(BodyChecks(m, a)) = 2
<1> DEFINE c1 == Check("args" \in a.stray, <<"args">>, "unknown_field")
           c2 == Check("path" \in a.bad, <<"path">>, "type_mismatch")
           c3 == Check("path" \in a.stray, <<"path">>, "unknown_field")
           c4 == Check(m.moid /\ a.path = "", <<"path">>, "required")
           c5 == Check("query" \in a.bad, <<"query">>, "type_mismatch")
           c6 == Check("query" \in a.stray, <<"query">>, "unknown_field")
           c7 == Check("header" \in a.bad, <<"header">>, "type_mismatch")
           c8 == Check(a.body # <<>> /\ m.body = "", <<"body">>, "sdk_contract")
           c9 == Check(a.body = <<>> /\ m.body # "", <<"body">>, "sdk_contract")
           S == {c1, c2, c3, c4, c5, c6, c7, c8, c9}
<1>1. /\ ArgChecks(m, a) = <<c1>>
      /\ PathChecks(m, a) = <<c2, c3, c4>>
      /\ QueryChecks(m, a) = <<c5, c6>>
      /\ HeaderChecks(m, a) = <<c7>>
      /\ BodyChecks(m, a) = <<c8, c9>>
  BY Zenon DEF ArgChecks, PathChecks, QueryChecks, HeaderChecks, BodyChecks
<1> DEFINE Refusal(c) == IsIssue(c.issue) /\ c.issue.source = "sdk_contract"
<1>2. /\ Refusal(c1) /\ Refusal(c2) /\ Refusal(c3)
      /\ Refusal(c4) /\ Refusal(c5) /\ Refusal(c6)
      /\ Refusal(c7) /\ Refusal(c8) /\ Refusal(c9)
  BY DEF Check, ContractIssue, Issue, IsIssue, IssueTypes
<1> HIDE DEF c1, c2, c3, c4, c5, c6, c7, c8, c9
<1>3. /\ ArgChecks(m, a) \in Seq(S)
      /\ PathChecks(m, a) \in Seq(S)
      /\ QueryChecks(m, a) \in Seq(S)
      /\ HeaderChecks(m, a) \in Seq(S)
      /\ BodyChecks(m, a) \in Seq(S)
      /\ Len(BodyChecks(m, a)) = 2
  BY <1>1
<1>4. \A c \in S : IsIssue(c.issue) /\ c.issue.source = "sdk_contract"
  BY <1>2
<1> HIDE DEF S
<1>5. QED
  BY <1>3, <1>4

(* The last check of a call is not missed.                                    *)
LEMMA LastCheckIsFound ==
  ASSUME NEW m, NEW a, BodyChecks(m, a)[2].fails
  PROVE  CallIssues(m, a) # {}
<1>1. PICK S : /\ ArgChecks(m, a) \in Seq(S)
               /\ PathChecks(m, a) \in Seq(S)
               /\ QueryChecks(m, a) \in Seq(S)
               /\ HeaderChecks(m, a) \in Seq(S)
               /\ BodyChecks(m, a) \in Seq(S)
               /\ Len(BodyChecks(m, a)) = 2
  BY ChecksTyped
<1>2. Len(BodyChecks(m, a)) > 0 /\ BodyChecks(m, a)[Len(BodyChecks(m, a))].fails
  BY <1>1
<1>3. FirstFailing(ArgChecks(m, a) \o PathChecks(m, a) \o QueryChecks(m, a)
                     \o HeaderChecks(m, a) \o BodyChecks(m, a)) # {}
  BY <1>1, <1>2, LastOfFive
<1>4. QED
  BY <1>3 DEF CallIssues

(* A call with rules that is well-formed has a body.                          *)
LEMMA CallHasBody ==
  ASSUME NEW m, m.body # "", NEW a, CallIssues(m, a) = {}
  PROVE  a.body # <<>>
<1>1. BodyChecks(m, a)[2].fails = (a.body = <<>> /\ m.body # "")
  BY DEF BodyChecks, Check
<1>2. QED
  BY <1>1, LastCheckIsFound

(* What a report of no issues means: the body meets every rule that any       *)
(* template states for the method; the lost rules and the clock excepted.     *)
THEOREM ValidMeetsTheTableHolds ==
  ASSUME RefusesNonObjects
  PROVE  Spec => []ValidMeetsTheTable
<1>1. ValidInv => ValidMeetsTheTable
  <2> SUFFICES ASSUME ValidInv, phase = "valid",
                      NEW rule \in Stated[method],
                      rule.check # "future", <<method.resource, rule>> \notin Lost
               PROVE  ~Broken(rule, Normalized(method, args)[1], {})
    BY DEF ValidMeetsTheTable
  <2> DEFINE body == Normalized(method, args)
  <2>1. Scope /\ Settled(method, args)
    BY DEF ValidInv
  <2>2. method \in DOMAIN Catalog
    BY <2>1, StatedIsLoaded
  <2>3. PICK i \in DOMAIN sdk.rules[method] : sdk.rules[method][i] = rule
    BY <2>1, StatedIsLoaded
  <2>4. method.body # "" /\ args.body # <<>>
    BY <2>1, <2>2, CatalogAssumption, CallHasBody DEF Settled
  <2>5. body = <<Normalization(sdk.schemas, BodyOf(method), args.body[1])>>
    BY <2>4 DEF Normalized
  <2>6. SchemaIssues(sdk.schemas, BodyOf(method), body[1]) = {}
    BY <2>1, <2>5 DEF Settled, FoundNothing
  <2>7. PICK p : SemanticIssues(sdk.rules[method], body[1], p) = {}
    BY <2>1, <2>5 DEF Settled, FoundNothing
  <2>8. IsObj(body[1])
    BY <2>1, <2>2, <2>6, RefusesNonObjects DEF RefusesNonObjects, SchemasFor, Scope
  <2>9. ~Broken(rule, body[1], p)
    BY <2>3, <2>7, <2>8 DEF SemanticIssues
  <2>10. QED
    BY <2>9, OnlyFutureAges
<1>2. QED
  BY <1>1, ValidInvHolds, PTL

(* ------------------------- type correctness ----------------------------- *)
(* What is asked of the parameters: the caller keeps to the form of a call,   *)
(* and the validator of bodies to the form of an issue.                       *)
FormsKept ==
  \A m \in Methods :
    /\ \A a \in Drafts(SchemasFor(m), m) : IsCall(a)
    /\ \A a, issue :
         IsCall(a) /\ IsIssue(issue)
           => \A b \in Repairs(SchemasFor(m), m, a, issue) : IsCall(b)
    /\ \A v : \A issue \in SchemaIssues(SchemasFor(m), BodyOf(m), v) :
         IsIssue(issue) /\ issue.source = "openapi"

LEMMA ScopeKnown ==
  ASSUME Scope
  PROVE  method \in Methods /\ sdk.schemas = SchemasFor(method)
BY DEF Scope, MethodsOf, SchemasFor

LEMMA CallIssuesTyped ==
  ASSUME NEW m, NEW a, NEW issue \in CallIssues(m, a)
  PROVE  IsIssue(issue) /\ issue.source = "sdk_contract"
<1>1. PICK S : /\ \A c \in S : IsIssue(c.issue) /\ c.issue.source = "sdk_contract"
               /\ ArgChecks(m, a) \in Seq(S)
               /\ PathChecks(m, a) \in Seq(S)
               /\ QueryChecks(m, a) \in Seq(S)
               /\ HeaderChecks(m, a) \in Seq(S)
               /\ BodyChecks(m, a) \in Seq(S)
  BY ChecksTyped
<1> DEFINE checks == ArgChecks(m, a) \o PathChecks(m, a) \o QueryChecks(m, a)
                       \o HeaderChecks(m, a) \o BodyChecks(m, a)
<1>2. checks \in Seq(S)
  BY <1>1
<1>3. issue \in FirstFailing(checks)
  BY DEF CallIssues
<1> HIDE DEF checks
<1>4. PICK i \in DOMAIN checks : issue = checks[i].issue
  BY <1>3 DEF FirstFailing
<1>5. QED
  BY <1>1, <1>2, <1>4

LEMMA MoidIssuesTyped ==
  ASSUME NEW m, NEW a, NEW issue \in MoidIssues(m, a)
  PROVE  IsIssue(issue) /\ issue.source = "sdk_contract"
<1>1. issue = ContractIssue(<<"body", "Moid">>, "sdk_contract")
  BY Zenon DEF MoidIssues
<1>2. QED
  BY <1>1 DEF ContractIssue, Issue, IsIssue, IssueTypes

(* The issue of a rule of the catalog.                                        *)
LEMMA RuleIssueTyped ==
  ASSUME NEW rule, rule.check \in PresenceChecks \cup ValueChecks
  PROVE  IsIssue(IssueOf(rule))
<1>1. CASE rule.check \in ValueChecks
  BY <1>1 DEF IssueOf, ValueIssue, RuleIssue, Issue, IsIssue, IssueTypes, ValueChecks
<1>2. CASE rule.check \notin ValueChecks
  BY <1>2 DEF IssueOf, PresenceIssue, RuleIssue, Issue, IsIssue, IssueTypes, PresenceChecks
<1>3. QED
  BY <1>1, <1>2

LEMMA BodyIssuesTyped ==
  ASSUME FormsKept, Scope, NEW body, NEW issue \in BodyIssues(method, body)
  PROVE  IsIssue(issue)
<1>1. CASE issue \in SchemaIssues(sdk.schemas, BodyOf(method), body[1])
  BY <1>1, ScopeKnown DEF FormsKept
<1>2. CASE issue \in SemanticIssues(sdk.rules[method], body[1], passed)
  <2>1. PICK i \in DOMAIN sdk.rules[method] : issue = IssueOf(sdk.rules[method][i])
    BY <1>2 DEF SemanticIssues
  <2>2. sdk.rules[method] = RulesOf(Catalog, method)
    BY DEF Scope, Loaded
  <2>3. method \in DOMAIN Catalog /\ sdk.rules[method] = Catalog[method].rules
    BY <2>1, <2>2 DEF RulesOf
  <2>4. sdk.rules[method][i].check \in PresenceChecks \cup ValueChecks
    BY <2>1, <2>3, CatalogAssumption DEF RangeOf
  <2>5. QED
    BY <2>1, <2>4, RuleIssueTyped
<1>3. QED
  BY <1>1, <1>2 DEF BodyIssues

LEMMA CompileTyped ==
  ASSUME FormsKept, Scope, IsCall(args), NEW mode
  PROVE  LET call == Compile(mode, method, args) IN
           /\ \A issue \in call.stops \cup call.warns : IsIssue(issue)
           /\ IsCall([args EXCEPT !.body = call.body])
<1> DEFINE call == Compile(mode, method, args)
<1>1. ASSUME NEW issue \in call.stops \cup call.warns PROVE IsIssue(issue)
  BY <1>1, CallIssuesTyped, MoidIssuesTyped, BodyIssuesTyped DEF Compile
<1>2. IsCall([args EXCEPT !.body = call.body])
  <2>1. call.body = Normalized(method, args)
    BY DEF Compile
  <2>2. Len(Normalized(method, args)) <= 1
    <3>1. CASE args.body = <<>> \/ method.body = ""
      <4>1. Normalized(method, args) = args.body
        BY <3>1, Zenon DEF Normalized
      <4>2. QED
        BY <4>1 DEF IsCall
    <3>2. CASE ~(args.body = <<>> \/ method.body = "")
      <4>1. PICK v : Normalized(method, args) = <<v>>
        BY <3>2, Zenon DEF Normalized
      <4>2. QED
        BY <4>1
    <3>3. QED
      BY <3>1, <3>2
  <2>3. QED
    BY <2>1, <2>2 DEF IsCall
<1>3. QED
  BY <1>1, <1>2

LEMMA TypePreserved ==
  ASSUME FormsKept, Scope, TypeOK, [Next]_vars
  PROVE  TypeOK'
<1> USE DEF TypeOK
<1>1. CASE Validate
  BY <1>1, CompileTyped DEF Validate
<1>2. CASE Repair
  BY <1>2, ScopeKnown DEF Repair, FormsKept
<1>3. CASE Send
  BY <1>3, CompileTyped DEF Send
<1>4. CASE Reopen
  <2>1. IsCall(args)'
    <3>1. PICK v : args' = [args EXCEPT !.path = "m1", !.body = <<v>>]
      BY <1>4, Zenon DEF Reopen
    <3>2. DOMAIN args' = DOMAIN args
      BY <3>1
    <3>3. /\ args'.stray = args.stray /\ args'.bad = args.bad
          /\ args'.path = "m1" /\ args'.body = <<v>>
      BY <3>1 DEF IsCall
    <3>4. Len(args'.body) <= 1
      <4>1. Len(<<v>>) <= 1
        OBVIOUS
      <4>2. QED
        BY <3>3, <4>1, Zenon
    <3>5. /\ args.stray \subseteq {"args", "path", "query"}
          /\ args.bad \subseteq {"path", "query", "header"}
          /\ DOMAIN args = {"stray", "bad", "path", "body"}
      BY DEF IsCall
    <3>6. QED
      BY <3>2, <3>3, <3>4, <3>5, Zenon DEF IsCall
  <2>2. QED
    BY <1>4, <2>1 DEF Reopen
<1>5. CASE Tick
  BY <1>5 DEF Tick
<1>6. CASE UNCHANGED vars
  BY <1>6 DEF vars
<1>7. QED
  BY <1>1, <1>2, <1>3, <1>4, <1>5, <1>6 DEF Next

(* The variables have the types of the code, and there is something to report *)
(* exactly in a report that says so.                                          *)
THEOREM TypeCorrect ==
  ASSUME FormsKept
  PROVE  Spec => []TypeOK
<1>1. Init => TypeOK
  BY ValidInvInitially, ScopeKnown DEF Init, TypeOK, FormsKept, ValidInv
<1>2. ValidInv /\ TypeOK /\ [Next]_vars => TypeOK'
  BY TypePreserved DEF ValidInv
<1>3. QED
  BY <1>1, <1>2, ValidInvHolds, PTL DEF Spec

(* --------------------------- reports are sound -------------------------- *)
(* A report is about the arguments as they are: it came from compiling them,  *)
(* and neither they nor the clock change before the caller acts on it.        *)
ReportInv ==
  phase = "reported" =>
    \E mode \in {"validate", "mutate"} : report = Compile(mode, method, args).stops

LEMMA ReportInvPreserved ==
  ASSUME ReportInv, [Next]_vars
  PROVE  ReportInv'
<1>1. CASE Validate
  <2>1. /\ report' = Compile("validate", method, args).stops
        /\ UNCHANGED <<sdk, method, args, passed>>
    BY <1>1 DEF Validate
  <2>2. Compile("validate", method, args)' = Compile("validate", method, args)
    BY <2>1 DEF Compile, BodyIssues, Normalized
  <2>3. QED
    BY <2>1, <2>2 DEF ReportInv
<1>2. CASE Send
  <2> SUFFICES ASSUME phase' = "reported" PROVE ReportInv'
    BY DEF ReportInv
  <2>1. /\ report' = Compile("mutate", method, args).stops
        /\ UNCHANGED <<sdk, method, args, passed>>
    BY <1>2 DEF Send
  <2>2. Compile("mutate", method, args)' = Compile("mutate", method, args)
    BY <2>1 DEF Compile, BodyIssues, Normalized
  <2>3. QED
    BY <2>1, <2>2 DEF ReportInv
<1>3. CASE Repair \/ Reopen \/ Tick
  BY <1>3 DEF Repair, Reopen, Tick, ReportInv
<1>4. CASE UNCHANGED vars
  BY <1>4 DEF vars, ReportInv, Compile, BodyIssues, Normalized
<1>5. QED
  BY <1>1, <1>2, <1>3, <1>4 DEF Next

(* An issue that names a rule stems from one the drafted body breaks.         *)
ReportsAreSound ==
  phase = "reported" =>
    \A issue \in report : issue.source = "rules" =>
      \E rule \in RuleRange(method) :
        /\ issue = IssueOf(rule)
        /\ args.body # <<>>
        /\ Broken(rule, Normalized(method, args)[1], passed)

LEMMA SoundReport ==
  ASSUME FormsKept, Scope, ReportInv
  PROVE  ReportsAreSound
<1> SUFFICES ASSUME phase = "reported", NEW issue \in report, issue.source = "rules"
             PROVE  \E rule \in RuleRange(method) :
                      /\ issue = IssueOf(rule)
                      /\ args.body # <<>>
                      /\ Broken(rule, Normalized(method, args)[1], passed)
  BY DEF ReportsAreSound
<1> DEFINE body == Normalized(method, args)
<1>1. PICK mode \in {"validate", "mutate"} : report = Compile(mode, method, args).stops
  BY DEF ReportInv
<1>2. /\ issue \notin CallIssues(method, args)
      /\ issue \notin MoidIssues(method, [args EXCEPT !.body = body])
  BY CallIssuesTyped, MoidIssuesTyped
<1>3. issue \in BodyIssues(method, body)
  BY <1>1, <1>2 DEF Compile
<1>4. issue \notin SchemaIssues(sdk.schemas, BodyOf(method), body[1])
  BY ScopeKnown DEF FormsKept
<1>5. body # <<>> /\ issue \in SemanticIssues(sdk.rules[method], body[1], passed)
  BY <1>3, <1>4 DEF BodyIssues
<1>6. args.body # <<>>
  BY <1>5, Zenon DEF Normalized
<1>7. PICK i \in DOMAIN sdk.rules[method] :
        Broken(sdk.rules[method][i], body[1], passed) /\ issue = IssueOf(sdk.rules[method][i])
  BY <1>5 DEF SemanticIssues
<1>8. QED
  BY <1>6, <1>7 DEF RuleRange, RangeOf

(* Every issue of a report that names a rule is that of a rule of the method  *)
(* which the body breaks as it is now, for any catalog and any caller         *)
(* (sdk_rules.go:14).                                                         *)
THEOREM ReportsAreSoundHolds ==
  ASSUME FormsKept
  PROVE  Spec => []ReportsAreSound
<1>1. Init => ReportInv
  BY DEF Init, ReportInv
<1>2. ReportInv /\ [Next]_vars => ReportInv'
  BY ReportInvPreserved
<1>3. ValidInv /\ ReportInv => ReportsAreSound
  BY SoundReport DEF ValidInv
<1>4. QED
  BY <1>1, <1>2, <1>3, ValidInvHolds, PTL DEF Spec

(* ---------------------- one alternative is enough ----------------------- *)
(* The issue of a one-of rule tells which alternatives it is about, and that  *)
(* none of them is there.                                                     *)
LEMMA OneOfIssue ==
  ASSUME NEW rule, rule.check \in PresenceChecks \cup ValueChecks,
         NEW choice, choice.check = "requireAny",
         IssueOf(rule) = IssueOf(choice)
  PROVE  rule.check = "requireAny" /\ rule.fields = choice.fields
<1>1. IssueOf(choice) = RuleIssue(choice.fields, "one_of", "requireAny", Null)
  BY DEF IssueOf, PresenceIssue, ValueChecks
<1>2. rule.check \notin ValueChecks
  <2> SUFFICES ASSUME rule.check \in ValueChecks PROVE FALSE
    OBVIOUS
  <2>1. IssueOf(rule).type = rule.check
    BY DEF IssueOf, ValueIssue, RuleIssue, Issue
  <2>2. QED
    BY <1>1, <2>1 DEF RuleIssue, Issue, ValueChecks
<1>3. IssueOf(rule) = PresenceIssue(rule) /\ rule.check \in PresenceChecks
  BY <1>2 DEF IssueOf
<1>4. rule.check = "requireAny"
  BY <1>1, <1>3 DEF PresenceIssue, RuleIssue, Issue, PresenceChecks
<1>5. QED
  BY <1>1, <1>3, <1>4 DEF PresenceIssue, RuleIssue, Issue

LEMMA BrokenChoice ==
  ASSUME NEW rule, NEW body, NEW p, rule.check = "requireAny", Broken(rule, body, p)
  PROVE  \A f \in rule.fields : ~Present(body, f)
BY DEF Broken, PresenceHolds, OneOfHolds, ValueChecks

(* Normalisation loses no alternative that was given.                         *)
KeepsAlternatives ==
  \A m \in DOMAIN Catalog : \A choice \in RangeOf(Catalog[m].rules) :
    choice.check = "requireAny" =>
      \A v : \A f \in choice.fields :
        Present(v, f) => Present(Normalization(SchemasFor(m), BodyOf(m), v), f)

LEMMA RulesLoaded ==
  ASSUME Scope, NEW rule \in RuleRange(method)
  PROVE  method \in DOMAIN Catalog /\ rule \in RangeOf(Catalog[method].rules)
<1>1. sdk.rules[method] = RulesOf(Catalog, method)
  BY DEF Scope, Loaded
<1>2. QED
  BY <1>1 DEF RuleRange, RangeOf, RulesOf

LEMMA ChoiceNotReported ==
  ASSUME Scope, KeepsAlternatives, ReportsAreSound, phase = "reported",
         NEW choice \in Choices(method), NEW f \in choice.fields,
         args.body # <<>>, Present(args.body[1], f)
  PROVE  IssueOf(choice) \notin report
<1> SUFFICES ASSUME IssueOf(choice) \in report PROVE FALSE
  OBVIOUS
<1> DEFINE body == Normalized(method, args)
<1>1. choice \in RuleRange(method) /\ choice.check = "requireAny"
  BY DEF Choices
<1>2. IssueOf(choice).source = "rules"
  BY <1>1 DEF IssueOf, PresenceIssue, RuleIssue, Issue, ValueChecks
<1>3. PICK rule \in RuleRange(method) :
        IssueOf(choice) = IssueOf(rule) /\ Broken(rule, body[1], passed)
  BY <1>2 DEF ReportsAreSound
<1>4. rule.check \in PresenceChecks \cup ValueChecks
  BY RulesLoaded, CatalogAssumption
<1>5. rule.check = "requireAny" /\ rule.fields = choice.fields
  BY <1>1, <1>3, <1>4, OneOfIssue
<1>6. ~Present(body[1], f)
  BY <1>3, <1>5, BrokenChoice
<1>7. /\ method \in DOMAIN Catalog
      /\ choice \in RangeOf(Catalog[method].rules)
  BY <1>1, RulesLoaded
<1>8. method.body # ""
  BY <1>7, CatalogAssumption
<1>9. body[1] = Normalization(SchemasFor(method), BodyOf(method), args.body[1])
  BY <1>8, ScopeKnown DEF Normalized
<1>10. Present(body[1], f)
  BY <1>1, <1>7, <1>9 DEF KeepsAlternatives
<1>11. QED
  BY <1>6, <1>10

(* With one alternative given, no rule asks for another, if the demands of    *)
(* the table are apart and normalisation keeps what is given: the one-of rule *)
(* itself is silent then, and so is any other with the same alternatives.     *)
THEOREM ChoiceIsFreeHolds ==
  ASSUME FormsKept, ChoicesApart, KeepsAlternatives
  PROVE  Spec => []ChoiceIsFree
<1>1. ValidInv /\ ReportsAreSound => ChoiceIsFree
  <2> SUFFICES ASSUME ValidInv, ReportsAreSound, phase = "reported",
                      method.resource # "cond.AlarmSuppression",
                      NEW choice \in Choices(method), args.body # <<>>,
                      NEW f \in choice.fields, Present(args.body[1], f),
                      NEW rule \in Demands(method), IssueOf(rule) \in report,
                      ~Meets(rule.when.field, choice.fields)
               PROVE  ~\E path \in FieldsOf(rule) : Meets(path, choice.fields)
    BY DEF ChoiceIsFree
  <2>1. Scope
    BY DEF ValidInv
  <2>2. rule # choice
    BY <2>1, ChoiceNotReported
  <2>3. /\ method \in DOMAIN Catalog
        /\ choice \in RangeOf(Catalog[method].rules)
        /\ rule \in RangeOf(Catalog[method].rules)
    BY <2>1, RulesLoaded DEF Choices, Demands
  <2>4. QED
    BY <2>2, <2>3 DEF ChoicesApart, Choices, Demands
<1>2. QED
  BY <1>1, ValidInvHolds, ReportsAreSoundHolds, PTL

(* ------------------------- aliases of a method -------------------------- *)
(* A template means all names of a write operation or none of them.           *)
LEMMA TemplateMeansAliases ==
  ASSUME NEW t, NEW m \in Methods, NEW n \in Aliases(Methods, m)
  PROVE  m \in Resolve(Methods, t) <=> n \in Resolve(Methods, t)
<1>1. \A k \in Methods : m \in Aliases(Methods, k) <=> n \in Aliases(Methods, k)
  BY DEF Aliases
<1>2. CASE Named(Methods, t) # {}
  BY <1>1, <1>2 DEF Resolve, Named
<1>3. CASE Named(Methods, t) = {}
  BY <1>3 DEF Resolve, Aliases
<1>4. QED
  BY <1>2, <1>3

(* The templates that state the rules of a write operation are the same under *)
(* all its names, also where several templates name it in different ways: a   *)
(* rule cannot hold for the create of a resource under one name and not under *)
(* another (contracts/rules.go:119).                                          *)
THEOREM AliasesAgree ==
  ASSUME NEW m \in Methods, NEW n \in Aliases(Methods, m)
  PROVE  LET resolved == [i \in DOMAIN Templates |-> Resolve(Methods, Templates[i])]
         IN  Stating(resolved, m) = Stating(resolved, n)
BY TemplateMeansAliases DEF Stating
=============================================================================
