----------------------------- MODULE BodyRules -----------------------------
(* sandbox/sdk_rules.go: what the semantic rules of a method report about a   *)
(* request body. Only a body that is an object is checked. An issue names the *)
(* paths it is about (several for a one-of rule), and what the rule expected. *)
EXTENDS RuleForms, FiniteSets
LOCAL INSTANCE SequencesExt

Issue(paths, type, source, rule, expected) ==
  [paths |-> paths, type |-> type, source |-> source, rule |-> rule,
   expected |-> expected]
RuleIssue(paths, type, rule, expected) == Issue(paths, type, "rules", rule, expected)

(* ------------------------- reading a body ---------------------------- *)
(* One segment of a path: the field when present and not null, or the         *)
(* elements of an array.                                                      *)
Segment(item, name) ==
  IF name = "[]" THEN (IF IsArr(item) THEN item.e ELSE <<>>)
  ELSE IF Get(item, name) = Null THEN <<>> ELSE <<Get(item, name)>>

Values(items, path) ==
  LET inside(vs, name) == FlattenSeq([i \in DOMAIN vs |-> Segment(vs[i], name)])
  IN  FoldLeft(inside, items, path)

(* fieldValues: empty when the code says "not found".                         *)
FieldValues(body, path) == Values(<<body>>, path)

SinglePresence(v) ==
  CASE v = Null -> [present |-> FALSE, count |-> 0]
    [] IsStr(v) -> [present |-> ~BlankStr(v), count |-> 1]
    [] IsArr(v) -> [present |-> v.e # <<>>, count |-> Len(v.e)]
    [] OTHER -> [present |-> TRUE, count |-> 1]

FieldPresence(body, path) ==
  LET vs == FieldValues(body, path) IN
    IF vs = <<>> THEN [present |-> FALSE, count |-> 0]
    ELSE IF \E i \in DOMAIN path : path[i] = "[]"
    THEN [present |-> \A i \in DOMAIN vs : SinglePresence(vs[i]).present,
          count |-> Len(vs)]
    ELSE SinglePresence(vs[1])

Present(body, path) == FieldPresence(body, path).present
\* Mutant of Enough: the count must exceed the minimum.
MoreThanEnough(body, path, n) ==
  LET p == FieldPresence(body, path) IN p.present /\ (n > 0 => p.count > n)
Enough(body, path, n) ==
  LET p == FieldPresence(body, path) IN p.present /\ (n > 0 => p.count >= n)

MatchesCondition(body, when) ==
  \/ when = Always
  \/ LET vs == FieldValues(body, when.field) IN vs # <<>> /\ vs[1] \in when.in

(* Is the last field of the path missing in some element of its parent? The   *)
(* code counts a parent that is not there as missing too.                     *)
MissingEach(body, path) ==
  LET up == SubSeq(path, 1, Len(path) - 1)
      items == FieldValues(body, up)
  IN  IF up = <<>> THEN ~Present(body, path)
      ELSE \/ items = <<>>
           \/ \E i \in DOMAIN items :
                ~IsObj(items[i]) \/ ~Present(items[i], <<path[Len(path)]>>)

(* ------------------------- custom validators -------------------------- *)
AnyTrueBoolean(v) == \E x \in DOMAIN v.f : v.f[x] = Bool(TRUE)

HasNetmask(v) == IsObj(v) /\ ~BlankStr(Get(v, "Netmask"))

Elements(v, name) == IF IsArr(Get(v, name)) THEN {Get(v, name).e[i] : i \in DOMAIN Get(v, name).e}
                     ELSE {}

NativeVlanAllowed(v) ==
  LET native == Get(v, "NativeVlan")  allowed == Get(v, "AllowedVlans")
  IN  native.k = "num" /\ ~BlankStr(allowed) => native.n \in VlansOf(allowed.s)

NetmaskGiven(v) ==
  LET blocks == Elements(v, "IpV4Blocks") IN
    \/ blocks = {}
    \/ HasNetmask(Get(v, "IpV4Config"))
    \/ \E b \in blocks : HasNetmask(Get(b, "IpV4Config"))

OsModeFields == {"Goals", "LocalSecurity", "LogicalNamespaces", "RetainNamespaces"}
OsModeRespected(v) ==
  Get(v, "ManagementMode") = Str("configured-from-operating-system")
    => \A x \in OsModeFields : ~Present(v, <<x>>)

SuffixesGiven(v) ==
  \A b \in Elements(v, "IqnSuffixBlocks") : IsObj(b) => ~BlankStr(Get(b, "Suffix"))

CustomRuleHolds(validator, v) ==
  CASE validator = "disabled_string" -> v = Str("Disabled")
    [] validator = "ldap_filter" -> IsStr(v) /\ (BlankStr(v) \/ v.s = Filter)
    [] validator = "netflow_record_type" -> ~BlankStr(v) /\ v.s # "Invalid"
    [] validator \in {"netflow_key_fields", "netflow_non_key_fields"} ->
         IsObj(v) /\ AnyTrueBoolean(v)
    [] validator = "native_vlan_in_allowed_vlans" -> IsObj(v) /\ NativeVlanAllowed(v)
    [] validator = "ippool_ipv4_blocks_require_config" -> IsObj(v) /\ NetmaskGiven(v)
    [] validator = "persistent_memory_os_mode" -> IsObj(v) /\ OsModeRespected(v)
    [] validator = "iqnpool_suffix_blocks_require_suffix" -> IsObj(v) /\ SuffixesGiven(v)
    [] OTHER -> FALSE

(* ---------------------------- the rules ------------------------------- *)
(* Checks of whether a field is there. Only a minimum asks for more of it.    *)
\* Mutant of OneOfHolds: every alternative is asked for.
AllHold(rule, body) == \A f \in rule.fields : Present(body, f)
OneOfHolds(rule, body) == \E f \in rule.fields : Present(body, f)

MinimumHolds(rule, body) ==
  LET vs == FieldValues(body, rule.field) IN
    vs # <<>> /\ vs[1].k = "num" /\ vs[1].n >= rule.least

PresenceHolds(rule, body) ==
  CASE rule.check = "require" -> Enough(body, rule.field, rule.minCount)
    [] rule.check = "requireEach" -> ~MissingEach(body, rule.field)
    [] rule.check = "requireAny" -> OneOfHolds(rule, body)
    [] rule.check = "forbid" -> ~Present(body, rule.field)
    [] rule.check = "minimum" -> MinimumHolds(rule, body)

(* Checks of the values a field has; they let an absent field pass, except    *)
(* that something must be contained. "passed" are the timestamps that no      *)
(* longer lie in the future.                                                  *)
InFuture(v, passed) == IsStr(v) /\ v.s \in {Soon, Later} \ passed

ValuesHold(rule, body, passed) ==
  LET vs == FieldValues(body, rule.field)
      all(P(_)) == \A i \in DOMAIN vs : P(vs[i])
  IN CASE rule.check = "maximum" -> all(LAMBDA v : IsStr(v) => Length(v.s) <= rule.most)
       [] rule.check = "pattern" -> all(LAMBDA v : IsStr(v) /\ Matches(rule.pattern, v.s))
       [] rule.check = "future" -> all(LAMBDA v : InFuture(v, passed))
       [] rule.check = "contains" -> \E i \in DOMAIN vs : vs[i] = rule.value
       [] rule.check = "custom" -> all(LAMBDA v : CustomRuleHolds(rule.validator, v))

Broken(rule, body, passed) ==
  /\ MatchesCondition(body, rule.when)
  /\ IF rule.check \in ValueChecks
     THEN ~ValuesHold(rule, body, passed) ELSE ~PresenceHolds(rule, body)

PresenceIssue(rule) ==
  CASE rule.check = "require" ->
         RuleIssue({rule.field}, IF rule.minCount > 0 THEN "min_items" ELSE "required",
                   "require", Null)
    [] rule.check = "requireEach" ->
         RuleIssue({rule.field}, "required_each", "requireEach", Null)
    [] rule.check = "requireAny" -> RuleIssue(rule.fields, "one_of", "requireAny", Null)
    [] rule.check = "forbid" -> RuleIssue({rule.field}, "forbidden", "forbid", Null)
    [] rule.check = "minimum" ->
         RuleIssue({rule.field}, "minimum", "minimum", Num(rule.least))

ValueIssue(rule) ==
  LET expected == CASE rule.check = "maximum" -> Num(rule.most)
                    [] rule.check = "pattern" -> Str(rule.pattern)
                    [] rule.check = "contains" -> rule.value
                    [] OTHER -> Null
  IN  RuleIssue({rule.field}, rule.check,
                IF rule.check = "custom" THEN rule.validator ELSE rule.check, expected)

IssueOf(rule) == IF rule.check \in ValueChecks THEN ValueIssue(rule) ELSE PresenceIssue(rule)

SemanticIssues(rules, body, passed) ==
  IF ~IsObj(body) THEN {}
  ELSE {IssueOf(rules[i]) : i \in {j \in DOMAIN rules : Broken(rules[j], body, passed)}}
=============================================================================
