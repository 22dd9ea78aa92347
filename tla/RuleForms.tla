----------------------------- MODULE RuleForms -----------------------------
(* The semantic rules of internal/contracts/rules.go, built by the            *)
(* constructors the providers' tables use. A SemanticRule of the code has one *)
(* list per check; every constructor fills one of them with one entry, so a   *)
(* rule here carries one check. A condition holds of a body when the field    *)
(* has one of the values of "in"; the rules of no condition have none.        *)
EXTENDS JsonValues

Always == [field |-> <<>>, in |-> {}]
RuleCondition(field, values) == [field |-> field, in |-> values]
FieldRule(field, target, minCount) ==
  [field |-> field, target |-> target, minCount |-> minCount]

Require(kind, when, r) ==
  [kind |-> kind, check |-> "require", when |-> when,
   field |-> r.field, target |-> r.target, minCount |-> r.minCount]
Forbid(kind, when, field) ==
  [kind |-> kind, check |-> "forbid", when |-> when, field |-> field]
Minimum(kind, when, field, least) ==
  [kind |-> kind, check |-> "minimum", when |-> when, field |-> field, least |-> least]
Custom(kind, when, field, validator) ==
  [kind |-> kind, check |-> "custom", when |-> when, field |-> field,
   validator |-> validator]

RequiredRule(field, target, minCount) ==
  Require("required", Always, FieldRule(field, target, minCount))
ForbidRule(field) == Forbid("forbidden", Always, field)
MinimumRule(field, least) == Minimum("minimum", Always, field, least)
CustomRule(field, validator) == Custom("custom", Always, field, validator)
OneOfRule(fields) ==
  [kind |-> "one_of", check |-> "requireAny", when |-> Always, fields |-> fields]
EachRequiredRule(field) ==
  [kind |-> "required_each", check |-> "requireEach", when |-> Always, field |-> field]
MaximumRule(field, most) ==
  [kind |-> "maximum", check |-> "maximum", when |-> Always, field |-> field, most |-> most]
PatternRule(field, pattern) ==
  [kind |-> "pattern", check |-> "pattern", when |-> Always, field |-> field,
   pattern |-> pattern]
FutureRule(field) ==
  [kind |-> "future", check |-> "future", when |-> Always, field |-> field]
ContainsRule(field, value) ==
  [kind |-> "contains", check |-> "contains", when |-> Always, field |-> field,
   value |-> value]

(* The conditional constructors: one value (equals) or several (in).          *)
ConditionalRequireRule(field, values, r) ==
  Require("conditional", RuleCondition(field, values), r)
ConditionalForbidRule(field, values, forbidden) ==
  Forbid("conditional", RuleCondition(field, values), forbidden)
ConditionalMinimumRule(field, values, of, least) ==
  Minimum("conditional", RuleCondition(field, values), of, least)
ConditionalCustomRule(field, values, of, validator) ==
  Custom("conditional", RuleCondition(field, values), of, validator)

RangeOf(seq) == {seq[i] : i \in DOMAIN seq}

(* The fields a rule names.                                                   *)
FieldsOf(rule) == IF rule.check = "requireAny" THEN rule.fields ELSE {rule.field}

(* Checks of whether a field is there, and of the values it has.              *)
PresenceChecks == {"require", "requireEach", "requireAny", "forbid", "minimum"}
ValueChecks == {"maximum", "pattern", "future", "contains", "custom"}
=============================================================================
