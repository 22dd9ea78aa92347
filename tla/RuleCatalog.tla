---------------------------- MODULE RuleCatalog ----------------------------
(* internal/contracts/rules.go: the generator turns a provider's templates    *)
(* into the rules of SDK methods (BuildRuleCatalog), and the server accepts   *)
(* the embedded artifact at start-up only if it is what the templates give    *)
(* and every field a rule names exists in the method's body schema            *)
(* (ValidateRuleCatalogAgainstArtifacts).                                     *)
EXTENDS BodySchema, RuleResolution

(* -------------------------- schema look-ups ---------------------------- *)
RECURSIVE Deref(_, _)
Deref(spec, s) ==
  IF s.ref = "" \/ s.ref \notin DOMAIN spec THEN s ELSE Deref(spec, spec[s.ref])

(* The schema a path leads to, as a sequence of at most one.                  *)
RECURSIVE SchemaAt(_, _, _)
SchemaAt(spec, s, path) ==
  LET d == Deref(spec, s) IN
    IF path = <<>> THEN <<d>>
    ELSE IF Head(path) = "[]"
    THEN IF d.items = <<>> THEN <<>> ELSE SchemaAt(spec, d.items[1], Tail(path))
    ELSE IF Head(path) \in DOMAIN d.properties
    THEN SchemaAt(spec, d.properties[Head(path)], Tail(path))
    ELSE <<>>

RECURSIVE RequiredBySchema(_, _, _)
RequiredBySchema(spec, s, path) ==
  LET d == Deref(spec, s) IN
    \/ path = <<>>
    \/ /\ Head(path) \in d.required \cap DOMAIN d.properties
       /\ RequiredBySchema(spec, d.properties[Head(path)], Tail(path))

(* A required rule that the schema states too is left out; so is one of a     *)
(* method that takes no body.                                                 *)
Omitted(spec, m, rule) ==
  /\ rule.kind = "required"
  /\ \/ m.body = ""
     \/ rule.minCount = 0 /\ RequiredBySchema(spec, BodyOf(m), rule.field)

Filtered(spec, m, rules) == SelectSeq(rules, LAMBDA rule : ~Omitted(spec, m, rule))

(* ------------------------ building the catalog ------------------------- *)
EntryOf(spec, m, t) ==
  [operation |-> m.operation, resource |-> t.resource, rules |-> Filtered(spec, m, t.rules)]

CatalogOf(spec, templates, resolved) ==
  Table([m \in UNION {resolved[i] : i \in DOMAIN resolved} |->
           EntryOf(spec, m, templates[Latest(Stating(resolved, m))])])

BuildRuleCatalog(spec, methods, templates) ==
  CatalogOf(spec, templates, Resolved(methods, templates))

Rules == BuildRuleCatalog(Schemas, Methods, Templates)

(* ----------------------- accepting an artifact ------------------------- *)
AllowUnknownField(spec, m) ==
  LET d == Deref(spec, BodyOf(m)) IN d.type = "object" /\ DOMAIN d.properties = {}

TargetFits(target, s) ==
  LET t == IF s.items # <<>> THEN s.items[1] ELSE s IN t.target \in {"", target}

FieldFits(spec, m, rule, path) ==
  LET at == SchemaAt(spec, BodyOf(m), path) IN
    /\ at # <<>> \/ (rule.check # "forbid" /\ AllowUnknownField(spec, m))
    /\ at # <<>> =>
         CASE rule.check = "require" ->
                rule.target # "" =>
                  rule.target \in DOMAIN spec /\ TargetFits(rule.target, at[1])
           [] rule.check = "minimum" -> at[1].type \in {"integer", "number"}
           [] rule.check \in {"maximum", "pattern", "future"} -> at[1].type = "string"
           [] OTHER -> TRUE

RuleFits(spec, m, rule) ==
  /\ rule.when # Always => SchemaAt(spec, BodyOf(m), rule.when.field) # <<>>
  /\ \A path \in FieldsOf(rule) : FieldFits(spec, m, rule, path)

EntryFits(spec, m, entry) ==
  /\ entry.operation = m.operation
  /\ entry.resource \in DOMAIN spec
  /\ m.resource \in {"", entry.resource}
  /\ m.body # ""
  /\ \A i \in DOMAIN entry.rules : RuleFits(spec, m, entry.rules[i])

ArtifactAccepted(spec, methods, templates, catalog) ==
  /\ \A m \in DOMAIN catalog : m \in methods /\ EntryFits(spec, m, catalog[m])
  /\ catalog = BuildRuleCatalog(spec, methods, templates)

(* The server does not start with an artifact it does not accept.             *)
ASSUME ArtifactAssumption == ArtifactAccepted(Schemas, Methods, Templates, Rules)
=============================================================================
