--------------------------- MODULE MCRequestDraft ---------------------------
(* The rules of the Intersight provider, and a caller of RequestDraft with the *)
(* drafts and the repairs its messages ask for.                               *)
EXTENDS IntersightCatalog, RuleCatalog, RequestDraft

MCSchemas == SpecSchemas
MCMethods == SdkMethods
MCTemplates == RuleTemplates
MCCatalog == Rules
MCNormalization(spec, s, v) == Normalize(spec, s, v, {})

(* Two templates the generator loses: a later template of the same methods    *)
(* replaces theirs and does not repeat the rule (rules.go:105 of contracts).  *)
LostRules ==
  {<<"vnic.EthNetworkPolicy", Refers("Organization", "organization.Organization")>>,
   <<"fabric.EthNetworkGroupPolicy",
     CustomRule(<<"VlanSettings">>, "native_vlan_in_allowed_vlans")>>}

(* Every body schema asks for an object: what RequestDraftProofs assumes of    *)
(* SchemaIssues, for one value of each other kind.                            *)
ASSUME ObjectsOnly ==
  \A m \in Methods : m.body # "" =>
    \A v \in {Null, Str("text"), Num(1), Bool(TRUE), Arr(<<EmptyObj>>)} :
      BodySchemaIssues(Schemas, BodyOf(m), v) # {}

(* ------------------------- parts of a value ---------------------------- *)
RECURSIVE Put(_, _, _)
(* v with the part at path set to new, in every element where the path goes   *)
(* through an array; what is missing on the way is created.                   *)
Put(v, path, new) ==
  IF path = <<>> THEN new
  ELSE LET rest == Tail(path) IN
    IF Head(path) = "[]"
    THEN IF IsArr(v) /\ v.e # <<>>
         THEN Arr([i \in DOMAIN v.e |-> Put(v.e[i], rest, new)])
         ELSE Arr(<<Put(Null, rest, new)>>)
    ELSE With(v, Head(path), Put(Get(v, Head(path)), rest, new))

(* v without the field a path of field names ends in.                         *)
RECURSIVE Remove(_, _)
Remove(v, path) ==
  IF ~IsObj(v) THEN v
  ELSE IF Len(path) = 1 THEN Without(v, path[1])
  ELSE With(v, path[1], Remove(Get(v, path[1]), Tail(path)))
(* -------------------------- the caller's values ------------------------ *)
Reference == With(EmptyObj, "Moid", Str("m1"))

RECURSIVE Good(_, _)
Good(spec, s) ==
  LET d == Deref(spec, s) IN
    CASE d.relationship -> Reference
      [] ~d.relationship /\ d.type = "array" -> Arr(<<Good(spec, d.items[1])>>)
      [] ~d.relationship /\ d.type = "object" -> EmptyObj
      [] d.type = "integer" -> Num(0)
      [] d.type = "boolean" -> Bool(FALSE)
      [] OTHER -> Str("text")

GoodAt(spec, m, path) == Good(spec, SchemaAt(spec, BodyOf(m), path)[1])

(* Bodies with one part: each field the rules name with a value of its type,  *)
(* or with the value a condition asks for.                                    *)
Parts(spec, m) ==
  {Put(Null, u.path, GoodAt(spec, m, u.path)) : u \in Uses[m.resource]}
    \cup UNION {{Put(Null, rule.when.field, v) : v \in rule.when.in}
                  : rule \in RuleSet[m.resource]}

OsMode == Put(Null, <<"ManagementMode">>, Str("configured-from-operating-system"))

(* Parts of the wrong kind: blank, null, of another type, a selector, a bad   *)
(* file name, a moment that is soon over, a field no schema knows.            *)
SpoiledBy(uses, rules) ==
  LET about(checks) == {rule \in rules : rule.check \in checks} IN
    {With(EmptyObj, u.path[1], v) : u \in uses, v \in {Str(""), Null, Num(1)}}
      \cup {With(EmptyObj, u.path[1], With(EmptyObj, "Selector", Str("text"))) :
              u \in {w \in uses : w.as = "ref"}}
      \cup {Put(Null, rule.field, Str(word)) :
              rule \in about({"pattern", "maximum"}), word \in {Archive, LongName}}
      \cup {Put(Null, rule.field, Str(Soon)) : rule \in about({"future"})}
      \cup IF \E rule \in about({"custom"}) : rule.validator = "persistent_memory_os_mode"
           THEN {OsMode, With(OsMode, "Goals", Arr(<<Str("text")>>))} ELSE {}

Spoiled(m) ==
  {With(EmptyObj, "Unknown", Null), With(Reference, "Moid", Str("m2"))}
    \cup SpoiledBy(Uses[m.resource], RuleSet[m.resource])

Pairs(spec, m) == {Obj(p.f @@ q.f) : p, q \in Parts(spec, m)}

Call(m, path, body) ==
  [stray |-> {}, bad |-> {}, path |-> IF m.moid THEN path ELSE "", body |-> body]

Careless(m) ==
  [Call(m, "", <<>>) EXCEPT !.stray = {"args", "path", "query"},
                            !.bad = {"path", "query", "header"}]

MCDrafts(spec, m) ==
  IF m.body = "" THEN {Call(m, "m1", <<>>), Call(m, "m1", <<EmptyObj>>)}
  ELSE {Call(m, "m1", <<b>>) : b \in {EmptyObj, Str("text")} \cup Pairs(spec, m) \cup Spoiled(m)}
         \cup {Careless(m)}

(* ------------------------- the caller's repairs ------------------------ *)
(* Per issue, what its message asks for.                                      *)
ContractRepairs(a, issue, path) ==
  CASE issue.type = "unknown_field" -> [a EXCEPT !.stray = @ \ {path[1]}]
    [] issue.type = "type_mismatch" -> [a EXCEPT !.bad = @ \ {path[1]}]
    [] issue.type = "required" -> [a EXCEPT !.path = "m1"]
    [] path = <<"body">> -> [a EXCEPT !.body = IF @ = <<>> THEN <<EmptyObj>> ELSE <<>>]
    [] OTHER -> [a EXCEPT !.body = <<Without(@[1], "Moid")>>]

CustomRepair(m, body, path, validator) ==
  CASE validator = "disabled_string" -> Put(body, path, Str("Disabled"))
    [] validator = "ldap_filter" -> Put(body, path, Str(Filter))
    [] validator = "netflow_record_type" -> Put(body, path, Str("IPv4"))
    [] validator \in {"netflow_key_fields", "netflow_non_key_fields"} ->
         Put(body, Append(path, "Counted"), Bool(TRUE))
    [] validator = "native_vlan_in_allowed_vlans" ->
         Put(Put(body, Append(path, "AllowedVlans"), Str("1-10")),
             Append(path, "NativeVlan"), Num(1))
    [] validator = "ippool_ipv4_blocks_require_config" ->
         Put(body, <<"IpV4Config", "Netmask">>, Str("text"))
    [] validator = "persistent_memory_os_mode" ->
         Obj([x \in DOMAIN body.f \ OsModeFields |-> body.f[x]])
    [] validator = "iqnpool_suffix_blocks_require_suffix" ->
         Put(body, <<"IqnSuffixBlocks", "[]", "Suffix">>, Str("text"))

BodyRepairs(spec, m, body, issue) ==
  LET set(v) == {Put(body, path, v) : path \in issue.paths}
      good == {Put(body, path, GoodAt(spec, m, path)) : path \in issue.paths}
      removed == {Remove(body, path) : path \in issue.paths}
      path == CHOOSE p \in issue.paths : TRUE
  IN CASE issue.type \in {"unknown_field", "forbidden"} -> removed
       [] issue.type = "nullable" -> removed \cup good
       [] issue.type \in {"minimum", "contains", "enum"} -> set(issue.expected)
       [] issue.type = "maximum" -> set(Str("text"))
       [] issue.type = "pattern" ->
            set(Str(IF issue.expected = Str("ArchiveName") THEN Archive ELSE "text"))
       [] issue.type = "future" -> set(Str(Later))
       [] issue.type = "relationship" ->
            IF path[Len(path)] = "Moid" THEN set(Str("m1"))
            ELSE IF issue.expected # Null THEN set(issue.expected) ELSE good
       [] issue.type = "custom" -> {CustomRepair(m, body, path, issue.rule)}
       [] OTHER -> good

MCRepairs(spec, m, a, issue) ==
  IF issue.source = "sdk_contract"
  THEN {ContractRepairs(a, issue, CHOOSE p \in issue.paths : TRUE)}
  ELSE {[a EXCEPT !.body = <<b>>] : b \in BodyRepairs(spec, m, a.body[1], issue)}

MCInstants == {Soon}

(* ------------------------- one-of rules, statically --------------------- *)
(* What RequestDraftProofs assumes of the table and, for the drafts, of the    *)
(* normaliser: the demands of a method leave its choices free, and no          *)
(* alternative that is given is lost.                                          *)
ASSUME TableChoices == ChoicesApart
ASSUME AlternativesKept ==
  \A m \in DOMAIN Catalog :
    \A choice \in {rule \in RangeOf(Catalog[m].rules) : rule.check = "requireAny"} :
      \A a \in Drafts(Schemas, m) : \A f \in choice.fields :
        a.body # <<>> /\ Present(a.body[1], f)
          => Present(Normalization(Schemas, BodyOf(m), a.body[1]), f)
=============================================================================
