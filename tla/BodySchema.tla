----------------------------- MODULE BodySchema -----------------------------
(* sandbox/schema_validation.go: a request body against the schema of the     *)
(* embedded spec. The body is normalised first (discriminators and            *)
(* relationship references are filled in), then validated. A schema may refer *)
(* to another by name; one that refers back to itself is followed once.       *)
EXTENDS BodyRules, SchemaForms

CONSTANTS
  Relationships, \* does the provider have a RelationshipBehavior?
  Autofill       \* does the provider fill in discriminators?

ASSUME BodySchemaAssumption == Relationships \in BOOLEAN /\ Autofill \in BOOLEAN

InferredType(s) ==
  IF s.type # "" THEN s.type
  ELSE IF DOMAIN s.properties # {} \/ s.required # {} THEN "object"
  ELSE IF s.items # <<>> THEN "array" ELSE ""

(* -------------------------- normalisation ----------------------------- *)
(* A discriminator that can only have one value and is blank gets that value. *)
Discriminators == {"ClassId", "ObjectType"}
Fillable(s, v, name) ==
  /\ BlankStr(Get(v, name))
  /\ \E w \in PropertyOf(s, name).enum : s.properties[name].enum = {w} /\ ~BlankStr(w)

FillDiscriminators(s, v) ==
  LET filled == {name \in Discriminators : Fillable(s, v, name)} IN
    Obj([name \in filled |-> CHOOSE w \in s.properties[name].enum : TRUE] @@ v.f)

(* A reference by Moid becomes a typed one. A selector stays as it is.        *)
FillRelationship(s, v) ==
  IF ~IsObj(v) \/ ~BlankStr(Get(v, "Selector")) \/ BlankStr(Get(v, "Moid")) THEN v
  ELSE LET typed == IF BlankStr(Get(v, "ObjectType")) /\ s.target # ""
                    THEN With(v, "ObjectType", Str(s.target)) ELSE v
       IN  IF BlankStr(Get(v, "ClassId")) THEN With(typed, "ClassId", Str("mo.MoRef"))
           ELSE typed

RECURSIVE Normalize(_, _, _, _)
Normalize(spec, s, v, visiting) ==
  IF s = NoSchema THEN v
  ELSE IF s.ref # ""
  THEN IF s.ref \in visiting \/ s.ref \notin DOMAIN spec THEN v
       ELSE Normalize(spec, spec[s.ref], v, visiting \cup {s.ref})
  ELSE IF s.relationship /\ Relationships THEN FillRelationship(s, v)
  ELSE IF IsObj(v)
  THEN LET o == IF Autofill THEN FillDiscriminators(s, v) ELSE v
       IN  Obj([x \in DOMAIN o.f |-> Normalize(spec, PropertyOf(s, x), o.f[x], visiting)])
  ELSE IF IsArr(v) /\ s.items # <<>>
  THEN Arr([i \in DOMAIN v.e |-> Normalize(spec, s.items[1], v.e[i], visiting)])
  ELSE v

(* ---------------------------- validation ------------------------------ *)
SchemaIssue(path, type, rule) == Issue({path}, type, "openapi", rule, Null)

MayWrite(s, form) == form \in (IF s.forms = {} THEN {"typedMoRef"} ELSE s.forms)

RelationshipIssues(s, v, path) ==
  LET issue(at, want) == {Issue({at}, "relationship", "openapi", "relationship", want)}
      classID == Get(v, "ClassId")
      objectType == Get(v, "ObjectType")
      untyped == BlankStr(classID) /\ BlankStr(objectType)
  IN  CASE ~IsObj(v) -> {SchemaIssue(path, "type_mismatch", "type")}
        [] IsObj(v) /\ ~BlankStr(Get(v, "Selector")) -> issue(path, Null)
        [] OTHER ->
           IF BlankStr(Get(v, "Moid")) THEN issue(Append(path, "Moid"), Null)
           ELSE IF untyped /\ MayWrite(s, "moidRef") THEN {}
           ELSE IF ~MayWrite(s, "typedMoRef") THEN issue(path, Null)
           ELSE IF classID # Str("mo.MoRef")
           THEN issue(Append(path, "ClassId"), Str("mo.MoRef"))
           ELSE IF s.target # "" /\ objectType # Str(s.target)
           THEN issue(Append(path, "ObjectType"), Str(s.target))
           ELSE {}

(* An option of a oneOf that accepts any object does not count against a      *)
(* single specific match.                                                     *)
Permissive(s) ==
  /\ s.ref = "" /\ ~s.relationship /\ s.required = {} /\ DOMAIN s.properties = {}
  /\ s.enum = {} /\ s.oneOf = <<>> /\ s.anyOf = <<>> /\ s.items = <<>> /\ s.pattern = ""
  /\ InferredType(s) = "object"

(* A missing discriminator is let pass where several are possible.            *)
RelaxMissing(s, name) ==
  /\ name \in Discriminators
  /\ LET c == PropertyOf(s, "ClassId").enum  o == PropertyOf(s, "ObjectType").enum
     IN  Cardinality(c) >= 2 /\ c = o

AllowsAdditional(s) ==
  CASE s.additional = "unset" -> DOMAIN s.properties = {} /\ s.required = {}
    [] s.additional \in {"allowed", "schema"} -> TRUE
    [] OTHER -> FALSE

Scalars == [string |-> "str", boolean |-> "bool", integer |-> "num", number |-> "num"]

RECURSIVE ValueIssues(_, _, _, _, _)
ObjectIssues(spec, s, v, path, visiting) ==
  LET missing == {x \in s.required : x \notin DOMAIN v.f /\ ~RelaxMissing(s, x)}
      known == {x \in DOMAIN v.f : PropertyOf(s, x) # NoSchema}
      field(x, t) == ValueIssues(spec, t, v.f[x], Append(path, x), visiting)
      other(x) == IF ~AllowsAdditional(s)
                  THEN {SchemaIssue(Append(path, x), "unknown_field", "additionalProperties")}
                  ELSE IF s.additional = "schema" THEN field(x, s.extra[1]) ELSE {}
  IN  {SchemaIssue(Append(path, x), "required", "required") : x \in missing}
        \cup UNION {field(x, s.properties[x]) : x \in known}
        \cup UNION {other(x) : x \in DOMAIN v.f \ known}

TypeIssues(spec, s, v, path, visiting) ==
  LET type == InferredType(s)
      mismatch == {SchemaIssue(path, "type_mismatch", "type")}
  IN  CASE type = "object" ->
             IF IsObj(v) THEN ObjectIssues(spec, s, v, path, visiting) ELSE mismatch
        [] type = "array" ->
             IF ~IsArr(v) THEN mismatch
             ELSE IF s.items = <<>> THEN {}
             ELSE UNION {ValueIssues(spec, s.items[1], v.e[i], Append(path, "[]"), visiting)
                           : i \in DOMAIN v.e}
        [] type \in DOMAIN Scalars ->
             IF v.k # Scalars[type] THEN mismatch
             ELSE IF type = "string" /\ s.pattern # "" /\ ~Matches(s.pattern, v.s)
             THEN {SchemaIssue(path, "pattern", "pattern")}
             ELSE {}
        [] OTHER -> {}

ValueIssues(spec, s, v, path, visiting) ==
  LET passes(options) ==
        {i \in DOMAIN options : ValueIssues(spec, options[i], v, path, visiting) = {}}
      specific == {i \in passes(s.oneOf) : ~Permissive(s.oneOf[i])}
  IN IF s.ref # ""
     THEN IF s.ref \in visiting THEN {}
          ELSE IF s.ref \notin DOMAIN spec
          THEN {SchemaIssue(path, "schema_reference", "schema-reference")}
          ELSE ValueIssues(spec, spec[s.ref], v, path, visiting \cup {s.ref})
     ELSE IF v = Null
     THEN IF s.nullable THEN {} ELSE {SchemaIssue(path, "nullable", "nullable")}
     ELSE IF s.relationship /\ Relationships THEN RelationshipIssues(s, v, path)
     ELSE IF s.oneOf # <<>> /\ Cardinality(specific) # 1 /\ Cardinality(passes(s.oneOf)) # 1
     THEN {SchemaIssue(path, "one_of", "oneOf")}
     ELSE IF s.anyOf # <<>> /\ passes(s.anyOf) = {}
     THEN {SchemaIssue(path, "any_of", "anyOf")}
     ELSE IF s.enum # {} /\ v \notin s.enum
     THEN {Issue({path}, "enum", "openapi", "enum", CHOOSE w \in s.enum : TRUE)}
     ELSE TypeIssues(spec, s, v, path, visiting)

BodySchemaIssues(spec, s, v) == ValueIssues(spec, s, v, <<>>, {})
=============================================================================
