--------------------------- MODULE RuleResolution ---------------------------
(* internal/contracts/rules.go: which methods of the SDK catalog a rule       *)
(* template states its rules for.                                             *)
(*                                                                            *)
(* A method is [object, verb, resource, operation, moid, body]: "moid" tells  *)
(* whether its path ends in the Moid of one resource, "body" names the schema *)
(* of its body ("" for none). Its name, "ntp.policies.create" in the code, is *)
(* the pair of object and verb.                                               *)
EXTENDS RuleForms, SchemaForms, FiniteSets

CONSTANTS
  Schemas,   \* the named schemas of the spec
  Methods,   \* the methods of the SDK catalog
  Templates  \* the rule templates of the provider, in order

ASSUME RuleCatalogAssumption ==
  \A m, n \in Methods : m.object = n.object /\ m.verb = n.verb => m = n

BodyOf(m) == RefTo(m.body)

(* ------------------- which methods a template means -------------------- *)
Named(methods, t) == {m \in methods : m.object = t.object /\ m.verb = t.verb}

(* The write aliases of a method: other names of the same operation.          *)
Aliases(methods, m) ==
  {n \in methods : n.operation = m.operation /\ n.resource = m.resource /\ n.verb = m.verb}

(* A template that names no method means the methods of its resource and      *)
(* verb, when they are one operation.                                         *)
Resolve(methods, t) ==
  LET sameVerb == {m \in methods : m.resource = t.resource /\ m.verb = t.verb}
      named == Named(methods, t)
  IN
    IF named # {} THEN UNION {Aliases(methods, m) : m \in named}
    ELSE IF Cardinality({m.operation : m \in sameVerb}) = 1 THEN sameVerb
    ELSE {}

(* The templates that state rules for a method. Each one replaces what the    *)
(* ones before it gave the method: the last one is what stays.                *)
Resolved(methods, templates) ==
  Table([i \in DOMAIN templates |-> Resolve(methods, templates[i])])
Stating(resolved, m) == {i \in DOMAIN resolved : m \in resolved[i]}
\* Mutant of Latest: the first template stays.
Earliest(is) == CHOOSE i \in is : \A j \in is : i <= j
Latest(is) == CHOOSE i \in is : \A j \in is : j <= i

(* What the table says of a method: the rules of all templates that mean it.  *)
StatedBy(templates, resolved) ==
  Table([m \in Methods |->
           UNION {RangeOf(templates[i].rules) : i \in Stating(resolved, m)}])
Stated == StatedBy(Templates, Resolved(Methods, Templates))
=============================================================================
