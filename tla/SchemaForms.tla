---------------------------- MODULE SchemaForms ----------------------------
(* The schemas of the embedded spec (internal/contracts/types.go).            *)
EXTENDS JsonValues

(* A schema that says nothing: the others are this one with parts set. What   *)
(* is optional is a sequence of at most one; "additional" is how the schema's *)
(* additionalProperties decode: unset, allowed, refused, schema or broken.    *)
AnySchema ==
  [type |-> "", pattern |-> "", properties |-> NoFields, required |-> {}, items |-> <<>>,
   nullable |-> FALSE, additional |-> "unset", extra |-> <<>>, oneOf |-> <<>>,
   anyOf |-> <<>>, ref |-> "", relationship |-> FALSE, target |-> "", forms |-> {},
   enum |-> {}]

RefTo(name) == [AnySchema EXCEPT !.ref = name]

NoSchema == [AnySchema EXCEPT !.type = "none"]
PropertyOf(s, name) == IF name \in DOMAIN s.properties THEN s.properties[name] ELSE NoSchema
=============================================================================
