---------------------------- MODULE JsonValues ----------------------------
(* The JSON documents the sandbox decodes, as tagged values, and the paths    *)
(* rules and schemas name their parts by. A path is a sequence of field       *)
(* names, in which "[]" stands for every element of an array: the Go code     *)
(* writes <<"Settings", "[]", "SlotId">> as "Settings[].SlotId", and the      *)
(* empty path as ".".                                                         *)
(*                                                                            *)
(* Strings are words of a small vocabulary; what rules ask of a string (is it *)
(* blank, how long is it, which pattern does it match) is given per word.     *)
EXTENDS Naturals, Sequences, TLC

Null == [k |-> "null"]
Str(s) == [k |-> "str", s |-> s]
Num(n) == [k |-> "num", n |-> n]
Bool(b) == [k |-> "bool", b |-> b]
Arr(e) == [k |-> "arr", e |-> e]
Obj(f) == [k |-> "obj", f |-> f]

NoFields == [x \in {} |-> Null]

(* The same function, as a table: TLC evaluates it once, not where applied.   *)
Table(f) == f @@ NoFields

EmptyObj == Obj(NoFields)

IsStr(v) == v.k = "str"
IsObj(v) == v.k = "obj"
IsArr(v) == v.k = "arr"

(* The value of a field, Null when it is absent: obj[name] on a Go map.       *)
Get(v, name) == IF IsObj(v) /\ name \in DOMAIN v.f THEN v.f[name] ELSE Null

With(v, name, w) == Obj((name :> w) @@ (IF IsObj(v) THEN v.f ELSE NoFields))
Without(v, name) == Obj([x \in DOMAIN v.f \ {name} |-> v.f[x]])

(* ------------------------------ words -------------------------------- *)
LongName == "aNameOfSeventeenC"
Archive == "backup.tgz"
Filter == "(cn=x)"
Past == "2000-01-01T00:00:00Z"
Soon == "2030-01-01T00:00:00Z"
Later == "2100-01-01T00:00:00Z"

BlankStr(v) == ~IsStr(v) \/ v.s \in {"", " "}
Length(s) == CASE s = LongName -> 17 [] s = "" -> 0 [] OTHER -> 8

Matches(pattern, s) ==
  CASE pattern = "NotBlank" -> s \notin {"", " "}
    [] pattern = "ArchiveName" -> s = Archive
    [] OTHER -> s \notin {"", " ", Archive, Filter, Past, Soon, Later}

(* The VLAN numbers a range list such as "1-10" names.                        *)
VlansOf(s) == IF s = "1-10" THEN 1..10 ELSE {}
=============================================================================
