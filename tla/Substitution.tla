---------------------------- MODULE Substitution ----------------------------
(***************************************************************************)
(* Request body substitution (nya/utils/substitution.py): a list of rules, *)
(* each a conditional set or remove at a path, applied to a JSON document  *)
(* in order.                                                               *)
(*                                                                         *)
(* A document is tagged with its type; a string is a sequence of           *)
(* characters; an object's keys are single characters.  A path is a        *)
(* sequence of segments: keys, bracketed indexes (Digits) and, in a        *)
(* condition, the projection "[]", once.                                   *)
(***************************************************************************)
EXTENDS Integers, SequencesExt

Digits == {"0", "1", "2"}

Index(seg) == CASE seg = "0" -> 1 [] seg = "1" -> 2 [] seg = "2" -> 3

Null == [t |-> "null"]
Num(n) == [t |-> "num", n |-> n]
Str(s) == [t |-> "str", s |-> s]
Obj(f) == [t |-> "obj", f |-> f]
List(l) == [t |-> "list", l |-> l]

Container(d) == d.t \in {"obj", "list"}

---------------------------------------------------------------------------
(* Looking a path up, as jmespath.search does.                             *)

Has(d, seg) ==
    \/ d.t = "obj" /\ seg \in DOMAIN d.f
    \/ d.t = "list" /\ seg \in Digits /\ Index(seg) <= Len(d.l)

Item(d, seg) == IF d.t = "obj" THEN d.f[seg] ELSE d.l[Index(seg)]

\* The node at seg; a numeric segment does not index an object.
Child(d, seg) ==
    IF Has(d, seg) /\ ~(d.t = "obj" /\ seg \in Digits) THEN Item(d, seg) ELSE Null

\* Lists in the projected list are flattened.
Flat(l) == FlattenSeq([i \in DOMAIN l |-> IF l[i].t = "list" THEN l[i].l ELSE <<l[i]>>])

\* The nodes along a path without a projection, from doc on.
Nodes(path, doc) ==
    LET at[i \in 0 .. Len(path)] == IF i = 0 THEN doc ELSE Child(at[i - 1], path[i])
    IN  at

Follow(path, doc) == Nodes(path, doc)[Len(path)]

\* What a projected path selects: every item's node that is not null.
Selected(path, items) ==
    FlattenSeq([i \in DOMAIN items |->
        IF Follow(path, items[i]) = Null THEN <<>> ELSE <<Follow(path, items[i])>>])

Search(path, doc) ==
    IF "[]" \notin ToSet(path) THEN Follow(path, doc)
    ELSE LET k    == CHOOSE i \in DOMAIN path : path[i] = "[]"
             list == Follow(SubSeq(path, 1, k - 1), doc)
         IN  IF list.t = "list"
             THEN List(Selected(SubSeq(path, k + 1, Len(path)), Flat(list.l)))
             ELSE Null

---------------------------------------------------------------------------
(* _set_field and _remove_field.                                           *)

\* The node created above a segment: a list for an index, else an object.
Fresh(seg) == IF seg \in Digits THEN List(<<>>) ELSE Obj([k \in {} |-> Null])

Accepts(d, seg) == d.t = "obj" \/ (d.t = "list" /\ seg \in Digits)

\* Mutant of Put: an item is inserted before the one at its index.
PutInserted(d, seg, v, filler) ==
    IF d.t = "obj"
    THEN Obj([k \in DOMAIN d.f \cup {seg} |-> IF k = seg THEN v ELSE d.f[k]])
    ELSE IF Index(seg) <= Len(d.l) THEN List(InsertAt(d.l, Index(seg), v))
    ELSE List([i \in 1 .. Index(seg) |->
                 IF i = Index(seg) THEN v ELSE IF i <= Len(d.l) THEN d.l[i] ELSE filler])

\* d with v at seg; a list that is too short is filled up.
Put(d, seg, v, filler) ==
    IF d.t = "obj"
    THEN Obj([k \in DOMAIN d.f \cup {seg} |-> IF k = seg THEN v ELSE d.f[k]])
    ELSE List([i \in 1 .. IF Index(seg) > Len(d.l) THEN Index(seg) ELSE Len(d.l) |->
                 IF i = Index(seg) THEN v ELSE IF i <= Len(d.l) THEN d.l[i] ELSE filler])

\* The node at seg on the way, created for the next segment if missing.
Onward(d, seg, next) == IF Has(d, seg) THEN Item(d, seg) ELSE Fresh(next)

\* The nodes on the way to the end of a path, missing ones created.
Way(doc, path) ==
    LET at[i \in 0 .. Len(path) - 1] ==
            IF i = 0 THEN doc ELSE Onward(at[i - 1], path[i], path[i + 1])
    IN  at

\* Can the path be followed?  Not through a null or another scalar, nor by a
\* key into a list.
Passable(doc, path) ==
    \A i \in DOMAIN path : Accepts(Way(doc, path)[i - 1], path[i])

\* The nodes on the way when the last container is replaced by end.
Raised(doc, path, end) ==
    LET at == Way(doc, path)
        up[i \in DOMAIN path] ==
            IF i = Len(path) THEN end ELSE Put(at[i - 1], path[i], up[i + 1], Fresh(path[i + 1]))
    IN  up

\* The document with the last container of the path replaced by end.
Rebuilt(doc, path, end) == Raised(doc, path, end)[1]

SetField(doc, path, v) ==
    IF path = <<>> THEN v
    ELSE IF ~Passable(doc, path) THEN doc
    ELSE Rebuilt(doc, path, Put(Way(doc, path)[Len(path) - 1], Last(path), v, Null))

Without(d, seg) ==
    IF d.t = "obj" THEN Obj([k \in DOMAIN d.f \ {seg} |-> d.f[k]])
    ELSE List(RemoveAt(d.l, Index(seg)))

\* A path that leads nowhere, or to null, removes nothing.
RemoveField(doc, path) ==
    IF path = <<>> THEN (IF doc.t = "obj" THEN Obj([k \in {} |-> Null]) ELSE List(<<>>))
    ELSE IF Search(path, doc) = Null THEN doc
    ELSE Rebuilt(doc, path, Without(Way(doc, path)[Len(path) - 1], Last(path)))

---------------------------------------------------------------------------
(* Values and references.                                                  *)

\* A value that is one reference to a path of the body, or a text with one.
Ref(path) == [t |-> "ref", path |-> path]
Mixed(s, path) == [t |-> "mixed", s |-> s, path |-> path]

\* str() of a scalar, json.dumps of the rest.
Text(d) ==
    CASE d.t = "str" -> d.s
      [] d.t = "num" -> <<ToString(d.n)>>
      [] d.t = "null" -> <<"None">>
      [] OTHER -> <<"JSON">>

Resolved(v, body) ==
    CASE v.t = "ref" -> Search(v.path, body)
      [] v.t = "mixed" -> LET d == Search(v.path, body)
                          IN  Str(IF d = Null THEN v.s ELSE v.s \o Text(d))
      [] OTHER -> v

\* _process_value_references, for values that nest once.
Processed(v, body) ==
    CASE v.t = "obj" -> Obj([k \in DOMAIN v.f |-> Resolved(v.f[k], body)])
      [] v.t = "list" -> List([i \in DOMAIN v.l |-> Resolved(v.l[i], body)])
      [] OTHER -> Resolved(v, body)

---------------------------------------------------------------------------
(* _check_rule_conditions.                                                 *)

\* _like_match: "%" stands for any text, "_" for any character.
Like(s, pattern) ==
    LET m[i \in 1 .. Len(pattern) + 1, j \in 1 .. Len(s) + 1] ==
            IF i > Len(pattern) THEN j > Len(s)
            ELSE IF pattern[i] = "%" THEN m[i + 1, j] \/ (j <= Len(s) /\ m[i, j + 1])
            ELSE j <= Len(s) /\ pattern[i] \in {"_", s[j]} /\ m[i + 1, j + 1]
    IN  m[1, 1]

\* _contains_value, for a scalar value.
ContainsValue(d, v) ==
    CASE d.t = "str" -> \E i \in 0 .. Len(d.s) : IsPrefix(Text(v), SubSeq(d.s, i + 1, Len(d.s)))
      [] d.t = "list" -> \E i \in DOMAIN d.l : d.l[i] = v
      [] d.t = "obj" -> v.t = "str" /\ \E k \in DOMAIN d.f : v.s = <<k>>
      [] OTHER -> d = v

Between(d, v) == v.l[1].n <= d.n /\ d.n <= v.l[2].n

BothNum(d, v) == d.t = "num" /\ v.t = "num"

IsRange(d, v) == d.t = "num" /\ v.t = "list" /\ Len(v.l) = 2

Holds(cond, body) ==
    LET d == Search(cond.field, body)
        v == cond.value
    IN  CASE cond.operator = "eq" -> d = v
          [] cond.operator = "ne" -> d # v
          [] cond.operator = "gt" -> BothNum(d, v) /\ d.n > v.n
          [] cond.operator = "lt" -> BothNum(d, v) /\ d.n < v.n
          [] cond.operator = "ge" -> BothNum(d, v) /\ d.n >= v.n
          [] cond.operator = "le" -> BothNum(d, v) /\ d.n <= v.n
          [] cond.operator = "in" -> v.t = "list" /\ ContainsValue(v, d)
          [] cond.operator = "nin" -> v.t = "list" /\ ~ContainsValue(v, d)
          [] cond.operator = "like" -> d.t = "str" /\ Like(d.s, Text(v))
          [] cond.operator = "nlike" -> d.t = "str" /\ ~Like(d.s, Text(v))
          [] cond.operator = "contains" -> ContainsValue(d, v)
          [] cond.operator = "ncontains" -> ~ContainsValue(d, v)
          [] cond.operator = "between" -> IsRange(d, v) /\ Between(d, v)
          [] cond.operator = "nbetween" -> IsRange(d, v) /\ ~Between(d, v)
          [] cond.operator = "startswith" -> d.t = "str" /\ IsPrefix(Text(v), d.s)
          [] cond.operator = "endswith" -> d.t = "str" /\ IsSuffix(Text(v), d.s)
          [] cond.operator \in {"exists", "notnull"} -> d # Null
          [] cond.operator \in {"nexists", "isnull"} -> d = Null

---------------------------------------------------------------------------
(* apply_body_substitutions.                                               *)

\* A rule whose set has no value is skipped.
NoValue == [t |-> "absent"]

Applies(rule, doc) ==
    /\ rule.operation = "set" => rule.value # NoValue
    /\ \A i \in DOMAIN rule.conditions : Holds(rule.conditions[i], doc)

Rewritten(doc, rule) ==
    IF ~Applies(rule, doc) THEN doc
    ELSE IF rule.operation = "set" THEN SetField(doc, rule.path, Processed(rule.value, doc))
    ELSE RemoveField(doc, rule.path)

\* The document after every rule, in order.
Results(doc, rules) ==
    LET after[i \in 0 .. Len(rules)] ==
            IF i = 0 THEN doc ELSE Rewritten(after[i - 1], rules[i])
    IN  after

\* A scalar body is left alone.
Apply(doc, rules) == IF Container(doc) THEN Results(doc, rules)[Len(rules)] ELSE doc
=============================================================================
