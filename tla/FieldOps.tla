------------------------------ MODULE FieldOps ------------------------------
(***************************************************************************)
(* What a write does to one document (db/store/field-ops.js).  A document  *)
(* is a function from its present fields to values; a missing document is  *)
(* None.  A value is a pair of its JSON type and its content; a map or a   *)
(* list is known by the set of what it contains.  A patch is a function    *)
(* from fields to operations: a plain value, or a write sentinel.          *)
(***************************************************************************)
EXTENDS Integers, Functions

CONSTANT None

Null == <<"null", 0>>
Text == <<"text", 0>>
Num(i) == <<"num", i>>
MapOf(keys) == <<"map", keys>>
ListOf(items) == <<"list", items>>

To(v) == [op |-> "value", arg |-> v]
Clear == [op |-> "delete", arg |-> Null]
Increment(n) == [op |-> "increment", arg |-> n]
Union(items) == [op |-> "union", arg |-> items]
Dotted(key) == [op |-> "dotted", arg |-> {key}]     \* the path "field.key" of an update

IsNum(v) == v # None /\ v[1] = "num"

\* The map or the list that is there, empty when something else is.
Content(v, type) == IF v # None /\ v[1] = type THEN v[2] ELSE {}

\* One written value against the current one; None deletes the field.
ResolveValue(o, current) ==
    CASE o.op = "value" -> o.arg
      [] o.op = "delete" -> None
      [] o.op = "increment" -> Num((IF IsNum(current) THEN current[2] ELSE 0) + o.arg)
      [] o.op = "union" -> ListOf(Content(current, "list") \cup o.arg)
      [] o.op = "dotted" -> MapOf(Content(current, "map") \cup o.arg)

\* set(..., {merge: true}): maps merge deeply, the rest is resolved.
MergeValue(o, current) ==
    IF o.op = "value" /\ o.arg[1] = "map"
    THEN MapOf(Content(current, "map") \cup o.arg[2])
    ELSE ResolveValue(o, current)

Field(doc, k) == IF k \in DOMAIN doc THEN doc[k] ELSE None
Present(fields) == Restrict(fields, {k \in DOMAIN fields : fields[k] # None})

Patched(doc, patch, Resolve(_, _)) ==
    Present([k \in DOMAIN doc \cup DOMAIN patch |->
                IF k \in DOMAIN patch THEN Resolve(patch[k], Field(doc, k)) ELSE doc[k]])

MergeInto(doc, patch) == Patched(doc, patch, MergeValue)
ApplyUpdate(doc, patch) == Patched(doc, patch, ResolveValue)

\* The document after one write, None when the write deletes it.
NoFields == [k \in {} |-> Null]
Outcome(doc, w) ==
    CASE w.type = "delete" -> None
      [] w.type \in {"create", "set"} -> MergeInto(NoFields, w.data)
      [] w.type = "merge" -> MergeInto(IF doc = None THEN NoFields ELSE doc, w.data)
      [] w.type = "update" -> ApplyUpdate(doc, w.data)

\* A create finds no document, an update finds one.
Applies(doc, w) ==
    /\ w.type = "create" => doc = None
    /\ w.type = "update" => doc # None
=============================================================================
