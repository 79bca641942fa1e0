-------------------------- MODULE DocStore_proofs --------------------------
(***************************************************************************)
(* Proofs about DocStore and Query: a write has one outcome whatever path  *)
(* it takes, and queries find what their filters describe, for any         *)
(* documents, columns, callers and calls.                                  *)
(***************************************************************************)
EXTENDS Query, FiniteSetTheorems, WellFoundedInduction, TLAPS

\* A document keeps no field without a value.
Full(doc) == \A k \in DOMAIN doc : doc[k] # None

\* A field is stored once, where its value belongs: what a column holds fits it
\* and is not also kept, in an older value, in extra.
RowOK(row) ==
    /\ \A k \in Typed : row.col[k] # None => Fits(k, row.col[k]) /\ k \notin DOMAIN row.extra
    /\ \A k \in DOMAIN row.extra : row.extra[k] # None /\ ~Fits(k, row.extra[k])

\* A write that the calls may contain.
WriteOK(w) ==
    /\ w.type \in {"create", "set", "merge", "update", "delete"}
    /\ w.doc \in Docs
    /\ \A f \in DOMAIN w.data :
           /\ w.data[f].op \in {"value", "delete", "increment", "union", "dotted"}
           /\ w.data[f].op = "value" => w.data[f].arg # None

-----------------------------------------------------------------------------
(* Documents and rows *)

LEMMA PresentIsFull ==
    ASSUME NEW f
    PROVE  /\ Full(Present(f))
           /\ DOMAIN Present(f) = {k \in DOMAIN f : f[k] # None}
           /\ \A k \in DOMAIN Present(f) : Present(f)[k] = f[k]
BY DEF Full, Present, Restrict

LEMMA OutcomeIsFull ==
    ASSUME NEW doc, NEW w, WriteOK(w), w.type # "delete"
    PROVE  Full(Outcome(doc, w))
<1>1. ASSUME NEW d, NEW patch PROVE Full(MergeInto(d, patch)) /\ Full(ApplyUpdate(d, patch))
    BY PresentIsFull DEF MergeInto, ApplyUpdate, Patched
<1> QED BY <1>1 DEF Outcome, WriteOK

\* What a row decodes to, field by field.
LEMMA DecodeFields ==
    ASSUME NEW row, RowOK(row), DOMAIN row.col = Typed
    PROVE  /\ \A k : Field(Decode(row), k) =
                 IF k \in Typed /\ row.col[k] # None THEN row.col[k] ELSE Field(row.extra, k)
           /\ \A k : k \in DOMAIN Decode(row) <=> Field(Decode(row), k) # None
           /\ Full(Decode(row))
<1> DEFINE f == [k \in Typed \cup DOMAIN row.extra |->
                    IF k \in Typed /\ row.col[k] # None THEN row.col[k] ELSE Field(row.extra, k)]
<1>1. Decode(row) = Present(f)
    BY DEF Decode
<1>a. f = [k \in Typed \cup DOMAIN row.extra |->
              IF k \in Typed /\ row.col[k] # None THEN row.col[k] ELSE Field(row.extra, k)]
    OBVIOUS
<1> HIDE DEF f
<1>2. /\ DOMAIN Decode(row) = {k \in DOMAIN f : f[k] # None}
      /\ \A k \in DOMAIN Decode(row) : Decode(row)[k] = f[k]
      /\ Full(Decode(row))
    BY <1>1, PresentIsFull
<1>3. \A k : k \notin DOMAIN f => k \notin Typed /\ Field(row.extra, k) = None
    BY <1>a DEF Field
<1> QED BY <1>2, <1>3, <1>a DEF Field, Full

\* encode stores every field once.
LEMMA EncodeOK ==
    ASSUME NEW doc, Full(doc), NEW version
    PROVE  /\ RowOK(Encode(doc, version))
           /\ DOMAIN Encode(doc, version).col = Typed
           /\ \A k : Field(Decode(Encode(doc, version)), k) = Field(doc, k)
<1> DEFINE row == Encode(doc, version)
<1>0. ~IsNum(None)
    BY DEF IsNum
<1>1. \A k \in Typed : row.col[k] = IF Fits(k, Field(doc, k)) THEN doc[k] ELSE None
    BY DEF Encode
<1>2. /\ DOMAIN row.extra = {k \in DOMAIN doc : ~Fits(k, doc[k])}
      /\ \A k \in DOMAIN row.extra : row.extra[k] = doc[k]
    BY DEF Encode, Restrict
<1>3. \A k : Fits(k, Field(doc, k)) => k \in DOMAIN doc /\ k \in Typed
    BY <1>0 DEF Fits, Field
<1>4. RowOK(row)
    BY <1>1, <1>2, <1>3 DEF RowOK, Field, Full
<1>5. DOMAIN row.col = Typed
    BY DEF Encode
<1>6. ASSUME NEW k PROVE Field(Decode(row), k) = Field(doc, k)
    BY <1>1, <1>2, <1>3, <1>4, <1>5, DecodeFields DEF Field, Full
<1> QED BY <1>4, <1>5, <1>6
-----------------------------------------------------------------------------
(* One statement and read-modify-write *)

\* What an UPDATE or upsert stores, field by field.
LEMMA PatchFields ==
    ASSUME NEW row, NEW w, RowOK(row), DOMAIN row.col = Typed, WriteOK(w),
           Plannable(w), w.type \in {"merge", "update"},
           w.type = "update" => Guarded(row, w.data)
    PROVE  LET new == PatchRow(row, w.data) IN
           /\ RowOK(new)
           /\ DOMAIN new.col = Typed
           /\ \A k : k \notin DOMAIN w.data => Field(Decode(new), k) = Field(Decode(row), k)
           /\ \A k \in DOMAIN w.data :
                  Field(Decode(new), k) =
                      CASE w.data[k].op = "value" -> w.data[k].arg
                        [] w.data[k].op = "delete" -> None
                        [] w.data[k].op = "increment" -> Incremented(row, w.data, k)
<1> DEFINE patch == w.data
<1> DEFINE new == PatchRow(row, patch)
<1>0. ~IsNum(None) /\ \A k : ~Fits(k, None)
    BY DEF IsNum, Fits
<1>1. \A k \in DOMAIN patch :
          /\ patch[k].op \in {"value", "delete", "increment"}
          /\ patch[k].op = "value" => patch[k].arg # None
          /\ patch[k].op = "increment" => k \in Typed /\ Fits(k, Incremented(row, patch, k))
    BY DEF WriteOK, Plannable, Guarded
<1>2. /\ ExtraAdd(patch) = {k \in DOMAIN patch : patch[k].op = "value" /\ ~Fits(k, patch[k].arg)}
      /\ ExtraRem(patch) = {k \in DOMAIN patch : patch[k].op # "value" \/ Fits(k, patch[k].arg)}
    BY DEF ExtraAdd, ExtraRem
<1>3. /\ DOMAIN new.col = Typed
      /\ \A k \in Typed : k \notin DOMAIN patch => new.col[k] = row.col[k]
      /\ \A k \in Typed : k \in DOMAIN patch /\ patch[k].op = "increment" =>
             new.col[k] = Incremented(row, patch, k)
      /\ \A k \in Typed : k \in DOMAIN patch /\ patch[k].op # "increment" =>
             new.col[k] = IF k \in ExtraAdd(patch) \/ patch[k].op = "delete" THEN None ELSE patch[k].arg
    BY DEF PatchRow
<1>4. /\ DOMAIN new.extra = (DOMAIN row.extra \ ExtraRem(patch)) \cup ExtraAdd(patch)
      /\ \A k \in DOMAIN new.extra :
             new.extra[k] = IF k \in ExtraAdd(patch) THEN patch[k].arg ELSE row.extra[k]
    BY DEF PatchRow
<1>5. ASSUME NEW k \in Typed, new.col[k] # None
      PROVE  Fits(k, new.col[k]) /\ k \notin DOMAIN new.extra
    <2>1. CASE k \notin DOMAIN patch
        BY <1>5, <2>1, <1>2, <1>3, <1>4 DEF RowOK
    <2>2. CASE k \in DOMAIN patch /\ patch[k].op = "increment"
        BY <1>5, <2>2, <1>1, <1>2, <1>3, <1>4
    <2>3. CASE k \in DOMAIN patch /\ patch[k].op # "increment"
        BY <1>5, <2>3, <1>1, <1>2, <1>3, <1>4
    <2> QED BY <2>1, <2>2, <2>3
<1>6. ASSUME NEW k \in DOMAIN new.extra
      PROVE  new.extra[k] # None /\ ~Fits(k, new.extra[k])
    BY <1>6, <1>1, <1>2, <1>4 DEF RowOK
<1>7. RowOK(new)
    BY <1>5, <1>6 DEF RowOK
<1>8. \A k : Field(Decode(new), k) =
                 IF k \in Typed /\ new.col[k] # None THEN new.col[k] ELSE Field(new.extra, k)
    BY <1>3, <1>7, DecodeFields
<1>9. \A k : Field(Decode(row), k) =
                 IF k \in Typed /\ row.col[k] # None THEN row.col[k] ELSE Field(row.extra, k)
    BY DecodeFields
<1> HIDE DEF new
<1>10. ASSUME NEW k, k \notin DOMAIN patch
       PROVE  Field(Decode(new), k) = Field(Decode(row), k)
    BY <1>10, <1>8, <1>9, <1>2, <1>3, <1>4 DEF Field
<1>11. ASSUME NEW k \in DOMAIN patch
       PROVE  Field(Decode(new), k) =
                  CASE patch[k].op = "value" -> patch[k].arg
                    [] patch[k].op = "delete" -> None
                    [] patch[k].op = "increment" -> Incremented(row, patch, k)
    <2>1. CASE patch[k].op = "increment"
        BY <2>1, <1>0, <1>1, <1>3, <1>8
    <2>2. CASE patch[k].op = "delete"
        BY <2>2, <1>2, <1>3, <1>4, <1>8 DEF Field
    <2>3. CASE patch[k].op = "value"
        <3>1. CASE Fits(k, patch[k].arg)
            BY <2>3, <3>1, <1>0, <1>1, <1>2, <1>3, <1>8 DEF Fits
        <3>2. CASE ~Fits(k, patch[k].arg)
            BY <2>3, <3>2, <1>1, <1>2, <1>3, <1>4, <1>8 DEF Field
        <3> QED BY <3>1, <3>2
    <2> QED BY <2>1, <2>2, <2>3, <1>1
<1> QED BY <1>3, <1>7, <1>10, <1>11 DEF new

\* What field-ops.js computes, field by field.
LEMMA PatchedFields ==
    ASSUME NEW doc, NEW patch, NEW k
    PROVE  /\ Field(MergeInto(doc, patch), k) =
                  IF k \in DOMAIN patch THEN MergeValue(patch[k], Field(doc, k)) ELSE Field(doc, k)
           /\ Field(ApplyUpdate(doc, patch), k) =
                  IF k \in DOMAIN patch THEN ResolveValue(patch[k], Field(doc, k)) ELSE Field(doc, k)
<1> DEFINE merged == [x \in DOMAIN doc \cup DOMAIN patch |->
                         IF x \in DOMAIN patch THEN MergeValue(patch[x], Field(doc, x)) ELSE doc[x]]
<1> DEFINE updated == [x \in DOMAIN doc \cup DOMAIN patch |->
                          IF x \in DOMAIN patch THEN ResolveValue(patch[x], Field(doc, x)) ELSE doc[x]]
<1>1. MergeInto(doc, patch) = Present(merged) /\ ApplyUpdate(doc, patch) = Present(updated)
    BY DEF MergeInto, ApplyUpdate, Patched
<1>2. ASSUME NEW f PROVE Field(Present(f), k) = Field(f, k)
    BY PresentIsFull DEF Field
<1>3. /\ Field(merged, k) =
             IF k \in DOMAIN patch THEN MergeValue(patch[k], Field(doc, k)) ELSE Field(doc, k)
      /\ Field(updated, k) =
             IF k \in DOMAIN patch THEN ResolveValue(patch[k], Field(doc, k)) ELSE Field(doc, k)
    BY DEF Field
<1> HIDE DEF merged, updated
<1> QED BY <1>1, <1>2, <1>3

LEMMA SameFields ==
    ASSUME NEW f, NEW g, Full(Present(f)), Full(Present(g)),
           \A k : Field(Present(f), k) = Field(Present(g), k)
    PROVE  Present(f) = Present(g)
<1>1. DOMAIN Present(f) = DOMAIN Present(g)
    BY DEF Field, Full
<1>2. \A k \in DOMAIN Present(f) : Present(f)[k] = Present(g)[k]
    BY <1>1 DEF Field
<1> QED BY <1>1, <1>2 DEF Present, Restrict

\* The statement of a partial write does what the read-modify-write would do.
LEMMA StatementAgrees ==
    ASSUME NEW row, NEW w, RowOK(row), DOMAIN row.col = Typed, WriteOK(w),
           Plannable(w), w.type \in {"merge", "update"},
           w.type = "update" => Guarded(row, w.data),
           NEW doc, \A k : Field(doc, k) = Field(Decode(row), k), NEW k
    PROVE  Field(Decode(PatchRow(row, w.data)), k) =
               IF w.type = "merge" THEN Field(MergeInto(doc, w.data), k)
                                   ELSE Field(ApplyUpdate(doc, w.data), k)
<1> DEFINE patch == w.data
<1>1. CASE k \notin DOMAIN patch
    BY <1>1, PatchFields, PatchedFields
<1>2. CASE k \in DOMAIN patch
    <2>1. /\ patch[k].op \in {"value", "delete", "increment"}
          /\ patch[k].op = "increment" => w.type = "update" /\ k \in Typed
          /\ w.type = "merge" => patch[k].op # "value" \/ patch[k].arg[1] # "map"
        BY <1>2 DEF Plannable
    <2>2. Field(Decode(PatchRow(row, patch)), k) =
              CASE patch[k].op = "value" -> patch[k].arg
                [] patch[k].op = "delete" -> None
                [] patch[k].op = "increment" -> Incremented(row, patch, k)
        BY <1>2, PatchFields
    <2>3. ASSUME patch[k].op = "increment"
          PROVE  Incremented(row, patch, k) = ResolveValue(patch[k], Field(doc, k))
        <3>1. Field(doc, k) = IF row.col[k] # None THEN row.col[k] ELSE Field(row.extra, k)
            BY <2>1, <2>3, DecodeFields
        <3>2. row.col[k] # None => IsNum(row.col[k])
            BY <2>1, <2>3 DEF RowOK, Fits
        <3>3. IncBase(row, k) = IF IsNum(Field(doc, k)) THEN Field(doc, k)[2] ELSE 0
            <4>1. CASE row.col[k] # None
                BY <3>1, <3>2, <4>1 DEF IncBase
            <4>2. CASE row.col[k] = None /\ IsNum(Field(row.extra, k))
                BY <3>1, <4>2 DEF IncBase, Field, IsNum
            <4>3. CASE row.col[k] = None /\ ~IsNum(Field(row.extra, k))
                BY <3>1, <4>3 DEF IncBase
            <4> QED BY <4>1, <4>2, <4>3
        <3> QED BY <2>3, <3>3 DEF Incremented, ResolveValue
    <2>4. patch[k].op = "value" => ResolveValue(patch[k], Field(doc, k)) = patch[k].arg
        BY DEF ResolveValue
    <2>5. patch[k].op = "delete" => ResolveValue(patch[k], Field(doc, k)) = None
        BY DEF ResolveValue
    <2>6. w.type = "merge" => MergeValue(patch[k], Field(doc, k)) = ResolveValue(patch[k], Field(doc, k))
        BY <2>1 DEF MergeValue
    <2>7. Field(Decode(PatchRow(row, patch)), k) = ResolveValue(patch[k], Field(doc, k))
        BY <2>1, <2>2, <2>3, <2>4, <2>5
    <2> QED BY <1>2, <2>6, <2>7, PatchedFields
<1> QED BY <1>1, <1>2

\* A row that a document can have.
IsRow(row) == RowOK(row) /\ DOMAIN row.col = Typed

LEMMA NoRowOK == IsRow(NoRow) /\ \A k : Field(Decode(NoRow), k) = Field(NoFields, k)
<1>1. Full(NoFields)
    BY DEF Full, NoFields
<1> QED BY <1>1, EncodeOK DEF NoRow, IsRow

LEMMA WrittenIsRow ==
    ASSUME NEW row, row # None => IsRow(row), NEW w, WriteOK(w), w.type # "delete"
    PROVE  IsRow(SlowRow(row, w)) /\ (HasStatement(row, w) => IsRow(FastRow(row, w)))
<1>1. ASSUME NEW version PROVE IsRow(Encode(Outcome(Document(row), w), version))
    BY OutcomeIsFull, EncodeOK DEF IsRow
<1>2. CASE w.type \in {"create", "set"}
    <2>1. Outcome(Document(row), w) = MergeInto(NoFields, w.data)
        BY <1>2 DEF Outcome
    <2>2. FastRow(row, w) = Encode(MergeInto(NoFields, w.data), RowVersion(row) + 1)
        BY <1>2 DEF FastRow
    <2> QED BY <1>1, <2>1, <2>2 DEF SlowRow
<1>3. CASE w.type \in {"merge", "update"} /\ HasStatement(row, w)
    <2> DEFINE old == IF row = None THEN NoRow ELSE row
    <2>1. IsRow(old)
        BY NoRowOK
    <2>2. /\ FastRow(row, w) = PatchRow(old, w.data)
          /\ Plannable(w)
          /\ w.type = "update" => Guarded(old, w.data)
        BY <1>3 DEF FastRow, HasStatement
    <2> HIDE DEF old
    <2>3. IsRow(FastRow(row, w))
        BY <1>3, <2>1, <2>2, PatchFields DEF IsRow
    <2> QED BY <1>1, <2>3 DEF SlowRow
<1> QED BY <1>1, <1>2, <1>3 DEF SlowRow, WriteOK

\* Whatever path a write takes (one statement, or read-modify-write), the row it
\* leaves has every field once and reads back as what field-ops.js makes of the
\* document: no value is lost, changed or found twice (writes.js, codec.js).
THEOREM OneOutcome ==
    ASSUME NEW row, row # None => IsRow(row) /\ Decode(row) # None,
           NEW w, WriteOK(w), w.type # "delete", Applies(Document(row), w)
    PROVE  /\ IsRow(WrittenRow(row, w))
           /\ Decode(WrittenRow(row, w)) = Outcome(Document(row), w)
<1> DEFINE new == WrittenRow(row, w)
<1> DEFINE outcome == Outcome(Document(row), w)
<1> DEFINE old == IF row = None THEN NoRow ELSE row
<1> DEFINE doc == IF row = None THEN NoFields ELSE Decode(row)
<1>1. Full(outcome)
    BY OutcomeIsFull
<1>2. IsRow(old) /\ \A k : Field(doc, k) = Field(Decode(old), k)
    BY NoRowOK
<1>3. /\ w.type \in {"create", "set"} => outcome = MergeInto(NoFields, w.data)
      /\ w.type = "merge" => outcome = MergeInto(doc, w.data)
      /\ w.type = "update" => outcome = ApplyUpdate(doc, w.data) /\ row # None
    BY DEF Outcome, Document, Applies
<1>4. \E f : outcome = Present(f)
    BY <1>3 DEF WriteOK, MergeInto, ApplyUpdate, Patched
<1>5. IsRow(new) /\ \A k : Field(Decode(new), k) = Field(outcome, k)
    <2>1. ASSUME NEW version, new = Encode(outcome, version)
          PROVE  IsRow(new) /\ \A k : Field(Decode(new), k) = Field(outcome, k)
        BY <2>1, <1>1, EncodeOK DEF IsRow
    <2>2. CASE w.type \in {"create", "set"}
        <3>1. new = Encode(outcome, RowVersion(row) + 1)
            BY <2>2, <1>3 DEF WrittenRow, HasStatement, FastRow
        <3> QED BY <3>1, <2>1
    <2>3. CASE w.type \in {"merge", "update"} /\ HasStatement(row, w)
        <3>1. /\ new = PatchRow(old, w.data)
              /\ Plannable(w)
              /\ w.type = "update" => Guarded(old, w.data)
            BY <2>3, <1>3 DEF WrittenRow, FastRow, HasStatement
        <3>2. IsRow(new)
            BY <2>3, <3>1, <1>2, PatchFields DEF IsRow
        <3>3. \A k : Field(Decode(new), k) = Field(outcome, k)
            <4> HIDE DEF old, doc, new
            <4> QED BY <2>3, <3>1, <1>2, <1>3, StatementAgrees DEF IsRow
        <3> QED BY <3>2, <3>3
    <2>4. CASE w.type \in {"merge", "update"} /\ ~HasStatement(row, w)
        <3>1. new = Encode(outcome, RowVersion(row) + 1)
            BY <2>4 DEF WrittenRow, SlowRow
        <3> QED BY <3>1, <2>1
    <2> QED BY <2>2, <2>3, <2>4 DEF WriteOK
<1>6. Full(Decode(new)) /\ \E f : Decode(new) = Present(f)
    <2>1. Full(Decode(new))
        BY <1>5, DecodeFields DEF IsRow
    <2> HIDE DEF new
    <2> QED BY <2>1 DEF Decode
<1> HIDE DEF new, outcome
<1>7. Decode(new) = outcome
    BY <1>1, <1>4, <1>5, <1>6, SameFields
<1> QED BY <1>5, <1>7 DEF new, outcome

-----------------------------------------------------------------------------
(* Queries *)

LEMMA FilterFinds ==
    ASSUME NEW row, IsRow(row), NEW k \in DOMAIN Decode(row) \cup Typed
    PROVE  /\ \A op \in {"==", "!=", "array-contains"}, v \in Operands :
                  Found(row, k, op, v) <=> JsonMatches(Field(Decode(row), k), op, v)
           /\ \A op \in {"in", "not-in"}, v \in Lists :
                  Found(row, k, op, v) <=> JsonMatches(Field(Decode(row), k), op, v)
           /\ \A op \in Ranges, v \in Operands :
                  Found(row, k, op, v)
                  <=> /\ JsonMatches(Field(Decode(row), k), op, v)
                      /\ k \in Typed => (Loose(v) <=> ~Diverted(row, k))
           /\ Listed(row, k) <=> k \in DOMAIN Decode(row) /\ ~Diverted(row, k)
<1> DEFINE value == Field(Decode(row), k)
<1> DEFINE extra == Field(row.extra, k)
<1>1. /\ value = IF k \in Typed /\ row.col[k] # None THEN row.col[k] ELSE extra
      /\ k \in DOMAIN Decode(row) <=> value # None
    BY DecodeFields DEF IsRow
<1>2. /\ extra # None <=> k \in DOMAIN row.extra
      /\ extra # None => ~Fits(k, extra)
    BY DEF Field, IsRow, RowOK
<1>3. \A op, v : ~JsonMatches(None, op, v)
    BY DEF JsonMatches
<1>4. CASE k \notin Typed
    <2>1. value = extra
        BY <1>1, <1>4
    <2>2. \A op, v : Found(row, k, op, v) <=> JsonMatches(value, op, v)
        BY <1>4, <2>1 DEF Found
    <2>3. ~Diverted(row, k) /\ (Listed(row, k) <=> k \in DOMAIN Decode(row))
        BY <1>1, <1>2, <1>4, <2>1 DEF Diverted, Listed
    <2> QED BY <2>2, <2>3, <1>4
<1>5. CASE k \in Typed
    <2>1. row.col[k] # None => Fits(k, row.col[k]) /\ extra = None
        BY <1>2, <1>5 DEF IsRow, RowOK
    <2>2. Listed(row, k) <=> k \in DOMAIN Decode(row) /\ ~Diverted(row, k)
        BY <1>1, <1>2, <1>5, <2>1 DEF Listed, Diverted
    <2>3. ASSUME NEW op \in {"==", "!=", "array-contains"}, NEW v \in Operands
          PROVE  Found(row, k, op, v) <=> JsonMatches(value, op, v)
        <3>1. CASE op = "=="
            <4>1. \A e : JsonMatches(e, op, v) <=> e # None /\ e = v
                BY <3>1 DEF JsonMatches, Ranges
            <4>2. Found(row, k, op, v) <=>
                      JsonMatches(IF Fits(k, v) THEN row.col[k] ELSE extra, op, v)
                BY <3>1, <1>5 DEF Found, ScalarMatches, Strict, Ranges
            <4> HIDE DEF value, extra
            <4> QED BY <4>1, <4>2, <1>1, <1>2, <1>5, <2>1
        <3>2. CASE op = "!="
            <4>1. \A e : JsonMatches(e, op, v) <=> e # None /\ e # Null /\ e # v
                BY <3>2 DEF JsonMatches, Ranges
            <4>2. Found(row, k, op, v) <=>
                      \/ row.col[k] # None /\ (Loose(v) => row.col[k] # v)
                      \/ JsonMatches(extra, op, v)
                BY <3>2, <1>5 DEF Found, ScalarMatches, Ranges
            <4>3. row.col[k] # None => Loose(row.col[k])
                BY <2>1, OperandAssumption DEF Fits, Loose
            <4>4. ~Loose(Null)
                BY DEF Loose, IsNum, Null
            <4> HIDE DEF value, extra
            <4> QED BY <4>1, <4>2, <4>3, <4>4, <1>1, <1>2, <1>5, <2>1
        <3>3. CASE op = "array-contains"
            BY <3>3, <1>1, <1>2, <1>3, <1>5, <2>1
               DEF Found, ScalarMatches, JsonMatches, Fits, IsNum
        <3> QED BY <3>1, <3>2, <3>3
    <2>4. ASSUME NEW op \in {"in", "not-in"}, NEW v \in Lists
          PROVE  Found(row, k, op, v) <=> JsonMatches(value, op, v)
        <3>0. ~Fits(k, None)
            BY DEF Fits, IsNum
        <3>1. CASE op = "in"
            BY <3>0, <3>1, <1>1, <1>2, <1>3, <1>5, <2>1
               DEF Found, ScalarMatches, JsonMatches, Strict
        <3>2. CASE op = "not-in"
            <4>1. ~Fits(k, Null)
                BY DEF Fits, IsNum, Null
            <4> QED BY <4>1, <3>0, <3>2, <1>1, <1>2, <1>3, <1>5, <2>1
               DEF Found, ScalarMatches, JsonMatches, Strict
        <3> QED BY <3>1, <3>2
    <2>5. ASSUME NEW op \in Ranges, NEW v \in Operands
          PROVE  Found(row, k, op, v) <=>
                     JsonMatches(value, op, v) /\ (Loose(v) <=> ~Diverted(row, k))
        <3>1. op \notin {"==", "!=", "in", "not-in", "array-contains"}
            BY DEF Ranges
        <3>2. Found(row, k, op, v) <=>
                  JsonMatches(IF Loose(v) THEN row.col[k] ELSE extra, op, v)
            BY <3>1, <1>5 DEF Found, ScalarMatches
        <3>3. Diverted(row, k) <=> extra # None
            BY <1>2, <1>5 DEF Diverted
        <3>4. CASE Loose(v)
            BY <3>2, <3>3, <3>4, <1>1, <1>3, <1>5, <2>1
        <3>5. CASE ~Loose(v)
            BY <3>2, <3>3, <3>5, <1>1, <1>3, <1>5, <2>1
        <3> QED BY <3>4, <3>5
    <2> QED BY <2>2, <2>3, <2>4, <2>5, <1>5
<1> QED BY <1>4, <1>5

-----------------------------------------------------------------------------
(* The invariant *)

TxFields == {"pc", "at", "wrote", "missed", "attempt"}

RowsOK == DOMAIN rows = Docs /\ \A d \in Docs : rows[d] # None => IsRow(rows[d])

\* What a transaction has written and not committed are rows too, and come from
\* the writes of its call.
TxOK(t, k) ==
    /\ DOMAIN t = TxFields
    /\ t.at \in Nat \ {0}
    /\ \A d \in DOMAIN t.wrote : t.wrote[d] # None => IsRow(t.wrote[d])
    /\ t.pc # "idle" => \E l \in Calls : k.kind = l.kind /\ k.writes = l.writes
    /\ t.pc \in {"fast", "waiting", "slow"} => k.kind = "single"

IInv ==
    /\ RowsOK
    /\ DOMAIN tx = Clients /\ call = [c \in Clients |-> call[c]]
    /\ \A c \in Clients : TxOK(tx[c], call[c])

LEMMA WritesOK ==
    ASSUME NEW c \in Clients, TxOK(tx[c], call[c]), tx[c].pc # "idle"
    PROVE  /\ \A i \in 1..Len(Writes(c)) :
                  WriteOK(Writes(c)[i]) /\ (call[c].kind # "commit" => Writes(c)[i].type # "delete")
           /\ call[c].kind = "single" => Len(Writes(c)) = 1
           /\ call[c].kind \in {"commit", "batch", "single"}
<1>1. PICK k \in Calls : call[c].kind = k.kind /\ call[c].writes = k.writes
    BY DEF TxOK
<1> QED BY <1>1, CallAssumption, WriteAssumption DEF Writes, WriteOK

LEMMA InitOK == Init => IInv
<1> SUFFICES ASSUME Init PROVE IInv
    OBVIOUS
<1>1. RowsOK
    BY DEF Init, RowsOK
<1>2. ASSUME NEW k PROVE TxOK(Idle, k)
    BY DEF TxOK, Idle, TxFields
<1> QED BY <1>1, <1>2 DEF Init, IInv

\* A step of one caller leaves the others as they are.
LEMMA OneCaller ==
    ASSUME IInv, RowsOK', NEW c \in Clients, NEW t, NEW k, TxOK(t, k),
           tx' = [tx EXCEPT ![c] = t], call' = [call EXCEPT ![c] = k]
    PROVE  IInv'
<1>1. DOMAIN tx' = Clients /\ call' = [x \in Clients |-> call'[x]]
    BY DEF IInv
<1>2. ASSUME NEW x \in Clients PROVE TxOK(tx'[x], call'[x])
    BY <1>2 DEF IInv
<1> QED BY <1>1, <1>2 DEF IInv, TxOK

LEMMA SameCall ==
    ASSUME IInv, NEW c \in Clients, UNCHANGED call
    PROVE  call' = [call EXCEPT ![c] = call[c]]
BY DEF IInv

LEMMA Stands == ASSUME RowsOK, UNCHANGED rows PROVE RowsOK'
BY DEF RowsOK

\* The end of a call.
LEMMA FinishOK ==
    ASSUME IInv, RowsOK', NEW c \in Clients, tx[c].pc # "idle", NEW a, Finish(c, a)
    PROVE  IInv'
<1>1. TxOK([Idle EXCEPT !.pc = "done"], call[c])
    BY DEF TxOK, Idle, TxFields, IInv
<1> QED BY <1>1, OneCaller, SameCall DEF Finish

\* The next step of a call: only its pc, and what no property looks at.
LEMMA GoesOn ==
    ASSUME IInv, RowsOK', NEW c \in Clients, tx[c].pc # "idle", UNCHANGED call,
           NEW pc \in {"write", "waiting", "slow"}, NEW m,
           pc # "write" => call[c].kind = "single",
           \/ tx' = [tx EXCEPT ![c].pc = pc]
           \/ tx' = [tx EXCEPT ![c].pc = pc, ![c].missed = m]
    PROVE  IInv'
<1>1. TxOK([tx[c] EXCEPT !.pc = pc], call[c])
    BY DEF TxOK, TxFields, IInv
<1>2. TxOK([[tx[c] EXCEPT !.pc = pc] EXCEPT !.missed = m], call[c])
    BY DEF TxOK, TxFields, IInv
<1>3. CASE tx' = [tx EXCEPT ![c].pc = pc]
    BY <1>1, <1>3, OneCaller, SameCall
<1>4. CASE tx' = [tx EXCEPT ![c].pc = pc, ![c].missed = m]
    <2>1. tx' = [tx EXCEPT ![c] = [[tx[c] EXCEPT !.pc = pc] EXCEPT !.missed = m]]
        BY <1>4 DEF IInv
    <2> QED BY <1>2, <2>1, OneCaller, SameCall
<1> QED BY <1>3, <1>4

-----------------------------------------------------------------------------
(* The steps *)

LEMMA AskOK == ASSUME IInv, NEW c \in Clients, Ask(c) PROVE IInv'
<1>1. PICK k \in Calls :
          /\ call' = [call EXCEPT ![c] =
                 [kind |-> k.kind, writes |-> k.writes,
                  seen |-> [d \in k.expects |-> RowVersion(rows[d])]]]
          /\ tx' = [tx EXCEPT ![c].pc = First(k.kind)]
    BY DEF Ask
<1> DEFINE asked == [kind |-> k.kind, writes |-> k.writes,
                     seen |-> [d \in k.expects |-> RowVersion(rows[d])]]
<1>2. asked.kind = k.kind /\ asked.writes = k.writes
    OBVIOUS
<1>3. First(k.kind) \in {"fast", "waiting", "slow"} => k.kind = "single"
    BY CallAssumption DEF First
<1> HIDE DEF asked
<1>4. TxOK([tx[c] EXCEPT !.pc = First(k.kind)], asked)
    BY <1>2, <1>3 DEF IInv, TxOK, TxFields
<1>5. RowsOK'
    BY Stands DEF Ask, IInv
<1> QED BY <1>1, <1>4, <1>5, OneCaller DEF asked

LEMMA AnsweredOK == ASSUME IInv, NEW c \in Clients, Answered(c) PROVE IInv'
<1>1. TxOK(Idle, None)
    BY DEF TxOK, Idle, TxFields
<1>2. RowsOK'
    BY Stands DEF Answered, IInv
<1> QED BY <1>1, <1>2, OneCaller DEF Answered

\* What a transaction sees of a document is a row.
LEMMA SeenOK ==
    ASSUME IInv, NEW c \in Clients, NEW d \in Docs
    PROVE  Seen(c, d) # None => IsRow(Seen(c, d))
BY DEF IInv, RowsOK, TxOK, Seen

LEMMA StatementIsFinite ==
    ASSUME IInv, NEW c \in Clients, tx[c].pc # "idle", tx[c].at \in Nat \ {0}
    PROVE  /\ Statement(c) \subseteq 1..Len(Writes(c))
           /\ Cardinality(Statement(c)) \in Nat
<1>1. PICK k \in Calls : call[c].writes = k.writes
    BY DEF IInv, TxOK
<1>2. Len(Writes(c)) \in Nat
    BY <1>1, WriteAssumption DEF Writes
<1>3. Statement(c) \subseteq 1..Len(Writes(c))
    BY <1>2 DEF Statement
<1>4. IsFiniteSet(1..Len(Writes(c)))
    BY <1>2, FS_Interval
<1> QED BY <1>3, <1>4, FS_Subset, FS_CardinalityType

LEMMA FrameOK == ASSUME IInv, UNCHANGED <<rows, tx, call>> PROVE IInv'
BY DEF IInv, RowsOK, TxOK

LEMMA CheckOK == ASSUME IInv, NEW c \in Clients, Check(c) PROVE IInv'
<1>1. tx[c].pc # "idle"
    BY DEF Check
<1>2. CASE tx' = [tx EXCEPT ![c].pc = "write"] /\ UNCHANGED <<rows, lock, call, answer>>
    <2>1. RowsOK'
        BY <1>2, Stands DEF IInv
    <2> QED BY <1>1, <1>2, <2>1, GoesOn
<1>3. CASE Rollback(c, "refused")
    <2>1. RowsOK'
        BY <1>3, Stands DEF IInv, Rollback
    <2> QED BY <1>1, <1>3, <2>1, FinishOK DEF Rollback
<1> QED BY <1>2, <1>3 DEF Check

LEMMA RollbackOK == ASSUME IInv, NEW c \in Clients, tx[c].pc # "idle", NEW a, Rollback(c, a) PROVE IInv'
<1>1. RowsOK'
    BY Stands DEF IInv, Rollback
<1> QED BY <1>1, FinishOK DEF Rollback

LEMMA ApplyOK == ASSUME IInv, NEW c \in Clients, Apply(c) PROVE IInv'
<1> DEFINE group == {Writes(c)[i] : i \in Statement(c)}
<1> DEFINE wrote == [d \in DOMAIN tx[c].wrote \cup {w.doc : w \in group} |->
                        IF \E w \in group : w.doc = d
                        THEN LET w == CHOOSE w \in group : w.doc = d IN WrittenRow(Seen(c, d), w)
                        ELSE tx[c].wrote[d]]
<1>1. tx[c].pc # "idle" /\ TxOK(tx[c], call[c])
    BY DEF Apply, More, IInv
<1>2. CASE Rollback(c, "refused")
    BY <1>1, <1>2, RollbackOK
<1>3. CASE /\ tx' = [tx EXCEPT ![c].at = @ + Cardinality(Statement(c)), ![c].wrote = wrote]
           /\ UNCHANGED <<rows, lock, call, answer>>
    <2>1. RowsOK'
        BY <1>3, Stands DEF IInv
    <2>2. /\ Statement(c) \subseteq 1..Len(Writes(c))
          /\ tx[c].at + Cardinality(Statement(c)) \in Nat \ {0}
        BY <1>1, StatementIsFinite DEF TxOK
    <2>3. \A w \in group : WriteOK(w)
        BY <1>1, <2>2, WritesOK
    <2>4. ASSUME NEW d \in DOMAIN wrote, wrote[d] # None
          PROVE  IsRow(wrote[d])
        <3>1. CASE \E w \in group : w.doc = d
            <4> DEFINE w == CHOOSE w \in group : w.doc = d
            <4>1. w \in group /\ w.doc = d /\ wrote[d] = WrittenRow(Seen(c, d), w)
                BY <3>1
            <4> HIDE DEF wrote, group, w
            <4>2. WriteOK(w) /\ d \in Docs
                BY <4>1, <2>3 DEF WriteOK
            <4>3. Seen(c, d) # None => IsRow(Seen(c, d))
                BY <4>2, SeenOK
            <4>4. w.type # "delete"
                BY <2>4, <4>1 DEF WrittenRow, HasStatement, FastRow
            <4> QED BY <4>1, <4>2, <4>3, <4>4, WrittenIsRow DEF WrittenRow
        <3>2. CASE ~\E w \in group : w.doc = d
            BY <3>2, <2>4, <1>1 DEF TxOK
        <3> QED BY <3>1, <3>2
    <2> HIDE DEF wrote, group
    <2>5. TxOK([[tx[c] EXCEPT !.at = @ + Cardinality(Statement(c))] EXCEPT !.wrote = wrote], call[c])
        BY <1>1, <2>2, <2>4 DEF TxOK, TxFields
    <2>6. tx' = [tx EXCEPT ![c] =
                    [[tx[c] EXCEPT !.at = @ + Cardinality(Statement(c))] EXCEPT !.wrote = wrote]]
        BY <1>3, <1>1 DEF IInv
    <2> QED BY <1>3, <2>1, <2>5, <2>6, OneCaller, SameCall
<1> QED BY <1>2, <1>3 DEF Apply

LEMMA CommitOK == ASSUME IInv, NEW c \in Clients, Commit(c) PROVE IInv'
<1>1. RowsOK'
    BY SeenOK DEF Commit, Committed, RowsOK
<1> QED BY <1>1, FinishOK DEF Commit, Committed

LEMMA SingleOK ==
    ASSUME IInv, NEW c \in Clients, tx[c].pc \in {"fast", "waiting", "slow"}
    PROVE  WriteOK(Single(c)) /\ Single(c).type # "delete" /\ call[c].kind = "single"
<1>1. TxOK(tx[c], call[c]) /\ tx[c].pc # "idle"
    BY DEF IInv
<1>2. call[c].kind = "single"
    BY <1>1 DEF TxOK
<1>3. Len(Writes(c)) = 1 /\ 1 \in 1..Len(Writes(c))
    BY SMTT(30), <1>1, <1>2, WritesOK
<1> QED BY <1>1, <1>2, <1>3, WritesOK DEF Single

LEMMA FastWaitOK == ASSUME IInv, NEW c \in Clients, FastWait(c) PROVE IInv'
<1>1. RowsOK'
    BY Stands DEF IInv, FastWait
<1>2. tx[c].pc # "idle" /\ call[c].kind = "single"
    BY SingleOK DEF FastWait
<1> QED BY <1>1, <1>2, GoesOn DEF FastWait

\* A single write that commits leaves a row.
LEMMA SingleCommitOK ==
    ASSUME IInv, NEW c \in Clients, tx[c].pc # "idle", NEW d \in Docs, NEW row, IsRow(row),
           Committed(c, [rows EXCEPT ![d] = row])
    PROVE  IInv'
<1>1. RowsOK'
    BY DEF Committed, IInv, RowsOK
<1> QED BY <1>1, FinishOK DEF Committed

LEMMA FastRunOK == ASSUME IInv, NEW c \in Clients, FastRun(c) PROVE IInv'
<1> DEFINE w == Single(c)
<1>1. WriteOK(w) /\ w.type # "delete" /\ w.doc \in Docs /\ call[c].kind = "single" /\ tx[c].pc # "idle"
    BY SingleOK DEF FastRun, WriteOK
<1>2. CASE Rollback(c, "refused")
    BY <1>1, <1>2, RollbackOK
<1>3. CASE tx' = [tx EXCEPT ![c].pc = "slow"] /\ UNCHANGED <<rows, lock, call, answer>>
    <2>1. RowsOK'
        BY <1>3, Stands DEF IInv
    <2> QED BY <1>1, <1>3, <2>1, GoesOn
<1>4. CASE /\ HasStatement(rows[w.doc], w)
           /\ Committed(c, [rows EXCEPT ![w.doc] = FastRow(rows[w.doc], w)])
    <2>1. IsRow(FastRow(rows[w.doc], w))
        BY <1>1, <1>4, WrittenIsRow DEF IInv, RowsOK
    <2> HIDE DEF w
    <2> QED BY <1>1, <1>4, <2>1, SingleCommitOK
<1> QED BY <1>2, <1>3, <1>4 DEF FastRun

LEMMA SlowRunOK == ASSUME IInv, NEW c \in Clients, SlowRun(c) PROVE IInv'
<1> DEFINE w == Single(c)
<1>1. WriteOK(w) /\ w.type # "delete" /\ w.doc \in Docs /\ tx[c].pc # "idle"
    BY SingleOK DEF SlowRun, WriteOK
<1>2. CASE Rollback(c, "refused")
    BY <1>1, <1>2, RollbackOK
<1>3. CASE Committed(c, [rows EXCEPT ![w.doc] = SlowRow(rows[w.doc], w)])
    <2>1. IsRow(SlowRow(rows[w.doc], w))
        BY <1>1, WrittenIsRow DEF IInv, RowsOK
    <2> HIDE DEF w
    <2> QED BY <1>1, <1>3, <2>1, SingleCommitOK
<1> QED BY <1>2, <1>3 DEF SlowRun

LEMMA FailOK == ASSUME IInv, NEW c \in Clients, Fail(c) PROVE IInv'
BY RollbackOK DEF Fail, Running

LEMMA DeadlockVictimOK == ASSUME IInv, NEW c \in Clients, DeadlockVictim(c) PROVE IInv'
<1>1. tx[c].pc # "idle" /\ TxOK(tx[c], call[c])
    BY DEF DeadlockVictim, Running, IInv
<1>2. CASE Rollback(c, "failed")
    BY <1>1, <1>2, RollbackOK
<1>3. ASSUME NEW n,
             tx' = [tx EXCEPT ![c] = [Idle EXCEPT !.pc = First(call[c].kind), !.attempt = n]],
             UNCHANGED <<rows, call, answer>>
      PROVE  IInv'
    <2>1. RowsOK'
        BY <1>3, Stands DEF IInv
    <2>2. First(call[c].kind) \in {"fast", "waiting", "slow"} => call[c].kind = "single"
        BY <1>1, WritesOK DEF First
    <2>3. TxOK([Idle EXCEPT !.pc = First(call[c].kind), !.attempt = n], call[c])
        BY <1>1, <2>2 DEF TxOK, Idle, TxFields
    <2> QED BY <1>3, <2>1, <2>3, OneCaller, SameCall
<1> QED BY <1>2, <1>3 DEF DeadlockVictim

LEMMA StepOK == ASSUME IInv, [Next]_vars PROVE IInv'
<1>1. ASSUME NEW c \in Clients, ReadDoc(c) \/ LockDoc(c) PROVE IInv'
    BY <1>1, FrameOK DEF ReadDoc, LockDoc
<1>2. ASSUME UNCHANGED vars PROVE IInv'
    BY <1>2, FrameOK DEF vars
<1> QED BY <1>1, <1>2, AskOK, AnsweredOK, CheckOK, ApplyOK, CommitOK, FastWaitOK, FastRunOK,
           SlowRunOK, FailOK, DeadlockVictimOK DEF Next, Proceed

\* However calls interleave, fail, deadlock and retry, every row, committed or
\* not, keeps each field once, in its column when it fits and in extra when it
\* does not (codec.js:96-118): no stale value is left in the other place.
THEOREM FieldsStoredOnce == Spec => []IInv
<1> QED BY InitOK, StepOK, PTL DEF Spec

-----------------------------------------------------------------------------
(* The serial store *)

\* None is a value of its own: in TLA+ terms, not a function.
NoneIsNoFunction == \A S, f : [x \in S |-> f[x]] # None

\* The document a row is.
Image(row) == IF row = None THEN None ELSE [data |-> Decode(row), version |-> row.version]

LEMMA FunctionsAreSome ==
    ASSUME NoneIsNoFunction
    PROVE  /\ \A a, b : [data |-> a, version |-> b] # None
           /\ \A a, b, e : [col |-> a, extra |-> b, version |-> e] # None
           /\ \A row : Decode(row) # None
           /\ \A S, f : f = [x \in S |-> f[x]] => f # None
<1>1. ASSUME NEW a, NEW b PROVE [data |-> a, version |-> b] # None
    <2> DEFINE r == [data |-> a, version |-> b]
    <2>1. [x \in {"data", "version"} |-> r[x]] = r
        OBVIOUS
    <2> HIDE DEF r
    <2>2. r # None
        BY <2>1 DEF NoneIsNoFunction
    <2> QED BY <2>2 DEF r
<1>2. ASSUME NEW a, NEW b, NEW e PROVE [col |-> a, extra |-> b, version |-> e] # None
    <2> DEFINE r == [col |-> a, extra |-> b, version |-> e]
    <2>1. [x \in {"col", "extra", "version"} |-> r[x]] = r
        OBVIOUS
    <2> HIDE DEF r
    <2>2. r # None
        BY <2>1 DEF NoneIsNoFunction
    <2> QED BY <2>2 DEF r
<1>3. ASSUME NEW row PROVE Decode(row) # None
    <2>1. \A f : Present(f) # None
        BY DEF NoneIsNoFunction, Present, Restrict
    <2> QED BY <2>1 DEF Decode
<1> QED BY <1>1, <1>2, <1>3 DEF NoneIsNoFunction

LEMMA Images ==
    ASSUME NoneIsNoFunction, NEW row
    PROVE  /\ Image(row) = None <=> row = None
           /\ Serial!Doc(Image(row)) = Document(row)
           /\ Serial!Version(Image(row)) = RowVersion(row)
           /\ Document(row) = None <=> row = None
BY FunctionsAreSome DEF Image, Serial!Doc, Serial!Version, Document, RowVersion

LEMMA DocumentsAreImages == Documents = [d \in Docs |-> Image(rows[d])]
BY DEF Documents, Image

\* The rows a write leaves exist, one version further.
LEMMA WrittenVersion ==
    ASSUME NoneIsNoFunction, NEW row, NEW w, WriteOK(w), w.type # "delete"
    PROVE  /\ WrittenRow(row, w) # None
           /\ WrittenRow(row, w).version = RowVersion(row) + 1
           /\ SlowRow(row, w) # None
           /\ SlowRow(row, w).version = RowVersion(row) + 1
<1>1. ASSUME NEW doc PROVE Encode(doc, RowVersion(row) + 1) # None
                           /\ Encode(doc, RowVersion(row) + 1).version = RowVersion(row) + 1
    BY FunctionsAreSome DEF Encode
<1>2. ASSUME NEW old, NEW patch PROVE PatchRow(old, patch) # None
                                      /\ PatchRow(old, patch).version = old.version + 1
    BY FunctionsAreSome DEF PatchRow
<1>3. NoRow.version = 0
    BY DEF NoRow, Encode
<1>4. SlowRow(row, w) # None /\ SlowRow(row, w).version = RowVersion(row) + 1
    BY <1>1 DEF SlowRow
<1>5. CASE HasStatement(row, w) /\ w.type \in {"create", "set"}
    <2>1. WrittenRow(row, w) = Encode(MergeInto(NoFields, w.data), RowVersion(row) + 1)
        BY <1>5 DEF WrittenRow, FastRow
    <2> QED BY <2>1, <1>1, <1>4
<1>6. CASE HasStatement(row, w) /\ w.type \in {"merge", "update"}
    <2>1. WrittenRow(row, w) = PatchRow(IF row = None THEN NoRow ELSE row, w.data)
        BY <1>6 DEF WrittenRow, FastRow
    <2> QED BY <2>1, <1>2, <1>3, <1>4 DEF RowVersion
<1>7. CASE ~HasStatement(row, w)
    BY <1>4, <1>7 DEF WrittenRow
<1> QED BY <1>4, <1>5, <1>6, <1>7 DEF WriteOK

\* The read-modify-write alone, too, leaves what the write means.
LEMMA SlowOutcome ==
    ASSUME NEW row, NEW w, WriteOK(w), w.type # "delete", Applies(Document(row), w)
    PROVE  Decode(SlowRow(row, w)) = Outcome(Document(row), w)
<1> DEFINE outcome == Outcome(Document(row), w)
<1>1. Full(outcome) /\ \E f : outcome = Present(f)
    BY OutcomeIsFull DEF Outcome, WriteOK, MergeInto, ApplyUpdate, Patched
<1>2. /\ IsRow(SlowRow(row, w))
      /\ \A k : Field(Decode(SlowRow(row, w)), k) = Field(outcome, k)
    BY <1>1, EncodeOK DEF SlowRow, IsRow
<1>3. Full(Decode(SlowRow(row, w))) /\ \E f : Decode(SlowRow(row, w)) = Present(f)
    <2>1. Full(Decode(SlowRow(row, w)))
        BY <1>2, DecodeFields DEF IsRow
    <2> QED BY <2>1 DEF Decode
<1> HIDE DEF outcome
<1>4. Decode(SlowRow(row, w)) = outcome
    BY <1>1, <1>2, <1>3, SameFields
<1> QED BY <1>4 DEF outcome

\* One write to one row is one write to its document.
ImageAfter(row, w) ==
    IF w.type = "delete" THEN None
    ELSE [data |-> Outcome(Document(row), w), version |-> RowVersion(row) + 1]

LEMMA WriteImage ==
    ASSUME NoneIsNoFunction, NEW row, row # None => IsRow(row), NEW w, WriteOK(w),
           Applies(Document(row), w)
    PROVE  /\ Image(WrittenRow(row, w)) = ImageAfter(row, w)
           /\ w.type # "delete" => Image(SlowRow(row, w)) = ImageAfter(row, w)
<1>1. CASE w.type = "delete"
    BY <1>1 DEF WrittenRow, HasStatement, FastRow, Image, ImageAfter
<1>2. CASE w.type # "delete"
    <2>1. Decode(WrittenRow(row, w)) = Outcome(Document(row), w)
        BY <1>2, OneOutcome, FunctionsAreSome
    <2>2. Decode(SlowRow(row, w)) = Outcome(Document(row), w)
        BY <1>2, SlowOutcome
    <2> QED BY <1>2, <2>1, <2>2, WrittenVersion DEF Image, ImageAfter
<1> QED BY <1>1, <1>2

LEMMA SameOps ==
    ASSUME NEW doc, NEW w
    PROVE  /\ Serial!Applies(doc, w) <=> Applies(doc, w)
           /\ Serial!Outcome(doc, w) = Outcome(doc, w)
<1>1. Serial!Outcome(doc, w) = Outcome(doc, w)
    BY Zenon DEF Serial!Outcome, Outcome, Serial!MergeInto, MergeInto, Serial!ApplyUpdate, ApplyUpdate,
           Serial!Patched, Patched, Serial!Present, Present, Serial!Field, Field,
           Serial!MergeValue, MergeValue, Serial!ResolveValue, ResolveValue,
           Serial!Content, Content, Serial!IsNum, IsNum, Serial!Num, Num, Serial!ListOf, ListOf,
           Serial!MapOf, MapOf, Serial!NoFields, NoFields, Serial!Null, Null, Serial!Restrict, Restrict
<1> QED BY <1>1 DEF Serial!Applies, Applies

LEMMA WroteStep ==
    ASSUME NoneIsNoFunction, NEW es, es = [d \in Docs |-> es[d]], NEW w, w.doc \in Docs, NEW row,
           es[w.doc] = Image(row)
    PROVE  Serial!Wrote(es, w) =
               IF Applies(Document(row), w) THEN [es EXCEPT ![w.doc] = ImageAfter(row, w)] ELSE None
<1>1. es # None
    BY FunctionsAreSome
<1> QED BY <1>1, Images, SameOps DEF Serial!Wrote, ImageAfter

-----------------------------------------------------------------------------
(* The writes of a call, one after another *)

LEMMA FirstOne ==
    ASSUME NEW T, T \subseteq Nat, T # {}
    PROVE  \E n \in T : \A m \in T : n <= m
<1>1. PICK n \in T : \A m \in T : ~(<<m, n>> \in OpToRel(<, Nat))
    BY WFMin, NatLessThanWellFounded
<1>2. \A m \in T : ~(m < n)
    BY <1>1 DEF OpToRel
<1> QED BY <1>2

UpTo(g, es, ws, n) == g = [i \in 0..n |-> IF i = 0 THEN es ELSE Serial!Wrote(g[i - 1], ws[i])]

LEMMA AfterExists ==
    ASSUME NEW es, NEW ws
    PROVE  \A n \in Nat : \E g : UpTo(g, es, ws, n)
<1> DEFINE T == {n \in Nat : ~\E g : UpTo(g, es, ws, n)}
<1> SUFFICES ASSUME T # {} PROVE FALSE
    OBVIOUS
<1>1. PICK n \in T : \A m \in T : n <= m
    <2>1. T \subseteq Nat
        OBVIOUS
    <2> HIDE DEF T
    <2> QED BY <2>1, FirstOne
<1>2. n # 0
    <2>1. UpTo([i \in 0..0 |-> es], es, ws, 0)
        BY DEF UpTo
    <2> QED BY <2>1
<1>3. PICK g : UpTo(g, es, ws, n - 1)
    <2>1. n - 1 \in Nat /\ n - 1 \notin T
        BY <1>1, <1>2
    <2> QED BY <2>1
<1> DEFINE h == [i \in 0..n |-> IF i = n THEN Serial!Wrote(g[n - 1], ws[n]) ELSE g[i]]
<1>4. \A i \in 0..(n - 1) : g[i] = IF i = 0 THEN es ELSE Serial!Wrote(g[i - 1], ws[i])
    BY <1>3 DEF UpTo
<1>5. n \in Nat /\ \A i \in 0..n : i # n => i \in 0..(n - 1)
    OBVIOUS
<1>6. \A i \in 0..n : i # 0 => i - 1 \in 0..n /\ i - 1 # n
    BY <1>5
<1>7. \A i \in 0..n : h[i] = IF i = 0 THEN es ELSE Serial!Wrote(h[i - 1], ws[i])
    <2> HIDE DEF T
    <2>1. ASSUME NEW i \in 0..n, i # n
          PROVE  h[i] = IF i = 0 THEN es ELSE Serial!Wrote(h[i - 1], ws[i])
        BY <2>1, <1>4, <1>5, <1>6
    <2>2. h[n] = IF n = 0 THEN es ELSE Serial!Wrote(h[n - 1], ws[n])
        BY <1>2, <1>5, <1>6
    <2> QED BY <2>1, <2>2
<1>8. UpTo(h, es, ws, n)
    <2>1. h = [i \in 0..n |-> h[i]]
        OBVIOUS
    <2> HIDE DEF h, T
    <2> QED BY <2>1, <1>7 DEF UpTo
<1> QED BY <1>8

LEMMA AfterStep ==
    ASSUME NEW es, NEW ws, Len(ws) \in Nat
    PROVE  /\ Serial!After(es, ws)[0] = es
           /\ \A i \in 1..Len(ws) :
                  Serial!After(es, ws)[i] = Serial!Wrote(Serial!After(es, ws)[i - 1], ws[i])
<1>1. PICK g : UpTo(g, es, ws, Len(ws)) /\ Serial!After(es, ws) = g
    <2>1. \E g : UpTo(g, es, ws, Len(ws))
        BY AfterExists
    <2>2. Serial!After(es, ws) = CHOOSE g : UpTo(g, es, ws, Len(ws))
        BY Zenon DEF Serial!After, UpTo
    <2> QED BY <2>1, <2>2
<1> QED BY <1>1 DEF UpTo

\* A write that does not apply spoils the call.
LEMMA Spoilt ==
    ASSUME NEW es, NEW ws, Len(ws) \in Nat, NEW i \in 0..Len(ws), Serial!After(es, ws)[i] = None
    PROVE  Serial!Effect(es, ws) = None
<1> DEFINE T == {n \in i..Len(ws) : Serial!After(es, ws)[n] # None}
<1>1. T = {}
    <2> SUFFICES ASSUME T # {} PROVE FALSE
        OBVIOUS
    <2>1. PICK n \in T : \A m \in T : n <= m
        <3>1. T \subseteq Nat
            OBVIOUS
        <3> HIDE DEF T
        <3> QED BY <3>1, FirstOne
    <2>2. n # i /\ n \in 1..Len(ws) /\ n - 1 \in i..Len(ws) /\ n - 1 \notin T
        BY <2>1
    <2>3. Serial!After(es, ws)[n - 1] = None
        BY <2>2
    <2>4. Serial!After(es, ws)[n] = Serial!Wrote(None, ws[n])
        BY <2>2, <2>3, AfterStep
    <2> QED BY <2>4 DEF Serial!Wrote
<1>2. Serial!After(es, ws)[Len(ws)] = None
    BY <1>1
<1> QED BY <1>2 DEF Serial!Effect

-----------------------------------------------------------------------------
(* Transactions, by what they have written *)

\* The documents a transaction would leave of the documents es, if it ended now.
Leaves(c, es) == [d \in Docs |-> IF d \in DOMAIN tx[c].wrote THEN Image(tx[c].wrote[d]) ELSE es[d]]

\* Documents that differ from the committed ones only where c has no lock.
Like(c, es) == es = [d \in Docs |-> es[d]] /\ \A d \in Docs : lock[d] = c => es[d] = Documents[d]

\* A call that is being written has found what it expected, holds the locks of what
\* it has read and written, and has written what its first writes do, to these
\* documents and to all that others may make of them meanwhile.
Writing(c) ==
    /\ tx[c].at \in 1..(Len(Writes(c)) + 1)
    /\ Serial!Expected(Documents, c)
    /\ \A d \in DOMAIN call[c].seen \cup DOMAIN tx[c].wrote : d \in Docs /\ lock[d] = c
    /\ \A es : Like(c, es) => Serial!After(es, Writes(c))[tx[c].at - 1] = Leaves(c, es)

Phase(c) ==
    /\ tx[c].pc \in {"idle", "read", "write", "fast", "waiting", "slow", "done"}
    /\ tx[c].pc = "idle" <=> call[c] = None
    /\ tx[c].pc = "done" <=> answer[c] # "none"
    /\ call[c] # None =>
           \E k \in Calls : call[c].kind = k.kind /\ call[c].writes = k.writes
                            /\ DOMAIN call[c].seen = k.expects
    /\ tx[c].pc = "read" => call[c].kind = "commit"
    /\ tx[c].pc = "write" => Writing(c)
    /\ tx[c].pc # "write" => tx[c].at = 1 /\ DOMAIN tx[c].wrote = {}

Refines ==
    /\ IInv
    /\ lock = [d \in Docs |-> lock[d]]
    /\ answer = [c \in Clients |-> answer[c]]
    /\ \A c \in Clients : Phase(c)

LEMMA StatementIsInterval ==
    ASSUME Refines, NEW c \in Clients, More(c)
    PROVE  \E last \in tx[c].at..Len(Writes(c)) :
               /\ Statement(c) = tx[c].at..last
               /\ Cardinality(Statement(c)) = last - tx[c].at + 1
               /\ \A j \in tx[c].at..last, h \in tx[c].at..last :
                      h # j => Writes(c)[h].doc # Writes(c)[j].doc
<1> DEFINE at == tx[c].at  ws == Writes(c)
<1>1. at \in Nat \ {0} /\ Len(ws) \in Nat /\ at <= Len(ws)
    <2>1. TxOK(tx[c], call[c]) /\ tx[c].pc # "idle" /\ call[c] # None
        BY DEF Refines, IInv, More, Phase
    <2>2. PICK k \in Calls : call[c].writes = k.writes
        BY <2>1 DEF TxOK
    <2> QED BY <2>1, <2>2, WriteAssumption DEF TxOK, Writes, More
<1> DEFINE S == Statement(c)
<1>2. S = {j \in at..Len(ws) :
              \A i \in (at + 1)..j :
                  /\ ws[at].type \in {"create", "set"} /\ ws[i].type = ws[at].type
                  /\ CollectionOf[ws[i].doc] = CollectionOf[ws[at].doc]
                  /\ \A h \in at..(i - 1) : ws[h].doc # ws[i].doc}
    BY DEF Statement
<1> HIDE DEF S, at, ws
<1>3. at \in S
    BY <1>1, <1>2
<1>4. \A j \in S : \A i \in at..j : i \in S
    BY <1>1, <1>2
<1>5. \A j \in S : \A i, h \in at..j : h # i => ws[h].doc # ws[i].doc
    <2>1. \A j \in S : \A i \in (at + 1)..j : \A h \in at..(i - 1) : ws[h].doc # ws[i].doc
        BY <1>2
    <2>2. \A j \in S : \A i, h \in at..j : h < i => ws[h].doc # ws[i].doc
        BY <2>1, <1>1, <1>2
    <2> QED BY <2>2, <1>1, <1>2
<1>6. PICK last \in S : \A j \in S : j <= last
    <2> DEFINE T == {Len(ws) - j : j \in S}
    <2>1. T \subseteq Nat /\ T # {}
        BY <1>1, <1>2, <1>3
    <2>2. PICK n \in T : \A m \in T : n <= m
        <3> HIDE DEF T
        <3> QED BY <2>1, FirstOne
    <2>3. PICK last \in S : n = Len(ws) - last
        OBVIOUS
    <2>4. \A j \in S : Len(ws) - j \in T
        OBVIOUS
    <2> HIDE DEF T
    <2>5. \A j \in S : j <= last
        BY <2>2, <2>3, <2>4, <1>1, <1>2
    <2> QED BY <2>5
<1>7. S = at..last /\ last \in at..Len(ws)
    BY <1>1, <1>2, <1>4, <1>6
<1>8. Cardinality(S) = last - at + 1
    <2>1. at \in Int /\ last \in Int /\ last >= at
        BY <1>1, <1>7
    <2> QED BY <2>1, <1>7, FS_Interval
<1>9. \A j \in at..last, h \in at..last : h # j => ws[h].doc # ws[j].doc
    BY <1>5, <1>6
<1> QED BY <1>7, <1>8, <1>9 DEF S, at, ws

\* The call of a caller that is running comes from the calls there are.
LEMMA Asked ==
    ASSUME Refines, NEW c \in Clients, tx[c].pc # "idle"
    PROVE  /\ call[c] # None /\ Len(Writes(c)) \in Nat
           /\ \A i \in 1..Len(Writes(c)) : WriteOK(Writes(c)[i])
           /\ DOMAIN call[c].seen \subseteq Docs
           /\ call[c].kind # "commit" => DOMAIN call[c].seen = {}
<1>1. TxOK(tx[c], call[c]) /\ call[c] # None
    BY DEF Refines, IInv, Phase
<1>2. PICK k \in Calls : /\ call[c].kind = k.kind /\ call[c].writes = k.writes
                         /\ DOMAIN call[c].seen = k.expects
    BY <1>1 DEF Refines, Phase
<1>3. Len(Writes(c)) \in Nat
    BY <1>2, WriteAssumption DEF Writes
<1>4. DOMAIN call[c].seen \subseteq Docs /\ (call[c].kind # "commit" => DOMAIN call[c].seen = {})
    BY <1>2, CallAssumption
<1> QED BY <1>1, <1>3, <1>4, WritesOK

LEMMA LikeItself == ASSUME NEW c PROVE Like(c, Documents)
BY DEF Like, Documents

Group(c) == {Writes(c)[i] : i \in Statement(c)}
WriteOf(c, d) == CHOOSE w \in Group(c) : w.doc = d

\* Which write of a statement is the one of a document.
LEMMA WritesOfGroup ==
    ASSUME Refines, NEW c \in Clients, More(c)
    PROVE  /\ \A w \in Group(c) : WriteOK(w) /\ WriteOf(c, w.doc) = w
           /\ \A i \in Statement(c) : Writes(c)[i] \in Group(c)
<1>1. PICK last \in tx[c].at..Len(Writes(c)) :
          /\ Statement(c) = tx[c].at..last
          /\ \A j \in tx[c].at..last, h \in tx[c].at..last :
                 h # j => Writes(c)[h].doc # Writes(c)[j].doc
    BY StatementIsInterval
<1>2. tx[c].at \in Nat \ {0} /\ Len(Writes(c)) \in Nat /\ \A i \in 1..Len(Writes(c)) : WriteOK(Writes(c)[i])
    BY Asked DEF Refines, IInv, TxOK, More
<1>3. ASSUME NEW i \in Statement(c)
      PROVE  WriteOK(Writes(c)[i]) /\ WriteOf(c, Writes(c)[i].doc) = Writes(c)[i]
    <2>1. i \in 1..Len(Writes(c))
        BY <1>1, <1>2
    <2>2. PICK h \in Statement(c) :
              WriteOf(c, Writes(c)[i].doc) = Writes(c)[h] /\ Writes(c)[h].doc = Writes(c)[i].doc
        BY DEF WriteOf, Group
    <2>3. h = i
        BY <1>1, <2>2
    <2> QED BY <1>2, <2>1, <2>2, <2>3
<1> QED BY <1>3 DEF Group

\* What the store would be after the first writes of a statement, if they all apply.
Partly(c, es, j) ==
    [d \in Docs |-> IF \E i \in tx[c].at..j : Writes(c)[i].doc = d
                    THEN ImageAfter(Seen(c, d), WriteOf(c, d)) ELSE Leaves(c, es)[d]]

AllApply(c, j) == \A i \in tx[c].at..j : Applies(Document(Seen(c, Writes(c)[i].doc)), Writes(c)[i])

\* One statement does what its writes would do one after another.
LEMMA GroupSteps ==
    ASSUME NoneIsNoFunction, Refines, NEW c \in Clients, More(c), Unlocked(c) = {},
           NEW es, Like(c, es),
           NEW last \in tx[c].at..Len(Writes(c)), Statement(c) = tx[c].at..last,
           \A j \in tx[c].at..last, h \in tx[c].at..last :
               h # j => Writes(c)[h].doc # Writes(c)[j].doc
    PROVE  \A j \in (tx[c].at - 1)..last :
               Serial!After(es, Writes(c))[j] = IF AllApply(c, j) THEN Partly(c, es, j) ELSE None
<1> DEFINE at == tx[c].at  ws == Writes(c)  after == Serial!After(es, Writes(c))
<1>1. /\ at \in Nat \ {0} /\ Len(ws) \in Nat /\ at <= Len(ws)
      /\ \A i \in at..last : WriteOK(ws[i]) /\ WriteOf(c, ws[i].doc) = ws[i]
    <2>1. tx[c].pc # "idle" /\ at \in Nat \ {0}
        BY DEF Refines, IInv, TxOK, More
    <2> QED BY <2>1, Asked, WritesOfGroup DEF More
<1>2. after[at - 1] = Leaves(c, es)
    BY DEF Refines, Phase, Writing, More
<1>3. \A i \in at..last : ws[i].doc \in Docs /\ Leaves(c, es)[ws[i].doc] = Image(Seen(c, ws[i].doc))
    <2> SUFFICES ASSUME NEW i \in at..last
                 PROVE  ws[i].doc \in Docs /\ Leaves(c, es)[ws[i].doc] = Image(Seen(c, ws[i].doc))
        OBVIOUS
    <2>1. ws[i].doc \in Docs
        BY <1>1 DEF WriteOK
    <2>2. lock[ws[i].doc] = c
        BY DEF Unlocked, Holds
    <2>3. es[ws[i].doc] = Image(rows[ws[i].doc])
        BY <2>1, <2>2, DocumentsAreImages DEF Like
    <2> QED BY <2>1, <2>3 DEF Leaves, Seen
<1> DEFINE T == {j \in (at - 1)..last :
                    after[j] # IF AllApply(c, j) THEN Partly(c, es, j) ELSE None}
<1> SUFFICES ASSUME T # {} PROVE FALSE
    OBVIOUS
<1>4. PICK n \in T : \A m \in T : n <= m
    <2>1. T \subseteq Nat
        BY <1>1
    <2> HIDE DEF T
    <2> QED BY <2>1, FirstOne
<1>5. n # at - 1
    <2>1. at..(at - 1) = {}
        BY <1>1
    <2>2. AllApply(c, at - 1) /\ Partly(c, es, at - 1) = Leaves(c, es)
        BY <2>1 DEF AllApply, Partly, Leaves
    <2> QED BY <2>2, <1>2
<1>6. n \in at..last /\ n - 1 \in (at - 1)..last /\ n - 1 \notin T /\ n \in 1..Len(ws)
    BY <1>1, <1>4, <1>5
<1>7. after[n - 1] = IF AllApply(c, n - 1) THEN Partly(c, es, n - 1) ELSE None
    BY <1>6
<1>8. after[n] = Serial!Wrote(after[n - 1], ws[n])
    BY <1>1, <1>6, AfterStep
<1>9. after[n] # IF AllApply(c, n) THEN Partly(c, es, n) ELSE None
    BY <1>4
<1>10. \A i : i \in at..n <=> i \in at..(n - 1) \/ i = n
    BY <1>1, <1>6
<1>11. \A i \in at..(n - 1) : i \in at..last /\ i # n
    BY <1>1, <1>6
<1> HIDE DEF T, at, ws, after
<1>12. CASE ~AllApply(c, n - 1)
    <2>1. ~AllApply(c, n)
        BY <1>10, <1>12 DEF AllApply, at
    <2>2. after[n] = None
        BY <1>7, <1>8, <1>12 DEF Serial!Wrote
    <2> QED BY <2>1, <2>2, <1>9
<1>13. CASE AllApply(c, n - 1)
    <2> DEFINE w == ws[n]  before == Partly(c, es, n - 1)
    <2>1. w.doc \in Docs /\ \A i \in at..(n - 1) : ws[i].doc # w.doc
        BY <1>3, <1>6, <1>11 DEF at, ws
    <2>2. before = [d \in Docs |-> before[d]] /\ before[w.doc] = Image(Seen(c, w.doc))
        BY <2>1, <1>3, <1>6 DEF Partly, at, ws
    <2>3. after[n] = IF Applies(Document(Seen(c, w.doc)), w)
                     THEN [before EXCEPT ![w.doc] = ImageAfter(Seen(c, w.doc), w)] ELSE None
        <3> HIDE DEF before, w
        <3>1. after[n] = Serial!Wrote(before, w)
            BY <1>7, <1>8, <1>13 DEF before, w
        <3> QED BY <3>1, <2>1, <2>2, WroteStep
    <2>4. AllApply(c, n) <=> Applies(Document(Seen(c, w.doc)), w)
        BY <1>10, <1>13 DEF AllApply, at, ws
    <2>5. Partly(c, es, n) = [before EXCEPT ![w.doc] = ImageAfter(Seen(c, w.doc), w)]
        <3>1. ASSUME NEW d \in Docs
              PROVE  Partly(c, es, n)[d] = IF d = w.doc THEN ImageAfter(Seen(c, w.doc), w) ELSE before[d]
            <4>1. (\E i \in at..n : ws[i].doc = d) <=> d = w.doc \/ \E i \in at..(n - 1) : ws[i].doc = d
                BY <1>10
            <4>2. WriteOf(c, w.doc) = w
                BY <1>1, <1>6
            <4> QED BY <4>1, <4>2 DEF Partly, at, ws
        <3>2. Partly(c, es, n) = [d \in Docs |-> Partly(c, es, n)[d]]
            BY DEF Partly
        <3> HIDE DEF before, w
        <3> QED BY <3>1, <3>2, <2>1, <2>2
    <2> QED BY <1>9, <2>3, <2>4, <2>5
<1> QED BY <1>12, <1>13

-----------------------------------------------------------------------------
(* Calls keep their phases *)

\* A call is undisturbed by steps that leave alone the documents it has locked.
LEMMA Undisturbed ==
    ASSUME Refines, NEW x \in Clients,
           tx'[x] = tx[x], call'[x] = call[x], answer'[x] = answer[x],
           \A d \in Docs : lock[d] = x => lock'[d] = x /\ rows'[d] = rows[d]
    PROVE  Phase(x)'
<1>1. ASSUME tx[x].pc = "write"
      PROVE  Writing(x)'
    <2>1. Writing(x) /\ Phase(x)
        BY <1>1 DEF Refines, Phase
    <2>2. \A d \in Docs : lock[d] = x => Documents'[d] = Documents[d]
        BY DEF Documents
    <2>3. Writes(x)' = Writes(x)
        BY DEF Writes
    <2>4. Serial!Expected(Documents, x)'
        BY <2>1, <2>2 DEF Writing, Serial!Expected, Serial!Version
    <2>5. ASSUME NEW es, Like(x, es)'
          PROVE  Serial!After(es, Writes(x)')[tx'[x].at - 1] = Leaves(x, es)'
        <3>1. Like(x, es)
            BY <2>2, <2>5 DEF Like
        <3>2. Leaves(x, es)' = Leaves(x, es)
            BY DEF Leaves
        <3> QED BY <2>1, <2>3, <3>1, <3>2 DEF Writing
    <2> QED BY <2>1, <2>3, <2>4, <2>5 DEF Writing
<1>2. Phase(x)
    BY DEF Refines
<1> QED BY <1>1, <1>2 DEF Phase

\* A step of one caller.
LEMMA StepOfOne ==
    ASSUME Refines, IInv', NEW c \in Clients, Phase(c)',
           lock' = [d \in Docs |-> lock'[d]], answer' = [x \in Clients |-> answer'[x]],
           \A x \in Clients \ {c} :
               /\ tx'[x] = tx[x] /\ call'[x] = call[x] /\ answer'[x] = answer[x]
               /\ \A d \in Docs : lock[d] = x => lock'[d] = x /\ rows'[d] = rows[d]
    PROVE  Refines'
<1>1. ASSUME NEW x \in Clients PROVE Phase(x)'
    BY Undisturbed
<1> QED BY <1>1 DEF Refines

\* How a transaction begins to write.
LEMMA Starts ==
    ASSUME NEW c \in Clients, Len(Writes(c)') \in Nat, tx'[c].at = 1, DOMAIN tx'[c].wrote = {},
           \A d \in DOMAIN call'[c].seen :
               d \in Docs /\ lock'[d] = c /\ Serial!Version(Documents'[d]) = call'[c].seen[d]
    PROVE  Writing(c)'
<1>1. ASSUME NEW es, Like(c, es)'
      PROVE  Serial!After(es, Writes(c)')[0] = Leaves(c, es)'
    <2>1. Serial!After(es, Writes(c)')[0] = es
        BY AfterStep
    <2>2. es = [d \in Docs |-> es[d]]
        BY <1>1 DEF Like
    <2>3. Leaves(c, es)' = [d \in Docs |-> es[d]]
        BY DEF Leaves
    <2> QED BY <2>1, <2>2, <2>3
<1>2. Serial!Expected(Documents, c)'
    BY DEF Serial!Expected
<1> QED BY <1>1, <1>2 DEF Writing

LEMMA OnlyPc ==
    ASSUME IInv, NEW c \in Clients, NEW p, NEW m,
           \/ tx' = [tx EXCEPT ![c].pc = p]
           \/ tx' = [tx EXCEPT ![c].pc = p, ![c].missed = m]
    PROVE  /\ tx'[c].pc = p /\ tx'[c].at = tx[c].at /\ tx'[c].wrote = tx[c].wrote
           /\ \A x \in Clients \ {c} : tx'[x] = tx[x]
BY DEF IInv, TxOK, TxFields

\* The end of a call, and of its transaction.
LEMMA Ends ==
    ASSUME Refines, IInv', NEW c \in Clients, Running(c), NEW a, a # "none", Finish(c, a),
           \A d \in Docs : rows'[d] # rows[d] => lock[d] \in {c, None}
    PROVE  Refines'
<1>1. tx'[c] = [Idle EXCEPT !.pc = "done"] /\ answer'[c] = a /\ call' = call
    BY DEF Finish, Refines, IInv
<1>2. tx'[c].pc = "done" /\ tx'[c].at = 1 /\ DOMAIN tx'[c].wrote = {}
    BY <1>1 DEF Idle
<1>3. Phase(c)'
    BY <1>1, <1>2 DEF Refines, Phase, Running
<1>4. None \notin Clients
    BY CallAssumption
<1>5. ASSUME NEW x \in Clients \ {c}
      PROVE  /\ tx'[x] = tx[x] /\ call'[x] = call[x] /\ answer'[x] = answer[x]
             /\ \A d \in Docs : lock[d] = x => lock'[d] = x /\ rows'[d] = rows[d]
    BY <1>4 DEF Finish, Released, Refines, IInv
<1>6. lock' = [d \in Docs |-> lock'[d]] /\ answer' = [x \in Clients |-> answer'[x]]
    BY DEF Finish, Released, Refines
<1> QED BY <1>3, <1>5, <1>6, StepOfOne

LEMMA EndsWithoutEffect ==
    ASSUME Refines, IInv', NEW c \in Clients, Running(c), NEW a, a # "none", Rollback(c, a)
    PROVE  Refines'
BY Ends DEF Rollback

\* A step of a call that only takes a lock, or only goes on to its next attempt or step.
LEMMA Continues ==
    ASSUME Refines, IInv', NEW c \in Clients, Phase(c)', UNCHANGED <<rows, lock, call, answer>>,
           \A x \in Clients \ {c} : tx'[x] = tx[x]
    PROVE  Refines'
<1>1. lock' = [d \in Docs |-> lock'[d]] /\ answer' = [x \in Clients |-> answer'[x]]
    BY DEF Refines
<1> QED BY <1>1, StepOfOne

LEMMA LockPhase ==
    ASSUME Refines, IInv', NEW c \in Clients, NEW d, lock[d] = None, lock' = [lock EXCEPT ![d] = c],
           UNCHANGED <<rows, tx, call, answer>>
    PROVE  Refines'
<1>1. None \notin Clients
    BY CallAssumption
<1>2. \A x \in Clients, e \in Docs : lock[e] = x => lock'[e] = x
    BY <1>1 DEF Refines
<1>3. Phase(c)'
    BY <1>2, Undisturbed
<1>4. lock' = [e \in Docs |-> lock'[e]] /\ answer' = [x \in Clients |-> answer'[x]]
    BY DEF Refines
<1> QED BY <1>2, <1>3, <1>4, StepOfOne

LEMMA AskPhase == ASSUME NoneIsNoFunction, Refines, IInv', NEW c \in Clients, Ask(c) PROVE Refines'
<1>1. PICK k \in Calls :
          /\ call' = [call EXCEPT ![c] =
                 [kind |-> k.kind, writes |-> k.writes,
                  seen |-> [d \in k.expects |-> RowVersion(rows[d])]]]
          /\ tx' = [tx EXCEPT ![c].pc = First(k.kind)]
    BY DEF Ask
<1>2. call[c] = None /\ tx[c].pc = "idle" /\ tx[c].at = 1 /\ DOMAIN tx[c].wrote = {} /\ answer[c] = "none"
    BY DEF Ask, Refines, Phase
<1>3. /\ tx'[c].pc = First(k.kind) /\ tx'[c].at = 1 /\ DOMAIN tx'[c].wrote = {}
      /\ \A x \in Clients \ {c} : tx'[x] = tx[x]
    BY <1>1, <1>2, OnlyPc DEF Refines
<1>4. /\ call'[c].kind = k.kind /\ call'[c].writes = k.writes /\ DOMAIN call'[c].seen = k.expects
      /\ \A x \in Clients \ {c} : call'[x] = call[x]
    BY <1>1 DEF Refines, IInv
<1>5. call'[c] # None
    <2>1. \A a, b, e : [kind |-> a, writes |-> b, seen |-> e] # None
        <3> SUFFICES ASSUME NEW a, NEW b, NEW e PROVE [kind |-> a, writes |-> b, seen |-> e] # None
            OBVIOUS
        <3> DEFINE r == [kind |-> a, writes |-> b, seen |-> e]
        <3>1. [x \in {"kind", "writes", "seen"} |-> r[x]] = r
            OBVIOUS
        <3> HIDE DEF r
        <3>2. r # None
            BY <3>1 DEF NoneIsNoFunction
        <3> QED BY <3>2 DEF r
    <2> QED BY <2>1, <1>1 DEF Refines, IInv
<1>6. /\ First(k.kind) = "read" => k.kind = "commit"
      /\ First(k.kind) = "write" => k.kind = "batch"
      /\ First(k.kind) \in {"read", "write", "fast"}
    BY CallAssumption DEF First
<1>7. ASSUME First(k.kind) = "write" PROVE Writing(c)'
    <2>1. DOMAIN call'[c].seen = {}
        BY <1>4, <1>6, <1>7, CallAssumption
    <2>2. Len(Writes(c)') \in Nat
        BY <1>4, WriteAssumption DEF Writes
    <2> QED BY <1>3, <2>1, <2>2, Starts
<1>8. answer' = answer /\ lock' = lock /\ rows' = rows
    BY DEF Ask
<1>9. Phase(c)'
    BY <1>2, <1>3, <1>4, <1>5, <1>6, <1>7, <1>8 DEF Phase
<1>10. lock' = [d \in Docs |-> lock'[d]] /\ answer' = [x \in Clients |-> answer'[x]]
    BY <1>8 DEF Refines
<1> QED BY <1>3, <1>4, <1>8, <1>9, <1>10, StepOfOne

LEMMA AnsweredPhase == ASSUME Refines, IInv', NEW c \in Clients, Answered(c) PROVE Refines'
<1>1. tx'[c] = Idle /\ call'[c] = None /\ answer'[c] = "none"
    BY DEF Answered, Refines, IInv
<1>2. tx'[c].pc = "idle" /\ tx'[c].at = 1 /\ DOMAIN tx'[c].wrote = {}
    BY <1>1 DEF Idle
<1>3. Phase(c)'
    BY <1>1, <1>2 DEF Phase
<1>4. \A x \in Clients \ {c} : tx'[x] = tx[x] /\ call'[x] = call[x] /\ answer'[x] = answer[x]
    BY DEF Answered, Refines, IInv
<1>5. rows' = rows /\ lock' = lock
    BY DEF Answered
<1>6. lock' = [d \in Docs |-> lock'[d]] /\ answer' = [x \in Clients |-> answer'[x]]
    BY DEF Answered, Refines
<1> QED BY <1>3, <1>4, <1>5, <1>6, StepOfOne

LEMMA CheckPhase == ASSUME NoneIsNoFunction, Refines, IInv', NEW c \in Clients, Check(c) PROVE Refines'
<1>1. tx[c].pc = "read" /\ Running(c) /\ tx[c].at = 1 /\ DOMAIN tx[c].wrote = {} /\ Phase(c)
    BY DEF Check, Running, Refines, Phase
<1>2. CASE Rollback(c, "refused")
    BY <1>1, <1>2, EndsWithoutEffect
<1>3. CASE /\ Serial!Expected(Documents, c)
           /\ tx' = [tx EXCEPT ![c].pc = "write"] /\ UNCHANGED <<rows, lock, call, answer>>
    <2>1. /\ tx'[c].pc = "write" /\ tx'[c].at = 1 /\ DOMAIN tx'[c].wrote = {}
          /\ \A x \in Clients \ {c} : tx'[x] = tx[x]
        BY <1>1, <1>3, OnlyPc DEF Refines
    <2>2. Len(Writes(c)) \in Nat /\ DOMAIN call[c].seen \subseteq Docs
        BY <1>1, Asked
    <2>3. \A d \in DOMAIN call[c].seen : lock[d] = c
        BY DEF Check, Unread, Holds
    <2>4. Documents' = Documents /\ Writes(c)' = Writes(c) /\ call' = call /\ lock' = lock
        BY <1>3 DEF Documents, Writes
    <2>5. Writing(c)'
        BY <1>3, <2>1, <2>2, <2>3, <2>4, Starts DEF Serial!Expected
    <2>6. Phase(c)'
        BY <1>1, <1>3, <2>1, <2>5 DEF Phase
    <2> QED BY <1>3, <2>1, <2>6, Continues
<1> QED BY <1>2, <1>3 DEF Check

\* What the transaction has written after its next statement.
WroteThen(c) ==
    [d \in DOMAIN tx[c].wrote \cup {w.doc : w \in Group(c)} |->
        IF \E w \in Group(c) : w.doc = d
        THEN WrittenRow(Seen(c, d), WriteOf(c, d)) ELSE tx[c].wrote[d]]
Then(c) == tx[c].at + Cardinality(Statement(c))

\* What a statement leaves, when all its writes apply.
LEMMA StatementDone ==
    ASSUME NoneIsNoFunction, Refines, NEW c \in Clients, More(c), Unlocked(c) = {},
           \A w \in Group(c) : Applies(Document(Seen(c, w.doc)), w),
           NEW es, Like(c, es)
    PROVE  /\ Then(c) \in 1..(Len(Writes(c)) + 1)
           /\ Serial!After(es, Writes(c))[Then(c) - 1] =
                  [d \in Docs |-> IF d \in DOMAIN WroteThen(c) THEN Image(WroteThen(c)[d]) ELSE es[d]]
<1>1. PICK last \in tx[c].at..Len(Writes(c)) :
          /\ Statement(c) = tx[c].at..last
          /\ Cardinality(Statement(c)) = last - tx[c].at + 1
          /\ \A j \in tx[c].at..last, h \in tx[c].at..last :
                 h # j => Writes(c)[h].doc # Writes(c)[j].doc
    BY StatementIsInterval
<1>2. tx[c].at \in Nat \ {0} /\ Len(Writes(c)) \in Nat
    BY Asked DEF Refines, IInv, TxOK, More
<1>3. Then(c) - 1 = last /\ Then(c) \in 1..(Len(Writes(c)) + 1) /\ last \in (tx[c].at - 1)..last
    BY <1>1, <1>2 DEF Then
<1>4. AllApply(c, last)
    BY <1>1, WritesOfGroup DEF AllApply
<1>5. Serial!After(es, Writes(c))[last] = Partly(c, es, last)
    BY <1>1, <1>3, <1>4, GroupSteps
<1> DEFINE wrote == WroteThen(c)
<1>6. ASSUME NEW d \in Docs
      PROVE  Partly(c, es, last)[d] = IF d \in DOMAIN wrote THEN Image(wrote[d]) ELSE es[d]
    <2>1. (\E i \in tx[c].at..last : Writes(c)[i].doc = d) <=> \E w \in Group(c) : w.doc = d
        BY <1>1 DEF Group
    <2>2. CASE \E w \in Group(c) : w.doc = d
        <3>1. PICK w \in Group(c) : w.doc = d
            BY <2>2
        <3>2. WriteOK(w) /\ WriteOf(c, d) = w /\ Applies(Document(Seen(c, d)), w)
            BY <3>1, WritesOfGroup
        <3>3. Seen(c, d) # None => IsRow(Seen(c, d))
            BY SeenOK DEF Refines
        <3>4. Image(WrittenRow(Seen(c, d), w)) = ImageAfter(Seen(c, d), w)
            BY <3>2, <3>3, WriteImage
        <3>5. d \in DOMAIN wrote /\ wrote[d] = WrittenRow(Seen(c, d), w)
            BY <3>1, <3>2 DEF WroteThen
        <3> QED BY <2>1, <2>2, <3>2, <3>4, <3>5 DEF Partly
    <2>3. CASE ~\E w \in Group(c) : w.doc = d
        <3>1. d \in DOMAIN wrote <=> d \in DOMAIN tx[c].wrote
            BY <2>3 DEF WroteThen
        <3>2. d \in DOMAIN wrote => wrote[d] = tx[c].wrote[d]
            BY <2>3 DEF WroteThen
        <3> QED BY <2>1, <2>3, <3>1, <3>2 DEF Partly, Leaves
    <2> QED BY <2>2, <2>3
<1>7. Partly(c, es, last) = [d \in Docs |-> Partly(c, es, last)[d]]
    BY DEF Partly
<1>8. Partly(c, es, last) = [d \in Docs |-> IF d \in DOMAIN wrote THEN Image(wrote[d]) ELSE es[d]]
    BY <1>6, <1>7
<1> QED BY <1>3, <1>5, <1>8

LEMMA ApplyPhase == ASSUME NoneIsNoFunction, Refines, IInv', NEW c \in Clients, Apply(c) PROVE Refines'
<1> DEFINE wrote == WroteThen(c)  at == Then(c)
<1>1. More(c) /\ Unlocked(c) = {} /\ tx[c].pc = "write" /\ Running(c) /\ Writing(c) /\ Phase(c)
    BY DEF Apply, More, Running, Refines, Phase
<1>2. CASE Rollback(c, "refused")
    BY <1>1, <1>2, EndsWithoutEffect
<1>3. CASE /\ \A w \in Group(c) : Applies(Document(Seen(c, w.doc)), w)
           /\ tx' = [tx EXCEPT ![c].at = @ + Cardinality(Statement(c)), ![c].wrote = wrote]
           /\ UNCHANGED <<rows, lock, call, answer>>
    <2>1. /\ tx'[c].pc = "write" /\ tx'[c].at = at /\ tx'[c].wrote = wrote
          /\ \A x \in Clients \ {c} : tx'[x] = tx[x]
        BY <1>1, <1>3 DEF Refines, IInv, TxOK, TxFields, Then
    <2>2. Writes(c)' = Writes(c) /\ Documents' = Documents
        BY <1>3 DEF Writes, Documents
    <2>3. ASSUME NEW es, Like(c, es)'
          PROVE  Serial!After(es, Writes(c)')[tx'[c].at - 1] = Leaves(c, es)'
        <3>1. Like(c, es)
            BY <1>3, <2>2, <2>3 DEF Like
        <3>2. Serial!After(es, Writes(c))[at - 1] =
                  [d \in Docs |-> IF d \in DOMAIN wrote THEN Image(wrote[d]) ELSE es[d]]
            BY <1>1, <1>3, <3>1, StatementDone
        <3> HIDE DEF wrote, at
        <3> QED BY <2>1, <2>2, <3>2 DEF Leaves
    <2>4. at \in 1..(Len(Writes(c)) + 1)
        BY <1>1, <1>3, LikeItself, StatementDone
    <2>5. \A d \in DOMAIN wrote : d \in Docs /\ lock[d] = c
        <3>1. \A w \in Group(c) : w.doc \in Docs /\ lock[w.doc] = c
            BY <1>1, WritesOfGroup DEF WriteOK, Group, Unlocked, Holds
        <3> QED BY <1>1, <3>1 DEF Writing, WroteThen
    <2>6. Serial!Expected(Documents, c)'
        BY <1>1, <1>3, <2>2 DEF Writing, Serial!Expected, Serial!Version
    <2>7. Writing(c)'
        <3> HIDE DEF wrote, at
        <3> QED BY <1>1, <1>3, <2>1, <2>2, <2>3, <2>4, <2>5, <2>6 DEF Writing
    <2>8. Phase(c)'
        BY <1>1, <1>3, <2>1, <2>7 DEF Phase
    <2> QED BY <1>3, <2>1, <2>8, Continues
<1> QED BY <1>2, <1>3 DEF Apply, Group, WriteOf, WroteThen

LEMMA CommitPhase == ASSUME Refines, IInv', NEW c \in Clients, Commit(c) PROVE Refines'
<1>1. Running(c) /\ Writing(c)
    BY DEF Commit, Running, Refines, Phase
<1>2. \A d \in Docs : rows'[d] # rows[d] => lock[d] \in {c, None}
    BY <1>1 DEF Commit, Committed, Seen, Writing
<1> QED BY <1>1, <1>2, Ends DEF Commit, Committed

LEMMA SinglePhase ==
    ASSUME Refines, IInv', NEW c \in Clients, FastWait(c) \/ FastRun(c) \/ SlowRun(c)
    PROVE  Refines'
<1> DEFINE d == Single(c).doc
<1>1. tx[c].pc \in {"fast", "waiting", "slow"} /\ Running(c) /\ Phase(c)
    BY DEF FastWait, FastRun, SlowRun, Running, Refines
<1>2. CASE Rollback(c, "refused")
    BY <1>1, <1>2, EndsWithoutEffect
<1>3. ASSUME NEW row, lock[d] = None, Committed(c, [rows EXCEPT ![d] = row])
      PROVE  Refines'
    <2>1. \A e \in Docs : rows'[e] # rows[e] => lock[e] \in {c, None}
        BY <1>3 DEF Committed, Refines, IInv, RowsOK
    <2> QED BY <1>1, <1>3, <2>1, Ends DEF Committed
<1>4. ASSUME NEW pc \in {"waiting", "slow"}, NEW m, UNCHANGED <<rows, lock, call, answer>>,
             \/ tx' = [tx EXCEPT ![c].pc = pc]
             \/ tx' = [tx EXCEPT ![c].pc = pc, ![c].missed = m]
      PROVE  Refines'
    <2>1. /\ tx'[c].pc = pc /\ tx'[c].at = tx[c].at /\ tx'[c].wrote = tx[c].wrote
          /\ \A x \in Clients \ {c} : tx'[x] = tx[x]
        <3>1. IInv
            BY DEF Refines
        <3> QED BY <1>4, <3>1, OnlyPc
    <2>2. Phase(c)'
        BY <1>1, <1>4, <2>1 DEF Phase
    <2> QED BY <1>4, <2>1, <2>2, Continues
<1>5. CASE FastWait(c)
    BY <1>4, <1>5 DEF FastWait
<1>6. CASE FastRun(c)
    BY <1>2, <1>3, <1>4, <1>6 DEF FastRun
<1>7. CASE SlowRun(c)
    BY <1>2, <1>3, <1>7 DEF SlowRun
<1> QED BY <1>5, <1>6, <1>7

LEMMA DeadlockPhase == ASSUME Refines, IInv', NEW c \in Clients, DeadlockVictim(c) PROVE Refines'
<1>1. Running(c) /\ tx[c].pc # "idle" /\ Phase(c)
    BY DEF DeadlockVictim, Running, Refines
<1>2. CASE Rollback(c, "failed")
    BY <1>1, <1>2, EndsWithoutEffect
<1>3. ASSUME NEW n,
             tx' = [tx EXCEPT ![c] = [Idle EXCEPT !.pc = First(call[c].kind), !.attempt = n]],
             lock' = Released(c), UNCHANGED <<rows, call, answer>>
      PROVE  Refines'
    <2>1. tx'[c].pc = First(call[c].kind) /\ tx'[c].at = 1 /\ DOMAIN tx'[c].wrote = {}
        BY <1>3 DEF Refines, IInv, Idle
    <2>2. Len(Writes(c)) \in Nat /\ (call[c].kind # "commit" => DOMAIN call[c].seen = {})
        BY <1>1, Asked
    <2>3. call[c].kind \in {"commit", "batch", "single"}
        BY <1>1, WritesOK DEF Refines, IInv
    <2>4. /\ First(call[c].kind) = "read" => call[c].kind = "commit"
          /\ First(call[c].kind) = "write" => call[c].kind = "batch"
          /\ First(call[c].kind) \in {"read", "write", "fast"}
        BY <2>3 DEF First
    <2>5. ASSUME First(call[c].kind) = "write" PROVE Writing(c)'
        <3>1. DOMAIN call'[c].seen = {} /\ Len(Writes(c)') \in Nat
            BY <1>3, <2>2, <2>4, <2>5 DEF Writes
        <3> QED BY <2>1, <3>1, Starts
    <2>6. Phase(c)'
        BY <1>1, <1>3, <2>1, <2>4, <2>5 DEF Phase, Running
    <2>7. ASSUME NEW x \in Clients \ {c}
          PROVE  /\ tx'[x] = tx[x] /\ call'[x] = call[x] /\ answer'[x] = answer[x]
                 /\ \A d \in Docs : lock[d] = x => lock'[d] = x /\ rows'[d] = rows[d]
        BY <1>3 DEF Released, Refines, IInv
    <2>8. lock' = [d \in Docs |-> lock'[d]] /\ answer' = [x \in Clients |-> answer'[x]]
        BY <1>3 DEF Released, Refines
    <2> QED BY <2>6, <2>7, <2>8, StepOfOne
<1> QED BY <1>2, <1>3 DEF DeadlockVictim

LEMMA InitPhase == Init => Refines
<1> SUFFICES ASSUME Init PROVE Refines
    OBVIOUS
<1>1. \A c \in Clients : Phase(c)
    BY DEF Init, Phase, Idle
<1> QED BY <1>1, InitOK DEF Init, Refines

LEMMA StepPhase == ASSUME NoneIsNoFunction, Refines, [Next]_vars PROVE Refines'
<1>0. IInv'
    BY StepOK DEF Refines
<1>1. ASSUME NEW c \in Clients, ReadDoc(c) \/ LockDoc(c) PROVE Refines'
    BY <1>0, <1>1, LockPhase DEF ReadDoc, LockDoc
<1>2. ASSUME NEW c \in Clients, Fail(c) PROVE Refines'
    BY <1>0, <1>2, EndsWithoutEffect DEF Fail
<1>3. ASSUME UNCHANGED vars PROVE Refines'
    <2>1. \A c \in Clients : Phase(c)'
        BY <1>3, Undisturbed DEF vars
    <2> QED BY <1>0, <1>3, <2>1 DEF Refines, vars
<1> QED BY <1>0, <1>1, <1>2, <1>3, AskPhase, AnsweredPhase, CheckPhase, ApplyPhase, CommitPhase,
           SinglePhase, DeadlockPhase DEF Next, Proceed

-----------------------------------------------------------------------------
(* Every step is a step of the serial store, or none of it *)

Simulates == [Serial!SerialNext]_(Serial!serialVars)

LEMMA Stutters == ASSUME UNCHANGED <<rows, call, answer>> PROVE Simulates
BY DEF Simulates, Serial!serialVars, Documents

\* A call that ends without effect was refused for a reason, or failed.
LEMMA EndsEmpty ==
    ASSUME Refines, NEW c \in Clients, Running(c), NEW a, Rollback(c, a),
           \/ a = "failed"
           \/ a = "refused" /\ (~Serial!Expected(Documents, c) \/ Serial!Effect(Documents, Writes(c)) = None)
    PROVE  Simulates
<1>1. call[c] # None /\ answer[c] = "none"
    BY DEF Refines, Phase, Running
<1>2. Documents' = Documents /\ call' = call /\ answer' = [answer EXCEPT ![c] = a]
    BY DEF Rollback, Finish, Documents
<1>3. Serial!RefuseCall(c) \/ Serial!FailCall(c)
    BY <1>1, <1>2 DEF Serial!RefuseCall, Serial!FailCall, Writes
<1> QED BY <1>3 DEF Simulates, Serial!SerialNext

\* A call that commits has its whole effect.
LEMMA EndsWhole ==
    ASSUME NoneIsNoFunction, Refines, NEW c \in Clients, Running(c), NEW newRows, Committed(c, newRows),
           Serial!Expected(Documents, c), Serial!Effect(Documents, Writes(c)) = Documents'
    PROVE  Simulates
<1>1. call[c] # None /\ answer[c] = "none"
    BY DEF Refines, Phase, Running
<1>2. call' = call /\ answer' = [answer EXCEPT ![c] = "ok"]
    BY DEF Committed, Finish
<1>3. Documents' # None
    <2>1. Documents' = [d \in Docs |-> Documents'[d]]
        BY DEF Documents
    <2> QED BY <2>1, FunctionsAreSome
<1>4. Serial!Perform(c)
    BY <1>1, <1>2, <1>3 DEF Serial!Perform, Writes
<1> QED BY <1>4 DEF Simulates, Serial!SerialNext

LEMMA AskSimulates == ASSUME NoneIsNoFunction, Refines, NEW c \in Clients, Ask(c) PROVE Simulates
<1>1. PICK k \in Calls :
          call' = [call EXCEPT ![c] = [kind |-> k.kind, writes |-> k.writes,
                                       seen |-> [d \in k.expects |-> RowVersion(rows[d])]]]
    BY DEF Ask
<1>2. \A d \in k.expects : Serial!Version(Documents[d]) = RowVersion(rows[d])
    BY CallAssumption, DocumentsAreImages, Images
<1>3. Documents' = Documents /\ answer' = answer /\ call[c] = None
    BY DEF Ask, Documents
<1>4. [d \in k.expects |-> RowVersion(rows[d])] = [d \in k.expects |-> Serial!Version(Documents[d])]
    BY <1>2
<1>5. Serial!Ask(c)
    BY <1>1, <1>3, <1>4 DEF Serial!Ask
<1> QED BY <1>5 DEF Simulates, Serial!SerialNext

LEMMA AnsweredSimulates == ASSUME Refines, NEW c \in Clients, Answered(c) PROVE Simulates
<1>1. answer[c] # "none" /\ Documents' = Documents
    BY DEF Answered, Refines, Phase, Documents
<1>2. Serial!Answered(c)
    BY <1>1 DEF Answered, Serial!Answered
<1> QED BY <1>2 DEF Simulates, Serial!SerialNext

LEMMA CheckSimulates == ASSUME Refines, NEW c \in Clients, Check(c) PROVE Simulates
<1>1. Running(c)
    BY DEF Check, Running
<1>2. CASE Rollback(c, "refused")
           /\ ~(Serial!Expected(Documents, c) /\ Serial!Effect(Documents, Writes(c)) # None)
    BY <1>1, <1>2, EndsEmpty
<1>3. CASE UNCHANGED <<rows, lock, call, answer>>
    BY <1>3, Stutters
<1> QED BY <1>2, <1>3 DEF Check

\* A statement that fails: the call has no effect on these documents.
LEMMA ApplySimulates == ASSUME NoneIsNoFunction, Refines, NEW c \in Clients, Apply(c) PROVE Simulates
<1>1. More(c) /\ Unlocked(c) = {} /\ Running(c)
    BY DEF Apply, More, Running
<1>2. CASE UNCHANGED <<rows, lock, call, answer>>
    BY <1>2, Stutters
<1>3. CASE (\E w \in Group(c) : ~Applies(Document(Seen(c, w.doc)), w)) /\ Rollback(c, "refused")
    <2>1. PICK last \in tx[c].at..Len(Writes(c)) :
              /\ Statement(c) = tx[c].at..last
              /\ \A j \in tx[c].at..last, h \in tx[c].at..last :
                     h # j => Writes(c)[h].doc # Writes(c)[j].doc
        BY <1>1, StatementIsInterval
    <2>2. tx[c].at \in Nat \ {0} /\ Len(Writes(c)) \in Nat
        BY <1>1, Asked DEF Refines, IInv, TxOK, More
    <2>3. ~AllApply(c, last)
        BY <1>3, <2>1 DEF AllApply, Group
    <2>4. last \in (tx[c].at - 1)..last /\ last \in 0..Len(Writes(c))
        BY <2>1, <2>2
    <2>5. Serial!After(Documents, Writes(c))[last] = None
        BY <1>1, <2>1, <2>3, <2>4, LikeItself, GroupSteps
    <2>6. Serial!Effect(Documents, Writes(c)) = None
        BY <2>2, <2>4, <2>5, Spoilt
    <2> QED BY <1>1, <1>3, <2>6, EndsEmpty
<1> QED BY <1>2, <1>3 DEF Apply, Group

LEMMA CommitSimulates == ASSUME NoneIsNoFunction, Refines, NEW c \in Clients, Commit(c) PROVE Simulates
<1>1. Running(c) /\ Writing(c) /\ tx[c].at > Len(Writes(c)) /\ Committed(c, [d \in Docs |-> Seen(c, d)])
    BY DEF Commit, Running, Refines, Phase
<1>2. Len(Writes(c)) \in Nat
    BY <1>1, Asked DEF Running
<1>3. tx[c].at - 1 = Len(Writes(c))
    BY <1>1, <1>2 DEF Writing
<1>4. Serial!Effect(Documents, Writes(c)) = Leaves(c, Documents)
    BY <1>1, <1>3, LikeItself DEF Writing, Serial!Effect
<1>5. Documents' = Leaves(c, Documents)
    <2>1. \A d \in Docs : rows'[d] = Seen(c, d)
        BY <1>1 DEF Committed
    <2>2. Documents' = [d \in Docs |-> Image(rows'[d])]
        BY DEF Documents, Image
    <2>3. \A d \in Docs : Image(rows'[d]) = Leaves(c, Documents)[d]
        BY <2>1, DocumentsAreImages DEF Leaves, Seen
    <2> QED BY <2>2, <2>3 DEF Leaves
<1> QED BY <1>1, <1>4, <1>5, EndsWhole DEF Writing

\* A write outside a transaction is a call of its own.
LEMMA SingleEffect ==
    ASSUME NoneIsNoFunction, Refines, NEW c \in Clients, tx[c].pc \in {"fast", "waiting", "slow"}
    PROVE  LET w == Single(c)  row == rows[w.doc] IN
           /\ WriteOK(w) /\ w.type # "delete" /\ w.doc \in Docs /\ (row # None => IsRow(row))
           /\ Running(c) /\ Serial!Expected(Documents, c)
           /\ Serial!Effect(Documents, Writes(c)) =
                  IF Applies(Document(row), w) THEN [Documents EXCEPT ![w.doc] = ImageAfter(row, w)] ELSE None
<1> DEFINE w == Single(c)  row == rows[w.doc]
<1>1. WriteOK(w) /\ w.type # "delete" /\ call[c].kind = "single" /\ w.doc \in Docs
    BY SingleOK DEF Refines, WriteOK
<1>2. row # None => IsRow(row)
    BY <1>1 DEF Refines, IInv, RowsOK
<1>3. Running(c) /\ DOMAIN call[c].seen = {}
    BY <1>1, Asked DEF Running
<1>4. Len(Writes(c)) = 1
    BY <1>1, WritesOK DEF Refines, IInv
<1>5. Documents = [d \in Docs |-> Documents[d]] /\ Documents[w.doc] = Image(row)
    BY <1>1, DocumentsAreImages
<1>6. Serial!Effect(Documents, Writes(c)) = Serial!Wrote(Documents, w)
    <2>1. /\ Serial!After(Documents, Writes(c))[0] = Documents
          /\ \A i \in 1..Len(Writes(c)) :
                 Serial!After(Documents, Writes(c))[i] =
                     Serial!Wrote(Serial!After(Documents, Writes(c))[i - 1], Writes(c)[i])
        <3>1. Len(Writes(c)) \in Nat
            BY <1>4
        <3> QED BY <3>1, AfterStep
    <2>2. Serial!After(Documents, Writes(c))[1] = Serial!Wrote(Documents, Writes(c)[1])
        BY <1>4, <2>1
    <2> QED BY <1>4, <2>2 DEF Serial!Effect, Single
<1> HIDE DEF w, row
<1>7. Serial!Effect(Documents, Writes(c)) =
          IF Applies(Document(row), w) THEN [Documents EXCEPT ![w.doc] = ImageAfter(row, w)] ELSE None
    BY <1>1, <1>5, <1>6, WroteStep
<1>8. Serial!Expected(Documents, c)
    BY <1>3 DEF Serial!Expected
<1> QED BY <1>1, <1>2, <1>3, <1>7, <1>8 DEF w, row

LEMMA SingleSimulates ==
    ASSUME NoneIsNoFunction, Refines, NEW c \in Clients, FastWait(c) \/ FastRun(c) \/ SlowRun(c)
    PROVE  Simulates
<1> DEFINE w == Single(c)  row == rows[w.doc]
<1>1. CASE UNCHANGED <<rows, lock, call, answer>>
    BY <1>1, Stutters
<1>2. /\ WriteOK(w) /\ w.type # "delete" /\ w.doc \in Docs /\ (row # None => IsRow(row))
      /\ Running(c) /\ Serial!Expected(Documents, c)
      /\ Serial!Effect(Documents, Writes(c)) =
             IF Applies(Document(row), w) THEN [Documents EXCEPT ![w.doc] = ImageAfter(row, w)] ELSE None
    BY SingleEffect DEF FastWait, FastRun, SlowRun
<1>3. ASSUME ~Applies(Document(row), w), Rollback(c, "refused") PROVE Simulates
    BY <1>2, <1>3, EndsEmpty
<1>4. ASSUME NEW new, Image(new) = ImageAfter(row, w), Applies(Document(row), w),
             Committed(c, [rows EXCEPT ![w.doc] = new])
      PROVE  Simulates
    <2> HIDE DEF w, row
    <2>1. \A d \in Docs : rows'[d] = IF d = w.doc THEN new ELSE rows[d]
        BY <1>4 DEF Committed, Refines, IInv, RowsOK
    <2>2. Documents' = [d \in Docs |-> Image(rows'[d])]
        BY DEF Documents, Image
    <2>3. Documents' = [Documents EXCEPT ![w.doc] = ImageAfter(row, w)]
        BY <1>4, <2>1, <2>2, DocumentsAreImages
    <2> QED BY <1>2, <1>4, <2>3, EndsWhole
<1>5. row = None <=> Document(row) = None
    BY Images
<1>6. CASE FastRun(c) /\ w.type = "create" /\ row # None /\ Rollback(c, "refused")
    BY <1>3, <1>5, <1>6 DEF Applies
<1>7. CASE /\ HasStatement(row, w) /\ ~(w.type = "create" /\ row # None)
           /\ Committed(c, [rows EXCEPT ![w.doc] = FastRow(row, w)])
    <2>1. Applies(Document(row), w)
        BY <1>5, <1>7 DEF Applies, HasStatement
    <2>2. Image(FastRow(row, w)) = ImageAfter(row, w)
        BY <1>2, <1>7, <2>1, WriteImage DEF WrittenRow
    <2> QED BY <1>4, <1>7, <2>1, <2>2
<1>8. CASE SlowRun(c)
    <2>1. Applies(Document(row), w) => Image(SlowRow(row, w)) = ImageAfter(row, w)
        BY <1>2, WriteImage
    <2> QED BY <1>3, <1>4, <1>8, <2>1 DEF SlowRun
<1>9. CASE FastWait(c)
    BY <1>1, <1>9 DEF FastWait
<1> QED BY <1>1, <1>6, <1>7, <1>8, <1>9 DEF FastRun

LEMMA DeadlockSimulates == ASSUME Refines, NEW c \in Clients, DeadlockVictim(c) PROVE Simulates
<1>1. CASE Rollback(c, "failed")
    BY <1>1, EndsEmpty DEF DeadlockVictim
<1>2. CASE UNCHANGED <<rows, call, answer>>
    BY <1>2, Stutters
<1> QED BY <1>1, <1>2 DEF DeadlockVictim

LEMMA StepSimulates == ASSUME NoneIsNoFunction, Refines, [Next]_vars PROVE Simulates
<1>1. ASSUME NEW c \in Clients, ReadDoc(c) \/ LockDoc(c) PROVE Simulates
    BY <1>1, Stutters DEF ReadDoc, LockDoc
<1>2. ASSUME NEW c \in Clients, Fail(c) PROVE Simulates
    BY <1>2, EndsEmpty DEF Fail
<1>3. ASSUME UNCHANGED vars PROVE Simulates
    BY <1>3, Stutters DEF vars
<1> QED BY <1>1, <1>2, <1>3, AskSimulates, AnsweredSimulates, CheckSimulates, ApplySimulates,
           CommitSimulates, SingleSimulates, DeadlockSimulates DEF Next, Proceed

\* However calls interleave, lock, wait, deadlock, retry and fail, and whatever path each
\* write takes, the store is a serial store: a call takes effect at one moment between
\* request and answer, wholly or not at all, on the documents as they are then (store/*.js,
\* dataApi.js), for any documents, callers, calls and columns.
THEOREM StoreIsSerial == ASSUME NoneIsNoFunction PROVE Spec => ImplementsSerialStore
<1>1. Init => Serial!SerialInit
    BY DEF Init, Serial!SerialInit, Documents
<1>2. Refines /\ [Next]_vars => [Serial!SerialNext]_(Serial!serialVars)
    BY StepSimulates DEF Simulates
<1>3. Refines /\ [Next]_vars => Refines'
    BY StepPhase
<1> QED BY <1>1, <1>2, <1>3, InitPhase, PTL DEF Spec, ImplementsSerialStore, Serial!SerialSpec

\* Filters and orderBy, in SQL, find the documents they describe, with the
\* exceptions named at QueriesFind (query.js), for any columns, calls and
\* operands, whole numbers or not: but for ranges, what writes.js leaves in extra
\* is exactly what query.js looks for there.
THEOREM QueriesRight == Spec => QueriesFind
<1>1. ASSUME IInv' PROVE
          \A d \in Docs : rows'[d] \notin {None, rows[d]} =>
              LET row == rows'[d]  doc == Decode(row) IN
              \A k \in DOMAIN doc \cup Typed :
                  /\ \A op \in {"==", "!=", "array-contains"}, v \in Operands :
                         Found(row, k, op, v) <=> JsonMatches(Field(doc, k), op, v)
                  /\ \A op \in {"in", "not-in"}, v \in Lists :
                         Found(row, k, op, v) <=> JsonMatches(Field(doc, k), op, v)
                  /\ \A op \in Ranges, v \in Operands :
                         Found(row, k, op, v)
                         <=> /\ JsonMatches(Field(doc, k), op, v)
                             /\ k \in Typed => (Loose(v) <=> ~Diverted(row, k))
                  /\ Listed(row, k) <=> k \in DOMAIN doc /\ ~Diverted(row, k)
    BY <1>1, FilterFinds DEF IInv, RowsOK
<1> QED BY <1>1, InitOK, StepOK, PTL DEF Spec, QueriesFind
=============================================================================
