------------------------------- MODULE Query -------------------------------
(***************************************************************************)
(* What a query finds (db/store/query.js): the SQL condition of a filter   *)
(* on the row of a document, as DocStore keeps it, against what the filter *)
(* means on the document itself, as the old generic store had it.          *)
(***************************************************************************)
EXTENDS DocStore

CONSTANTS
    SqlInts,        \* the numbers of the columns' SQL type: whole, and not too large
    Operands,       \* values that filters compare with
    Lists           \* sets of values for "in" and "not-in"

ASSUME OperandAssumption == None \notin Operands /\ Column \subseteq SqlInts

Ranges == {"<", "<=", ">", ">="}

\* Of two values of one JSON type; only numbers differ in order here.
Compares(a, op, b) ==
    CASE op = "<"  -> IsNum(a) /\ a[2] < b[2]
      [] op = ">"  -> IsNum(a) /\ a[2] > b[2]
      [] op = "<=" -> a = b \/ (IsNum(a) /\ a[2] < b[2])
      [] op = ">=" -> a = b \/ (IsNum(a) /\ a[2] > b[2])

\* A condition on a JSON value, or on none.
JsonMatches(e, op, v) ==
    /\ e # None
    /\ CASE op = "==" -> e = v
         [] op = "!=" -> e \notin {Null, v}
         [] op \in Ranges -> e[1] = v[1] /\ Compares(e, op, v)
         [] op = "in" -> e \in v
         [] op = "not-in" -> e \notin v \cup {Null}
         [] op = "array-contains" -> e[1] = "list" /\ IsNum(v) /\ v[2] \in e[2]

\* coerce, loose: within the SQL type, but perhaps not what the column allows.
Loose(v) == IsNum(v) /\ v[2] \in SqlInts

\* The values that are compared with the column, and only with it.
StrictBug(k, v) == Loose(v)
Strict(k, v) == Fits(k, v)

\* A condition on a typed column, with what it diverts to extra.
ScalarMatches(row, k, op, v) ==
    LET column == row.col[k]
        extra == Field(row.extra, k)
        typed == {x \in v : Strict(k, x)}
    IN CASE op = "==" -> JsonMatches(IF Strict(k, v) THEN column ELSE extra, op, v)
         [] op = "!=" ->
                \/ column # None /\ (Loose(v) => column # v)
                \/ JsonMatches(extra, op, v)
         [] op \in Ranges -> JsonMatches(IF Loose(v) THEN column ELSE extra, op, v)
         [] op = "in" -> column \in typed \/ JsonMatches(extra, op, v \ typed)
         [] op = "not-in" ->
                \/ column # None /\ column \notin typed
                \/ JsonMatches(extra, op, v \ typed)
         [] op = "array-contains" -> JsonMatches(extra, op, v)

Found(row, k, op, v) ==
    IF k \in Typed THEN ScalarMatches(row, k, op, v) ELSE JsonMatches(Field(row.extra, k), op, v)

\* orderBy leaves out the rows without the field; for a typed field only the
\* column counts.
Listed(row, k) == IF k \in Typed THEN row.col[k] # None ELSE k \in DOMAIN row.extra

\* The value of a typed field that its column cannot hold.
Diverted(row, k) == k \in Typed /\ k \in DOMAIN row.extra

\* A query finds the documents its filter describes and no others, wherever the
\* writes have left a field: in its column, or in extra. The exceptions, which the
\* code makes: a range filter on a typed field looks in one place only. With a
\* number of the column's SQL type it looks in the column, and misses the values
\* that the column cannot hold; with any other number, a fraction or one too large,
\* it looks in extra, and misses every value of the column. And orderBy drops what
\* the column cannot hold.
QueriesFind ==
    [][\A d \in Docs : rows'[d] \notin {None, rows[d]} =>
           LET row == rows'[d]  doc == Decode(row) IN
           \A k \in DOMAIN doc \cup Typed :
               /\ \A op \in {"==", "!=", "array-contains"}, v \in Operands :
                      Found(row, k, op, v) <=> JsonMatches(Field(doc, k), op, v)
               /\ \A op \in {"in", "not-in"}, v \in Lists :
                      Found(row, k, op, v) <=> JsonMatches(Field(doc, k), op, v)
               /\ \A op \in Ranges, v \in Operands :
                      Found(row, k, op, v)
                      <=> /\ JsonMatches(Field(doc, k), op, v)
                          /\ k \in Typed => (Loose(v) <=> ~Diverted(row, k))
               /\ Listed(row, k) <=> k \in DOMAIN doc /\ ~Diverted(row, k)]_rows
=============================================================================
