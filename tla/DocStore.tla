------------------------------ MODULE DocStore ------------------------------
(***************************************************************************)
(* The Postgres document store (db/store): documents as rows of typed      *)
(* columns and a jsonb column for the rest, advisory locks per document,   *)
(* transactions that buffer their writes, writes by one statement where    *)
(* the patch allows it and by read-modify-write where not, deadlocks and   *)
(* retries; and dbCommit (db/dataApi.js), which locks, checks and writes.  *)
(*                                                                         *)
(* It implements SerialStore.  A step is one lock acquired, or what a      *)
(* statement does while its transaction holds all the locks it needs.      *)
(***************************************************************************)
EXTENDS Integers, Sequences, FiniteSets, Relation, FieldOps

CONSTANTS
    Docs,           \* document paths
    CollectionOf,   \* the collection of each document
    Rank,           \* their order as strings
    Clients,        \* callers (requests of the server)
    Calls,          \* the calls they make: [kind, expects, writes]
    Typed,          \* the fields with an integer column
    Column,         \* the numbers those columns allow
    MaxAttempts,    \* runTransaction's maxAttempts
    MaxVersion      \* bound: no call starts to write a document at this version

ASSUME CallAssumption ==
    /\ MaxAttempts \in Nat \ {0}
    /\ None \notin Clients
    /\ \A k \in Calls :
           /\ k.expects \subseteq Docs
           /\ k.kind \in {"commit", "batch", "single"}
           /\ k.kind = "single" => Len(k.writes) = 1
           /\ k.kind # "commit" => k.expects = {}
           \* Only dbCommit deletes documents.
           /\ k.kind # "commit" => \A i \in 1..Len(k.writes) : k.writes[i].type # "delete"

ASSUME WriteAssumption ==
    \A k \in Calls : k.writes \in Seq(Range(k.writes)) /\ \A i \in 1..Len(k.writes) :
        LET w == k.writes[i] IN
        /\ w.type \in {"create", "set", "merge", "update", "delete"}
        /\ w.doc \in Docs
        /\ \A f \in DOMAIN w.data :
               /\ w.data[f].op \in {"value", "delete", "increment", "union", "dotted"}
               /\ w.data[f].op = "value" => w.data[f].arg # None

VARIABLES
    rows,       \* the committed row of each document, or None
    lock,       \* who holds each document's advisory lock, or None
    tx,         \* what each caller's statement or transaction has done
    call,       \* each caller's call, or None
    answer      \* what it is told

vars == <<rows, lock, tx, call, answer>>

-----------------------------------------------------------------------------
(* Rows and documents (codec.js) *)

\* coerce: the column can hold the value and give it back.
Fits(k, v) == k \in Typed /\ IsNum(v) /\ v[2] \in Column

Encode(doc, version) ==
    [col |-> [k \in Typed |-> IF Fits(k, Field(doc, k)) THEN doc[k] ELSE None],
     extra |-> Restrict(doc, {k \in DOMAIN doc : ~Fits(k, doc[k])}),
     version |-> version]

Decode(row) ==
    Present([k \in Typed \cup DOMAIN row.extra |->
                IF k \in Typed /\ row.col[k] # None THEN row.col[k] ELSE Field(row.extra, k)])

NoRow == Encode(NoFields, 0)
RowVersion(row) == IF row = None THEN 0 ELSE row.version
Document(row) == IF row = None THEN None ELSE Decode(row)

Documents == [d \in Docs |-> IF rows[d] = None THEN None
                             ELSE [data |-> Decode(rows[d]), version |-> rows[d].version]]

Serial == INSTANCE SerialStore WITH docs <- Documents

-----------------------------------------------------------------------------
(* One write to one row (writes.js) *)

\* planPatch: top-level values, and increments of a column by an update, can be
\* done in one statement.
Plannable(w) ==
    \A k \in DOMAIN w.data :
        /\ w.data[k].op \in {"value", "delete", "increment"}
        /\ w.data[k].op = "increment" => w.type = "update" /\ k \in Typed
        /\ w.type = "merge" => w.data[k].op # "value" \/ w.data[k].arg[1] # "map"

\* incExpr: the column, else a number kept in extra, else zero.
IncBaseBug(row, k) == IF row.col[k] # None THEN row.col[k][2] ELSE 0
IncBase(row, k) ==
    CASE row.col[k] # None -> row.col[k][2]
      [] row.col[k] = None /\ IsNum(Field(row.extra, k)) -> row.extra[k][2]
      [] OTHER -> 0
Incremented(row, patch, k) == Num(IncBase(row, k) + patch[k].arg)
Guarded(row, patch) ==
    \A k \in DOMAIN patch : patch[k].op = "increment" => Fits(k, Incremented(row, patch, k))

\* The keys a patch takes out of extra, and those it puts there.
ExtraRemBug(patch) == {k \in DOMAIN patch : patch[k].op = "delete"}
ExtraRem(patch) ==
    {k \in DOMAIN patch : patch[k].op # "value" \/ Fits(k, patch[k].arg)}
ExtraAdd(patch) ==
    {k \in DOMAIN patch : patch[k].op = "value" /\ ~Fits(k, patch[k].arg)}

\* buildUpdate, buildMergeUpsert
PatchRow(row, patch) ==
    [col |-> [k \in Typed |->
                 CASE k \notin DOMAIN patch -> row.col[k]
                   [] k \in DOMAIN patch /\ patch[k].op = "increment" -> Incremented(row, patch, k)
                   [] k \in DOMAIN patch /\ patch[k].op # "increment" ->
                          IF k \in ExtraAdd(patch) \/ patch[k].op = "delete" THEN None ELSE patch[k].arg],
     extra |-> [k \in (DOMAIN row.extra \ ExtraRem(patch)) \cup ExtraAdd(patch) |->
                   IF k \in ExtraAdd(patch) THEN patch[k].arg ELSE row.extra[k]],
     version |-> row.version + 1]

\* applyFast finds a statement for the write, and the statement finds its row.
HasStatement(row, w) ==
    \/ w.type \in {"create", "set", "delete"}
    \/ w.type = "merge" /\ Plannable(w)
    \/ w.type = "update" /\ Plannable(w) /\ row # None /\ Guarded(row, w.data)

FastRow(row, w) ==
    CASE w.type = "delete" -> None
      [] w.type \in {"create", "set"} -> Encode(MergeInto(NoFields, w.data), RowVersion(row) + 1)
      [] w.type \in {"merge", "update"} -> PatchRow(IF row = None THEN NoRow ELSE row, w.data)

\* applySlow: the new document is computed from the one read under the lock.
SlowRow(row, w) == Encode(Outcome(Document(row), w), RowVersion(row) + 1)

WrittenRow(row, w) == IF HasStatement(row, w) THEN FastRow(row, w) ELSE SlowRow(row, w)

-----------------------------------------------------------------------------
(* Statements, locks and answers *)

Idle == [pc |-> "idle", at |-> 1, wrote |-> [d \in {} |-> None], missed |-> FALSE, attempt |-> 1]

Init ==
    /\ rows = [d \in Docs |-> None]
    /\ lock = [d \in Docs |-> None]
    /\ tx = [c \in Clients |-> Idle]
    /\ call = [c \in Clients |-> None]
    /\ answer = [c \in Clients |-> "none"]

Writes(c) == call[c].writes
Holds(c, d) == lock[d] = c
Seen(c, d) == IF d \in DOMAIN tx[c].wrote THEN tx[c].wrote[d] ELSE rows[d]

\* Locks go with the transaction, at COMMIT and at ROLLBACK.
ReleasedBug(c) == lock
Released(c) == [d \in Docs |-> IF lock[d] = c THEN None ELSE lock[d]]

Finish(c, a) ==
    /\ tx' = [tx EXCEPT ![c] = [Idle EXCEPT !.pc = "done"]]
    /\ answer' = [answer EXCEPT ![c] = a]
    /\ lock' = Released(c)
    /\ UNCHANGED call

\* An error: ROLLBACK.
Rollback(c, a) == Finish(c, a) /\ UNCHANGED rows

\* The rows change. (When the connection drops before the caller hears of it,
\* nothing else happens here; see ChangeFeed for what the feed then misses.)
Committed(c, newRows) == rows' = newRows /\ Finish(c, "ok")

First(kind) == CASE kind = "commit" -> "read" [] kind = "batch" -> "write" [] kind = "single" -> "fast"

\* A browser has read (dbGet) the documents its preconditions name.
Ask(c) ==
    /\ call[c] = None
    /\ \E k \in Calls :
           /\ \A i \in 1..Len(k.writes) :
                  k.writes[i].type = "delete" \/ RowVersion(rows[k.writes[i].doc]) < MaxVersion
           /\ call' = [call EXCEPT ![c] =
                  [kind |-> k.kind, writes |-> k.writes,
                   seen |-> [d \in k.expects |-> RowVersion(rows[d])]]]
           /\ tx' = [tx EXCEPT ![c].pc = First(k.kind)]
    /\ UNCHANGED <<rows, lock, answer>>

\* The writes are reported to the change feed, and the caller is answered.
Answered(c) ==
    /\ tx[c].pc = "done"
    /\ tx' = [tx EXCEPT ![c] = Idle]
    /\ call' = [call EXCEPT ![c] = None]
    /\ answer' = [answer EXCEPT ![c] = "none"]
    /\ UNCHANGED <<rows, lock>>

-----------------------------------------------------------------------------
(* runTransaction: dbCommit and batches *)

\* The next documents dbCommit reads: those of its preconditions, then those of
\* its writes.
Unread(c) ==
    LET pre == {d \in DOMAIN call[c].seen : ~Holds(c, d)}
        later == {i \in 1..Len(Writes(c)) : ~Holds(c, Writes(c)[i].doc)}
    IN CASE pre # {} -> pre
         [] pre = {} /\ later # {} -> {Writes(c)[CHOOSE i \in later : \A j \in later : i <= j].doc}
         [] OTHER -> {}

\* tx.get: the advisory lock, then the row.
ReadDoc(c) ==
    /\ tx[c].pc = "read"
    /\ \E d \in Unread(c) : lock[d] = None /\ lock' = [lock EXCEPT ![d] = c]
    /\ UNCHANGED <<rows, tx, call, answer>>

\* The preconditions, then what every document would look like afterwards.
Check(c) ==
    /\ tx[c].pc = "read"
    /\ Unread(c) = {}
    /\ IF Serial!Expected(Documents, c) /\ Serial!Effect(Documents, Writes(c)) # None
       THEN tx' = [tx EXCEPT ![c].pc = "write"] /\ UNCHANGED <<rows, lock, call, answer>>
       ELSE Rollback(c, "refused")

\* Consecutive creates, or sets, of different documents of one collection are
\* one INSERT.
Statement(c) ==
    LET ws == Writes(c)  at == tx[c].at IN
    {j \in at..Len(ws) :
        \A i \in (at + 1)..j :
            /\ ws[at].type \in {"create", "set"} /\ ws[i].type = ws[at].type
            /\ CollectionOf[ws[i].doc] = CollectionOf[ws[at].doc]
            /\ \A h \in at..(i - 1) : ws[h].doc # ws[i].doc}

More(c) == tx[c].pc = "write" /\ tx[c].at <= Len(Writes(c))
Unlocked(c) == {d \in {Writes(c)[i].doc : i \in Statement(c)} : ~Holds(c, d)}

\* The statement's locks are taken in the order of the paths.
Lowest(ds) == {d \in ds : \A e \in ds : Rank[d] <= Rank[e]}

LockDoc(c) ==
    /\ More(c)
    /\ \E d \in Lowest(Unlocked(c)) : lock[d] = None /\ lock' = [lock EXCEPT ![d] = c]
    /\ UNCHANGED <<rows, tx, call, answer>>

\* One statement of applyWrites, with its locks.
Apply(c) ==
    LET group == {Writes(c)[i] : i \in Statement(c)} IN
    /\ More(c)
    /\ Unlocked(c) = {}
    /\ IF \E w \in group : ~Applies(Document(Seen(c, w.doc)), w)
       THEN Rollback(c, "refused")
       ELSE /\ tx' = [tx EXCEPT
                    ![c].at = @ + Cardinality(Statement(c)),
                    ![c].wrote = [d \in DOMAIN @ \cup {w.doc : w \in group} |->
                        IF \E w \in group : w.doc = d
                        THEN LET w == CHOOSE w \in group : w.doc = d IN WrittenRow(Seen(c, d), w)
                        ELSE @[d]]]
            /\ UNCHANGED <<rows, lock, call, answer>>

Commit(c) ==
    /\ tx[c].pc = "write"
    /\ tx[c].at > Len(Writes(c))
    /\ Committed(c, [d \in Docs |-> Seen(c, d)])

-----------------------------------------------------------------------------
(* _single: one write outside a transaction *)

Single(c) == Writes(c)[1]

\* The statement starts, and sees what is committed; its lock is taken.
FastWait(c) ==
    /\ tx[c].pc = "fast"
    /\ lock[Single(c).doc] # None
    /\ tx' = [tx EXCEPT ![c].pc = "waiting", ![c].missed = rows[Single(c).doc] = None]
    /\ UNCHANGED <<rows, lock, call, answer>>

\* An UPDATE does not find a row inserted while it waited.
Finds(c) == Single(c).type = "update" => ~tx[c].missed

FastRun(c) ==
    LET w == Single(c) row == rows[w.doc] IN
    /\ tx[c].pc \in {"fast", "waiting"}
    /\ lock[w.doc] = None
    /\ CASE w.type = "create" /\ row # None -> Rollback(c, "refused")
         [] ~HasStatement(row, w) \/ ~Finds(c) ->
                tx' = [tx EXCEPT ![c].pc = "slow"] /\ UNCHANGED <<rows, lock, call, answer>>
         [] OTHER -> Committed(c, [rows EXCEPT ![w.doc] = FastRow(row, w)])

\* applySlow in a transaction of its own, on the row as it is by then.
SlowRun(c) ==
    LET w == Single(c) row == rows[w.doc] IN
    /\ tx[c].pc = "slow"
    /\ lock[w.doc] = None
    /\ IF Applies(Document(row), w)
       THEN Committed(c, [rows EXCEPT ![w.doc] = SlowRow(row, w)])
       ELSE Rollback(c, "refused")

-----------------------------------------------------------------------------
(* Failures *)

Running(c) == tx[c].pc \notin {"idle", "done"}

\* The connection drops, or the statement times out.
Fail(c) == Running(c) /\ Rollback(c, "failed")

\* The documents whose locks the transaction asks for.
Wants(c) ==
    CASE tx[c].pc = "read" -> Unread(c)
      [] More(c) -> Lowest(Unlocked(c))
      [] OTHER -> {}

Deadlocked(c) ==
    TransitiveClosure([x, y \in Clients |-> \E d \in Wants(x) : x # y /\ lock[d] = y], Clients)[c, c]

MayRetry(attempt) == attempt < MaxAttempts

\* 40P01: rolled back and run again from its reads, or given up.
DeadlockVictim(c) ==
    /\ Running(c) /\ Deadlocked(c)
    /\ IF MayRetry(tx[c].attempt)
       THEN /\ tx' = [tx EXCEPT ![c] = [Idle EXCEPT !.pc = First(call[c].kind),
                                                    !.attempt = tx[c].attempt + 1]]
            /\ lock' = Released(c)
            /\ UNCHANGED <<rows, call, answer>>
       ELSE Rollback(c, "failed")

Proceed(c) ==
    \/ ReadDoc(c) \/ Check(c) \/ LockDoc(c) \/ Apply(c) \/ Commit(c)
    \/ FastWait(c) \/ FastRun(c) \/ SlowRun(c) \/ Answered(c)

Next == \E c \in Clients : Ask(c) \/ Proceed(c) \/ Fail(c) \/ DeadlockVictim(c)

Spec == Init /\ [][Next]_vars

\* Locks are granted in the order they were asked for, and the database looks
\* for deadlocks.
Fairness == \A c \in Clients : SF_vars(Proceed(c)) /\ WF_vars(DeadlockVictim(c))

FairSpec == Spec /\ Fairness

-----------------------------------------------------------------------------
(* Properties *)

\* The rows, through the codec, are a serial store: whatever path a write takes
\* (one statement, a grouped INSERT, read-modify-write after a statement that
\* found nothing) and whatever runs beside it, every call takes effect at one
\* moment, wholly or not at all, on the documents as they are then.
ImplementsSerialStore == Serial!SerialSpec

\* Every call is answered: lock waits end, and deadlocks are broken.
EveryCallAnswered == \A c \in Clients : call[c] # None ~> call[c] = None
=============================================================================
