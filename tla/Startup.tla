------------------------------ MODULE Startup ------------------------------
(***************************************************************************)
(* From the start of a server process to the first request it answers: the *)
(* schema migrations (migrator.js and migrations/), the one-time copy from *)
(* Firestore (migrate.js), and the way back to the older release           *)
(* (rollback.js).                                                          *)
(*                                                                         *)
(* A migration, the import of a page and the rollback are one database     *)
(* transaction each and happen at one moment or not at all; migrations and *)
(* rollback hold an advisory lock of their session.  Processes may crash   *)
(* at any time and start again.  The older release, Firestore and the      *)
(* operator are external.                                                  *)
(***************************************************************************)
EXTENDS Integers, Sequences

CONSTANTS
    Procs,
    Docs,
    Collections,
    CollectionOf,   \* the collection of each document
    Typed,          \* the collections of the registry; the others share docs_other
    Copied,         \* the order in which the copy takes the collections
    Unplaceable,    \* documents no table accepts (a secret without its event)
    None,
    Had,            \* the tables of the older release, one for a collection
    MaxWrites,      \* bound on the writes of documents
    MaxCrashes      \* bound on crashes and failures

\* The copy takes every collection of Firestore. Of the collection "system", which is
\* one of the registry, the one document that matters is the marker.
ASSUME CollectionsAssumption ==
    /\ CollectionOf \in [Docs -> Collections]
    /\ Typed \subseteq Collections /\ Had \subseteq Collections \cup {"system"}
    /\ "system" \notin Collections
    /\ Copied \in Seq(Collections)
    /\ \A c \in Collections : \E i \in DOMAIN Copied : Copied[i] = c
    /\ Unplaceable \subseteq Docs

ASSUME NoneAssumption == None \notin Procs \cup Int \cup [value : Nat, version : Nat]

VARIABLES
    table,          \* the table of each name: "none", "generic", "typed"
    legacy,         \* the names with a legacy_<name> table
    backup,         \* the rollback has left typed_backup_ tables
    main,           \* the documents in the tables the server or the older release uses
    kept,           \* the documents in the legacy tables
    rejects,        \* the documents in migration_rejects
    applied,        \* how many migrations schema_migrations lists
    marker,         \* system/migration has completedAt
    lock,           \* who holds the advisory lock of the migrations
    firestore,      \* the documents in Firestore
    locked,         \* its rules refuse browsers
    proc,           \* the processes
    last,           \* the last write of each document that Postgres has acknowledged
    writes, crashes

schema == <<table, legacy, backup, kept, applied>>
rows == <<main, rejects>>
outside == <<firestore, locked>>
bounds == <<writes, crashes>>
vars == <<schema, rows, marker, lock, outside, proc, last, bounds>>

Relations == Collections \cup {"system"}
TypedTables == Typed \cup {"system"}

Deleted == -1
NoDocs == [d \in Docs |-> None]
Row(value, version) == [value |-> value, version |-> version]
Down == [pc |-> "down", serving |-> FALSE, at |-> 0, page |-> NoDocs]

\* Firestore holds the value 0 of each document.  A table of the older release holds
\* it as it was copied or as it was changed since, or not yet: its copy may have
\* stopped half-way, unless the marker says that it has not.
Init ==
    /\ marker \in BOOLEAN /\ (marker => "system" \in Had)
    /\ table = [c \in Relations |-> IF c \in Had THEN "generic" ELSE "none"]
    /\ main \in {rs \in [Docs -> {None, Row(0, 0), Row(1, 2)}] :
           \A d \in Docs : /\ marker => rs[d] # None
                           /\ CollectionOf[d] \notin Had => rs[d] = None}
    /\ last = [d \in Docs |-> IF main[d] = Row(1, 2) THEN 1 ELSE None]
    /\ legacy = {} /\ backup = FALSE /\ kept = NoDocs /\ rejects = {}
    /\ applied = 0
    /\ lock = None
    /\ firestore = [d \in Docs |-> 0] /\ locked = FALSE
    /\ proc = [p \in Procs |-> Down]
    /\ writes = 1 /\ crashes = 0

-----------------------------------------------------------------------------
(* importDocs: what becomes of the documents in the tables *)

\* ON CONFLICT DO NOTHING, and DO UPDATE ... WHERE version = 0
Skip(row, new) == IF row = None THEN new ELSE row
Guard0Bug(row, new) == new
Guard0(row, new) == IF row = None \/ row.version = 0 THEN new ELSE row

Import(docs, Conflict(_, _)) ==
    /\ main' = [d \in Docs |->
           IF docs[d] = None \/ d \in Unplaceable THEN main[d] ELSE Conflict(main[d], docs[d])]
    /\ rejects' = rejects \cup {d \in Unplaceable : docs[d] # None}

-----------------------------------------------------------------------------
(* The schema migrations *)

Start(p) ==
    /\ proc[p].pc = "down"
    /\ proc' = [proc EXCEPT ![p].pc = "lock"]
    /\ UNCHANGED <<schema, rows, marker, lock, outside, last, bounds>>

FreeBug == TRUE
Free == lock = None

\* With the lock it reads which migrations are applied.
Lock(p) ==
    /\ proc[p].pc = "lock"
    /\ Free
    /\ lock' = p
    /\ proc' = [proc EXCEPT ![p].pc = "migrate", ![p].at = applied]
    /\ UNCHANGED <<schema, rows, marker, outside, last, bounds>>

Applies(p, n) ==
    /\ proc[p].pc = "migrate" /\ proc[p].at = n - 1
    /\ applied = n - 1
    /\ applied' = n
    /\ proc' = [proc EXCEPT ![p].at = n]
    /\ UNCHANGED <<marker, lock, outside, last, bounds>>

\* CREATE TABLE
Creatable == \A c \in TypedTables : table[c] # "typed"

\* 001: the generic tables are renamed, the typed ones created.
TypedSchema(p) ==
    /\ Applies(p, 1)
    /\ Creatable
    /\ legacy' = {c \in Relations : table[c] = "generic"}
    /\ table' = [c \in Relations |-> IF c \in TypedTables THEN "typed" ELSE "none"]
    /\ kept' = [d \in Docs |-> IF table[CollectionOf[d]] = "generic" THEN main[d] ELSE None]
    /\ main' = [d \in Docs |-> IF table[CollectionOf[d]] = "generic" THEN None ELSE main[d]]
    /\ rejects' = {}
    /\ UNCHANGED backup

\* 002: their documents are imported, with their versions.
ImportLegacy(p) ==
    /\ Applies(p, 2)
    /\ Import(kept, Skip)
    /\ UNCHANGED <<table, legacy, backup, kept>>

\* 003: module TripCapacity.
TripSeats(p) ==
    /\ Applies(p, 3)
    /\ UNCHANGED <<rows, table, legacy, backup, kept>>

ReleasedBug(p) == lock
Released(p) == IF lock = p THEN None ELSE lock

Unlock(p) ==
    /\ proc[p].pc = "migrate" /\ proc[p].at = 3
    /\ lock' = Released(p)
    /\ proc' = [proc EXCEPT ![p].pc = "marker"]
    /\ UNCHANGED <<schema, rows, marker, outside, last, bounds>>

-----------------------------------------------------------------------------
(* The copy from Firestore *)

Migrated == marker

\* ensureMigrated: done, or the rules are locked (if they can be) and the copy begins.
ReadMarker(p) ==
    /\ proc[p].pc = "marker"
    /\ IF Migrated
       THEN /\ proc' = [proc EXCEPT ![p].pc = "ready", ![p].serving = TRUE]
            /\ UNCHANGED locked
       ELSE /\ proc' = [proc EXCEPT ![p].pc = "copy", ![p].at = 1]
            /\ locked' \in {TRUE, locked}
    /\ UNCHANGED <<schema, rows, marker, lock, firestore, last, bounds>>

\* A page is read from Firestore and imported, as rows of version 0.
ReadPage(p) ==
    /\ proc[p].pc = "copy" /\ proc[p].at <= Len(Copied)
    /\ proc' = [proc EXCEPT ![p].pc = "import", ![p].page =
           [d \in Docs |-> IF CollectionOf[d] = Copied[proc[p].at] THEN Row(firestore[d], 0) ELSE None]]
    /\ UNCHANGED <<schema, rows, marker, lock, outside, last, bounds>>

ImportPage(p) ==
    /\ proc[p].pc = "import"
    /\ Import(proc[p].page, Guard0)
    /\ proc' = [proc EXCEPT ![p].pc = "copy", ![p].at = @ + 1, ![p].page = NoDocs]
    /\ UNCHANGED <<schema, marker, lock, outside, last, bounds>>

AllCopiedBug(p) == proc[p].pc = "copy" /\ proc[p].at >= Len(Copied)
AllCopied(p) == proc[p].pc = "copy" /\ proc[p].at > Len(Copied)

\* The first copy is recorded; a later one, by an admin, is not.
SetMarker(p) ==
    /\ AllCopied(p) /\ ~proc[p].serving
    /\ marker' = TRUE
    /\ proc' = [proc EXCEPT ![p].pc = "ready", ![p].serving = TRUE]
    /\ UNCHANGED <<schema, rows, lock, outside, last, bounds>>

CopyEnds(p) ==
    /\ AllCopied(p) /\ proc[p].serving
    /\ proc' = [proc EXCEPT ![p].pc = "ready"]
    /\ UNCHANGED <<schema, rows, marker, lock, outside, last, bounds>>

-----------------------------------------------------------------------------
(* The server at work; requests are held until it is ready *)

Written == writes < MaxWrites /\ writes' = writes + 1

Put(d) ==
    /\ main' = [main EXCEPT ![d] = Row(writes', IF main[d] = None THEN 1 ELSE main[d].version + 1)]
    /\ last' = [last EXCEPT ![d] = writes']

\* The server names, and the policies let a browser write, only collections of the
\* registry.
Serves(p, d) == proc[p].serving /\ CollectionOf[d] \in Typed

Write(p, d) ==
    /\ Serves(p, d) /\ d \notin Unplaceable
    /\ Written /\ Put(d)
    /\ UNCHANGED <<schema, rejects, marker, lock, outside, proc, crashes>>

Delete(p, d) ==
    /\ Serves(p, d) /\ main[d] # None
    /\ Written
    /\ main' = [main EXCEPT ![d] = None]
    /\ last' = [last EXCEPT ![d] = Deleted]
    /\ UNCHANGED <<schema, rejects, marker, lock, outside, proc, crashes>>

\* /dbCopyFromFirestore, mode "delta", while other requests are answered.
AdminCopies(p) ==
    /\ proc[p].pc = "ready"
    /\ proc' = [proc EXCEPT ![p].pc = "copy", ![p].at = 1]
    /\ UNCHANGED <<schema, rows, marker, lock, outside, last, bounds>>

-----------------------------------------------------------------------------
(* Faults, the operator and the rest of the world *)

Fault == crashes < MaxCrashes /\ crashes' = crashes + 1

\* An open transaction is rolled back, the session's lock is gone.
Crash(p) ==
    /\ proc[p].pc # "down"
    /\ Fault
    /\ proc' = [proc EXCEPT ![p] = Down]
    /\ lock' = IF lock = p THEN None ELSE lock
    /\ UNCHANGED <<schema, rows, marker, outside, last, writes>>

\* SIGTERM.
Stop(p) ==
    /\ proc[p].pc \in {"ready", "failed", "broken"}
    /\ proc' = [proc EXCEPT ![p] = Down]
    /\ UNCHANGED <<schema, rows, marker, lock, outside, last, bounds>>

\* The table is there already, or the migration is applied.
Stuck(p) ==
    /\ proc[p].pc = "migrate" /\ proc[p].at < 3
    /\ applied # proc[p].at \/ (applied = 0 /\ ~Creatable)

\* A statement or a call of Firestore fails: a start is given up, a copy by an admin too.
Fail(p) ==
    /\ proc[p].pc \in {"lock", "migrate", "marker", "copy", "import"}
    /\ IF Stuck(p) THEN UNCHANGED crashes ELSE Fault
    /\ proc' = [proc EXCEPT ![p] =
           [Down EXCEPT !.pc = IF Stuck(p) THEN "broken" ELSE IF proc[p].serving THEN "ready" ELSE "failed",
                        !.serving = proc[p].serving]]
    /\ lock' = Released(p)
    /\ UNCHANGED <<schema, rows, marker, outside, last, writes>>

\* "stop the server first": the legacy tables are brought up to date, except for what
\* 002 has rejected, and take their names back; their typed ones, docs_other and
\* migration_rejects are set aside. A typed table without a legacy one stays.
Rollback ==
    /\ \A p \in Procs : proc[p].pc = "down"
    /\ legacy # {} /\ ~backup /\ applied = 3
    /\ LET back == [d \in Docs |-> IF main[d] = None /\ d \in rejects THEN kept[d] ELSE main[d]]
       IN  main' = [d \in Docs |->
               IF CollectionOf[d] \in legacy THEN back[d]
               ELSE IF CollectionOf[d] \in Typed THEN main[d] ELSE None]
    /\ table' = [c \in Relations |-> IF c \in legacy THEN "generic" ELSE table[c]]
    /\ legacy' = {} /\ backup' = TRUE /\ kept' = NoDocs /\ rejects' = {}
    /\ applied' = 0
    /\ UNCHANGED <<marker, lock, outside, proc, last, bounds>>

\* The older release, until its tables are renamed.
OlderWrites(d) ==
    /\ table[CollectionOf[d]] = "generic"
    /\ Written /\ Put(d)
    /\ UNCHANGED <<schema, rejects, marker, lock, outside, proc, crashes>>

\* A browser with an old copy of the website.
OldWebsite(d) ==
    /\ ~locked
    /\ Written
    /\ firestore' = [firestore EXCEPT ![d] = writes']
    /\ UNCHANGED <<schema, rows, marker, lock, locked, proc, last, crashes>>

Advance(p) ==
    \/ Lock(p) \/ TypedSchema(p) \/ ImportLegacy(p) \/ TripSeats(p) \/ Unlock(p)
    \/ ReadMarker(p) \/ ReadPage(p) \/ ImportPage(p) \/ SetMarker(p) \/ CopyEnds(p)

Next ==
    \/ \E p \in Procs :
           \/ Start(p) \/ Advance(p) \/ AdminCopies(p) \/ Crash(p) \/ Stop(p) \/ Fail(p)
           \/ \E d \in Docs : Write(p, d) \/ Delete(p, d)
    \/ Rollback
    \/ \E d \in Docs : OlderWrites(d) \/ OldWebsite(d)

\* A started process goes on; Postgres grants the lock in the order of asking.
Fairness == \A p \in Procs : WF_vars(Advance(p)) /\ SF_vars(Lock(p))

Spec == Init /\ [][Next]_vars
FairSpec == Spec /\ Fairness

-----------------------------------------------------------------------------
(* Properties *)

\* What the server would find, or will have imported before it answers.
Found(d) == IF applied = 1 /\ main[d] = None THEN kept[d] ELSE main[d]

\* "nothing changed in Postgres since is overwritten" (migrate.js:12-13), "KEEPING
\* every write made since the migration" (rollback.js:4): through migrations, copies,
\* rollbacks, crashes and reruns a document holds the last value written to it, or
\* waits in migration_rejects; a deleted one comes back only by a copy.
WritesKept ==
    \A d \in Docs :
        IF last[d] = None THEN TRUE
        ELSE IF last[d] = Deleted THEN Found(d) = None \/ Found(d).version = 0
        ELSE d \in rejects \/ (Found(d) # None /\ Found(d).value = last[d])

\* "docs_other / migration_rejects are set aside" (rollback.js:13): what was only there
\* is not in the restored tables, and the marker says that it need not be copied again.
SetAside(d) == backup /\ (d \in Unplaceable \/ CollectionOf[d] \notin Typed \cup Had)

\* A server that answers requests has every document Firestore had, unless it was
\* deleted since or no table accepts it, however often the copy has stopped half-way.
\* (After a rollback it may lack those that had no table of their own.)
CopyComplete ==
    (\E p \in Procs : proc[p].serving) =>
        \A d \in Docs : Found(d) # None \/ last[d] = Deleted \/ d \in rejects \/ SetAside(d)

\* "Deploying the typed release again later simply migrates again" (docs/MIGRATIONS.md:101):
\* no start fails on what another one, or the rollback, has left.
MigratesAgain == \A p \in Procs : proc[p].pc # "broken"

\* Every start ends: the server answers requests, unless it crashes or a call fails.
EveryStartEnds ==
    \A p \in Procs : proc[p].pc = "lock" ~> proc[p].serving \/ proc[p].pc \in {"down", "failed", "broken"}
=============================================================================
