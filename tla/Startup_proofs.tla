--------------------------- MODULE Startup_proofs ---------------------------
(***************************************************************************)
(* Proofs about module Startup, for any number of processes, documents and *)
(* collections: no acknowledged write is lost (WritesKept), a server that  *)
(* answers has every document (CopyComplete), and starts do not stumble    *)
(* over each other or over a rollback (MigratesAgain), provided that the   *)
(* older release had a table for every collection of the registry, system  *)
(* among them.                                                             *)
(***************************************************************************)
EXTENDS Startup, TLAPS

Doc == {None} \cup [value : Nat, version : Nat]

Phases == {"down", "lock", "migrate", "marker", "copy", "import", "ready", "failed", "broken"}

Process == [pc : Phases, serving : BOOLEAN, at : Nat, page : [Docs -> Doc]]

TypeOK ==
    /\ table \in [Relations -> {"none", "generic", "typed"}]
    /\ legacy \subseteq Relations
    /\ backup \in BOOLEAN /\ marker \in BOOLEAN
    /\ main \in [Docs -> Doc] /\ kept \in [Docs -> Doc]
    /\ rejects \subseteq Unplaceable
    /\ applied \in 0..3
    /\ firestore \in [Docs -> Nat]
    /\ proc \in [Procs -> Process]
    /\ last \in [Docs -> {None, Deleted} \cup Nat]
    /\ writes \in Nat

-----------------------------------------------------------------------------
(* The tables and the migrations *)

\* Before 001 the older release's tables hold everything; after it they are the
\* legacy tables, and the rows move in 002.
SchemaOK ==
    /\ \A c \in Relations :
           /\ table[c] = "generic" => applied = 0 /\ c \in Had
           /\ table[c] = "typed" => c \in TypedTables
           /\ applied = 0 /\ c \in Had => table[c] = "generic"
           /\ applied # 0 /\ c \in TypedTables => table[c] = "typed"
    /\ applied = 0 => legacy = {} /\ kept = NoDocs /\ rejects = {}
    /\ applied = 1 => main = NoDocs
    /\ applied # 0 => legacy = Had

\* Where a document without a table's consent may be, and that it is listed.
RejectsOK ==
    \A d \in Docs :
        /\ kept[d] # None => CollectionOf[d] \in Had
        /\ applied = 0 /\ main[d] # None => table[CollectionOf[d]] # "none"
        /\ d \in Unplaceable =>
               /\ main[d] # None => table[CollectionOf[d]] = "generic"
               /\ applied \in 2..3 /\ kept[d] # None => d \in rejects
               /\ last[d] # Deleted

-----------------------------------------------------------------------------
(* The documents *)

\* The row that holds the last write of a document.
Holder(d) == IF applied = 1 \/ (applied \in 2..3 /\ d \in Unplaceable) THEN kept[d] ELSE main[d]

\* A write leaves a version the copy respects, on a document of a table.
Held(d) ==
    /\ last[d] \in Nat =>
           /\ Holder(d) # None
           /\ Holder(d).value = last[d] /\ Holder(d).version > 0
           /\ CollectionOf[d] \in Typed \cup Had
    /\ last[d] = Deleted => Holder(d) = None \/ Holder(d).version = 0

Here(d) == Found(d) # None \/ last[d] = Deleted \/ d \in rejects \/ SetAside(d)

\* The marker says that every document is there: unless the rollback has left a table
\* that no server can start with.
MarkerOK == marker /\ (applied = 0 => Creatable) => \A d \in Docs : Here(d)

-----------------------------------------------------------------------------
(* The processes *)

\* The lock makes whoever migrates the only one.
LockOK ==
    \A p \in Procs :
        /\ proc[p].pc = "migrate" <=> lock = p
        /\ proc[p].pc = "migrate" => proc[p].at = applied
        /\ proc[p].pc \in {"marker", "copy", "import", "ready"} => applied = 3
        /\ proc[p].serving => marker /\ proc[p].pc \in {"copy", "import", "ready"}

\* A copy has brought the documents of the collections before the one it is at.
CopyOK ==
    \A p \in Procs :
        /\ proc[p].pc \in {"copy", "import"} =>
               \A d \in Docs : \A i \in DOMAIN Copied :
                   i < proc[p].at /\ Copied[i] = CollectionOf[d] => Here(d)
        /\ proc[p].pc = "import" =>
               \A d \in Docs :
                   /\ proc[p].page[d] # None => proc[p].page[d].version = 0
                   /\ Copied[proc[p].at] = CollectionOf[d] => proc[p].page[d] # None

\* What a process may be in, by the tables as they are.
MayBe(p, q) ==
    /\ q.pc = "migrate" <=> lock' = p
    /\ q.pc = "migrate" => q.at = applied
    /\ q.pc \in {"marker", "copy", "import", "ready"} => applied = 3
    /\ q.serving => marker /\ q.pc \in {"copy", "import", "ready"}
    /\ q.pc \in {"copy", "import"} =>
           \A d \in Docs : \A i \in DOMAIN Copied :
               i < q.at /\ Copied[i] = CollectionOf[d] => Here(d)
    /\ q.pc = "import" =>
           \A d \in Docs :
               /\ q.page[d] # None => q.page[d].version = 0
               /\ Copied[q.at] = CollectionOf[d] => q.page[d] # None

IInv ==
    /\ TypeOK /\ SchemaOK /\ RejectsOK
    /\ \A d \in Docs : Held(d)
    /\ MarkerOK /\ LockOK /\ CopyOK

LEMMA DocsHaveTables == \A d \in Docs : CollectionOf[d] \in Relations
BY CollectionsAssumption DEF Relations

-----------------------------------------------------------------------------
(* A step of a process that leaves the documents alone *)

LEMMA DataStands ==
    ASSUME TypeOK, SchemaOK, RejectsOK, MarkerOK, \A d \in Docs : Held(d),
           UNCHANGED <<schema, rows, marker, last>>
    PROVE  /\ SchemaOK' /\ RejectsOK' /\ MarkerOK'
           /\ \A d \in Docs : Held(d)' /\ (Here(d) => Here(d)')
<1>1. SchemaOK'
    BY DEF SchemaOK, schema, rows, NoDocs
<1>2. RejectsOK'
    BY DEF RejectsOK, schema, rows
<1>3. \A d \in Docs : Held(d)'
    BY DEF Held, Holder, schema, rows
<1>4. \A d \in Docs : Here(d) <=> Here(d)'
    BY DEF Here, SetAside, Found, schema, rows
<1>5. MarkerOK'
    BY <1>4 DEF MarkerOK, Creatable, schema, rows
<1> QED BY <1>1, <1>2, <1>3, <1>4, <1>5

LEMMA ProcessMoves ==
    ASSUME IInv, NEW p \in Procs, NEW q \in Process,
           UNCHANGED <<schema, rows, marker, last>>,
           firestore' \in [Docs -> Nat], writes' \in Nat,
           proc' = [proc EXCEPT ![p] = q],
           \A o \in Procs \ {p} : lock' = o <=> lock = o,
           MayBe(p, q)
    PROVE  IInv'
<1>1. TypeOK'
    BY DEF IInv, TypeOK, schema, rows
<1>2. /\ SchemaOK' /\ RejectsOK' /\ MarkerOK'
      /\ \A d \in Docs : Held(d)' /\ (Here(d) => Here(d)')
    BY DataStands DEF IInv
<1>3. \A o \in Procs : proc'[o] = IF o = p THEN q ELSE proc[o]
    BY DEF IInv, TypeOK
<1>4. LockOK'
    <2> SUFFICES ASSUME NEW o \in Procs
                 PROVE  LockOK!(o)'
        BY DEF LockOK
    <2>1. CASE o = p
        BY <1>3, <2>1 DEF MayBe, schema
    <2>2. CASE o # p
        BY <1>3, <2>2 DEF IInv, LockOK, schema
    <2> QED BY <2>1, <2>2
<1>5. CopyOK'
    <2> SUFFICES ASSUME NEW o \in Procs
                 PROVE  CopyOK!(o)'
        BY DEF CopyOK
    <2>1. CASE o = p
        BY <1>2, <1>3, <2>1 DEF MayBe
    <2>2. CASE o # p
        BY <1>2, <1>3, <2>2 DEF IInv, CopyOK
    <2> QED BY <2>1, <2>2
<1> QED BY <1>1, <1>2, <1>4, <1>5 DEF IInv

LEMMA StartStep ==
    ASSUME IInv, NEW p \in Procs, Start(p)
    PROVE  IInv'
<1> DEFINE q == [proc[p] EXCEPT !.pc = "lock"]
<1>1. q \in Process /\ proc' = [proc EXCEPT ![p] = q]
    BY DEF Start, IInv, TypeOK, Process, Phases
<1>2. MayBe(p, q)
    BY DEF Start, MayBe, IInv, TypeOK, LockOK, Process
<1> QED BY <1>1, <1>2, ProcessMoves DEF Start, bounds, outside, IInv, TypeOK

LEMMA LockStep ==
    ASSUME IInv, NEW p \in Procs, Lock(p)
    PROVE  IInv'
<1> DEFINE q == [proc[p] EXCEPT !.pc = "migrate", !.at = applied]
<1>1. q \in Process /\ proc' = [proc EXCEPT ![p] = q]
    <2>1. proc \in [Procs -> Process] /\ applied \in Nat
        BY DEF IInv, TypeOK
    <2> QED BY <2>1 DEF Lock, Process, Phases
<1>2. MayBe(p, q)
    BY DEF Lock, MayBe, IInv, TypeOK, LockOK, Process
<1>3. \A o \in Procs \ {p} : lock' = o <=> lock = o
    BY NoneAssumption DEF Lock, Free
<1> QED BY <1>1, <1>2, <1>3, ProcessMoves DEF Lock, bounds, outside, IInv, TypeOK

LEMMA UnlockStep ==
    ASSUME IInv, NEW p \in Procs, Unlock(p)
    PROVE  IInv'
<1> DEFINE q == [proc[p] EXCEPT !.pc = "marker"]
<1>1. q \in Process /\ proc' = [proc EXCEPT ![p] = q]
    BY DEF Unlock, IInv, TypeOK, Process, Phases
<1>2. lock = p /\ lock' = None /\ p # None
    BY NoneAssumption DEF Unlock, Released, IInv, LockOK
<1>3. MayBe(p, q)
    BY <1>2 DEF Unlock, MayBe, IInv, TypeOK, LockOK, Process
<1>4. \A o \in Procs \ {p} : lock' = o <=> lock = o
    BY <1>2, NoneAssumption
<1> QED BY <1>1, <1>3, <1>4, ProcessMoves DEF Unlock, bounds, outside, IInv, TypeOK

LEMMA ReadMarkerStep ==
    ASSUME IInv, NEW p \in Procs, ReadMarker(p)
    PROVE  IInv'
<1>1. CASE Migrated
    <2> DEFINE q == [proc[p] EXCEPT !.pc = "ready", !.serving = TRUE]
    <2>1. q \in Process /\ proc' = [proc EXCEPT ![p] = q]
        BY <1>1 DEF ReadMarker, IInv, TypeOK, Process, Phases
    <2>2. MayBe(p, q)
        BY <1>1 DEF ReadMarker, Migrated, MayBe, IInv, TypeOK, LockOK, Process
    <2> QED BY <2>1, <2>2, ProcessMoves DEF ReadMarker, bounds, IInv, TypeOK
<1>2. CASE ~Migrated
    <2> DEFINE q == [proc[p] EXCEPT !.pc = "copy", !.at = 1]
    <2>1. q \in Process /\ proc' = [proc EXCEPT ![p] = q]
        BY <1>2 DEF ReadMarker, IInv, TypeOK, Process, Phases
    <2>2. MayBe(p, q)
        BY <1>2, CollectionsAssumption DEF ReadMarker, MayBe, IInv, TypeOK, LockOK, Process
    <2> QED BY <2>1, <2>2, ProcessMoves DEF ReadMarker, bounds, IInv, TypeOK
<1> QED BY <1>1, <1>2

LEMMA ReadPageStep ==
    ASSUME IInv, NEW p \in Procs, ReadPage(p)
    PROVE  IInv'
<1> DEFINE page == [d \in Docs |->
                       IF CollectionOf[d] = Copied[proc[p].at] THEN Row(firestore[d], 0) ELSE None]
           q == [proc[p] EXCEPT !.pc = "import", !.page = page]
<1>1. page \in [Docs -> Doc]
    BY DEF Doc, Row, IInv, TypeOK
<1>2. q \in Process /\ proc' = [proc EXCEPT ![p] = q]
    BY <1>1 DEF ReadPage, IInv, TypeOK, Process, Phases
<1>3. \A d \in Docs : /\ page[d] # None => page[d].version = 0
                      /\ Copied[proc[p].at] = CollectionOf[d] => page[d] # None
    BY NoneAssumption DEF Row, IInv, TypeOK
<1>4. q.pc = "import" /\ q.at = proc[p].at /\ q.page = page /\ q.serving = proc[p].serving
    BY DEF IInv, TypeOK, Process
<1> HIDE DEF page, q
<1>5. MayBe(p, q)
    BY <1>3, <1>4 DEF ReadPage, MayBe, IInv, LockOK, CopyOK
<1> QED BY <1>2, <1>5, ProcessMoves DEF ReadPage, bounds, outside, IInv, TypeOK

LEMMA CopyEndsStep ==
    ASSUME IInv, NEW p \in Procs, CopyEnds(p)
    PROVE  IInv'
<1> DEFINE q == [proc[p] EXCEPT !.pc = "ready"]
<1>1. q \in Process /\ proc' = [proc EXCEPT ![p] = q]
    BY DEF CopyEnds, IInv, TypeOK, Process, Phases
<1>2. MayBe(p, q)
    BY DEF CopyEnds, AllCopied, MayBe, IInv, TypeOK, LockOK, Process
<1> QED BY <1>1, <1>2, ProcessMoves DEF CopyEnds, bounds, outside, IInv, TypeOK

LEMMA AdminCopiesStep ==
    ASSUME IInv, NEW p \in Procs, AdminCopies(p)
    PROVE  IInv'
<1> DEFINE q == [proc[p] EXCEPT !.pc = "copy", !.at = 1]
<1>1. q \in Process /\ proc' = [proc EXCEPT ![p] = q]
    BY DEF AdminCopies, IInv, TypeOK, Process, Phases
<1>2. MayBe(p, q)
    BY CollectionsAssumption DEF AdminCopies, MayBe, IInv, TypeOK, LockOK, Process
<1> QED BY <1>1, <1>2, ProcessMoves DEF AdminCopies, bounds, outside, IInv, TypeOK

LEMMA DownIsProcess == Down \in Process
BY DEF Down, Process, Phases, NoDocs, Doc

LEMMA CrashStep ==
    ASSUME IInv, NEW p \in Procs, Crash(p)
    PROVE  IInv'
<1>1. MayBe(p, Down)
    BY NoneAssumption DEF Crash, MayBe, Down
<1>2. \A o \in Procs \ {p} : lock' = o <=> lock = o
    BY NoneAssumption DEF Crash
<1> QED BY <1>1, <1>2, DownIsProcess, ProcessMoves DEF Crash, outside, IInv, TypeOK

LEMMA StopStep ==
    ASSUME IInv, NEW p \in Procs, Stop(p)
    PROVE  IInv'
<1>1. MayBe(p, Down)
    BY DEF Stop, MayBe, Down, IInv, LockOK
<1> QED BY <1>1, DownIsProcess, ProcessMoves DEF Stop, outside, bounds, IInv, TypeOK

LEMMA FailStep ==
    ASSUME IInv, NEW p \in Procs, Fail(p)
    PROVE  IInv'
<1> DEFINE pc == IF Stuck(p) THEN "broken" ELSE IF proc[p].serving THEN "ready" ELSE "failed"
           q == [Down EXCEPT !.pc = pc, !.serving = proc[p].serving]
<1>1. q \in Process /\ q.pc = pc /\ q.serving = proc[p].serving
    BY DownIsProcess DEF IInv, TypeOK, Process, Phases
<1>2. proc' = [proc EXCEPT ![p] = q]
    BY DEF Fail
<1>3. MayBe(p, q)
    <2> HIDE DEF q
    <2>1. lock' # p
        BY NoneAssumption DEF Fail, Released
    <2>2. proc[p].serving => pc = "ready" /\ applied = 3 /\ marker
        BY DEF Stuck, IInv, LockOK
    <2>3. pc = "ready" => proc[p].serving
        OBVIOUS
    <2> QED BY <1>1, <2>1, <2>2, <2>3 DEF MayBe
<1>4. \A o \in Procs \ {p} : lock' = o <=> lock = o
    BY NoneAssumption DEF Fail, Released
<1> HIDE DEF q
<1> QED BY <1>1, <1>2, <1>3, <1>4, ProcessMoves DEF Fail, outside, IInv, TypeOK

LEMMA OldWebsiteStep ==
    ASSUME IInv, NEW d \in Docs, OldWebsite(d)
    PROVE  IInv'
<1>1. TypeOK'
    BY DEF OldWebsite, Written, IInv, TypeOK, schema, rows
<1>2. /\ SchemaOK' /\ RejectsOK' /\ MarkerOK'
      /\ \A e \in Docs : Held(e)' /\ (Here(e) => Here(e)')
    BY DataStands DEF OldWebsite, IInv
<1>3. LockOK'
    BY DEF OldWebsite, IInv, LockOK, schema
<1>4. CopyOK'
    BY <1>2 DEF OldWebsite, IInv, CopyOK
<1> QED BY <1>1, <1>2, <1>3, <1>4 DEF IInv

-----------------------------------------------------------------------------
(* The migrations *)

\* While one process migrates nobody else does, and nobody is beyond it.
LEMMA OnlyOneMigrates ==
    ASSUME TypeOK, LockOK, NEW p \in Procs,
           proc[p].pc = "migrate", applied # 3, applied' \in Nat,
           proc' = [proc EXCEPT ![p].at = applied'], lock' = lock, marker' = marker
    PROVE  LockOK' /\ CopyOK'
<1>1. proc \in [Procs -> Process]
    BY DEF TypeOK
<1>2. \A o \in Procs : /\ proc'[o].pc = proc[o].pc /\ proc'[o].serving = proc[o].serving
                       /\ proc'[o].at = IF o = p THEN applied' ELSE proc[o].at
    BY <1>1 DEF Process
<1>3. \A o \in Procs : /\ proc[o].pc \notin {"marker", "copy", "import", "ready"}
                       /\ o # p => proc[o].pc # "migrate"
    BY DEF LockOK
<1>4. LockOK'
    BY <1>2, <1>3 DEF LockOK
<1>5. CopyOK'
    BY <1>2, <1>3 DEF CopyOK
<1> QED BY <1>1, <1>4, <1>5 DEF Process

LEMMA TypedSchemaStep ==
    ASSUME IInv, NEW p \in Procs, TypedSchema(p)
    PROVE  IInv'
<1> USE DEF IInv
<1>1. /\ applied = 0 /\ applied' = 1 /\ marker' = marker /\ last' = last /\ backup' = backup
      /\ legacy = {} /\ kept = NoDocs /\ rejects = {} /\ rejects' = {}
    BY DEF TypedSchema, Applies, SchemaOK
<1>2. \A c \in Relations : table[c] # "typed" /\ (table[c] = "generic" <=> c \in Had)
    BY <1>1 DEF TypedSchema, Creatable, SchemaOK
<1>3. \A d \in Docs : /\ main[d] # None => table[CollectionOf[d]] = "generic"
                      /\ main'[d] = None /\ kept'[d] = main[d]
    <2> TAKE d \in Docs
    <2>1. CollectionOf[d] \in Relations
        BY CollectionsAssumption DEF Relations
    <2>2. main[d] # None => table[CollectionOf[d]] = "generic"
        BY <1>1, <1>2, <2>1 DEF RejectsOK, TypeOK
    <2> QED BY <2>2 DEF TypedSchema
<1>4. main' = NoDocs
    BY <1>3 DEF TypedSchema, NoDocs
<1>5. /\ table' \in [Relations -> {"none", "generic", "typed"}]
      /\ \A c \in Relations : /\ table'[c] # "generic"
                              /\ table'[c] = "typed" <=> c \in TypedTables
    BY DEF TypedSchema
<1>6. legacy' = Had /\ Had \subseteq Relations
    BY <1>2, CollectionsAssumption DEF TypedSchema, Relations
<1>7. proc' = [proc EXCEPT ![p].at = 1] /\ firestore' = firestore /\ writes' = writes /\ lock' = lock
    BY DEF TypedSchema, Applies, bounds, outside
<1>8. TypeOK'
    <2>1. kept' \in [Docs -> Doc] /\ main' \in [Docs -> Doc]
        BY <1>3, <1>4 DEF TypedSchema, TypeOK, NoDocs, Doc
    <2>2. proc' \in [Procs -> Process]
        BY <1>7 DEF TypeOK, Process
    <2> QED BY <1>1, <1>5, <1>6, <1>7, <2>1, <2>2 DEF TypeOK
<1>9. SchemaOK'
    BY <1>1, <1>4, <1>5, <1>6 DEF SchemaOK
<1>10. RejectsOK'
    BY <1>1, <1>2, <1>3, CollectionsAssumption, DocsHaveTables DEF RejectsOK
<1>11. \A d \in Docs : Held(d)'
    BY <1>1, <1>3 DEF Held, Holder
<1>12. MarkerOK'
    <2>1. Creatable
        BY DEF TypedSchema
    <2>2. \A d \in Docs : Here(d) => Here(d)'
        BY <1>1, <1>3 DEF Here, SetAside, Found
    <2> QED BY <1>1, <2>1, <2>2 DEF MarkerOK
<1>13. LockOK' /\ CopyOK'
    <2>1. proc[p].pc = "migrate"
        BY DEF TypedSchema, Applies
    <2>2. TypeOK /\ LockOK
        OBVIOUS
    <2>3. /\ applied # 3 /\ applied' \in Nat /\ lock' = lock /\ marker' = marker
          /\ proc' = [proc EXCEPT ![p].at = applied']
        BY <1>1, <1>7
    <2> HIDE DEF IInv
    <2> QED BY <2>1, <2>2, <2>3, OnlyOneMigrates, Zenon
<1> QED BY <1>8, <1>9, <1>10, <1>11, <1>12, <1>13

LEMMA ImportLegacyStep ==
    ASSUME IInv, NEW p \in Procs, ImportLegacy(p)
    PROVE  IInv'
<1> USE DEF IInv
<1>1. /\ applied = 1 /\ applied' = 2 /\ marker' = marker /\ last' = last
      /\ UNCHANGED <<table, legacy, backup, kept>>
    BY DEF ImportLegacy, Applies
<1>2. main = NoDocs
    BY <1>1 DEF SchemaOK
<1>3. \A d \in Docs : main'[d] = IF d \in Unplaceable THEN None ELSE kept[d]
    BY <1>2 DEF ImportLegacy, Import, Skip, NoDocs
<1>4. rejects' = rejects \cup {d \in Unplaceable : kept[d] # None}
    BY DEF ImportLegacy, Import
<1>5. proc' = [proc EXCEPT ![p].at = 2] /\ firestore' = firestore /\ writes' = writes /\ lock' = lock
    BY DEF ImportLegacy, Applies, bounds, outside
<1>6. TypeOK'
    <2>1. main' \in [Docs -> Doc]
        BY <1>3 DEF ImportLegacy, Import, TypeOK, Doc
    <2>2. proc' \in [Procs -> Process]
        BY <1>5 DEF TypeOK, Process
    <2> QED BY <1>1, <1>4, <1>5, <2>1, <2>2 DEF TypeOK
<1>7. SchemaOK'
    BY <1>1 DEF SchemaOK
<1>8. RejectsOK'
    BY <1>1, <1>3, <1>4 DEF RejectsOK
<1>9. \A d \in Docs : Held(d)'
    BY <1>1, <1>3 DEF Held, Holder
<1>10. \A d \in Docs : Here(d) => Here(d)'
    BY <1>1, <1>2, <1>3, <1>4, CollectionsAssumption DEF Here, SetAside, Found, NoDocs
<1>11. MarkerOK'
    BY <1>1, <1>10 DEF MarkerOK
<1>12. LockOK' /\ CopyOK'
    <2>1. proc[p].pc = "migrate"
        BY DEF ImportLegacy, Applies
    <2>2. TypeOK /\ LockOK
        OBVIOUS
    <2>3. /\ applied # 3 /\ applied' \in Nat /\ lock' = lock /\ marker' = marker
          /\ proc' = [proc EXCEPT ![p].at = applied']
        BY <1>1, <1>5
    <2> HIDE DEF IInv
    <2> QED BY <2>1, <2>2, <2>3, OnlyOneMigrates, Zenon
<1> QED BY <1>6, <1>7, <1>8, <1>9, <1>11, <1>12

LEMMA TripSeatsStep ==
    ASSUME IInv, NEW p \in Procs, TripSeats(p)
    PROVE  IInv'
<1> USE DEF IInv
<1>1. /\ applied = 2 /\ applied' = 3 /\ marker' = marker /\ last' = last
      /\ UNCHANGED <<table, legacy, backup, kept, main, rejects>>
    BY DEF TripSeats, Applies, rows
<1>2. proc' = [proc EXCEPT ![p].at = 3] /\ firestore' = firestore /\ writes' = writes /\ lock' = lock
    BY DEF TripSeats, Applies, bounds, outside
<1>3. TypeOK'
    <2>1. proc' \in [Procs -> Process]
        BY <1>2 DEF TypeOK, Process
    <2> QED BY <1>1, <1>2, <2>1 DEF TypeOK
<1>4. SchemaOK' /\ RejectsOK'
    BY <1>1 DEF SchemaOK, RejectsOK
<1>5. \A d \in Docs : Held(d)' /\ (Here(d) => Here(d)')
    BY <1>1 DEF Held, Holder, Here, SetAside, Found
<1>6. MarkerOK'
    BY <1>1, <1>5 DEF MarkerOK
<1>7. LockOK' /\ CopyOK'
    <2>1. proc[p].pc = "migrate"
        BY DEF TripSeats, Applies
    <2>2. TypeOK /\ LockOK
        OBVIOUS
    <2>3. /\ applied # 3 /\ applied' \in Nat /\ lock' = lock /\ marker' = marker
          /\ proc' = [proc EXCEPT ![p].at = applied']
        BY <1>1, <1>2
    <2> HIDE DEF IInv
    <2> QED BY <2>1, <2>2, <2>3, OnlyOneMigrates, Zenon
<1> QED BY <1>3, <1>4, <1>5, <1>6, <1>7

-----------------------------------------------------------------------------
(* The copy, and the server at work *)

\* Here is kept while the tables grow and deletions are remembered.
LEMMA DocumentsMove ==
    ASSUME IInv, NEW p \in Procs, UNCHANGED <<schema, lock>>,
           \A d \in Docs : Here(d) => Here(d)',
           marker => marker',
           \A o \in Procs \ {p} : proc'[o] = proc[o]
    PROVE  \A o \in Procs \ {p} : LockOK!(o)' /\ CopyOK!(o)'
<1> TAKE o \in Procs \ {p}
<1>1. LockOK!(o)'
    BY DEF IInv, LockOK, schema
<1>2. CopyOK!(o)'
    BY DEF IInv, CopyOK
<1> QED BY <1>1, <1>2

LEMMA ImportPageStep ==
    ASSUME IInv, NEW p \in Procs, ImportPage(p)
    PROVE  IInv'
<1> USE DEF IInv
<1> DEFINE page == proc[p].page
           at == proc[p].at
<1>1. /\ applied = 3 /\ UNCHANGED <<schema, marker, lock, last, firestore, writes>>
      /\ page \in [Docs -> Doc] /\ at \in Nat
      /\ proc[p].pc = "import"
    BY DEF ImportPage, LockOK, outside, bounds, TypeOK, Process
<1>2. \A d \in Docs : main'[d] = IF page[d] = None \/ d \in Unplaceable THEN main[d]
                                 ELSE IF main[d] = None \/ main[d].version = 0 THEN page[d] ELSE main[d]
    BY DEF ImportPage, Import, Guard0
<1>3. rejects' = rejects \cup {d \in Unplaceable : page[d] # None}
    BY DEF ImportPage, Import
<1>4. \A d \in Docs : /\ page[d] # None => page[d].version = 0
                      /\ Copied[at] = CollectionOf[d] => page[d] # None
    BY <1>1 DEF CopyOK
<1>5. /\ proc' \in [Procs -> Process] /\ proc'[p].pc = "copy" /\ proc'[p].at = at + 1
      /\ proc'[p].serving = proc[p].serving
      /\ \A o \in Procs \ {p} : proc'[o] = proc[o]
    BY DEF ImportPage, TypeOK, Process, Phases, NoDocs, Doc
<1> HIDE DEF page, at
<1>6. TypeOK'
    <2>1. main' \in [Docs -> Doc]
        BY <1>1, <1>2 DEF ImportPage, Import, TypeOK
    <2> QED BY <1>1, <1>3, <1>5, <2>1 DEF TypeOK, schema
<1>7. SchemaOK'
    BY <1>1 DEF SchemaOK, schema
<1>8. RejectsOK'
    BY <1>1, <1>2, <1>3 DEF RejectsOK, schema
<1>9. \A d \in Docs : Held(d)'
    <2> TAKE d \in Docs
    <2>1. CASE d \in Unplaceable
        BY <1>1, <2>1 DEF Held, Holder, schema
    <2>2. CASE d \notin Unplaceable
        BY <1>1, <1>2, <1>4, <2>2 DEF Held, Holder, schema
    <2> QED BY <2>1, <2>2
<1>10. \A d \in Docs : /\ Here(d) => Here(d)'
                       /\ page[d] # None => Here(d)'
    BY <1>1, <1>2, <1>3 DEF Here, SetAside, Found, schema
<1>11. MarkerOK'
    BY <1>1, <1>10 DEF MarkerOK, Creatable, schema
<1>12. /\ proc'[p].pc \in {"copy", "import"} =>
              \A d \in Docs : \A i \in DOMAIN Copied :
                  i < proc'[p].at /\ Copied[i] = CollectionOf[d] => Here(d)'
       /\ proc'[p].pc # "import"
    <2> SUFFICES ASSUME NEW d \in Docs, NEW i \in DOMAIN Copied,
                        i < at + 1, Copied[i] = CollectionOf[d]
                 PROVE  Here(d)'
        BY <1>5
    <2>1. i \in Nat
        BY CollectionsAssumption
    <2>2. CASE i = at
        BY <1>4, <1>10, <2>2
    <2>3. CASE i < at
        BY <1>1, <1>10, <2>3 DEF CopyOK, at
    <2> QED BY <1>1, <2>1, <2>2, <2>3
<1>13. CopyOK'
    <2>1. \A o \in Procs \ {p} : CopyOK!(o)'
        BY <1>1, <1>5, <1>10, DocumentsMove
    <2> QED BY <2>1, <1>12 DEF CopyOK
<1>14. LockOK'
    BY <1>1, <1>5 DEF LockOK, schema
<1> QED BY <1>6, <1>7, <1>8, <1>9, <1>11, <1>13, <1>14

LEMMA SetMarkerStep ==
    ASSUME IInv, NEW p \in Procs, SetMarker(p)
    PROVE  IInv'
<1> USE DEF IInv
<1>1. /\ UNCHANGED <<schema, rows, lock, last, firestore, writes>> /\ marker' = TRUE
      /\ applied = 3 /\ proc[p].pc = "copy"
    BY DEF SetMarker, AllCopied, outside, bounds, LockOK
<1>2. /\ proc' \in [Procs -> Process] /\ proc'[p].pc = "ready"
      /\ \A o \in Procs \ {p} : proc'[o] = proc[o]
    BY DEF SetMarker, TypeOK, Process, Phases
<1>3. TypeOK'
    BY <1>1, <1>2 DEF TypeOK, schema, rows
<1>4. SchemaOK' /\ RejectsOK'
    BY <1>1 DEF SchemaOK, RejectsOK, schema, rows
<1>5. \A d \in Docs : Held(d)' /\ (Here(d) => Here(d)')
    BY <1>1 DEF Held, Holder, Here, SetAside, Found, schema, rows
<1>6. \A d \in Docs : Here(d)
    <2> TAKE d \in Docs
    <2>1. PICK i \in DOMAIN Copied : Copied[i] = CollectionOf[d]
        BY CollectionsAssumption
    <2>2. i < proc[p].at
        BY CollectionsAssumption DEF SetMarker, AllCopied, TypeOK, Process
    <2> QED BY <1>1, <2>1, <2>2 DEF CopyOK
<1>7. MarkerOK'
    BY <1>1, <1>5, <1>6 DEF MarkerOK, Creatable, schema, rows
<1>8. LockOK' /\ CopyOK'
    <2>1. \A o \in Procs \ {p} : LockOK!(o)' /\ CopyOK!(o)'
        BY <1>1, <1>2, <1>5, DocumentsMove
    <2>2. LockOK!(p)' /\ CopyOK!(p)'
        BY <1>1, <1>2 DEF LockOK, schema
    <2> QED BY <2>1, <2>2 DEF LockOK, CopyOK
<1> QED BY <1>3, <1>4, <1>5, <1>7, <1>8

\* A write of one document, by the server or by the older release.
LEMMA PutStep ==
    ASSUME IInv, NEW d \in Docs, Written, Put(d),
           UNCHANGED <<schema, rejects, marker, lock, firestore, proc>>,
           Holder(d) = main[d], applied # 1, CollectionOf[d] \in Typed \cup Had,
           IF table[CollectionOf[d]] = "generic" THEN TRUE
                                                 ELSE applied = 3 /\ d \notin Unplaceable
    PROVE  IInv'
<1> USE DEF IInv
<1>1. /\ writes' \in Nat /\ writes' # Deleted
      /\ \A e \in Docs : /\ e # d => main'[e] = main[e] /\ last'[e] = last[e]
                         /\ e = d => last'[e] = writes' /\ main'[e] # None
                                     /\ main'[e].value = writes'
                                     /\ main'[e].version > 0
      /\ main' \in [Docs -> Doc]
    <2>1. main[d] # None => main[d].version \in Nat
        BY DEF TypeOK, Doc
    <2> DEFINE row == Row(writes', IF main[d] = None THEN 1 ELSE main[d].version + 1)
    <2>2. writes' \in Nat
        BY DEF Written, TypeOK
    <2>3. row \in [value : Nat, version : Nat] /\ row.value = writes' /\ row.version > 0
        BY <2>1, <2>2 DEF Row
    <2>4. main' = [main EXCEPT ![d] = row] /\ last' = [last EXCEPT ![d] = writes']
        BY DEF Put
    <2>5. row # None /\ row \in Doc
        BY <2>3, NoneAssumption DEF Doc
    <2> HIDE DEF row
    <2> QED BY <2>2, <2>3, <2>4, <2>5 DEF TypeOK, Deleted
<1>2. TypeOK'
    BY <1>1 DEF TypeOK, schema, Put
<1>3. SchemaOK'
    BY DEF SchemaOK, schema
<1>4. RejectsOK'
    BY <1>1 DEF RejectsOK, schema, SchemaOK
<1>5. \A e \in Docs : Held(e)'
    <2> TAKE e \in Docs
    <2>1. CASE e = d
        <3>1. ~(applied \in 2..3 /\ d \in Unplaceable)
            BY CollectionsAssumption, DocsHaveTables DEF SchemaOK, TypeOK
        <3>2. Holder(e)' = main'[e]
            BY <2>1, <3>1 DEF Holder, schema
        <3> QED BY <1>1, <2>1, <3>2, NoneAssumption DEF Held, Deleted
    <2>2. CASE e # d
        <3>1. Holder(e)' = Holder(e) /\ last'[e] = last[e]
            BY <1>1, <2>2 DEF Holder, schema
        <3> QED BY <3>1 DEF Held
    <2> QED BY <2>1, <2>2
<1>6. \A e \in Docs : Here(e) => Here(e)'
    BY <1>1 DEF Here, SetAside, Found, schema
<1>7. MarkerOK'
    BY <1>1, <1>6 DEF MarkerOK, Creatable, schema
<1>8. LockOK' /\ CopyOK'
    BY <1>6 DEF LockOK, CopyOK, schema
<1> QED BY <1>2, <1>3, <1>4, <1>5, <1>7, <1>8

LEMMA WriteStep ==
    ASSUME IInv, NEW p \in Procs, NEW d \in Docs, Write(p, d)
    PROVE  IInv'
<1>1. applied = 3 /\ d \notin Unplaceable /\ CollectionOf[d] \in Typed
    BY DEF Write, Serves, IInv, LockOK
<1> QED BY <1>1, PutStep DEF Write, Holder, outside

LEMMA OlderWritesStep ==
    ASSUME IInv, NEW d \in Docs, OlderWrites(d)
    PROVE  IInv'
<1>1. applied = 0 /\ CollectionOf[d] \in Had
    BY CollectionsAssumption, DocsHaveTables DEF OlderWrites, IInv, SchemaOK
<1> QED BY <1>1, PutStep DEF OlderWrites, Holder, outside

LEMMA DeleteStep ==
    ASSUME IInv, NEW p \in Procs, NEW d \in Docs, Delete(p, d)
    PROVE  IInv'
<1> USE DEF IInv
<1>1. /\ UNCHANGED <<schema, rejects, marker, lock, firestore, proc>>
      /\ writes' \in Nat /\ applied = 3 /\ main[d] # None /\ CollectionOf[d] \in Typed
    BY DEF Delete, Serves, Written, TypeOK, LockOK, outside
<1>2. d \notin Unplaceable
    BY <1>1, CollectionsAssumption, DocsHaveTables DEF RejectsOK, SchemaOK
<1>3. \A e \in Docs : /\ e # d => main'[e] = main[e] /\ last'[e] = last[e]
                      /\ e = d => last'[e] = Deleted /\ main'[e] = None
    BY DEF Delete, TypeOK
<1>4. TypeOK'
    BY <1>1 DEF TypeOK, schema, Delete, Doc
<1>5. SchemaOK'
    BY <1>1 DEF SchemaOK, schema
<1>6. RejectsOK'
    BY <1>1, <1>2, <1>3 DEF RejectsOK, schema
<1>7. \A e \in Docs : Held(e)'
    BY <1>1, <1>2, <1>3 DEF Held, Holder, schema, Deleted
<1>8. \A e \in Docs : Here(e) => Here(e)'
    BY <1>1, <1>3 DEF Here, SetAside, Found, schema
<1>9. MarkerOK'
    BY <1>1, <1>8 DEF MarkerOK, Creatable, schema
<1>10. LockOK' /\ CopyOK'
    BY <1>1, <1>8 DEF LockOK, CopyOK, schema
<1> QED BY <1>4, <1>5, <1>6, <1>7, <1>9, <1>10

-----------------------------------------------------------------------------
(* The rollback *)

LEMMA RollbackStep ==
    ASSUME IInv, Rollback
    PROVE  IInv'
<1> USE DEF IInv
<1>1. /\ applied = 3 /\ applied' = 0 /\ ~backup /\ backup'
      /\ legacy' = {} /\ kept' = NoDocs /\ rejects' = {}
      /\ UNCHANGED <<lock, firestore, proc, last, writes>>
      /\ marker' = marker
      /\ \A p \in Procs : proc[p].pc = "down"
    BY DEF Rollback, outside, bounds
<1>2. \A d \in Docs : main'[d] =
          IF CollectionOf[d] \in legacy
          THEN IF main[d] = None /\ d \in rejects THEN kept[d] ELSE main[d]
          ELSE IF CollectionOf[d] \in Typed THEN main[d] ELSE None
    BY DEF Rollback
<1>3. \A c \in Relations : table'[c] = IF c \in Had THEN "generic" ELSE table[c]
    BY <1>1 DEF Rollback, SchemaOK
<1>4. \A d \in Docs : CollectionOf[d] \in legacy <=> CollectionOf[d] \in Had
    BY <1>1 DEF SchemaOK
<1>5. \A d \in Unplaceable : main[d] = None /\ (kept[d] # None => d \in rejects)
    BY <1>1, CollectionsAssumption, DocsHaveTables DEF SchemaOK, RejectsOK
<1>6. TypeOK'
    <2>1. main' \in [Docs -> Doc]
        BY <1>2 DEF Rollback, TypeOK, Doc
    <2>2. table' \in [Relations -> {"none", "generic", "typed"}]
        BY DEF Rollback, TypeOK
    <2>3. kept' \in [Docs -> Doc] /\ marker' \in BOOLEAN
        BY <1>1 DEF NoDocs, Doc, TypeOK
    <2> QED BY <1>1, <2>1, <2>2, <2>3 DEF TypeOK
<1>7. SchemaOK'
    BY <1>1, <1>3 DEF SchemaOK
<1>8. RejectsOK'
    <2> SUFFICES ASSUME NEW d \in Docs
                 PROVE  RejectsOK!(d)'
        BY DEF RejectsOK
    <2>1. CollectionOf[d] \in Collections
        BY CollectionsAssumption
    <2>2. kept'[d] = None
        BY <1>1 DEF NoDocs
    <2>3. main'[d] # None => table'[CollectionOf[d]] # "none"
        BY <1>1, <1>2, <1>3, <1>4, <2>1, DocsHaveTables DEF SchemaOK, TypedTables
    <2>4. d \in Unplaceable /\ main'[d] # None => table'[CollectionOf[d]] = "generic"
        BY <1>2, <1>3, <1>4, <1>5, <2>1, DocsHaveTables
    <2>5. d \in Unplaceable => last'[d] # Deleted
        BY <1>1 DEF RejectsOK
    <2> QED BY <2>2, <2>3, <2>4, <2>5
<1>9. \A d \in Docs : Held(d)'
    <2> TAKE d \in Docs
    <2>1. Holder(d)' = main'[d]
        BY <1>1 DEF Holder
    <2>2. CASE d \in Unplaceable
        <3>1. Holder(d) = kept[d] /\ last[d] # Deleted
            BY <1>1, <2>2 DEF Holder, RejectsOK
        <3>2. last[d] \in Nat => main'[d] = kept[d]
            BY <1>2, <1>4, <1>5, <2>2, <3>1 DEF Held, RejectsOK
        <3> QED BY <1>1, <2>1, <3>1, <3>2 DEF Held
    <2>3. CASE d \notin Unplaceable
        <3>1. Holder(d) = main[d] /\ d \notin rejects
            BY <1>1, <2>3 DEF Holder, TypeOK
        <3>2. last[d] \in Nat => main'[d] = main[d]
            BY <1>2, <1>4, <3>1 DEF Held
        <3>3. main'[d] = main[d] \/ main'[d] = None
            BY <1>2, <3>1
        <3> QED BY <1>1, <2>1, <3>1, <3>2, <3>3 DEF Held
    <2> QED BY <2>2, <2>3
<1>10. MarkerOK'
    <2> SUFFICES ASSUME marker, Creatable', NEW d \in Docs
                 PROVE  Here(d)'
        BY <1>1 DEF MarkerOK
    <2>1. TypedTables \subseteq Had
        BY <1>1, <1>3, CollectionsAssumption DEF SchemaOK, Creatable, TypedTables, Relations
    <2>2. CASE d \in Unplaceable \/ CollectionOf[d] \notin Typed \cup Had
        BY <1>1, <2>2 DEF Here, SetAside
    <2>3. CASE d \notin Unplaceable /\ CollectionOf[d] \in Typed \cup Had
        <3>1. main'[d] = main[d]
            BY <1>2, <1>4, <2>1, <2>3 DEF TypeOK, TypedTables
        <3>2. Here(d)
            BY <1>1 DEF MarkerOK
        <3> QED BY <1>1, <2>3, <3>1, <3>2 DEF Here, SetAside, Found, TypeOK
    <2> QED BY <2>2, <2>3
<1>11. LockOK' /\ CopyOK'
    BY <1>1 DEF LockOK, CopyOK
<1> QED BY <1>6, <1>7, <1>8, <1>9, <1>10, <1>11

-----------------------------------------------------------------------------

LEMMA InitInv == Init => IInv
<1> SUFFICES ASSUME Init
             PROVE  IInv
    OBVIOUS
<1>1. /\ main \in [Docs -> {None, Row(0, 0), Row(1, 2)}]
      /\ \A d \in Docs : /\ marker => main[d] # None
                         /\ CollectionOf[d] \notin Had => main[d] = None
    BY DEF Init
<1>2. /\ Row(0, 0) \in Doc /\ Row(1, 2) \in Doc
      /\ Row(1, 2) # None /\ Row(1, 2).value = 1 /\ Row(1, 2).version = 2
    BY NoneAssumption DEF Row, Doc
<1>3. \A d \in Docs : last[d] = IF main[d] = Row(1, 2) THEN 1 ELSE None
    BY DEF Init
<1>4. \A p \in Procs : proc[p] = Down
    BY DEF Init
<1>5. TypeOK
    <2>1. main \in [Docs -> Doc] /\ kept \in [Docs -> Doc]
        BY <1>1, <1>2 DEF Init, Doc, NoDocs
    <2>2. proc \in [Procs -> Process]
        BY DownIsProcess DEF Init
    <2>3. last \in [Docs -> {None, Deleted} \cup Nat]
        BY DEF Init
    <2>4. table \in [Relations -> {"none", "generic", "typed"}]
        BY DEF Init
    <2>5. /\ legacy = {} /\ rejects = {} /\ applied = 0 /\ writes = 1
          /\ backup \in BOOLEAN /\ marker \in BOOLEAN
          /\ firestore \in [Docs -> Nat]
        BY DEF Init
    <2> QED BY <2>1, <2>2, <2>3, <2>4, <2>5 DEF TypeOK
<1>6. SchemaOK
    BY CollectionsAssumption DEF Init, SchemaOK
<1>7. \A d \in Docs : CollectionOf[d] \in Had => table[CollectionOf[d]] = "generic"
    BY CollectionsAssumption DEF Init, Relations
<1>8. RejectsOK
    <2>1. \A d \in Docs : kept[d] = None /\ last[d] # Deleted
        BY <1>3, NoneAssumption DEF Init, NoDocs, Deleted
    <2> QED BY <1>1, <1>7, <2>1 DEF Init, RejectsOK
<1>9. \A d \in Docs : Held(d)
    <2> TAKE d \in Docs
    <2>1. Holder(d) = main[d] /\ last[d] # Deleted
        BY <1>3, NoneAssumption DEF Init, Holder, Deleted
    <2>2. last[d] \in Nat => main[d] = Row(1, 2) /\ last[d] = 1
        BY <1>3, NoneAssumption
    <2> QED BY <1>1, <1>2, <2>1, <2>2 DEF Held
<1>10. MarkerOK
    BY <1>1 DEF Init, MarkerOK, Here, SetAside, Found
<1>11. LockOK /\ CopyOK
    BY <1>4, NoneAssumption DEF Init, LockOK, CopyOK, Down
<1> QED BY <1>5, <1>6, <1>8, <1>9, <1>10, <1>11 DEF IInv

LEMMA StepInv == IInv /\ [Next]_vars => IInv'
<1> SUFFICES ASSUME IInv, [Next]_vars
             PROVE  IInv'
    OBVIOUS
<1>1. ASSUME NEW p \in Procs, Advance(p)
      PROVE  IInv'
    BY <1>1, LockStep, TypedSchemaStep, ImportLegacyStep, TripSeatsStep, UnlockStep, ReadMarkerStep,
       ReadPageStep, ImportPageStep, SetMarkerStep, CopyEndsStep DEF Advance
<1>2. ASSUME NEW p \in Procs, Start(p) \/ AdminCopies(p) \/ Crash(p) \/ Stop(p) \/ Fail(p)
      PROVE  IInv'
    BY <1>2, StartStep, AdminCopiesStep, CrashStep, StopStep, FailStep
<1>3. ASSUME NEW p \in Procs, NEW d \in Docs, Write(p, d) \/ Delete(p, d)
      PROVE  IInv'
    BY <1>3, WriteStep, DeleteStep
<1>4. ASSUME NEW d \in Docs, OlderWrites(d) \/ OldWebsite(d)
      PROVE  IInv'
    BY <1>4, OlderWritesStep, OldWebsiteStep
<1>5. ASSUME UNCHANGED vars
      PROVE  IInv'
    <2>1. UNCHANGED <<schema, rows, marker, last>> /\ UNCHANGED <<lock, firestore, proc, writes>>
        BY <1>5 DEF vars, outside, bounds
    <2>2. /\ SchemaOK' /\ RejectsOK' /\ MarkerOK'
          /\ \A d \in Docs : Held(d)' /\ (Here(d) => Here(d)')
        BY <2>1, DataStands DEF IInv
    <2>3. TypeOK' /\ LockOK' /\ CopyOK'
        BY <2>1, <2>2 DEF IInv, TypeOK, LockOK, CopyOK, schema, rows
    <2> QED BY <2>2, <2>3 DEF IInv
<1> QED BY <1>1, <1>2, <1>3, <1>4, <1>5, RollbackStep DEF Next

LEMMA Invariance == Spec => []IInv
BY InitInv, StepInv, PTL DEF Spec

\* No acknowledged write is lost by migrations, copies, rollbacks, crashes and
\* reruns, for any processes, documents and collections.
THEOREM NoWriteIsLost == Spec => []WritesKept
<1>1. IInv => WritesKept
    <2> SUFFICES ASSUME IInv, NEW d \in Docs, last[d] # None
                 PROVE  WritesKept!(d)
        BY DEF WritesKept
    <2>1. last[d] = Deleted \/ last[d] \in Nat
        BY DEF IInv, TypeOK
    <2>2. Held(d) /\ (d \in Unplaceable => last[d] # Deleted)
        BY DEF IInv, RejectsOK
    <2>3. applied \in 2..3 /\ d \in Unplaceable /\ kept[d] # None => d \in rejects
        BY DEF IInv, RejectsOK
    <2>4. applied = 1 => main[d] = None
        BY DEF IInv, SchemaOK, NoDocs
    <2>5. applied \in 0..3
        BY DEF IInv, TypeOK
    <2> QED BY <2>1, <2>2, <2>3, <2>4, <2>5, NoneAssumption DEF Held, Holder, Found, Deleted
<1> QED BY <1>1, Invariance, PTL

\* Whoever answers requests has every document that Firestore or the older release
\* had, however often the copy has stopped half-way.
THEOREM ServersHaveEverything == Spec => []CopyComplete
<1>1. IInv => CopyComplete
    BY DEF IInv, CopyComplete, LockOK, MarkerOK, Here
<1> QED BY <1>1, Invariance, PTL

\* Where the older release had a table for every collection of the registry, and one
\* for system too, no start fails on what another one or the rollback has left: 001
\* finds no typed table in its way (startup_again shows that the condition is needed).
THEOREM StartsDoNotStumble ==
    ASSUME TypedTables \subseteq Had
    PROVE  Spec => []MigratesAgain
<1>1. Init => MigratesAgain
    <2> SUFFICES ASSUME Init, NEW p \in Procs
                 PROVE  proc[p].pc # "broken"
        BY DEF MigratesAgain
    <2>1. proc[p] = Down
        BY DEF Init
    <2> QED BY <2>1 DEF Down
<1>2. IInv /\ MigratesAgain /\ [Next]_vars => MigratesAgain'
    <2> SUFFICES ASSUME IInv, MigratesAgain, [Next]_vars, NEW o \in Procs
                 PROVE  proc'[o].pc # "broken"
        BY DEF MigratesAgain
    <2>1. proc \in [Procs -> Process] /\ proc[o].pc # "broken"
        BY DEF IInv, TypeOK, MigratesAgain
    <2>2. ASSUME NEW p \in Procs
          PROVE  ~Stuck(p)
        <3>1. proc[p].pc = "migrate" => proc[p].at = applied
            BY DEF IInv, LockOK
        <3>2. applied = 0 => Creatable
            BY CollectionsAssumption DEF IInv, SchemaOK, Creatable, TypedTables, Relations
        <3> QED BY <3>1, <3>2 DEF Stuck
    <2>3. ASSUME NEW p \in Procs, Advance(p)
          PROVE  proc'[o].pc # "broken"
        <3>1. CASE Lock(p)
            BY <2>1, <3>1 DEF Lock, Process
        <3>2. CASE TypedSchema(p) \/ ImportLegacy(p) \/ TripSeats(p)
            BY <2>1, <3>2 DEF TypedSchema, ImportLegacy, TripSeats, Applies, Process
        <3>3. CASE Unlock(p)
            BY <2>1, <3>3 DEF Unlock, Process
        <3>4. CASE ReadMarker(p)
            BY <2>1, <3>4 DEF ReadMarker, Process
        <3>5. CASE ReadPage(p)
            BY <2>1, <3>5 DEF ReadPage, Process
        <3>6. CASE ImportPage(p)
            BY <2>1, <3>6 DEF ImportPage, Process
        <3>7. CASE SetMarker(p) \/ CopyEnds(p)
            BY <2>1, <3>7 DEF SetMarker, CopyEnds, Process
        <3> QED BY <2>3, <3>1, <3>2, <3>3, <3>4, <3>5, <3>6, <3>7 DEF Advance
    <2>4. ASSUME NEW p \in Procs, Start(p) \/ AdminCopies(p) \/ Crash(p) \/ Stop(p)
          PROVE  proc'[o].pc # "broken"
        <3>1. CASE Start(p)
            BY <2>1, <3>1 DEF Start, Process
        <3>2. CASE AdminCopies(p)
            BY <2>1, <3>2 DEF AdminCopies, Process
        <3>3. CASE Crash(p) \/ Stop(p)
            <4>1. proc'[o] = IF o = p THEN Down ELSE proc[o]
                BY <2>1, <3>3 DEF Crash, Stop
            <4> QED BY <2>1, <4>1 DEF Down
        <3> QED BY <2>4, <3>1, <3>2, <3>3
    <2>5. ASSUME NEW p \in Procs, Fail(p)
          PROVE  proc'[o].pc # "broken"
        <3>1. proc'[o] = IF o = p THEN [Down EXCEPT !.pc = IF proc[p].serving THEN "ready" ELSE "failed",
                                                    !.serving = proc[p].serving]
                                  ELSE proc[o]
            BY <2>1, <2>2, <2>5 DEF Fail
        <3> QED BY <2>1, <3>1 DEF Down
    <2>6. ASSUME UNCHANGED proc
          PROVE  proc'[o].pc # "broken"
        BY <2>1, <2>6
    <2> QED BY <2>3, <2>4, <2>5, <2>6 DEF Next, vars, Write, Delete, OlderWrites, OldWebsite, Rollback
<1> QED BY <1>1, <1>2, Invariance, PTL DEF Spec
=============================================================================
