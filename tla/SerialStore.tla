----------------------------- MODULE SerialStore -----------------------------
(***************************************************************************)
(* What the document store promises its callers: every call (a dbCommit, a *)
(* batch, a single write) takes effect at one moment between the request   *)
(* and the answer, wholly or not at all, on the documents as they are at   *)
(* that moment.  DocStore implements it.                                   *)
(***************************************************************************)
EXTENDS Integers, Sequences, FieldOps

CONSTANTS
    Docs,           \* document paths
    Clients,        \* callers with one call at a time
    Calls           \* the calls they make: [kind, expects, writes]

VARIABLES
    docs,           \* each document: its fields and version, or None
    call,           \* each client's call, or None
    answer          \* "none", "ok", "refused" or "failed"

serialVars == <<docs, call, answer>>

Doc(d) == IF d = None THEN None ELSE d.data
Version(d) == IF d = None THEN 0 ELSE d.version

\* One write: every write of a document moves its version, which starts again
\* at 1 when the document is created.
Wrote(ds, w) ==
    IF ds = None \/ ~Applies(Doc(ds[w.doc]), w) THEN None
    ELSE [ds EXCEPT ![w.doc] =
              IF w.type = "delete" THEN None
              ELSE [data |-> Outcome(Doc(ds[w.doc]), w), version |-> Version(ds[w.doc]) + 1]]

\* The documents after the first i writes of a call; None once one does not apply.
After(ds, writes) ==
    LET after[i \in 0..Len(writes)] == IF i = 0 THEN ds ELSE Wrote(after[i - 1], writes[i])
    IN  after

\* All writes of a call in order.
Effect(ds, writes) == After(ds, writes)[Len(writes)]

\* The documents the call depends on are at the versions its caller has seen.
Expected(ds, c) == \A d \in DOMAIN call[c].seen : Version(ds[d]) = call[c].seen[d]

SerialInit ==
    /\ docs \in [Docs -> {None}]
    /\ call = [c \in Clients |-> None]
    /\ answer = [c \in Clients |-> "none"]

\* The caller reads the documents its preconditions name, and makes the call.
Ask(c) ==
    /\ call[c] = None
    /\ \E k \in Calls : call' = [call EXCEPT ![c] =
           [kind |-> k.kind, writes |-> k.writes, seen |-> [d \in k.expects |-> Version(docs[d])]]]
    /\ UNCHANGED <<docs, answer>>

\* The effect, all of it.
Perform(c) ==
    /\ call[c] # None /\ answer[c] = "none"
    /\ Expected(docs, c)
    /\ Effect(docs, call[c].writes) # None
    /\ docs' = Effect(docs, call[c].writes)
    /\ answer' = [answer EXCEPT ![c] = "ok"]
    /\ UNCHANGED call

\* No effect, because the documents do not allow it now.
RefuseCall(c) ==
    /\ call[c] # None /\ answer[c] = "none"
    /\ ~Expected(docs, c) \/ Effect(docs, call[c].writes) = None
    /\ answer' = [answer EXCEPT ![c] = "refused"]
    /\ UNCHANGED <<docs, call>>

\* No effect, because the database failed.
FailCall(c) ==
    /\ call[c] # None /\ answer[c] = "none"
    /\ answer' = [answer EXCEPT ![c] = "failed"]
    /\ UNCHANGED <<docs, call>>

Answered(c) ==
    /\ answer[c] # "none"
    /\ call' = [call EXCEPT ![c] = None]
    /\ answer' = [answer EXCEPT ![c] = "none"]
    /\ UNCHANGED docs

SerialNext ==
    \E c \in Clients : Ask(c) \/ Perform(c) \/ RefuseCall(c) \/ FailCall(c) \/ Answered(c)

SerialSpec == SerialInit /\ [][SerialNext]_serialVars
=============================================================================
