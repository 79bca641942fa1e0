----------------------------- MODULE MCDocStore -----------------------------
(* An instance for TLC of DocStore, with queries on it, and beside it one of   *)
(* SevaCounter, whose calls are answered too: they share no document, and a    *)
(* behaviour is one of one of them while the other stands still.               *)
EXTENDS Query, TLC

CONSTANTS Users, Sevas, Sizes, Kinds, Gone, MaxOneSided

VARIABLES part, seva, reg, sevaTx, parted

Seva == INSTANCE SevaCounter WITH Callers <- Clients, tx <- sevaTx

\* Of the calls on a seva that lock the same documents in the same order, one or two.
MCKinds == {"join", "roster", "cancel", "attend", "stamp", "delete"}

sevaVars == <<seva, reg, sevaTx, parted>>

MCRank == ("d1" :> 1) @@ ("d2" :> 2)
MCCollectionOf == [d \in Docs |-> "users"]

Write(type, d, data) == [type |-> type, doc |-> d, data |-> data]
Call(kind, expects, writes) == [kind |-> kind, expects |-> expects, writes |-> writes]

\* Numbers are counted in halves: the column allows zero and one, its SQL type the
\* whole numbers from -1 to 2.
MCColumn == {0, 2}
MCSqlInts == {-2, 0, 2, 4}

MCOperands == {Num(-2), Num(0), Num(1), Num(2), Num(4), Num(6), Text, Null}
MCLists == {{}, {Num(0), Num(4)}, {Num(1), Num(2), Text}, {Num(-2), Null}}

N(o) == "n" :> o        \* a patch of the typed field
X(o) == "x" :> o        \* a patch of a field without a column

MCCalls == {
    \* A browser changes a counter it has read, with another document.
    Call("commit", {"d1"}, <<Write("update", "d1", N(Increment(2))), Write("set", "d2", X(To(Text)))>>),
    \* A browser deletes a document, after reading the other one.
    Call("commit", {"d2"}, <<Write("delete", "d1", X(Clear))>>),
    \* createEvent: two documents in one INSERT.
    Call("batch", {}, <<Write("create", "d2", N(To(Text))), Write("create", "d1", N(To(Num(2))))>>),
    \* Blind updates of several documents.
    Call("batch", {}, <<Write("update", "d2", X(Union({1}))), Write("merge", "d1", N(To(Num(-2))))>>),
    \* Single writes: values a column cannot hold, nulls, deleted fields, nested
    \* fields.
    Call("single", {}, <<Write("create", "d1", X(To(Null)))>>),
    Call("single", {}, <<Write("merge", "d1", N(To(Text)) @@ X(To(Null)))>>),
    Call("single", {}, <<Write("update", "d1", N(Increment(2)) @@ X(Clear))>>),
    Call("single", {}, <<Write("update", "d1", X(Dotted("a")))>>) }

-----------------------------------------------------------------------------
\* Of the part that stands still, one state is enough.
MCInit ==
    /\ part \in {"store", "seva"}
    /\ Init /\ Seva!Init
    /\ part = "store" => \A s \in Sevas : seva[s] = None

MCNext ==
    \/ part = "store" /\ Next /\ UNCHANGED <<part, sevaVars>>
    \/ part = "seva" /\ Seva!Next /\ UNCHANGED <<part, vars>>

\* That of either: whichever part runs, the caller goes on.
Goes(c) ==
    \/ part = "store" /\ Proceed(c) /\ UNCHANGED sevaVars
    \/ part = "seva" /\ Seva!Proceed(c) /\ UNCHANGED vars

Victim(c) ==
    \/ part = "store" /\ DeadlockVictim(c) /\ UNCHANGED sevaVars
    \/ part = "seva" /\ Seva!DeadlockVictim(c) /\ UNCHANGED vars

MCFairness ==
    \A c \in Clients : SF_<<vars, sevaVars>>(Goes(c)) /\ WF_<<vars, sevaVars>>(Victim(c))

MCSpec == MCInit /\ [][MCNext]_<<part, vars, sevaVars>> /\ MCFairness

\* Every call on a seva comes to an end (join, cancel, markAttendance, dbCommit).
EveryCallEnds == Seva!EveryCallEnds
=============================================================================
