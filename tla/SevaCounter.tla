----------------------------- MODULE SevaCounter -----------------------------
(***************************************************************************)
(* Places in a seva: countRegistered of a sevas document against the       *)
(* seva_registrations documents of its volunteers.  The handlers join,     *)
(* cancel, markAttendance and create of services/seva.service.js run with  *)
(* the browser's commits (dataApi.dbCommit under the sevas and             *)
(* seva_registrations policies), each a transaction of db/store.           *)
(*                                                                         *)
(* A transaction locks each document it reads before it reads it and keeps *)
(* the locks to its end; its writes, all to documents it read, are sent    *)
(* and committed after the last read.  join locks the seva first, cancel   *)
(* and markAttendance the registration first, so that they can deadlock.   *)
(***************************************************************************)
EXTENDS Integers, Sequences, FiniteSets, Relation

CONSTANTS
    Users,          \* members
    Sevas,          \* ids of sevas documents
    Callers,        \* calls served at once
    Sizes,          \* values of maxVolunteers
    Kinds,          \* the calls made, a subset of AllKinds
    None,           \* a document not created yet; no call
    Gone,           \* a seva that was deleted
    MaxAttempts,    \* runTransaction's maxAttempts
    MaxOneSided     \* bound on the commits that part the counter from the registrations

AllKinds == {"join", "cancel", "attend", "webjoin", "webleave", "roster", "stamp", "webstamp",
             "edit", "recount", "delete"}

\* Browser commits that the policies accept on one document alone: a registration's
\* status changes, or the counter, and the other one stays.
OneSided == {"stamp", "webstamp", "recount"}

\* The fields of a sevas document that matter here.
Row == [count : Int, max : Sizes]

ASSUME SevaAssumption ==
    /\ IsFiniteSet(Users)
    /\ Sevas \cap (Users \X Sevas) = {}
    /\ Sizes \subseteq Nat
    /\ Kinds \subseteq AllKinds
    /\ None \notin Row /\ Gone \notin Row /\ None # Gone
    /\ MaxAttempts \in Nat \ {0} /\ MaxOneSided \in Nat

VARIABLES
    seva,   \* [count, max] of each seva, or None or Gone
    reg,    \* status of the registration of each user for each seva
    tx,     \* the transaction of each caller
    parted  \* how many one-sided commits were sent

vars == <<seva, reg, tx, parted>>

Statuses == {"none", "registered", "completed", "cancelled"}

\* What a call is asked to do: a member's place taken or given up; a status set
\* by markAttendance, or without the seva by staff or the member; a new
\* maxVolunteers, or a new counter, from staff; a deletion.
SevaCalls ==
    [kind : Kinds \cap {"join", "cancel", "webjoin", "webleave", "roster"},
     user : Users, seva : Sevas]
    \cup [kind : Kinds \cap {"attend", "stamp"}, user : Users, seva : Sevas,
          to : {"registered", "completed", "cancelled"}]
    \cup [kind : Kinds \cap {"webstamp"}, user : Users, seva : Sevas,
          to : {"registered", "cancelled"}]
    \cup [kind : Kinds \cap {"edit"}, seva : Sevas, max : Sizes]
    \cup [kind : Kinds \cap {"recount"}, seva : Sevas, count : Sizes]
    \cup [kind : Kinds \cap {"delete"}, seva : Sevas]

\* A caller's transaction: the call, how many of its documents are locked and
\* read, what it read, and which attempt this is.
Tx == [call : SevaCalls \cup {None}, read : 0..2, sawSeva : Row \cup {None, Gone},
       sawReg : Statuses, attempt : 1..MaxAttempts]

\* A transaction that has read nothing yet.
Unread(call, attempt) == [call |-> call, read |-> 0, sawSeva |-> None, sawReg |-> "none",
                          attempt |-> attempt]

Idle == Unread(None, 1)

Exists(row) == row \notin {None, Gone}

\* markAttendance's held: "completed" still holds its place.
Held(status) == status \in {"registered", "completed"}

Volunteers(status, s) == {u \in Users : Held(status[u, s])}

-----------------------------------------------------------------------------
(* Documents and their locks *)

\* The calls that change no registration.
SevaOnly == {"edit", "recount", "delete"}

RegDoc(call) == <<call.user, call.seva>>
SevaDoc(call) == call.seva

\* The documents a call reads, in order.
Reads(call) ==
    CASE call.kind \in {"cancel", "attend"} -> <<RegDoc(call), SevaDoc(call)>>
      [] call.kind \in {"join", "webjoin", "webleave", "roster"} -> <<SevaDoc(call), RegDoc(call)>>
      [] call.kind \in {"stamp", "webstamp"} -> <<RegDoc(call)>>
      [] call.kind \in {"edit", "recount", "delete"} -> <<SevaDoc(call)>>

Running(c) == tx[c].call # None
NextDoc(c) == Reads(tx[c].call)[tx[c].read + 1]
AllRead(c) == tx[c].read = Len(Reads(tx[c].call))

\* The advisory locks a transaction holds: one of each document it read.
HoldsBug(c) == {}
Holds(c) == IF Running(c) THEN {Reads(tx[c].call)[i] : i \in 1..tx[c].read} ELSE {}

Free(c, doc) == \A d \in Callers \ {c} : doc \notin Holds(d)

-----------------------------------------------------------------------------
(* What a call does with the documents it read *)

\* A member who holds no place may take one.
MayTakeBug(status) == status # "registered"
MayTake(status) == ~Held(status)

\* The code's checks: join's and cancel's of the handler; for a browser commit
\* those of dbCommit (an update needs the document) and of the policies.
Accepted(call, row, status) ==
    \/ call.kind = "join" /\ Exists(row) /\ MayTake(status) /\ row.count < row.max
    \/ call.kind = "cancel" /\ status = "registered"
    \/ call.kind = "attend" /\ status # "none"
    \/ /\ call.kind = "webjoin"
       /\ Exists(row) /\ MayTake(status) /\ row.count + 1 <= row.max
    \/ /\ call.kind = "webleave"
       /\ Exists(row) /\ status = "registered" /\ row.count > 0 /\ row.count - 1 <= row.max
    \/ call.kind = "roster" /\ Exists(row) /\ status = "registered"
    \/ call.kind = "stamp" /\ status # "none"
    \/ /\ call.kind = "webstamp"
       /\ status = "none" => call.to = "registered"
       /\ status # "completed"
    \/ call.kind \in {"edit", "recount", "delete"} /\ Exists(row)

\* The new status of the registration.
NewStatus(call) ==
    CASE call.kind \in {"join", "webjoin"} -> "registered"
      [] call.kind \in {"cancel", "webleave", "roster"} -> "cancelled"
      [] call.kind \in {"attend", "stamp", "webstamp"} -> call.to

\* The increment of countRegistered, from the documents as they were read.
Increment(call, row, status) ==
    CASE call.kind \in {"join", "webjoin"} -> 1
      [] call.kind \in {"webleave", "roster"} -> -1
      [] call.kind = "cancel" -> IF Exists(row) /\ row.count > 0 THEN -1 ELSE 0
      [] call.kind = "attend" ->
             IF ~Exists(row) THEN 0
             ELSE IF Held(call.to) /\ ~Held(status) THEN 1
             ELSE IF Held(status) /\ ~Held(call.to) /\ row.count > 0 THEN -1
             ELSE 0
      [] OTHER -> 0

-----------------------------------------------------------------------------
\* Any set of sevas whose counters are right.
Init ==
    /\ reg \in [Users \X Sevas -> {"none", "registered"}]
    /\ \E max \in [Sevas -> Sizes \cup {None}] :
           /\ \A s \in Sevas, u \in Users : max[s] = None => reg[u, s] = "none"
           /\ seva = [s \in Sevas |-> IF max[s] = None THEN None
                                      ELSE [count |-> Cardinality(Volunteers(reg, s)),
                                            max |-> max[s]]]
    /\ tx = [c \in Callers |-> Idle]
    /\ parted = 0

\* COMMIT or ROLLBACK: the locks go with the transaction.
End(c) == tx' = [tx EXCEPT ![c] = Idle]

\* create: a new document with an id nothing refers to; its one statement takes
\* the document's lock too.
Create(s) ==
    /\ seva[s] = None /\ \A u \in Users : reg[u, s] = "none"
    /\ \A c \in Callers : s \notin Holds(c)
    /\ \E max \in Sizes \ {0} : seva' = [seva EXCEPT ![s] = [count |-> 0, max |-> max]]
    /\ UNCHANGED <<reg, tx, parted>>

Begin(c) ==
    /\ ~Running(c)
    /\ \E call \in SevaCalls :
           /\ tx' = [tx EXCEPT ![c] = Unread(call, 1)]
           /\ IF call.kind \in OneSided
              THEN parted < MaxOneSided /\ parted' = parted + 1
              ELSE UNCHANGED parted
    /\ UNCHANGED <<seva, reg>>

\* tx.get of a seva: its lock, then its row.
ReadSeva(c) ==
    LET call == tx[c].call IN
    /\ Running(c) /\ ~AllRead(c) /\ NextDoc(c) = SevaDoc(call)
    /\ Free(c, SevaDoc(call))
    /\ tx' = [tx EXCEPT ![c].read = @ + 1, ![c].sawSeva = seva[call.seva]]
    /\ UNCHANGED <<seva, reg, parted>>

\* tx.get of a registration; markAttendance stops here when there is none.
ReadReg(c) ==
    LET call == tx[c].call IN
    /\ Running(c) /\ ~AllRead(c) /\ NextDoc(c) # SevaDoc(call)
    /\ Free(c, RegDoc(call))
    /\ IF call.kind = "attend" /\ reg[RegDoc(call)] = "none"
       THEN End(c)
       ELSE tx' = [tx EXCEPT ![c].read = @ + 1, ![c].sawReg = reg[RegDoc(call)]]
    /\ UNCHANGED <<seva, reg, parted>>

\* The checks on what was read, the writes and COMMIT; or the error, or an update
\* that finds no seva, and ROLLBACK.  increment() applies to the row as it is.
Finish(c) ==
    LET call == tx[c].call
        row == tx[c].sawSeva
        status == tx[c].sawReg
        n == Increment(call, row, status)
    IN
    /\ Running(c) /\ AllRead(c)
    /\ IF ~Accepted(call, row, status) \/ ((n # 0 \/ call.kind \in {"edit", "recount"}) /\ ~Exists(seva[call.seva]))
       THEN UNCHANGED <<seva, reg>>
       ELSE /\ seva' = CASE call.kind = "edit" -> [seva EXCEPT ![call.seva].max = call.max]
                         [] call.kind = "recount" -> [seva EXCEPT ![call.seva].count = call.count]
                         [] call.kind = "delete" -> [seva EXCEPT ![call.seva] = Gone]
                         [] call.kind \notin SevaOnly /\ n # 0 ->
                                [seva EXCEPT ![call.seva].count = @ + n]
                         [] OTHER -> seva
            /\ reg' = IF call.kind \in SevaOnly THEN reg
                      ELSE [reg EXCEPT ![RegDoc(call)] = NewStatus(call)]
    /\ End(c)
    /\ UNCHANGED parted

\* The connection drops, a statement times out or the process dies.
Fail(c) ==
    /\ Running(c)
    /\ End(c)
    /\ UNCHANGED <<seva, reg, parted>>

\* c waits, through others, for itself.
WaitsFor(c, d) == c # d /\ Running(c) /\ ~AllRead(c) /\ NextDoc(c) \in Holds(d)
Deadlocked(c) == TransitiveClosure([d, e \in Callers |-> WaitsFor(d, e)], Callers)[c, c]

MayRetryBug(attempt) == attempt <= MaxAttempts
MayRetry(attempt) == attempt < MaxAttempts

NextAttemptBug(attempt) == attempt
NextAttempt(attempt) == attempt + 1

\* The database fails one transaction of a deadlock: it is run again from its
\* first read, or its error goes to the caller.
DeadlockVictim(c) ==
    /\ Deadlocked(c)
    /\ IF MayRetry(tx[c].attempt)
       THEN tx' = [tx EXCEPT ![c] = Unread(tx[c].call, NextAttempt(tx[c].attempt))]
       ELSE End(c)
    /\ UNCHANGED <<seva, reg, parted>>

-----------------------------------------------------------------------------
Proceed(c) == ReadSeva(c) \/ ReadReg(c) \/ Finish(c)

Next ==
    \/ \E s \in Sevas : Create(s)
    \/ \E c \in Callers : Begin(c) \/ Proceed(c) \/ Fail(c) \/ DeadlockVictim(c)

Spec == Init /\ [][Next]_vars

\* The database grants a lock in the order it was asked for and looks for
\* deadlocks; the server goes on with a transaction it has begun.
Fairness == \A c \in Callers : SF_vars(Proceed(c)) /\ WF_vars(DeadlockVictim(c))

FairSpec == Spec /\ Fairness

-----------------------------------------------------------------------------
(* Properties *)

\* Every document and every transaction has its type; a call is never tried
\* more than maxAttempts times.
TypeOK ==
    /\ seva \in [Sevas -> Row \cup {None, Gone}]
    /\ reg \in [Users \X Sevas -> Statuses]
    /\ tx \in [Callers -> Tx]
    /\ parted \in 0..MaxOneSided

\* "sevas.countRegistered == #registrations in (registered, completed)"
\* (SCHEMA_INVENTORY.md:402).
CounterMatches ==
    \A s \in Sevas :
        Exists(seva[s]) => seva[s].count = Cardinality(Volunteers(reg, s))

\* The call that c has just ended.
Ends(c) == Running(c) /\ tx'[c].call = None

\* "Keep countRegistered in step when a seat is freed or re-taken"
\* (seva.service.js:126): whatever joins, cancellations, attendance marks, edits and
\* deadlocks run at once, the counter moves with the number of registrations that
\* hold a place, except by the commits that the policies accept on one of the two
\* alone.  What such a commit has parted stays parted: a counter that has come down to
\* zero is left there by cancel and markAttendance, whoever still holds a place.
CounterInStep ==
    [][\A s \in Sevas :
           /\ Exists(seva[s]) /\ Exists(seva'[s])
           /\ ~\E c \in Callers : Ends(c) /\ tx[c].call.kind \in OneSided
           => LET held == Cardinality(Volunteers(reg, s))
                  after == Cardinality(Volunteers(reg', s))
              IN  \/ seva'[s].count - seva[s].count = after - held
                  \/ seva'[s].count = seva[s].count /\ seva[s].count <= 0 /\ after < held]_vars

\* A document is locked by one transaction at a time.
OneHolder == \A c, d \in Callers : c # d => Holds(c) \cap Holds(d) = {}

\* What a transaction read and still has locked is what the document holds.
SawCurrent ==
    \A c \in Callers :
        LET call == tx[c].call IN
        IF Running(c)
        THEN /\ tx[c].read <= Len(Reads(call))
             /\ SevaDoc(call) \in Holds(c) => tx[c].sawSeva = seva[SevaDoc(call)]
             /\ call.kind \notin SevaOnly /\ RegDoc(call) \in Holds(c) =>
                    tx[c].sawReg = reg[RegDoc(call)]
        ELSE tx[c].read = 0

\* The inductive invariants: of the documents, and, before any one-sided commit,
\* with the counters.
SafeReads == TypeOK /\ OneHolder /\ SawCurrent
NotParted == parted = 0 => CounterMatches /\ \A c \in Callers : tx[c].call # None => tx[c].call.kind \notin OneSided
IInv == SafeReads /\ NotParted

\* A member who joins never takes a place that, by the counter, is not there: only
\* staff marking attendance, or setting the counter, take it beyond maxVolunteers.
JoinsWithinCapacity ==
    [][\A s \in Sevas :
           /\ Exists(seva[s]) /\ Exists(seva'[s])
           /\ seva'[s].count > seva[s].count
           /\ ~\E c \in Callers : Ends(c) /\ tx[c].call.kind \in {"attend", "recount"}
           => seva'[s].count <= seva'[s].max]_vars

\* A registration staff marked completed is never overwritten by the member's own
\* join or cancellation, in the browser or on the server, begun before the mark.
CompletedStands ==
    [][\A p \in Users \X Sevas :
           reg[p] = "completed" /\ reg'[p] # "completed" =>
               \E c \in Callers : Ends(c) /\ tx[c].call.kind \in {"attend", "stamp"}]_vars

\* Every call ends: the deadlocks of join with cancel and markAttendance are
\* broken, and retried only so often.
EveryCallEnds == \A c \in Callers : Running(c) ~> ~Running(c)
=============================================================================
