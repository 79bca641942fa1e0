---------------------------- MODULE TripCapacity ----------------------------
(***************************************************************************)
(* Seats of a yatra: the triggers of db/migrations/003_trip_capacity.sql,  *)
(* run by commits of db/store (runTransaction, the advisory lock each read *)
(* and write of a document takes, deadlocks and retries) on the            *)
(* trip_registrations and trips documents that dbCommit, confirmTripSeat   *)
(* and the staff write.                                                    *)
(*                                                                         *)
(* The database runs at READ COMMITTED: a statement sees what is committed *)
(* when it starts and what its own transaction wrote.  A step below is one *)
(* lock acquired together with the reads and writes that follow it without *)
(* waiting, so that every point where a transaction can be made to wait is *)
(* between two steps.                                                      *)
(***************************************************************************)
EXTENDS Integers, Sequences, FiniteSets, Functions, Relation

CONSTANTS
    Regs,           \* ids of trip_registrations documents
    Trips,          \* ids of trips documents
    Txs,            \* concurrent transactions (connections of the pool)
    None,           \* no row, no value
    TripOf,         \* the trip of each registration
    SeatsOf,        \* the seats column of each registration: None, or an integer
    Caps,           \* what a trip write may store: a capacity, or None to delete
    Commits,        \* the write lists a client may commit
    MaxAttempts     \* runTransaction's maxAttempts

ASSUME CapacityAssumption ==
    /\ Regs \cap Trips = {} /\ IsFiniteSet(Regs)
    /\ TripOf \in [Regs -> Trips]
    /\ \A r \in Regs : SeatsOf[r] \in Int \cup {None}
    /\ Caps \subseteq Int \cup {None}
    /\ MaxAttempts \in Nat \ {0}

VARIABLES
    booking,    \* committed status of each registration
    cap,        \* committed capacity of each trip, None when it has no row
    taken,      \* committed seats_taken of each trip
    tx          \* the transactions in flight

vars == <<booking, cap, taken, tx>>

Statuses == {"none", "pending", "confirmed", "waitlisted", "cancelled"}
Docs == Regs \cup Trips
Locks == {"doc", "row"} \X Docs

\* The commits of this model write each of their documents once.
ASSUME CommitAssumption ==
    \A ws \in Commits :
        /\ ws \in Seq(Range(ws))
        /\ \A i \in 1..Len(ws) :
               /\ ws[i].doc \in Docs
               /\ ws[i].doc \in Regs => ws[i].to \in Statuses
               /\ ws[i].doc \in Trips => ws[i].to \in Caps
               /\ \A j \in 1..Len(ws) : ws[i].doc = ws[j].doc => i = j

\* A transaction: the writes it was given, the locks it holds (advisory "doc"
\* locks and "row" locks on trips), how many of its documents are read and how
\* many of its writes applied, the seats_taken it has written, and which attempt
\* this is.
NoTx == [pc |-> "idle", writes |-> <<>>, locks |-> {}, read |-> 0, done |-> 0,
         sums |-> [t \in Trips |-> None], attempt |-> 1]

-----------------------------------------------------------------------------
(* Seats *)

\* folk_reg_seats: parseInt(seats) || 1, never less than 1.
RegSeats(seats) == IF seats = None \/ seats < 1 THEN 1 ELSE seats

\* folk_reg_held
Held(status) == status \in {"pending", "confirmed"}

\* folk_trip_seats_taken
SeatsTaken(status, t) ==
    SumFunctionOnSet([r \in Regs |-> RegSeats(SeatsOf[r])],
                     {r \in Regs : TripOf[r] = t /\ Held(status[r])})

ASSUME SumAssumption ==
    \A status \in [Regs -> Statuses], t \in Trips : SeatsTaken(status, t) # None

Unlimited(capacity) == capacity <= 0

\* The rows as transaction x sees them: the committed ones and its own writes.
Applied(x) == {tx[x].writes[i] : i \in 1..tx[x].done}
Seen(x) == [r \in Regs |-> IF \E w \in Applied(x) : w.doc = r
                           THEN (CHOOSE w \in Applied(x) : w.doc = r).to
                           ELSE booking[r]]

-----------------------------------------------------------------------------
Init ==
    /\ booking \in [Regs -> {"none", "pending"}]
    /\ cap \in [Trips -> Caps]
    /\ taken = [t \in Trips |-> SeatsTaken(booking, t)]
    /\ tx = [x \in Txs |-> NoTx]

Free(x, lock) == \A y \in Txs \ {x} : lock \notin tx[y].locks
Obtain(x, locks) == \A lock \in locks : Free(x, lock)

\* Locks of a finished transaction are released with it, by COMMIT or ROLLBACK.
EndedBug(x) == [NoTx EXCEPT !.locks = tx[x].locks]
Ended(x) == NoTx

\* ROLLBACK, and the error goes to the caller.
Refuse(x) == tx' = [tx EXCEPT ![x] = Ended(x)]

Current(x) == tx[x].writes[tx[x].done + 1]

\* After a write: the next one, or COMMIT.
NextPc(x) == IF tx[x].done + 1 = Len(tx[x].writes) THEN "commit" ELSE "write"

-----------------------------------------------------------------------------
(* runTransaction: the reads of dbCommit *)

Begin(x) ==
    /\ tx[x].pc = "idle"
    /\ \E ws \in Commits : tx' = [tx EXCEPT ![x].pc = "read", ![x].writes = ws]
    /\ UNCHANGED <<booking, cap, taken>>

\* What the policy and the write type allow: a booking is created pending; one
\* that exists may move to any status (staff) or be deleted; a trip is created
\* when it is missing, else changed or deleted.
Allowed(w) ==
    IF w.doc \in Regs
    THEN IF booking[w.doc] = "none" THEN w.to = "pending" ELSE w.to # booking[w.doc]
    ELSE w.to # cap[w.doc]

\* tx.get: the advisory lock of the next document, then its row.  With the
\* last one read, the whole commit is checked.
ReadDoc(x) ==
    LET ws == tx[x].writes
        lock == <<"doc", ws[tx[x].read + 1].doc>>
        last == tx[x].read + 1 = Len(ws)
    IN
    /\ tx[x].pc = "read"
    /\ Free(x, lock)
    /\ IF last /\ \E i \in 1..Len(ws) : ~Allowed(ws[i])
       THEN Refuse(x)
       ELSE tx' = [tx EXCEPT ![x].locks = @ \cup {lock},
                             ![x].read = @ + 1,
                             ![x].pc = IF last THEN "write" ELSE "read"]
    /\ UNCHANGED <<booking, cap, taken>>

-----------------------------------------------------------------------------
(* The triggers on trip_registrations *)

\* The row lock of a trip; a missing row has nothing to lock.
RowLock(t) == IF cap[t] = None THEN {} ELSE {<<"row", t>>}

\* SELECT .. FOR UPDATE before the check.
CheckLockBug(t) == {}
CheckLock(t) == RowLock(t)

\* SELECT .. FOR UPDATE before the recount.
SyncLockBug(t) == {}
SyncLock(t) == RowLock(t)

\* The write holds more seats than the booking did before it.
TakesMore(w) == Held(w.to) /\ ~Held(booking[w.doc])

\* The booking fits: the trip is missing, unlimited, or has the seats left.
Fits(x, w) ==
    LET t == TripOf[w.doc] IN
    \/ cap[t] = None
    \/ Unlimited(cap[t])
    \/ SeatsTaken([Seen(x) EXCEPT ![w.doc] = "none"], t) + RegSeats(SeatsOf[w.doc]) <= cap[t]

\* folk_trip_registration_capacity (BEFORE), then the row itself.
CheckCapacity(x) ==
    LET w == Current(x)
        locks == IF TakesMore(w) THEN CheckLock(TripOf[w.doc]) ELSE {}
    IN
    /\ tx[x].pc = "write"
    /\ w.doc \in Regs
    /\ Obtain(x, locks)
    /\ IF TakesMore(w) /\ ~Fits(x, w)
       THEN Refuse(x)
       ELSE tx' = [tx EXCEPT ![x].locks = @ \cup locks, ![x].pc = "sync"]
    /\ UNCHANGED <<booking, cap, taken>>

\* folk_trip_registration_sync (AFTER): seats_taken is recounted with the trip
\* row locked.
SyncTrip(x) ==
    LET w == Current(x)
        t == TripOf[w.doc]
        locks == SyncLock(t)
    IN
    /\ tx[x].pc = "sync"
    /\ Obtain(x, locks)
    /\ tx' = [tx EXCEPT
           ![x].locks = @ \cup locks,
           ![x].sums[t] = IF cap[t] = None THEN None
                          ELSE SeatsTaken([Seen(x) EXCEPT ![w.doc] = w.to], t),
           ![x].done = @ + 1,
           ![x].pc = NextPc(x)]
    /\ UNCHANGED <<booking, cap, taken>>

\* A write to the trip: its row is locked (a new one is seen by nobody yet) and
\* folk_trips_seats_guard recounts seats_taken whatever the writer sent.
WriteTrip(x) ==
    LET t == Current(x).doc IN
    /\ tx[x].pc = "write"
    /\ t \in Trips
    /\ Obtain(x, RowLock(t))
    /\ tx' = [tx EXCEPT
           ![x].locks = @ \cup RowLock(t),
           ![x].sums[t] = SeatsTaken(Seen(x), t),
           ![x].done = @ + 1,
           ![x].pc = NextPc(x)]
    /\ UNCHANGED <<booking, cap, taken>>

-----------------------------------------------------------------------------
(* COMMIT, ROLLBACK and retry *)

Commit(x) ==
    LET wrote(d) == \E w \in Applied(x) : w.doc = d
        new(d) == (CHOOSE w \in Applied(x) : w.doc = d).to
    IN
    /\ tx[x].pc = "commit"
    /\ booking' = Seen(x)
    /\ cap' = [t \in Trips |-> IF wrote(t) THEN new(t) ELSE cap[t]]
    /\ taken' = [t \in Trips |-> IF tx[x].sums[t] # None THEN tx[x].sums[t] ELSE taken[t]]
    /\ tx' = [tx EXCEPT ![x] = Ended(x)]

\* The connection drops, a statement times out or the process dies.
Fail(x) ==
    /\ tx[x].pc # "idle"
    /\ Refuse(x)
    /\ UNCHANGED <<booking, cap, taken>>

\* The locks a transaction asks for next.
Wants(x) ==
    CASE tx[x].pc = "read" -> {<<"doc", tx[x].writes[tx[x].read + 1].doc>>}
      [] tx[x].pc = "write" /\ Current(x).doc \in Regs ->
             IF TakesMore(Current(x)) THEN CheckLock(TripOf[Current(x).doc]) ELSE {}
      [] tx[x].pc = "write" /\ Current(x).doc \in Trips -> RowLock(Current(x).doc)
      [] tx[x].pc = "sync" -> SyncLock(TripOf[Current(x).doc])
      [] OTHER -> {}

\* x waits for itself, through others.
Deadlocked(x) ==
    /\ ~Obtain(x, Wants(x))
    /\ TransitiveClosure([y, z \in Txs |-> y # z /\ Wants(y) \cap tx[z].locks # {}], Txs)[x, x]

\* Another attempt is left.
MayRetry(attempt) == attempt < MaxAttempts

\* The database ends a deadlock by failing one transaction of the cycle
\* (40P01): it is rolled back and run again from its first read, or given up.
DeadlockVictim(x) ==
    /\ tx[x].pc # "idle" /\ Deadlocked(x)
    /\ IF MayRetry(tx[x].attempt)
       THEN tx' = [tx EXCEPT ![x] = [Ended(x) EXCEPT !.pc = "read", !.writes = tx[x].writes,
                                                     !.attempt = tx[x].attempt + 1]]
       ELSE Refuse(x)
    /\ UNCHANGED <<booking, cap, taken>>

-----------------------------------------------------------------------------
Proceed(x) ==
    ReadDoc(x) \/ CheckCapacity(x) \/ SyncTrip(x) \/ WriteTrip(x) \/ Commit(x)

Next == \E x \in Txs : Begin(x) \/ Proceed(x) \/ Fail(x) \/ DeadlockVictim(x)

Spec == Init /\ [][Next]_vars

\* Locks are granted in the order they were asked for, so no transaction is
\* passed over forever; the database looks for deadlocks.
Fairness == \A x \in Txs : SF_vars(Proceed(x)) /\ WF_vars(DeadlockVictim(x))

FairSpec == Spec /\ Fairness

-----------------------------------------------------------------------------
(* Properties *)

\* seats_taken is the sum of the seats of the trip's pending and confirmed
\* bookings, "kept up to date by triggers": no order of concurrent bookings,
\* cancellations, trip edits and rollbacks leaves it at another value.
SeatsTakenExact ==
    \A t \in Trips : cap[t] # None => taken[t] = SeatsTaken(booking, t)

\* A commit never takes seats the trip does not have: when the seats held grow,
\* they are within the capacity (concurrent bookings "never oversell").  A trip
\* already over its capacity, because staff lowered it or it was imported so,
\* may stay over it.
NeverOversold ==
    [][\A t \in Trips :
           /\ SeatsTaken(booking', t) > SeatsTaken(booking, t)
           /\ cap'[t] # None /\ ~Unlimited(cap'[t])
           => SeatsTaken(booking', t) <= cap'[t]]_vars

\* Every commit ends, whatever the order in which transactions took their
\* locks: no wait is left that deadlock detection and the retries do not end.
EveryCommitEnds == \A x \in Txs : tx[x].pc # "idle" ~> tx[x].pc = "idle"
=============================================================================
