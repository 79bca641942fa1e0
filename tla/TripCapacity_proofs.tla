------------------------- MODULE TripCapacity_proofs -------------------------
(***************************************************************************)
(* Proofs about TripCapacity: the row locks that the triggers take keep    *)
(* seats_taken exact, for any bookings, trips, commits and transactions.   *)
(***************************************************************************)
EXTENDS TripCapacity, FiniteSetTheorems, WellFoundedInduction, TLAPS

-----------------------------------------------------------------------------
(* What one transaction has done, and what it sees *)

Books(T, t) == \E i \in 1..T.done : T.writes[i].doc \in Regs /\ TripOf[T.writes[i].doc] = t
WritesTrip(T, t) == \E i \in 1..T.done : T.writes[i].doc = t

\* Seen, for any transaction and any bookings.
View(T, b) == [r \in Regs |-> IF \E w \in {T.writes[i] : i \in 1..T.done} : w.doc = r
                              THEN (CHOOSE w \in {T.writes[i] : i \in 1..T.done} : w.doc = r).to
                              ELSE b[r]]

TxFields == {"pc", "writes", "locks", "read", "done", "sums", "attempt"}

\* Where a transaction is; it holds the advisory locks of what it has read.
TxOK(T) ==
    /\ DOMAIN T = TxFields /\ DOMAIN T.sums = Trips
    /\ T.read \in Nat /\ T.done \in Nat
    /\ T.pc = "idle" => T = NoTx
    /\ T.pc # "idle" => T.writes \in Commits
    /\ T.pc \in {"idle", "read"} => T.done = 0 /\ T.sums = NoTx.sums
    /\ T.pc \in {"idle", "read", "write", "sync", "commit"}
    /\ T.pc \in {"write", "sync", "commit"} => T.read = Len(T.writes) /\ T.done <= Len(T.writes)
    /\ T.pc \in {"write", "sync"} => T.done < Len(T.writes)
    /\ T.pc = "sync" => T.writes[T.done + 1].doc \in Regs
    /\ T.pc # "idle" => \A i \in 1..T.read : <<"doc", T.writes[i].doc>> \in T.locks

\* A sum that a transaction has written counts what it sees, and what it sees of
\* the trip cannot change: it holds the row, or the trip is its own and new.
SumsOK(T, b, c) ==
    \A t \in Trips :
        /\ T.sums[t] # None =>
               /\ T.sums[t] = SeatsTaken(View(T, b), t)
               /\ IF c[t] = None THEN WritesTrip(T, t) ELSE <<"row", t>> \in T.locks
        /\ WritesTrip(T, t) /\ ~(c[t] = None /\ Books(T, t)) => T.sums[t] # None
        /\ c[t] # None /\ Books(T, t) => T.sums[t] # None

Disjoint == \A x, y \in Txs : x # y => tx[x].locks \cap tx[y].locks = {}

IInv ==
    /\ booking \in [Regs -> Statuses]
    /\ DOMAIN tx = Txs /\ DOMAIN cap = Trips
    /\ \A x \in Txs : TxOK(tx[x]) /\ SumsOK(tx[x], booking, cap)
    /\ Disjoint
    /\ taken = [t \in Trips |-> taken[t]]
    /\ SeatsTakenExact

\* No booking of a missing trip is in flight together with a commit that creates
\* the trip: there is no row then whose lock they could share.
BookedAlone ==
    \A t \in Trips : cap[t] = None =>
        ~\E x, y \in Txs : WritesTrip(tx[x], t) /\ Books(tx[y], t)

LEMMA SeenIsView == ASSUME NEW x PROVE Seen(x) = View(tx[x], booking)
BY DEF Seen, View, Applied

LEMMA SameSeats ==
    ASSUME NEW s1, NEW s2, NEW t, \A r \in Regs : TripOf[r] = t => s1[r] = s2[r]
    PROVE  SeatsTaken(s1, t) = SeatsTaken(s2, t)
<1>1. {r \in Regs : TripOf[r] = t /\ Held(s1[r])} = {r \in Regs : TripOf[r] = t /\ Held(s2[r])}
    OBVIOUS
<1> QED BY <1>1 DEF SeatsTaken

\* The commits write each document once, so the view is what they wrote of it.
LEMMA ViewFields ==
    ASSUME NEW T, TxOK(T), NEW b \in [Regs -> Statuses]
    PROVE  /\ View(T, b) \in [Regs -> Statuses]
           /\ \A i \in 1..T.done : T.writes[i].doc \in Regs =>
                  View(T, b)[T.writes[i].doc] = T.writes[i].to
           /\ \A r \in Regs : (\A i \in 1..T.done : T.writes[i].doc # r) => View(T, b)[r] = b[r]
<1> DEFINE A == {T.writes[i] : i \in 1..T.done}
<1>1. \A i \in 1..T.done :
          /\ T.writes[i].doc \in Regs => T.writes[i].to \in Statuses
          /\ \A j \in 1..T.done : T.writes[i].doc = T.writes[j].doc => i = j
    <2>1. CASE T.done = 0
        BY <2>1
    <2>2. CASE T.done # 0
        <3>1. T.writes \in Commits /\ T.done <= Len(T.writes)
            BY <2>2 DEF TxOK
        <3>2. 1..T.done \subseteq 1..Len(T.writes)
            BY <3>1, CommitAssumption DEF TxOK
        <3> QED BY <3>1, <3>2, CommitAssumption
    <2> QED BY <2>1, <2>2
<1>2. ASSUME NEW i \in 1..T.done, T.writes[i].doc \in Regs
      PROVE  View(T, b)[T.writes[i].doc] = T.writes[i].to
    <2> DEFINE r == T.writes[i].doc
    <2> DEFINE w == CHOOSE w \in A : w.doc = r
    <2>1. T.writes[i] \in A
        OBVIOUS
    <2>2. w \in A /\ w.doc = r
        BY <2>1
    <2>3. w = T.writes[i]
        BY <2>2, <1>1
    <2>4. View(T, b)[r] = w.to
        BY <1>2, <2>1 DEF View
    <2> QED BY <2>3, <2>4
<1>3. ASSUME NEW r \in Regs, \A i \in 1..T.done : T.writes[i].doc # r
      PROVE  View(T, b)[r] = b[r]
    BY <1>3 DEF View
<1>4. ASSUME NEW r \in Regs PROVE View(T, b)[r] \in Statuses
    <2>1. CASE \E i \in 1..T.done : T.writes[i].doc = r
        BY <2>1, <1>1, <1>2
    <2>2. CASE \A i \in 1..T.done : T.writes[i].doc # r
        BY <2>2, <1>3
    <2> QED BY <2>1, <2>2
<1>5. View(T, b) \in [Regs -> Statuses]
    BY <1>4 DEF View
<1> QED BY <1>2, <1>3, <1>5

\* Nothing of what a transaction sees of a trip is its own when it books nothing of
\* it; the bookings of others then decide.
LEMMA OthersDecide ==
    ASSUME NEW T, TxOK(T), NEW b \in [Regs -> Statuses], NEW t \in Trips, ~Books(T, t)
    PROVE  \A r \in Regs : TripOf[r] = t => View(T, b)[r] = b[r]
BY ViewFields DEF Books

\* Bookings that agree on a trip look the same.
LEMMA SameView ==
    ASSUME NEW T, TxOK(T), NEW b1 \in [Regs -> Statuses], NEW b2 \in [Regs -> Statuses],
           NEW t \in Trips, \A r \in Regs : TripOf[r] = t => b1[r] = b2[r]
    PROVE  SeatsTaken(View(T, b1), t) = SeatsTaken(View(T, b2), t)
<1>1. ASSUME NEW r \in Regs, TripOf[r] = t PROVE View(T, b1)[r] = View(T, b2)[r]
    BY <1>1 DEF View
<1> QED BY <1>1, SameSeats

-----------------------------------------------------------------------------
(* The steps of one transaction *)

LEMMA InitOK == Init => IInv
<1> SUFFICES ASSUME Init PROVE IInv
    OBVIOUS
<1>1. /\ DOMAIN NoTx = TxFields /\ NoTx.pc = "idle" /\ NoTx.read = 0 /\ NoTx.done = 0
      /\ NoTx.sums = [t \in Trips |-> None] /\ NoTx.locks = {}
    BY DEF NoTx, TxFields
<1>2. TxOK(NoTx)
    BY <1>1 DEF TxOK
<1>3. SumsOK(NoTx, booking, cap)
    BY <1>1 DEF SumsOK, Books, WritesTrip
<1> QED BY <1>1, <1>2, <1>3 DEF Init, IInv, Disjoint, SeatsTakenExact, Statuses

\* A step of one transaction that commits nothing.
LEMMA OneTx ==
    ASSUME IInv, NEW x \in Txs, NEW T, tx' = [tx EXCEPT ![x] = T], UNCHANGED <<booking, cap, taken>>,
           TxOK(T), SumsOK(T, booking, cap),
           \A y \in Txs \ {x} : T.locks \cap tx[y].locks = {}
    PROVE  IInv'
<1>1. \A y \in Txs : tx'[y] = IF y = x THEN T ELSE tx[y]
    BY DEF IInv
<1>2. \A y \in Txs : TxOK(tx'[y]) /\ SumsOK(tx'[y], booking, cap)
    BY <1>1 DEF IInv
<1>3. Disjoint'
    BY <1>1 DEF IInv, Disjoint
<1>4. (\A y \in Txs : TxOK(tx[y]) /\ SumsOK(tx[y], booking, cap))'
    BY <1>2
<1> QED BY <1>3, <1>4 DEF IInv, SeatsTakenExact

\* A transaction that begins, or begins again, has done nothing.
LEMMA FreshOK ==
    ASSUME NEW T, DOMAIN T = TxFields, T.read = 0, T.done = 0, T.sums = NoTx.sums,
           T.pc = "idle" => T = NoTx, T.pc = "read" => T.writes \in Commits, T.pc \in {"idle", "read"},
           NEW b, NEW c
    PROVE  TxOK(T) /\ SumsOK(T, b, c)
<1>1. DOMAIN T.sums = Trips /\ \A t \in Trips : T.sums[t] = None
    BY DEF NoTx
<1>2. TxOK(T)
    BY <1>1 DEF TxOK
<1>3. SumsOK(T, b, c)
    BY <1>1 DEF SumsOK, Books, WritesTrip
<1> QED BY <1>2, <1>3

LEMMA NoTxIsFresh ==
    /\ DOMAIN NoTx = TxFields /\ NoTx.read = 0 /\ NoTx.done = 0 /\ NoTx.pc = "idle" /\ NoTx.locks = {}
    /\ \A ws, n : LET T == [NoTx EXCEPT !.pc = "read", !.writes = ws, !.attempt = n] IN
           /\ DOMAIN T = TxFields /\ T.read = 0 /\ T.done = 0 /\ T.sums = NoTx.sums /\ T.pc = "read"
           /\ T.locks = {} /\ T.writes = ws
BY DEF NoTx, TxFields

LEMMA RefuseOK ==
    ASSUME IInv, NEW x \in Txs, Refuse(x), UNCHANGED <<booking, cap, taken>>
    PROVE  IInv'
<1>1. TxOK(NoTx) /\ SumsOK(NoTx, booking, cap)
    BY NoTxIsFresh, FreshOK
<1> QED BY <1>1, NoTxIsFresh, OneTx DEF Refuse, Ended

LEMMA BeginOK == ASSUME IInv, NEW x \in Txs, Begin(x) PROVE IInv'
<1>1. PICK ws \in Commits : tx' = [tx EXCEPT ![x].pc = "read", ![x].writes = ws]
    BY DEF Begin
<1>2. tx[x] = NoTx
    BY DEF Begin, IInv, TxOK
<1> DEFINE T == [NoTx EXCEPT !.pc = "read", !.writes = ws]
<1>3. /\ DOMAIN T = TxFields /\ T.read = 0 /\ T.done = 0 /\ T.sums = NoTx.sums /\ T.pc = "read"
      /\ T.locks = {} /\ T.writes = ws
    BY DEF NoTx, TxFields
<1>4. tx' = [tx EXCEPT ![x] = T]
    BY <1>1, <1>2 DEF IInv
<1> HIDE DEF T
<1>5. TxOK(T) /\ SumsOK(T, booking, cap)
    BY <1>3, FreshOK
<1> QED BY <1>3, <1>4, <1>5, OneTx DEF Begin

LEMMA DeadlockVictimOK == ASSUME IInv, NEW x \in Txs, DeadlockVictim(x) PROVE IInv'
<1>1. CASE Refuse(x)
    BY <1>1, RefuseOK DEF DeadlockVictim
<1>2. CASE ~Refuse(x)
    <2> DEFINE T == [NoTx EXCEPT !.pc = "read", !.writes = tx[x].writes, !.attempt = tx[x].attempt + 1]
    <2>1. tx' = [tx EXCEPT ![x] = T] /\ UNCHANGED <<booking, cap, taken>>
        BY <1>2 DEF DeadlockVictim, Ended
    <2>2. tx[x].pc # "idle"
        BY DEF DeadlockVictim
    <2>3. tx[x].writes \in Commits
        BY <2>2 DEF IInv, TxOK
    <2>4. /\ DOMAIN T = TxFields /\ T.read = 0 /\ T.done = 0 /\ T.sums = NoTx.sums /\ T.pc = "read"
          /\ T.locks = {} /\ T.writes = tx[x].writes
        BY NoTxIsFresh
    <2> HIDE DEF T
    <2>5. TxOK(T) /\ SumsOK(T, booking, cap)
        BY <2>3, <2>4, FreshOK
    <2> QED BY <2>1, <2>4, <2>5, OneTx
<1> QED BY <1>1, <1>2

\* Locks that were free, and those it had, are the transaction's own.
LEMMA ObtainedAlone ==
    ASSUME IInv, NEW x \in Txs, NEW locks, Obtain(x, locks)
    PROVE  \A y \in Txs \ {x} : (tx[x].locks \cup locks) \cap tx[y].locks = {}
BY DEF IInv, Disjoint, Obtain, Free

\* A step that applies no write and keeps the sums and the locks it had.
LEMMA NothingApplied ==
    ASSUME NEW T, NEW S, NEW b, NEW c, SumsOK(T, b, c), T.locks \subseteq S.locks,
           S.done = T.done, S.writes = T.writes, S.sums = T.sums
    PROVE  SumsOK(S, b, c)
<1>1. View(S, b) = View(T, b)
    BY DEF View
<1>2. \A t \in Trips : (Books(S, t) <=> Books(T, t)) /\ (WritesTrip(S, t) <=> WritesTrip(T, t))
    BY DEF Books, WritesTrip
<1> QED BY <1>1, <1>2 DEF SumsOK

LEMMA ReadDocOK == ASSUME IInv, NEW x \in Txs, ReadDoc(x) PROVE IInv'
<1> DEFINE lock == <<"doc", tx[x].writes[tx[x].read + 1].doc>>
<1> DEFINE pc == IF tx[x].read + 1 = Len(tx[x].writes) THEN "write" ELSE "read"
<1> DEFINE T == [tx[x] EXCEPT !.locks = @ \cup {lock}, !.read = @ + 1, !.pc = pc]
<1>1. CASE Refuse(x)
    BY <1>1, RefuseOK DEF ReadDoc
<1>2. CASE tx' = [tx EXCEPT ![x].locks = @ \cup {lock}, ![x].read = @ + 1, ![x].pc = pc]
    <2>1. TxOK(tx[x]) /\ SumsOK(tx[x], booking, cap) /\ tx[x].pc = "read"
        BY DEF IInv, ReadDoc
    <2>2. tx' = [tx EXCEPT ![x] = T]
        BY <1>2 DEF IInv
    <2>3. /\ DOMAIN T = TxFields /\ T.locks = tx[x].locks \cup {lock} /\ T.read = tx[x].read + 1
          /\ T.pc = pc /\ T.done = tx[x].done /\ T.writes = tx[x].writes /\ T.sums = tx[x].sums
        BY <2>1 DEF TxOK, TxFields
    <2>4. \A y \in Txs \ {x} : T.locks \cap tx[y].locks = {}
        <3>1. Obtain(x, {lock})
            BY DEF ReadDoc, Obtain
        <3> HIDE DEF T, lock
        <3> QED BY <2>3, <3>1, ObtainedAlone
    <2> HIDE DEF T
    <2>5. TxOK(T)
        <3>1. tx[x].writes \in Commits /\ Len(tx[x].writes) \in Nat
            BY <2>1, CommitAssumption DEF TxOK
        <3>2. \A i \in 1..T.read : <<"doc", T.writes[i].doc>> \in T.locks
            BY <2>1, <2>3 DEF TxOK
        <3> QED BY <2>1, <2>3, <3>1, <3>2 DEF TxOK
    <2>6. SumsOK(T, booking, cap)
        BY <2>1, <2>3, NothingApplied
    <2> QED BY <2>2, <2>4, <2>5, <2>6, OneTx DEF ReadDoc
<1> QED BY <1>1, <1>2 DEF ReadDoc

LEMMA CheckCapacityOK == ASSUME IInv, NEW x \in Txs, CheckCapacity(x) PROVE IInv'
<1>1. CASE Refuse(x)
    BY <1>1, RefuseOK DEF CheckCapacity
<1>2. CASE ~Refuse(x)
    <2>1. PICK locks : /\ Obtain(x, locks)
                       /\ tx' = [tx EXCEPT ![x].locks = @ \cup locks, ![x].pc = "sync"]
        BY <1>2 DEF CheckCapacity
    <2> DEFINE T == [tx[x] EXCEPT !.locks = @ \cup locks, !.pc = "sync"]
    <2>2. TxOK(tx[x]) /\ SumsOK(tx[x], booking, cap) /\ tx[x].pc = "write" /\ Current(x).doc \in Regs
        BY DEF IInv, CheckCapacity
    <2>3. tx' = [tx EXCEPT ![x] = T]
        BY <2>1 DEF IInv
    <2>4. /\ DOMAIN T = TxFields /\ T.locks = tx[x].locks \cup locks /\ T.read = tx[x].read
          /\ T.pc = "sync" /\ T.done = tx[x].done /\ T.writes = tx[x].writes /\ T.sums = tx[x].sums
        BY <2>2 DEF TxOK, TxFields
    <2>5. \A y \in Txs \ {x} : T.locks \cap tx[y].locks = {}
        BY <2>1, <2>4, ObtainedAlone
    <2> HIDE DEF T
    <2>6. TxOK(T)
        BY <2>2, <2>4 DEF TxOK, Current
    <2>7. SumsOK(T, booking, cap)
        BY <2>2, <2>4, NothingApplied
    <2> QED BY <2>3, <2>5, <2>6, <2>7, OneTx DEF CheckCapacity
<1> QED BY <1>1, <1>2

\* One more write applied: what is seen of its document is what it wrote.
LEMMA OneMore ==
    ASSUME NEW T, TxOK(T), T.pc \in {"write", "sync"}, NEW S, TxOK(S), S.done = T.done + 1,
           S.writes = T.writes, NEW b \in [Regs -> Statuses]
    PROVE  LET w == T.writes[T.done + 1] IN
           /\ T.writes \in Commits
           /\ w.doc \in Docs /\ (w.doc \in Regs => w.to \in Statuses)
           /\ w.doc \in Regs => View(S, b) = [View(T, b) EXCEPT ![w.doc] = w.to]
           /\ w.doc \in Trips => View(S, b) = View(T, b)
           /\ \A t \in Trips :
                  /\ WritesTrip(S, t) <=> WritesTrip(T, t) \/ w.doc = t
                  /\ Books(S, t) <=> Books(T, t) \/ (w.doc \in Regs /\ TripOf[w.doc] = t)
<1> DEFINE w == T.writes[T.done + 1]
<1>1. /\ T.writes \in Commits /\ T.done \in Nat /\ Len(T.writes) \in Nat
      /\ T.done + 1 \in 1..Len(T.writes) /\ 1..T.done \subseteq 1..Len(T.writes)
    BY CommitAssumption DEF TxOK
<1>2. w.doc \in Docs /\ (w.doc \in Regs => w.to \in Statuses)
    BY <1>1, CommitAssumption
<1>3. \A i \in 1..T.done : T.writes[i].doc # w.doc
    <2>1. \A i \in 1..T.done : i \in 1..Len(T.writes) /\ i # T.done + 1
        BY <1>1
    <2> QED BY <1>1, <2>1, CommitAssumption
<1>4. 1..S.done = (1..T.done) \cup {T.done + 1}
    BY <1>1
<1>5. \A t \in Trips :
          /\ WritesTrip(S, t) <=> WritesTrip(T, t) \/ w.doc = t
          /\ Books(S, t) <=> Books(T, t) \/ (w.doc \in Regs /\ TripOf[w.doc] = t)
    BY <1>4 DEF WritesTrip, Books
<1>6. ASSUME NEW r \in Regs
      PROVE  View(S, b)[r] = IF r = w.doc THEN w.to ELSE View(T, b)[r]
    <2>1. CASE r = w.doc
        BY <2>1, <1>4, ViewFields
    <2>2. CASE r # w.doc /\ \A i \in 1..T.done : T.writes[i].doc # r
        <3>1. \A i \in 1..S.done : S.writes[i].doc # r
            BY <2>2, <1>4
        <3> QED BY <2>2, <3>1, ViewFields
    <2>3. CASE r # w.doc /\ \E i \in 1..T.done : T.writes[i].doc = r
        <3>1. PICK i \in 1..T.done : T.writes[i].doc = r
            BY <2>3
        <3>2. i \in 1..S.done /\ S.writes[i] = T.writes[i]
            BY <1>4
        <3> QED BY <2>3, <3>1, <3>2, ViewFields
    <2> QED BY <2>1, <2>2, <2>3
<1>7. View(S, b) \in [Regs -> Statuses] /\ View(T, b) \in [Regs -> Statuses]
    BY ViewFields
<1> HIDE DEF w
<1>8. w.doc \in Regs => View(S, b) = [View(T, b) EXCEPT ![w.doc] = w.to]
    BY <1>6, <1>7
<1>9. w.doc \in Trips => View(S, b) = View(T, b)
    BY <1>6, <1>7, CapacityAssumption
<1> QED BY <1>1, <1>2, <1>5, <1>8, <1>9 DEF w

\* The next write of a transaction is applied: t is the trip whose row it locks and
\* whose seats it counts.
LEMMA AppliedOK ==
    ASSUME IInv, NEW x \in Txs, tx[x].pc \in {"write", "sync"}, UNCHANGED <<booking, cap, taken>>,
           NEW t \in Trips, NEW sum, Obtain(x, RowLock(t)),
           tx' = [tx EXCEPT ![x].locks = @ \cup RowLock(t), ![x].sums[t] = sum,
                            ![x].done = @ + 1, ![x].pc = NextPc(x)],
           \/ /\ Current(x).doc \in Regs /\ TripOf[Current(x).doc] = t
              /\ sum = IF cap[t] = None THEN None
                       ELSE SeatsTaken([Seen(x) EXCEPT ![Current(x).doc] = Current(x).to], t)
           \/ Current(x).doc = t /\ sum = SeatsTaken(Seen(x), t)
    PROVE  IInv'
<1> DEFINE w == Current(x)
<1> DEFINE T == [tx[x] EXCEPT !.locks = @ \cup RowLock(t), !.sums[t] = sum,
                              !.done = @ + 1, !.pc = NextPc(x)]
<1>1. TxOK(tx[x]) /\ SumsOK(tx[x], booking, cap) /\ booking \in [Regs -> Statuses]
    BY DEF IInv
<1>2. tx' = [tx EXCEPT ![x] = T]
    BY DEF IInv
<1>3. /\ DOMAIN T = TxFields /\ T.locks = tx[x].locks \cup RowLock(t) /\ T.read = tx[x].read
      /\ T.pc = NextPc(x) /\ T.done = tx[x].done + 1 /\ T.writes = tx[x].writes
      /\ T.sums = [tx[x].sums EXCEPT ![t] = sum]
    BY <1>1 DEF TxOK, TxFields
<1>4. \A y \in Txs \ {x} : T.locks \cap tx[y].locks = {}
    BY <1>3, ObtainedAlone
<1>5. DOMAIN T.sums = Trips /\ T.sums[t] = sum /\ \A u \in Trips : u # t => T.sums[u] = tx[x].sums[u]
    BY <1>1, <1>3 DEF TxOK
<1> HIDE DEF T
<1>6. TxOK(T)
    <2>1. tx[x].writes \in Commits /\ Len(tx[x].writes) \in Nat
        BY <1>1, CommitAssumption DEF TxOK
    <2> QED BY <1>1, <1>3, <1>5, <2>1 DEF TxOK, NextPc
<1>7. /\ w.doc \in Docs /\ (w.doc \in Regs => w.to \in Statuses)
      /\ w.doc \in Regs => View(T, booking) = [Seen(x) EXCEPT ![w.doc] = w.to]
      /\ w.doc \in Trips => View(T, booking) = Seen(x)
      /\ \A u \in Trips :
             /\ WritesTrip(T, u) <=> WritesTrip(tx[x], u) \/ w.doc = u
             /\ Books(T, u) <=> Books(tx[x], u) \/ (w.doc \in Regs /\ TripOf[w.doc] = u)
    <2>1. Seen(x) = View(tx[x], booking)
        BY SeenIsView
    <2>2. w = tx[x].writes[tx[x].done + 1]
        BY DEF Current
    <2> HIDE DEF w
    <2> QED BY SMTT(20), <1>1, <1>3, <1>6, <2>1, <2>2, OneMore
<1>8. View(T, booking) \in [Regs -> Statuses] /\ Seen(x) \in [Regs -> Statuses]
    BY <1>1, <1>6, ViewFields, SeenIsView
<1>9. ~(w.doc \in Regs /\ w.doc \in Trips)
    BY CapacityAssumption
<1>10. \/ sum = SeatsTaken(View(T, booking), t) /\ (w.doc = t \/ cap[t] # None)
       \/ sum = None /\ cap[t] = None /\ Books(T, t)
    BY <1>7, <1>9
<1>11. SeatsTaken(View(T, booking), t) # None
    BY <1>8, SumAssumption
<1>12. cap[t] # None => <<"row", t>> \in T.locks
    BY <1>3 DEF RowLock
<1>13. ASSUME NEW u \in Trips, u # t
       PROVE  SeatsTaken(View(T, booking), u) = SeatsTaken(View(tx[x], booking), u)
    <2>1. ASSUME NEW r \in Regs, TripOf[r] = u PROVE View(T, booking)[r] = Seen(x)[r]
        BY <1>13, <2>1, <1>7, <1>8
    <2> QED BY <2>1, SameSeats, SeenIsView
<1> HIDE DEF w
<1>14. SumsOK(T, booking, cap)
    <2>1. ASSUME NEW u \in Trips, u # t
          PROVE  /\ WritesTrip(T, u) <=> WritesTrip(tx[x], u)
                 /\ Books(T, u) <=> Books(tx[x], u)
        BY <2>1, <1>7, <1>9 DEF w
    <2>2. ASSUME NEW u \in Trips, u # t
          PROVE  /\ T.sums[u] # None =>
                        /\ T.sums[u] = SeatsTaken(View(T, booking), u)
                        /\ IF cap[u] = None THEN WritesTrip(T, u) ELSE <<"row", u>> \in T.locks
                 /\ WritesTrip(T, u) /\ ~(cap[u] = None /\ Books(T, u)) => T.sums[u] # None
                 /\ cap[u] # None /\ Books(T, u) => T.sums[u] # None
        BY <1>1, <1>3, <1>5, <1>13, <2>1, <2>2 DEF SumsOK
    <2>3. /\ T.sums[t] # None =>
                 /\ T.sums[t] = SeatsTaken(View(T, booking), t)
                 /\ IF cap[t] = None THEN WritesTrip(T, t) ELSE <<"row", t>> \in T.locks
          /\ WritesTrip(T, t) /\ ~(cap[t] = None /\ Books(T, t)) => T.sums[t] # None
          /\ cap[t] # None /\ Books(T, t) => T.sums[t] # None
        BY <1>5, <1>7, <1>10, <1>11, <1>12
    <2> QED BY <2>2, <2>3 DEF SumsOK
<1> QED BY <1>2, <1>4, <1>6, <1>14, OneTx

LEMMA SyncTripOK == ASSUME IInv, NEW x \in Txs, SyncTrip(x) PROVE IInv'
<1> DEFINE t == TripOf[Current(x).doc]
<1>1. tx[x].pc = "sync" /\ Current(x).doc \in Regs
    BY DEF SyncTrip, IInv, TxOK, Current
<1>2. t \in Trips
    BY <1>1, CapacityAssumption
<1>3. PICK sum :
          /\ sum = IF cap[t] = None THEN None
                   ELSE SeatsTaken([Seen(x) EXCEPT ![Current(x).doc] = Current(x).to], t)
          /\ tx' = [tx EXCEPT ![x].locks = @ \cup RowLock(t), ![x].sums[t] = sum,
                              ![x].done = @ + 1, ![x].pc = NextPc(x)]
    BY DEF SyncTrip, SyncLock
<1>4. Obtain(x, RowLock(t)) /\ UNCHANGED <<booking, cap, taken>>
    BY DEF SyncTrip, SyncLock
<1> HIDE DEF t
<1> QED BY <1>1, <1>2, <1>3, <1>4, AppliedOK DEF t

LEMMA WriteTripOK == ASSUME IInv, NEW x \in Txs, WriteTrip(x) PROVE IInv'
<1> DEFINE t == Current(x).doc
<1>1. /\ tx[x].pc = "write" /\ t \in Trips
      /\ Obtain(x, RowLock(t)) /\ UNCHANGED <<booking, cap, taken>>
    BY DEF WriteTrip
<1>2. PICK sum :
          /\ sum = SeatsTaken(Seen(x), t)
          /\ tx' = [tx EXCEPT ![x].locks = @ \cup RowLock(t), ![x].sums[t] = sum,
                              ![x].done = @ + 1, ![x].pc = NextPc(x)]
    BY DEF WriteTrip
<1> HIDE DEF t
<1> QED BY <1>1, <1>2, AppliedOK DEF t

-----------------------------------------------------------------------------
(* COMMIT *)

LEMMA CommitOK == ASSUME IInv, BookedAlone, NEW x \in Txs, Commit(x) PROVE IInv'
<1>1. TxOK(tx[x]) /\ SumsOK(tx[x], booking, cap) /\ booking \in [Regs -> Statuses]
    BY DEF IInv
<1>2. /\ tx[x].pc = "commit" /\ tx' = [tx EXCEPT ![x] = NoTx]
      /\ booking' = View(tx[x], booking)
      /\ taken' = [t \in Trips |-> IF tx[x].sums[t] # None THEN tx[x].sums[t] ELSE taken[t]]
    BY SeenIsView DEF Commit, Ended
<1>3. DOMAIN cap' = Trips /\ \A t \in Trips : ~WritesTrip(tx[x], t) => cap'[t] = cap[t]
    BY DEF Commit, WritesTrip, Applied
<1>4. booking' \in [Regs -> Statuses]
    BY <1>1, <1>2, ViewFields
<1>5. \A y \in Txs : tx'[y] = IF y = x THEN NoTx ELSE tx[y]
    BY <1>2 DEF IInv
\* Nobody else has counted or written a trip whose existence changes.
<1>6. ASSUME NEW y \in Txs, y # x, NEW t \in Trips, WritesTrip(tx[x], t)
      PROVE  ~WritesTrip(tx[y], t)
    <2>1. ASSUME NEW z \in Txs, WritesTrip(tx[z], t) PROVE <<"doc", t>> \in tx[z].locks
        <3>1. PICK i \in 1..tx[z].done : tx[z].writes[i].doc = t
            BY <2>1 DEF WritesTrip
        <3>2. TxOK(tx[z])
            BY DEF IInv
        <3>3. tx[z].pc \in {"write", "sync", "commit"} /\ tx[z].writes \in Commits
            BY <3>1, <3>2 DEF TxOK
        <3>4. i \in 1..tx[z].read
            BY <3>1, <3>2, <3>3, CommitAssumption DEF TxOK
        <3> QED BY <3>1, <3>2, <3>3, <3>4 DEF TxOK
    <2> QED BY <1>6, <2>1 DEF IInv, Disjoint
\* Nobody else has counted a trip that this commit books.
<1>7. ASSUME NEW y \in Txs, y # x, NEW t \in Trips, tx[y].sums[t] # None
      PROVE  ~Books(tx[x], t) /\ (cap[t] # None => ~WritesTrip(tx[x], t))
    <2>1. SumsOK(tx[y], booking, cap)
        BY DEF IInv
    <2>2. CASE cap[t] = None
        BY <1>7, <2>1, <2>2 DEF SumsOK, BookedAlone
    <2>3. CASE cap[t] # None
        <3>1. <<"row", t>> \in tx[y].locks
            BY <1>7, <2>1, <2>3 DEF SumsOK
        <3>2. Books(tx[x], t) \/ WritesTrip(tx[x], t) => <<"row", t>> \in tx[x].locks
            BY <1>1, <2>3 DEF SumsOK
        <3> QED BY <1>7, <3>1, <3>2 DEF IInv, Disjoint
    <2> QED BY <2>2, <2>3
<1>8. ASSUME NEW y \in Txs PROVE TxOK(tx'[y]) /\ SumsOK(tx'[y], booking', cap')
    <2>1. CASE y = x
        BY <2>1, <1>5, NoTxIsFresh, FreshOK
    <2>2. CASE y # x
        <3>1. tx'[y] = tx[y] /\ TxOK(tx[y]) /\ SumsOK(tx[y], booking, cap)
            BY <2>2, <1>5 DEF IInv
        <3>2. ASSUME NEW t \in Trips, tx[y].sums[t] # None
              PROVE  /\ tx[y].sums[t] = SeatsTaken(View(tx[y], booking'), t)
                     /\ IF cap'[t] = None THEN WritesTrip(tx[y], t) ELSE <<"row", t>> \in tx[y].locks
            <4>1. \A r \in Regs : TripOf[r] = t => booking[r] = booking'[r]
                BY <2>2, <3>2, <1>1, <1>2, <1>7, OthersDecide
            <4>2. SeatsTaken(View(tx[y], booking), t) = SeatsTaken(View(tx[y], booking'), t)
                BY <4>1, <3>1, <1>1, <1>4, SameView
            <4>3. cap'[t] = cap[t]
                BY <2>2, <3>1, <3>2, <1>3, <1>6, <1>7 DEF SumsOK
            <4> QED BY <3>1, <3>2, <4>2, <4>3 DEF SumsOK
        <3>3. ASSUME NEW t \in Trips
              PROVE  /\ WritesTrip(tx[y], t) /\ ~(cap'[t] = None /\ Books(tx[y], t)) => tx[y].sums[t] # None
                     /\ cap'[t] # None /\ Books(tx[y], t) => tx[y].sums[t] # None
            <4>1. CASE cap'[t] = cap[t]
                BY <3>1, <4>1 DEF SumsOK
            <4>2. CASE cap'[t] # cap[t]
                <5>1. WritesTrip(tx[x], t) /\ ~WritesTrip(tx[y], t)
                    BY <2>2, <4>2, <1>3, <1>6
                <5>2. CASE cap[t] = None
                    BY <5>1, <5>2 DEF BookedAlone
                <5>3. CASE cap[t] # None
                    BY <5>1, <5>3, <3>1 DEF SumsOK
                <5> QED BY <5>1, <5>2, <5>3
            <4> QED BY <4>1, <4>2
        <3> QED BY <3>1, <3>2, <3>3 DEF SumsOK
    <2> QED BY <2>1, <2>2
<1>9. Disjoint'
    <2>1. NoTx.locks = {}
        BY DEF NoTx
    <2> QED BY <1>5, <2>1 DEF IInv, Disjoint
<1>10. ASSUME NEW t \in Trips, cap'[t] # None
       PROVE  taken'[t] = SeatsTaken(booking', t)
    <2>1. CASE tx[x].sums[t] # None
        BY <2>1, <1>1, <1>2 DEF SumsOK
    <2>2. CASE tx[x].sums[t] = None
        <3>1. ~WritesTrip(tx[x], t)
            BY <2>2, <1>1 DEF SumsOK, BookedAlone
        <3>2. cap[t] # None /\ ~Books(tx[x], t)
            BY <2>2, <3>1, <1>1, <1>3, <1>10 DEF SumsOK
        <3>3. SeatsTaken(booking', t) = SeatsTaken(booking, t)
            BY <3>2, <1>1, <1>2, OthersDecide, SameSeats
        <3> QED BY <2>2, <3>2, <3>3, <1>2 DEF IInv, SeatsTakenExact
    <2> QED BY <2>1, <2>2
<1>11. SeatsTakenExact'
    BY <1>10 DEF SeatsTakenExact
<1>12. (\A y \in Txs : TxOK(tx[y]) /\ SumsOK(tx[y], booking, cap))'
    BY <1>8
<1>13. taken' = [t \in Trips |-> taken'[t]] /\ DOMAIN tx' = Txs
    BY <1>2 DEF IInv
<1> QED BY <1>3, <1>4, <1>9, <1>11, <1>12, <1>13 DEF IInv

-----------------------------------------------------------------------------

LEMMA StepOK == ASSUME IInv, BookedAlone, [Next]_vars PROVE IInv'
<1>1. ASSUME NEW x \in Txs, Fail(x) PROVE IInv'
    BY <1>1, RefuseOK DEF Fail
<1>2. ASSUME UNCHANGED vars PROVE IInv'
    BY <1>2 DEF vars, IInv, Disjoint, SeatsTakenExact
<1> QED BY <1>1, <1>2, BeginOK, ReadDocOK, CheckCapacityOK, SyncTripOK, WriteTripOK, CommitOK,
           DeadlockVictimOK DEF Next, Proceed

\* The triggers keep seats_taken exact (003_trip_capacity.sql) under any commits,
\* crashes, deadlocks and retries: whoever counts a trip's seats holds the row
\* until its commit. The one exception is a trip that is missing: as long as it is
\* not created by one commit while another one books it.
THEOREM SeatsStayExact == Spec /\ []BookedAlone => []SeatsTakenExact
<1>1. IInv => SeatsTakenExact
    BY DEF IInv
<1> QED BY <1>1, InitOK, StepOK, PTL DEF Spec

-----------------------------------------------------------------------------
(* Sums over finite sets *)

LEMMA Least ==
    ASSUME NEW T, T \subseteq Nat, T # {}
    PROVE  \E n \in T : \A m \in T : n <= m
<1>1. PICK n \in T : \A m \in T : ~(<<m, n>> \in OpToRel(<, Nat))
    BY WFMin, NatLessThanWellFounded
<1>2. \A m \in T : ~(m < n)
    BY <1>1 DEF OpToRel
<1> QED BY <1>2

Pick(s) == CHOOSE x \in s : TRUE

\* The recursion of MapThenFoldSet, for a sum of f.
IsSum(g, f, D) ==
    g = [s \in D |-> IF s = {} THEN 0 ELSE f[Pick(s)] + g[s \ {Pick(s)}]]

Small(S, n) == {s \in SUBSET S : Cardinality(s) <= n}

LEMMA SmallSteps ==
    ASSUME NEW S, IsFiniteSet(S), NEW n \in Nat
    PROVE  /\ Small(S, n) \subseteq Small(S, n + 1)
           /\ Small(S, 0) = {{}}
           /\ \A s \in Small(S, n) : s # {} => s \ {Pick(s)} \in Small(S, n)
           /\ \A s \in Small(S, n + 1) : s # {} => s \ {Pick(s)} \in Small(S, n)
<1>1. \A s \in SUBSET S : IsFiniteSet(s) /\ Cardinality(s) \in Nat
    BY FS_Subset, FS_CardinalityType
<1>2. \A s \in SUBSET S : s # {} => Cardinality(s \ {Pick(s)}) = Cardinality(s) - 1
    <2> SUFFICES ASSUME NEW s \in SUBSET S, s # {} PROVE Cardinality(s \ {Pick(s)}) = Cardinality(s) - 1
        OBVIOUS
    <2>1. Pick(s) \in s
        BY DEF Pick
    <2> QED BY <1>1, <2>1, FS_RemoveElement
<1>3. \A s \in SUBSET S : Cardinality(s) = 0 <=> s = {}
    BY <1>1, FS_EmptySet
<1>4. Small(S, n) \subseteq Small(S, n + 1)
    BY <1>1 DEF Small
<1>5. Small(S, 0) = {{}}
    <2>1. \A s \in SUBSET S : Cardinality(s) <= 0 <=> s = {}
        BY <1>1, <1>3
    <2>2. \A s : s \in Small(S, 0) <=> s = {}
        BY <2>1 DEF Small
    <2> QED BY <2>2
<1>6. \A s \in Small(S, n) : s # {} => s \ {Pick(s)} \in Small(S, n)
    BY <1>1, <1>2 DEF Small
<1>7. \A s \in Small(S, n + 1) : s # {} => s \ {Pick(s)} \in Small(S, n)
    BY <1>1, <1>2 DEF Small
<1> QED BY <1>4, <1>5, <1>6, <1>7

LEMMA SmallSums ==
    ASSUME NEW S, IsFiniteSet(S), NEW f
    PROVE  \A n \in Nat : \E g : IsSum(g, f, Small(S, n))
<1> DEFINE T == {n \in Nat : ~\E g : IsSum(g, f, Small(S, n))}
<1> SUFFICES ASSUME T # {} PROVE FALSE
    OBVIOUS
<1>1. PICK n \in T : \A m \in T : n <= m
    BY Least
<1>2. n # 0
    <2> DEFINE g == [s \in {{}} |-> 0]
    <2>1. g = [s \in {{}} |-> IF s = {} THEN 0 ELSE f[Pick(s)] + g[s \ {Pick(s)}]]
        OBVIOUS
    <2>2. IsSum(g, f, Small(S, 0))
        BY <2>1, SmallSteps DEF IsSum
    <2> QED BY <2>2
<1>3. PICK k \in Nat : n = k + 1
    BY <1>2
<1>4. PICK g : IsSum(g, f, Small(S, k))
    BY <1>1, <1>3
<1> DEFINE next(s) == IF s = {} THEN 0 ELSE f[Pick(s)] + g[s \ {Pick(s)}]
<1> DEFINE h == [s \in Small(S, n) |-> next(s)]
<1>5. \A s \in Small(S, k) : g[s] = next(s)
    BY <1>4 DEF IsSum
<1>6. \A s \in Small(S, k) : h[s] = g[s]
    BY <1>3, <1>5, SmallSteps
<1>7. \A s \in Small(S, n) : s # {} => h[s \ {Pick(s)}] = g[s \ {Pick(s)}]
    BY <1>3, <1>6, SmallSteps
<1>8. \A s \in Small(S, n) : next(s) = IF s = {} THEN 0 ELSE f[Pick(s)] + h[s \ {Pick(s)}]
    BY <1>7
<1>9. IsSum(h, f, Small(S, n))
    BY <1>8 DEF IsSum
<1> QED BY <1>9

\* The sum is what its recursion says.
LEMMA SumRecursion ==
    ASSUME NEW S, IsFiniteSet(S), NEW f
    PROVE  \E g : /\ IsSum(g, f, SUBSET S)
                  /\ SumFunctionOnSet(f, S) = g[S]
<1>1. IsFiniteSet(S) /\ Cardinality(S) \in Nat
    BY FS_CardinalityType
<1>2. \A s \in SUBSET S : Cardinality(s) <= Cardinality(S)
    BY FS_Subset
<1>3. Small(S, Cardinality(S)) = SUBSET S
    BY <1>2 DEF Small
<1>4. \E g : IsSum(g, f, Small(S, Cardinality(S)))
    BY <1>1, SmallSums
<1>5. SumFunctionOnSet(f, S) = (CHOOSE g : IsSum(g, f, SUBSET S))[S]
    BY Zenon DEF SumFunctionOnSet, FoldFunctionOnSet, MapThenFoldSet, IsSum, Pick
<1> QED BY <1>3, <1>4, <1>5

\* Among some subsets of a finite set there is a smallest one.
LEMMA Smallest ==
    ASSUME NEW S, IsFiniteSet(S), NEW B, B \subseteq SUBSET S, B # {}
    PROVE  \E s \in B : /\ IsFiniteSet(s) /\ Cardinality(s) \in Nat
                        /\ \A u \in B : Cardinality(s) <= Cardinality(u)
<1> DEFINE T == {Cardinality(s) : s \in B}
<1>1. \A s \in B : IsFiniteSet(s) /\ Cardinality(s) \in Nat
    BY FS_Subset, FS_CardinalityType
<1>2. PICK n \in T : \A m \in T : n <= m
    <2>1. T \subseteq Nat /\ T # {}
        BY <1>1
    <2> HIDE DEF T
    <2> QED BY <2>1, Least
<1>3. PICK s \in B : n = Cardinality(s)
    OBVIOUS
<1>4. \A u \in B : Cardinality(s) <= Cardinality(u)
    BY <1>2, <1>3
<1> QED BY <1>1, <1>4

LEMMA Fewer ==
    ASSUME NEW s, IsFiniteSet(s), NEW x \in s
    PROVE  ~(Cardinality(s) <= Cardinality(s \ {x}))
<1>1. Cardinality(s \ {x}) = Cardinality(s) - 1 /\ Cardinality(s) \in Nat
    BY FS_RemoveElement, FS_CardinalityType
<1> QED BY <1>1

LEMMA OneSum ==
    ASSUME NEW S, IsFiniteSet(S), NEW s \in SUBSET S, NEW f, NEW g, NEW h,
           IsSum(g, f, SUBSET S), IsSum(h, f, SUBSET s)
    PROVE  g[s] = h[s]
<1> DEFINE B == {u \in SUBSET s : g[u] # h[u]}
<1> SUFFICES ASSUME B # {} PROVE FALSE
    OBVIOUS
<1>1. IsFiniteSet(s)
    BY FS_Subset
<1>2. PICK u \in B : IsFiniteSet(u) /\ \A v \in B : Cardinality(u) <= Cardinality(v)
    <2>1. B \subseteq SUBSET s
        OBVIOUS
    <2> HIDE DEF B
    <2> QED BY <1>1, <2>1, Smallest
<1>3. /\ g[u] = IF u = {} THEN 0 ELSE f[Pick(u)] + g[u \ {Pick(u)}]
      /\ h[u] = IF u = {} THEN 0 ELSE f[Pick(u)] + h[u \ {Pick(u)}]
    <2>1. u \in SUBSET S /\ u \in SUBSET s
        OBVIOUS
    <2> HIDE DEF B
    <2> QED BY <2>1 DEF IsSum
<1>4. u # {}
    BY <1>3
<1>5. Pick(u) \in u
    BY <1>4 DEF Pick
<1>6. u \ {Pick(u)} \notin B
    BY <1>2, <1>5, Fewer
<1>7. g[u \ {Pick(u)}] = h[u \ {Pick(u)}]
    BY <1>6
<1> QED BY <1>3, <1>4, <1>7

LEMMA Swap ==
    ASSUME NEW a \in Int, NEW b \in Int, NEW c \in Int
    PROVE  a + (b + c) = b + (a + c)
OBVIOUS

\* A sum is an integer, and any of its terms may be taken out.
LEMMA SumStep ==
    ASSUME NEW R, NEW f \in [R -> Int], NEW S \in SUBSET R, IsFiniteSet(S)
    PROVE  /\ SumFunctionOnSet(f, {}) = 0
           /\ SumFunctionOnSet(f, S) \in Int
           /\ \A x \in S : SumFunctionOnSet(f, S) = f[x] + SumFunctionOnSet(f, S \ {x})
<1> DEFINE Sum(s) == SumFunctionOnSet(f, s)
<1>1. PICK g : IsSum(g, f, SUBSET S)
    BY SumRecursion
<1>2. \A s \in SUBSET S : Sum(s) = g[s]
    <2> SUFFICES ASSUME NEW s \in SUBSET S PROVE Sum(s) = g[s]
        OBVIOUS
    <2>1. IsFiniteSet(s)
        BY FS_Subset
    <2>2. PICK h : IsSum(h, f, SUBSET s) /\ Sum(s) = h[s]
        BY <2>1, SumRecursion
    <2> HIDE DEF Sum
    <2> QED BY <1>1, <2>2, OneSum
<1> HIDE DEF Sum
<1>3. \A s \in SUBSET S : g[s] = IF s = {} THEN 0 ELSE f[Pick(s)] + g[s \ {Pick(s)}]
    BY <1>1 DEF IsSum
<1>4. \A s \in SUBSET S : g[s] \in Int
    <2> DEFINE B == {s \in SUBSET S : g[s] \notin Int}
    <2> SUFFICES ASSUME B # {} PROVE FALSE
        OBVIOUS
    <2>1. PICK s \in B : IsFiniteSet(s) /\ \A v \in B : Cardinality(s) <= Cardinality(v)
        <3>1. B \subseteq SUBSET S
            OBVIOUS
        <3> HIDE DEF B
        <3> QED BY <3>1, Smallest
    <2>2. s # {}
        BY <1>3
    <2>3. Pick(s) \in s
        BY <2>2 DEF Pick
    <2>4. s \ {Pick(s)} \notin B
        BY <2>1, <2>3, Fewer
    <2>5. g[s \ {Pick(s)}] \in Int /\ f[Pick(s)] \in Int
        BY <2>3, <2>4
    <2> QED BY <1>3, <2>2, <2>5
<1>5. \A s \in SUBSET S : \A x \in s : g[s] = f[x] + g[s \ {x}]
    <2> DEFINE B == {s \in SUBSET S : \E x \in s : g[s] # f[x] + g[s \ {x}]}
    <2> SUFFICES ASSUME B # {} PROVE FALSE
        OBVIOUS
    <2>1. PICK s \in B : IsFiniteSet(s) /\ \A v \in B : Cardinality(s) <= Cardinality(v)
        <3>1. B \subseteq SUBSET S
            OBVIOUS
        <3> HIDE DEF B
        <3> QED BY <3>1, Smallest
    <2>2. PICK x \in s : g[s] # f[x] + g[s \ {x}]
        OBVIOUS
    <2> DEFINE y == Pick(s)
    <2>3. y \in s /\ s \in SUBSET S
        BY DEF Pick
    <2>4. g[s] = f[y] + g[s \ {y}]
        BY <1>3, <2>2, <2>3
    <2>5. x # y
        BY <2>2, <2>4
    <2>6. s \ {y} \notin B /\ s \ {x} \notin B
        BY <2>1, <2>2, <2>3, Fewer
    <2>7. g[s \ {y}] = f[x] + g[(s \ {y}) \ {x}]
        BY <2>2, <2>3, <2>5, <2>6
    <2>8. g[s \ {x}] = f[y] + g[(s \ {x}) \ {y}]
        BY <2>3, <2>5, <2>6
    <2>9. (s \ {y}) \ {x} = (s \ {x}) \ {y}
        OBVIOUS
    <2>10. /\ f[x] \in Int /\ f[y] \in Int /\ g[(s \ {x}) \ {y}] \in Int
        BY <1>4, <2>3
    <2>11. f[y] + (f[x] + g[(s \ {x}) \ {y}]) = f[x] + (f[y] + g[(s \ {x}) \ {y}])
        BY <2>10, Swap
    <2> QED BY Zenon, <2>2, <2>4, <2>7, <2>8, <2>9, <2>11
<1>6. Sum({}) = 0
    BY <1>2, <1>3
<1>7. Sum(S) \in Int /\ \A x \in S : Sum(S) = f[x] + Sum(S \ {x})
    BY <1>2, <1>4, <1>5
<1> QED BY <1>6, <1>7 DEF Sum

-----------------------------------------------------------------------------
(* Seats of one booking *)

LEMMA SeatsOfBookings ==
    /\ [r \in Regs |-> RegSeats(SeatsOf[r])] \in [Regs -> Int]
    /\ \A r \in Regs : RegSeats(SeatsOf[r]) \in Int /\ RegSeats(SeatsOf[r]) >= 1
<1>1. \A r \in Regs : RegSeats(SeatsOf[r]) \in Int /\ RegSeats(SeatsOf[r]) >= 1
    BY CapacityAssumption DEF RegSeats
<1> QED BY <1>1

\* Setting one booking aside takes its seats off, if it held them.
LEMMA OneBooking ==
    ASSUME NEW s \in [Regs -> Statuses], NEW r \in Regs
    PROVE  LET t == TripOf[r] IN
           /\ SeatsTaken(s, t) \in Int /\ SeatsTaken([s EXCEPT ![r] = "none"], t) \in Int
           /\ SeatsTaken(s, t) = IF Held(s[r])
                                 THEN RegSeats(SeatsOf[r]) + SeatsTaken([s EXCEPT ![r] = "none"], t)
                                 ELSE SeatsTaken([s EXCEPT ![r] = "none"], t)
<1> DEFINE t == TripOf[r]
<1> DEFINE H(b) == {q \in Regs : TripOf[q] = t /\ Held(b[q])}
<1> DEFINE f == [q \in Regs |-> RegSeats(SeatsOf[q])]
<1> DEFINE a == [s EXCEPT ![r] = "none"]
<1>1. \A b : H(b) \in SUBSET Regs /\ IsFiniteSet(H(b)) /\ SeatsTaken(b, t) = SumFunctionOnSet(f, H(b))
    BY FS_Subset, CapacityAssumption DEF SeatsTaken
<1>2. f \in [Regs -> Int] /\ f[r] = RegSeats(SeatsOf[r])
    BY SeatsOfBookings
<1>3. H(a) = H(s) \ {r} /\ (r \in H(s) <=> Held(s[r]))
    BY DEF Held
<1> HIDE DEF f, H, a, t
<1>4. SumFunctionOnSet(f, H(s)) \in Int /\ SumFunctionOnSet(f, H(a)) \in Int
    BY <1>1, <1>2, SumStep
<1>5. \A x \in H(s) : SumFunctionOnSet(f, H(s)) = f[x] + SumFunctionOnSet(f, H(s) \ {x})
    BY <1>1, <1>2, SumStep
<1>6. CASE r \in H(s)
    BY <1>1, <1>2, <1>3, <1>4, <1>5, <1>6 DEF a, t
<1>7. CASE r \notin H(s)
    <2>1. H(a) = H(s)
        BY <1>3, <1>7
    <2> QED BY <1>1, <1>3, <1>4, <1>7, <2>1 DEF a, t
<1> QED BY <1>6, <1>7

-----------------------------------------------------------------------------
(* Within the capacity *)

\* What a transaction has booked of a trip fits, unless it holds no more seats than before.
Within(T, b, c) ==
    \A t \in Trips :
        /\ Books(T, t) /\ c[t] # None /\ ~Unlimited(c[t])
        /\ SeatsTaken(View(T, b), t) > SeatsTaken(b, t)
        => SeatsTaken(View(T, b), t) <= c[t]

\* Between the check and the recount: the booking fits, and the row that was locked
\* for the check is still locked.
CheckedFor(T, b, c, w, t) ==
    Held(w.to) /\ ~Held(b[w.doc]) /\ c[t] # None =>
        /\ <<"row", t>> \in T.locks
        /\ \/ Unlimited(c[t])
           \/ SeatsTaken([View(T, b) EXCEPT ![w.doc] = "none"], t) + RegSeats(SeatsOf[w.doc]) <= c[t]
Checked(T, b, c) ==
    T.pc = "sync" => CheckedFor(T, b, c, T.writes[T.done + 1], TripOf[T.writes[T.done + 1].doc])

FitsInv ==
    /\ cap \in [Trips -> Caps]
    /\ \A x \in Txs : Within(tx[x], booking, cap) /\ Checked(tx[x], booking, cap)

\* A trip is booked apart from its own changes: no commit writes both a trip and bookings
\* of it, and no trip is created by one commit while another books it.
Booking(T, t) == T.pc = "sync" /\ TripOf[T.writes[T.done + 1].doc] = t
BookedApart ==
    \A t \in Trips :
        /\ \A x \in Txs : ~(WritesTrip(tx[x], t) /\ Books(tx[x], t))
        /\ cap[t] = None =>
               ~\E x, y \in Txs : WritesTrip(tx[x], t) /\ (Books(tx[y], t) \/ Booking(tx[y], t))

LEMMA ApartIsAlone == BookedApart => BookedAlone
BY DEF BookedApart, BookedAlone

LEMMA SeatsInt ==
    ASSUME NEW s \in [Regs -> Statuses], NEW t
    PROVE  SeatsTaken(s, t) \in Int
<1> DEFINE H == {q \in Regs : TripOf[q] = t /\ Held(s[q])}
<1> DEFINE f == [q \in Regs |-> RegSeats(SeatsOf[q])]
<1>1. H \in SUBSET Regs /\ IsFiniteSet(H) /\ SeatsTaken(s, t) = SumFunctionOnSet(f, H)
    BY FS_Subset, CapacityAssumption DEF SeatsTaken
<1>2. f \in [Regs -> Int]
    BY SeatsOfBookings
<1> HIDE DEF f, H
<1> QED BY <1>1, <1>2, SumStep

\* A step of one transaction that commits nothing.
LEMMA FitsOne ==
    ASSUME IInv, FitsInv, NEW x \in Txs, NEW T, tx' = [tx EXCEPT ![x] = T],
           UNCHANGED <<booking, cap, taken>>, Within(T, booking, cap), Checked(T, booking, cap)
    PROVE  FitsInv'
<1>1. \A y \in Txs : tx'[y] = IF y = x THEN T ELSE tx[y]
    BY DEF IInv
<1>2. \A y \in Txs : Within(tx'[y], booking', cap') /\ Checked(tx'[y], booking', cap')
    BY <1>1 DEF FitsInv
<1> QED BY <1>2 DEF FitsInv

LEMMA FitsFresh ==
    ASSUME NEW T, T.done = 0, T.pc # "sync", NEW b, NEW c
    PROVE  Within(T, b, c) /\ Checked(T, b, c)
BY DEF Within, Checked, Books

LEMMA FitsNothingApplied ==
    ASSUME NEW T, NEW S, NEW b, NEW c, Within(T, b, c), S.done = T.done, S.writes = T.writes
    PROVE  Within(S, b, c)
<1>1. View(S, b) = View(T, b)
    BY DEF View
<1>2. \A t \in Trips : Books(S, t) <=> Books(T, t)
    BY DEF Books
<1> QED BY <1>1, <1>2 DEF Within

LEMMA FitsRefuse ==
    ASSUME IInv, FitsInv, NEW x \in Txs, Refuse(x), UNCHANGED <<booking, cap, taken>>
    PROVE  FitsInv'
<1>1. Within(NoTx, booking, cap) /\ Checked(NoTx, booking, cap)
    BY NoTxIsFresh, FitsFresh
<1> QED BY <1>1, FitsOne DEF Refuse, Ended

LEMMA FitsBegin == ASSUME IInv, FitsInv, NEW x \in Txs, Begin(x) PROVE FitsInv'
<1>1. PICK ws \in Commits : tx' = [tx EXCEPT ![x].pc = "read", ![x].writes = ws]
    BY DEF Begin
<1>2. tx[x] = NoTx
    BY DEF Begin, IInv, TxOK
<1> DEFINE T == [NoTx EXCEPT !.pc = "read", !.writes = ws]
<1>3. T.done = 0 /\ T.pc = "read"
    BY DEF NoTx
<1>4. tx' = [tx EXCEPT ![x] = T]
    BY <1>1, <1>2 DEF IInv
<1> HIDE DEF T
<1>5. Within(T, booking, cap) /\ Checked(T, booking, cap)
    BY <1>3, FitsFresh
<1> QED BY <1>4, <1>5, FitsOne DEF Begin

LEMMA FitsVictim == ASSUME IInv, FitsInv, NEW x \in Txs, DeadlockVictim(x) PROVE FitsInv'
<1>1. CASE Refuse(x)
    BY <1>1, FitsRefuse DEF DeadlockVictim
<1>2. CASE ~Refuse(x)
    <2> DEFINE T == [NoTx EXCEPT !.pc = "read", !.writes = tx[x].writes, !.attempt = tx[x].attempt + 1]
    <2>1. tx' = [tx EXCEPT ![x] = T] /\ UNCHANGED <<booking, cap, taken>>
        BY <1>2 DEF DeadlockVictim, Ended
    <2>2. T.done = 0 /\ T.pc = "read"
        BY NoTxIsFresh
    <2> HIDE DEF T
    <2>3. Within(T, booking, cap) /\ Checked(T, booking, cap)
        BY <2>2, FitsFresh
    <2> QED BY <2>1, <2>3, FitsOne
<1> QED BY <1>1, <1>2

LEMMA FitsReadDoc == ASSUME IInv, FitsInv, NEW x \in Txs, ReadDoc(x) PROVE FitsInv'
<1> DEFINE lock == <<"doc", tx[x].writes[tx[x].read + 1].doc>>
<1> DEFINE pc == IF tx[x].read + 1 = Len(tx[x].writes) THEN "write" ELSE "read"
<1> DEFINE T == [tx[x] EXCEPT !.locks = @ \cup {lock}, !.read = @ + 1, !.pc = pc]
<1>1. CASE Refuse(x)
    BY <1>1, FitsRefuse DEF ReadDoc
<1>2. CASE tx' = [tx EXCEPT ![x].locks = @ \cup {lock}, ![x].read = @ + 1, ![x].pc = pc]
    <2>1. TxOK(tx[x])
        BY DEF IInv
    <2>2. tx' = [tx EXCEPT ![x] = T]
        BY <1>2 DEF IInv
    <2>3. T.pc = pc /\ T.done = tx[x].done /\ T.writes = tx[x].writes
        BY <2>1 DEF TxOK, TxFields
    <2> HIDE DEF T
    <2>4. Within(T, booking, cap)
        BY <2>3, FitsNothingApplied DEF FitsInv
    <2>5. Checked(T, booking, cap)
        BY <2>3 DEF Checked
    <2> QED BY <2>2, <2>4, <2>5, FitsOne DEF ReadDoc
<1> QED BY <1>1, <1>2 DEF ReadDoc

\* The check: with the row locked, the booking fits.
LEMMA FitsCheck == ASSUME IInv, FitsInv, NEW x \in Txs, CheckCapacity(x) PROVE FitsInv'
<1> DEFINE w == Current(x)
<1> DEFINE t == TripOf[w.doc]
<1> DEFINE locks == IF TakesMore(w) THEN CheckLock(t) ELSE {}
<1> DEFINE T == [tx[x] EXCEPT !.locks = @ \cup locks, !.pc = "sync"]
<1>1. CASE Refuse(x)
    BY <1>1, FitsRefuse DEF CheckCapacity
<1>2. CASE ~Refuse(x)
    <2>1. /\ tx' = [tx EXCEPT ![x].locks = @ \cup locks, ![x].pc = "sync"]
          /\ TakesMore(w) => Fits(x, w)
        BY <1>2 DEF CheckCapacity
    <2>2. TxOK(tx[x])
        BY DEF IInv
    <2>3. tx' = [tx EXCEPT ![x] = T]
        BY <2>1 DEF IInv
    <2>4. /\ T.pc = "sync" /\ T.done = tx[x].done /\ T.writes = tx[x].writes
          /\ T.locks = tx[x].locks \cup locks
        BY <2>2 DEF TxOK, TxFields
    <2> HIDE DEF T
    <2>5. Within(T, booking, cap)
        BY <2>4, FitsNothingApplied DEF FitsInv
    <2>6. View(T, booking) = Seen(x)
        BY <2>4 DEF Seen, View, Applied
    <2>7. CheckedFor(T, booking, cap, w, t)
        BY <2>1, <2>4, <2>6 DEF CheckedFor, TakesMore, Fits, CheckLock, RowLock
    <2>8. Checked(T, booking, cap)
        BY <2>4, <2>7 DEF Checked, Current
    <2> QED BY <2>3, <2>5, <2>8, FitsOne DEF CheckCapacity
<1> QED BY <1>1, <1>2

\* Seats that a transaction sees are no more than those held before, when it books nothing of
\* the trip.
LEMMA SeenUnbooked ==
    ASSUME NEW T, TxOK(T), NEW b \in [Regs -> Statuses], NEW t \in Trips, ~Books(T, t)
    PROVE  SeatsTaken(View(T, b), t) = SeatsTaken(b, t)
BY OthersDecide, SameSeats

\* The write of a booking that was checked; one that takes no more seats leaves room.
LEMMA FitsBooked ==
    ASSUME NEW T, TxOK(T), T.pc = "sync", NEW S, TxOK(S), S.done = T.done + 1, S.writes = T.writes,
           NEW b \in [Regs -> Statuses], NEW c \in [Trips -> Caps],
           Within(T, b, c), Checked(T, b, c)
    PROVE  Within(S, b, c)
<1> DEFINE w == T.writes[T.done + 1]
<1> DEFINE t == TripOf[w.doc]
<1>1. /\ w.doc \in Regs /\ w.to \in Statuses
      /\ View(S, b) = [View(T, b) EXCEPT ![w.doc] = w.to]
      /\ \A u \in Trips : Books(S, u) <=> Books(T, u) \/ t = u
    <2>1. w.doc \in Regs
        BY DEF TxOK
    <2> QED BY <2>1, OneMore
<1>2. View(T, b) \in [Regs -> Statuses] /\ View(S, b) \in [Regs -> Statuses]
    BY ViewFields
\* Each document is written once.
<1>3. View(T, b)[w.doc] = b[w.doc]
    <2>1. /\ T.writes \in Commits /\ T.done \in Nat /\ Len(T.writes) \in Nat
          /\ T.done + 1 \in 1..Len(T.writes)
        BY CommitAssumption DEF TxOK
    <2>2. \A i \in 1..T.done : i \in 1..Len(T.writes) /\ i # T.done + 1
        BY <2>1
    <2>3. \A i \in 1..T.done : T.writes[i].doc # w.doc
        BY <2>1, <2>2, CommitAssumption
    <2> QED BY <1>1, <2>3, ViewFields
<1>4. t \in Trips
    BY <1>1, CapacityAssumption
<1> DEFINE none == [View(T, b) EXCEPT ![w.doc] = "none"]
<1>5. [View(S, b) EXCEPT ![w.doc] = "none"] = none /\ View(S, b)[w.doc] = w.to
    BY <1>1, <1>2
<1>6. /\ SeatsTaken(View(S, b), t) \in Int /\ SeatsTaken(View(T, b), t) \in Int
      /\ SeatsTaken(none, t) \in Int
      /\ SeatsTaken(View(S, b), t) = IF Held(w.to) THEN RegSeats(SeatsOf[w.doc]) + SeatsTaken(none, t)
                                     ELSE SeatsTaken(none, t)
      /\ SeatsTaken(View(T, b), t) = IF Held(b[w.doc]) THEN RegSeats(SeatsOf[w.doc]) + SeatsTaken(none, t)
                                     ELSE SeatsTaken(none, t)
    <2> DEFINE r == w.doc
    <2>1. r \in Regs /\ View(S, b)[r] = w.to /\ View(T, b)[r] = b[r]
        BY <1>1, <1>3, <1>5
    <2>2. [View(S, b) EXCEPT ![r] = "none"] = none /\ [View(T, b) EXCEPT ![r] = "none"] = none
        BY <1>5
    <2> HIDE DEF r, none
    <2>3. /\ SeatsTaken(View(S, b), TripOf[r]) \in Int /\ SeatsTaken(none, TripOf[r]) \in Int
          /\ SeatsTaken(View(S, b), TripOf[r]) =
                 IF Held(w.to) THEN RegSeats(SeatsOf[r]) + SeatsTaken(none, TripOf[r])
                 ELSE SeatsTaken(none, TripOf[r])
        BY <1>2, <2>1, <2>2, OneBooking
    <2>4. /\ SeatsTaken(View(T, b), TripOf[r]) \in Int
          /\ SeatsTaken(View(T, b), TripOf[r]) =
                 IF Held(b[r]) THEN RegSeats(SeatsOf[r]) + SeatsTaken(none, TripOf[r])
                 ELSE SeatsTaken(none, TripOf[r])
        BY <1>2, <2>1, <2>2, OneBooking
    <2> QED BY <2>3, <2>4 DEF r
<1>7. RegSeats(SeatsOf[w.doc]) \in Int /\ RegSeats(SeatsOf[w.doc]) >= 1
    BY <1>1, SeatsOfBookings
<1>8. CheckedFor(T, b, c, w, t)
    BY DEF Checked
<1>9. ASSUME c[t] # None, ~Unlimited(c[t]), SeatsTaken(View(S, b), t) > SeatsTaken(b, t)
      PROVE  SeatsTaken(View(S, b), t) <= c[t]
    <2>1. c[t] \in Int /\ SeatsTaken(b, t) \in Int
        BY <1>4, <1>9, CapacityAssumption, SeatsInt
    <2>2. CASE Held(w.to) /\ ~Held(b[w.doc])
        <3>1. SeatsTaken(none, t) + RegSeats(SeatsOf[w.doc]) <= c[t]
            BY <1>8, <1>9, <2>2 DEF CheckedFor
        <3> HIDE DEF none, w, t
        <3> QED BY <1>6, <1>7, <2>1, <2>2, <3>1
    <2>3. CASE ~(Held(w.to) /\ ~Held(b[w.doc]))
        <3>1. SeatsTaken(View(S, b), t) <= SeatsTaken(View(T, b), t)
            <4> HIDE DEF none, w, t
            <4> QED BY <1>6, <1>7, <2>3
        <3>2. SeatsTaken(View(T, b), t) > SeatsTaken(b, t)
            <4> HIDE DEF none, w, t
            <4> QED BY <1>6, <1>9, <2>1, <3>1
        <3>3. Books(T, t)
            BY <1>4, <2>1, <3>2, SeenUnbooked
        <3>4. SeatsTaken(View(T, b), t) <= c[t]
            BY <1>4, <1>9, <3>2, <3>3 DEF Within
        <3> HIDE DEF none, w, t
        <3> QED BY <1>6, <2>1, <3>1, <3>4
    <2> QED BY <2>2, <2>3
<1>10. ASSUME NEW u \in Trips, u # t
       PROVE  /\ SeatsTaken(View(S, b), u) = SeatsTaken(View(T, b), u)
              /\ Books(S, u) <=> Books(T, u)
    <2>1. \A r \in Regs : TripOf[r] = u => View(S, b)[r] = View(T, b)[r]
        <3> HIDE DEF w
        <3> QED BY <1>1, <1>2, <1>10
    <2>2. SeatsTaken(View(S, b), u) = SeatsTaken(View(T, b), u)
        <3> HIDE DEF w
        <3> QED BY <2>1, SameSeats
    <2> QED BY <1>1, <1>10, <2>2
<1> HIDE DEF t
<1> QED BY <1>9, <1>10 DEF Within

LEMMA FitsTripWritten ==
    ASSUME NEW T, TxOK(T), T.pc = "write", NEW S, TxOK(S), S.done = T.done + 1, S.writes = T.writes,
           T.writes[T.done + 1].doc \in Trips,
           NEW b \in [Regs -> Statuses], NEW c, Within(T, b, c)
    PROVE  Within(S, b, c)
<1>1. View(S, b) = View(T, b)
    BY OneMore
<1>2. T.writes[T.done + 1].doc \notin Regs
    BY CapacityAssumption
<1>3. \A t \in Trips : Books(S, t) <=> Books(T, t)
    BY <1>2, OneMore
<1> QED BY <1>1, <1>3 DEF Within

LEMMA FitsApplied ==
    ASSUME IInv, FitsInv, NEW x \in Txs, TxOK(tx'[x]), UNCHANGED <<booking, cap, taken>>,
           NEW t \in Trips, NEW sum,
           tx' = [tx EXCEPT ![x].locks = @ \cup RowLock(t), ![x].sums[t] = sum,
                            ![x].done = @ + 1, ![x].pc = NextPc(x)],
           \/ tx[x].pc = "sync"
           \/ tx[x].pc = "write" /\ Current(x).doc \in Trips
    PROVE  FitsInv'
<1> DEFINE T == [tx[x] EXCEPT !.locks = @ \cup RowLock(t), !.sums[t] = sum,
                              !.done = @ + 1, !.pc = NextPc(x)]
<1>1. TxOK(tx[x]) /\ booking \in [Regs -> Statuses] /\ cap \in [Trips -> Caps]
    BY DEF IInv, FitsInv
<1>2. tx' = [tx EXCEPT ![x] = T]
    BY DEF IInv
<1>3. T.pc \in {"write", "commit"} /\ T.done = tx[x].done + 1 /\ T.writes = tx[x].writes
    BY <1>1 DEF TxOK, TxFields, NextPc
<1>4. tx'[x] = T
    BY <1>2 DEF IInv
<1> HIDE DEF T
<1>5. TxOK(T)
    BY <1>4
<1>6. Within(T, booking, cap)
    BY <1>1, <1>3, <1>5, FitsBooked, FitsTripWritten DEF FitsInv, Current
<1>7. Checked(T, booking, cap)
    BY <1>3 DEF Checked
<1> QED BY <1>2, <1>6, <1>7, FitsOne

LEMMA FitsSync == ASSUME IInv, FitsInv, IInv', NEW x \in Txs, SyncTrip(x) PROVE FitsInv'
<1> DEFINE t == TripOf[Current(x).doc]
<1>1. tx[x].pc = "sync" /\ Current(x).doc \in Regs
    BY DEF SyncTrip, IInv, TxOK, Current
<1>2. t \in Trips
    BY <1>1, CapacityAssumption
<1>3. PICK sum :
          tx' = [tx EXCEPT ![x].locks = @ \cup RowLock(t), ![x].sums[t] = sum,
                           ![x].done = @ + 1, ![x].pc = NextPc(x)]
    BY DEF SyncTrip, SyncLock
<1>4. UNCHANGED <<booking, cap, taken>>
    BY DEF SyncTrip
<1>5. TxOK(tx'[x])
    BY DEF IInv
<1> HIDE DEF t
<1> QED BY <1>1, <1>2, <1>3, <1>4, <1>5, FitsApplied

LEMMA FitsWriteTrip == ASSUME IInv, FitsInv, IInv', NEW x \in Txs, WriteTrip(x) PROVE FitsInv'
<1> DEFINE t == Current(x).doc
<1>1. tx[x].pc = "write" /\ t \in Trips /\ UNCHANGED <<booking, cap, taken>>
    BY DEF WriteTrip
<1>2. PICK sum :
          tx' = [tx EXCEPT ![x].locks = @ \cup RowLock(t), ![x].sums[t] = sum,
                           ![x].done = @ + 1, ![x].pc = NextPc(x)]
    BY DEF WriteTrip
<1>3. TxOK(tx'[x])
    BY DEF IInv
<1> HIDE DEF t
<1> QED BY <1>1, <1>2, <1>3, FitsApplied DEF t

\* A commit changes the bookings and the capacity of no trip that others have booked or
\* checked: they hold its row.
LEMMA FitsOthers ==
    ASSUME IInv, FitsInv, BookedApart, NEW x \in Txs, Commit(x), NEW y \in Txs, y # x
    PROVE  Within(tx[y], booking', cap') /\ Checked(tx[y], booking', cap')
<1>1. /\ TxOK(tx[x]) /\ SumsOK(tx[x], booking, cap) /\ booking \in [Regs -> Statuses]
      /\ TxOK(tx[y]) /\ SumsOK(tx[y], booking, cap)
    BY DEF IInv
<1>2. tx[x].pc = "commit" /\ booking' = View(tx[x], booking)
    BY SeenIsView DEF Commit
<1>3. \A t \in Trips : ~WritesTrip(tx[x], t) => cap'[t] = cap[t]
    BY DEF Commit, WritesTrip, Applied
<1>4. booking' \in [Regs -> Statuses]
    BY <1>1, <1>2, ViewFields
<1>5. ASSUME NEW t \in Trips, cap[t] # None, <<"row", t>> \in tx[y].locks
      PROVE  ~Books(tx[x], t) /\ ~WritesTrip(tx[x], t)
    <2>1. Books(tx[x], t) \/ WritesTrip(tx[x], t) => <<"row", t>> \in tx[x].locks
        BY <1>1, <1>5 DEF SumsOK
    <2> QED BY <1>5, <2>1 DEF IInv, Disjoint
<1>6. ASSUME NEW t \in Trips, ~Books(tx[x], t)
      PROVE  /\ SeatsTaken(booking', t) = SeatsTaken(booking, t)
             /\ SeatsTaken(View(tx[y], booking'), t) = SeatsTaken(View(tx[y], booking), t)
    <2>1. \A r \in Regs : TripOf[r] = t => booking'[r] = booking[r]
        BY <1>1, <1>2, <1>6, OthersDecide
    <2> QED BY <1>1, <1>4, <2>1, SameSeats, SameView
<1>7. Within(tx[y], booking', cap')
    <2> SUFFICES ASSUME NEW t \in Trips, Books(tx[y], t), cap'[t] # None
                 PROVE  /\ SeatsTaken(booking', t) = SeatsTaken(booking, t)
                        /\ SeatsTaken(View(tx[y], booking'), t) = SeatsTaken(View(tx[y], booking), t)
                        /\ cap'[t] = cap[t]
        BY DEF FitsInv, Within
    <2>1. CASE cap[t] = None
        <3>1. WritesTrip(tx[x], t)
            BY <1>3, <2>1
        <3> QED BY <2>1, <3>1 DEF BookedApart
    <2>2. CASE cap[t] # None
        <3>1. <<"row", t>> \in tx[y].locks
            BY <1>1, <2>2 DEF SumsOK
        <3> QED BY <1>3, <1>5, <1>6, <2>2, <3>1
    <2> QED BY <2>1, <2>2
<1>8. Checked(tx[y], booking', cap')
    <2> SUFFICES ASSUME tx[y].pc = "sync"
                 PROVE  CheckedFor(tx[y], booking', cap', tx[y].writes[tx[y].done + 1],
                                   TripOf[tx[y].writes[tx[y].done + 1].doc])
        BY DEF Checked
    <2> DEFINE w == tx[y].writes[tx[y].done + 1]
    <2> DEFINE t == TripOf[w.doc]
    <2>1. w.doc \in Regs /\ t \in Trips
        BY <1>1, CapacityAssumption DEF TxOK
    <2>2. <<"doc", w.doc>> \in tx[y].locks
        <3>1. tx[y].done + 1 \in 1..tx[y].read
            BY <1>1, CommitAssumption DEF TxOK
        <3> QED BY <1>1, <3>1 DEF TxOK
    <2>3. ASSUME NEW i \in 1..tx[x].done PROVE tx[x].writes[i].doc # w.doc
        <3>1. i \in 1..tx[x].read
            BY <1>1, <1>2, CommitAssumption DEF TxOK
        <3>2. <<"doc", tx[x].writes[i].doc>> \in tx[x].locks
            BY <1>1, <1>2, <3>1 DEF TxOK
        <3> QED BY <2>2, <3>2 DEF IInv, Disjoint
    <2>4. booking'[w.doc] = booking[w.doc]
        BY <1>1, <1>2, <2>1, <2>3, ViewFields
    <2>5. CheckedFor(tx[y], booking, cap, w, t)
        BY DEF FitsInv, Checked
    <2> HIDE DEF w
    <2> SUFFICES ASSUME Held(w.to), ~Held(booking[w.doc]), cap'[t] # None
                 PROVE  /\ <<"row", t>> \in tx[y].locks
                        /\ \/ Unlimited(cap'[t])
                           \/ SeatsTaken([View(tx[y], booking') EXCEPT ![w.doc] = "none"], t)
                                  + RegSeats(SeatsOf[w.doc]) <= cap'[t]
        BY <2>4 DEF CheckedFor, w
    <2>6. cap[t] # None
        <3> SUFFICES ASSUME cap[t] = None PROVE FALSE
            OBVIOUS
        <3>1. WritesTrip(tx[x], t)
            BY <1>3, <2>1
        <3>2. Booking(tx[y], t)
            BY DEF Booking, w
        <3> QED BY <2>1, <3>1, <3>2 DEF BookedApart
    <2>7. /\ <<"row", t>> \in tx[y].locks
          /\ \/ Unlimited(cap[t])
             \/ SeatsTaken([View(tx[y], booking) EXCEPT ![w.doc] = "none"], t)
                    + RegSeats(SeatsOf[w.doc]) <= cap[t]
        BY <2>5, <2>6 DEF CheckedFor
    <2>8. ~Books(tx[x], t) /\ cap'[t] = cap[t]
        BY <1>3, <1>5, <2>1, <2>6, <2>7
    <2>9. \A r \in Regs : TripOf[r] = t => booking'[r] = booking[r]
        BY <1>1, <1>2, <2>1, <2>8, OthersDecide
    <2>10. \A r \in Regs : TripOf[r] = t => View(tx[y], booking')[r] = View(tx[y], booking)[r]
        BY <2>9 DEF View
    <2>11. SeatsTaken([View(tx[y], booking') EXCEPT ![w.doc] = "none"], t)
               = SeatsTaken([View(tx[y], booking) EXCEPT ![w.doc] = "none"], t)
        <3>1. /\ View(tx[y], booking') \in [Regs -> Statuses]
              /\ View(tx[y], booking) \in [Regs -> Statuses]
            BY <1>1, <1>4, ViewFields
        <3> QED BY <2>10, <3>1, SameSeats
    <2> QED BY <2>7, <2>8, <2>11
<1> QED BY <1>7, <1>8

LEMMA FitsCommit == ASSUME IInv, FitsInv, BookedApart, NEW x \in Txs, Commit(x) PROVE FitsInv'
<1>1. \A y \in Txs : tx'[y] = IF y = x THEN NoTx ELSE tx[y]
    BY DEF Commit, Ended, IInv
<1>2. Within(NoTx, booking', cap') /\ Checked(NoTx, booking', cap')
    BY NoTxIsFresh, FitsFresh
<1>3. \A y \in Txs : Within(tx'[y], booking', cap') /\ Checked(tx'[y], booking', cap')
    BY <1>1, <1>2, FitsOthers
<1>4. cap' \in [Trips -> Caps]
    <2> DEFINE A == Applied(x)
    <2>1. \A w \in A : w.doc \in Trips => w.to \in Caps
        <3> SUFFICES ASSUME NEW i \in 1..tx[x].done, tx[x].writes[i].doc \in Trips
                     PROVE  tx[x].writes[i].to \in Caps
            BY DEF Applied
        <3>1. TxOK(tx[x]) /\ tx[x].pc = "commit"
            BY DEF IInv, Commit
        <3>2. tx[x].writes \in Commits /\ i \in 1..Len(tx[x].writes)
            BY <3>1, CommitAssumption DEF TxOK
        <3> QED BY <3>2, CommitAssumption
    <2>2. ASSUME NEW t \in Trips, \E w \in A : w.doc = t
          PROVE  (CHOOSE w \in A : w.doc = t).to \in Caps
        <3>1. (CHOOSE w \in A : w.doc = t) \in A /\ (CHOOSE w \in A : w.doc = t).doc = t
            BY <2>2
        <3> QED BY <2>1, <3>1
    <2>3. cap' = [t \in Trips |-> IF \E w \in A : w.doc = t THEN (CHOOSE w \in A : w.doc = t).to ELSE cap[t]]
        BY DEF Commit
    <2> HIDE DEF A
    <2>4. \A t \in Trips : cap[t] \in Caps
        BY DEF FitsInv
    <2> QED BY <2>2, <2>3, <2>4
<1>5. (\A y \in Txs : Within(tx[y], booking, cap) /\ Checked(tx[y], booking, cap))'
    BY <1>3
<1> QED BY <1>4, <1>5 DEF FitsInv

LEMMA FitsInit == Init => FitsInv
<1> SUFFICES ASSUME Init PROVE FitsInv
    OBVIOUS
<1>1. \A x \in Txs : tx[x] = NoTx
    BY DEF Init
<1> QED BY <1>1, NoTxIsFresh, FitsFresh DEF Init, FitsInv

LEMMA FitsStep == ASSUME IInv, FitsInv, BookedApart, [Next]_vars PROVE IInv' /\ FitsInv'
<1>0. IInv'
    BY ApartIsAlone, StepOK
<1>1. ASSUME NEW x \in Txs, Fail(x) PROVE FitsInv'
    BY <1>1, FitsRefuse DEF Fail
<1>2. ASSUME UNCHANGED vars PROVE FitsInv'
    BY <1>2 DEF vars, FitsInv
<1> QED BY <1>0, <1>1, <1>2, FitsBegin, FitsReadDoc, FitsCheck, FitsSync, FitsWriteTrip, FitsCommit,
           FitsVictim DEF Next, Proceed

\* Only a commit changes the bookings, and what it has booked fits.
LEMMA SoldStep ==
    ASSUME IInv, FitsInv, BookedApart, [Next]_vars,
           NEW t \in Trips, SeatsTaken(booking', t) > SeatsTaken(booking, t),
           cap'[t] # None, ~Unlimited(cap'[t])
    PROVE  SeatsTaken(booking', t) <= cap'[t]
<1>0. booking \in [Regs -> Statuses]
    BY DEF IInv
<1>1. SeatsTaken(booking, t) \in Int
    BY <1>0, SeatsInt
<1>2. CASE booking' = booking
    BY <1>1, <1>2
<1>3. ASSUME NEW x \in Txs, Commit(x) PROVE SeatsTaken(booking', t) <= cap'[t]
    <2>1. booking' = View(tx[x], booking) /\ TxOK(tx[x])
        BY <1>3, SeenIsView DEF Commit, IInv
    <2>2. Books(tx[x], t)
        BY <1>0, <1>1, <2>1, SeenUnbooked
    <2>3. ~WritesTrip(tx[x], t)
        BY <2>2 DEF BookedApart
    <2>4. cap'[t] = cap[t]
        BY <1>3, <2>3 DEF Commit, WritesTrip, Applied
    <2> QED BY <2>1, <2>2, <2>4 DEF FitsInv, Within
<1> QED BY <1>2, <1>3 DEF Next, Proceed, vars, Begin, ReadDoc, CheckCapacity, SyncTrip, WriteTrip,
           Fail, DeadlockVictim

\* Concurrent bookings "never oversell": however commits, deadlocks, retries and failures
\* interleave, a commit that raises the seats held leaves them within the capacity, as long
\* as a trip is booked apart from commits that write or create the trip itself.
THEOREM TripsAreNotOversold == Spec /\ []BookedApart => NeverOversold
<1>1. IInv /\ FitsInv /\ BookedApart /\ [Next]_vars =>
          [\A t \in Trips :
               /\ SeatsTaken(booking', t) > SeatsTaken(booking, t)
               /\ cap'[t] # None /\ ~Unlimited(cap'[t])
               => SeatsTaken(booking', t) <= cap'[t]]_vars
    BY SoldStep
<1> QED BY <1>1, InitOK, FitsInit, FitsStep, PTL DEF Spec, NeverOversold
=============================================================================
