------------------------- MODULE SevaCounter_proofs -------------------------
(***************************************************************************)
(* Proofs about SevaCounter, for every number of members, sevas and        *)
(* concurrent calls.  A document is locked by one transaction at a time,   *)
(* so what a transaction read is still so when it writes (SafeReads); its  *)
(* increments are then those of the registration it changes, so that the   *)
(* counter moves with the number of volunteers (CountersMoveInStep) and    *)
(* equals it until a one-sided commit parts them (IInv).                   *)
(***************************************************************************)
EXTENDS SevaCounter, FiniteSetTheorems, TLAPS

\* The calls that read and change a registration alone.
RegOnly == {"stamp", "webstamp"}

\* Every call has a kind and a seva; all but those of a seva alone have a member.
LEMMA CallShape ==
    ASSUME NEW call \in SevaCalls
    PROVE  /\ call.kind \in AllKinds /\ call.kind \in Kinds
           /\ SevaDoc(call) = call.seva /\ call.seva \in Sevas
           /\ call.kind \notin SevaOnly =>
                  RegDoc(call) = <<call.user, call.seva>> /\ call.user \in Users
BY SevaAssumption DEF SevaCalls, AllKinds, SevaDoc, RegDoc, SevaOnly

\* The documents a call reads are its seva and its registration.
LEMMA ReadsShape ==
    ASSUME NEW call \in SevaCalls
    PROVE  /\ Len(Reads(call)) \in 1..2
           /\ \A i \in 1..Len(Reads(call)) :
                  \/ Reads(call)[i] = SevaDoc(call)
                  \/ call.kind \notin SevaOnly /\ Reads(call)[i] = RegDoc(call)
           /\ call.kind \notin RegOnly =>
                  \E i \in 1..Len(Reads(call)) : Reads(call)[i] = SevaDoc(call)
           /\ call.kind \notin SevaOnly =>
                  \E i \in 1..Len(Reads(call)) : Reads(call)[i] = RegDoc(call)
<1>1. call.kind \in AllKinds
  BY CallShape
<1>2. CASE call.kind \in {"cancel", "attend"}
  <2>1. Reads(call) = <<RegDoc(call), SevaDoc(call)>>
    BY <1>2 DEF Reads
  <2> QED
    BY <1>2, <2>1 DEF SevaOnly, RegOnly
<1>3. CASE call.kind \in {"join", "webjoin", "webleave", "roster"}
  <2>1. Reads(call) = <<SevaDoc(call), RegDoc(call)>>
    BY <1>3 DEF Reads
  <2> QED
    BY <1>3, <2>1 DEF SevaOnly, RegOnly
<1>4. CASE call.kind \in RegOnly
  <2>1. Reads(call) = <<RegDoc(call)>>
    BY <1>4 DEF Reads, RegOnly
  <2> QED
    BY <1>4, <2>1 DEF SevaOnly, RegOnly
<1>5. CASE call.kind \in SevaOnly
  <2>1. Reads(call) = <<SevaDoc(call)>>
    BY <1>5 DEF Reads, SevaOnly
  <2> QED
    BY <1>5, <2>1 DEF SevaOnly
<1> QED
  BY <1>1, <1>2, <1>3, <1>4, <1>5 DEF AllKinds, SevaOnly, RegOnly

\* A seva and a registration are different documents.
LEMMA DifferentDocs ==
    ASSUME NEW call \in SevaCalls, NEW other \in SevaCalls, call.kind \notin SevaOnly
    PROVE  RegDoc(call) # SevaDoc(other)
BY CallShape, SevaAssumption

\* A running transaction is about a call; it has read what it may read.
LEMMA RunningShape ==
    ASSUME SafeReads, NEW c \in Callers, Running(c)
    PROVE  /\ tx[c] \in Tx /\ tx[c].call \in SevaCalls
           /\ tx[c].read \in 0..Len(Reads(tx[c].call))
           /\ Holds(c) = {Reads(tx[c].call)[i] : i \in 1..tx[c].read}
<1>1. tx[c] \in Tx /\ tx[c].call \in SevaCalls
  BY DEF SafeReads, TypeOK, Tx, Running
<1>2. tx[c].read <= Len(Reads(tx[c].call)) /\ tx[c].read \in 0..2
  BY <1>1 DEF SafeReads, SawCurrent, Tx
<1> QED
  BY <1>1, <1>2, ReadsShape DEF Holds

\* What another caller holds does not change when its transaction does not.
LEMMA OthersHold ==
    ASSUME NEW c, tx'[c] = tx[c]
    PROVE  Holds(c)' = Holds(c) /\ Running(c)' = Running(c)
BY DEF Holds, Running

-----------------------------------------------------------------------------
(* Locks and reads *)

\* A transaction that ends, begins or starts again holds nothing; the documents
\* it changes are those it held, which no other transaction has read.
LEMMA RestartSafe ==
    ASSUME SafeReads, NEW c \in Callers, NEW t \in Tx, t.read = 0,
           tx' = [tx EXCEPT ![c] = t],
           seva' \in [Sevas -> Row \cup {None, Gone}],
           reg' \in [Users \X Sevas -> Statuses],
           UNCHANGED parted \/ parted' \in 0..MaxOneSided,
           \A s \in Sevas : s \notin Holds(c) => seva'[s] = seva[s],
           \A p \in Users \X Sevas : p \notin Holds(c) => reg'[p] = reg[p]
    PROVE  SafeReads'
<1>0. TypeOK /\ OneHolder /\ SawCurrent /\ tx \in [Callers -> Tx]
  BY DEF SafeReads, TypeOK
<1>1. TypeOK'
  BY <1>0 DEF TypeOK
<1>2. tx'[c] = t /\ \A d \in Callers \ {c} : tx'[d] = tx[d]
  BY <1>0
<1>3. Holds(c)' = {}
  BY <1>2 DEF Holds
<1>4. \A d \in Callers \ {c} : Holds(d)' = Holds(d) /\ Running(d)' = Running(d)
  BY <1>2, OthersHold
<1>5. OneHolder'
  BY <1>0, <1>3, <1>4 DEF OneHolder
<1>6. SawCurrent'
  <2> SUFFICES ASSUME NEW d \in Callers
               PROVE LET call == tx'[d].call IN
                     IF Running(d)'
                     THEN /\ tx'[d].read <= Len(Reads(call))
                          /\ SevaDoc(call) \in Holds(d)' => tx'[d].sawSeva = seva'[SevaDoc(call)]
                          /\ call.kind \notin SevaOnly /\ RegDoc(call) \in Holds(d)' =>
                                 tx'[d].sawReg = reg'[RegDoc(call)]
                     ELSE tx'[d].read = 0
    BY DEF SawCurrent
  <2>1. CASE d = c
    <3>1. Running(c)' => t.call \in SevaCalls
      BY <1>2 DEF Running, Tx
    <3>2. Running(c)' => 0 <= Len(Reads(t.call))
      BY <3>1, ReadsShape
    <3> QED
      BY <2>1, <1>2, <1>3, <3>2
  <2>2. CASE d # c /\ Running(d)
    <3>1. tx[d].call \in SevaCalls /\ Holds(d) \cap Holds(c) = {}
      BY <2>2, <1>0, RunningShape DEF OneHolder
    <3>2. SevaDoc(tx[d].call) \in Holds(d) =>
              seva'[SevaDoc(tx[d].call)] = seva[SevaDoc(tx[d].call)]
      BY <3>1, CallShape
    <3>3. tx[d].call.kind \notin SevaOnly /\ RegDoc(tx[d].call) \in Holds(d) =>
              reg'[RegDoc(tx[d].call)] = reg[RegDoc(tx[d].call)]
      BY <3>1, CallShape
    <3> QED
      BY <2>2, <3>2, <3>3, <1>0, <1>2, <1>4 DEF SawCurrent, SevaOnly
  <2>3. CASE d # c /\ ~Running(d)
    BY <2>3, <1>0, <1>2, <1>4 DEF SawCurrent
  <2> QED
    BY <2>1, <2>2, <2>3
<1> QED
  BY <1>1, <1>5, <1>6 DEF SafeReads

\* A transaction that has read nothing has its type.
LEMMA UnreadType ==
    ASSUME NEW call \in SevaCalls \cup {None}, NEW n \in 1..MaxAttempts
    PROVE  Unread(call, n) \in Tx /\ Unread(call, n).read = 0 /\ Unread(call, n).call = call
BY DEF Unread, Tx, Statuses

LEMMA IdleType == Idle \in Tx /\ Idle.read = 0 /\ Idle.call = None
BY UnreadType, SevaAssumption DEF Idle

\* A transaction that locks and reads its next document.
LEMMA ReadingSafe ==
    ASSUME SafeReads, NEW c \in Callers, Running(c), ~AllRead(c), Free(c, NextDoc(c)),
           NEW t \in Tx, tx' = [tx EXCEPT ![c] = t], UNCHANGED <<seva, reg, parted>>,
           t.call = tx[c].call, t.read = tx[c].read + 1,
           SevaDoc(t.call) \in Holds(c) \cup {NextDoc(c)} => t.sawSeva = seva[SevaDoc(t.call)],
           t.call.kind \notin SevaOnly /\ RegDoc(t.call) \in Holds(c) \cup {NextDoc(c)} =>
               t.sawReg = reg[RegDoc(t.call)]
    PROVE  SafeReads'
<1>0. TypeOK /\ OneHolder /\ SawCurrent /\ tx \in [Callers -> Tx]
  BY DEF SafeReads, TypeOK
<1>1. TypeOK'
  BY <1>0 DEF TypeOK
<1>2. tx'[c] = t /\ \A d \in Callers \ {c} : tx'[d] = tx[d]
  BY <1>0
<1>3. /\ t.call \in SevaCalls /\ t.read \in 1..Len(Reads(t.call))
      /\ Holds(c) = {Reads(t.call)[i] : i \in 1..tx[c].read}
      /\ NextDoc(c) = Reads(t.call)[t.read]
  BY RunningShape, ReadsShape DEF AllRead, NextDoc
<1>4. Running(c)' /\ Holds(c)' = Holds(c) \cup {NextDoc(c)}
  <2>1. Running(c)' /\ Holds(c)' = {Reads(t.call)[i] : i \in 1..t.read}
    BY <1>2 DEF Running, Holds
  <2>2. 1..t.read = 1..tx[c].read \cup {t.read}
    BY <1>3, RunningShape
  <2> QED
    BY <2>1, <2>2, <1>3
<1>5. \A d \in Callers \ {c} : Holds(d)' = Holds(d) /\ Running(d)' = Running(d)
  BY <1>2, OthersHold
<1>6. OneHolder'
  BY <1>0, <1>4, <1>5 DEF OneHolder, Free
<1>7. SawCurrent'
  <2> SUFFICES ASSUME NEW d \in Callers
               PROVE LET call == tx'[d].call IN
                     IF Running(d)'
                     THEN /\ tx'[d].read <= Len(Reads(call))
                          /\ SevaDoc(call) \in Holds(d)' => tx'[d].sawSeva = seva'[SevaDoc(call)]
                          /\ call.kind \notin SevaOnly /\ RegDoc(call) \in Holds(d)' =>
                                 tx'[d].sawReg = reg'[RegDoc(call)]
                     ELSE tx'[d].read = 0
    BY DEF SawCurrent
  <2>1. CASE d = c
    BY <2>1, <1>2, <1>3, <1>4, ReadsShape DEF SevaOnly
  <2>2. CASE d # c
    BY <2>2, <1>0, <1>2, <1>5 DEF SawCurrent
  <2> QED
    BY <2>1, <2>2
<1> QED
  BY <1>1, <1>6, <1>7 DEF SafeReads

LEMMA OneMore == ASSUME NEW n \in 1..2, NEW k \in 0..n, k # n PROVE k + 1 \in 0..2
OBVIOUS

\* A transaction that has read one more document has its type.
LEMMA ReadSevaType ==
    ASSUME NEW t \in Tx, t.read + 1 \in 0..2, NEW row \in Row \cup {None, Gone}
    PROVE  LET u == [t EXCEPT !.read = @ + 1, !.sawSeva = row] IN
           /\ u \in Tx /\ u.call = t.call /\ u.read = t.read + 1
           /\ u.sawSeva = row /\ u.sawReg = t.sawReg
BY DEF Tx

LEMMA ReadRegType ==
    ASSUME NEW t \in Tx, t.read + 1 \in 0..2, NEW status \in Statuses
    PROVE  LET u == [t EXCEPT !.read = @ + 1, !.sawReg = status] IN
           /\ u \in Tx /\ u.call = t.call /\ u.read = t.read + 1
           /\ u.sawSeva = t.sawSeva /\ u.sawReg = status
BY DEF Tx

LEMMA ReadSevaSafe == ASSUME SafeReads, NEW c \in Callers, ReadSeva(c) PROVE SafeReads'
<1> DEFINE call == tx[c].call
           t == [tx[c] EXCEPT !.read = @ + 1, !.sawSeva = seva[call.seva]]
<1>1. /\ Running(c) /\ ~AllRead(c) /\ NextDoc(c) = SevaDoc(call) /\ Free(c, NextDoc(c))
      /\ tx' = [tx EXCEPT ![c] = t] /\ UNCHANGED <<seva, reg, parted>>
  BY DEF ReadSeva
<1>2. /\ tx[c] \in Tx /\ call \in SevaCalls /\ tx[c].read \in 0..Len(Reads(call))
      /\ Len(Reads(call)) \in 1..2 /\ tx[c].read # Len(Reads(call))
  BY <1>1, RunningShape, ReadsShape DEF AllRead
<1>3. SevaDoc(call) = call.seva /\ seva[call.seva] \in Row \cup {None, Gone}
  BY <1>2, CallShape DEF SafeReads, TypeOK
<1>a. tx[c].read + 1 \in 0..2
  BY <1>2, OneMore
<1>4. t \in Tx /\ t.call = call /\ t.read = tx[c].read + 1
      /\ t.sawSeva = seva[call.seva] /\ t.sawReg = tx[c].sawReg
  BY <1>2, <1>3, <1>a, ReadSevaType
<1>5. call.kind \notin SevaOnly /\ RegDoc(call) \in Holds(c) \cup {NextDoc(c)} =>
          t.sawReg = reg[RegDoc(call)]
  <2> SUFFICES ASSUME call.kind \notin SevaOnly, RegDoc(call) \in Holds(c) \cup {NextDoc(c)}
               PROVE  tx[c].sawReg = reg[RegDoc(call)]
    BY <1>4
  <2>1. RegDoc(call) \in Holds(c)
    BY <1>1, <1>2, DifferentDocs
  <2> QED
    BY <2>1, <1>1 DEF SafeReads, SawCurrent, SevaOnly
<1> HIDE DEF t
<1> QED
  BY <1>1, <1>3, <1>4, <1>5, ReadingSafe

\* A transaction that changes no document and holds none keeps the rest safe.
LEMMA QuietRestart ==
    ASSUME SafeReads, NEW c \in Callers, NEW t \in Tx, t.read = 0,
           tx' = [tx EXCEPT ![c] = t], UNCHANGED <<seva, reg>>,
           UNCHANGED parted \/ parted' \in 0..MaxOneSided
    PROVE  SafeReads'
<1>1. seva \in [Sevas -> Row \cup {None, Gone}] /\ reg \in [Users \X Sevas -> Statuses]
  BY DEF SafeReads, TypeOK
<1> QED
  BY <1>1, RestartSafe

LEMMA ReadRegSafe == ASSUME SafeReads, NEW c \in Callers, ReadReg(c) PROVE SafeReads'
<1> DEFINE call == tx[c].call
           t == [tx[c] EXCEPT !.read = @ + 1, !.sawReg = reg[RegDoc(call)]]
<1>1. CASE call.kind = "attend" /\ reg[RegDoc(call)] = "none"
  BY <1>1, IdleType, QuietRestart DEF ReadReg, End
<1>2. CASE ~(call.kind = "attend" /\ reg[RegDoc(call)] = "none")
  <2>1. /\ Running(c) /\ ~AllRead(c) /\ NextDoc(c) # SevaDoc(call)
        /\ tx' = [tx EXCEPT ![c] = t] /\ UNCHANGED <<seva, reg, parted>>
        /\ Free(c, RegDoc(call))
    BY <1>2 DEF ReadReg
  <2>2. /\ tx[c] \in Tx /\ call \in SevaCalls /\ tx[c].read \in 0..Len(Reads(call))
        /\ Len(Reads(call)) \in 1..2 /\ tx[c].read # Len(Reads(call))
    BY <2>1, RunningShape, ReadsShape DEF AllRead
  <2>3. call.kind \notin SevaOnly /\ NextDoc(c) = RegDoc(call)
    BY <2>1, <2>2, ReadsShape DEF NextDoc
  <2>4. /\ RegDoc(call) = <<call.user, call.seva>>
        /\ reg[RegDoc(call)] \in Statuses
    BY <2>2, <2>3, CallShape DEF SafeReads, TypeOK
  <2>a. tx[c].read + 1 \in 0..2
    BY <2>2, OneMore
  <2>5. t \in Tx /\ t.call = call /\ t.read = tx[c].read + 1
        /\ t.sawSeva = tx[c].sawSeva /\ t.sawReg = reg[RegDoc(call)]
    BY <2>2, <2>4, <2>a, ReadRegType
  <2>6. SevaDoc(call) \in Holds(c) \cup {NextDoc(c)} => t.sawSeva = seva[SevaDoc(call)]
    BY <2>1, <2>5 DEF SafeReads, SawCurrent
  <2> HIDE DEF t
  <2> QED
    BY <2>1, <2>3, <2>5, <2>6, ReadingSafe
<1> QED
  BY <1>1, <1>2

LEMMA BeginSafe == ASSUME SafeReads, NEW c \in Callers, Begin(c) PROVE SafeReads'
<1>1. PICK call \in SevaCalls : tx' = [tx EXCEPT ![c] = Unread(call, 1)]
  BY DEF Begin
<1>2. UNCHANGED <<seva, reg>> /\ (UNCHANGED parted \/ parted' \in 0..MaxOneSided)
  <2>1. parted \in 0..MaxOneSided
    BY DEF SafeReads, TypeOK
  <2>2. UNCHANGED parted \/ (parted < MaxOneSided /\ parted' = parted + 1)
    BY DEF Begin
  <2> QED
    BY <2>1, <2>2, SevaAssumption DEF Begin
<1>3. Unread(call, 1) \in Tx /\ Unread(call, 1).read = 0
  BY UnreadType, SevaAssumption
<1> QED
  BY <1>1, <1>2, <1>3, QuietRestart

LEMMA VictimSafe == ASSUME SafeReads, NEW c \in Callers, DeadlockVictim(c) PROVE SafeReads'
<1>1. CASE MayRetry(tx[c].attempt)
  <2> DEFINE t == Unread(tx[c].call, NextAttempt(tx[c].attempt))
  <2>1. tx' = [tx EXCEPT ![c] = t] /\ UNCHANGED <<seva, reg, parted>>
    BY <1>1 DEF DeadlockVictim
  <2>2. tx[c].call \in SevaCalls \cup {None} /\ tx[c].attempt \in 1..MaxAttempts
    BY DEF SafeReads, TypeOK, Tx
  <2>3. NextAttempt(tx[c].attempt) \in 1..MaxAttempts
    BY <1>1, <2>2, SevaAssumption DEF MayRetry, NextAttempt
  <2>4. t \in Tx /\ t.read = 0
    BY <2>2, <2>3, UnreadType
  <2> HIDE DEF t
  <2> QED
    BY <2>1, <2>4, QuietRestart
<1>2. CASE ~MayRetry(tx[c].attempt)
  BY <1>2, IdleType, QuietRestart DEF DeadlockVictim, End
<1> QED
  BY <1>1, <1>2

LEMMA CreateSafe == ASSUME SafeReads, NEW s \in Sevas, Create(s) PROVE SafeReads'
<1>0. TypeOK /\ OneHolder /\ SawCurrent
  BY DEF SafeReads
<1>1. PICK max \in Sizes \ {0} : seva' = [seva EXCEPT ![s] = [count |-> 0, max |-> max]]
  BY DEF Create
<1>2. UNCHANGED <<reg, tx, parted>> /\ \A c \in Callers : s \notin Holds(c)
  BY DEF Create
<1>3. TypeOK'
  <2>1. [count |-> 0, max |-> max] \in Row
    BY DEF Row
  <2> QED
    BY <2>1, <1>0, <1>1, <1>2 DEF TypeOK
<1>4. \A c \in Callers : Holds(c)' = Holds(c) /\ Running(c)' = Running(c)
  BY <1>2, OthersHold
<1>5. OneHolder'
  BY <1>0, <1>4 DEF OneHolder
<1>6. \A c \in Callers : SevaDoc(tx[c].call) \in Holds(c) =>
          seva'[SevaDoc(tx[c].call)] = seva[SevaDoc(tx[c].call)]
  <2> SUFFICES ASSUME NEW c \in Callers, SevaDoc(tx[c].call) \in Holds(c)
               PROVE  seva'[SevaDoc(tx[c].call)] = seva[SevaDoc(tx[c].call)]
    OBVIOUS
  <2>1. Running(c)
    BY DEF Holds
  <2>2. SevaDoc(tx[c].call) \in Sevas
    BY <2>1, RunningShape, CallShape
  <2> QED
    BY <2>2, <1>0, <1>1, <1>2 DEF TypeOK
<1>7. SawCurrent'
  BY <1>0, <1>2, <1>4, <1>6 DEF SawCurrent
<1> QED
  BY <1>3, <1>5, <1>7 DEF SafeReads

-----------------------------------------------------------------------------
(* The commit *)

\* With all its documents read, a transaction sees them as they are.
LEMMA AllReadCurrent ==
    ASSUME SafeReads, NEW c \in Callers, Running(c), AllRead(c)
    PROVE  LET call == tx[c].call IN
           /\ call \in SevaCalls
           /\ call.kind \notin RegOnly =>
                  SevaDoc(call) \in Holds(c) /\ tx[c].sawSeva = seva[SevaDoc(call)]
           /\ call.kind \notin SevaOnly =>
                  RegDoc(call) \in Holds(c) /\ tx[c].sawReg = reg[RegDoc(call)]
<1> DEFINE call == tx[c].call
<1>1. call \in SevaCalls /\ Holds(c) = {Reads(call)[i] : i \in 1..Len(Reads(call))}
  BY RunningShape DEF AllRead
<1>2. call.kind \notin RegOnly => SevaDoc(call) \in Holds(c)
  BY <1>1, ReadsShape
<1>3. call.kind \notin SevaOnly => RegDoc(call) \in Holds(c)
  BY <1>1, ReadsShape
<1> QED
  BY <1>1, <1>2, <1>3 DEF SafeReads, SawCurrent

\* The ways a call ends: nothing written; maxVolunteers edited; the counter set; the
\* seva deleted; a registration written, and the counter moved by its increment.
LEMMA FinishEffect ==
    ASSUME SafeReads, NEW c \in Callers, Finish(c)
    PROVE  LET call == tx[c].call
               row == seva[call.seva]
               status == reg[RegDoc(call)]
               n == Increment(call, row, status)
           IN
           /\ call \in SevaCalls /\ Running(c) /\ AllRead(c)
           /\ tx' = [tx EXCEPT ![c] = Idle] /\ UNCHANGED parted
           /\ \/ UNCHANGED <<seva, reg>>
              \/ /\ call.kind = "edit" /\ Exists(row) /\ reg' = reg
                 /\ seva' = [seva EXCEPT ![call.seva].max = call.max]
              \/ /\ call.kind = "recount" /\ Exists(row) /\ reg' = reg
                 /\ seva' = [seva EXCEPT ![call.seva].count = call.count]
              \/ /\ call.kind = "delete" /\ reg' = reg
                 /\ seva' = [seva EXCEPT ![call.seva] = Gone]
              \/ /\ call.kind \notin SevaOnly
                 /\ Accepted(call, row, status)
                 /\ reg' = [reg EXCEPT ![RegDoc(call)] = NewStatus(call)]
                 /\ seva' = IF n = 0 THEN seva ELSE [seva EXCEPT ![call.seva].count = @ + n]
                 /\ n # 0 => Exists(row)
<1> DEFINE call == tx[c].call
           row == seva[call.seva]
           status == reg[RegDoc(call)]
           n == Increment(call, row, status)
           sawN == Increment(call, tx[c].sawSeva, tx[c].sawReg)
<1>1. /\ call \in SevaCalls /\ Running(c) /\ AllRead(c)
      /\ tx' = [tx EXCEPT ![c] = Idle] /\ UNCHANGED parted
  BY AllReadCurrent DEF Finish, End
<1>2. /\ call.kind \notin RegOnly => tx[c].sawSeva = row
      /\ call.kind \notin SevaOnly => tx[c].sawReg = status
  BY <1>1, AllReadCurrent DEF SevaDoc
<1>3. CASE ~Accepted(call, tx[c].sawSeva, tx[c].sawReg)
           \/ ((sawN # 0 \/ call.kind \in {"edit", "recount"}) /\ ~Exists(row))
  BY <1>1, <1>3 DEF Finish
<1>4. CASE /\ Accepted(call, tx[c].sawSeva, tx[c].sawReg)
           /\ (sawN # 0 \/ call.kind \in {"edit", "recount"}) => Exists(row)
  <2>1. /\ seva' = CASE call.kind = "edit" -> [seva EXCEPT ![call.seva].max = call.max]
                      [] call.kind = "recount" -> [seva EXCEPT ![call.seva].count = call.count]
                      [] call.kind = "delete" -> [seva EXCEPT ![call.seva] = Gone]
                      [] call.kind \notin SevaOnly /\ sawN # 0 ->
                             [seva EXCEPT ![call.seva].count = @ + sawN]
                      [] OTHER -> seva
        /\ reg' = IF call.kind \in SevaOnly THEN reg
                  ELSE [reg EXCEPT ![RegDoc(call)] = NewStatus(call)]
    BY <1>4 DEF Finish
  <2>2. CASE call.kind \in SevaOnly
    BY <2>1, <2>2, <1>1, <1>4 DEF SevaOnly
  <2>3. CASE call.kind \notin SevaOnly
    <3>1. sawN = n /\ Accepted(call, row, status)
      <4>1. CASE call.kind \in RegOnly
        BY <4>1, <1>2, <1>4 DEF Increment, Accepted, SevaOnly, RegOnly
      <4>2. CASE call.kind \notin RegOnly
        BY <4>2, <2>3, <1>2, <1>4
      <4> QED
        BY <4>1, <4>2
    <3>2. seva' = IF n = 0 THEN seva ELSE [seva EXCEPT ![call.seva].count = @ + n]
      BY <2>1, <2>3, <3>1 DEF SevaOnly
    <3>3. reg' = [reg EXCEPT ![RegDoc(call)] = NewStatus(call)]
      BY <2>1, <2>3 DEF SevaOnly
    <3>4. n # 0 => Exists(row)
      BY <1>4, <3>1
    <3> QED
      BY <1>1, <2>3, <3>1, <3>2, <3>3, <3>4, Zenon
  <2> QED
    BY <2>2, <2>3
<1> QED
  BY <1>3, <1>4

\* The new status is one; an increment is by one place.
LEMMA NewStatusType ==
    ASSUME NEW call \in SevaCalls, call.kind \notin SevaOnly
    PROVE  NewStatus(call) \in Statuses \ {"none"}
BY CallShape DEF NewStatus, Statuses, SevaCalls, AllKinds, SevaOnly

LEMMA IncrementType ==
    ASSUME NEW call \in SevaCalls, call.kind \notin SevaOnly, NEW row, NEW status,
           Accepted(call, row, status)
    PROVE  Increment(call, row, status) \in {-1, 0, 1}
<1>1. call.kind \in AllKinds \ SevaOnly
  BY CallShape
<1> QED
  BY <1>1 DEF Accepted, Increment, AllKinds, SevaOnly

LEMMA FinishSafe == ASSUME SafeReads, NEW c \in Callers, Finish(c) PROVE SafeReads'
<1> DEFINE call == tx[c].call
           row == seva[call.seva]
           status == reg[RegDoc(call)]
           n == Increment(call, row, status)
<1>0. /\ seva \in [Sevas -> Row \cup {None, Gone}] /\ reg \in [Users \X Sevas -> Statuses]
  BY DEF SafeReads, TypeOK
<1>1. /\ call \in SevaCalls /\ Running(c) /\ AllRead(c)
      /\ tx' = [tx EXCEPT ![c] = Idle] /\ UNCHANGED parted
  BY FinishEffect
<1>2. /\ call.seva \in Sevas
      /\ call.kind \notin RegOnly => call.seva \in Holds(c)
      /\ call.kind \notin SevaOnly => RegDoc(call) \in Holds(c) /\ RegDoc(call) \in Users \X Sevas
  BY <1>1, AllReadCurrent, CallShape DEF SevaDoc
<1>3. CASE UNCHANGED <<seva, reg>>
  BY <1>1, <1>3, IdleType, QuietRestart
<1>4. CASE /\ call.kind = "edit" /\ Exists(row) /\ reg' = reg
           /\ seva' = [seva EXCEPT ![call.seva].max = call.max]
  <2>1. row \in Row /\ call.max \in Sizes /\ call.seva \in Holds(c)
    BY <1>0, <1>1, <1>2, <1>4 DEF Exists, SevaCalls, RegOnly
  <2>2. [row EXCEPT !.max = call.max] \in Row
    BY <2>1 DEF Row
  <2>3. seva' = [seva EXCEPT ![call.seva] = [row EXCEPT !.max = call.max]]
    BY <1>4
  <2> HIDE DEF row
  <2>4. /\ seva' \in [Sevas -> Row \cup {None, Gone}]
        /\ \A s \in Sevas : s \notin Holds(c) => seva'[s] = seva[s]
    BY <1>0, <1>2, <2>1, <2>2, <2>3
  <2>5. reg' \in [Users \X Sevas -> Statuses] /\ \A p \in Users \X Sevas : reg'[p] = reg[p]
    BY <1>0, <1>4
  <2> QED
    BY <1>1, <2>4, <2>5, IdleType, RestartSafe
<1>5. CASE /\ call.kind = "delete" /\ reg' = reg
           /\ seva' = [seva EXCEPT ![call.seva] = Gone]
  <2>1. call.seva \in Holds(c)
    BY <1>2, <1>5 DEF RegOnly
  <2> QED
    BY <1>0, <1>1, <1>2, <1>5, <2>1, IdleType, RestartSafe
<1>7. CASE /\ call.kind = "recount" /\ Exists(row) /\ reg' = reg
           /\ seva' = [seva EXCEPT ![call.seva].count = call.count]
  <2>1. row \in Row /\ call.count \in Int /\ call.seva \in Holds(c)
    BY <1>0, <1>1, <1>2, <1>7, SevaAssumption DEF Exists, SevaCalls, RegOnly
  <2>2. [row EXCEPT !.count = call.count] \in Row
    BY <2>1 DEF Row
  <2>3. seva' = [seva EXCEPT ![call.seva] = [row EXCEPT !.count = call.count]]
    BY <1>7
  <2> HIDE DEF row
  <2>4. /\ seva' \in [Sevas -> Row \cup {None, Gone}]
        /\ \A s \in Sevas : s \notin Holds(c) => seva'[s] = seva[s]
    BY <1>0, <1>2, <2>1, <2>2, <2>3
  <2>5. reg' \in [Users \X Sevas -> Statuses] /\ \A p \in Users \X Sevas : reg'[p] = reg[p]
    BY <1>0, <1>7
  <2> QED
    BY <1>1, <2>4, <2>5, IdleType, RestartSafe
<1>6. CASE /\ call.kind \notin SevaOnly
           /\ Accepted(call, row, status)
           /\ reg' = [reg EXCEPT ![RegDoc(call)] = NewStatus(call)]
           /\ seva' = IF n = 0 THEN seva ELSE [seva EXCEPT ![call.seva].count = @ + n]
           /\ n # 0 => Exists(row)
  <2>1. reg' \in [Users \X Sevas -> Statuses]
    BY <1>0, <1>1, <1>6, NewStatusType
  <2>2. \A p \in Users \X Sevas : p \notin Holds(c) => reg'[p] = reg[p]
    BY <1>0, <1>2, <1>6
  <2>3. CASE n = 0
    BY <1>0, <1>1, <1>6, <2>1, <2>2, <2>3, IdleType, RestartSafe
  <2>4. CASE n # 0
    <3>1. row \in Row /\ call.kind \notin RegOnly
      <4>1. row \in Row
        BY <1>0, <1>2, <1>6, <2>4 DEF Exists
      <4>2. call.kind \notin RegOnly
        BY <2>4 DEF Increment, RegOnly
      <4> QED
        BY <4>1, <4>2
    <3>2. row.count + n \in Int
      <4>1. n \in {-1, 0, 1}
        BY <1>1, <1>6, IncrementType
      <4>2. row.count \in Int
        BY <3>1 DEF Row
      <4> HIDE DEF n
      <4> QED
        BY <4>1, <4>2
    <3>3. [row EXCEPT !.count = @ + n] \in Row
      BY <3>1, <3>2 DEF Row
    <3>4. seva' = [seva EXCEPT ![call.seva] = [row EXCEPT !.count = @ + n]]
      BY <1>6, <2>4
    <3> HIDE DEF n, row
    <3>5. /\ seva' \in [Sevas -> Row \cup {None, Gone}]
          /\ \A s \in Sevas : s \notin Holds(c) => seva'[s] = seva[s]
      BY <1>0, <1>2, <3>1, <3>3, <3>4
    <3> QED
      BY <1>1, <2>1, <2>2, <3>5, IdleType, RestartSafe
  <2> QED
    BY <2>3, <2>4
<1> QED
  BY <1>3, <1>4, <1>5, <1>6, <1>7, FinishEffect

-----------------------------------------------------------------------------
LEMMA InitSafe == Init => SafeReads
<1> SUFFICES ASSUME Init PROVE SafeReads
  OBVIOUS
<1>1. \A c \in Callers : tx[c] = Idle /\ Holds(c) = {} /\ ~Running(c)
  BY IdleType DEF Init, Holds, Running
<1>2. tx \in [Callers -> Tx]
  BY IdleType DEF Init
<1>3. reg \in [Users \X Sevas -> Statuses]
  BY DEF Init, Statuses
<1>4. seva \in [Sevas -> Row \cup {None, Gone}]
  <2>1. PICK max \in [Sevas -> Sizes \cup {None}] :
            seva = [s \in Sevas |-> IF max[s] = None THEN None
                                     ELSE [count |-> Cardinality(Volunteers(reg, s)),
                                           max |-> max[s]]]
    BY DEF Init
  <2>2. \A s \in Sevas : Cardinality(Volunteers(reg, s)) \in Nat
    BY SevaAssumption, FS_Subset, FS_CardinalityType DEF Volunteers
  <2> QED
    BY <2>1, <2>2 DEF Row
<1>5. OneHolder /\ SawCurrent
  BY <1>1, IdleType DEF OneHolder, SawCurrent
<1>6. parted \in 0..MaxOneSided
  <2>1. parted = 0
    BY DEF Init
  <2> QED
    BY <2>1, SevaAssumption
<1> QED
  BY <1>2, <1>3, <1>4, <1>5, <1>6 DEF SafeReads, TypeOK

LEMMA NextSafe == SafeReads /\ [Next]_vars => SafeReads'
<1> SUFFICES ASSUME SafeReads, [Next]_vars PROVE SafeReads'
  OBVIOUS
<1>1. ASSUME NEW s \in Sevas, Create(s) PROVE SafeReads'
  BY <1>1, CreateSafe
<1>2. ASSUME NEW c \in Callers, Begin(c) PROVE SafeReads'
  BY <1>2, BeginSafe
<1>3. ASSUME NEW c \in Callers, Proceed(c) PROVE SafeReads'
  BY <1>3, ReadSevaSafe, ReadRegSafe, FinishSafe DEF Proceed
<1>4. ASSUME NEW c \in Callers, Fail(c) PROVE SafeReads'
  BY <1>4, IdleType, QuietRestart DEF Fail, End
<1>5. ASSUME NEW c \in Callers, DeadlockVictim(c) PROVE SafeReads'
  BY <1>5, VictimSafe
<1>6. ASSUME UNCHANGED vars PROVE SafeReads'
  <2>1. UNCHANGED <<seva, reg, tx, parted>>
    BY <1>6 DEF vars
  <2>2. \A c \in Callers : Holds(c)' = Holds(c) /\ Running(c)' = Running(c)
    BY <2>1, OthersHold
  <2> QED
    BY <2>1, <2>2 DEF SafeReads, TypeOK, OneHolder, SawCurrent
<1> QED
  BY <1>1, <1>2, <1>3, <1>4, <1>5, <1>6 DEF Next

\* Every document and transaction keeps its type: no call is tried more than
\* maxAttempts times.
THEOREM TypeCorrect == Spec => []TypeOK
<1>1. SafeReads => TypeOK
  BY DEF SafeReads
<1> QED
  BY InitSafe, NextSafe, <1>1, PTL DEF Spec

\* Two transactions never have one document locked, and what a transaction has
\* read is what the document holds until it ends.
THEOREM ReadsStayTrue == Spec => [](OneHolder /\ SawCurrent)
<1>1. SafeReads => OneHolder /\ SawCurrent
  BY DEF SafeReads
<1> QED
  BY InitSafe, NextSafe, <1>1, PTL DEF Spec

-----------------------------------------------------------------------------
(* The counter *)

\* What a status counts for.
Place(status) == IF Held(status) THEN 1 ELSE 0

LEMMA VolunteersFinite ==
    ASSUME NEW f, NEW s
    PROVE  IsFiniteSet(Volunteers(f, s)) /\ Cardinality(Volunteers(f, s)) \in Nat
BY SevaAssumption, FS_Subset, FS_CardinalityType DEF Volunteers

\* Adding or removing one element.
LEMMA OneMember ==
    ASSUME NEW old, IsFiniteSet(old), Cardinality(old) \in Nat, NEW u, NEW new,
           new = old \cup {u} \/ new = old \ {u}
    PROVE  /\ u \in old /\ u \in new => Cardinality(new) = Cardinality(old)
           /\ u \notin old /\ u \notin new => Cardinality(new) = Cardinality(old)
           /\ u \notin old /\ u \in new => Cardinality(new) = Cardinality(old) + 1
           /\ u \in old /\ u \notin new => Cardinality(new) = Cardinality(old) - 1
           /\ u \in old => Cardinality(old) > 0
<1>1. /\ u \in old => Cardinality(old \cup {u}) = Cardinality(old)
      /\ u \notin old => Cardinality(old \cup {u}) = Cardinality(old) + 1
      /\ u \in old => Cardinality(old \ {u}) = Cardinality(old) - 1
      /\ u \notin old => Cardinality(old \ {u}) = Cardinality(old)
  BY FS_AddElement, FS_RemoveElement
<1>2. u \in old => Cardinality(old) > 0
  <2>1. Cardinality(old) = 0 <=> old = {}
    BY FS_EmptySet
  <2> QED
    BY <2>1
<1>3. u \in old /\ new = old \cup {u} => new = old
  OBVIOUS
<1>4. u \notin old /\ new = old \ {u} => new = old
  OBVIOUS
<1> QED
  BY <1>1, <1>2, <1>3, <1>4

\* No other member's status for the seva differs.
OthersSame(f, g, s, u) == \A v \in Users \ {u} : g[v, s] = f[v, s]

\* One member's status moves the number of volunteers by that member alone.
LEMMA OneVolunteer ==
    ASSUME NEW f \in [Users \X Sevas -> Statuses], NEW g \in [Users \X Sevas -> Statuses],
           NEW s \in Sevas, NEW u \in Users, OthersSame(f, g, s, u)
    PROVE  LET n == Cardinality(Volunteers(f, s))
               m == Cardinality(Volunteers(g, s))
           IN  /\ n \in Nat
               /\ Held(f[u, s]) /\ Held(g[u, s]) => m = n
               /\ ~Held(f[u, s]) /\ ~Held(g[u, s]) => m = n
               /\ ~Held(f[u, s]) /\ Held(g[u, s]) => m = n + 1
               /\ Held(f[u, s]) /\ ~Held(g[u, s]) => m = n - 1
               /\ Held(f[u, s]) => n > 0
<1> DEFINE old == Volunteers(f, s)
           new == Volunteers(g, s)
<1>1. IsFiniteSet(old) /\ Cardinality(old) \in Nat
  BY VolunteersFinite
<1>2. (u \in old <=> Held(f[u, s])) /\ (u \in new <=> Held(g[u, s]))
  BY DEF Volunteers
<1>3. new = old \cup {u} \/ new = old \ {u}
  <2>1. \A v \in Users \ {u} : v \in new <=> v \in old
    BY DEF Volunteers, OthersSame
  <2>2. new \subseteq Users /\ old \subseteq Users
    BY DEF Volunteers
  <2> HIDE DEF old, new
  <2> QED
    BY <2>1, <2>2
<1> HIDE DEF old, new
<1>4. /\ u \in old /\ u \in new => Cardinality(new) = Cardinality(old)
      /\ u \notin old /\ u \notin new => Cardinality(new) = Cardinality(old)
      /\ u \notin old /\ u \in new => Cardinality(new) = Cardinality(old) + 1
      /\ u \in old /\ u \notin new => Cardinality(new) = Cardinality(old) - 1
      /\ u \in old => Cardinality(old) > 0
  BY <1>1, <1>3, OneMember
<1> QED
  BY <1>1, <1>2, <1>4, Zenon DEF old, new

\* Only Finish changes a registration, or a seva that exists.
LEMMA OnlyFinishWrites ==
    ASSUME [Next]_vars
    PROVE  \/ \E s \in Sevas : Create(s)
           \/ \E c \in Callers : Finish(c)
           \/ UNCHANGED <<seva, reg>>
BY DEF Next, vars, Begin, Proceed, ReadSeva, ReadReg, Fail, DeadlockVictim

\* What a call that writes adds to the counter is what its new status counts for
\* less what the old one did; or nothing, when it frees a place and the counter is
\* not above zero.
InStep(n, count, old, new) ==
    \/ n = Place(new) - Place(old)
    \/ n = 0 /\ count <= 0 /\ Held(old) /\ ~Held(new)

LEMMA IncrementInStep ==
    ASSUME NEW call \in SevaCalls, call.kind \notin SevaOnly \cup OneSided,
           NEW row \in Row, Exists(row), NEW status, Accepted(call, row, status)
    PROVE  InStep(Increment(call, row, status), row.count, status, NewStatus(call))
<1>0. call.kind \in AllKinds \ (SevaOnly \cup OneSided) /\ row.count \in Int
  BY CallShape DEF Row
<1>1. CASE call.kind \in {"join", "webjoin"}
  BY <1>1 DEF Accepted, Increment, NewStatus, InStep, Place, Held, MayTake
<1>2. CASE call.kind \in {"cancel", "webleave", "roster"}
  BY <1>0, <1>2 DEF Accepted, Increment, NewStatus, InStep, Place, Held
<1>3. CASE call.kind = "attend"
  BY <1>0, <1>3 DEF Accepted, Increment, NewStatus, InStep, Place
<1> QED
  BY <1>0, <1>1, <1>2, <1>3 DEF AllKinds, SevaOnly, OneSided

\* The same of the counter and the number of volunteers.
LEMMA PlaceMoves ==
    ASSUME NEW a \in Int, NEW n \in {-1, 0, 1}, NEW b, b = a + n,
           NEW held \in Nat, NEW after, NEW old, NEW new,
           Held(old) /\ Held(new) => after = held,
           ~Held(old) /\ ~Held(new) => after = held,
           ~Held(old) /\ Held(new) => after = held + 1,
           Held(old) /\ ~Held(new) => after = held - 1,
           InStep(n, a, old, new)
    PROVE  b - a = after - held \/ (b = a /\ a <= 0 /\ after < held)
<1>1. b - a = n
  OBVIOUS
<1>2. CASE n = Place(new) - Place(old)
  BY <1>1, <1>2 DEF Place
<1>3. CASE n = 0 /\ a <= 0 /\ Held(old) /\ ~Held(new)
  BY <1>3
<1> QED
  BY <1>2, <1>3 DEF InStep

\* The counter of s moved with the volunteers of s.
Moved(s) ==
    LET held == Cardinality(Volunteers(reg, s))
        after == Cardinality(Volunteers(reg', s))
    IN  \/ seva'[s].count - seva[s].count = after - held
        \/ seva'[s].count = seva[s].count /\ seva[s].count <= 0 /\ after < held

LEMMA NoDifference == ASSUME NEW a \in Nat, NEW b \in Int PROVE b - b = a - a
OBVIOUS

\* A seva whose counter and registrations a step leaves alone.
Untouched(s) ==
    /\ seva'[s].count = seva[s].count
    /\ \A u \in Users : reg'[u, s] = reg[u, s]

LEMMA StillMoved ==
    ASSUME SafeReads, NEW s \in Sevas, Exists(seva[s]), Untouched(s)
    PROVE  Moved(s)
<1>1. Volunteers(reg', s) = Volunteers(reg, s)
  BY DEF Volunteers, Untouched
<1>2. seva[s].count \in Int
  BY DEF SafeReads, TypeOK, Exists, Row
<1>3. Cardinality(Volunteers(reg, s)) \in Nat
  BY VolunteersFinite
<1>4. seva[s].count - seva[s].count
          = Cardinality(Volunteers(reg, s)) - Cardinality(Volunteers(reg, s))
  BY <1>2, <1>3, NoDifference
<1> QED
  BY <1>1, <1>4, Zenon DEF Moved, Untouched

\* A registration u of s that got the status new, with an increment n in step.
Written(s, u, n, new) ==
    /\ InStep(n, seva[s].count, reg[u, s], new)
    /\ reg' = [reg EXCEPT ![<<u, s>>] = new]
    /\ seva'[s].count = seva[s].count + n

LEMMA WriteMoves ==
    ASSUME SafeReads, NEW s \in Sevas, NEW u \in Users, NEW n \in {-1, 0, 1},
           NEW new \in Statuses, Exists(seva[s]), Written(s, u, n, new)
    PROVE  Moved(s)
<1> DEFINE held == Cardinality(Volunteers(reg, s))
           after == Cardinality(Volunteers(reg', s))
           a == seva[s].count
           b == seva'[s].count
           was == reg[u, s]
<1>1. reg \in [Users \X Sevas -> Statuses] /\ a \in Int
  BY DEF SafeReads, TypeOK, Exists, Row
<1>2. /\ reg' \in [Users \X Sevas -> Statuses] /\ reg'[u, s] = new
      /\ OthersSame(reg, reg', s, u)
  BY <1>1 DEF OthersSame, Written
<1>3. b = a + n /\ InStep(n, a, was, new)
  BY DEF Written
<1>4. LET is == reg'[u, s]
      IN  /\ held \in Nat
          /\ Held(was) /\ Held(is) => after = held
          /\ ~Held(was) /\ ~Held(is) => after = held
          /\ ~Held(was) /\ Held(is) => after = held + 1
          /\ Held(was) /\ ~Held(is) => after = held - 1
          /\ Held(was) => held > 0
  BY <1>1, <1>2, OneVolunteer, Zenon
<1> HIDE DEF held, after, a, b, was
<1>5. /\ held \in Nat
      /\ Held(was) /\ Held(new) => after = held
      /\ ~Held(was) /\ ~Held(new) => after = held
      /\ ~Held(was) /\ Held(new) => after = held + 1
      /\ Held(was) /\ ~Held(new) => after = held - 1
  BY <1>2, <1>4
<1>6. b - a = after - held \/ (b = a /\ a <= 0 /\ after < held)
  BY <1>1, <1>3, <1>5, PlaceMoves
<1> QED
  BY <1>6, Zenon DEF Moved, held, after, a, b

\* A call that is not one-sided moves every counter with its registrations.
LEMMA FinishMoves ==
    ASSUME SafeReads, NEW c \in Callers, Finish(c), tx[c].call.kind \notin OneSided,
           NEW s \in Sevas, Exists(seva'[s])
    PROVE  Exists(seva[s]) /\ Moved(s)
<1> DEFINE call == tx[c].call
           row == seva[call.seva]
           status == reg[RegDoc(call)]
           n == Increment(call, row, status)
<1>0. /\ seva \in [Sevas -> Row \cup {None, Gone}] /\ reg \in [Users \X Sevas -> Statuses]
  BY DEF SafeReads, TypeOK
<1>1. call \in SevaCalls /\ call.seva \in Sevas
  BY FinishEffect, CallShape
<1>2. CASE UNCHANGED <<seva, reg>>
  BY <1>2, StillMoved DEF Untouched
<1>3. CASE /\ call.kind = "edit" /\ Exists(row) /\ reg' = reg
           /\ seva' = [seva EXCEPT ![call.seva].max = call.max]
  <2>1. row \in Row
    BY <1>0, <1>1, <1>3 DEF Exists
  <2>2. [row EXCEPT !.max = call.max].count = row.count
    BY <2>1 DEF Row
  <2>3. Exists(seva[s]) /\ seva'[s].count = seva[s].count
    BY <1>0, <1>3, <2>2
  <2> QED
    BY <2>3, <1>3, StillMoved DEF Untouched
<1>4. CASE /\ call.kind = "delete" /\ reg' = reg
           /\ seva' = [seva EXCEPT ![call.seva] = Gone]
  <2>1. seva'[s] = seva[s]
    BY <1>0, <1>4 DEF Exists
  <2> QED
    BY <2>1, <1>4, StillMoved DEF Untouched
<1>5. CASE /\ call.kind \notin SevaOnly
           /\ Accepted(call, row, status)
           /\ reg' = [reg EXCEPT ![RegDoc(call)] = NewStatus(call)]
           /\ seva' = IF n = 0 THEN seva ELSE [seva EXCEPT ![call.seva].count = @ + n]
           /\ n # 0 => Exists(row)
  <2>1. RegDoc(call) = <<call.user, call.seva>> /\ call.user \in Users
    BY <1>1, <1>5, CallShape
  <2>2. n \in {-1, 0, 1} /\ NewStatus(call) \in Statuses
    BY <1>1, <1>5, IncrementType, NewStatusType
  <2>3. CASE s # call.seva
    <3>1. seva'[s] = seva[s]
      BY <1>0, <1>1, <1>5, <2>3
    <3>2. ASSUME NEW u \in Users PROVE reg'[u, s] = reg[u, s]
      <4>1. <<u, s>> # RegDoc(call) /\ <<u, s>> \in Users \X Sevas
        BY <2>1, <2>3
      <4> QED
        BY <4>1, <1>0, <1>5
    <3> QED
      BY <3>1, <3>2, StillMoved DEF Untouched
  <2>4. CASE s = call.seva
    <3>1. Exists(row)
      BY <1>5, <2>4
    <3>2. row \in Row /\ row.count \in Int
      BY <3>1, <1>0, <1>1 DEF Exists, Row
    <3>3. InStep(n, row.count, status, NewStatus(call))
      BY <1>1, <1>5, <3>1, <3>2, IncrementInStep
    <3>4. seva'[s].count = row.count + n
      <4> HIDE DEF n
      <4>1. CASE n = 0
        BY <4>1, <1>5, <2>4, <3>2 DEF n
      <4>2. CASE n # 0
        <5>1. [row EXCEPT !.count = @ + n].count = row.count + n
          BY <3>2 DEF Row
        <5>2. seva'[s] = [row EXCEPT !.count = @ + n]
          BY <4>2, <1>0, <1>1, <1>5, <2>4 DEF n
        <5> QED
          BY <5>1, <5>2
      <4> QED
        BY <4>1, <4>2
    <3>5. reg' = [reg EXCEPT ![<<call.user, s>>] = NewStatus(call)] /\ status = reg[call.user, s]
      BY <1>5, <2>1, <2>4
    <3>6. row = seva[s]
      BY <2>4
    <3> HIDE DEF n, row, status
    <3>7. Written(s, call.user, n, NewStatus(call))
      BY <3>3, <3>4, <3>5, <3>6 DEF Written
    <3> QED
      BY <2>1, <2>2, <3>1, <3>6, <3>7, WriteMoves
  <2> QED
    BY <2>3, <2>4
<1>6. call.kind # "recount"
  BY DEF OneSided
<1> QED
  BY <1>2, <1>3, <1>4, <1>5, <1>6, FinishEffect

\* A created seva has no volunteers and a counter of zero.
LEMMA CreateCounts ==
    ASSUME SafeReads, NEW s \in Sevas, Create(s), NEW r \in Sevas
    PROVE  /\ r # s => seva'[r] = seva[r]
           /\ r = s => /\ ~Exists(seva[r]) /\ seva'[r].count = 0
                       /\ Cardinality(Volunteers(reg, r)) = 0
<1>0. seva \in [Sevas -> Row \cup {None, Gone}]
  BY DEF SafeReads, TypeOK
<1>1. PICK max \in Sizes \ {0} : seva' = [seva EXCEPT ![s] = [count |-> 0, max |-> max]]
  BY DEF Create
<1>2. seva[s] = None /\ Volunteers(reg, s) = {}
  BY DEF Create, Volunteers, Held
<1> QED
  BY <1>0, <1>1, <1>2, FS_EmptySet DEF Exists

LEMMA CounterStep ==
    ASSUME SafeReads, [Next]_vars, NEW s \in Sevas, Exists(seva[s]), Exists(seva'[s]),
           ~\E c \in Callers : Ends(c) /\ tx[c].call.kind \in OneSided
    PROVE  Moved(s)
<1>1. CASE \E r \in Sevas : Create(r)
  <2>1. PICK r \in Sevas : Create(r)
    BY <1>1
  <2>2. seva'[s] = seva[s] /\ reg' = reg
    BY <2>1, CreateCounts DEF Create
  <2> QED
    BY <2>2, StillMoved DEF Untouched
<1>2. CASE \E c \in Callers : Finish(c)
  <2>1. PICK c \in Callers : Finish(c)
    BY <1>2
  <2>2. Running(c) /\ tx' = [tx EXCEPT ![c] = Idle]
    BY <2>1, FinishEffect
  <2>3. Ends(c)
    BY <2>2, IdleType DEF Ends, SafeReads, TypeOK
  <2> QED
    BY <2>1, <2>3, FinishMoves
<1>3. CASE UNCHANGED <<seva, reg>>
  BY <1>3, StillMoved DEF Untouched
<1> QED
  BY <1>1, <1>2, <1>3, OnlyFinishWrites

\* Whatever calls, deadlocks and failures run at once, every counter moves with the
\* number of registrations that hold a place, except by the commits accepted on one
\* of the two alone.
THEOREM CountersMoveInStep == Spec => CounterInStep
<1>1. SafeReads /\ [Next]_vars =>
          [\A s \in Sevas :
               /\ Exists(seva[s]) /\ Exists(seva'[s])
               /\ ~\E c \in Callers : Ends(c) /\ tx[c].call.kind \in OneSided
               => LET held == Cardinality(Volunteers(reg, s))
                      after == Cardinality(Volunteers(reg', s))
                  IN  \/ seva'[s].count - seva[s].count = after - held
                      \/ seva'[s].count = seva[s].count /\ seva[s].count <= 0 /\ after < held]_vars
  BY CounterStep DEF Moved
<1> QED
  BY InitSafe, NextSafe, <1>1, PTL DEF Spec, CounterInStep

\* Until a one-sided commit is sent, no transaction is one, ...
Whole == \A c \in Callers : tx[c].call # None => tx[c].call.kind \notin OneSided

LEMMA WholeStep ==
    ASSUME IInv, [Next]_vars, parted' = 0
    PROVE  parted = 0 /\ CounterMatches /\ Whole /\ Whole'
<1>0. /\ parted \in 0..MaxOneSided /\ tx \in [Callers -> Tx]
      /\ SafeReads /\ (parted = 0 => CounterMatches /\ Whole)
  BY DEF IInv, SafeReads, TypeOK, NotParted, Whole
<1>1. parted = 0
  <2>1. parted' = parted \/ parted' = parted + 1
    BY DEF Next, vars, Create, Begin, Proceed, ReadSeva, ReadReg, Finish, Fail, DeadlockVictim
  <2> QED
    BY <2>1, <1>0, SevaAssumption
<1>2. ASSUME NEW c \in Callers, NEW t \in Tx, tx' = [tx EXCEPT ![c] = t],
             t.call # None => t.call.kind \notin OneSided
      PROVE  Whole'
  BY <1>0, <1>1, <1>2 DEF Whole
<1>3. ASSUME UNCHANGED tx PROVE Whole'
  BY <1>0, <1>1, <1>3 DEF Whole
<1>4. ASSUME NEW c \in Callers, End(c) PROVE Whole'
  BY <1>2, <1>4, IdleType DEF End
<1>5. ASSUME NEW c \in Callers, Begin(c) PROVE Whole'
  <2>1. PICK call \in SevaCalls :
            /\ tx' = [tx EXCEPT ![c] = Unread(call, 1)]
            /\ call.kind \in OneSided => parted' = parted + 1
    BY <1>5 DEF Begin
  <2>2. call.kind \notin OneSided
    BY <2>1, <1>1
  <2>3. Unread(call, 1) \in Tx /\ Unread(call, 1).call = call
    BY UnreadType, SevaAssumption
  <2> QED
    BY <1>2, <2>1, <2>2, <2>3
<1>6. ASSUME NEW c \in Callers, NEW t \in Tx, tx' = [tx EXCEPT ![c] = t], t.call = tx[c].call
      PROVE  Whole'
  BY <1>0, <1>1, <1>2, <1>6 DEF Whole
<1>7. ASSUME NEW c \in Callers, ReadSeva(c) \/ ReadReg(c) PROVE Whole'
  <2>1. \/ tx' = [tx EXCEPT ![c].read = @ + 1, ![c].sawSeva = seva[tx[c].call.seva]]
        \/ tx' = [tx EXCEPT ![c].read = @ + 1, ![c].sawReg = reg[RegDoc(tx[c].call)]]
        \/ End(c)
    BY <1>7 DEF ReadSeva, ReadReg
  <2>2. \A d \in Callers : tx'[d].call = tx[d].call \/ End(c)
    BY <2>1, <1>0 DEF Tx
  <2> QED
    BY <2>2, <1>0, <1>1, <1>4 DEF Whole
<1>8. ASSUME NEW c \in Callers, DeadlockVictim(c) PROVE Whole'
  <2>1. \/ tx' = [tx EXCEPT ![c] = Unread(tx[c].call, NextAttempt(tx[c].attempt))]
        \/ End(c)
    BY <1>8 DEF DeadlockVictim
  <2>2. (\A d \in Callers : tx'[d].call = tx[d].call) \/ End(c)
    BY <2>1, <1>0 DEF Unread
  <2> QED
    BY <2>2, <1>0, <1>1, <1>4 DEF Whole
<1>9. Whole'
  BY <1>3, <1>4, <1>5, <1>7, <1>8 DEF Next, vars, Create, Proceed, Finish, Fail
<1> QED
  BY <1>0, <1>1, <1>9

\* ... and every counter is the number of its volunteers.
LEMMA NextMatches == ASSUME IInv, [Next]_vars, parted' = 0 PROVE CounterMatches'
<1>0. SafeReads /\ CounterMatches /\ Whole
  BY WholeStep DEF IInv
<1> SUFFICES ASSUME NEW s \in Sevas, Exists(seva'[s])
             PROVE  seva'[s].count = Cardinality(Volunteers(reg', s))
  BY DEF CounterMatches
<1>1. CASE Exists(seva[s]) /\ Moved(s)
  <2> DEFINE held == Cardinality(Volunteers(reg, s))
             after == Cardinality(Volunteers(reg', s))
  <2>1. seva[s].count = held /\ held \in Nat /\ after \in Nat
    BY <1>0, <1>1, VolunteersFinite DEF CounterMatches
  <2>2. \/ seva'[s].count - seva[s].count = after - held
        \/ seva'[s].count = seva[s].count /\ seva[s].count <= 0 /\ after < held
    BY <1>1 DEF Moved
  <2>3. seva'[s].count \in Int
    BY NextSafe, <1>0 DEF SafeReads, TypeOK, Exists, Row
  <2> HIDE DEF held, after
  <2>4. seva'[s].count = after
    BY <2>1, <2>2, <2>3
  <2> QED
    BY <2>4 DEF after
<1>2. CASE \E r \in Sevas : Create(r)
  <2>1. PICK r \in Sevas : Create(r)
    BY <1>2
  <2>2. reg' = reg
    BY <2>1 DEF Create
  <2>3. CASE s = r
    BY <1>0, <2>1, <2>2, <2>3, CreateCounts
  <2>4. CASE s # r
    BY <1>0, <2>1, <2>2, <2>4, CreateCounts DEF CounterMatches
  <2> QED
    BY <2>3, <2>4
<1>3. CASE \E c \in Callers : Finish(c)
  <2>1. PICK c \in Callers : Finish(c)
    BY <1>3
  <2>2. tx[c].call.kind \notin OneSided
    BY <1>0, <2>1 DEF Whole, Finish, Running
  <2> QED
    BY <1>0, <1>1, <2>1, <2>2, FinishMoves
<1>4. CASE UNCHANGED <<seva, reg>>
  BY <1>0, <1>4 DEF CounterMatches
<1> QED
  BY <1>2, <1>3, <1>4, OnlyFinishWrites

LEMMA InitMatches == Init => NotParted
<1> SUFFICES ASSUME Init PROVE CounterMatches /\ Whole
  BY DEF NotParted, Whole
<1>1. PICK max \in [Sevas -> Sizes \cup {None}] :
          seva = [s \in Sevas |-> IF max[s] = None THEN None
                                  ELSE [count |-> Cardinality(Volunteers(reg, s)),
                                        max |-> max[s]]]
  BY DEF Init
<1>2. CounterMatches
  BY <1>1 DEF CounterMatches, Exists
<1>3. Whole
  BY IdleType DEF Init, Whole
<1> QED
  BY <1>2, <1>3

\* "sevas.countRegistered == #registrations in (registered, completed)" holds as
\* long as no commit is sent on a registration, or on the counter, alone.
THEOREM CounterCorrect == Spec => [](parted = 0 => CounterMatches)
<1>1. Init => IInv
  BY InitSafe, InitMatches DEF IInv
<1>2. IInv /\ [Next]_vars => IInv'
  <2>1. IInv /\ [Next]_vars => SafeReads'
    BY NextSafe DEF IInv
  <2>2. ASSUME IInv, [Next]_vars, parted' = 0 PROVE CounterMatches' /\ Whole'
    BY <2>2, WholeStep, NextMatches
  <2> QED
    BY <2>1, <2>2 DEF IInv, NotParted, Whole
<1>3. IInv => (parted = 0 => CounterMatches)
  BY DEF IInv, NotParted
<1> QED
  BY <1>1, <1>2, <1>3, PTL DEF Spec

-----------------------------------------------------------------------------
(* Action properties *)

LEMMA CompletedStep ==
    ASSUME SafeReads, [Next]_vars, NEW p \in Users \X Sevas,
           reg[p] = "completed", reg'[p] # "completed"
    PROVE  \E c \in Callers : Ends(c) /\ tx[c].call.kind \in {"attend", "stamp"}
<1>1. PICK c \in Callers : Finish(c)
  BY OnlyFinishWrites DEF Create
<1> DEFINE call == tx[c].call
           row == seva[call.seva]
           status == reg[RegDoc(call)]
<1>2. call \in SevaCalls /\ Ends(c)
  <2>1. call \in SevaCalls /\ Running(c) /\ tx' = [tx EXCEPT ![c] = Idle]
    BY <1>1, FinishEffect
  <2> QED
    BY <2>1, IdleType DEF Ends, SafeReads, TypeOK
<1>3. /\ call.kind \notin SevaOnly
      /\ Accepted(call, row, status)
      /\ reg' = [reg EXCEPT ![RegDoc(call)] = NewStatus(call)]
  BY <1>1, FinishEffect
<1>4. status = "completed"
  BY <1>3 DEF SafeReads, TypeOK
<1>5. call.kind \in {"attend", "stamp"}
  BY <1>3, <1>4 DEF Accepted, MayTake, Held, SevaOnly
<1> QED
  BY <1>2, <1>5

\* A registration staff marked completed stands: the member's own join or
\* cancellation never overwrites it, whatever it had read before.
THEOREM CompletedIsKept == Spec => CompletedStands
<1>1. SafeReads /\ [Next]_vars =>
          [\A p \in Users \X Sevas :
               reg[p] = "completed" /\ reg'[p] # "completed" =>
                   \E c \in Callers : Ends(c) /\ tx[c].call.kind \in {"attend", "stamp"}]_vars
  BY CompletedStep
<1> QED
  BY InitSafe, NextSafe, <1>1, PTL DEF Spec, CompletedStands

LEMMA JoinStep ==
    ASSUME SafeReads, [Next]_vars, NEW s \in Sevas,
           Exists(seva[s]), Exists(seva'[s]), seva'[s].count > seva[s].count,
           ~\E c \in Callers : Ends(c) /\ tx[c].call.kind \in {"attend", "recount"}
    PROVE  seva'[s].count <= seva'[s].max
<1>0. seva \in [Sevas -> Row \cup {None, Gone}] /\ seva[s] \in Row
  BY DEF SafeReads, TypeOK, Exists
<1>1. PICK c \in Callers : Finish(c)
  <2>1. ~\E r \in Sevas : Create(r)
    <3> SUFFICES ASSUME NEW r \in Sevas, Create(r) PROVE FALSE
      OBVIOUS
    <3>1. s # r
      BY DEF Create, Exists
    <3>2. seva'[s] = seva[s]
      BY <3>1, <1>0 DEF Create
    <3> QED
      BY <3>2, <1>0 DEF Row
  <2>2. ~UNCHANGED <<seva, reg>>
    BY <1>0 DEF Row
  <2> QED
    BY <2>1, <2>2, OnlyFinishWrites
<1> DEFINE call == tx[c].call
           row == seva[call.seva]
           status == reg[RegDoc(call)]
           n == Increment(call, row, status)
<1>2. call \in SevaCalls /\ call.kind \notin {"attend", "recount"}
  <2>1. call \in SevaCalls /\ Running(c) /\ tx' = [tx EXCEPT ![c] = Idle]
    BY <1>1, FinishEffect
  <2> QED
    BY <2>1, IdleType DEF Ends, SafeReads, TypeOK
<1>3. seva'[s].count # seva[s].count
  BY <1>0 DEF Row
<1>4. CASE call.kind = "edit" /\ seva' = [seva EXCEPT ![call.seva].max = call.max]
  <2>1. [seva[s] EXCEPT !.max = call.max].count = seva[s].count
    BY <1>0 DEF Row
  <2>2. seva'[s].count = seva[s].count
    BY <2>1, <1>0, <1>4
  <2> QED
    BY <2>2, <1>3
<1>5. CASE call.kind = "delete" /\ seva' = [seva EXCEPT ![call.seva] = Gone]
  BY <1>0, <1>3, <1>5 DEF Exists
<1>6. CASE /\ call.kind \notin SevaOnly
           /\ Accepted(call, row, status)
           /\ seva' = IF n = 0 THEN seva ELSE [seva EXCEPT ![call.seva].count = @ + n]
  <2>1. n # 0 /\ s = call.seva
    BY <1>0, <1>3, <1>6
  <2>2. seva'[s] = [seva[s] EXCEPT !.count = @ + n]
    BY <2>1, <1>0, <1>6
  <2>3. n \in {-1, 0, 1}
    BY <1>2, <1>6, IncrementType
  <2>4. seva'[s].count = seva[s].count + n /\ seva'[s].max = seva[s].max
    BY <2>2, <1>0 DEF Row
  <2>5. n = 1
    <3> HIDE DEF n
    <3> QED
      BY <2>3, <2>4, <1>0 DEF Row
  <2>6. call.kind \in {"join", "webjoin"}
    BY <2>5, <1>2 DEF Increment
  <2>7. seva[s].count + 1 <= seva[s].max
    <3>1. row.count < row.max \/ row.count + 1 <= row.max
      BY <2>6, <1>6 DEF Accepted
    <3>2. row = seva[s] /\ seva[s].count \in Int /\ seva[s].max \in Nat
      BY <2>1, <1>0, SevaAssumption DEF Row
    <3> HIDE DEF row
    <3> QED
      BY <3>1, <3>2
  <2> HIDE DEF n
  <2> QED
    BY <2>4, <2>5, <2>7
<1> QED
  BY <1>1, <1>2, <1>3, <1>4, <1>5, <1>6, FinishEffect

\* A member who joins never takes a place beyond maxVolunteers.
THEOREM JoinsFit == Spec => JoinsWithinCapacity
<1>1. SafeReads /\ [Next]_vars =>
          [\A s \in Sevas :
               /\ Exists(seva[s]) /\ Exists(seva'[s])
               /\ seva'[s].count > seva[s].count
               /\ ~\E c \in Callers : Ends(c) /\ tx[c].call.kind \in {"attend", "recount"}
               => seva'[s].count <= seva'[s].max]_vars
  BY JoinStep
<1> QED
  BY InitSafe, NextSafe, <1>1, PTL DEF Spec, JoinsWithinCapacity
=============================================================================
