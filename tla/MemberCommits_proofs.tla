------------------------- MODULE MemberCommits_proofs -------------------------
(***************************************************************************)
(* Proofs about EventRsvp, Attendance, ChangeFeed and Sadhana, for any     *)
(* members, requests, pages, days and bounds.  They share module           *)
(* MCMemberCommits, where each of them is an instance of its own.          *)
(***************************************************************************)
EXTENDS MCMemberCommits, SequenceTheorems, FiniteSetTheorems, WellFoundedInduction, TLAPS

-----------------------------------------------------------------------------
(* The RSVPs *)

Rsvp == [pc : {"idle", "read", "commit"}, event : EventDoc \cup {None},
         registration : RegistrationDoc \cup {None}]

Answers(status) == {m \in Members : registration[m] # None /\ registration[m].status = status}

Types ==
    /\ event \in EventDoc \cup {None}
    /\ registration \in [Members -> RegistrationDoc \cup {None}]
    /\ rsvp \in [Members -> Rsvp]
    /\ again \in BOOLEAN
    /\ commits \in 0..MaxCommits
    /\ event # None => event.version \in 1..commits

\* Before its event exists nobody has answered or is about to.
NothingYet ==
    event = None /\ ~again => \A m \in Members : registration[m] = None /\ rsvp[m].pc = "idle"

Match == event # None /\ ~again => \A s \in Counted : Number(event.count[s]) = Cardinality(Answers(s))

\* What a member has read is the event as it is, or an older version of it; nobody
\* else changes the member's registration.
ReadsKnown ==
    \A m \in Members :
        /\ rsvp[m].pc # "idle" => rsvp[m].event # None
        /\ rsvp[m].pc # "idle" /\ event # None /\ ~again =>
               /\ rsvp[m].event.version <= event.version
               /\ rsvp[m].event.version = event.version => rsvp[m].event = event
        /\ rsvp[m].pc = "commit" => rsvp[m].registration = registration[m]

IInv == Types /\ NothingYet /\ Match /\ ReadsKnown

LEMMA InitOK == Init => IInv
<1> SUFFICES ASSUME Init PROVE IInv
    OBVIOUS
<1>1. Quiet \in Rsvp /\ Quiet.pc = "idle"
    BY DEF Quiet, Rsvp
<1>2. Types
    <2>1. commits \in 0..MaxCommits
        BY MembersAssumption DEF Init
    <2> QED BY <1>1, <2>1 DEF Init, Types
<1> QED BY <1>1, <1>2 DEF Init, IInv, NothingYet, Match, ReadsKnown

\* With what it read still current, a member computes the counters that the answers
\* will have.
LEMMA NewCountIsRight ==
    ASSUME IInv, ~again,
           NEW m \in Members, rsvp[m].pc = "commit", PreconditionsHold(m),
           NEW status \in Statuses, NEW s \in Counted
    PROVE  LET others == Answers(s) \ {m} IN
           /\ event # None /\ rsvp[m].event = event
           /\ NewCount(m, status)[s] \in Int \cup {None}
           /\ Number(NewCount(m, status)[s]) =
                  Cardinality(IF status = s THEN others \cup {m} ELSE others)
           /\ Number(NewCount(m, status)[s]) \in Nat
           /\ Number(NewCount(m, status)[s]) - Number(event.count[s]) \in {-1, 0, 1}
<1> DEFINE S == Answers(s)
<1> DEFINE others == S \ {m}
<1> DEFINE was == IF m \in S THEN 1 ELSE 0
<1> DEFINE is == IF status = s THEN 1 ELSE 0
<1>1. event # None /\ rsvp[m].event = event
    <2>1. rsvp[m].event \in EventDoc /\ rsvp[m].event # None
        BY DEF IInv, Types, ReadsKnown, Rsvp
    <2>2. rsvp[m].event.version \in Nat
        BY <2>1 DEF EventDoc
    <2>3. event # None /\ rsvp[m].event.version = event.version
        BY <2>1, <2>2, NoneAssumption DEF PreconditionsHold, VersionOf
    <2> QED BY <2>3 DEF IInv, ReadsKnown
<1>2. event.count[s] \in Nat \cup {None} /\ Number(event.count[s]) = Cardinality(S)
    BY <1>1 DEF IInv, Types, Match, EventDoc
<1>3. /\ IsFiniteSet(S) /\ IsFiniteSet(others) /\ IsFiniteSet(others \cup {m})
      /\ Cardinality(others) = Cardinality(S) - was
      /\ Cardinality(others \cup {m}) = Cardinality(others) + 1
    <2>1. IsFiniteSet(S)
        BY FS_Subset, MembersAssumption DEF Answers
    <2>2. IsFiniteSet(others) /\ Cardinality(others) = IF m \in S THEN Cardinality(S) - 1 ELSE Cardinality(S)
        BY <2>1, FS_RemoveElement
    <2>3. IsFiniteSet(others \cup {m}) /\ Cardinality(others \cup {m}) = Cardinality(others) + 1
        BY <2>2, FS_AddElement
    <2>4. Cardinality(S) \in Nat
        BY <2>1, FS_CardinalityType
    <2> QED BY <2>1, <2>2, <2>3, <2>4
<1>4. Cardinality(S) \in Nat /\ Cardinality(others) \in Nat
    BY <1>3, FS_CardinalityType
<1>5. rsvp[m].registration = registration[m]
    BY DEF IInv, ReadsKnown
<1>6. NewCount(m, status)[s] =
          IF was = is THEN event.count[s] ELSE Number(event.count[s]) + is - was
    BY <1>1, <1>5 DEF NewCount, Answers
<1> HIDE DEF S
<1>7. Number(NewCount(m, status)[s]) = Cardinality(S) + is - was
    <2>1. \A i \in Int : Number(i) = i
        BY NoneAssumption DEF Number
    <2> QED BY <1>2, <1>4, <1>6, <2>1
<1>8. NewCount(m, status)[s] \in Int \cup {None}
    BY <1>2, <1>4, <1>6
<1> QED BY <1>1, <1>2, <1>3, <1>4, <1>7, <1>8 DEF S

-----------------------------------------------------------------------------
(* The steps *)

LEMMA CommittedOnce ==
    ASSUME IInv, Committed
    PROVE  /\ commits' = commits + 1 /\ commits' \in 0..MaxCommits /\ 1 \in 1..commits'
           /\ event # None => event.version \in Nat /\ event.version + 1 \in 1..commits'
BY MembersAssumption DEF IInv, Types, Committed

LEMMA CommitOK ==
    ASSUME IInv, NEW m \in Members, Commit(m)
    PROVE  IInv'
<1>1. PICK status \in Statuses :
          /\ Nudge(event.count, NewCount(m, status))
          /\ event' = [version |-> event.version + 1, count |-> NewCount(m, status)]
          /\ registration' = [registration EXCEPT ![m] = Answered(m, status)]
    BY DEF Commit
<1>2. /\ rsvp[m].pc = "commit" /\ PreconditionsHold(m)
      /\ rsvp' = [rsvp EXCEPT ![m] = Quiet] /\ again' = again
    BY DEF Commit
<1>3. event \in EventDoc /\ event # None /\ rsvp[m].event \in EventDoc
    <2>1. rsvp[m].event \in EventDoc /\ rsvp[m].event # None
        BY <1>2 DEF IInv, Types, ReadsKnown, Rsvp
    <2>2. rsvp[m].event.version \in Nat
        BY <2>1 DEF EventDoc
    <2> QED BY <1>2, <2>1, <2>2, NoneAssumption DEF PreconditionsHold, VersionOf, IInv, Types
<1>4. NewCount(m, status) \in [Counted -> Nat \cup {None}]
    <2>1. ASSUME NEW s \in Counted PROVE NewCount(m, status)[s] \in Nat \cup {None}
        <3>1. rsvp[m].event.count[s] \in Nat \cup {None}
            BY <1>3 DEF EventDoc
        <3>2. Number(rsvp[m].event.count[s]) \in Nat
            BY <3>1 DEF Number
        <3>3. NewCount(m, status)[s] \in Int \cup {None}
            BY <3>1, <3>2 DEF NewCount
        <3>4. Number(NewCount(m, status)[s]) >= 0
            BY <1>1 DEF Nudge
        <3> QED BY <3>3, <3>4 DEF Number
    <2> QED BY <2>1 DEF NewCount
<1>5. event' \in EventDoc /\ event' # None
    BY <1>1, <1>3, <1>4, NoneAssumption DEF EventDoc
<1>6. Answered(m, status) \in RegistrationDoc /\ Answered(m, status).status = status
    BY DEF Answered, RegistrationDoc, IInv, Types
<1>7. Quiet \in Rsvp /\ Quiet.pc = "idle"
    BY DEF Quiet, Rsvp
<1>8. Types'
    <2>1. commits' \in 0..MaxCommits /\ event'.version \in 1..commits'
        BY <1>1, <1>3, CommittedOnce DEF Commit
    <2> QED BY <1>1, <1>2, <1>5, <1>6, <1>7, <2>1 DEF IInv, Types
<1>9. NothingYet'
    BY <1>5 DEF NothingYet
<1>10. Match'
    <2> SUFFICES ASSUME ~again, NEW s \in Counted
                 PROVE  Number(event'.count[s]) = Cardinality(Answers(s)')
        BY <1>2 DEF Match
    <2>1. Number(event'.count[s]) =
              Cardinality(IF status = s THEN (Answers(s) \ {m}) \cup {m} ELSE Answers(s) \ {m})
        BY <1>1, <1>2, NewCountIsRight
    <2>2. ASSUME NEW x \in Members, x # m PROVE registration'[x] = registration[x]
        BY <1>1, <2>2 DEF IInv, Types
    <2>3. registration'[m] # None /\ registration'[m].status = status
        BY <1>1, <1>6, NoneAssumption DEF IInv, Types
    <2>4. Answers(s)' = IF status = s THEN (Answers(s) \ {m}) \cup {m} ELSE Answers(s) \ {m}
        BY <2>2, <2>3 DEF Answers
    <2> QED BY <2>1, <2>4
<1>11. ReadsKnown'
    <2>1. ASSUME NEW x \in Members, x # m
          PROVE  registration'[x] = registration[x] /\ rsvp'[x] = rsvp[x]
        BY <1>1, <1>2, <2>1 DEF IInv, Types
    <2>2. rsvp'[m].pc = "idle"
        BY <1>2, <1>7 DEF IInv, Types
    <2>3. ASSUME NEW x \in Members, rsvp[x].pc # "idle", ~again
          PROVE  rsvp[x].event.version <= event'.version /\ rsvp[x].event.version # event'.version
        <3>1. rsvp[x].event \in EventDoc /\ rsvp[x].event.version <= event.version
            BY <2>3, <1>3 DEF IInv, ReadsKnown, Types, Rsvp
        <3>2. rsvp[x].event.version \in Nat /\ event.version \in Nat
            BY <3>1, <1>3 DEF EventDoc
        <3>3. event'.version = event.version + 1
            BY <1>1
        <3> QED BY <3>1, <3>2, <3>3
    <2> QED BY <1>2, <2>1, <2>2, <2>3 DEF IInv, ReadsKnown
<1> QED BY <1>8, <1>9, <1>10, <1>11 DEF IInv

\* The event changes, and no answer.
LEMMA CreateOK ==
    ASSUME IInv, Create
    PROVE  IInv'
<1>1. PICK n \in {None, 0} : event' = [version |-> 1, count |-> [s \in Counted |-> n]]
    BY DEF Create
<1>2. event' \in EventDoc /\ event' # None
    BY <1>1, NoneAssumption DEF EventDoc
<1>3. event = None /\ UNCHANGED <<registration, rsvp, again>>
    BY DEF Create
<1>4. Match'
    <2> SUFFICES ASSUME ~again, NEW s \in Counted
                 PROVE  Number(event'.count[s]) = Cardinality(Answers(s)')
        BY <1>3 DEF Match
    <2>1. Answers(s)' = {}
        BY <1>3 DEF Answers, IInv, NothingYet
    <2>2. Number(event'.count[s]) = 0
        BY <1>1 DEF Number
    <2> QED BY <2>1, <2>2, FS_EmptySet
<1>5. Types' /\ NothingYet'
    <2>1. commits' \in 0..MaxCommits /\ event'.version \in 1..commits'
        BY <1>1, CommittedOnce DEF Create
    <2> QED BY <1>2, <1>3, <2>1 DEF IInv, Types, NothingYet
<1>6. ReadsKnown'
    BY <1>3 DEF IInv, ReadsKnown, NothingYet
<1> QED BY <1>4, <1>5, <1>6 DEF IInv

LEMMA EditOK == ASSUME IInv, Edit PROVE IInv'
<1>1. event \in EventDoc /\ event # None /\ UNCHANGED <<registration, rsvp, again>>
    BY DEF Edit, IInv, Types
<1>2. event' \in EventDoc /\ event' # None
    BY <1>1, NoneAssumption DEF Edit, EventDoc
<1>3. event'.count = event.count /\ event'.version = event.version + 1 /\ event.version \in Nat
    BY <1>1 DEF Edit, EventDoc
<1>4. Types' /\ NothingYet'
    <2>1. commits' \in 0..MaxCommits /\ event'.version \in 1..commits'
        BY <1>1, <1>3, CommittedOnce DEF Edit
    <2> QED BY <1>1, <1>2, <2>1 DEF IInv, Types, NothingYet
<1>5. Match'
    BY <1>1, <1>3 DEF IInv, Match, Answers
<1>6. ReadsKnown'
    <2>1. ASSUME NEW x \in Members, rsvp[x].pc # "idle", ~again
          PROVE  rsvp[x].event.version <= event'.version /\ rsvp[x].event.version # event'.version
        <3>1. rsvp[x].event \in EventDoc /\ rsvp[x].event.version <= event.version
            BY <2>1, <1>1 DEF IInv, ReadsKnown, Types, Rsvp
        <3>2. rsvp[x].event.version \in Nat
            BY <3>1 DEF EventDoc
        <3> QED BY <3>1, <3>2, <1>3
    <2> QED BY <1>1, <2>1 DEF IInv, ReadsKnown
<1> QED BY <1>4, <1>5, <1>6 DEF IInv

LEMMA DeleteOK == ASSUME IInv, Delete PROVE IInv'
BY CommittedOnce DEF Delete, IInv, Types, NothingYet, Match, ReadsKnown

LEMMA ReadOK == ASSUME IInv, NEW m \in Members, Read(m) PROVE IInv'
<1> DEFINE new == [pc |-> "read", event |-> event, registration |-> None]
<1>1. event # None /\ rsvp' = [rsvp EXCEPT ![m] = new] /\ UNCHANGED <<event, registration, again, commits>>
    BY DEF Read
<1>2. new \in Rsvp /\ event.version <= event.version
    BY <1>1 DEF IInv, Types, Rsvp, EventDoc
<1>3. Types'
    BY <1>1, <1>2 DEF IInv, Types
<1>4. NothingYet' /\ Match'
    BY <1>1 DEF IInv, NothingYet, Match, Answers
<1>5. ReadsKnown'
    <2>1. ASSUME NEW x \in Members PROVE rsvp'[x] = IF x = m THEN new ELSE rsvp[x]
        BY <1>1 DEF IInv, Types
    <2> QED BY <1>1, <1>2, <2>1 DEF IInv, ReadsKnown
<1> QED BY <1>3, <1>4, <1>5 DEF IInv

LEMMA ReadRegistrationOK == ASSUME IInv, NEW m \in Members, ReadRegistration(m) PROVE IInv'
<1> DEFINE new == [rsvp[m] EXCEPT !.pc = "commit", !.registration = registration[m]]
<1>1. /\ rsvp[m].pc = "read" /\ rsvp' = [rsvp EXCEPT ![m] = new]
      /\ UNCHANGED <<event, registration, again, commits>>
    BY DEF ReadRegistration, IInv, Types
<1>2. new \in Rsvp /\ new.pc = "commit" /\ new.event = rsvp[m].event /\ new.registration = registration[m]
    BY DEF IInv, Types, Rsvp
<1> HIDE DEF new
<1>3. Types'
    BY <1>1, <1>2 DEF IInv, Types
<1>4. ASSUME NEW x \in Members PROVE rsvp'[x] = IF x = m THEN new ELSE rsvp[x]
    BY <1>1 DEF IInv, Types
<1>5. NothingYet' /\ Match'
    BY <1>1, <1>4 DEF IInv, NothingYet, Match, Answers
<1>6. ReadsKnown'
    BY <1>1, <1>2, <1>4 DEF IInv, ReadsKnown
<1> QED BY <1>3, <1>5, <1>6 DEF IInv

LEMMA AbortedOK == ASSUME IInv, NEW m \in Members, Aborted(m) PROVE IInv'
<1>1. Quiet \in Rsvp /\ Quiet.pc = "idle"
    BY DEF Quiet, Rsvp
<1>2. ASSUME NEW x \in Members PROVE rsvp'[x] = IF x = m THEN Quiet ELSE rsvp[x]
    BY DEF Aborted, IInv, Types
<1>3. Types' /\ NothingYet' /\ Match'
    BY <1>1, <1>2 DEF Aborted, IInv, Types, NothingYet, Match, Answers
<1>4. ReadsKnown'
    BY <1>1, <1>2 DEF Aborted, IInv, ReadsKnown
<1> QED BY <1>3, <1>4 DEF IInv

LEMMA StepOK == ASSUME IInv, [Next]_vars PROVE IInv'
<1>1. ASSUME UNCHANGED vars PROVE IInv'
    BY <1>1 DEF vars, IInv, Types, NothingYet, Match, ReadsKnown, Answers
<1> QED BY <1>1, CreateOK, EditOK, DeleteOK, ReadOK, ReadRegistrationOK, CommitOK, AbortedOK
           DEF Next

-----------------------------------------------------------------------------

\* Documents keep the fields of their schema, and nobody is counted twice while the
\* event is the one that its RSVPs are for.
THEOREM EventTypeOK == Spec => []TypeOK
<1>1. IInv => TypeOK
    <2> SUFFICES ASSUME IInv
                 PROVE  TypeOK
        OBVIOUS
    <2>1. ASSUME event # None
          PROVE  /\ event.version \in 1..MaxCommits
                 /\ \A s \in Counted : event.count[s] = None \/ event.count[s] \in Nat
        <3>1. event \in EventDoc /\ event.version \in 1..commits /\ commits \in 0..MaxCommits
            BY <2>1 DEF IInv, Types
        <3> QED BY <3>1, MembersAssumption DEF EventDoc
    <2>2. ASSUME event # None, ~again, NEW s \in Counted
          PROVE  Number(event.count[s]) <= Cardinality(Members)
        <3>1. Answers(s) \subseteq Members /\ Number(event.count[s]) = Cardinality(Answers(s))
            BY <2>2 DEF IInv, Match, Answers
        <3> QED BY <3>1, FS_Subset, MembersAssumption
    <2>3. \A m \in Members : registration[m] # None => registration[m].status \in Statuses
        BY DEF IInv, Types, RegistrationDoc
    <2> QED BY <2>1, <2>2, <2>3 DEF TypeOK
<1> QED BY <1>1, InitOK, StepOK, PTL DEF Spec

\* The counters of an event are the answers to it, however many members answer at
\* the same time with values they have computed themselves: a version precondition
\* on the event (dataApi.js:177-181) is enough, as long as the event is not deleted
\* and made anew.
THEOREM CountersAreExact == Spec => []CountersMatch
<1>1. IInv => CountersMatch
    BY DEF IInv, Match, CountersMatch, Answers
<1> QED BY <1>1, InitOK, StepOK, PTL DEF Spec

\* The policy of events (policies.js:220-231) refuses no RSVP computed from current
\* documents: the counters move by at most one and stay at zero or above.
THEOREM NoAnswerRefused == Spec => []AnswersAccepted
<1>1. IInv => AnswersAccepted
    <2> SUFFICES ASSUME IInv, NEW m \in Members, rsvp[m].pc = "commit", PreconditionsHold(m), ~again,
                        NEW status \in Statuses, NEW s \in Counted
                 PROVE  /\ Number(NewCount(m, status)[s]) >= 0
                        /\ Number(NewCount(m, status)[s]) - Number(event.count[s]) \in {-1, 0, 1}
        BY DEF AnswersAccepted, Nudge
    <2>1. /\ Number(NewCount(m, status)[s]) \in Nat
          /\ Number(NewCount(m, status)[s]) - Number(event.count[s]) \in {-1, 0, 1}
        BY NewCountIsRight
    <2> QED BY <2>1
<1> QED BY <1>1, InitOK, StepOK, PTL DEF Spec
-----------------------------------------------------------------------------
(* The door *)

Told == {t \in Taps : tap[t] = "success"}

\* The record that stands, and every one that was taken back, was told to at most
\* one request.
DoorInv ==
    /\ DOMAIN tap = Taps
    /\ taken \in Nat
    /\ Cardinality(Told) <= taken + (IF attendance = None THEN 0 ELSE 1)

LEMMA DoorCardinality == \A S : Door!Cardinality(S) = Cardinality(S)
BY Zenon DEF Door!Cardinality, Cardinality

LEMMA DoorInit == Door!Init => DoorInv
<1>1. Door!Init => Told = {}
    BY DEF Door!Init, Told
<1> QED BY <1>1, FS_EmptySet DEF Door!Init, DoorInv

\* A request that goes on and is not told "recorded".
LEMMA NotTold ==
    ASSUME DoorInv, NEW t \in Taps, tap[t] # "success", NEW pc \in {"token", "record", "refused", "already"},
           Door!Goto(t, pc), UNCHANGED <<attendance, taken>>
    PROVE  DoorInv'
<1>1. Told' = Told
    BY DEF Door!Goto, Told, DoorInv
<1> QED BY <1>1 DEF Door!Goto, DoorInv

LEMMA RecordOK ==
    ASSUME DoorInv, NEW t \in Taps, Door!Record(t)
    PROVE  DoorInv'
<1>1. CASE Door!Exists
    BY <1>1, NotTold DEF Door!Record
<1>2. CASE ~Door!Exists
    <2>1. Door!Goto(t, "success") /\ attendance = None /\ attendance' = "self" /\ taken' = taken
        BY <1>2 DEF Door!Record, Door!Exists
    <2>2. Told' = Told \cup {t}
        BY <2>1 DEF Door!Goto, Told, DoorInv
    <2>3. IsFiniteSet(Told) /\ t \notin Told
        BY TapsAssumption, FS_Subset DEF Told, Door!Record
    <2>4. Cardinality(Told') = Cardinality(Told) + 1 /\ Cardinality(Told) \in Nat
        BY <2>2, <2>3, FS_AddElement, FS_CardinalityType
    <2> QED BY <2>1, <2>4, TapsAssumption DEF Door!Goto, DoorInv
<1> QED BY <1>1, <1>2

LEMMA StaffOK ==
    ASSUME DoorInv, Door!Scan \/ Door!Untick \/ Door!DeleteEvent
    PROVE  DoorInv'
<1>1. Told' = Told
    BY DEF Told, Door!Scan, Door!Untick, Door!DeleteEvent
<1>2. Cardinality(Told) \in Nat
    BY TapsAssumption, FS_Subset, FS_CardinalityType DEF Told
<1> QED BY <1>1, <1>2, TapsAssumption DEF DoorInv, Door!Scan, Door!Untick, Door!DeleteEvent

LEMMA DoorStep ==
    ASSUME DoorInv, [Door!Next]_(Door!vars)
    PROVE  DoorInv'
<1>1. ASSUME NEW t \in Taps, Door!FindEvent(t) \/ Door!CheckToken(t) PROVE DoorInv'
    BY <1>1, NotTold DEF Door!FindEvent, Door!CheckToken
<1>2. ASSUME UNCHANGED Door!vars PROVE DoorInv'
    BY <1>2 DEF Door!vars, DoorInv, Told
<1> QED BY <1>1, <1>2, RecordOK, StaffOK DEF Door!Next

\* However many requests and scans overlap (attendance.controller.js:43-51), a
\* member is told "recorded" once per record: create() on one id decides.
THEOREM ToldOncePerRecord == Door!Spec => []RecordedOnce
<1>1. DoorInv => RecordedOnce
    <2> SUFFICES ASSUME DoorInv PROVE RecordedOnce
        OBVIOUS
    <2>1. Cardinality(Told) \in Nat
        BY TapsAssumption, FS_Subset, FS_CardinalityType DEF Told
    <2>2. RecordedOnce <=> Cardinality(Told) <= 1 + taken
        BY DoorCardinality, Zenon DEF RecordedOnce, Door!RecordedOnce, Told
    <2> QED BY <2>1, <2>2 DEF DoorInv
<1> QED BY <1>1, DoorInit, DoorStep, PTL DEF Door!Spec

-----------------------------------------------------------------------------
(* The change feed *)

\* What is written, and the trips.
Names == {"events", "event_secrets", "registrations", "trip_registrations", "trips"}

\* A token, or a change the feed keeps.
Change == [seq : Nat, collection : Names]
Token == [boot : Nat, seq : Nat]
Page == [pc : {"closed", "load", "shown"}, shows : Collections \cup {None},
         token : Token \cup {None}, shown : Nat]

\* The changes that a feed keeps are its last ones.
Orderly(f) ==
    /\ f.seq \in Nat /\ f.recent \in Seq(Change)
    /\ Len(f.recent) = (IF f.seq < max THEN f.seq ELSE max)
    /\ \A i \in DOMAIN f.recent : f.recent[i].seq = f.seq - Len(f.recent) + i

FeedTypes ==
    /\ content \in [Collections -> Nat]
    /\ \A n \in unnoted : n.cols \in Kinds
    /\ missed \subseteq Collections \cup UNION {Feed!Written(cols) : cols \in Kinds}
    /\ DOMAIN feed = {"boot", "seq", "recent"} /\ feed.boot \in Nat
    /\ page \in [Pages -> Page]
    /\ \A p \in Pages : page[p].pc # "closed" =>
           /\ page[p].shows \in Collections
           /\ page[p].token \in Token
           /\ page[p].token.boot <= feed.boot
           /\ page[p].token.boot = feed.boot => page[p].token.seq <= feed.seq

FeedInv == FeedTypes /\ Orderly(feed) /\ Feed!NothingMissed

LEMMA FeedCardinality == \A S : Feed!Cardinality(S) = Cardinality(S)
BY Zenon DEF Feed!Cardinality, Cardinality

LEMMA KindsAreSequences ==
    ASSUME NEW cols \in Kinds
    PROVE  cols \in Seq(Names)
<1>1. \A a, b \in Names : <<a, b>> \in Seq(Names) /\ <<a>> \in Seq(Names)
    OBVIOUS
<1>2. /\ "events" \in Names /\ "event_secrets" \in Names /\ "registrations" \in Names
      /\ "trip_registrations" \in Names
    BY DEF Names
<1> QED BY <1>1, <1>2 DEF Kinds

\* What is noted of a commit is what it has written.
LEMMA NotedIsWritten ==
    ASSUME NEW cols \in Kinds
    PROVE  /\ Feed!Noted(cols) \in Seq(Names)
           /\ Feed!In(Feed!Noted(cols)) = Feed!Written(cols)
<1> DEFINE n == Cardinality(Feed!Bookings(cols))
<1> DEFINE trips == [i \in 1..n |-> "trips"]
<1>1. cols \in Seq(Names) /\ IsFiniteSet(DOMAIN cols)
    BY KindsAreSequences, FS_Interval
<1>2. IsFiniteSet(Feed!Bookings(cols))
    BY <1>1, FS_Subset DEF Feed!Bookings
<1>3. n \in Nat /\ (n = 0 <=> Feed!Bookings(cols) = {})
    BY <1>2, FS_CardinalityType, FS_EmptySet
<1> HIDE DEF n
<1>4. trips \in Seq(Names) /\ Len(trips) = n
    <2>1. \A i \in 1..n : trips[i] \in Names
        BY DEF Names
    <2> HIDE DEF Names
    <2> QED BY <1>3, <2>1
<1>5. /\ cols \o trips \in Seq(Names)
      /\ Len(cols \o trips) = Len(cols) + n
      /\ \A i \in 1..Len(cols) + n : (cols \o trips)[i] = IF i <= Len(cols) THEN cols[i] ELSE "trips"
    BY <1>1, <1>3, <1>4, ConcatProperties
<1>6. Feed!Noted(cols) = cols \o trips
    BY FeedCardinality, Zenon DEF Feed!Noted, n
<1>7. Feed!In(cols \o trips) = Feed!In(cols) \cup (IF n = 0 THEN {} ELSE {"trips"})
    <2>1. DOMAIN (cols \o trips) = 1..Len(cols) + n /\ DOMAIN cols = 1..Len(cols) /\ Len(cols) \in Nat
        BY <1>1, <1>3, <1>5
    <2> HIDE DEF trips
    <2>2. Feed!In(cols \o trips) \subseteq Feed!In(cols) \cup (IF n = 0 THEN {} ELSE {"trips"})
        BY <1>3, <1>5, <2>1 DEF Feed!In
    <2>3. Feed!In(cols) \subseteq Feed!In(cols \o trips)
        BY <1>3, <1>5, <2>1 DEF Feed!In
    <2>4. n # 0 => "trips" \in Feed!In(cols \o trips)
        <3> SUFFICES ASSUME n # 0
                     PROVE  "trips" \in Feed!In(cols \o trips)
            OBVIOUS
        <3>1. Len(cols) + n \in DOMAIN (cols \o trips) /\ (cols \o trips)[Len(cols) + n] = "trips"
            BY <1>3, <1>5, <2>1
        <3> QED BY <3>1 DEF Feed!In
    <2> QED BY <2>2, <2>3, <2>4
<1> QED BY <1>3, <1>5, <1>6, <1>7 DEF Feed!Written

\* The last of a sequence of changes, and which they are.
LEMMA TrimKeepsLast ==
    ASSUME NEW s \in Seq(Change)
    PROVE  \E drop \in Nat :
               /\ drop = (IF Len(s) > max THEN Len(s) - max ELSE 0)
               /\ Feed!Trim(s) \in Seq(Change) /\ Len(Feed!Trim(s)) = Len(s) - drop
               /\ \A i \in 1..(Len(s) - drop) : Feed!Trim(s)[i] = s[drop + i]
<1>1. Len(s) \in Nat /\ DOMAIN s = 1..Len(s) /\ max \in Nat /\ \A i \in 1..Len(s) : s[i] \in Change
    BY MaxAssumption
<1>2. CASE Len(s) > max
    <2> DEFINE m == Len(s) - max + 1
    <2>1. m \in Int /\ m >= 1 /\ Len(s) \in Int /\ Len(s) - m + 1 = max /\ m <= Len(s)
        BY <1>1, <1>2, MaxAssumption
    <2>2. \A i \in m..Len(s) : s[i] \in Change
        BY <1>1, <2>1
    <2>3. Feed!Trim(s) = SubSeq(s, m, Len(s))
        BY <1>2 DEF Feed!Trim
    <2> HIDE DEF m
    <2>4. /\ SubSeq(s, m, Len(s)) \in Seq(Change)
          /\ Len(SubSeq(s, m, Len(s))) = IF m <= Len(s) THEN Len(s) - m + 1 ELSE 0
          /\ \A i \in 1..(Len(s) - m + 1) : SubSeq(s, m, Len(s))[i] = s[m + i - 1]
        BY <2>1, <2>2, SubSeqProperties
    <2>5. /\ Feed!Trim(s) \in Seq(Change) /\ Len(Feed!Trim(s)) = max
          /\ \A i \in 1..max : Feed!Trim(s)[i] = s[m + i - 1]
        BY <2>1, <2>3, <2>4
    <2>6. ASSUME NEW i \in 1..max PROVE Feed!Trim(s)[i] = s[(Len(s) - max) + i]
        <3>1. m + i - 1 = (Len(s) - max) + i
            BY <1>1 DEF m
        <3> QED BY <2>5, <3>1
    <2>7. Len(s) - max \in Nat /\ Len(s) - (Len(s) - max) = max
        BY <1>1, <1>2, MaxAssumption
    <2> DEFINE drop == Len(s) - max
    <2>8. /\ drop \in Nat /\ drop = (IF Len(s) > max THEN Len(s) - max ELSE 0)
          /\ Feed!Trim(s) \in Seq(Change) /\ Len(Feed!Trim(s)) = Len(s) - drop
          /\ \A i \in 1..(Len(s) - drop) : Feed!Trim(s)[i] = s[drop + i]
        BY <1>2, <2>5, <2>6, <2>7
    <2> HIDE DEF drop
    <2> QED BY <2>8
<1>3. CASE ~(Len(s) > max)
    <2>1. Feed!Trim(s) = s
        BY <1>3 DEF Feed!Trim
    <2> WITNESS 0 \in Nat
    <2> QED BY <1>1, <1>3, <2>1
<1> QED BY <1>2, <1>3

\* The changes a feed has kept with those of a commit after them.
LEMMA AllInOrder ==
    ASSUME NEW f, Orderly(f), NEW cols \in Seq(Names)
    PROVE  LET new == [i \in DOMAIN cols |-> [seq |-> f.seq + i, collection |-> cols[i]]]
               all == f.recent \o new
           IN  /\ all \in Seq(Change) /\ Len(all) = Len(f.recent) + Len(cols)
               /\ \A i \in 1..Len(f.recent) : all[i] = f.recent[i]
               /\ \A i \in 1..Len(cols) :
                      all[Len(f.recent) + i] = [seq |-> f.seq + i, collection |-> cols[i]]
               /\ \A i \in 1..(Len(f.recent) + Len(cols)) : all[i].seq = f.seq - Len(f.recent) + i
<1> DEFINE new == [i \in DOMAIN cols |-> [seq |-> f.seq + i, collection |-> cols[i]]]
<1> DEFINE all == f.recent \o new
<1> DEFINE r == Len(f.recent)
<1>1. /\ f.seq \in Nat /\ f.recent \in Seq(Change) /\ r \in Nat /\ DOMAIN f.recent = 1..r
      /\ \A i \in 1..r : f.recent[i].seq = f.seq - r + i
    BY DEF Orderly
<1>2. /\ Len(cols) \in Nat /\ DOMAIN cols = 1..Len(cols)
      /\ \A i \in 1..Len(cols) : cols[i] \in Names
    OBVIOUS
<1>3. \A i \in 1..Len(cols) : new[i] = [seq |-> f.seq + i, collection |-> cols[i]]
    BY <1>2
<1>4. new \in Seq(Change) /\ Len(new) = Len(cols)
    <2>1. \A i \in 1..Len(cols) : [seq |-> f.seq + i, collection |-> cols[i]] \in Change
        BY <1>1, <1>2 DEF Change
    <2>2. new = [i \in 1..Len(cols) |-> [seq |-> f.seq + i, collection |-> cols[i]]]
        BY <1>2
    <2> HIDE DEF Names
    <2> QED BY <1>2, <2>1, <2>2
<1> HIDE DEF new
<1>5. /\ all \in Seq(Change) /\ Len(all) = Len(f.recent) + Len(new)
      /\ \A i \in 1..(Len(f.recent) + Len(new)) :
             all[i] = IF i <= Len(f.recent) THEN f.recent[i] ELSE new[i - Len(f.recent)]
    <2>1. f.recent \in Seq(Change) /\ new \in Seq(Change)
        BY <1>1, <1>4
    <2> QED BY <2>1, ConcatProperties, Zenon
<1> HIDE DEF all
<1>6. ASSUME NEW i \in 1..r PROVE all[i] = f.recent[i]
    BY SMTT(30), <1>1, <1>2, <1>4, <1>5
<1>7. ASSUME NEW i \in 1..Len(cols) PROVE all[r + i] = [seq |-> f.seq + i, collection |-> cols[i]]
    <2>1. r + i \in 1..(Len(f.recent) + Len(new)) /\ ~(r + i <= Len(f.recent)) /\ r + i - Len(f.recent) = i
        BY <1>1, <1>2, <1>4
    <2>2. all[r + i] = new[i]
        <3> DEFINE j == r + i
        <3>1. /\ j \in 1..(Len(f.recent) + Len(new))
              /\ ~(j <= Len(f.recent)) /\ j - Len(f.recent) = i
            BY <2>1
        <3> HIDE DEF j
        <3>2. all[j] = new[j - Len(f.recent)]
            BY <1>5, <3>1
        <3> QED BY <3>1, <3>2 DEF j
    <2> QED BY <1>3, <2>2
<1>8. ASSUME NEW i \in 1..(r + Len(cols)) PROVE all[i].seq = f.seq - r + i
    <2>1. CASE i \in 1..r
        BY <1>1, <1>6, <2>1
    <2>2. CASE i \notin 1..r
        <3> DEFINE j == i - r
        <3>1. j \in 1..Len(cols) /\ r + j = i
            BY <1>1, <1>2, <2>2
        <3> HIDE DEF j
        <3>2. all[i] = [seq |-> f.seq + j, collection |-> cols[j]]
            BY <1>7, <3>1
        <3> QED BY <1>1, <3>1, <3>2
    <2> QED BY <2>1, <2>2
<1> QED BY <1>4, <1>5, <1>6, <1>7, <1>8 DEF new, all

\* Noting keeps the last changes without a gap: what was kept is kept or older than
\* all that is, and so is what is new.
LEMMA NoteKeepsOrder ==
    ASSUME NEW f, DOMAIN f = {"boot", "seq", "recent"}, Orderly(f),
           NEW cols \in Seq(Names), NEW g, g = Feed!Note(f, cols)
    PROVE  /\ DOMAIN g = {"boot", "seq", "recent"} /\ g.boot = f.boot
           /\ g.seq = f.seq + Len(cols) /\ Orderly(g)
           /\ \A i \in DOMAIN f.recent :
                  g.recent # <<>> /\ (\/ f.recent[i].seq < g.recent[1].seq
                                      \/ \E j \in DOMAIN g.recent : g.recent[j] = f.recent[i])
           /\ \A i \in DOMAIN cols :
                  g.recent # <<>> /\ (\/ f.seq + i < g.recent[1].seq
                                      \/ \E j \in DOMAIN g.recent :
                                             g.recent[j] = [seq |-> f.seq + i, collection |-> cols[i]])
           /\ f.recent # <<>> => g.recent[1].seq >= f.recent[1].seq
<1> DEFINE all == f.recent \o [i \in DOMAIN cols |-> [seq |-> f.seq + i, collection |-> cols[i]]]
<1> DEFINE kept == Feed!Trim(all)
<1> DEFINE r == Len(f.recent)
<1> DEFINE c == Len(cols)
<1>1. /\ f.seq \in Nat /\ f.recent \in Seq(Change) /\ r \in Nat /\ c \in Nat
      /\ DOMAIN cols = 1..c /\ DOMAIN f.recent = 1..r
      /\ max \in Nat /\ max > 0
      /\ r = (IF f.seq < max THEN f.seq ELSE max)
    BY MaxAssumption DEF Orderly
<1>2. /\ all \in Seq(Change) /\ Len(all) = r + c
      /\ \A i \in 1..r : all[i] = f.recent[i]
      /\ \A i \in 1..c : all[r + i] = [seq |-> f.seq + i, collection |-> cols[i]]
      /\ \A i \in 1..(r + c) : all[i].seq = f.seq - r + i
    BY AllInOrder
<1>3. /\ g.boot = f.boot /\ g.seq = f.seq + c /\ g.recent = kept
      /\ DOMAIN g = {"boot", "seq", "recent"}
    BY DEF Feed!Note
<1> HIDE DEF all
<1>4. PICK drop \in Nat :
          /\ drop = (IF Len(all) > max THEN Len(all) - max ELSE 0)
          /\ kept \in Seq(Change) /\ Len(kept) = Len(all) - drop
          /\ \A i \in 1..(Len(all) - drop) : kept[i] = all[drop + i]
    BY <1>2, TrimKeepsLast
<1> DEFINE k == Len(kept)
<1> HIDE DEF kept
<1>5. k \in Nat /\ DOMAIN kept = 1..k /\ drop + k = r + c
    <2>1. k \in Nat /\ DOMAIN kept = 1..k
        BY <1>4
    <2> HIDE DEF r, c
    <2> QED BY <1>1, <1>2, <1>4, <2>1
<1>6. k = (IF g.seq < max THEN g.seq ELSE max)
    <2>1. g.seq = f.seq + c /\ r + c \in Nat /\ f.seq + c \in Nat
        BY <1>1, <1>3
    <2>2. Len(all) = r + c /\ drop = (IF Len(all) > max THEN Len(all) - max ELSE 0)
        BY <1>2, <1>4
    <2> HIDE DEF r, c, k
    <2> QED BY SMTT(30), <1>1, <1>5, <2>1, <2>2
<1>7. \A i \in 1..k : kept[i] = all[drop + i] /\ drop + i \in 1..(r + c)
    <2>1. Len(all) - drop = k
        BY <1>4
    <2>2. \A i \in 1..k : drop + i \in 1..(r + c)
        <3> HIDE DEF r, c, k
        <3> QED BY <1>1, <1>5
    <2> QED BY <1>4, <2>1, <2>2
<1>8. ASSUME NEW i \in 1..k PROVE kept[i].seq = g.seq - k + i
    <2>1. kept[i].seq = f.seq - r + (drop + i)
        BY <1>2, <1>7
    <2>2. f.seq - r + (drop + i) = g.seq - k + i
        <3>1. i \in Int /\ f.seq \in Int /\ r \in Int /\ c \in Int /\ k \in Int /\ g.seq = f.seq + c
            BY <1>1, <1>3, <1>5
        <3>2. drop = r + c - k
            BY SMTT(30), <1>1, <1>5
        <3> HIDE DEF r, c, k
        <3> QED BY <3>1, <3>2
    <2> QED BY <2>1, <2>2
<1>9. Orderly(g)
    <2>1. g.seq \in Nat /\ g.recent = kept /\ kept \in Seq(Change)
        BY <1>1, <1>3, <1>4
    <2> QED BY <1>5, <1>6, <1>8, <2>1 DEF Orderly
<1>10. r + c > 0 => k > 0
    <2>1. Len(all) = r + c /\ drop = (IF Len(all) > max THEN Len(all) - max ELSE 0)
        BY <1>2, <1>4
    <2> HIDE DEF r, c, k
    <2> QED BY <1>1, <1>5, <2>1
<1>11. ASSUME NEW i \in 1..(r + c)
       PROVE  kept # <<>> /\ (all[i].seq < kept[1].seq \/ \E j \in DOMAIN kept : kept[j] = all[i])
    <2>1. k > 0
        BY <1>1, <1>10
    <2>2. kept # <<>>
        BY <2>1
    <2>3. CASE i <= drop
        <3>1. 1 \in 1..k
            BY <1>5, <2>1
        <3>2. kept[1].seq = f.seq - r + (drop + 1)
            BY <1>2, <1>7, <3>1
        <3>3. all[i].seq = f.seq - r + i
            BY <1>2
        <3> HIDE DEF r, c, k
        <3> QED BY <1>1, <2>2, <2>3, <3>2, <3>3
    <2>4. CASE i > drop
        <3> DEFINE j == i - drop
        <3>1. j \in 1..k /\ drop + j = i
            <4> HIDE DEF r, c, k
            <4> QED BY <1>1, <1>5, <2>4
        <3> HIDE DEF j
        <3>2. kept[j] = all[i]
            BY <1>7, <3>1
        <3> QED BY <1>5, <2>2, <3>1, <3>2
    <2> QED BY <1>1, <2>3, <2>4
<1>12. ASSUME NEW i \in DOMAIN f.recent
       PROVE  /\ kept # <<>>
              /\ f.recent[i].seq < kept[1].seq \/ \E j \in DOMAIN kept : kept[j] = f.recent[i]
    <2>1. i \in 1..(r + c) /\ all[i] = f.recent[i]
        BY <1>1, <1>2
    <2> QED BY <1>11, <2>1
<1>13. ASSUME NEW i \in DOMAIN cols
       PROVE  /\ kept # <<>>
              /\ \/ f.seq + i < kept[1].seq
                 \/ \E j \in DOMAIN kept : kept[j] = [seq |-> f.seq + i, collection |-> cols[i]]
    <2>1. r + i \in 1..(r + c) /\ all[r + i] = [seq |-> f.seq + i, collection |-> cols[i]]
        BY <1>1, <1>2
    <2>2. all[r + i].seq = f.seq + i
        BY <2>1
    <2> QED BY <1>11, <2>1, <2>2
<1>14. f.recent # <<>> => kept[1].seq >= f.recent[1].seq
    <2> SUFFICES ASSUME f.recent # <<>>
                 PROVE  kept[1].seq >= f.recent[1].seq
        OBVIOUS
    <2>1. r > 0
        BY <1>1
    <2>2. 1 \in 1..k /\ 1 \in 1..r /\ 1 \in 1..(r + c)
        BY <1>1, <1>5, <1>10, <2>1
    <2>3. kept[1].seq = f.seq - r + (drop + 1) /\ f.recent[1].seq = f.seq - r + 1
        BY <1>2, <1>7, <2>2
    <2> HIDE DEF r, c, k
    <2> QED BY <1>1, <2>3
<1> QED BY <1>3, <1>9, <1>12, <1>13, <1>14

\* Every page that was told before the server heard of a commit still is, and one
\* that shows what the commit has written is told now.
LEMMA HearTells ==
    ASSUME FeedInv, NEW n \in unnoted, feed' = Feed!Note(feed, Feed!Noted(n.cols)),
           NEW since \in Token, since.boot <= feed.boot, since.boot = feed.boot => since.seq <= feed.seq,
           NEW c
    PROVE  /\ Feed!Reset(since) \/ c \in Feed!Changed(since) =>
                  Feed!Reset(since)' \/ c \in Feed!Changed(since)'
           /\ c \in Feed!Written(n.cols) => Feed!Reset(since)' \/ c \in Feed!Changed(since)'
<1> DEFINE cols == Feed!Noted(n.cols)
<1>1. cols \in Seq(Names) /\ Feed!In(cols) = Feed!Written(n.cols)
    BY NotedIsWritten DEF FeedInv, FeedTypes
<1>2. DOMAIN feed = {"boot", "seq", "recent"} /\ Orderly(feed)
    BY DEF FeedInv, FeedTypes
<1> HIDE DEF cols
<1>3. feed' = Feed!Note(feed, cols)
    BY DEF cols
<1>4. /\ feed'.boot = feed.boot /\ feed'.seq = feed.seq + Len(cols) /\ Orderly(feed')
      /\ \A i \in DOMAIN feed.recent :
             feed'.recent # <<>> /\ (\/ feed.recent[i].seq < feed'.recent[1].seq
                                     \/ \E j \in DOMAIN feed'.recent : feed'.recent[j] = feed.recent[i])
      /\ \A i \in DOMAIN cols :
             feed'.recent # <<>> /\ (\/ feed.seq + i < feed'.recent[1].seq
                                     \/ \E j \in DOMAIN feed'.recent :
                                            feed'.recent[j] = [seq |-> feed.seq + i, collection |-> cols[i]])
      /\ feed.recent # <<>> => feed'.recent[1].seq >= feed.recent[1].seq
    BY <1>1, <1>2, <1>3, NoteKeepsOrder
<1>5. /\ feed.seq \in Nat /\ feed.recent \in Seq(Change) /\ Len(cols) \in Nat
      /\ since.seq \in Nat /\ since.boot \in Nat /\ feed.boot \in Nat
      /\ \A i \in DOMAIN feed.recent : feed.recent[i].seq \in Nat
      /\ DOMAIN cols = 1..Len(cols)
    BY <1>1, <1>2 DEF Orderly, Token, FeedInv, FeedTypes, Change
<1>6. feed'.recent # <<>> => feed'.recent[1].seq \in Nat
    <2>1. \A s \in Seq(Change) : s # <<>> => s[1] \in Change
        OBVIOUS
    <2>2. feed'.recent \in Seq(Change)
        BY <1>4 DEF Orderly
    <2>3. \A x \in Change : x.seq \in Nat
        BY DEF Change
    <2> QED BY <2>1, <2>2, <2>3
<1>7. CASE since.boot # feed.boot
    BY <1>4, <1>7 DEF Feed!Reset
<1>8. CASE since.boot = feed.boot
    <2>1. since.seq <= feed.seq
        BY <1>8
    <2>2. ASSUME Feed!Reset(since)
          PROVE  Feed!Reset(since)'
        <3>1. feed.recent # <<>> /\ since.seq < feed.recent[1].seq - 1
            BY <1>5, <1>8, <2>1, <2>2 DEF Feed!Reset
        <3>2. 1 \in DOMAIN feed.recent
            BY <1>5, <3>1
        <3>3. feed'.recent # <<>> /\ since.seq < feed'.recent[1].seq - 1
            BY SMTT(30), <1>4, <1>5, <1>6, <3>1, <3>2
        <3> QED BY <3>3 DEF Feed!Reset
    <2>3. ASSUME c \in Feed!Changed(since)
          PROVE  Feed!Reset(since)' \/ c \in Feed!Changed(since)'
        <3>1. PICK i \in DOMAIN feed.recent : feed.recent[i].seq > since.seq /\ feed.recent[i].collection = c
            BY <2>3 DEF Feed!Changed
        <3>2. CASE feed.recent[i].seq < feed'.recent[1].seq
            <4>1. feed'.recent # <<>> /\ since.seq < feed'.recent[1].seq - 1
                BY SMTT(30), <1>4, <1>5, <1>6, <3>1, <3>2
            <4> QED BY <4>1 DEF Feed!Reset
        <3>3. CASE \E j \in DOMAIN feed'.recent : feed'.recent[j] = feed.recent[i]
            BY <3>1, <3>3 DEF Feed!Changed
        <3> QED BY <1>4, <3>2, <3>3
    <2>4. ASSUME c \in Feed!Written(n.cols)
          PROVE  Feed!Reset(since)' \/ c \in Feed!Changed(since)'
        <3>1. PICK i \in DOMAIN cols : cols[i] = c
            BY <1>1, <2>4 DEF Feed!In
        <3>2. i \in Nat /\ i > 0
            BY <1>5
        <3>3. CASE feed.seq + i < feed'.recent[1].seq
            <4>1. feed'.recent # <<>> /\ since.seq < feed'.recent[1].seq - 1
                <5>1. feed'.recent # <<>> /\ feed'.recent[1].seq \in Nat
                    BY <1>4, <1>6
                <5> QED BY <1>5, <2>1, <3>2, <3>3, <5>1
            <4> QED BY <4>1 DEF Feed!Reset
        <3>4. CASE \E j \in DOMAIN feed'.recent :
                       feed'.recent[j] = [seq |-> feed.seq + i, collection |-> cols[i]]
            <4>1. PICK j \in DOMAIN feed'.recent :
                      feed'.recent[j] = [seq |-> feed.seq + i, collection |-> cols[i]]
                BY <3>4
            <4>2. feed'.recent[j].seq > since.seq /\ feed'.recent[j].collection = c
                BY <1>5, <2>1, <3>1, <3>2, <4>1
            <4> QED BY <4>2 DEF Feed!Changed
        <3> QED BY <1>4, <3>3, <3>4
    <2> QED BY <2>2, <2>3, <2>4
<1> QED BY <1>7, <1>8

\* A page as it is asks the same of the same feed.
LEMMA HearOK ==
    ASSUME FeedInv, Feed!Hear
    PROVE  FeedInv'
<1>1. PICK n \in unnoted :
          /\ unnoted' = unnoted \ {n}
          /\ feed' = Feed!Note(feed, Feed!Noted(n.cols))
          /\ missed' = missed \ Feed!In(Feed!Noted(n.cols))
    BY DEF Feed!Hear
<1>2. UNCHANGED <<content, page>> /\ n.cols \in Kinds
    BY DEF Feed!Hear, FeedInv, FeedTypes
<1>3. Feed!Noted(n.cols) \in Seq(Names) /\ Feed!In(Feed!Noted(n.cols)) = Feed!Written(n.cols)
    BY <1>2, NotedIsWritten
<1>4. /\ DOMAIN feed' = {"boot", "seq", "recent"} /\ feed'.boot = feed.boot
      /\ feed'.seq = feed.seq + Len(Feed!Noted(n.cols)) /\ Orderly(feed')
    BY <1>1, <1>3, NoteKeepsOrder DEF FeedInv, FeedTypes
<1>5. feed'.seq \in Nat /\ feed.seq \in Nat /\ feed'.seq >= feed.seq
    BY <1>3, <1>4 DEF FeedInv, Orderly
<1>6. FeedTypes'
    <2>1. \A p \in Pages : page[p].pc # "closed" /\ page[p].token.boot = feed'.boot =>
              page[p].token.seq <= feed'.seq
        BY <1>4, <1>5 DEF FeedInv, FeedTypes, Token
    <2> QED BY <1>1, <1>2, <1>4, <2>1 DEF FeedInv, FeedTypes
<1>7. Feed!NothingMissed'
    <2> SUFFICES ASSUME NEW p \in Pages, Feed!Stale(p)'
                 PROVE  \/ Feed!Told(p)'
                        \/ \E m \in unnoted' : page[p].shows \in Feed!Written(m.cols)
                        \/ page[p].shows \in missed'
        BY <1>2 DEF Feed!NothingMissed
    <2>0. PICK since, c : since = page[p].token /\ c = page[p].shows
        OBVIOUS
    <2>1. Feed!Stale(p) /\ page[p].pc # "closed"
        BY <1>2 DEF Feed!Stale
    <2>2. since \in Token /\ since.boot <= feed.boot /\ (since.boot = feed.boot => since.seq <= feed.seq)
        BY <2>0, <2>1 DEF FeedInv, FeedTypes
    <2>3. Feed!Told(p) <=> Feed!Reset(since) \/ c \in Feed!Changed(since)
        BY <2>0 DEF Feed!Told
    <2>4. Feed!Told(p)' <=> Feed!Reset(since)' \/ c \in Feed!Changed(since)'
        BY <1>2, <2>0 DEF Feed!Told
    <2>5. /\ Feed!Told(p) => Feed!Told(p)'
          /\ c \in Feed!Written(n.cols) => Feed!Told(p)'
        BY <1>1, <2>2, <2>3, <2>4, HearTells
    <2>6. \/ Feed!Told(p)
          \/ \E m \in unnoted : c \in Feed!Written(m.cols)
          \/ c \in missed
        BY <2>0, <2>1 DEF FeedInv, Feed!NothingMissed
    <2> QED BY <1>1, <1>3, <2>0, <2>5, <2>6
<1> QED BY <1>4, <1>6, <1>7 DEF FeedInv

LEMMA HearNothingOK ==
    ASSUME FeedInv, Feed!HearNothing
    PROVE  FeedInv'
<1>1. PICK n \in unnoted : unnoted' = unnoted \ {n} /\ missed' = missed \cup Feed!Written(n.cols)
    BY DEF Feed!HearNothing
<1>2. UNCHANGED <<content, feed, page>> /\ n.cols \in Kinds
    BY DEF Feed!HearNothing, FeedInv, FeedTypes
<1>3. FeedTypes' /\ Orderly(feed)'
    BY <1>1, <1>2 DEF FeedInv, FeedTypes, Orderly
<1>4. \A p \in Pages : (Feed!Stale(p)' <=> Feed!Stale(p)) /\ (Feed!Told(p)' <=> Feed!Told(p))
    BY <1>2 DEF Feed!Stale, Feed!Told, Feed!Reset, Feed!Changed
<1>5. Feed!NothingMissed'
    BY <1>1, <1>2, <1>4 DEF FeedInv, Feed!NothingMissed
<1> QED BY <1>3, <1>5 DEF FeedInv

\* A commit, or an import, that changes some collections.
LEMMA ContentOK ==
    ASSUME FeedInv, UNCHANGED <<feed, page>>, NEW changed,
           content' \in [Collections -> Nat],
           \A c \in Collections \ changed : content'[c] = content[c],
           unnoted \subseteq unnoted', \A n \in unnoted' : n.cols \in Kinds,
           missed \subseteq missed', missed' \subseteq missed \cup Collections,
           \/ \E n \in unnoted' : changed = Feed!Written(n.cols)
           \/ changed \subseteq missed'
    PROVE  FeedInv'
<1>1. FeedTypes' /\ Orderly(feed)'
    BY DEF FeedInv, FeedTypes, Orderly
<1>2. \A p \in Pages : Feed!Told(p)' <=> Feed!Told(p)
    BY DEF Feed!Told, Feed!Reset, Feed!Changed
<1>3. ASSUME NEW p \in Pages, Feed!Stale(p)'
      PROVE  \/ Feed!Told(p)
             \/ \E n \in unnoted' : page[p].shows \in Feed!Written(n.cols)
             \/ page[p].shows \in missed'
    <2>1. page[p].pc = "shown" /\ page[p].shown # content'[page[p].shows]
        BY <1>3 DEF Feed!Stale
    <2>2. page[p].shows \in Collections
        BY <2>1 DEF FeedInv, FeedTypes
    <2>3. CASE page[p].shows \in changed
        BY <2>3
    <2>4. CASE page[p].shows \notin changed
        <3>1. Feed!Stale(p)
            BY <2>1, <2>2, <2>4 DEF Feed!Stale
        <3> QED BY <3>1 DEF FeedInv, Feed!NothingMissed
    <2> QED BY <2>3, <2>4
<1>4. Feed!NothingMissed'
    BY <1>2, <1>3 DEF Feed!NothingMissed
<1> QED BY <1>1, <1>4 DEF FeedInv

LEMMA FeedCommitOK ==
    ASSUME FeedInv, Feed!Commit
    PROVE  FeedInv'
<1>1. PICK cols \in Kinds :
          /\ content' = [c \in Collections |->
                 content[c] + IF c \in Feed!Written(cols) THEN 1 ELSE 0]
          /\ unnoted' = unnoted \cup {[commit |-> feedCommits, cols |-> cols]}
    BY DEF Feed!Commit
<1> DEFINE n == [commit |-> feedCommits, cols |-> cols]
<1>2. n \in unnoted' /\ n.cols = cols
    BY <1>1
<1>3. UNCHANGED <<missed, feed, page>>
    BY DEF Feed!Commit
<1>4. /\ content' \in [Collections -> Nat]
      /\ \A c \in Collections \ Feed!Written(cols) : content'[c] = content[c]
    BY <1>1 DEF FeedInv, FeedTypes
<1>5. \A m \in unnoted' : m.cols \in Kinds
    BY <1>1, <1>2 DEF FeedInv, FeedTypes
<1> HIDE DEF n
<1>6. \E m \in unnoted' : Feed!Written(cols) = Feed!Written(m.cols)
    BY <1>2
<1>7. unnoted \subseteq unnoted' /\ missed \subseteq missed' /\ missed' \subseteq missed \cup Collections
    BY <1>1, <1>3
<1> QED BY <1>3, <1>4, <1>5, <1>6, <1>7, ContentOK, Zenon

LEMMA FeedImportOK ==
    ASSUME FeedInv, Feed!Import
    PROVE  FeedInv'
<1>1. PICK c \in Collections : content' = [content EXCEPT ![c] = @ + 1] /\ missed' = missed \cup {c}
    BY DEF Feed!Import
<1>2. UNCHANGED <<unnoted, feed, page>>
    BY DEF Feed!Import
<1>3. content' \in [Collections -> Nat] /\ \A d \in Collections \ {c} : content'[d] = content[d]
    BY <1>1 DEF FeedInv, FeedTypes
<1>4. \A n \in unnoted' : n.cols \in Kinds
    BY <1>2 DEF FeedInv, FeedTypes
<1>5. unnoted \subseteq unnoted' /\ missed \subseteq missed' /\ missed' \subseteq missed \cup Collections
      /\ {c} \subseteq missed'
    BY <1>1, <1>2
<1> QED BY <1>2, <1>3, <1>4, <1>5, ContentOK

\* Every token is of an earlier process now.
LEMMA RestartOK ==
    ASSUME FeedInv, Feed!Restart
    PROVE  FeedInv'
<1>1. /\ feed' = Feed!NewFeed(feed.boot + 1) /\ unnoted' = {} /\ missed' = {}
      /\ UNCHANGED <<content, page>>
    BY DEF Feed!Restart
<1>2. /\ DOMAIN feed' = {"boot", "seq", "recent"} /\ feed'.boot = feed.boot + 1
      /\ feed'.seq = 0 /\ feed'.recent = <<>>
    BY <1>1 DEF Feed!NewFeed
<1>3. Orderly(feed)'
    BY <1>2, MaxAssumption DEF Orderly
<1>4. \A p \in Pages : page[p].pc # "closed" =>
          /\ page[p].token.boot <= feed'.boot /\ page[p].token.boot # feed'.boot
    BY <1>2 DEF FeedInv, FeedTypes, Token
<1>5. FeedTypes'
    BY <1>1, <1>2, <1>4 DEF FeedInv, FeedTypes
<1>6. Feed!NothingMissed'
    BY <1>1, <1>4 DEF Feed!NothingMissed, Feed!Stale, Feed!Told, Feed!Reset
<1> QED BY <1>3, <1>5, <1>6 DEF FeedInv

\* A page moves; who is told what stands for the others.
LEMMA PageOK ==
    ASSUME FeedInv, UNCHANGED <<content, unnoted, missed, feed>>,
           NEW p \in Pages, NEW q \in Page, page' = [page EXCEPT ![p] = q],
           q.pc # "closed", q.shows \in Collections,
           q.token = Feed!token \/ (page[p].pc # "closed" /\ q.token = page[p].token),
           q.pc = "shown" /\ q.shown # content[q.shows] =>
               \/ \E n \in unnoted : q.shows \in Feed!Written(n.cols)
               \/ q.shows \in missed
    PROVE  FeedInv'
<1>1. \A o \in Pages : page'[o] = IF o = p THEN q ELSE page[o]
    BY DEF FeedInv, FeedTypes
<1>2. page' \in [Pages -> Page]
    BY DEF FeedInv, FeedTypes
<1>3. Feed!token \in Token /\ Feed!token.boot = feed.boot /\ Feed!token.seq = feed.seq
    BY DEF Feed!token, Token, FeedInv, FeedTypes, Orderly
<1>4. /\ q.token \in Token /\ q.token.boot <= feed.boot
      /\ q.token.boot = feed.boot => q.token.seq <= feed.seq
    BY <1>3 DEF FeedInv, FeedTypes, Token
<1>5. FeedTypes' /\ Orderly(feed)'
    BY <1>1, <1>2, <1>4 DEF FeedInv, FeedTypes, Orderly
<1>6. ASSUME NEW o \in Pages, Feed!Stale(o)'
      PROVE  \/ Feed!Told(o)'
             \/ \E n \in unnoted : page'[o].shows \in Feed!Written(n.cols)
             \/ page'[o].shows \in missed
    <2>1. CASE o = p
        BY <1>1, <1>6, <2>1 DEF Feed!Stale
    <2>2. CASE o # p
        <3>1. page'[o] = page[o]
            BY <1>1, <2>2
        <3>2. Feed!Stale(o) /\ (Feed!Told(o)' <=> Feed!Told(o))
            BY <1>6, <3>1 DEF Feed!Stale, Feed!Told, Feed!Reset, Feed!Changed
        <3> QED BY <3>1, <3>2 DEF FeedInv, Feed!NothingMissed
    <2> QED BY <2>1, <2>2
<1>7. Feed!NothingMissed'
    BY <1>6 DEF Feed!NothingMissed
<1> QED BY <1>5, <1>7 DEF FeedInv

LEMMA OpenOK ==
    ASSUME FeedInv, NEW p \in Pages, Feed!Open(p)
    PROVE  FeedInv'
<1>1. PICK c \in Collections :
          page' = [page EXCEPT ![p] = [Feed!Closed EXCEPT !.pc = "load", !.shows = c, !.token = Feed!token]]
    BY DEF Feed!Open
<1> DEFINE q == [Feed!Closed EXCEPT !.pc = "load", !.shows = c, !.token = Feed!token]
<1>2. Feed!token \in Token
    BY DEF Feed!token, Token, FeedInv, FeedTypes, Orderly
<1>3. q \in Page /\ q.pc = "load" /\ q.shows = c /\ q.token = Feed!token
    BY <1>2 DEF Feed!Closed, Page
<1>4. page' = [page EXCEPT ![p] = q]
    BY <1>1
<1> HIDE DEF q
<1>5. UNCHANGED <<content, unnoted, missed, feed>> /\ page[p].pc = "closed"
    BY DEF Feed!Open
<1> QED BY <1>3, <1>4, <1>5, PageOK

LEMMA LoadOK ==
    ASSUME FeedInv, NEW p \in Pages, Feed!Load(p)
    PROVE  FeedInv'
<1> DEFINE q == [page[p] EXCEPT !.pc = "shown", !.shown = content[page[p].shows]]
<1>1. page[p] \in Page /\ page[p].pc = "load" /\ page[p].shows \in Collections
    BY DEF Feed!Load, FeedInv, FeedTypes
<1>2. page' = [page EXCEPT ![p] = q]
    BY DEF Feed!Load, FeedInv, FeedTypes
<1>3. content[page[p].shows] \in Nat
    BY <1>1 DEF FeedInv, FeedTypes
<1>4. /\ q \in Page /\ q.pc = "shown" /\ q.shows = page[p].shows /\ q.token = page[p].token
      /\ q.shown = content[q.shows]
    BY <1>1, <1>3 DEF Page
<1> HIDE DEF q
<1>5. UNCHANGED <<content, unnoted, missed, feed>>
    BY DEF Feed!Load
<1> QED BY <1>1, <1>2, <1>4, <1>5, PageOK

LEMMA PollOK ==
    ASSUME FeedInv, NEW p \in Pages, Feed!Poll(p)
    PROVE  FeedInv'
<1> DEFINE q == [page[p] EXCEPT !.pc = IF Feed!Told(p) THEN "load" ELSE "shown", !.token = Feed!token]
<1>1. page[p] \in Page /\ page[p].pc = "shown" /\ page[p].shows \in Collections
    BY DEF Feed!Poll, FeedInv, FeedTypes
<1>2. page' = [page EXCEPT ![p] = q]
    BY DEF Feed!Poll, FeedInv, FeedTypes
<1>3. Feed!token \in Token
    BY DEF Feed!token, Token, FeedInv, FeedTypes, Orderly
<1>4. /\ q \in Page /\ q.pc = (IF Feed!Told(p) THEN "load" ELSE "shown")
      /\ q.shows = page[p].shows /\ q.token = Feed!token /\ q.shown = page[p].shown
    BY <1>1, <1>3 DEF Page
<1> HIDE DEF q
<1>5. UNCHANGED <<content, unnoted, missed, feed>>
    BY DEF Feed!Poll
<1>6. q.pc = "shown" /\ q.shown # content[q.shows] =>
          \/ \E n \in unnoted : q.shows \in Feed!Written(n.cols)
          \/ q.shows \in missed
    BY <1>1, <1>4 DEF FeedInv, Feed!NothingMissed, Feed!Stale
<1> QED BY <1>1, <1>2, <1>4, <1>5, <1>6, PageOK

LEMMA FeedInit == Feed!Init => FeedInv
<1> SUFFICES ASSUME Feed!Init
             PROVE  FeedInv
    OBVIOUS
<1>1. Feed!Closed \in Page /\ Feed!Closed.pc = "closed"
    BY DEF Feed!Closed, Page
<1>2. \A p \in Pages : page[p] = Feed!Closed
    BY DEF Feed!Init
<1>3. DOMAIN feed = {"boot", "seq", "recent"} /\ feed.boot = 1 /\ feed.seq = 0 /\ feed.recent = <<>>
    BY DEF Feed!Init, Feed!NewFeed
<1>4. Orderly(feed)
    BY <1>3, MaxAssumption DEF Orderly
<1>5. page \in [Pages -> Page]
    BY <1>1 DEF Feed!Init
<1>6. FeedTypes
    BY <1>1, <1>2, <1>3, <1>5 DEF Feed!Init, FeedTypes
<1>7. Feed!NothingMissed
    BY <1>1, <1>2 DEF Feed!NothingMissed, Feed!Stale
<1> QED BY <1>4, <1>6, <1>7 DEF FeedInv

LEMMA FeedStep == FeedInv /\ [Feed!Next]_(Feed!vars) => FeedInv'
<1> SUFFICES ASSUME FeedInv, [Feed!Next]_(Feed!vars)
             PROVE  FeedInv'
    OBVIOUS
<1>1. ASSUME UNCHANGED Feed!vars
      PROVE  FeedInv'
    BY <1>1 DEF Feed!vars, FeedInv, FeedTypes, Orderly, Feed!NothingMissed, Feed!Stale, Feed!Told,
                Feed!Reset, Feed!Changed
<1> QED BY <1>1, HearOK, HearNothingOK, FeedCommitOK, FeedImportOK, RestartOK, OpenOK, LoadOK, PollOK
           DEF Feed!Next

\* For any pages, any size of the feed and any commits, imports, restarts and lost
\* answers: a page that shows what is no more is told by its next poll, unless the
\* change is still to be noted or is one that the server will never hear of
\* (changefeed.js:22-31, dataApi.js:31-38).
THEOREM NoPageIsLeftBehind == Feed!Spec => []NothingMissed
<1>1. FeedInv => NothingMissed
    <2>1. Orderly(feed) => Feed!TypeOK!1 /\ Feed!TypeOK!2
        BY DEF Orderly, Feed!TypeOK
    <2> QED BY <2>1 DEF FeedInv, FeedTypes, NothingMissed, Feed!TypeOK
<1> QED BY <1>1, FeedInit, FeedStep, PTL DEF Feed!Spec

-----------------------------------------------------------------------------
(* The chanting logs *)

Logs == [Chant!Days -> Chant!LogDoc \cup {None}]
ScoreOf(l) == IF l = None THEN 0 ELSE l.score

\* The recursion of Total, up to a day.
SumUpTo(g, logs, n) ==
    g = [d \in 0..n |-> IF d = 0 THEN 0 ELSE g[d - 1] + ScoreOf(logs[d])]

LEMMA FirstOne ==
    ASSUME NEW T, T \subseteq Nat, T # {}
    PROVE  \E n \in T : \A m \in T : n <= m
<1>1. PICK n \in T : \A m \in T : ~(<<m, n>> \in OpToRel(<, Nat))
    BY WFMin, NatLessThanWellFounded
<1>2. \A m \in T : ~(m < n)
    BY <1>1 DEF OpToRel
<1> QED BY <1>2

LEMMA SumsExist ==
    ASSUME NEW logs
    PROVE  \A n \in Nat : \E g : SumUpTo(g, logs, n)
<1> DEFINE T == {n \in Nat : ~\E g : SumUpTo(g, logs, n)}
<1> SUFFICES ASSUME T # {} PROVE FALSE
    OBVIOUS
<1>1. PICK n \in T : \A m \in T : n <= m
    BY FirstOne
<1>2. n # 0
    <2> DEFINE g == [d \in 0..0 |-> 0]
    <2>1. \A d \in 0..0 : d = 0
        OBVIOUS
    <2>2. g = [d \in 0..0 |-> IF d = 0 THEN 0 ELSE g[d - 1] + ScoreOf(logs[d])]
        BY <2>1
    <2>3. SumUpTo(g, logs, 0)
        BY <2>2 DEF SumUpTo
    <2> QED BY <2>3
<1>3. PICK k \in Nat : n = k + 1
    BY <1>2
<1>4. PICK g : SumUpTo(g, logs, k)
    BY <1>1, <1>3
<1> DEFINE next(d) == IF d = 0 THEN 0 ELSE g[d - 1] + ScoreOf(logs[d])
<1> DEFINE h == [d \in 0..n |-> next(d)]
<1>5. \A d \in 0..k : g[d] = next(d)
    BY <1>4 DEF SumUpTo
<1>6. \A d \in 0..k : h[d] = g[d]
    BY <1>3, <1>5
<1>7. \A d \in 0..n : d # 0 => h[d - 1] = g[d - 1]
    <2>1. \A d \in 0..n : d # 0 => d - 1 \in 0..k
        BY <1>3
    <2> HIDE DEF h
    <2> QED BY <1>6, <2>1
<1>8. \A d \in 0..n : next(d) = IF d = 0 THEN 0 ELSE h[d - 1] + ScoreOf(logs[d])
    BY <1>7
<1>9. SumUpTo(h, logs, n)
    BY <1>8 DEF SumUpTo
<1> QED BY <1>9

LEMMA TotalRecursion ==
    ASSUME NEW logs \in Logs
    PROVE  \E g : /\ g[0] = 0 /\ \A d \in Chant!Days : g[d] = g[d - 1] + ScoreOf(logs[d])
                  /\ \A d \in 0..LastDay : g[d] \in Nat
                  /\ Chant!Total(logs) = g[LastDay]
<1>1. PICK g : SumUpTo(g, logs, LastDay) /\ Chant!Total(logs) = g[LastDay]
    <2>1. \E g : SumUpTo(g, logs, LastDay)
        BY SumsExist, ChantAssumption
    <2>2. Chant!Total(logs) = (CHOOSE g : SumUpTo(g, logs, LastDay))[LastDay]
        BY Zenon DEF Chant!Total, SumUpTo, ScoreOf
    <2> QED BY <2>1, <2>2
<1>2. g[0] = 0
    BY <1>1, ChantAssumption DEF SumUpTo
<1>3. \A d \in Chant!Days : g[d] = g[d - 1] + ScoreOf(logs[d])
    BY <1>1, ChantAssumption DEF SumUpTo, Chant!Days
<1>4. \A d \in 0..LastDay : g[d] \in Nat
    <2> DEFINE T == {d \in 0..LastDay : g[d] \notin Nat}
    <2> SUFFICES ASSUME T # {} PROVE FALSE
        OBVIOUS
    <2>1. PICK n \in T : \A m \in T : n <= m
        <3>1. T \subseteq Nat
            OBVIOUS
        <3> HIDE DEF T
        <3> QED BY <3>1, FirstOne
    <2>2. n \in Chant!Days /\ n - 1 \in 0..LastDay
        BY <1>2, ChantAssumption DEF Chant!Days
    <2>3. g[n - 1] \in Nat
        BY <2>1, <2>2, ChantAssumption
    <2>4. ScoreOf(logs[n]) \in Nat
        BY <2>2 DEF Logs, Chant!LogDoc, ScoreOf
    <2> QED BY <1>3, <2>2, <2>3, <2>4
<1> QED BY <1>1, <1>2, <1>3, <1>4

\* Changing the log of a day changes the total by the change of its score.
LEMMA TotalStep ==
    ASSUME NEW logs \in Logs, NEW d \in Chant!Days, NEW l \in Chant!LogDoc \cup {None}
    PROVE  /\ Chant!Total(logs) \in Nat
           /\ Chant!Total([logs EXCEPT ![d] = l]) = Chant!Total(logs) - ScoreOf(logs[d]) + ScoreOf(l)
           /\ ScoreOf(logs[d]) <= Chant!Total(logs)
<1> DEFINE changed(x) == [logs EXCEPT ![d] = x]
<1>1. ASSUME NEW x \in Chant!LogDoc \cup {None}
      PROVE  /\ Chant!Total(logs) \in Nat /\ Chant!Total(changed(x)) \in Nat
             /\ Chant!Total(changed(x)) = Chant!Total(logs) - ScoreOf(logs[d]) + ScoreOf(x)
    <2>1. PICK g : /\ g[0] = 0 /\ \A e \in Chant!Days : g[e] = g[e - 1] + ScoreOf(logs[e])
                   /\ \A e \in 0..LastDay : g[e] \in Nat
                   /\ Chant!Total(logs) = g[LastDay]
        BY TotalRecursion
    <2>2. changed(x) \in Logs
        BY DEF Logs
    <2>3. PICK h : /\ h[0] = 0 /\ \A e \in Chant!Days : h[e] = h[e - 1] + ScoreOf(changed(x)[e])
                   /\ \A e \in 0..LastDay : h[e] \in Nat
                   /\ Chant!Total(changed(x)) = h[LastDay]
        BY <2>2, TotalRecursion
    <2>4. \A e \in Chant!Days : changed(x)[e] = IF e = d THEN x ELSE logs[e]
        BY DEF Logs
    <2>5. ScoreOf(logs[d]) \in Nat /\ ScoreOf(x) \in Nat
        BY DEF Logs, Chant!LogDoc, ScoreOf
    <2>6. \A e \in Chant!Days : /\ e \in 0..LastDay /\ e - 1 \in 0..LastDay /\ ScoreOf(logs[e]) \in Nat
        BY ChantAssumption DEF Chant!Days, Logs, Chant!LogDoc, ScoreOf
    <2> HIDE DEF changed
    <2> DEFINE gap(e) == IF e < d THEN 0 ELSE ScoreOf(x) - ScoreOf(logs[d])
    <2> DEFINE T == {e \in 0..LastDay : h[e] # g[e] + gap(e)}
    <2>7. T = {}
        <3> SUFFICES ASSUME T # {} PROVE FALSE
            OBVIOUS
        <3>1. PICK n \in T : \A m \in T : n <= m
            <4>1. T \subseteq Nat
                OBVIOUS
            <4> HIDE DEF T
            <4> QED BY <4>1, FirstOne
        <3>2. n \in Nat /\ n # 0
            <4>1. 0 < d /\ n \in Nat
                BY DEF Chant!Days
            <4> QED BY <2>1, <2>3, <4>1
        <3>3. n \in Chant!Days
            BY <3>2 DEF Chant!Days
        <3>4. n - 1 \in 0..LastDay /\ n - 1 \notin T
            BY <2>6, <3>1, <3>2, <3>3
        <3>5. h[n - 1] = g[n - 1] + gap(n - 1)
            BY <3>4
        <3>6. h[n] = h[n - 1] + ScoreOf(IF n = d THEN x ELSE logs[n]) /\ g[n] = g[n - 1] + ScoreOf(logs[n])
            BY <2>1, <2>3, <2>4, <3>3
        <3>7. h[n] # g[n] + gap(n)
            OBVIOUS
        <3> HIDE DEF T
        <3>8. g[n - 1] \in Nat /\ ScoreOf(logs[n]) \in Nat /\ d \in Nat
            BY <2>1, <2>6, <3>3 DEF Chant!Days
        <3>9. CASE n = d
            <4>1. gap(n - 1) = 0 /\ gap(n) = ScoreOf(x) - ScoreOf(logs[d])
                BY <3>2, <3>9
            <4> HIDE DEF gap
            <4> QED BY <2>5, <3>5, <3>6, <3>7, <3>8, <3>9, <4>1
        <3>10. CASE n # d
            <4>1. gap(n - 1) = gap(n) /\ gap(n) \in Int
                BY <2>5, <3>2, <3>8, <3>10
            <4> HIDE DEF gap
            <4> QED BY <3>5, <3>6, <3>7, <3>8, <3>10, <4>1
        <3> QED BY <3>9, <3>10
    <2>8. h[LastDay] = g[LastDay] + (ScoreOf(x) - ScoreOf(logs[d]))
        <3>1. LastDay \in 0..LastDay /\ ~(LastDay < d)
            BY ChantAssumption DEF Chant!Days
        <3> QED BY <2>7, <3>1
    <2>9. g[LastDay] \in Nat /\ h[LastDay] \in Nat
        BY <2>1, <2>3, ChantAssumption
    <2> QED BY <2>1, <2>3, <2>5, <2>8, <2>9
<1>2. ScoreOf(None) = 0 /\ ScoreOf(logs[d]) \in Nat
    BY DEF Logs, Chant!LogDoc, ScoreOf
<1>3. /\ Chant!Total(logs) \in Nat /\ Chant!Total(changed(None)) \in Nat
      /\ Chant!Total(changed(None)) = Chant!Total(logs) - ScoreOf(logs[d]) + ScoreOf(None)
    BY <1>1
<1>4. Chant!Total(changed(l)) = Chant!Total(logs) - ScoreOf(logs[d]) + ScoreOf(l)
    BY <1>1
<1>5. ScoreOf(logs[d]) <= Chant!Total(logs)
    <2> HIDE DEF changed
    <2> QED BY <1>2, <1>3
<1> QED BY <1>3, <1>4, <1>5

LEMMA NoLogsNoScore == Chant!Total([d \in Chant!Days |-> None]) = 0
<1> DEFINE none == [d \in Chant!Days |-> None]
<1>1. none \in Logs
    BY DEF Logs
<1>2. PICK g : /\ g[0] = 0 /\ \A d \in Chant!Days : g[d] = g[d - 1] + ScoreOf(none[d])
               /\ Chant!Total(none) = g[LastDay]
    BY <1>1, TotalRecursion
<1>3. \A d \in Chant!Days : ScoreOf(none[d]) = 0
    BY DEF ScoreOf
<1> HIDE DEF none
<1> DEFINE T == {d \in 0..LastDay : g[d] # 0}
<1>4. T = {}
    <2> SUFFICES ASSUME T # {} PROVE FALSE
        OBVIOUS
    <2>1. PICK n \in T : \A m \in T : n <= m
        <3>1. T \subseteq Nat
            OBVIOUS
        <3> HIDE DEF T
        <3> QED BY <3>1, FirstOne
    <2>2. n \in Chant!Days /\ n - 1 \in 0..LastDay
        BY <1>2, ChantAssumption DEF Chant!Days
    <2>3. g[n - 1] = 0
        BY <2>1, <2>2
    <2> QED BY <1>2, <1>3, <2>2, <2>3
<1>5. g[LastDay] = 0
    BY <1>4, ChantAssumption
<1> QED BY <1>2, <1>5 DEF none

LEMMA Greatest ==
    ASSUME NEW d \in Nat, NEW S, S \subseteq 0..d, 0 \in S
    PROVE  Chant!Max(S) \in S /\ \A n \in S : Chant!Max(S) >= n
<1> DEFINE T == {d - n : n \in S}
<1>1. PICK m \in T : \A k \in T : m <= k
    <2>1. T \subseteq Nat /\ T # {}
        OBVIOUS
    <2> HIDE DEF T
    <2> QED BY <2>1, FirstOne
<1>2. PICK x \in S : m = d - x
    OBVIOUS
<1>3. ASSUME NEW n \in S PROVE x >= n
    <2>1. m <= d - n
        BY <1>1
    <2>2. m = d - x /\ x \in Nat /\ n \in Nat
        BY <1>2
    <2> HIDE DEF T
    <2> QED BY <2>1, <2>2
<1> QED BY <1>3 DEF Chant!Max

LEMMA MaxOfTwo ==
    ASSUME NEW a \in Int, NEW b \in Int
    PROVE  Chant!Max({a, b}) = IF a >= b THEN a ELSE b
<1> DEFINE m == IF a >= b THEN a ELSE b
<1>1. m \in {a, b} /\ \A y \in {a, b} : m >= y
    OBVIOUS
<1>2. \A x \in {a, b} : (\A y \in {a, b} : x >= y) => x = m
    OBVIOUS
<1> HIDE DEF m
<1>3. Chant!Max({a, b}) = m
    BY <1>1, <1>2 DEF Chant!Max
<1> QED BY <1>3 DEF m

InARow(logs, d) == {n \in 0..d : \A i \in 0..(n - 1) : Chant!Completed(logs, d - i)}

LEMMA RunIsLongest ==
    ASSUME NEW logs, NEW d \in Nat
    PROVE  /\ Chant!Run(logs, d) \in InARow(logs, d)
           /\ \A n \in InARow(logs, d) : Chant!Run(logs, d) >= n
<1>1. Chant!Run(logs, d) = Chant!Max(InARow(logs, d))
    <2>1. d # None
        BY ChantAssumption
    <2> QED BY <2>1, Zenon DEF Chant!Run, InARow
<1>2. InARow(logs, d) \subseteq 0..d /\ 0 \in InARow(logs, d)
    BY DEF InARow
<1> QED BY <1>1, <1>2, Greatest

\* A completed day adds one to the run that ends with the day before.
LEMMA RunStep ==
    ASSUME NEW logs, NEW d \in Nat \ {0}
    PROVE  /\ Chant!Run(logs, d) \in Nat /\ Chant!Run(logs, d - 1) \in Nat
           /\ Chant!Completed(logs, d) => Chant!Run(logs, d) = Chant!Run(logs, d - 1) + 1
           /\ ~Chant!Completed(logs, d) => Chant!Run(logs, d) = 0
<1> DEFINE n == Chant!Run(logs, d)
<1> DEFINE k == Chant!Run(logs, d - 1)
<1>1. /\ n \in InARow(logs, d) /\ \A m \in InARow(logs, d) : n >= m
      /\ k \in InARow(logs, d - 1) /\ \A m \in InARow(logs, d - 1) : k >= m
    BY RunIsLongest
<1> HIDE DEF n, k
<1>2. n \in 0..d /\ k \in 0..(d - 1)
    BY <1>1 DEF InARow
<1>3. ASSUME Chant!Completed(logs, d) PROVE n = k + 1
    <2>1. k + 1 \in InARow(logs, d)
        <3>1. ASSUME NEW i \in 0..k PROVE Chant!Completed(logs, d - i)
            <4>1. CASE i = 0
                BY <1>3, <4>1
            <4>2. CASE i # 0
                <5>1. i - 1 \in 0..(k - 1) /\ (d - 1) - (i - 1) = d - i
                    BY <1>2, <4>2
                <5>2. \A j \in 0..(k - 1) : Chant!Completed(logs, (d - 1) - j)
                    BY <1>1 DEF InARow
                <5> QED BY <5>1, <5>2
            <4> QED BY <4>1, <4>2
        <3>2. k + 1 \in 0..d /\ (k + 1) - 1 = k
            BY <1>2
        <3> QED BY <3>1, <3>2 DEF InARow
    <2>2. n # 0
        BY <1>1, <1>2, <2>1
    <2>3. n - 1 \in InARow(logs, d - 1)
        <3>1. ASSUME NEW i \in 0..(n - 2) PROVE Chant!Completed(logs, (d - 1) - i)
            <4>1. i + 1 \in 0..(n - 1) /\ d - (i + 1) = (d - 1) - i
                BY <1>2
            <4>2. \A j \in 0..(n - 1) : Chant!Completed(logs, d - j)
                BY <1>1 DEF InARow
            <4> QED BY <4>1, <4>2
        <3>2. n - 1 \in 0..(d - 1) /\ (n - 1) - 1 = n - 2
            BY <1>2, <2>2
        <3> QED BY <3>1, <3>2 DEF InARow
    <2> QED BY <1>1, <1>2, <2>1, <2>3
<1>4. ASSUME ~Chant!Completed(logs, d) PROVE n = 0
    <2>1. n # 0 => 0 \in 0..(n - 1) /\ d - 0 = d
        BY <1>2
    <2> QED BY <1>1, <1>4, <2>1 DEF InARow
<1> QED BY <1>2, <1>3, <1>4 DEF n, k

LEMMA SameRun ==
    ASSUME NEW logs, NEW others, NEW d \in Nat,
           \A e \in 1..d : Chant!Completed(logs, e) <=> Chant!Completed(others, e)
    PROVE  Chant!Run(logs, d) = Chant!Run(others, d)
<1>1. \A n \in 0..d : \A i \in 0..(n - 1) : Chant!Completed(logs, d - i) <=> Chant!Completed(others, d - i)
    <2>1. \A n \in 0..d : \A i \in 0..(n - 1) : d - i \in 1..d
        OBVIOUS
    <2> QED BY <2>1
<1>2. InARow(logs, d) = InARow(others, d)
    BY <1>1 DEF InARow
<1>3. d # None
    BY ChantAssumption
<1> QED BY <1>2, <1>3, Zenon DEF Chant!Run, InARow

DeviceDoc == [pc : {"idle", "submit", "commit"}, date : Chant!Days \cup {None},
              rounds : (0..Chant!MAX_ROUNDS) \cup {None}, log : Chant!LogDoc \cup {None},
              profile : Chant!ProfileDoc \cup {None}]

ChantTypes ==
    /\ via \in {"server", "website"}
    /\ today \in Chant!Days
    /\ log \in Logs
    /\ profile \in Chant!ProfileDoc
    /\ overtaken \in BOOLEAN
    /\ device \in [Devices -> DeviceDoc]
    /\ \A v \in Devices :
           /\ device[v].pc = "submit" =>
                  via = "server" /\ device[v].date \in Chant!Days /\ device[v].rounds \in 0..Chant!MAX_ROUNDS
           /\ device[v].pc = "commit" =>
                  via = "website" /\ device[v].date \in Chant!Days /\ device[v].profile \in Chant!ProfileDoc

\* A device has read the documents as they are, or older versions of them.
DevicesRead ==
    \A v \in Devices : device[v].pc = "commit" =>
        /\ device[v].profile.version <= profile.version
        /\ device[v].profile.version = profile.version => device[v].profile = profile
        /\ device[v].log # None =>
               /\ log[device[v].date] # None
               /\ device[v].log.version <= log[device[v].date].version
               /\ device[v].log.version = log[device[v].date].version =>
                      device[v].log = log[device[v].date]

\* As long as the days are logged in their order, the last date on the profile is the
\* last day logged.
ServerDates ==
    /\ \A d \in Chant!Days : log[d] # None => log[d].target = Chant!TARGET
    /\ profile.last # None => log[profile.last] # None
    /\ ~overtaken => \A d \in Chant!Days : log[d] # None => profile.last # None /\ d <= profile.last

\* As long as they are, a last day that is completed counts in the streak.
WebsiteDates ==
    /\ profile.lastCompleted # None => log[profile.lastCompleted] # None
    /\ ~overtaken => \A d \in Chant!Days : log[d] # None /\ ~Chant!Overtakes(d) =>
           /\ log[d].completed => profile.lastCompleted = d
           /\ profile.lastCompleted = d => profile.streak >= 1

ChantInv ==
    /\ ChantTypes /\ DevicesRead
    /\ via = "server" => ServerDates
    /\ via = "website" => WebsiteDates
    /\ Chant!ScoreIsSum /\ Chant!StreakIsRun

LEMMA QuietDevice == Chant!Quiet \in DeviceDoc /\ Chant!Quiet.pc = "idle"
BY DEF Chant!Quiet, DeviceDoc

LEMMA DayFacts == 1 \in Chant!Days /\ 2 \in Chant!Days /\ 3 \in Chant!Days /\ Chant!Days \subseteq Nat \ {0} /\ None \notin Chant!Days
BY ChantAssumption DEF Chant!Days

LEMMA ChantInit == Chant!Init => ChantInv
<1> SUFFICES ASSUME Chant!Init PROVE ChantInv
    OBVIOUS
<1> DEFINE none == [d \in Chant!Days |-> None]
<1> DEFINE points == IF via = "server" THEN 10 ELSE 42
<1> DEFINE chanted(d) == Chant!Log(Chant!TARGET, Chant!TARGET, d, points, via = "website")
<1> DEFINE logs == [d \in Chant!Days |-> IF d < 3 THEN chanted(d) ELSE None]
<1> DEFINE new == [version |-> 1, streak |-> 0, longest |-> 0, score |-> 0,
                   last |-> None, lastCompleted |-> None]
<1> DEFINE steady == [version |-> 1, streak |-> 2, longest |-> IF via = "server" THEN 0 ELSE 2,
                      score |-> 2 * points, last |-> 2,
                      lastCompleted |-> IF via = "server" THEN None ELSE 2]
<1>1. /\ via \in {"server", "website"} /\ today = 3 /\ device = [v \in Devices |-> Chant!Quiet]
      /\ overtaken = FALSE
    BY DEF Chant!Init
<1>2. \/ log = none /\ profile = new
      \/ log = logs /\ profile = steady
    <2>1. PICK member \in {"new", "steady"} :
              /\ log = [d \in Chant!Days |-> IF member = "steady" /\ d < 3 THEN chanted(d) ELSE None]
              /\ profile = IF member = "new" THEN new ELSE steady
        BY Zenon DEF Chant!Init
    <2>2. CASE member = "new"
        BY <2>1, <2>2
    <2>3. CASE member = "steady"
        BY <2>1, <2>3
    <2> QED BY <2>2, <2>3
<1>3. DevicesRead
    BY <1>1, QuietDevice DEF DevicesRead
<1>4. CASE log = none /\ profile = new
    <2>1. ChantTypes
        <3>1. profile \in Chant!ProfileDoc
            BY <1>4 DEF Chant!ProfileDoc
        <3>2. log \in Logs
            BY <1>4 DEF Logs
        <3> QED BY <1>1, <3>1, <3>2, QuietDevice, DayFacts DEF ChantTypes
    <2>2. ServerDates /\ WebsiteDates
        BY <1>4 DEF ServerDates, WebsiteDates
    <2>3. Chant!ScoreIsSum
        BY <1>4, NoLogsNoScore DEF Chant!ScoreIsSum
    <2>4. Chant!StreakIsRun
        BY <1>4 DEF Chant!StreakIsRun, Chant!Run
    <2> QED BY <1>3, <2>1, <2>2, <2>3, <2>4 DEF ChantInv
<1>5. CASE log = logs /\ profile = steady
    <2>1. /\ points \in {10, 42}
          /\ \A d \in {1, 2} : chanted(d) \in Chant!LogDoc /\ chanted(d) # None
                               /\ chanted(d).score = points /\ chanted(d).target = Chant!TARGET
                               /\ chanted(d).rounds = Chant!TARGET
        <3>1. \A d \in {1, 2} : chanted(d) \in Chant!LogDoc
            BY <1>1 DEF Chant!Log, Chant!LogDoc, Chant!TARGET, Chant!MAX_ROUNDS
        <3> QED BY <3>1, ChantAssumption DEF Chant!Log
    <2> HIDE DEF chanted, points
    <2>2. \A d \in Chant!Days : d < 3 <=> d \in {1, 2}
        BY DayFacts
    <2>3. \A d \in Chant!Days : log[d] = IF d \in {1, 2} THEN chanted(d) ELSE None
        BY <1>5, <2>2
    <2>4. log \in Logs
        <3>1. \A d \in Chant!Days : (IF d < 3 THEN chanted(d) ELSE None) \in Chant!LogDoc \cup {None}
            BY <2>1, <2>2
        <3> QED BY <1>5, <3>1 DEF Logs
    <2>5. profile \in Chant!ProfileDoc
        BY <1>5, <2>1, DayFacts DEF Chant!ProfileDoc
    <2>6. ChantTypes
        BY <1>1, <2>4, <2>5, QuietDevice, DayFacts DEF ChantTypes
    <2>7. ServerDates
        BY <1>5, <2>1, <2>3, DayFacts DEF ServerDates
    <2>8. via = "website" => WebsiteDates
        <3>1. Chant!Overtakes(1)
            BY <2>1, <2>3, DayFacts DEF Chant!Overtakes
        <3> QED BY <1>5, <2>1, <2>3, <3>1, DayFacts DEF WebsiteDates
    <2>9. Chant!ScoreIsSum
        <3> DEFINE one == [none EXCEPT ![1] = chanted(1)]
        <3> DEFINE two == [one EXCEPT ![2] = chanted(2)]
        <3>1. none \in Logs /\ one \in Logs
            BY <2>1 DEF Logs
        <3>2. \A d \in Chant!Days : two[d] = IF d \in {1, 2} THEN chanted(d) ELSE None
            BY DayFacts
        <3>3. log = two
            <4>1. log = [d \in Chant!Days |-> IF d \in {1, 2} THEN chanted(d) ELSE None]
                BY <1>5, <2>2
            <4>2. two = [d \in Chant!Days |-> IF d \in {1, 2} THEN chanted(d) ELSE None]
                BY <3>2
            <4> QED BY <4>1, <4>2
        <3>4. none[1] = None /\ one[2] = None
            BY DayFacts
        <3> HIDE DEF none, one
        <3>5. Chant!Total(one) = Chant!Total(none) - ScoreOf(none[1]) + ScoreOf(chanted(1))
            <4>1. none \in Logs /\ 1 \in Chant!Days /\ chanted(1) \in Chant!LogDoc \cup {None}
                BY <2>1, <3>1, DayFacts
            <4>2. Chant!Total([none EXCEPT ![1] = chanted(1)]) = Chant!Total(none) - ScoreOf(none[1]) + ScoreOf(chanted(1))
                BY <4>1, TotalStep
            <4> QED BY <4>2 DEF one
        <3>6. Chant!Total(two) = Chant!Total(one) - ScoreOf(one[2]) + ScoreOf(chanted(2))
            <4>1. one \in Logs /\ 2 \in Chant!Days /\ chanted(2) \in Chant!LogDoc \cup {None}
                BY <2>1, <3>1, DayFacts
            <4> QED BY <4>1, TotalStep
        <3>7. Chant!Total(none) = 0
            BY NoLogsNoScore DEF none
        <3>8. Chant!Total(two) = 2 * points
            BY <2>1, <3>4, <3>5, <3>6, <3>7 DEF ScoreOf
        <3> QED BY <1>5, <3>3, <3>8 DEF Chant!ScoreIsSum
    <2>10. Chant!StreakIsRun
        <3>1. Chant!Completed(log, 1) /\ Chant!Completed(log, 2) /\ ~Chant!Completed(log, 0)
            BY <2>1, <2>3, DayFacts DEF Chant!Completed, Chant!TARGET
        <3>2. Chant!Run(log, 0) = 0
            <4>1. Chant!Run(log, 0) \in InARow(log, 0)
                BY RunIsLongest
            <4> QED BY <4>1 DEF InARow
        <3>3. Chant!Run(log, 1) = 1 /\ Chant!Run(log, 2) = 2
            <4>1. 1 - 1 = 0 /\ 2 - 1 = 1
                OBVIOUS
            <4> QED BY <3>1, <3>2, <4>1, RunStep
        <3> QED BY <1>5, <3>3 DEF Chant!StreakIsRun
    <2> QED BY <1>3, <2>6, <2>7, <2>8, <2>9, <2>10 DEF ChantInv
<1> QED BY <1>2, <1>4, <1>5

\* Steps that write nothing.
LEMMA NothingWritten ==
    ASSUME ChantInv, UNCHANGED <<via, log, profile, overtaken>>, today' \in Chant!Days,
           NEW v \in Devices, NEW d \in DeviceDoc,
           device' = device \/ device' = [device EXCEPT ![v] = d],
           d.pc = "submit" => via = "server" /\ d.date \in Chant!Days /\ d.rounds \in 0..Chant!MAX_ROUNDS,
           d.pc = "commit" =>
               via = "website" /\ d.date \in Chant!Days /\ d.log = log[d.date] /\ d.profile = profile
    PROVE  ChantInv'
<1>1. ChantTypes /\ DevicesRead /\ Chant!ScoreIsSum /\ Chant!StreakIsRun
    BY DEF ChantInv
<1>2. \A u \in Devices : device'[u] = device[u] \/ device'[u] = d
    BY <1>1 DEF ChantTypes
<1>3. ChantTypes'
    BY <1>1, <1>2 DEF ChantTypes
<1>4. DevicesRead'
    <2> SUFFICES ASSUME NEW u \in Devices, device'[u].pc = "commit"
                 PROVE  (device[u].pc = "commit" /\ device'[u] = device[u]) \/ device'[u] = d
        <3>1. log \in Logs /\ profile \in Chant!ProfileDoc /\ d \in DeviceDoc
            BY <1>1 DEF ChantTypes
        <3>2. d.log # None => d.log.version \in Nat
            BY <3>1 DEF DeviceDoc, Chant!LogDoc
        <3>3. profile.version \in Nat
            BY <3>1 DEF Chant!ProfileDoc
        <3> QED BY <1>1, <3>2, <3>3 DEF DevicesRead
    <2> QED BY <1>2
<1>5. /\ (via = "server" => ServerDates)' /\ (via = "website" => WebsiteDates)'
      /\ Chant!ScoreIsSum' /\ Chant!StreakIsRun'
    BY DEF ChantInv, ServerDates, WebsiteDates, Chant!Overtakes, Chant!ScoreIsSum, Chant!StreakIsRun
<1> QED BY <1>3, <1>4, <1>5 DEF ChantInv

\* What a write changes.
LEMMA Written ==
    ASSUME ChantInv, NEW v \in Devices, NEW date \in Chant!Days,
           NEW newLog \in Chant!LogDoc, NEW newProfile \in Chant!ProfileDoc,
           Chant!Write(v, date, newLog, newProfile), UNCHANGED <<via, today>>,
           newProfile = profile \/ newProfile.version = profile.version + 1,
           log[date] = None \/ newLog.version = log[date].version + 1
    PROVE  /\ ChantTypes' /\ DevicesRead'
           /\ newLog # None
           /\ \A e \in Chant!Days : log'[e] = IF e = date THEN newLog ELSE log[e]
           /\ \A e \in Chant!Days : Chant!Overtakes(e)' <=> Chant!Overtakes(e) \/ date > e
           /\ ~overtaken' => ~overtaken /\ ~Chant!Overtakes(date)
<1>1. ChantTypes /\ DevicesRead
    BY DEF ChantInv
<1>2. newLog # None
    BY ChantAssumption
<1>3. \A e \in Chant!Days : log'[e] = IF e = date THEN newLog ELSE log[e]
    BY <1>1 DEF Chant!Write, ChantTypes, Logs
<1>4. \A e \in Chant!Days : Chant!Overtakes(e)' <=> Chant!Overtakes(e) \/ date > e
    BY <1>2, <1>3 DEF Chant!Overtakes
<1>5. \A u \in Devices : device'[u] = device[u] \/ device'[u] = Chant!Quiet
    BY <1>1 DEF Chant!Write, ChantTypes
<1>6. ChantTypes'
    <2>1. log' \in Logs
        BY <1>1 DEF Chant!Write, ChantTypes, Logs
    <2>2. overtaken' \in BOOLEAN
        BY <1>1 DEF Chant!Write, ChantTypes, Chant!Overtakes
    <2>3. profile' \in Chant!ProfileDoc /\ via' = via /\ today' = today
        BY DEF Chant!Write
    <2>4. device' \in [Devices -> DeviceDoc]
        BY <1>1, QuietDevice DEF Chant!Write, ChantTypes
    <2> QED BY <1>1, <1>5, <2>1, <2>2, <2>3, <2>4, QuietDevice DEF ChantTypes
<1>7. DevicesRead'
    <2> SUFFICES ASSUME NEW u \in Devices, device[u].pc = "commit", device'[u] = device[u]
                 PROVE  /\ device[u].profile.version <= newProfile.version
                        /\ device[u].profile.version = newProfile.version => device[u].profile = newProfile
                        /\ device[u].log # None =>
                               /\ log'[device[u].date] # None
                               /\ device[u].log.version <= log'[device[u].date].version
                               /\ device[u].log.version = log'[device[u].date].version =>
                                      device[u].log = log'[device[u].date]
        BY <1>5, QuietDevice DEF DevicesRead, Chant!Write
    <2>1. /\ device[u].profile.version \in Nat /\ profile.version \in Nat
          /\ device[u].profile.version <= profile.version
          /\ device[u].profile.version = profile.version => device[u].profile = profile
        BY <1>1 DEF ChantTypes, DevicesRead, Chant!ProfileDoc
    <2>2. /\ device[u].date \in Chant!Days
          /\ device[u].log # None => device[u].log.version \in Nat
          /\ log[device[u].date] # None => log[device[u].date].version \in Nat
        BY <1>1 DEF ChantTypes, DeviceDoc, Logs, Chant!LogDoc
    <2>3. /\ device[u].profile.version <= newProfile.version
          /\ device[u].profile.version = newProfile.version => device[u].profile = newProfile
        BY <2>1
    <2>4. ASSUME device[u].log # None
          PROVE  /\ log[device[u].date] # None
                 /\ device[u].log.version <= log[device[u].date].version
                 /\ device[u].log.version = log[device[u].date].version => device[u].log = log[device[u].date]
        BY <1>1, <2>4 DEF DevicesRead
    <2>5. CASE device[u].date = date
        BY <1>2, <1>3, <2>2, <2>3, <2>4, <2>5
    <2>6. CASE device[u].date # date
        <3>1. log'[device[u].date] = log[device[u].date]
            BY <1>3, <2>2, <2>6
        <3> QED BY <2>3, <2>4, <3>1
    <2> QED BY <2>5, <2>6
<1>8. ~overtaken' => ~overtaken /\ ~Chant!Overtakes(date)
    BY Zenon DEF Chant!Write
<1> QED BY <1>2, <1>3, <1>4, <1>6, <1>7, <1>8

\* A commit whose preconditions hold was computed from the documents as they are.
LEMMA ReadyIsCurrent ==
    ASSUME ChantInv, NEW v \in Devices, Chant!Ready(v)
    PROVE  /\ via = "website" /\ device[v].date \in Chant!Days
           /\ device[v].profile = profile /\ profile \in Chant!ProfileDoc
           /\ device[v].log = log[device[v].date] /\ device[v].log \in Chant!LogDoc \cup {None}
<1>1. ChantTypes /\ DevicesRead
    BY DEF ChantInv
<1>2. device[v].pc = "commit" /\ Chant!PreconditionsHold(v)
    BY DEF Chant!Ready
<1>3. /\ via = "website" /\ device[v].date \in Chant!Days /\ device[v].profile \in Chant!ProfileDoc
      /\ profile \in Chant!ProfileDoc /\ device[v].log \in Chant!LogDoc \cup {None}
      /\ log[device[v].date] \in Chant!LogDoc \cup {None}
    BY <1>1, <1>2 DEF ChantTypes, Logs, DeviceDoc
<1>4. device[v].profile = profile
    <2>1. device[v].profile # None /\ profile # None
        BY <1>3, ChantAssumption
    <2> QED BY <1>1, <1>2, <2>1 DEF Chant!PreconditionsHold, Chant!VersionOf, DevicesRead
<1>5. device[v].log = log[device[v].date]
    <2>1. /\ device[v].log # None => device[v].log.version \in Nat
          /\ log[device[v].date] # None => log[device[v].date].version \in Nat
        BY <1>3 DEF Chant!LogDoc
    <2>2. None \notin Nat
        BY ChantAssumption
    <2> QED BY <1>1, <1>2, <2>1, <2>2 DEF Chant!PreconditionsHold, Chant!VersionOf, DevicesRead
<1> QED BY <1>3, <1>4, <1>5

LEMMA SubmitOK ==
    ASSUME ChantInv, NEW v \in Devices, Chant!SubmitToday(v)
    PROVE  ChantInv'
<1> DEFINE date == device[v].date
<1> DEFINE rounds == device[v].rounds
<1> DEFINE streak == Chant!NextStreak(rounds, profile, date - 1)
<1> DEFINE score == Chant!ScoreFor(rounds, streak)
<1> DEFINE newLog == Chant!Log(Chant!TARGET, rounds, streak, score, FALSE)
<1> DEFINE newProfile == [profile EXCEPT !.version = @ + 1, !.streak = streak, !.score = @ + score, !.last = date]
<1>1. ChantTypes /\ Chant!ScoreIsSum /\ Chant!StreakIsRun
    BY DEF ChantInv
<1>2. /\ via = "server" /\ date \in Chant!Days /\ rounds \in 0..Chant!MAX_ROUNDS /\ log[date] = None
      /\ Chant!Write(v, date, newLog, newProfile) /\ UNCHANGED <<via, today>>
    BY <1>1 DEF Chant!SubmitToday, ChantTypes, Chant!Logged
<1>3. ServerDates
    BY <1>2 DEF ChantInv
<1>4. /\ profile \in Chant!ProfileDoc /\ profile.streak \in Nat /\ profile.score \in Nat /\ profile.version \in Nat
      /\ profile.last \in Chant!Days \cup {None}
    BY <1>1 DEF ChantTypes, Chant!ProfileDoc
<1>5. streak \in Nat
    BY <1>4 DEF Chant!NextStreak
<1>6. score \in Nat
    <2>1. (IF streak \in {3, 7} THEN Chant!BONUS[streak] ELSE 0) \in Nat
        BY DEF Chant!BONUS
    <2> QED BY <1>2, <2>1 DEF Chant!ScoreFor, Chant!TARGET, Chant!MAX_ROUNDS
<1>7. newLog \in Chant!LogDoc /\ newLog.target = Chant!TARGET /\ newLog.rounds = rounds /\ newLog.score = score
    BY <1>2, <1>5, <1>6 DEF Chant!Log, Chant!LogDoc, Chant!TARGET, Chant!MAX_ROUNDS
<1> HIDE DEF newLog, score, streak
<1>8. /\ newProfile \in Chant!ProfileDoc /\ newProfile.version = profile.version + 1
      /\ newProfile.streak = streak /\ newProfile.score = profile.score + score /\ newProfile.last = date
    <2>1. profile.version + 1 \in Nat /\ profile.score + score \in Nat /\ date \in Chant!Days \cup {None}
        BY <1>2, <1>4, <1>6
    <2>2. \A a, b, c \in Nat : \A d \in Chant!Days \cup {None} :
              [profile EXCEPT !.version = a, !.streak = b, !.score = c, !.last = d] \in Chant!ProfileDoc
        BY <1>4 DEF Chant!ProfileDoc
    <2> HIDE DEF date
    <2>3. newProfile = [profile EXCEPT !.version = profile.version + 1, !.streak = streak,
                                       !.score = profile.score + score, !.last = date]
        BY <1>4 DEF Chant!ProfileDoc
    <2>4. newProfile \in Chant!ProfileDoc
        BY <1>5, <2>1, <2>2, <2>3
    <2> QED BY <1>4, <2>3, <2>4 DEF Chant!ProfileDoc
<1> HIDE DEF newProfile
<1>9. /\ ChantTypes' /\ DevicesRead' /\ newLog # None
      /\ \A e \in Chant!Days : log'[e] = IF e = date THEN newLog ELSE log[e]
      /\ ~overtaken' => ~overtaken /\ ~Chant!Overtakes(date)
    BY <1>2, <1>7, <1>8, Written
<1>10. profile' = newProfile /\ log' = [log EXCEPT ![date] = newLog]
    BY <1>2 DEF Chant!Write
<1> HIDE DEF date, rounds
<1>11. Chant!ScoreIsSum'
    <2>1. log \in Logs /\ newLog \in Chant!LogDoc \cup {None}
        BY <1>1, <1>7 DEF ChantTypes
    <2>2. Chant!Total(log') = Chant!Total(log) - ScoreOf(None) + ScoreOf(newLog) /\ Chant!Total(log) \in Nat
        BY <1>2, <1>10, <2>1, TotalStep
    <2> QED BY <1>1, <1>4, <1>6, <1>7, <1>8, <1>9, <1>10, <2>2 DEF Chant!ScoreIsSum, ScoreOf
<1>12. ServerDates'
    <2>1. \A d \in Chant!Days : log'[d] # None => log'[d].target = Chant!TARGET
        BY <1>3, <1>7, <1>9 DEF ServerDates
    <2>2. log'[date] # None /\ date # None
        BY <1>2, <1>9, DayFacts
    <2>3. ASSUME ~overtaken', NEW d \in Chant!Days, log'[d] # None
          PROVE  d <= date
        <3>1. d \in Nat /\ date \in Nat /\ (d # date => log[d] # None)
            BY <1>2, <1>9, <2>3, DayFacts
        <3>2. ~(d > date /\ log[d] # None)
            BY <1>9, <2>3 DEF Chant!Overtakes
        <3> QED BY <3>1, <3>2
    <2> QED BY <1>8, <1>10, <2>1, <2>2, <2>3 DEF ServerDates
<1>13. Chant!StreakIsRun'
    <2>1. date \in Nat \ {0} /\ date - 1 \in Nat /\ date # None
        BY <1>2, DayFacts
    <2>2. Chant!Run(log', date - 1) = Chant!Run(log, date - 1)
        <3>1. \A e \in 1..(date - 1) : log'[e] = log[e]
            BY <1>2, <1>9, <2>1, ChantAssumption DEF Chant!Days
        <3> QED BY <2>1, <3>1, SameRun DEF Chant!Completed
    <2>3. Chant!Completed(log', date) <=> rounds >= Chant!TARGET
        BY <1>2, <1>7, <1>9, <2>1 DEF Chant!Completed
    <2>4. /\ Chant!Run(log', date) \in Nat /\ Chant!Run(log, date - 1) \in Nat
          /\ rounds >= Chant!TARGET => Chant!Run(log', date) = Chant!Run(log, date - 1) + 1
          /\ ~(rounds >= Chant!TARGET) => Chant!Run(log', date) = 0
        BY <2>1, <2>2, <2>3, RunStep
    <2>5. streak = IF rounds < Chant!TARGET THEN 0
                   ELSE IF profile.last = date - 1 /\ profile.streak > 0 THEN profile.streak + 1 ELSE 1
        BY DEF streak, Chant!NextStreak, date, rounds
    <2>6. rounds \in Int /\ (rounds < Chant!TARGET <=> ~(rounds >= Chant!TARGET))
        BY <1>2 DEF Chant!TARGET
    <2>7. profile.last = date - 1 => profile.streak <= Chant!Run(log, date - 1)
        BY <1>1, <1>2, <2>1 DEF Chant!StreakIsRun
    <2>8. streak <= Chant!Run(log', date)
        BY <1>4, <2>4, <2>5, <2>6, <2>7
    <2>9. ASSUME ~overtaken' PROVE streak = Chant!Run(log', date)
        <3>1. ~overtaken /\ \A d \in Chant!Days : d > date => log[d] = None
            BY <1>9, <2>9 DEF Chant!Overtakes
        <3>2. CASE profile.last = date - 1
            <4>1. profile.streak = Chant!Run(log, date - 1)
                BY <1>1, <1>2, <3>1, <3>2 DEF Chant!StreakIsRun
            <4> QED BY <1>4, <2>4, <2>5, <2>6, <3>2, <4>1
        <3>3. CASE profile.last # date - 1
            <4>1. ~Chant!Completed(log, date - 1)
                <5>1. SUFFICES ASSUME date - 1 \in Chant!Days, log[date - 1] # None
                               PROVE  FALSE
                    BY <1>2, <2>1, ChantAssumption DEF Chant!Completed, Chant!Days
                <5>2. profile.last \in Chant!Days /\ date - 1 <= profile.last
                    BY <1>3, <1>4, <3>1, <5>1 DEF ServerDates
                <5>3. log[profile.last] # None
                    BY <1>3, <5>2, DayFacts DEF ServerDates
                <5>4. profile.last <= date
                    <6>1. profile.last \in Nat /\ date \in Nat
                        BY <2>1, <5>2, DayFacts
                    <6> QED BY <3>1, <5>2, <5>3, <6>1
                <5>5. profile.last # date
                    BY <1>2, <5>3
                <5>6. profile.last \in Nat /\ date \in Nat
                    BY <2>1, <5>2, DayFacts
                <5> QED BY <3>3, <5>2, <5>4, <5>5, <5>6
            <4>2. Chant!Run(log, date - 1) = 0
                <5>1. CASE date - 1 = 0
                    <6>1. Chant!Run(log, 0) \in InARow(log, 0)
                        BY RunIsLongest
                    <6> QED BY <5>1, <6>1 DEF InARow
                <5>2. CASE date - 1 # 0
                    BY <2>1, <4>1, <5>2, RunStep
                <5> QED BY <5>1, <5>2
            <4> QED BY <2>4, <2>5, <2>6, <3>3, <4>2
        <3> QED BY <3>2, <3>3
    <2> QED BY <1>2, <1>8, <1>10, <2>8, <2>9 DEF Chant!StreakIsRun
<1>14. via' = "server"
    BY <1>2
<1> QED BY <1>9, <1>11, <1>12, <1>13, <1>14 DEF ChantInv

LEMMA VowOK ==
    ASSUME ChantInv, NEW v \in Devices, Chant!Vow(v)
    PROVE  ChantInv'
<1> DEFINE date == device[v].date
<1>1. ChantTypes /\ Chant!ScoreIsSum /\ Chant!StreakIsRun
    BY DEF ChantInv
<1>2. /\ via = "website" /\ date \in Chant!Days /\ device[v].profile = profile
      /\ profile \in Chant!ProfileDoc /\ log[date] = None
    BY ReadyIsCurrent DEF Chant!Vow
<1>3. WebsiteDates
    BY <1>2 DEF ChantInv
<1>4. PICK target \in Targets : Chant!ValidVow(Chant!VowOf(v, target)) /\ Chant!Write(v, date, Chant!VowOf(v, target), profile)
    BY DEF Chant!Vow
<1> DEFINE new == Chant!VowOf(v, target)
<1>5. /\ new.target = target /\ new.rounds = 0 /\ new.score = 0 /\ ~new.completed
      /\ new = Chant!Log(target, 0, Chant!Chain(v), 0, FALSE) /\ new.streak = Chant!Chain(v)
    BY DEF Chant!VowOf, Chant!Log
<1>6. new \in Chant!LogDoc
    <2>1. target \in 8..Chant!MAX_ROUNDS
        BY ChantAssumption
    <2>2. Chant!Chain(v) \in Nat
        BY <1>2 DEF Chant!Chain, Chant!ProfileDoc
    <2> QED BY <1>5, <2>1, <2>2 DEF Chant!Log, Chant!LogDoc, Chant!MAX_ROUNDS
<1>7. UNCHANGED <<via, today>> /\ Chant!Write(v, date, new, profile)
    BY <1>4 DEF Chant!Vow
<1> HIDE DEF new, date
<1>8. /\ ChantTypes' /\ DevicesRead' /\ new # None
      /\ \A e \in Chant!Days : log'[e] = IF e = date THEN new ELSE log[e]
      /\ \A e \in Chant!Days : Chant!Overtakes(e)' <=> Chant!Overtakes(e) \/ date > e
      /\ ~overtaken' => ~overtaken /\ ~Chant!Overtakes(date)
    BY <1>2, <1>6, <1>7, Written
<1>9. profile' = profile /\ log' = [log EXCEPT ![date] = new] /\ via' = "website"
    BY <1>2, <1>7 DEF Chant!Write
<1>10. Chant!ScoreIsSum'
    <2>1. log \in Logs /\ new \in Chant!LogDoc \cup {None}
        BY <1>1, <1>6 DEF ChantTypes
    <2>2. Chant!Total(log') = Chant!Total(log) - ScoreOf(None) + ScoreOf(new) /\ Chant!Total(log) \in Nat
        BY <1>2, <1>9, <2>1, TotalStep
    <2> QED BY <1>1, <1>5, <1>8, <1>9, <2>2 DEF Chant!ScoreIsSum, ScoreOf
<1>11. Chant!StreakIsRun'
    <2>1. ASSUME profile.lastCompleted # None
          PROVE  Chant!Run(log', profile.lastCompleted) = Chant!Run(log, profile.lastCompleted)
        <3>1. profile.lastCompleted \in Chant!Days
            BY <1>2, <2>1 DEF Chant!ProfileDoc
        <3>2. \A e \in 1..profile.lastCompleted : e \in Chant!Days
            BY <3>1, ChantAssumption DEF Chant!Days
        <3>3. target \in 8..Chant!MAX_ROUNDS
            BY ChantAssumption
        <3>4. ~(0 >= target)
            BY <3>3
        <3>5. \A e \in Chant!Days : Chant!Completed(log', e) <=> Chant!Completed(log, e)
            BY <1>2, <1>5, <1>8, <3>4 DEF Chant!Completed
        <3> QED BY <3>1, <3>2, <3>5, DayFacts, SameRun
    <2> QED BY <1>1, <1>2, <1>9, <2>1 DEF Chant!StreakIsRun
<1>12. WebsiteDates'
    <2>1. profile.lastCompleted \in Chant!Days \cup {None}
        BY <1>2 DEF Chant!ProfileDoc
    <2>2. profile.lastCompleted # None => log'[profile.lastCompleted] # None
        BY <1>3, <1>8, <2>1 DEF WebsiteDates
    <2>3. ASSUME ~overtaken', NEW d \in Chant!Days, log'[d] # None, ~Chant!Overtakes(d)'
          PROVE  /\ log'[d].completed => profile.lastCompleted = d
                 /\ profile.lastCompleted = d => profile.streak >= 1
        <3>1. CASE d = date
            BY <1>2, <1>3, <1>5, <1>8, <3>1, DayFacts DEF WebsiteDates
        <3>2. CASE d # date
            BY <1>3, <1>8, <2>3, <3>2 DEF WebsiteDates
        <3> QED BY <3>1, <3>2
    <2> QED BY <1>9, <2>2, <2>3 DEF WebsiteDates
<1> QED BY <1>8, <1>9, <1>10, <1>11, <1>12 DEF ChantInv

LEMMA PointsBounds ==
    ASSUME NEW rounds \in 0..Chant!MAX_ROUNDS, NEW done \in BOOLEAN, NEW streak
    PROVE  /\ Chant!Points(rounds, done, streak) \in 0..Chant!MAX_LOG_SCORE
           /\ Chant!MaxLogScore(rounds, done, streak) = Chant!Points(rounds, done, streak)
<1>1. Chant!Bonus(streak) \in {0, 20, 50, 200}
    BY DEF Chant!Bonus, Chant!BONUS
<1>2. rounds \in Nat /\ rounds * 2 <= 128
    BY DEF Chant!MAX_ROUNDS
<1> QED BY <1>1, <1>2 DEF Chant!Points, Chant!MaxLogScore, Chant!MAX_LOG_SCORE, Chant!MAX_ROUNDS

\* The log and the summary that the website computes from current documents.
LEMMA Computed ==
    ASSUME ChantInv, NEW v \in Devices, Chant!Ready(v), device[v].log # None,
           NEW rounds \in 0..Chant!MAX_ROUNDS, NEW streak \in Int
    PROVE  LET l == device[v].log
               new == Chant!RoundsOf(v, rounds, streak)
               summary == Chant!SummaryOf(v, new)
               done == rounds >= l.target
           IN  /\ new.version = l.version + 1 /\ new.target = l.target /\ new.rounds = rounds
               /\ new.streak = streak /\ new.completed = done
               /\ new.score = Chant!Points(rounds, done, streak)
               /\ summary.version = profile.version + 1 /\ summary.streak = streak
               /\ summary.longest = Chant!Max({profile.longest, streak}) /\ summary.longest \in Int
               /\ summary.score = profile.score + new.score - l.score /\ summary.score \in Nat
               /\ summary.last = device[v].date
               /\ summary.lastCompleted = IF done THEN device[v].date
                                          ELSE IF profile.lastCompleted = device[v].date THEN None
                                               ELSE profile.lastCompleted
               /\ streak \in Nat => new \in Chant!LogDoc /\ summary \in Chant!ProfileDoc
<1> DEFINE l == device[v].log
<1> DEFINE new == Chant!RoundsOf(v, rounds, streak)
<1> DEFINE summary == Chant!SummaryOf(v, new)
<1> DEFINE done == rounds >= l.target
<1>1. /\ device[v].date \in Chant!Days /\ device[v].profile = profile /\ profile \in Chant!ProfileDoc
      /\ l = log[device[v].date] /\ l \in Chant!LogDoc
    BY ReadyIsCurrent
<1>2. log \in Logs /\ Chant!ScoreIsSum
    BY DEF ChantInv, ChantTypes
<1>3. /\ new.version = l.version + 1 /\ new.target = l.target /\ new.rounds = rounds
      /\ new.streak = streak /\ new.completed = done
      /\ new.score = Chant!Points(rounds, done, streak)
      /\ DOMAIN new = {"version", "target", "rounds", "streak", "score", "completed"}
    BY DEF Chant!RoundsOf, Chant!Log
<1>4. new = [version |-> new.version, target |-> new.target, rounds |-> new.rounds, streak |-> new.streak,
             score |-> new.score, completed |-> new.completed]
    BY DEF Chant!RoundsOf, Chant!Log
<1>5. new.score \in 0..Chant!MAX_LOG_SCORE /\ new.score \in Nat /\ done \in BOOLEAN
    <2>1. done \in BOOLEAN
        OBVIOUS
    <2> HIDE DEF done
    <2>2. Chant!Points(rounds, done, streak) \in 0..Chant!MAX_LOG_SCORE
        BY <2>1, PointsBounds
    <2> QED BY <1>3, <2>1, <2>2
<1>6. streak \in Nat => new \in Chant!LogDoc
    <2>1. l.version + 1 \in Nat /\ l.target \in 8..Chant!MAX_ROUNDS
        BY <1>1 DEF Chant!LogDoc
    <2> HIDE DEF new, done, l
    <2> QED BY <1>3, <1>4, <1>5, <2>1 DEF Chant!LogDoc
<1> HIDE DEF new
<1>7. summary = [version |-> profile.version + 1, streak |-> streak,
                 longest |-> Chant!Max({profile.longest, streak}),
                 score |-> Chant!Max({0, profile.score + new.score - l.score}),
                 last |-> device[v].date,
                 lastCompleted |-> IF done THEN device[v].date
                                   ELSE IF profile.lastCompleted = device[v].date THEN None
                                        ELSE profile.lastCompleted]
    BY <1>1, <1>3, Zenon DEF Chant!SummaryOf
<1>8. Chant!Max({profile.longest, streak}) \in Int /\ (streak \in Nat => Chant!Max({profile.longest, streak}) \in Nat)
    <2>1. profile.longest \in Nat
        BY <1>1 DEF Chant!ProfileDoc
    <2> QED BY <2>1, MaxOfTwo
<1>9. /\ Chant!Max({0, profile.score + new.score - l.score}) = profile.score + new.score - l.score
      /\ profile.score + new.score - l.score \in Nat
    <2>1. l.score <= profile.score
        <3>1. ScoreOf(log[device[v].date]) <= Chant!Total(log)
            BY <1>1, <1>2, TotalStep
        <3> QED BY <1>1, <1>2, <3>1 DEF ScoreOf, Chant!ScoreIsSum
    <2>2. l.score \in Nat /\ profile.score \in Nat
        BY <1>1 DEF Chant!LogDoc, Chant!ProfileDoc
    <2> DEFINE x == profile.score + new.score - l.score
    <2>3. x \in Nat
        BY <1>5, <2>1, <2>2
    <2> HIDE DEF x
    <2>4. Chant!Max({0, x}) = x
        BY <2>3, MaxOfTwo
    <2> QED BY <2>3, <2>4 DEF x
<1> HIDE DEF summary, l, done
<1>10. /\ summary.version = profile.version + 1 /\ summary.streak = streak
       /\ summary.longest = Chant!Max({profile.longest, streak}) /\ summary.longest \in Int
       /\ summary.score = profile.score + new.score - l.score /\ summary.score \in Nat
       /\ summary.last = device[v].date
       /\ summary.lastCompleted = IF done THEN device[v].date
                                  ELSE IF profile.lastCompleted = device[v].date THEN None
                                       ELSE profile.lastCompleted
    BY <1>7, <1>8, <1>9
<1>11. streak \in Nat => summary \in Chant!ProfileDoc
    <2>1. profile.version + 1 \in Nat /\ profile.lastCompleted \in Chant!Days \cup {None}
        BY <1>1 DEF Chant!ProfileDoc
    <2> QED BY <1>1, <1>7, <1>8, <1>9, <2>1 DEF Chant!ProfileDoc
<1> QED BY <1>3, <1>6, <1>10, <1>11 DEF new, summary, l, done

\* The streaks that it may claim.
LEMMA Claims ==
    ASSUME ChantInv, NEW v \in Devices, Chant!Ready(v), NEW done \in BOOLEAN,
           NEW streak \in Chant!StreaksOf(v, done)
    PROVE  /\ streak \in Int
           /\ done /\ profile.lastCompleted = device[v].date => streak = profile.streak
           /\ done /\ profile.lastCompleted # device[v].date =>
                  streak = (IF profile.lastCompleted = device[v].date - 1 THEN profile.streak + 1 ELSE 1)
           /\ ~done /\ profile.lastCompleted = device[v].date => streak \in {0, profile.streak - 1}
           /\ ~done /\ profile.lastCompleted # device[v].date =>
                  streak = (IF profile.lastCompleted = device[v].date - 1 THEN profile.streak ELSE 0)
<1>1. device[v].profile = profile /\ profile.streak \in Nat
    BY ReadyIsCurrent DEF Chant!ProfileDoc
<1>2. profile.lastCompleted # device[v].date =>
          Chant!Chain(v) = (IF profile.lastCompleted = device[v].date - 1 THEN profile.streak ELSE 0)
    BY <1>1 DEF Chant!Chain
<1>3. CASE done
    BY <1>1, <1>2, <1>3 DEF Chant!StreaksOf
<1>4. CASE ~done
    BY <1>1, <1>2, <1>4 DEF Chant!StreaksOf
<1> QED BY <1>3, <1>4

LEMMA LogRoundsOK ==
    ASSUME ChantInv, NEW v \in Devices, Chant!LogRounds(v)
    PROVE  ChantInv'
<1> DEFINE date == device[v].date
<1> DEFINE l == device[v].log
<1>1. ChantTypes /\ Chant!ScoreIsSum /\ Chant!StreakIsRun
    BY DEF ChantInv
<1>2. Chant!Ready(v) /\ l # None /\ UNCHANGED <<via, today>>
    BY DEF Chant!LogRounds
<1>3. /\ via = "website" /\ date \in Chant!Days /\ profile \in Chant!ProfileDoc /\ l = log[date] /\ l \in Chant!LogDoc
      /\ profile.streak \in Nat /\ profile.lastCompleted \in Chant!Days \cup {None}
    BY <1>2, ReadyIsCurrent DEF Chant!ProfileDoc
<1>4. WebsiteDates
    BY <1>3 DEF ChantInv
<1>5. PICK rounds \in Rounds : \E streak \in Chant!StreaksOf(v, rounds >= l.target) :
          LET new == Chant!RoundsOf(v, rounds, streak)
          IN  /\ Chant!ValidRounds(l, new)
              /\ Chant!ValidSadhanaProfile(Chant!SummaryOf(v, new), l, new)
              /\ Chant!Write(v, date, new, Chant!SummaryOf(v, new))
    BY DEF Chant!LogRounds
<1> DEFINE done == rounds >= l.target
<1>6. PICK streak \in Chant!StreaksOf(v, done) :
          LET new == Chant!RoundsOf(v, rounds, streak)
          IN  /\ Chant!ValidRounds(l, new)
              /\ Chant!ValidSadhanaProfile(Chant!SummaryOf(v, new), l, new)
              /\ Chant!Write(v, date, new, Chant!SummaryOf(v, new))
    BY <1>5
<1> DEFINE new == Chant!RoundsOf(v, rounds, streak)
<1> DEFINE summary == Chant!SummaryOf(v, new)
<1>7. rounds \in 0..Chant!MAX_ROUNDS /\ done \in BOOLEAN
    BY ChantAssumption
<1> HIDE DEF done
<1>8. /\ streak \in Int
      /\ done /\ profile.lastCompleted = date => streak = profile.streak
      /\ done /\ profile.lastCompleted # date =>
             streak = (IF profile.lastCompleted = date - 1 THEN profile.streak + 1 ELSE 1)
      /\ ~done /\ profile.lastCompleted # date =>
             streak = (IF profile.lastCompleted = date - 1 THEN profile.streak ELSE 0)
    BY <1>2, <1>7, Claims
<1>9. /\ new.version = l.version + 1 /\ new.target = l.target /\ new.rounds = rounds
      /\ new.streak = streak /\ new.completed = done
      /\ summary.version = profile.version + 1 /\ summary.streak = streak
      /\ summary.score = profile.score + new.score - l.score
      /\ summary.lastCompleted = IF done THEN date
                                 ELSE IF profile.lastCompleted = date THEN None ELSE profile.lastCompleted
      /\ streak \in Nat => new \in Chant!LogDoc /\ summary \in Chant!ProfileDoc
    <2> USE DEF done
    <2>1. Chant!Ready(v) /\ device[v].log # None /\ streak \in Int /\ rounds \in 0..Chant!MAX_ROUNDS
        BY <1>2, <1>7, <1>8
    <2>2. /\ new.version = l.version + 1 /\ new.target = l.target /\ new.rounds = rounds
          /\ new.streak = streak
        BY ZenonT(40), <2>1, Computed
    <2>6. summary.version = profile.version + 1 /\ summary.streak = streak
        BY ZenonT(40), <2>1, Computed
    <2>7. summary.score = profile.score + new.score - l.score
        BY ZenonT(40), <2>1, Computed
    <2>3. new.completed = done
        BY ZenonT(40), <2>1, Computed
    <2>4. summary.lastCompleted = IF done THEN date
                                 ELSE IF profile.lastCompleted = date THEN None ELSE profile.lastCompleted
        BY Zenon, <2>1, Computed
    <2>5. streak \in Nat => new \in Chant!LogDoc /\ summary \in Chant!ProfileDoc
        BY <2>1, Computed
    <2> QED BY <2>2, <2>3, <2>4, <2>5, <2>6, <2>7
<1> HIDE DEF new, summary, l, date
<1>10. Chant!ValidRounds(l, new) /\ Chant!Write(v, date, new, summary)
    BY <1>6 DEF new, summary, l, date
<1>11. streak \in Nat /\ new \in Chant!LogDoc /\ summary \in Chant!ProfileDoc
    BY <1>3, <1>8, <1>9, <1>10 DEF Chant!ValidRounds
<1>12. /\ ChantTypes' /\ DevicesRead' /\ new # None
       /\ \A e \in Chant!Days : log'[e] = IF e = date THEN new ELSE log[e]
       /\ \A e \in Chant!Days : Chant!Overtakes(e)' <=> Chant!Overtakes(e) \/ date > e
       /\ ~overtaken' => ~overtaken /\ ~Chant!Overtakes(date)
    BY <1>2, <1>3, <1>9, <1>10, <1>11, Written
<1>13. profile' = summary /\ log' = [log EXCEPT ![date] = new] /\ via' = "website"
    BY <1>2, <1>3, <1>10 DEF Chant!Write
<1>14. Chant!ScoreIsSum'
    <2>1. log \in Logs /\ new \in Chant!LogDoc \cup {None}
        BY <1>1, <1>11 DEF ChantTypes
    <2>2. Chant!Total(log') = Chant!Total(log) - ScoreOf(l) + ScoreOf(new) /\ Chant!Total(log) \in Nat
        BY <1>3, <1>13, <2>1, TotalStep
    <2>3. ScoreOf(l) = l.score /\ ScoreOf(new) = new.score /\ l.score \in Nat /\ new.score \in Nat
        BY <1>2, <1>3, <1>11, <1>12 DEF ScoreOf, Chant!LogDoc, l
    <2> QED BY <1>1, <1>9, <1>13, <2>2, <2>3 DEF Chant!ScoreIsSum
<1>15. done <=> Chant!Completed(log', date)
    BY <1>3, <1>9, <1>12, DayFacts DEF Chant!Completed, done
<1>16. Chant!StreakIsRun'
    <2>1. date \in Nat \ {0} /\ date - 1 \in Nat
        BY <1>3, DayFacts
    <2>2. ASSUME NEW d \in Nat, d < date PROVE Chant!Run(log', d) = Chant!Run(log, d)
        <3>1. \A e \in 1..d : log'[e] = log[e]
            BY <1>3, <1>12, <2>1, <2>2, ChantAssumption DEF Chant!Days
        <3> QED BY <3>1, SameRun DEF Chant!Completed
    <2>3. /\ Chant!Run(log', date) \in Nat /\ Chant!Run(log, date - 1) \in Nat
          /\ done => Chant!Run(log', date) = Chant!Run(log, date - 1) + 1
          /\ Chant!Run(log, date) \in Nat /\ Chant!Run(log, date) <= Chant!Run(log, date - 1) + 1
        <3>1. Chant!Run(log', date - 1) = Chant!Run(log, date - 1)
            BY <2>1, <2>2
        <3>2. /\ Chant!Run(log', date) \in Nat
              /\ Chant!Completed(log', date) => Chant!Run(log', date) = Chant!Run(log', date - 1) + 1
            BY <2>1, RunStep
        <3>3. /\ Chant!Run(log, date) \in Nat /\ Chant!Run(log, date - 1) \in Nat
              /\ Chant!Completed(log, date) => Chant!Run(log, date) = Chant!Run(log, date - 1) + 1
              /\ ~Chant!Completed(log, date) => Chant!Run(log, date) = 0
            BY <2>1, RunStep
        <3> QED BY <1>15, <3>1, <3>2, <3>3
    <2>4. \A d \in Chant!Days : profile.lastCompleted = d => profile.streak <= Chant!Run(log, d)
        BY <1>1, <1>3, DayFacts DEF Chant!StreakIsRun
    <2>5. date # None /\ (date - 1 \in Chant!Days \/ date - 1 = 0)
        BY <1>3, <2>1, ChantAssumption DEF Chant!Days
    <2>6. CASE done
        <3>1. CASE profile.lastCompleted = date
            BY <1>3, <1>8, <1>9, <1>13, <2>3, <2>4, <2>6, <3>1 DEF Chant!StreakIsRun
        <3>2. CASE profile.lastCompleted # date
            <4>1. profile.lastCompleted = date - 1 => profile.streak <= Chant!Run(log, date - 1)
                BY <1>3, <2>1, <2>4, <2>5, DayFacts, ChantAssumption
            <4>2. streak <= Chant!Run(log', date)
                BY <1>3, <1>8, <2>3, <2>6, <3>2, <4>1
            <4> QED BY <1>9, <1>13, <2>6, <4>2 DEF Chant!StreakIsRun
        <3> QED BY <3>1, <3>2
    <2>7. CASE ~done
        <3>1. CASE profile.lastCompleted = date \/ profile.lastCompleted = None
            BY <1>9, <1>13, <2>7, <3>1 DEF Chant!StreakIsRun
        <3>2. CASE profile.lastCompleted # date /\ profile.lastCompleted # None
            <4> DEFINE c == profile.lastCompleted
            <4>1. c \in Chant!Days /\ c \in Nat /\ c # date /\ summary.lastCompleted = c
                BY <1>3, <1>9, <2>7, <3>2, DayFacts
            <4>2. Chant!Run(log', c) \in Nat
                BY <4>1, DayFacts, RunStep
            <4>3. streak <= Chant!Run(log', c)
                <5>1. CASE c = date - 1
                    <6>1. c < date /\ streak = profile.streak
                        BY <1>8, <2>1, <2>7, <4>1, <5>1
                    <6>2. Chant!Run(log', c) = Chant!Run(log, c)
                        BY <2>2, <4>1, <6>1
                    <6> QED BY <2>4, <4>1, <6>1, <6>2
                <5>2. CASE c # date - 1
                    BY <1>8, <2>7, <4>1, <4>2, <5>2
                <5> QED BY <5>1, <5>2
            <4> QED BY <1>9, <1>13, <4>1, <4>3 DEF Chant!StreakIsRun
        <3> QED BY <3>1, <3>2
    <2> QED BY <1>7, <2>6, <2>7
<1>17. WebsiteDates'
    <2>1. summary.lastCompleted # None => log'[summary.lastCompleted] # None
        BY <1>3, <1>4, <1>7, <1>9, <1>12 DEF WebsiteDates
    <2>2. ASSUME ~overtaken', NEW d \in Chant!Days, log'[d] # None, ~Chant!Overtakes(d)'
          PROVE  /\ log'[d].completed => summary.lastCompleted = d
                 /\ summary.lastCompleted = d => summary.streak >= 1
        <3>1. d = date
            <4>1. ~(date > d)
                BY <1>12, <2>2
            <4>2. d # date => log[d] # None
                BY <1>12, <2>2
            <4>3. ~(d > date /\ log[d] # None)
                BY <1>12, <2>2 DEF Chant!Overtakes
            <4>4. d \in Nat /\ date \in Nat
                BY <1>3, DayFacts
            <4> QED BY <4>1, <4>2, <4>3, <4>4
        <3>2. log'[d] = new
            BY <1>12, <3>1
        <3>3. ~overtaken /\ ~Chant!Overtakes(date)
            BY <1>12, <2>2
        <3>4. profile.lastCompleted = date => profile.streak >= 1
            BY <1>2, <1>3, <1>4, <3>3 DEF WebsiteDates
        <3>5. done => summary.lastCompleted = date /\ streak >= 1
            BY <1>3, <1>8, <1>9, <3>4
        <3>6. ~done => ~new.completed /\ summary.lastCompleted # date
            BY <1>3, <1>9, DayFacts
        <3> QED BY <1>7, <1>9, <3>1, <3>2, <3>5, <3>6
    <2> QED BY <1>13, <2>1, <2>2 DEF WebsiteDates
<1> QED BY <1>12, <1>13, <1>14, <1>16, <1>17 DEF ChantInv

LEMMA ChantStep == ChantInv /\ [Chant!Next]_(Chant!vars) => ChantInv'
<1> SUFFICES ASSUME ChantInv, [Chant!Next]_(Chant!vars) PROVE ChantInv'
    OBVIOUS
<1>1. ChantTypes /\ (\A v \in Devices : device[v] \in DeviceDoc)
    BY DEF ChantInv, ChantTypes
<1>2. CASE UNCHANGED Chant!vars
    BY <1>2 DEF Chant!vars, ChantInv, ChantTypes, DevicesRead, ServerDates, WebsiteDates, Chant!Overtakes,
            Chant!ScoreIsSum, Chant!StreakIsRun
<1>3. CASE Chant!Midnight
    <2>1. today' \in Chant!Days
        BY <1>1, <1>3, ChantAssumption DEF Chant!Midnight, ChantTypes, Chant!Days
    <2>2. ChantTypes'
        BY <1>1, <1>3, <2>1 DEF Chant!Midnight, ChantTypes
    <2> QED BY <1>3, <2>2 DEF Chant!Midnight, ChantInv, DevicesRead, ServerDates, WebsiteDates, Chant!Overtakes,
                Chant!ScoreIsSum, Chant!StreakIsRun
<1> SUFFICES ASSUME NEW v \in Devices,
                    \/ Chant!StartSubmit(v) \/ Chant!SubmitToday(v) \/ Chant!AlreadySubmitted(v)
                    \/ Chant!Open(v) \/ Chant!TryAgain(v) \/ Chant!TooLate(v) \/ Chant!Vow(v) \/ Chant!LogRounds(v)
             PROVE  ChantInv'
    BY <1>2, <1>3 DEF Chant!Next
<1>4. today \in Chant!Days
    BY <1>1 DEF ChantTypes
<1>5. CASE Chant!StartSubmit(v)
    <2>1. PICK rounds \in Rounds :
              device' = [device EXCEPT ![v] = [Chant!Quiet EXCEPT !.pc = "submit", !.date = today, !.rounds = rounds]]
        BY <1>5 DEF Chant!StartSubmit
    <2> DEFINE d == [Chant!Quiet EXCEPT !.pc = "submit", !.date = today, !.rounds = rounds]
    <2>2. rounds \in 0..Chant!MAX_ROUNDS
        BY ChantAssumption
    <2>3. /\ d \in DeviceDoc /\ d.pc = "submit" /\ d.date \in Chant!Days /\ d.rounds \in 0..Chant!MAX_ROUNDS
        BY <1>4, <2>2 DEF Chant!Quiet, DeviceDoc
    <2>4. via = "server" /\ UNCHANGED <<via, log, profile, overtaken>> /\ today' \in Chant!Days
        BY <1>4, <1>5 DEF Chant!StartSubmit
    <2> HIDE DEF d
    <2> QED BY <2>1, <2>3, <2>4, NothingWritten DEF d
<1>6. CASE Chant!SubmitToday(v)
    BY <1>6, SubmitOK
<1>7. CASE Chant!AlreadySubmitted(v) \/ Chant!TooLate(v)
    <2>1. device' = [device EXCEPT ![v] = Chant!Quiet]
        BY <1>7 DEF Chant!AlreadySubmitted, Chant!TooLate, Chant!GiveUp
    <2>2. UNCHANGED <<via, log, profile, overtaken>> /\ today' \in Chant!Days
        BY <1>4, <1>7 DEF Chant!AlreadySubmitted, Chant!TooLate, Chant!GiveUp
    <2> QED BY <2>1, <2>2, QuietDevice, NothingWritten
<1>8. CASE Chant!Open(v)
    <2> DEFINE d == [Chant!Quiet EXCEPT !.pc = "commit", !.date = today, !.log = log[today], !.profile = profile]
    <2>1. /\ d \in DeviceDoc /\ d.pc = "commit" /\ d.date \in Chant!Days /\ d.log = log[d.date] /\ d.profile = profile
        BY <1>1, <1>4 DEF Chant!Quiet, DeviceDoc, ChantTypes, Logs
    <2>2. /\ via = "website" /\ UNCHANGED <<via, log, profile, overtaken>> /\ today' \in Chant!Days
          /\ device' = [device EXCEPT ![v] = d]
        BY <1>4, <1>8 DEF Chant!Open
    <2> HIDE DEF d
    <2> QED BY <2>1, <2>2, NothingWritten
<1>9. CASE Chant!TryAgain(v)
    <2> DEFINE d == [device[v] EXCEPT !.log = log[device[v].date], !.profile = profile]
    <2>1. device[v].pc = "commit" /\ via = "website" /\ device[v].date \in Chant!Days /\ device[v] \in DeviceDoc
        BY <1>1, <1>9 DEF Chant!TryAgain, ChantTypes
    <2>2. /\ d \in DeviceDoc /\ d.pc = "commit" /\ d.date \in Chant!Days /\ d.log = log[d.date] /\ d.profile = profile
        BY <1>1, <2>1 DEF DeviceDoc, ChantTypes, Logs
    <2>3. /\ UNCHANGED <<via, log, profile, overtaken>> /\ today' \in Chant!Days
          /\ device' = [device EXCEPT ![v] = d]
        BY <1>1, <1>4, <1>9 DEF Chant!TryAgain, ChantTypes
    <2> HIDE DEF d
    <2> QED BY <2>1, <2>2, <2>3, NothingWritten
<1>10. CASE Chant!Vow(v)
    BY <1>10, VowOK
<1>11. CASE Chant!LogRounds(v)
    BY <1>11, LogRoundsOK
<1> QED BY <1>5, <1>6, <1>7, <1>8, <1>9, <1>10, <1>11

\* Under the policies' conditions a commit in order is one that the website makes.
LEMMA RoundsAccepted ==
    ASSUME ChantInv, NEW v \in Devices, Chant!Ready(v), ~overtaken, ~Chant!Overtakes(device[v].date),
           device[v].log # None, NEW rounds \in Rounds,
           NEW streak \in Chant!StreaksOf(v, rounds >= device[v].log.target)
    PROVE  LET new == Chant!RoundsOf(v, rounds, streak)
           IN  /\ Chant!ValidRounds(device[v].log, new)
               /\ Chant!ValidSadhanaProfile(Chant!SummaryOf(v, new), device[v].log, new)
<1> DEFINE date == device[v].date
<1> DEFINE l == device[v].log
<1> DEFINE done == rounds >= l.target
<1> DEFINE new == Chant!RoundsOf(v, rounds, streak)
<1> DEFINE summary == Chant!SummaryOf(v, new)
<1>1. /\ via = "website" /\ date \in Chant!Days /\ profile \in Chant!ProfileDoc /\ l = log[date] /\ l \in Chant!LogDoc
    BY ReadyIsCurrent
<1>2. /\ profile.streak \in Nat /\ profile.score \in Nat /\ profile.longest \in Nat
      /\ profile.lastCompleted \in Chant!Days \cup {None} /\ l.score \in Nat
    BY <1>1 DEF Chant!ProfileDoc, Chant!LogDoc
<1>3. WebsiteDates /\ Chant!Recent(date) /\ date \in Int /\ date # None
    <2>1. WebsiteDates
        BY <1>1 DEF ChantInv
    <2>2. Chant!Recent(date)
        BY DEF Chant!Ready
    <2> HIDE DEF date
    <2> QED BY <1>1, <2>1, <2>2, DayFacts
<1>4. rounds \in 0..Chant!MAX_ROUNDS /\ done \in BOOLEAN
    BY ChantAssumption
<1> HIDE DEF done
<1>5. /\ streak \in Int
      /\ done /\ profile.lastCompleted = date => streak = profile.streak
      /\ done /\ profile.lastCompleted # date =>
             streak = (IF profile.lastCompleted = date - 1 THEN profile.streak + 1 ELSE 1)
      /\ ~done /\ profile.lastCompleted = date => streak \in {0, profile.streak - 1}
      /\ ~done /\ profile.lastCompleted # date =>
             streak = (IF profile.lastCompleted = date - 1 THEN profile.streak ELSE 0)
    <2>1. streak \in Chant!StreaksOf(v, done)
        BY DEF done
    <2> QED BY <1>4, <2>1, Claims
<1>6. /\ l.completed => profile.lastCompleted = date
      /\ profile.lastCompleted = date => profile.streak >= 1
    BY <1>1, <1>3 DEF WebsiteDates
<1>7. streak \in 0..(profile.streak + 1)
    BY <1>2, <1>4, <1>5, <1>6
<1>8. streak > profile.streak => done /\ ~l.completed
    BY <1>2, <1>4, <1>5, <1>6
<1>9. Chant!Points(rounds, done, streak) \in 0..Chant!MAX_LOG_SCORE
      /\ Chant!MaxLogScore(rounds, done, streak) = Chant!Points(rounds, done, streak)
    BY <1>4, PointsBounds
<1>10. /\ new.target = l.target /\ new.rounds = rounds /\ new.streak = streak
       /\ new.score = Chant!Points(rounds, done, streak)
       /\ summary.streak = streak
       /\ summary.longest = Chant!Max({profile.longest, streak}) /\ summary.longest \in Int
       /\ summary.score = profile.score + new.score - l.score /\ summary.score \in Nat
       /\ summary.last = date
       /\ streak \in Nat => summary \in Chant!ProfileDoc
    <2> USE DEF done
    <2> QED BY <1>4, <1>5, Computed
<1>11. /\ new.completed = done
       /\ summary.lastCompleted = IF done THEN date
                                  ELSE IF profile.lastCompleted = date THEN None ELSE profile.lastCompleted
    <2> USE DEF done
    <2> QED BY ZenonT(40), <1>4, <1>5, Computed
<1>12. summary.longest \in Nat
    BY <1>2, <1>7, <1>10, MaxOfTwo
<1> HIDE DEF new, summary
<1>13. Chant!ValidRounds(l, new)
    <2>1. new.completed = (new.rounds >= new.target)
        BY Zenon, <1>10, <1>11 DEF done
    <2>2. new.score <= Chant!MaxLogScore(new.rounds, new.completed, new.streak)
        <3>1. Chant!MaxLogScore(new.rounds, new.completed, new.streak) = new.score
            BY Zenon, <1>9, <1>10, <1>11
        <3> QED BY <1>9, <1>10, <3>1 DEF Chant!MAX_LOG_SCORE, Chant!MAX_ROUNDS
    <2> QED BY <1>4, <1>7, <1>9, <1>10, <2>1, <2>2 DEF Chant!ValidRounds
<1>14. Chant!ValidSadhanaProfile(summary, l, new)
    <2>1. {summary.streak, summary.longest, summary.score} \subseteq Nat
        BY <1>2, <1>7, <1>10, <1>12
    <2>2. /\ Chant!Recent(summary.last) \/ summary.last = profile.last
          /\ \/ summary.lastCompleted = None \/ Chant!Recent(summary.lastCompleted)
             \/ summary.lastCompleted = profile.lastCompleted
        BY <1>3, <1>10, <1>11
    <2>3. summary.streak <= profile.streak + 1 /\ summary.longest <= Chant!Max({profile.longest, summary.streak})
        BY <1>2, <1>7, <1>10
    <2> DEFINE gain == summary.score - profile.score
    <2>4. gain = new.score - l.score
        BY <1>2, <1>9, <1>10 DEF Chant!MAX_LOG_SCORE, Chant!MAX_ROUNDS
    <2>5. gain <= Chant!MAX_LOG_SCORE /\ gain <= new.score - l.score
        BY <1>2, <1>9, <1>10, <2>4 DEF Chant!MAX_LOG_SCORE, Chant!MAX_ROUNDS
    <2>6. summary.streak > profile.streak => new.completed /\ ~l.completed
        BY <1>8, <1>10, <1>11
    <2> HIDE DEF gain
    <2>7. gain > 0 \/ summary.streak > profile.streak => Chant!Recent(summary.last)
        BY <1>3, <1>10
    <2> QED BY <2>1, <2>2, <2>3, <2>5, <2>6, <2>7 DEF Chant!ValidSadhanaProfile, gain
<1> QED BY <1>13, <1>14 DEF new, summary

LEMMA InvAccepts == ChantInv => Chant!ClientAccepted
<1> SUFFICES ASSUME ChantInv, NEW v \in Devices, Chant!Ready(v), ~overtaken, ~Chant!Overtakes(device[v].date)
             PROVE  IF device[v].log = None
                    THEN \A target \in Targets : Chant!ValidVow(Chant!VowOf(v, target))
                    ELSE \A rounds \in Rounds : \A streak \in Chant!StreaksOf(v, rounds >= device[v].log.target) :
                             LET new == Chant!RoundsOf(v, rounds, streak)
                             IN  /\ Chant!ValidRounds(device[v].log, new)
                                 /\ Chant!ValidSadhanaProfile(Chant!SummaryOf(v, new), device[v].log, new)
    BY DEF Chant!ClientAccepted
<1>1. CASE device[v].log = None
    <2>1. SUFFICES ASSUME NEW target \in Targets PROVE Chant!ValidVow(Chant!VowOf(v, target))
        BY <1>1
    <2>2. device[v].profile = profile /\ profile.streak \in Nat
        BY ReadyIsCurrent DEF Chant!ProfileDoc
    <2>3. target \in 8..Chant!MAX_ROUNDS /\ Chant!Chain(v) \in 0..profile.streak
        BY <2>2, ChantAssumption DEF Chant!Chain
    <2> QED BY <2>3 DEF Chant!ValidVow, Chant!VowOf, Chant!Log
<1>2. CASE device[v].log # None
    BY <1>2, RoundsAccepted, Zenon
<1> QED BY <1>1, <1>2

\* The score on a profile is what the logs add up to, and its streak is what they say:
\* for any rounds and targets, with requests that overlap, corrections and midnight in
\* between (submitToday's transaction; the version preconditions of dbCommit).
THEOREM ProfileIsTheLogs == Chant!Spec => []SummaryMatches
<1>1. ChantInv => SummaryMatches
    BY DEF ChantInv, SummaryMatches
<1> QED BY <1>1, ChantInit, ChantStep, PTL DEF Chant!Spec

\* The policies of events, sadhana_logs and users (policies.js:94-144,220-231) refuse
\* nothing that members compute from current documents, as long as the days are logged
\* in their order.
THEOREM WebsiteAccepted == Spec /\ Chant!Spec => []ClientAccepted
<1>1. Chant!Spec => []Chant!ClientAccepted
    BY InvAccepts, ChantInit, ChantStep, PTL DEF Chant!Spec
<1>2. AnswersAccepted /\ Chant!ClientAccepted => ClientAccepted
    BY DEF ClientAccepted
<1> QED BY <1>1, <1>2, NoAnswerRefused, PTL
=============================================================================
