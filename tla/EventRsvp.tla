----------------------------- MODULE EventRsvp -----------------------------
(***************************************************************************)
(* One event and the RSVPs to it.                                          *)
(*                                                                         *)
(* An RSVP is a dbCommit of the browser: the member's registration and,    *)
(* as absolute values, the counters of the event, with the versions of     *)
(* both documents as preconditions (dataApi.js, policies.js).  A dbCommit  *)
(* takes effect at one moment (module DocStore).  The browser is external. *)
(***************************************************************************)
EXTENDS Integers, FiniteSets

CONSTANTS
    Members,
    None,
    MaxCommits      \* bound on the commits that change the event or an RSVP

VARIABLES
    event,          \* events/e: None, or its version and its counters
    registration,   \* registrations/e_<member>: None, or version and status
    rsvp,           \* the RSVP a member is making
    again,          \* the event was deleted, so that its RSVPs are those of an earlier one
    commits

vars == <<event, registration, rsvp, again, commits>>

\* "Declined" is the status 'Not Attending'; the other statuses are not counted.
Counted == {"Attending", "Declined"}
Statuses == Counted \cup {"Cancelled"}

EventDoc == [version : Nat, count : [Counted -> Nat \cup {None}]]
RegistrationDoc == [version : Nat, status : Statuses]

ASSUME MembersAssumption == IsFiniteSet(Members) /\ MaxCommits \in Nat
ASSUME NoneAssumption == None \notin Int \cup EventDoc \cup RegistrationDoc

Quiet == [pc |-> "idle", event |-> None, registration |-> None]

Init ==
    /\ event = None
    /\ registration = [m \in Members |-> None]
    /\ rsvp = [m \in Members |-> Quiet]
    /\ again = FALSE
    /\ commits = 0

Committed == commits < MaxCommits /\ commits' = commits + 1

-----------------------------------------------------------------------------
(* The event *)

\* By createEvent, without counters, under a new id; or by a commit of staff, with
\* counters at zero, under any id.
Create ==
    /\ event = None
    /\ Committed
    /\ \E n \in (IF again THEN {} ELSE {None}) \cup {0} :
           event' = [version |-> 1, count |-> [s \in Counted |-> n]]
    /\ UNCHANGED <<registration, rsvp, again>>

\* Staff change the fields that describe it.
Edit ==
    /\ event # None
    /\ Committed
    /\ event' = [event EXCEPT !.version = @ + 1]
    /\ UNCHANGED <<registration, rsvp, again>>

\* The RSVPs stay.
Delete ==
    /\ event # None
    /\ Committed
    /\ event' = None
    /\ again' = TRUE
    /\ UNCHANGED <<registration, rsvp>>

-----------------------------------------------------------------------------
(* An RSVP *)

Number(n) == IF n = None THEN 0 ELSE n
VersionOf(doc) == IF doc = None THEN None ELSE doc.version

Read(m) ==
    /\ rsvp[m].pc = "idle"
    /\ event # None
    /\ rsvp' = [rsvp EXCEPT ![m] = [pc |-> "read", event |-> event, registration |-> None]]
    /\ UNCHANGED <<event, registration, again, commits>>

ReadRegistration(m) ==
    /\ rsvp[m].pc = "read"
    /\ rsvp' = [rsvp EXCEPT ![m].pc = "commit", ![m].registration = registration[m]]
    /\ UNCHANGED <<event, registration, again, commits>>

PreconditionsHoldBug(m) == event # None /\ VersionOf(rsvp[m].registration) = VersionOf(registration[m])
PreconditionsHold(m) ==
    /\ VersionOf(rsvp[m].event) = VersionOf(event)
    /\ VersionOf(rsvp[m].registration) = VersionOf(registration[m])

\* The counters with one answer replaced by another, from what was read.
NewCount(m, status) ==
    [s \in Counted |->
        LET old == rsvp[m].registration
            was == IF old # None /\ old.status = s THEN 1 ELSE 0
            is == IF status = s THEN 1 ELSE 0
        IN  IF was = is THEN rsvp[m].event.count[s]
            ELSE Number(rsvp[m].event.count[s]) + is - was]

\* The policy of events for a member: the counters, each by at most one.
NudgeUnbounded(old, new) == \A s \in Counted : old[s] # None => Number(new[s]) - Number(old[s]) \in {-1, 0, 1}
Nudge(old, new) ==
    \A s \in Counted :
        /\ Number(new[s]) >= 0
        /\ old[s] # None => Number(new[s]) - Number(old[s]) \in {-1, 0, 1}

Answered(m, status) ==
    [version |-> (IF registration[m] = None THEN 0 ELSE registration[m].version) + 1, status |-> status]

Commit(m) ==
    /\ rsvp[m].pc = "commit"
    /\ Committed
    /\ PreconditionsHold(m)
    /\ \E status \in Statuses :
           /\ Nudge(event.count, NewCount(m, status))
           /\ event' = [version |-> event.version + 1, count |-> NewCount(m, status)]
           /\ registration' = [registration EXCEPT ![m] = Answered(m, status)]
    /\ rsvp' = [rsvp EXCEPT ![m] = Quiet]
    /\ UNCHANGED <<again>>

\* "The data changed while you were saving. Please try again."
Aborted(m) ==
    /\ rsvp[m].pc = "commit"
    /\ ~PreconditionsHold(m)
    /\ rsvp' = [rsvp EXCEPT ![m] = Quiet]
    /\ UNCHANGED <<event, registration, again, commits>>


Next ==
    \/ Create \/ Edit \/ Delete
    \/ \E m \in Members : Read(m) \/ ReadRegistration(m) \/ Commit(m) \/ Aborted(m)

Spec == Init /\ [][Next]_vars

-----------------------------------------------------------------------------
(* Properties *)

\* Documents have the fields of their schema; nobody is counted twice, unless the
\* event was deleted and made anew: a version that returns lets an old count in.
TypeOK ==
    /\ event # None =>
           /\ event.version \in 1..MaxCommits
           /\ \A s \in Counted :
                  /\ event.count[s] = None \/ event.count[s] \in Nat
                  /\ again \/ Number(event.count[s]) <= Cardinality(Members)
    /\ \A m \in Members : registration[m] # None => registration[m].status \in Statuses

\* The counters are the RSVPs: members who answer at the same time, change their
\* minds or retry never lose or double an answer, although each writes absolute
\* values it has computed itself.
CountersMatch ==
    event # None /\ ~again =>
        \A s \in Counted :
            Number(event.count[s]) =
                Cardinality({m \in Members : registration[m] # None /\ registration[m].status = s})

\* No answer computed from what was read is refused by the policy of events.
AnswersAccepted ==
    \A m \in Members : rsvp[m].pc = "commit" /\ PreconditionsHold(m) /\ ~again =>
        \A status \in Statuses : Nudge(event.count, NewCount(m, status))
=============================================================================
