----------------------------- MODULE Attendance -----------------------------
(***************************************************************************)
(* The check-in of one member at one event: verifyAttendance of the server *)
(* (attendance.controller.js), whose requests may overlap, and the scans   *)
(* and the roll call of staff, which the browser commits.                  *)
(***************************************************************************)
EXTENDS Integers, FiniteSets

CONSTANTS
    Taps,           \* requests of the member
    None,
    MaxRolls        \* bound on what staff do

VARIABLES
    hasEvent,       \* events/e and event_secrets/e exist
    attendance,     \* attendance/e_<member>: None, or who recorded it
    tap,            \* where each request is
    rolls,          \* what staff have done so far
    taken           \* how often they have taken the record back

vars == <<hasEvent, attendance, tap, rolls, taken>>

Init ==
    /\ hasEvent = TRUE
    /\ attendance = None
    /\ tap = [t \in Taps |-> "idle"]
    /\ rolls = 0
    /\ taken = 0

Goto(t, pc) == tap' = [tap EXCEPT ![t] = pc]

\* verifyAttendance: the event, its secret, the record, with an await in between.
FindEvent(t) ==
    /\ tap[t] = "idle"
    /\ Goto(t, IF hasEvent THEN "token" ELSE "refused")
    /\ UNCHANGED <<hasEvent, attendance, rolls, taken>>

\* The token may be wrong, and the secret is gone with its event.
CheckToken(t) ==
    /\ tap[t] = "token"
    /\ \/ hasEvent /\ Goto(t, "record")
       \/ Goto(t, "refused")
    /\ UNCHANGED <<hasEvent, attendance, rolls, taken>>

\* create() on an id made of the event and the member.
ExistsBug == attendance = "staff"
Exists == attendance # None

Record(t) ==
    /\ tap[t] = "record"
    /\ IF Exists
       THEN Goto(t, "already") /\ UNCHANGED attendance
       ELSE Goto(t, "success") /\ attendance' = "self"
    /\ UNCHANGED <<hasEvent, rolls, taken>>

Roll == rolls < MaxRolls /\ rolls' = rolls + 1

\* A scan or a ticked name writes the record, whoever made it before.
Scan ==
    /\ Roll
    /\ attendance' = "staff"
    /\ UNCHANGED <<hasEvent, tap, taken>>

\* Un-ticking a name deletes it.
Untick ==
    /\ Roll
    /\ attendance # None
    /\ attendance' = None
    /\ taken' = taken + 1
    /\ UNCHANGED <<hasEvent, tap>>

DeleteEvent ==
    /\ hasEvent
    /\ hasEvent' = FALSE
    /\ UNCHANGED <<attendance, tap, rolls, taken>>

Next ==
    \/ \E t \in Taps : FindEvent(t) \/ CheckToken(t) \/ Record(t)
    \/ Scan \/ Untick \/ DeleteEvent

Spec == Init /\ [][Next]_vars

\* Double taps and the scanner race each other: a member is told "recorded" at most
\* once, and again only after staff have taken the record back.
RecordedOnce == Cardinality({t \in Taps : tap[t] = "success"}) <= 1 + taken
=============================================================================
