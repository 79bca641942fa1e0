--------------------------- MODULE MCMemberCommits ---------------------------
(* EventRsvp, Attendance and Sadhana share no document, and ChangeFeed looks *)
(* at no document's content: a behaviour of this instance for TLC is one of  *)
(* one of them, the others stand still.                                      *)
EXTENDS EventRsvp

CONSTANTS Taps, Devices, Rounds, Targets, MaxRolls, LastDay, MaxWrites,
    Collections, Pages, max, MaxBoots, MaxFeed

ASSUME TapsAssumption == IsFiniteSet(Taps) /\ None \notin {"self", "staff"}
ASSUME MaxAssumption == max \in Nat \ {0}

VARIABLES part,
    hasEvent, attendance, tap, rolls, taken,
    via, today, log, profile, device, overtaken, writes,
    content, unnoted, missed, feed, page, feedCommits

\* createEvent, an RSVP, a booking.
Kinds == {<<"events", "event_secrets">>, <<"registrations", "events">>, <<"trip_registrations">>}

Door == INSTANCE Attendance
Chant == INSTANCE Sadhana
Feed == INSTANCE ChangeFeed WITH commits <- feedCommits

ASSUME ChantAssumption ==
    /\ LastDay \in Nat /\ LastDay >= 3
    /\ Rounds \subseteq 0..Chant!MAX_ROUNDS /\ Targets \subseteq 8..Chant!MAX_ROUNDS
    /\ None \notin Int /\ None \notin Chant!LogDoc \cup Chant!ProfileDoc

doorVars == <<hasEvent, attendance, tap, rolls, taken>>
chantVars == <<via, today, log, profile, device, overtaken, writes>>
feedVars == <<content, unnoted, missed, feed, page, feedCommits>>

MCInit ==
    /\ part \in {"rsvp", "door", "chant", "feed"}
    /\ Init /\ Door!Init /\ Chant!Init /\ Feed!Init
    /\ part # "chant" => via = "server" /\ profile.score = 0

MCNext ==
    \/ part = "rsvp" /\ Next /\ UNCHANGED <<part, doorVars, chantVars, feedVars>>
    \/ part = "door" /\ Door!Next /\ UNCHANGED <<part, vars, chantVars, feedVars>>
    \/ part = "chant" /\ Chant!Next /\ UNCHANGED <<part, vars, doorVars, feedVars>>
    \/ part = "feed" /\ Feed!Next /\ UNCHANGED <<part, vars, doorVars, chantVars>>

\* ChangeFeed's own.
Fairness ==
    /\ WF_feedVars(part = "feed" /\ (Feed!Hear \/ Feed!HearNothing))
    /\ \A p \in Pages :
           /\ WF_feedVars(part = "feed" /\ Feed!Load(p))
           /\ WF_feedVars(part = "feed" /\ Feed!Poll(p))

MCSpec == MCInit /\ [][MCNext]_<<part, vars, doorVars, chantVars, feedVars>> /\ Fairness

\* verifyAttendance: a member is told "recorded" once per record.
RecordedOnce == Door!RecordedOnce

\* The score and the streak on a profile are those of the member's logs.
SummaryMatches == Chant!ScoreIsSum /\ Chant!StreakIsRun

\* The policies refuse nothing that the website computes from current documents.
ClientAccepted == AnswersAccepted /\ Chant!ClientAccepted

\* The feed keeps its last changes without a gap, and a page that shows what is no
\* more is told so by its next poll (dbChanges).
NothingMissed == Feed!TypeOK /\ Feed!NothingMissed

\* A page that goes on polling catches up.
PagesCatchUp == Feed!PagesCatchUp
=============================================================================
