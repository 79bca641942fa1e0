----------------------------- MODULE ChangeFeed -----------------------------
(***************************************************************************)
(* The change feed (db/store/changefeed.js, dbChanges) and the open pages. *)
(* A commit takes effect at one moment (DocStore) and is noted when the    *)
(* server hears of it; a page asks for a token, loads the collection it    *)
(* shows, polls with the token and loads again when it is told to.  The    *)
(* pages are external.                                                     *)
(***************************************************************************)
EXTENDS Integers, Sequences, FiniteSets

CONSTANTS
    Collections,
    Kinds,          \* the collections that commits write, in order
    Pages,
    max,            \* how many changes the feed keeps
    None,
    MaxFeed,     \* bound on the commits of a behaviour
    MaxBoots        \* bound on the starts of the server

VARIABLES
    content,        \* how often each collection has changed
    unnoted,        \* commits the server has not heard of yet
    missed,         \* collections written by commits it will never hear of
    feed,           \* the change feed
    page,           \* the open pages
    commits         \* commits so far

vars == <<content, unnoted, missed, feed, page, commits>>

NewFeed(boot) == [boot |-> boot, seq |-> 0, recent |-> <<>>]
Closed == [pc |-> "closed", shows |-> None, token |-> None, shown |-> 0]

Init ==
    /\ content = [c \in Collections |-> 0]
    /\ unnoted = {}
    /\ missed = {}
    /\ feed = NewFeed(1)
    /\ page = [p \in Pages |-> Closed]
    /\ commits = 0

-----------------------------------------------------------------------------
(* The feed *)

Trim(changes) ==
    IF Len(changes) > max THEN SubSeq(changes, Len(changes) - max + 1, Len(changes)) ELSE changes

\* note, for the collections of one commit.
Note(f, cols) ==
    [f EXCEPT !.seq = @ + Len(cols),
              !.recent = Trim(@ \o [i \in DOMAIN cols |-> [seq |-> f.seq + i, collection |-> cols[i]]])]

Bookings(cols) == {i \in DOMAIN cols : cols[i] = "trip_registrations"}

\* db.onWrite: a booking has changed its trip too, by a trigger.  (The trips are noted
\* last here, not each after its booking: no token is taken in between.)
NotedBug(cols) == cols
Noted(cols) == cols \o [i \in 1..Cardinality(Bookings(cols)) |-> "trips"]

token == [boot |-> feed.boot, seq |-> feed.seq]

\* since(token): the feed cannot tell, or which collections have changed.
ResetBug(since) == since.boot # feed.boot
Reset(since) ==
    \/ since.boot # feed.boot
    \/ since.seq > feed.seq
    \/ feed.recent # <<>> /\ since.seq < feed.recent[1].seq - 1
Changed(since) ==
    {feed.recent[i].collection : i \in {j \in DOMAIN feed.recent : feed.recent[j].seq > since.seq}}

-----------------------------------------------------------------------------
(* Commits *)

\* What a commit changes: with a booking a trigger recounts the seats of its trip.
In(cols) == {cols[i] : i \in DOMAIN cols}
Written(cols) == In(cols) \cup (IF Bookings(cols) # {} THEN {"trips"} ELSE {})

Commit ==
    /\ commits < MaxFeed
    /\ commits' = commits + 1
    /\ \E cols \in Kinds :
           /\ content' = [c \in Collections |->
                  content[c] + IF c \in Written(cols) THEN 1 ELSE 0]
           /\ unnoted' = unnoted \cup {[commit |-> commits, cols |-> cols]}
    /\ UNCHANGED <<missed, feed, page>>

\* The answer to COMMIT arrives: the writes are emitted in one go.
Hear ==
    /\ \E n \in unnoted :
           /\ unnoted' = unnoted \ {n}
           /\ feed' = Note(feed, Noted(n.cols))
           /\ missed' = missed \ In(Noted(n.cols))
    /\ UNCHANGED <<content, page, commits>>

\* The connection dropped before it: rolled back, for all the server knows.
HearNothing ==
    /\ \E n \in unnoted :
           /\ unnoted' = unnoted \ {n}
           /\ missed' = missed \cup Written(n.cols)
    /\ UNCHANGED <<content, feed, page, commits>>

\* importDocuments writes without emitting.
Import ==
    /\ commits < MaxFeed
    /\ commits' = commits + 1
    /\ \E c \in Collections :
           /\ content' = [content EXCEPT ![c] = @ + 1]
           /\ missed' = missed \cup {c}
    /\ UNCHANGED <<unnoted, feed, page>>

\* A new process, with a new feed.
Restart ==
    /\ feed.boot < MaxBoots
    /\ feed' = NewFeed(feed.boot + 1)
    /\ unnoted' = {}
    /\ missed' = {}
    /\ UNCHANGED <<content, page, commits>>

-----------------------------------------------------------------------------
(* Pages *)

Open(p) ==
    /\ page[p].pc = "closed"
    /\ \E c \in Collections :
           page' = [page EXCEPT ![p] = [Closed EXCEPT !.pc = "load", !.shows = c, !.token = token]]
    /\ UNCHANGED <<content, unnoted, missed, feed, commits>>

Load(p) ==
    /\ page[p].pc = "load"
    /\ page' = [page EXCEPT ![p].pc = "shown", ![p].shown = content[page[p].shows]]
    /\ UNCHANGED <<content, unnoted, missed, feed, commits>>

Told(p) == Reset(page[p].token) \/ page[p].shows \in Changed(page[p].token)

\* dbChanges: the answer, and the token of the next poll.
Poll(p) ==
    /\ page[p].pc = "shown"
    /\ page' = [page EXCEPT ![p].pc = IF Told(p) THEN "load" ELSE "shown", ![p].token = token]
    /\ UNCHANGED <<content, unnoted, missed, feed, commits>>

Next ==
    \/ Commit \/ Hear \/ HearNothing \/ Import \/ Restart
    \/ \E p \in Pages : Open(p) \/ Load(p) \/ Poll(p)

\* Answers arrive or connections drop; open pages go on polling.
Fairness ==
    /\ WF_vars(Hear \/ HearNothing)
    /\ \A p \in Pages : WF_vars(Load(p)) /\ WF_vars(Poll(p))

Spec == Init /\ [][Next]_vars
FairSpec == Spec /\ Fairness

-----------------------------------------------------------------------------
(* Properties *)

\* The feed keeps its last changes without a gap, at most max of them; tokens are
\* of this process or of an earlier one.
TypeOK ==
    /\ Len(feed.recent) = (IF feed.seq < max THEN feed.seq ELSE max)
    /\ \A i \in DOMAIN feed.recent : feed.recent[i].seq = feed.seq - Len(feed.recent) + i
    /\ missed \subseteq Collections \cup UNION {Written(cols) : cols \in Kinds}
    /\ \A p \in Pages : page[p].pc # "closed" =>
           /\ page[p].shows \in Collections
           /\ page[p].token.boot <= feed.boot
           /\ page[p].token.boot = feed.boot => page[p].token.seq <= feed.seq

Stale(p) == page[p].pc = "shown" /\ page[p].shown # content[page[p].shows]

\* A page never stays behind unawares: while it shows what is no more, its next
\* poll tells it (whatever else filled the feed, and whichever process answers),
\* or the commit is yet to be noted, or the server will never hear of it.
NothingMissed ==
    \A p \in Pages : Stale(p) =>
        \/ Told(p)
        \/ \E n \in unnoted : page[p].shows \in Written(n.cols)
        \/ page[p].shows \in missed

\* A page that goes on polling catches up, unless it shows what such a commit has
\* changed.
PagesCatchUp ==
    \A p \in Pages : Stale(p) ~> ~Stale(p) \/ page[p].shows \in missed
=============================================================================
