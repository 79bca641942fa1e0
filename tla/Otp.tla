-------------------------------- MODULE Otp --------------------------------
(***************************************************************************)
(* Login codes of one phone number: services/otp.service.js (issueOTP,     *)
(* clearOTP, verifyOTP) and controllers/otp.controller.js.                 *)
(*                                                                         *)
(* issueOTP and verifyOTP are transactions on the phone's otp_codes        *)
(* document, one step each; the delivery of a code by WhatsApp and the     *)
(* clearOTP that follows a failed one are separate steps of a sendOtp      *)
(* request, and interleave with everything else.  Time advances in ticks.  *)
(***************************************************************************)
EXTENDS Integers, FiniteSets

CONSTANTS
    Codes,          \* the codes generated, all different
    Reqs,           \* concurrent sendOtp requests
    None,           \* no code
    Ttl,            \* OTP_TTL_MS
    Window,         \* MAX_RESENDS_WINDOW_MS
    MaxResends,     \* MAX_RESENDS
    Day,            \* DAY_MS
    MaxSends,       \* MAX_SENDS_PER_DAY
    Interval,       \* MIN_RESEND_INTERVAL_MS
    MaxAttempts,    \* MAX_VERIFY_ATTEMPTS
    Timeout,        \* the longest a delivery and its clearOTP take
    DayStart,       \* the start of the day whose guesses are counted
    MaxTime         \* bound: the time at which a behaviour stops

ASSUME LimitsAssumption ==
    /\ None \notin Codes
    /\ {Ttl, Window, MaxResends, Day, MaxSends, Interval, MaxAttempts, Timeout, DayStart, MaxTime}
           \subseteq Nat
    /\ MaxAttempts > 0

\* The WhatsApp call gives up after 15 seconds, codes are a minute apart, at most a
\* few in a window, and the send history goes back a day.
ASSUME DeliveryAssumption == Timeout < Interval /\ Interval <= Day /\ Window <= Day

VARIABLES
    now,        \* the clock
    otp,        \* the otp_codes document of the phone
    req,        \* sendOtp requests between issueOTP and their answer
    issued,     \* history: when each code was issued
    wrong,      \* history: how many wrong guesses each code was compared with
    logins,     \* history: how often each code was accepted
    today       \* history: wrong guesses in the Day that begins at DayStart

history == <<issued, wrong, logins, today>>
vars == <<now, otp, req, issued, wrong, logins, today>>

Time == 0..MaxTime

\* The document: the live code (its hash), when it expires, the wrong guesses
\* so far and the times of the sends that still count.
OtpDoc == [code : Codes \cup {None}, expires : Nat, attempts : Nat, sends : SUBSET Time]

\* A request waiting for the delivery of its code, or about to clear it.
Request == [pc : {"idle", "deliver", "clear"}, code : Codes \cup {None}, since : Time]
Idle == [pc |-> "idle", code |-> None, since |-> 0]

Issued(c) == issued[c] # -1

-----------------------------------------------------------------------------
Init ==
    /\ now = 0
    /\ otp = [code |-> None, expires |-> 0, attempts |-> 0, sends |-> {}]
    /\ req = [q \in Reqs |-> Idle]
    /\ issued = [c \in Codes |-> -1]
    /\ wrong = [c \in Codes |-> 0]
    /\ logins = [c \in Codes |-> 0]
    /\ today = 0

\* clearedCodeFields: the code goes, the send history stays.
ClearedBug(doc) == [doc EXCEPT !.code = None, !.expires = 0, !.attempts = 0, !.sends = {}]
Cleared(doc) == [doc EXCEPT !.code = None, !.expires = 0, !.attempts = 0]

-----------------------------------------------------------------------------
(* sendOtp *)

\* Sends younger than the given age.
Since(sends, age) == {t \in sends : now - t < age}

\* The resend limits of issueOTP, on the sends of the last day.
MaySendBug(sends) ==
    /\ Cardinality(sends) < MaxSends
    /\ Cardinality(Since(sends, Window)) < MaxResends
MaySend(sends) ==
    /\ Cardinality(sends) < MaxSends
    /\ Cardinality(Since(sends, Window)) < MaxResends
    /\ Since(sends, Interval) = {}

\* issueOTP; a request over the limits is refused and writes nothing.
IssueOTP(q, c) ==
    LET sends == Since(otp.sends, Day) IN
    /\ req[q].pc = "idle"
    /\ ~Issued(c)
    /\ MaySend(sends)
    /\ otp' = [code |-> c, expires |-> now + Ttl, attempts |-> 0, sends |-> sends \cup {now}]
    /\ req' = [req EXCEPT ![q] = [pc |-> "deliver", code |-> c, since |-> now]]
    /\ issued' = [issued EXCEPT ![c] = now]
    /\ UNCHANGED <<now, wrong, logins, today>>

\* sendOTPviaWhatsApp succeeds, or fails and leaves the code to be cleared.
Deliver(q) ==
    /\ req[q].pc = "deliver"
    /\ req' \in {[req EXCEPT ![q] = Idle], [req EXCEPT ![q].pc = "clear"]}
    /\ UNCHANGED <<now, otp, history>>

\* clearOTP: clears whatever code is live; its own failure is swallowed.
ClearOTP(q) ==
    /\ req[q].pc = "clear"
    /\ otp' \in {otp, Cleared(otp)}
    /\ req' = [req EXCEPT ![q] = Idle]
    /\ UNCHANGED <<now, history>>

\* The process dies: the requests in flight are dropped.
Crash ==
    /\ \E q \in Reqs : req[q].pc # "idle"
    /\ req' = [q \in Reqs |-> Idle]
    /\ UNCHANGED <<now, otp, history>>

-----------------------------------------------------------------------------
(* verifyOTP *)

\* A live code that may still be compared with a guess.
Comparable == /\ otp.code # None
              /\ otp.expires >= now
              /\ otp.attempts < MaxAttempts

\* The code is expired or used up, and is cleared.
VerifyStale ==
    /\ otp.code # None
    /\ ~Comparable
    /\ otp' = Cleared(otp)
    /\ UNCHANGED <<now, req, history>>

\* The count after one more wrong guess.
CountedBug(attempts) == attempts
Counted(attempts) == attempts + 1

\* The guess that makes the code unusable.
LastBug(attempts) == attempts > MaxAttempts
Last(attempts) == attempts >= MaxAttempts

VerifyWrong ==
    LET next == Counted(otp.attempts) IN
    /\ Comparable
    /\ otp' = IF Last(next) THEN Cleared(otp) ELSE [otp EXCEPT !.attempts = next]
    /\ wrong' = [wrong EXCEPT ![otp.code] = @ + 1]
    /\ today' = IF now \in DayStart..(DayStart + Day - 1) THEN today + 1 ELSE today
    /\ UNCHANGED <<now, req, issued, logins>>

\* The document after its code was accepted.
BurnedBug(doc) == doc
Burned(doc) == Cleared(doc)

VerifyRight ==
    /\ Comparable
    /\ otp' = Burned(otp)
    /\ logins' = [logins EXCEPT ![otp.code] = @ + 1]
    /\ UNCHANGED <<now, req, issued, wrong, today>>

-----------------------------------------------------------------------------
\* Time passes, never past the end of a delivery.
Tick ==
    /\ now < MaxTime
    /\ \A q \in Reqs : req[q].pc # "idle" => now < req[q].since + Timeout
    /\ now' = now + 1
    /\ UNCHANGED <<otp, req, history>>

Next ==
    \/ \E q \in Reqs : (\E c \in Codes : IssueOTP(q, c)) \/ Deliver(q) \/ ClearOTP(q)
    \/ Crash
    \/ VerifyStale \/ VerifyWrong \/ VerifyRight
    \/ Tick

Spec == Init /\ [][Next]_vars

-----------------------------------------------------------------------------
(* Properties *)

\* The document, the requests and the history have their types; the attempts
\* stored never reach the limit.
TypeOK ==
    /\ now \in Time
    /\ otp \in OtpDoc
    /\ otp.attempts < MaxAttempts
    /\ req \in [Reqs -> Request]
    /\ issued \in [Codes -> Time \cup {-1}]
    /\ wrong \in [Codes -> Nat]
    /\ logins \in [Codes -> Nat]
    /\ today \in Nat

\* Codes issued in the given span of time that ends now.
IssuedWithin(span) == {c \in Codes : Issued(c) /\ now - issued[c] < span}

\* The (paid) WhatsApp messages stay within the limits in every rolling window,
\* however codes are guessed, used, expired and cleared in between: clearing a
\* code keeps the send history.
SendLimits ==
    /\ Cardinality(IssuedWithin(Day)) <= MaxSends
    /\ Cardinality(IssuedWithin(Window)) <= MaxResends
    /\ Cardinality(IssuedWithin(Interval)) <= 1

\* No code is compared with more than MaxAttempts wrong guesses in all its
\* life, whatever requests for new codes and failed deliveries come between.
GuessesPerCode ==
    \A c \in Codes : wrong[c] <= MaxAttempts

\* A code is accepted at most once, before it expires, and only while it is the
\* last one sent.
AcceptedOnce ==
    [][\A c \in Codes : logins'[c] # logins[c] =>
           /\ logins[c] = 0
           /\ now <= issued[c] + Ttl
           /\ \A d \in Codes : Issued(d) => issued[d] <= issued[c]]_vars

\* clearOTP runs after a delivery that failed and clears whatever code is live
\* then: it never wipes a newer code that was delivered meanwhile, because a
\* delivery ends before another code may be issued.
ClearsOwnCode ==
    [][\A q \in Reqs : req[q].pc = "clear" /\ req'[q].pc = "idle" /\ otp'.code # otp.code =>
           otp.code = req[q].code]_vars

-----------------------------------------------------------------------------
(* The inductive invariant behind the safety properties *)

\* The send history knows every code of the last day, so codes are issued at
\* least Interval apart.
Spaced ==
    /\ \A c \in Codes : issued[c] <= now
    /\ \A c \in Codes : Issued(c) /\ now - issued[c] < Day => issued[c] \in otp.sends
    /\ \A c, d \in Codes : c # d /\ Issued(c) /\ Issued(d) =>
           issued[c] + Interval <= issued[d] \/ issued[d] + Interval <= issued[c]

\* The live code is the last one issued, was never accepted, and the document
\* counts its wrong guesses.
LiveIsLast ==
    otp.code # None =>
        /\ Issued(otp.code)
        /\ otp.expires = issued[otp.code] + Ttl
        /\ logins[otp.code] = 0
        /\ wrong[otp.code] = otp.attempts
        /\ \A d \in Codes : issued[d] <= issued[otp.code]

\* A code not issued yet was never tried.
FreshUntried == \A c \in Codes : ~Issued(c) => wrong[c] = 0 /\ logins[c] = 0

\* A request in flight issued its code when it says, and is not overdue.
InFlight ==
    \A q \in Reqs : req[q].pc # "idle" =>
        /\ req[q].code \in Codes
        /\ issued[req[q].code] = req[q].since
        /\ now <= req[q].since + Timeout

IInv ==
    /\ TypeOK
    /\ Spaced
    /\ LiveIsLast
    /\ FreshUntried
    /\ InFlight
    /\ GuessesPerCode

-----------------------------------------------------------------------------
\* A rolling day sees the guesses of at most MaxSends codes issued in it and of
\* one issued just before it that is still alive. (The comment of issueOTP
\* counts without that one: "10 codes x 5 attempts = 50 guesses a day".)
GuessesPerDay == today <= (MaxSends + 1) * MaxAttempts
=============================================================================
