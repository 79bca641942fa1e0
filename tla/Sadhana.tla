------------------------------ MODULE Sadhana ------------------------------
(***************************************************************************)
(* The chanting logs of one member and the summary on the profile.         *)
(*                                                                         *)
(* Two programs write them: submitToday of the server                      *)
(* (sadhana.service.js), one log per day, and the website (external), a    *)
(* vow and then the rounds, corrected as often as the member likes, within *)
(* what the policies allow (policies.js).  They score differently and only *)
(* one of them is in use (docs/KNOWN_ISSUES.md:15-16), so a behaviour has  *)
(* one of them.  Transactions and commits take effect at one moment        *)
(* (module DocStore).                                                      *)
(***************************************************************************)
EXTENDS Integers, FiniteSets, FiniteSetsExt

CONSTANTS
    Devices,        \* what the member logs from: requests that may overlap
    Rounds,         \* what a member chants in a day
    Targets,        \* what a member of the website vows to
    None,
    LastDay,        \* bound on the days
    MaxWrites       \* bound on the writes

VARIABLES
    via,            \* the program in use: "server" or "website"
    today,          \* the date in India
    log,            \* sadhana_logs/<uid>_<date>: None or the log
    profile,        \* the summary in users/<uid>
    device,         \* what each device is doing
    overtaken,      \* a day was logged after a later one
    writes

vars == <<via, today, log, profile, device, overtaken, writes>>

TARGET == 16
MAX_ROUNDS == 64
BONUS == [streak \in {3, 7, 30} |-> IF streak = 3 THEN 20 ELSE IF streak = 7 THEN 50 ELSE 200]
MAX_LOG_SCORE == MAX_ROUNDS * 2 + 10 + 200

Quiet == [pc |-> "idle", date |-> None, rounds |-> None, log |-> None, profile |-> None]
Log(target, rounds, streak, score, completed) ==
    [version |-> 1, target |-> target, rounds |-> rounds, streak |-> streak,
     score |-> score, completed |-> completed]

Days == 1..LastDay
LogDoc == [version : Nat, target : 8..MAX_ROUNDS, rounds : 0..MAX_ROUNDS, streak : Nat,
           score : Nat, completed : BOOLEAN]
ProfileDoc == [version : Nat, streak : Nat, longest : Nat, score : Nat,
               last : Days \cup {None}, lastCompleted : Days \cup {None}]

\* A new member, or one who has chanted on days 1 and 2.
Init ==
    /\ via \in {"server", "website"}
    /\ today = 3
    /\ \E member \in {"new", "steady"} :
           LET points == IF via = "server" THEN 10 ELSE 42
           IN  /\ log = [d \in Days |->
                      IF member = "steady" /\ d < 3 THEN Log(TARGET, TARGET, d, points, via = "website")
                                                    ELSE None]
               /\ profile = IF member = "new"
                    THEN [version |-> 1, streak |-> 0, longest |-> 0, score |-> 0,
                          last |-> None, lastCompleted |-> None]
                    ELSE [version |-> 1, streak |-> 2, longest |-> IF via = "server" THEN 0 ELSE 2,
                          score |-> 2 * points, last |-> 2,
                          lastCompleted |-> IF via = "server" THEN None ELSE 2]
    /\ device = [v \in Devices |-> Quiet]
    /\ overtaken = FALSE
    /\ writes = 0

Midnight ==
    /\ today < LastDay
    /\ today' = today + 1
    /\ UNCHANGED <<via, log, profile, device, overtaken, writes>>

Overtakes(date) == \E d \in Days : d > date /\ log[d] # None

\* The log of a day and the summary are written together.
Write(v, date, newLog, newProfile) ==
    /\ writes < MaxWrites
    /\ writes' = writes + 1
    /\ log' = [log EXCEPT ![date] = newLog]
    /\ profile' = newProfile
    /\ overtaken' = (overtaken \/ Overtakes(date))
    /\ device' = [device EXCEPT ![v] = Quiet]

GiveUp(v) ==
    /\ device' = [device EXCEPT ![v] = Quiet]
    /\ UNCHANGED <<via, today, log, profile, overtaken, writes>>

-----------------------------------------------------------------------------
(* The server *)

NextStreak(rounds, p, yesterday) ==
    IF rounds < TARGET THEN 0
    ELSE IF p.last = yesterday /\ p.streak > 0 THEN p.streak + 1 ELSE 1

ScoreFor(rounds, streak) ==
    IF rounds < TARGET THEN 0
    ELSE 10 + (rounds - TARGET) * 2 + (IF streak \in {3, 7} THEN BONUS[streak] ELSE 0)

\* The date of the request is today's; the transaction is yet to run.
StartSubmit(v) ==
    /\ via = "server" /\ device[v].pc = "idle"
    /\ \E rounds \in Rounds :
           device' = [device EXCEPT ![v] = [Quiet EXCEPT !.pc = "submit", !.date = today, !.rounds = rounds]]
    /\ UNCHANGED <<via, today, log, profile, overtaken, writes>>

Logged(date) == log[date] # None

SubmitToday(v) ==
    LET date == device[v].date
        rounds == device[v].rounds
        streak == NextStreak(rounds, profile, date - 1)
        score == ScoreFor(rounds, streak)
    IN  /\ device[v].pc = "submit"
        /\ ~Logged(date)
        /\ Write(v, date, Log(TARGET, rounds, streak, score, FALSE),
               [profile EXCEPT !.version = @ + 1, !.streak = streak, !.score = @ + score, !.last = date])
        /\ UNCHANGED <<via, today>>

\* "Sadhana already submitted for today"
AlreadySubmitted(v) == device[v].pc = "submit" /\ Logged(device[v].date) /\ GiveUp(v)

-----------------------------------------------------------------------------
(* The policies of sadhana_logs and users *)

Recent(date) == date \in {today, today - 1}
Bonus(streak) == IF streak \in DOMAIN BONUS THEN BONUS[streak] ELSE 0

MaxLogScoreBug(rounds, completed, streak) == rounds * 2 + (IF completed THEN 10 ELSE 0)
MaxLogScore(rounds, completed, streak) == rounds * 2 + (IF completed THEN 10 + Bonus(streak) ELSE 0)

ValidVow(after) ==
    /\ after.target \in 8..MAX_ROUNDS
    /\ after.rounds = 0 /\ after.score = 0 /\ ~after.completed
    /\ after.streak \in 0..profile.streak

ValidRounds(before, after) ==
    /\ after.rounds \in 0..MAX_ROUNDS
    /\ after.target = before.target
    /\ after.completed = (after.rounds >= after.target)
    /\ after.streak \in 0..(profile.streak + 1)
    /\ after.score \in 0..MAX_LOG_SCORE
    /\ after.score <= MaxLogScore(after.rounds, after.completed, after.streak)

ValidSadhanaProfile(after, logBefore, logAfter) ==
    LET gain == after.score - profile.score
    IN  /\ {after.streak, after.longest, after.score} \subseteq Nat
        /\ Recent(after.last) \/ after.last = profile.last
        /\ after.lastCompleted = None \/ Recent(after.lastCompleted) \/ after.lastCompleted = profile.lastCompleted
        /\ after.streak <= profile.streak + 1
        /\ after.longest <= Max({profile.longest, after.streak})
        /\ gain <= MAX_LOG_SCORE
        /\ gain > 0 \/ after.streak > profile.streak =>
               /\ Recent(after.last)
               /\ gain <= logAfter.score - logBefore.score
               /\ after.streak > profile.streak => logAfter.completed /\ ~logBefore.completed

-----------------------------------------------------------------------------
(* The website *)

\* It reads the two documents, for the date on the device.
Open(v) ==
    /\ via = "website" /\ device[v].pc = "idle"
    /\ device' = [device EXCEPT ![v] =
           [Quiet EXCEPT !.pc = "commit", !.date = today, !.log = log[today], !.profile = profile]]
    /\ UNCHANGED <<via, today, log, profile, overtaken, writes>>

VersionOf(doc) == IF doc = None THEN None ELSE doc.version
PreconditionsHoldBug(v) == VersionOf(device[v].log) = VersionOf(log[device[v].date])
PreconditionsHold(v) ==
    /\ VersionOf(device[v].log) = VersionOf(log[device[v].date])
    /\ VersionOf(device[v].profile) = VersionOf(profile)

\* "The data changed while you were saving": the website reads again, for the same date.
TryAgain(v) ==
    /\ device[v].pc = "commit" /\ ~PreconditionsHold(v)
    /\ device' = [device EXCEPT ![v].log = log[device[v].date], ![v].profile = profile]
    /\ UNCHANGED <<via, today, log, profile, overtaken, writes>>

TooLate(v) ==
    /\ device[v].pc = "commit" /\ PreconditionsHold(v) /\ ~Recent(device[v].date)
    /\ GiveUp(v)

Chain(v) ==
    LET p == device[v].profile
    IN  IF p.lastCompleted \in {device[v].date, device[v].date - 1} THEN p.streak ELSE 0

Points(rounds, done, streak) == rounds * 2 + (IF done THEN 10 + Bonus(streak) ELSE 0)

VowOf(v, target) == Log(target, 0, Chain(v), 0, FALSE)

\* The streaks it may claim: a completed day adds one, once; one that is corrected
\* down takes it back, or ends the chain.
StreaksOf(v, done) ==
    LET p == device[v].profile
        today_ == p.lastCompleted = device[v].date
    IN  IF done THEN {IF today_ THEN p.streak ELSE Chain(v) + 1}
        ELSE IF today_ THEN {0, p.streak - 1} ELSE {Chain(v)}

RoundsOf(v, rounds, streak) ==
    LET l == device[v].log
        done == rounds >= l.target
    IN  [Log(l.target, rounds, streak, Points(rounds, done, streak), done) EXCEPT !.version = l.version + 1]

SummaryOf(v, newLog) ==
    LET p == device[v].profile
        date == device[v].date
    IN  [version |-> p.version + 1, streak |-> newLog.streak,
         longest |-> Max({p.longest, newLog.streak}),
         score |-> Max({0, p.score + newLog.score - device[v].log.score}),
         last |-> date,
         lastCompleted |-> IF newLog.completed THEN date
                           ELSE IF p.lastCompleted = date THEN None ELSE p.lastCompleted]

Ready(v) == device[v].pc = "commit" /\ PreconditionsHold(v) /\ Recent(device[v].date)

Vow(v) ==
    /\ Ready(v) /\ device[v].log = None
    /\ \E target \in Targets :
           ValidVow(VowOf(v, target)) /\ Write(v, device[v].date, VowOf(v, target), profile)
    /\ UNCHANGED <<via, today>>

LogRounds(v) ==
    /\ Ready(v) /\ device[v].log # None
    /\ \E rounds \in Rounds : \E streak \in StreaksOf(v, rounds >= device[v].log.target) :
           LET new == RoundsOf(v, rounds, streak)
           IN  /\ ValidRounds(device[v].log, new)
               /\ ValidSadhanaProfile(SummaryOf(v, new), device[v].log, new)
               /\ Write(v, device[v].date, new, SummaryOf(v, new))
    /\ UNCHANGED <<via, today>>

Next ==
    \/ Midnight
    \/ \E v \in Devices :
           \/ StartSubmit(v) \/ SubmitToday(v) \/ AlreadySubmitted(v)
           \/ Open(v) \/ TryAgain(v) \/ TooLate(v) \/ Vow(v) \/ LogRounds(v)

Spec == Init /\ [][Next]_vars

-----------------------------------------------------------------------------
(* Properties *)

Completed(logs, d) == d >= 1 /\ logs[d] # None /\ logs[d].rounds >= logs[d].target

\* The days in a row, up to this one, on which the target was reached.
Run(logs, d) ==
    IF d = None THEN 0
    ELSE Max({n \in 0..d : \A i \in 0..(n - 1) : Completed(logs, d - i)})

\* What the logs of all days add up to.
Total(logs) ==
    LET upTo[d \in 0..LastDay] ==
            IF d = 0 THEN 0 ELSE upTo[d - 1] + (IF logs[d] = None THEN 0 ELSE logs[d].score)
    IN  upTo[LastDay]

\* The score on the profile is what the logs add up to: nothing is counted twice or
\* lost by requests that overlap, corrections, or both sides of midnight.
ScoreIsSum == profile.score = Total(log)

\* The streak is the run of completed days that ends with the last one logged (the
\* server) or is at most that (the website, after corrections).  The server loses
\* count when a day is logged after a later one: the date is checked before the
\* transaction, and the streak goes by the last date written.
StreakIsRun ==
    /\ via = "server" =>
           /\ profile.streak <= Run(log, profile.last)
           /\ ~overtaken => profile.streak = Run(log, profile.last)
    /\ via = "website" /\ profile.lastCompleted # None =>
           profile.streak <= Run(log, profile.lastCompleted)

\* "the real client transactions (vow, then rounds) still pass, including streak
\* bonuses" (test/hardening.test.js:263): the policies refuse nothing of what the
\* website writes, as long as the days are logged in their order.
ClientAccepted ==
    \A v \in Devices : Ready(v) /\ ~overtaken /\ ~Overtakes(device[v].date) =>
        IF device[v].log = None
        THEN \A target \in Targets : ValidVow(VowOf(v, target))
        ELSE \A rounds \in Rounds : \A streak \in StreaksOf(v, rounds >= device[v].log.target) :
                 LET new == RoundsOf(v, rounds, streak)
                 IN  /\ ValidRounds(device[v].log, new)
                     /\ ValidSadhanaProfile(SummaryOf(v, new), device[v].log, new)
=============================================================================
