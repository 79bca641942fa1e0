# A TLA+ model of folk-server

folk-server is the Node 20 / Express backend of a youth community: devotees
sign in with a WhatsApp code, book seats on yatras (trips) and pay for them,
register for sevas and events, and keep a daily sadhana log; staff run all of
it. Firebase does authentication, Postgres is the document store (behind the
Firestore Admin API), Razorpay takes payments, WhatsApp carries messages.

This directory models the parts where the order of things matters, checks them
with TLC and proves the main results with TLAPS. Paths below are relative to
the repository (`src/` is its code, `docs/` and `test/` beside it).

## 1. Inventory

| Component | State it keeps | Operations | Talks to | What is hard, and what must be true |
|---|---|---|---|---|
| Trip payments (`services/payment.service.js`, `razorpayWebhook.service.js`) | `payments` (by order id), `paymentOrderId`/`status`/`confirmedBy` of `trip_registrations` | createOrder, verifyPayment, webhook captured/failed, confirmTripSeat | Razorpay, store | reads before awaits, webhooks reordered and redelivered, crashes between writes. Completed = captured money; money is never lost from the record; a paid seat is confirmed |
| Trip capacity (`db/migrations/003_trip_capacity.sql`) | `trips.seats_taken` | triggers on `trips` and `trip_registrations` | store transactions | concurrent bookings, lock order. Exact count, no overselling |
| Document store (`db/store/`) | tables, document versions, advisory locks | runTransaction, batch, single writes, the write planner, codec, queries | Postgres, change feed | lock order, deadlock retry, four paths a write can take. A serial store; queries find what they describe |
| Data API (`db/dataApi.js`) | none of its own | dbGet, dbQuery, dbCommit, dbChanges | store, policies, feed | version preconditions on documents read long before |
| Policies (`db/policies.js`) | none | canRead, canList, canWrite | data API | rules that relate several documents of one commit (RSVP and seva counters, sadhana scores) and must refuse nothing legal |
| Change feed (`db/store/changefeed.js`) | the last 2000 changes, a boot id | note, since | store, browsers | overflow, restart, lost COMMIT answers. A page that shows what is no more is told |
| OTP (`services/otp.service.js`, `controllers/otp.controller.js`) | `otp_codes` (by phone) | issueOTP, delivery, clearOTP, verifyOTP | WhatsApp, store, clock | rolling limits, a late clearOTP. Bounded sends and guesses, single use |
| Phone accounts (`services/phoneAuth.service.js`) | Firebase accounts, `users` | findUidByPhone, signInWithPhone | Firebase, store | two first logins at once. One account per phone, nobody's account taken |
| Admin login (`services/admin.service.js`) | Firebase account, `users.role` | createOrResetAdmin | Firebase, store | five calls that fail one by one. A former owner keeps no password, phone or session that is renewed (an ID token lasts up to an hour) |
| Seva (`services/seva.service.js`) | `sevas.countRegistered`, `seva_registrations` | create, join, cancel, markAttendance, browser commits | store, policies | a counter kept by relative changes. It moves with the held registrations, capacity at join |
| Events (`controllers/event.controller.js`, policies) | `events` counters, `registrations` | createEvent, RSVP commits | store, policies | absolute counters computed by browsers. Counter = answers |
| Attendance (`controllers/attendance.controller.js`) | `attendance` | verifyAttendance, scans and roll call | store | double taps, the roll call beside them. Told once per record |
| Sadhana (`services/sadhana.service.js`, policies) | streak, score, logs | submitToday, the website's vow and rounds | store, clock | missed days, midnight, corrections, two devices. Streak and score are those of the logs |
| Startup (`db/migrator.js`, `migrate.js`, `rollback.js`, `store/importer.js`, `services/database.service.js`) | `schema_migrations`, all tables, the marker of the copy | migrate, copyFirestoreToPostgres, rollbackToGeneric, waitForDb | Postgres, Firestore | crash half-way and rerun, two processes, writes meanwhile, rollback. Nothing acknowledged is lost |
| Broadcasts, notifications (`services/broadcast.service.js`, `notification.service.js`) | `broadcasts`, `notifications`, a phone index | send, backfill | WhatsApp, store | no state between calls |
| Middleware (`auth`, `rateLimit`, `waitForDb`, `onCall`) | counters per window | per request | all routes | requests before the database is ready (Startup) |
| Uploads | objects in R2 | sign, upload, delete | R2 | pure I/O |

Handlers await between calls, so requests interleave at every store or network
call. The hazards this leads to are listed with their lines in `PROJECT.json`.

*How the parts compose.* `DocStore` shows that a call of the store (a dbCommit,
a batch, a single write) takes effect at one moment; the modules above it use
that and make a commit one step (`EventRsvp`, `Attendance`, `Sadhana`,
`ChangeFeed`, `TripPayments`). Where the property is about the locks
themselves (`TripCapacity`: row locks inside triggers; `SevaCounter`: calls that
lock in opposite orders) the transaction keeps its steps.

## 2. Modules

| Module | Models | Checked by | Proofs |
|---|---|---|---|
| `TripPayments` | payments of trips and donations | `MCTripPayments`, `TripPayments*.cfg`; `MCTripCapacity` | `TripPayments_proofs` |
| `TripCapacity` | the capacity triggers under store transactions | `MCTripCapacity`, `TripCapacityCommits.cfg` | `TripCapacity_proofs` |
| `SevaCounter` | places in sevas under store transactions | `MCSevaCounter`, `SevaCounter*.cfg`; `MCDocStore` | `SevaCounter_proofs` |
| `Otp` | login codes of one phone | `MCOtp`, `OtpLimits.cfg` | `Otp_proofs` |
| `FieldOps` | field operations: increment, delete, union, dotted paths, merges | through `DocStore` | lemmas in `DocStore_proofs` |
| `SerialStore` | what the store promises | refined by `DocStore` | `DocStore_proofs` |
| `DocStore` | rows, locks, transactions, write paths, dbCommit | `MCDocStore`, `DocStoreCalls.cfg` | `DocStore_proofs` |
| `Query` | SQL conditions of filters and orderBy on those rows | `MCDocStore` | `DocStore_proofs` |
| `ChangeFeed` | the feed, its pages, restarts | `MCMemberCommits`, `MemberCommits.cfg` | `MemberCommits_proofs` |
| `EventRsvp` | RSVPs and the counters of an event | `MCMemberCommits` | `MemberCommits_proofs` |
| `Attendance` | check-ins and the roll call | `MCMemberCommits` | `MemberCommits_proofs` |
| `Sadhana` | chanting logs, streaks and scores | `MCMemberCommits` | `MemberCommits_proofs` |
| `Accounts` | phone sign-ins and the set-up of the admin login | `MCAccounts`, `AccountsLogins.cfg` | `Accounts_proofs` |
| `Startup` | migrations, copy, rollback, first requests | `MCStartup`, `Startup*.cfg` | `Startup_proofs` |

Operators named `...Bug` (and `NudgeUnbounded`) are plausible mistakes in the
definition of the same name; they are used by nothing in the specifications and
document which mistake each property would catch (`PROJECT.json`, `mutants`).
`MCMemberCommits` puts four small modules that share no document side by side,
`MCTripCapacity` an instance of `TripPayments` beside `TripCapacity`, and
`MCDocStore` one of `SevaCounter` beside `DocStore`: a behaviour of such a
composition is a behaviour of one of its parts while the others stand still, so
it shows of each part what a run of its own would.

### DocStore, SerialStore, FieldOps and Query

*State.* `rows` (each document's typed columns, its `extra` jsonb and its
version), `lock` (the advisory lock of each document), `tx` (what the statement
or transaction of each caller has done), `call` and `answer`.

*Actions.* `Ask` is the browser's dbGet of the documents its preconditions name
and the call itself. A dbCommit locks and reads one document after another
(`ReadDoc`), checks versions and policy (`Check`) and flushes; a batch only
flushes. A flush locks what it writes (`LockDoc`: a lone create and grouped
INSERTs as Postgres takes them, in the order of the paths), applies the
statements (`Apply`) and commits (`Commit`). A write outside a transaction
(`Single`) is one statement (`FastRun`), which may find no row or have its guard
refused and then starts again as a transaction of its own (`SlowRun`).
`PatchRow` is the planned UPDATE or upsert, column by column; `SlowRow` is
read-modify-write; both are modelled on rows, and what they have to give is
`Outcome`, on documents. `Fail` and `DeadlockVictim` roll back, the latter is
tried again.

*Refinement.* `DocStore` implements `SerialStore` with the rows read through the
codec (`Documents`). `SerialStore` performs, refuses or fails each call as a
whole; `After` is its documents write by write. The refinement is proved for any
calls (`StoreIsSerial`, section 4) and checked by TLC, which also shows that the
interesting cases are reached, with the eight calls of `MCDocStore`:
two callers in any combination, on two documents, with a typed integer field
that allows 0 and 1 (of an SQL type from -1 to 2; the instance counts in halves,
so that there are fractions) and a field without a column, so that text, null, a
number out of range, an increment beyond the range and a nested field all occur and are
diverted to `extra` and back; two attempts, so a deadlock is retried and may
fail; versions up to 2, so a document is written, deleted and made again under a
caller that has read the first one. A COMMIT whose answer is lost is a matter of
what callers hear, and is in `ChangeFeed`.

*Query.* `Found` is the SQL condition on a row, `JsonMatches` what the filter
means on the document. `QueriesFind` compares them after every write, for all
operators and operands of each kind: numbers the column allows, numbers only its
SQL type holds, fractions and numbers too large for it, text and null. The
property names what the code makes exceptions of. A range filter on a typed
field looks in one place (`query.js:85`): with a number of the SQL type (`Loose`,
`codec.js:58-61`) in the column, so it misses the values the column cannot hold;
with any other number in `extra`, so `maxVolunteers > 1.5` or `< 3000000000` finds
no document whose value is in its column. orderBy drops values that were
diverted. The head of `query.js` says otherwise: that a value the column could
never hold can only match rows whose value was kept in `extra` (:8-10), which is
true of equality and not of ranges, and that the semantics are those of the
generic store (:14-16).

*Fairness.* Strong for each caller's step, as Postgres grants a lock in the
order of asking and a 30 s statement timeout ends what waits longer; weak for the
deadlock detector.

### TripPayments

*State.* `reg` (status, confirmedBy, cash and paymentOrderId of each
registration), `trip` (what the amount depends on), `pay` (payments documents),
`req` (createOrder and verifyPayment requests, with the values they read and
still use), `settling` (webhook deliveries between their two transactions);
`ord`, `att`, `hooks`, `handed` belong to Razorpay and the browser.

*Actions.* createOrder is `StartOrder`/`StartDonation`, `CheckOwed`,
`CreateRzpOrder`, `RecordPayment`, `LinkOrder`; verifyPayment is `StartVerify`,
`FetchPayment`, `MarkMismatch` or `CaptureNow`, `MarkCompleted`, `VerifySeat`;
one step per await. The webhook is `WebhookCaptured` (the transaction on the
payment) and `WebhookSeat` (confirmTripSeat, then the 200), or `WebhookFailed`.
`Ack` either removes the event or leaves it to be delivered again. `RequestFails`
rejects any call of a request and `Crash` drops all requests; both count
against `MaxFaults`. Book, cancel, point at an order, staff edits and deletion
are the `trip_registrations` policy.

*Razorpay is external.* It authorizes or declines attempts on orders whose id
reached a browser, captures at most one attempt per order (by itself or on
request), refunds what nobody captured, and delivers a webhook until it gets a
200, in any order. An attempt may be charged an amount other than the order's,
because the code checks for it. A registration id is not used again after its
deletion (ids are random), and the owner check, signatures and receipt texts
are left out: requests are those of the owner and webhooks those of Razorpay.

*Runs.* `payments_orders` has two orders, so one may replace the other as the
pointer, two attempts, so one may fail before or after the other is captured,
and two requests at once. One crash or failed call is enough to break any of
the properties a single failure can break, as each is about one order.
Trips that are edited, deleted or have nothing to pay all occur.
A donation takes one of the orders in the runs in which nothing fails (the
constraint `FailedOrDonated` bounds the states; it only leaves some out, and the run
has no liveness property).
The other half of `capacity_commits` combines a donation with failures: an
order may belong to either, which `PointerIsOwn` tells apart (its theorem covers
any number of orders). There one order is enough, for each capture and each
booking is followed on its own, with one crash or failed call, and confirmTripSeat
does not fail; it checks the two liveness properties.

*Fairness.* Node runs the continuations of a request it started
(`WF(Step(h))`); Razorpay redelivers until it gets a 200, so a pending event is
eventually handled. New requests, users and Razorpay's captures are under no
obligation.

*What they show.* A payment shown as completed is backed by captured money,
whichever writers raced. `verifyPayment` writes without a transaction:
`OnlyStaleVerifyDemotes` shows that the single thing this may damage is a
completed payment overwritten by the mismatch of *another* attempt. Two
disagreements were met, each the one property of a run TLC refutes:

- `payments_paid_twice`: "This registration is already paid." is decided by the
  order the registration points at now. Create two orders, pay the first: the
  pointer names the second, and a third order is made for the full amount.
- `payments_lost_seat`: confirmTripSeat swallows its error, so the webhook is
  answered 200 and never redelivered although the comment says such errors give
  500; the paid booking stays pending. (`capacity_commits` shows the seat is
  confirmed if that transaction cannot fail.)

### TripCapacity

*State.* The committed rows (`booking` status, `cap` capacity, `taken`
seats_taken) and the transactions in flight: writes, locks held, writes applied,
seats_taken written but not committed, attempt.

*Actions.* `Begin`; `ReadDoc` (tx.get, with the policy's decision after the last
read); `CheckCapacity` (BEFORE trigger: lock the trip only when more seats are
taken, then count); `SyncTrip` (AFTER trigger: lock, recount); `WriteTrip`
(the guard trigger on `trips`); `Commit`; `Fail` (lost connection, timeout,
crash); `DeadlockVictim` (40P01: roll back, run again, up to `MaxAttempts`).
READ COMMITTED is in `Seen`: the committed rows and the transaction's own. The
legacy seats values (missing, zero) are in `RegSeats`; a NULL capacity is 0.
A commit writes a document once (`CommitAssumption`); dbCommit would accept a
list that writes one twice, which no page sends.

*Run.* `capacity_commits`: commits of two bookings on two trips in opposite
orders, so that they deadlock on shared documents or, with none in common, on
the trip rows; the last of two seats is raced for, bookings are reopened, a trip
is deleted under a booking or lowered below what is taken. Strong fairness of
each transaction, weak of deadlock detection, as above.

A missing row cannot be locked. A booking written while its trip does not exist
that commits just after the trip's creation is not counted
(`003_trip_capacity.sql:120`); so `SeatsTakenExact` holds as long as no booking
of a missing trip is in flight together with its creation, which is the
hypothesis `BookedAlone` of its theorem. `NeverOversold` needs a little more,
`BookedApart`: also no commit writes a trip and bookings of it together, as the
property compares with the capacity the commit leaves, and such a commit could
book first and lower the capacity after. No handler or page does either, TLC
finds both hypotheses true of the run, and the theorems state them.

### SevaCounter

*State.* `seva` (countRegistered and maxVolunteers of each seva), `reg` (the
status of each member's registration) and `tx`, each caller's transaction: the
call, how many of its documents it has locked and read, what it saw, which
attempt it is.

*Actions.* `Create` is one statement. Every other call is a transaction:
`Begin`; `ReadSeva` and `ReadReg`, one per `tx.get`, in the order of the call
(`Reads`); `Finish`, the checks on what was read (`Accepted`: the handler's, or
for a browser commit the policies'), the buffered writes and COMMIT, or the
refusal; `Fail`; `DeadlockVictim`. The writes are to documents already locked,
so they and COMMIT are one step. `Increment` and `NewStatus` say what each call
writes; `increment()` applies to the row as it is, not as it was read, and the
properties show that this is the same.

*The calls.* join, cancel and attend are the handlers; webjoin and webleave are
the member's dbCommit of the counter and the registration, with the sevas and
seva_registrations policies; edit and delete are staff's dbCommits on the seva.
Roster is the staff page's cancellation of a registration together with the
counter. Three browser commits are on one document alone, and the policies accept
them (`OneSided`): staff set the status of a registration (stamp,
`policies.js:318`, what `docs/KNOWN_ISSUES.md:22` says the roster page does), a
member sets their own (webstamp: `policies.js:315-317,319-321` ask for no seva in the
commit), and staff set the counter (recount, `policies.js:298`). A member cannot
delete a registration (`policies.js:314`). A browser leave is refused while the
seva is over its capacity, as `policies.js:310` compares the new counter with
maxVolunteers in both directions; the member can still cancel through the handler.

*What it shows.* `SCHEMA_INVENTORY.md:402` and `docs/KNOWN_ISSUES.md:73` list
`countRegistered == #registrations in (registered, completed)` and name the policy as what
keeps it. `seva_roster` is refuted: one one-sided commit parts the two. What the
code does keep is `CounterInStep`: every *other* commit moves the counter by what
it adds to or takes from the registrations that hold a place, unless the counter
has come down to zero, where cancel and markAttendance leave it whoever still
holds a place. Before the first one-sided commit the counter is exact; that is
`CounterCorrect` of section 4. `JoinsWithinCapacity` is about the counter, hence
about the registrations only as long as these agree. `CompletedStands`: only
staff take a completed mark back.

*Runs.* `seva_calls` and `seva_roster`: two members, one place or two, two calls
at once of all eleven kinds, two one-sided commits, so the counter may be parted
upwards and downwards, joins race for the last place, a capacity is lowered below
what is taken, a seva disappears under a call, and the handlers deadlock on the two
documents they lock in opposite orders. That every call ends is checked in
`store_calls`, with one member and one or two of the calls that lock the same
documents in the same order. The properties relate one seva to its registrations,
and any conflict is between two transactions; the proofs of the safety
properties are for any number.

### Otp

*State.* The clock, the phone's `otp_codes` document, sendOtp requests waiting
for WhatsApp, and the history the properties speak of (issue times, wrong
guesses, logins).

*Actions.* `IssueOTP`, `Deliver`, `ClearOTP`, `Crash`; `VerifyStale`,
`VerifyWrong`, `VerifyRight`; `Tick`. Codes are all different, so a guess is
right or wrong; a submission that is not six digits changes nothing and is left
out, as is a refused request.

*Run.* Times are scaled so that every limit is reached: codes live 3 ticks,
2 sends in 5 ticks, 3 in a day of 9, one every 2, two guesses, 12 ticks in all
(a day and a third; the run stops at `MaxTime`, hence no deadlock check).
`ClearsOwnCode` depends on `DeliveryAssumption`: clearOTP is unconditional, and
is harmless only because the WhatsApp call times out after 15 s while codes are
60 s apart. `GuessesPerDay` allows one code more than the comment of
`otp.service.js:108` ("50 guesses a day"): a code issued just before a rolling
day may be tried in it, which makes 11 codes and 55 guesses.

### ChangeFeed

*State.* How often each collection has changed (`content`), commits the server
has not heard of yet, collections written by commits it never will hear of
(`missed`), the feed with its boot id, and the pages.

*Actions.* `Commit` takes effect in Postgres; `Hear` is the answer, whereupon
onWrite notes the changes (after them the trips of bookings, as a trigger has
changed them); `HearNothing` is a lost answer to a COMMIT that took effect; `Import` is
importDocuments, which emits nothing; `Restart` starts a feed with a new boot
id. A page asks for a token, loads, polls and loads again when told
(`Open`, `Load`, `Poll`); pages are external.

*What it shows.* A page that shows what is no more is told by its next poll,
unless the commit is still unnoted or the server will never hear of it; with fair
answers and polls it catches up. The `missed` exception is real: a lost answer
to COMMIT and an import are noted by nobody. The feed keeps 3 changes here and
four commits happen, so it overflows; one restart lets a token meet the wrong
process. One server process at a time.

*Fairness.* Weak, for answers and for the polls of open pages.

### EventRsvp, Attendance, Sadhana

`EventRsvp`: a member reads the event, then the registration, and commits both
with absolute counters and the two versions as preconditions; staff edit, delete
and make the event again. After a deletion the RSVPs stay, and so do the
counters' partners: versions start at 1 again and an old precondition may match
the new event. So the properties speak of an event until it is made again
(`again`). A handler-made event has no counters, a commit-made one zeros.

`Attendance`: verifyAttendance in its three awaits, for overlapping requests of
one member, beside staff who scan, tick and un-tick, and delete the event.

`Sadhana`: one member, several devices, five days. The server (submitToday) and
the website score differently and only one of them is in use
(`docs/KNOWN_ISSUES.md:15-16`), so a behaviour has one of them. The website's
formulas are external, taken from `SCHEMA_INVENTORY.md:187`,
`docs/KNOWN_ISSUES.md:58-62` and `test/hardening.test.js:263-290`; the policies
that must let them pass are the code's. Two limits are named in the properties:
the server's streak loses count when a day is logged after a later one
(`overtaken`: the date is taken before the transaction), and the policies may
refuse a website that logs days out of order. `Total` and `Run` are what the logs
of all days say the score and the streak should be; the policies' bounds include
that no counter or score is negative (`policies.js:99,121`).

*Run.* `member_commits`, bounded by 6 event commits of two members, three
overlapping check-ins with three staff actions, six sadhana writes from two
devices on days 3 to 5 (a new member and one with a run of two days, so the bonus
at 3 is reached), four feed commits.

### Accounts

*State.* `auth` (Firebase accounts: phone, other login, whose password, and what
is left of sessions from before: none, an ID token, or one that is renewed), `profile` (role and phone in users), `req` (requests between
two awaits) and `moved`, what others did to an account while requests ran.

*Actions.* A sign-in is `StartLogin`, `Registry`, `Profiles`, `GetUser`,
`CreateAs`, `Link`, `CreateFresh`, `Owner`, `Mint`; the set-up of the admin login
`StartSetup`, `FindAdmin`, `CreateAdmin`, `GetProfile`, `TakeOver`, `Revoke`,
`SetProfile`, `Promote`. `RequestFails` ends either anywhere. Sign-ups, phones
that owners attach, profiles that are made, edited and deleted, and ID tokens that
expire (`TokenExpires`) are the outside world. The queries by which findUidByPhone finds profiles (normalised phone,
spellings, the index of the broadcast service) are one look at one moment; the
refusal of a disabled account is an end like `Mint`'s.

*What it shows.* A phone signs in to the account that holds it, whatever raced;
no sign-in puts a phone on somebody else's account; set-ups that fail half-way
leave a former owner no password, no phone and no session that is renewed, once
one has passed. They may leave an ID token: revokeRefreshTokens
(`admin.service.js:152`) ends the renewal only, and `middlewares/auth.js:19` calls
verifyIdToken without checkRevoked, so for up to an hour the former owner's token
is accepted for the account, an admin's by then. The comment "so nobody stays
signed in with the old one" (`admin.service.js:143-144`) is true only after that,
and `AdminTakenOver` promises no more. The exceptions in the
properties are what the code leaves open: the account found by its profile is
not looked at again, so an edit of the profile in between (`moved`) links or
signs in to an account that now differs: the check for a different number is
skipped when the uid exists already (`phoneAuth.service.js:82`) and before
updateUser.

*Run.* `accounts`: two requests, three uids (one the root admin), two phones, two
steps of the outside world. A race is between two requests; the proofs are for
any number.

### Startup

*State.* The table of each collection and of `system`, which is one of the typed
ones (`schema/index.js:16`) and holds the marker of the copy: none, generic or
typed; legacy and backup tables, the documents in each, `migration_rejects`, the
migrations applied, the marker, the advisory lock, Firestore, and the processes.

*Actions.* `Start`, `Lock`, the three migrations, `Unlock`, `ReadMarker`,
`ReadPage`/`ImportPage` per collection, `SetMarker`; requests afterwards
(`Write`, `Delete`), the admin's copy while the server works; `Crash`, `Stop`,
`Fail`; `Rollback` by the operator, and the older release and old websites that
write to its tables and to Firestore. A migration, an imported page and the
rollback are one transaction each.

*What it shows.* Through crashes, reruns, copies and a rollback a document holds
the last value that was acknowledged or waits in `migration_rejects`, and
whoever answers requests has every document. Named exceptions: a copy can bring
back a document that was deleted meanwhile (as version 0, so that it never
overwrites), and after a rollback whoever answers may lack what was in `docs_other`
and `migration_rejects` only, which the rollback sets aside (`SetAside`) while the
marker says that nothing need be copied again. `Init` may hold a marker, as the
older release copied too; requests read and write the collections of the registry
only (`Serves`).

No start stumbles over what another start has left, and none over a rollback when
the older release had a table for every typed collection, `system` included
(`startup`). Without that, `startup_again` is refuted: `rollback.js:84` sets aside
only the typed tables of collections that have a legacy table; the others stay,
the emptied `schema_migrations` makes the next start run 001 again, and it fails at
CREATE TABLE (`001_typed_schema.sql:978` for `system`), against "Deploying the typed
release again later simply migrates again" (`docs/MIGRATIONS.md:101`).

*Bounds.* `startup`: two processes, a collection the older release had (with
`system`; `startup_again` without) and documents one of which no table accepts,
three writes, one crash. A second crash
repeats the first from an earlier state. *Fairness.* Weak for the steps of a
started process, strong for the lock, which Postgres grants in order.

## 3. Runs

| Run | Expect | Question |
|---|---|---|
| `payments_orders` | pass | documents and orders agree; completed payments and paid seats are backed by money |
| `payments_lost_seat` | violation | ... also when confirmTripSeat fails |
| `payments_paid_twice` | violation | a paid registration owes nothing |
| `capacity_commits` | pass | exact counts, no overselling, every commit ends; bookings point at their own orders, captured money is recorded, paid seats are confirmed |
| `otp_limits` | pass | sends, guesses, single use, late clears |
| `seva_calls` | pass | the counter moves with the registrations, capacity, completed marks |
| `seva_roster` | violation | the counter is the number of held registrations |
| `store_calls` | pass | the store is serial, queries are right, calls are answered; calls on sevas end |
| `accounts` | pass | phones and admin logins |
| `member_commits` | pass | RSVPs, check-ins, sadhana, the change feed |
| `startup` | pass | no write lost, copy complete, starts end |
| `startup_again` | violation | a rollback can be followed by a new deploy |

CHECK_DEADLOCK is off where a behaviour really ends: the clock (Otp), the bounds
on commits and days (`member_commits`) and an operator who does nothing more
(Startup).

## 4. Proofs

TLC shows the properties on small instances; `*_proofs` shows every one that is not
a liveness property for every value of the constants, from the assumptions named in
each module (TLC evaluates them in the runs) and the hypotheses named here.

`TripPayments_proofs`. The safety properties are not inductive alone: that a
completed payment is backed needs to know that a request about to write
"complete" holds a captured attempt of the right amount (`RequestOK`), that the
payments document restates its Razorpay order (`Issued`), that no two requests
hold the same new order (`OneRecorder`), and that webhooks in flight report what
happened (`WebhooksOK`). `IInv` is their conjunction; `StepInv` proves it one
action at a time, with a frame lemma per group of variables ("...Kept") so that
each action only argues about what it changes. From it: `TypeCorrect`,
`CompletedPaymentsAreBacked`, `ConfirmedSeatsArePaid`, `PointersAreOwn`,
`NoChargeIsOrphaned`, and the action property `SettledStaysSettled`.
`OnlyMismatchesDemote` adds that an order has one capture at most and that a
request about to record a mismatch was charged another amount (`DemoteInv`).

`DocStore_proofs`. Lemmas about field operations and the codec; `OneOutcome`:
the planned statement and read-modify-write leave the same document, the one
`FieldOps` defines, for every row in which a field is stored once. That every
reachable row is one, whatever calls run, is `FieldsStoredOnce` (`IInv`: committed
rows, and rows written and not committed), and with it `QueriesRight`:
`QueriesFind` for any columns, SQL types, calls and operands.

`StoreIsSerial` is the refinement, for any documents, columns, callers and calls:
`ImplementsSerialStore`. Its invariant, `Refines`, adds to `IInv` how the phases of
a call, its answer and its locks go together, and `Writing`: a transaction being
flushed still finds the versions its caller expected, holds the locks of all it has
read or written, and has written what its first writes do (`After`) to *every* store
that agrees with this one on the documents it has locked. Quantifying over those
stores is what makes the invariant stable: commits of other callers only move from
one of them to another (`Undisturbed`). `GroupSteps` shows that a grouped INSERT does
what its writes would do one after another, or that some write of it does not apply
and spoils the call (`Spoilt`); `AfterStep` unfolds the recursion, whose existence
is shown by a least counterexample. Every action then maps to a step of
`SerialStore` (`Commit`, `FastRun`, `SlowRun` to `Perform`; a failed check or
statement to `RefuseCall`; failures and given-up deadlocks to `FailCall`) or to a
stutter (locks, statements, retries). Its one hypothesis, `NoneIsNoFunction`, says
that None, the missing document, is no function: what TLC's model value is anyway.

`TripCapacity_proofs`. `IInv` says that advisory and row locks are disjoint
(`Disjoint`), that a transaction holds the locks of what it has written, and that
the seats_taken it is about to commit is the sum over the bookings as they will be
(`SumsOK`): whoever changes a booking of the trip holds the trip's row until
COMMIT. `SeatsStayExact` follows under `[]BookedAlone`. For `TripsAreNotOversold`,
under `[]BookedApart`, the sum itself must be reasoned about: its recursion over
subsets of the bookings (`IsSum`, `SumRecursion`, `SumStep`, by least counterexample)
gives what one booking adds (`OneBooking`). `FitsInv` says that what a transaction has booked fits
the committed capacity, and that between the BEFORE trigger's check and the AFTER
trigger's recount it holds the row it has checked (`Checked`), so nobody's commit
moves either.

`SevaCounter_proofs`. `SafeReads` (types; a document is locked by one
transaction, `OneHolder`; what a transaction has read is what the document
holds, `SawCurrent`) is inductive with every kind of call, the one-sided commits
included (`ReadsStayTrue`). With it, one status change adds or removes one member
of a finite set, and the call's increment is that difference: `CountersMoveInStep`
(`CounterInStep`). As long as no one-sided commit has been sent (`parted = 0`) the
counter is therefore exact: `CounterCorrect`, whose hypothesis is in its statement
because the invariant is false without it (`seva_roster`). `CompletedIsKept` and
`JoinsFit` are action properties from `SafeReads`.

`Otp_proofs`. `IInv` adds that the send history holds every issue of the last
day, hence codes are `Interval` apart (`Spaced`), that the live code is the last
one issued and its document counts its wrong guesses (`LiveIsLast`), and that no
request is overdue (`InFlight`). From it: `TypeCorrect`, `GuessesAreBounded`,
`CodesAreAcceptedOnce`, `DeliveriesClearTheirOwn`, and `MessagesAreLimited`: the
window only loses issues as time passes, and IssueOTP adds one where the history
shows fewer than the limit. It needs `Window <= Day`, as the code has it.
`GuessesOfADay` counts the codes of the day (`DayOK`): each has used up its
attempts, the live one those its document shows, and the one that the day began
with is the `MaxAttempts` beyond.

`Startup_proofs`. `NoWriteIsLost` and `ServersHaveEverything`, for any processes,
documents and collections. `IInv`: where tables and rows may be after each
migration (`SchemaOK`, `RejectsOK`), that the row which holds the last acknowledged
write, in its table or among the rejected ones, still does, with a version that no
copy overwrites (`Held`), that a marker means that every document is here or
set aside, unless a rollback has left typed tables in the way (`MarkerOK`), that one process migrates at a time, knows how far, and that whoever
serves has seen a marker (`LockOK`), and that a copy has brought the collections
before the one it is at (`CopyOK`). `StartsDoNotStumble` needs that every typed
collection, and `system`, had a table in the older release (`TypedTables` within
`Had`); `startup_again` is what happens without it.

`Accounts_proofs`. `IInv` says what a request knows at each step (`LoginOK`,
`SetupOK`): the profile found still claims the number, the account to be linked
has no other, the account being set up is the admin address's, and so on, unless
the profile was edited. `Kept` is what any step leaves of accounts and profiles
for the other requests (`OthersStand`), so that each action argues only about
its own request. From it: `PhonesSignInTheirAccount`, `NumbersNeverMove`,
`TheTeamTakesOver` (with the ID token that may be left), for any number of accounts, phones and requests.

`MemberCommits_proofs`, one part for each of the four modules:

- `EventRsvp`. `ReadsKnown`: what a member has read is the event as it is or an
  older version of it, and the member's registration is nobody else's; with
  `Match` this is inductive, and gives `EventTypeOK`, `CountersAreExact` and
  `NoAnswerRefused` (the bound of one step per counter in `policies.js` refuses no
  honest commit). The proof needed one thing `TypeOK` did not say: a counter may be
  above the number of members once the event was made again.
- `Attendance`. The requests told "recorded" are at most the record that stands
  plus those taken back: `ToldOncePerRecord`, for any number of requests.
- `ChangeFeed`. `Orderly`: the changes a feed keeps are its last ones, without gaps;
  tokens are of this boot or an earlier one (`FeedTypes`). `NothingMissed` is then
  inductive: a commit adds to both the content and what is unnoted, noting adds
  changes later than any token, and a feed that has dropped one refuses older
  tokens. `NoPageIsLeftBehind`, for any length of the feed, any pages and restarts.
- `Sadhana`. `ProfileIsTheLogs` (`SummaryMatches`) and `WebsiteAccepted`
  (`ClientAccepted`). `TotalStep` and `RunStep` say what changing the log of one day
  does to the sum and to the run of completed days. `ChantInv` adds what a device
  has read (`DevicesRead`) and how the dates on the profile follow the logs, for
  each side (`ServerDates`, `WebsiteDates`). The attempt showed that the policies'
  refusal of negative numbers is what keeps the streak a number; the model now has it.

*Only model-checked.* Liveness: `CaptureIsRecorded`, `PaidSeatIsConfirmed`,
`EveryCommitEnds`, `EveryCallEnds`, `EveryCallAnswered`, `PagesCatchUp`,
`EveryStartEnds` rest on fairness, hence on ENABLED, which the prover does not
handle. The properties of the four refuted runs are false of the code.

## 5. What is left

1. `BookingLedger`, an abstract specification of what a payer is promised,
   implemented by `TripPayments` and proved so like `StoreIsSerial`.
2. That `SevaCounter` implements one-step calls on its counter, from
   `ReadsStayTrue`.
3. dbQuery's cursors and limits; reading policies.

## 6. Not modelled

- Broadcasts, notifications and the phone index: one read of the recipients,
  calls of the messaging service and one record; no state between calls. The
  index writes old numbers over new ones (`broadcast.service.js:61`), but only
  proposes candidates.
- Uploads: objects under fresh names in an external store.
- Signatures, authentication tokens, texts and formatting, rate limits (a filter
  over an array in one synchronous call), the lists that staff read.
- In the store: arrayRemove, paths deeper than one level, writes with an expected
  version (no caller uses them), jsonb and text[] columns, limits and cursors,
  the connection pool.
- In the policies: collections without shared state (notifications, courses,
  hostel, accommodation, follow-ups, messages), and who may read.
- In the startup: the seeds, which two processes may insert at once
  (`seeds.js:18`; the slug is UNIQUE and the refusal is caught), importing with mode "force",
  documents demoted by unique or foreign keys, and several server processes
  writing while another copies. `ensureMigrated` takes no lock, so two processes
  may copy at once; that is modelled.
- Firestore as the store (the legacy backend); the models describe Postgres.
