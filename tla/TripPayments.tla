---------------------------- MODULE TripPayments ----------------------------
(***************************************************************************)
(* Payments for yatra (trip) registrations and for donations:              *)
(* services/payment.service.js (createOrder, verifyPayment,                *)
(* confirmTripSeat), services/razorpayWebhook.service.js and the           *)
(* trip_registrations rule of db/policies.js, with Razorpay as the         *)
(* external service that creates orders, charges them and delivers         *)
(* webhooks at least once and in any order.                                *)
(*                                                                         *)
(* A document read, a document write and a store transaction are one step  *)
(* each (the store gives every write the document's lock); the steps of    *)
(* different requests interleave, because each handler awaits between      *)
(* them.  A process crash drops every request in flight.                   *)
(***************************************************************************)
EXTENDS Integers, FiniteSets

CONSTANTS
    Regs,           \* ids of trip_registrations documents
    Orders,         \* Razorpay order ids, also the ids of payments documents
    Attempts,       \* Razorpay payment ids: one attempt to pay one order
    Reqs,           \* concurrent createOrder / verifyPayment requests
    None,           \* the absent id
    Donation,       \* the purpose of an order that pays for no registration
    Quotes,         \* states of the trip document: [price, advance, online]
    SeatsOf,        \* seats of each registration
    Donations,      \* amounts a donor may choose
    OddAmounts,     \* amounts a payer may be charged other than the order's
    MaxOrder,       \* MAX_TRIP_ORDER_INR
    MaxFaults,      \* bound: crashes and failed calls in one behaviour
    ConfirmMayFail  \* whether the confirmTripSeat transaction may fail

ASSUME IdsAssumption ==
    /\ None \notin Regs \cup Orders \cup Attempts
    /\ Donation \notin Regs \cup {None}

ASSUME AmountsAssumption ==
    /\ Quotes \subseteq [price : Nat, advance : Nat, online : BOOLEAN]
    /\ SeatsOf \in [Regs -> 1..20]
    /\ Donations \subseteq Nat \ {0}
    /\ OddAmounts \subseteq Nat
    /\ MaxOrder \in Nat
    /\ MaxFaults \in Nat
    /\ ConfirmMayFail \in BOOLEAN

VARIABLES
    reg,        \* trip_registrations: [Regs -> booking]
    trip,       \* the trip document, or None when it was deleted
    pay,        \* payments: [Orders -> payment document]
    req,        \* requests in flight
    settling,   \* attempts whose captured webhook is applied, seat not yet confirmed
    ord,        \* Razorpay: orders created
    handed,     \* orders whose id reached the browser
    att,        \* Razorpay: payment attempts
    hooks,      \* Razorpay: webhook deliveries not yet acknowledged
    faults      \* crashes and failures so far

store == <<reg, trip, pay>>
razorpay == <<ord, handed, att, hooks>>
vars == <<reg, trip, pay, req, settling, ord, handed, att, hooks, faults>>

-----------------------------------------------------------------------------
(* Documents and requests *)

HeldOrNot == {"pending", "confirmed", "cancelled"}

\* A trip_registrations document; "none" before it is created, "deleted" after
\* (a document id is not used again).
Booking == [status : HeldOrNot \cup {"none", "deleted"}, by : {"none", "payment"},
            cash : BOOLEAN, order : Orders \cup {None}]

NoBooking == [status |-> "none", by |-> "none", cash |-> FALSE, order |-> None]

Exists(r) == reg[r].status \in HeldOrNot

\* A payments document; status "none" when there is no document.
PaymentDoc == [status : {"none", "pending", "completed", "failed", "amount_mismatch"},
               verified : BOOLEAN, paymentId : Attempts \cup {None},
               amount : Nat, for : Regs \cup {Donation, None}]

NoPayment == [status |-> "none", verified |-> FALSE, paymentId |-> None,
              amount |-> 0, for |-> None]

\* The amount of a Razorpay order and what it was created for.
RzpOrder == [amount : Nat, for : Regs \cup {Donation, None}]
NoOrder == [amount |-> 0, for |-> None]

RzpAttempt == [status : {"none", "authorized", "captured", "failed", "refunded"},
               order : Orders \cup {None}, amount : Nat]
NoAttempt == [status |-> "none", order |-> None, amount |-> 0]

\* A handler between two awaits, with the values it read and still uses.
Request == [pc : {"idle", "check", "create", "record", "link",
                  "fetch", "mismatch", "capture", "complete", "seat"},
            for : Regs \cup {Donation, None}, order : Orders \cup {None},
            attempt : Attempts \cup {None}, amount : Nat]
Idle == [pc |-> "idle", for |-> None, order |-> None, attempt |-> None, amount |-> 0]

Settled(status) == status \in {"completed", "amount_mismatch"}

\* The early return of verifyPayment and the refusal in computeTripAmount.
Paid(o) == pay[o].status = "completed" /\ pay[o].verified

Captured(a, o) == att[a].status = "captured" /\ att[a].order = o

Lesser(m, n) == IF m < n THEN m ELSE n

\* What a registration of n seats pays now: the advance per seat, capped at
\* the total, when an advance is set; else the total.
PayNow(q, n) ==
    LET total == q.price * n
        advance == q.advance * n
    IN  IF advance = 0 THEN total
        ELSE IF total = 0 THEN advance ELSE Lesser(advance, total)

-----------------------------------------------------------------------------
Init ==
    /\ reg = [r \in Regs |-> NoBooking]
    /\ trip \in Quotes
    /\ pay = [o \in Orders |-> NoPayment]
    /\ req = [h \in Reqs |-> Idle]
    /\ settling = {}
    /\ ord = [o \in Orders |-> NoOrder]
    /\ handed = {}
    /\ att = [a \in Attempts |-> NoAttempt]
    /\ hooks = {}
    /\ faults = 0

Goto(h, to) == req' = [req EXCEPT ![h].pc = to]
Finish(h) == req' = [req EXCEPT ![h] = Idle]
Fault == faults < MaxFaults /\ faults' = faults + 1

-----------------------------------------------------------------------------
(* The browser and the staff, through dbCommit and its policy *)

\* Policy, create: a booking starts pending, with no order and no cash.
Book(r) ==
    /\ reg[r].status = "none"
    /\ reg' = [reg EXCEPT ![r] = [NoBooking EXCEPT !.status = "pending"]]
    /\ UNCHANGED <<trip, pay, req, settling, razorpay, faults>>

\* Policy, delete: super admins only.
DeleteBooking(r) ==
    /\ Exists(r)
    /\ reg' = [reg EXCEPT ![r] = [NoBooking EXCEPT !.status = "deleted"]]
    /\ UNCHANGED <<trip, pay, req, settling, razorpay, faults>>

\* Policy, owner update: a pending booking may be cancelled.
OwnerCancel(r) ==
    /\ reg[r].status = "pending"
    /\ reg' = [reg EXCEPT ![r].status = "cancelled"]
    /\ UNCHANGED <<trip, pay, req, settling, razorpay, faults>>

\* The order a booking may point at: a payments document the server created
\* for this very registration.
OwnOrderBug(r, o) == pay[o].status # "none"
OwnOrder(r, o) == pay[o].status # "none" /\ pay[o].for = r

\* Policy, owner update of paymentOrderId.
OwnerPoints(r, o) ==
    /\ Exists(r)
    /\ OwnOrder(r, o)
    /\ reg' = [reg EXCEPT ![r].order = o]
    /\ UNCHANGED <<trip, pay, req, settling, razorpay, faults>>

\* Policy, staff update: status and cash are theirs to set, confirmedBy is not.
StaffEdits(r) ==
    /\ Exists(r)
    /\ \E s \in HeldOrNot, cash \in BOOLEAN :
           reg' = [reg EXCEPT ![r].status = s, ![r].cash = cash]
    /\ UNCHANGED <<trip, pay, req, settling, razorpay, faults>>

\* Staff edit the price or delete the trip.
TripEdited ==
    /\ trip' \in Quotes \cup {None}
    /\ UNCHANGED <<reg, pay, req, settling, razorpay, faults>>

-----------------------------------------------------------------------------
(* createOrder *)

\* computeTripAmount, first read: the registration.
StartOrder(h, r) ==
    /\ req[h].pc = "idle"
    /\ Exists(r) /\ reg[r].status # "cancelled"
    /\ ~reg[r].cash
    /\ req' = [req EXCEPT ![h] = [Idle EXCEPT !.pc = "check", !.for = r,
                                              !.order = reg[r].order]]
    /\ UNCHANGED <<store, settling, razorpay, faults>>

\* createOrder without a registration: the donor chooses the amount.
StartDonation(h) ==
    /\ req[h].pc = "idle"
    /\ \E amount \in Donations :
           req' = [req EXCEPT ![h] = [Idle EXCEPT !.pc = "create", !.for = Donation,
                                                  !.amount = amount]]
    /\ UNCHANGED <<store, settling, razorpay, faults>>

PayableBug(amount) == amount <= MaxOrder
Payable(amount) == amount > 0 /\ amount <= MaxOrder

AlreadyPaid(o) == o # None /\ Paid(o)

\* computeTripAmount, second read (the pointed-at payment and the trip): the
\* request goes on with the amount, or is refused.
CheckOwed(h) ==
    /\ req[h].pc = "check"
    /\ IF /\ ~AlreadyPaid(req[h].order)
          /\ trip # None
          /\ trip.online
          /\ Payable(PayNow(trip, SeatsOf[req[h].for]))
       THEN req' = [req EXCEPT ![h].pc = "create", ![h].order = None,
                               ![h].amount = PayNow(trip, SeatsOf[req[h].for])]
       ELSE Finish(h)
    /\ UNCHANGED <<store, settling, razorpay, faults>>

CreateRzpOrderBug(h) ==
    /\ req[h].pc = "create"
    /\ \E o \in Orders :
           /\ ord[o] = NoOrder
           /\ ord' = [ord EXCEPT ![o] = [amount |-> req[h].amount, for |-> req[h].for]]
           /\ req' = [req EXCEPT ![h].pc = "record", ![h].order = o]
           /\ handed' = handed \cup {o}
    /\ UNCHANGED <<store, settling, att, hooks, faults>>

\* razorpay.orders.create
CreateRzpOrder(h) ==
    /\ req[h].pc = "create"
    /\ \E o \in Orders :
           /\ ord[o] = NoOrder
           /\ ord' = [ord EXCEPT ![o] = [amount |-> req[h].amount, for |-> req[h].for]]
           /\ req' = [req EXCEPT ![h].pc = "record", ![h].order = o]
    /\ UNCHANGED <<store, settling, handed, att, hooks, faults>>

PendingFor(amount, for) ==
    [NoPayment EXCEPT !.status = "pending", !.amount = amount, !.for = for]

\* The pending payments document, keyed by the order.
RecordPayment(h) ==
    LET o == req[h].order IN
    /\ req[h].pc = "record"
    /\ pay' = [pay EXCEPT ![o] = PendingFor(req[h].amount, req[h].for)]
    /\ Goto(h, "link")
    /\ UNCHANGED <<reg, trip, settling, razorpay, faults>>

\* Points the registration at the order and answers the browser with it.  The
\* update fails when the registration is gone, and the answer is an error.
LinkOrder(h) ==
    LET o == req[h].order
        r == req[h].for
    IN
    /\ req[h].pc = "link"
    /\ IF r = Donation
       THEN reg' = reg /\ handed' = handed \cup {o}
       ELSE IF ~Exists(r)
       THEN UNCHANGED <<reg, handed>>
       ELSE /\ reg' = [reg EXCEPT ![r].order = o]
            /\ handed' = handed \cup {o}
    /\ Finish(h)
    /\ UNCHANGED <<trip, pay, settling, ord, att, hooks, faults>>

-----------------------------------------------------------------------------
(* Razorpay, as the code relies on it *)

\* The payer tries to pay an order the browser was given: the bank authorizes
\* the payment or declines it.
Charge(a, o) ==
    /\ att[a] = NoAttempt
    /\ o \in handed
    /\ \A b \in Attempts : ~Captured(b, o)
    /\ \/ /\ att' = [att EXCEPT ![a] = [status |-> "failed", order |-> o,
                                          amount |-> ord[o].amount]]
          /\ hooks' = hooks \cup {<<"failed", a>>}
       \/ /\ \E amount \in {ord[o].amount} \cup OddAmounts :
                 att' = [att EXCEPT ![a] = [status |-> "authorized", order |-> o,
                                            amount |-> amount]]
          /\ hooks' = hooks
    /\ UNCHANGED <<store, req, settling, ord, handed, faults>>

\* An order is paid by at most one of its attempts.
CaptureAttempt(a) ==
    /\ att[a].status = "authorized"
    /\ \A b \in Attempts : ~Captured(b, att[a].order)
    /\ att' = [att EXCEPT ![a].status = "captured"]
    /\ hooks' = hooks \cup {<<"captured", a>>}

AutoCapture(a) ==
    /\ CaptureAttempt(a)
    /\ UNCHANGED <<store, req, settling, ord, handed, faults>>

\* An authorization nobody captured goes back to the payer.
Lapse(a) ==
    /\ att[a].status = "authorized"
    /\ att' = [att EXCEPT ![a].status = "refunded"]
    /\ UNCHANGED <<store, req, settling, ord, handed, hooks, faults>>

\* A 200 reaches Razorpay, or is lost and the event is delivered again.
Ack(m) == hooks' \in {hooks, hooks \ {m}}

-----------------------------------------------------------------------------
(* Recording the outcome of a payment *)

AmountMatchesBug(doc, charged) == TRUE
AmountMatches(doc, charged) == charged = doc.amount

Completed(doc, a) == [doc EXCEPT !.status = "completed", !.verified = TRUE, !.paymentId = a]
Mismatched(doc, a) == [doc EXCEPT !.status = "amount_mismatch", !.verified = FALSE,
                                  !.paymentId = a]

\* Only a pending booking is confirmed by a payment.
ConfirmableBug(status) == status = "confirmed"
Confirmable(status) == status = "pending"

\* confirmTripSeat, a transaction on the registration.
ConfirmTripSeat(o) ==
    LET r == pay[o].for IN
    IF r \in Regs /\ Confirmable(reg[r].status)
    THEN reg' = [reg EXCEPT ![r].status = "confirmed", ![r].by = "payment"]
    ELSE reg' = reg

-----------------------------------------------------------------------------
(* verifyPayment *)

\* The signature of a checkout that succeeded, and the payments document as it
\* is now; a payment already completed is answered at once.
StartVerify(h, a) ==
    LET o == att[a].order IN
    /\ req[h].pc = "idle"
    /\ att[a].status \in {"authorized", "captured"}
    /\ pay[o].status # "none"
    /\ ~Paid(o)
    /\ req' = [req EXCEPT ![h] = [Idle EXCEPT !.pc = "fetch", !.order = o, !.attempt = a]]
    /\ UNCHANGED <<store, settling, razorpay, faults>>

FetchPaymentBug(h) ==
    LET a == req[h].attempt IN
    /\ req[h].pc = "fetch"
    /\ IF ~AmountMatches(pay[req[h].order], att[a].amount) THEN Goto(h, "mismatch")
       ELSE IF att[a].status \in {"authorized", "captured"} THEN Goto(h, "complete")
       ELSE Finish(h)
    /\ UNCHANGED <<store, settling, razorpay, faults>>

\* payments.fetch and the checks on its answer.
FetchPayment(h) ==
    LET a == req[h].attempt IN
    /\ req[h].pc = "fetch"
    /\ IF ~AmountMatches(pay[req[h].order], att[a].amount) THEN Goto(h, "mismatch")
       ELSE IF att[a].status = "authorized" THEN Goto(h, "capture")
       ELSE IF att[a].status = "captured" THEN Goto(h, "complete")
       ELSE Finish(h)
    /\ UNCHANGED <<store, settling, razorpay, faults>>

\* The mismatch is written over whatever the document holds by now.
MarkMismatch(h) ==
    LET o == req[h].order IN
    /\ req[h].pc = "mismatch"
    /\ pay' = [pay EXCEPT ![o] = Mismatched(@, req[h].attempt)]
    /\ Finish(h)
    /\ UNCHANGED <<reg, trip, settling, razorpay, faults>>

\* payments.capture; Razorpay refuses when the payment or the order moved on.
CaptureNow(h) ==
    /\ req[h].pc = "capture"
    /\ \/ CaptureAttempt(req[h].attempt) /\ Goto(h, "complete")
       \/ Finish(h) /\ UNCHANGED <<att, hooks>>
    /\ UNCHANGED <<store, settling, ord, handed, faults>>

\* The completion is written over whatever the document holds by now.
MarkCompleted(h) ==
    LET o == req[h].order IN
    /\ req[h].pc = "complete"
    /\ pay' = [pay EXCEPT ![o] = Completed(@, req[h].attempt)]
    /\ Goto(h, "seat")
    /\ UNCHANGED <<reg, trip, settling, razorpay, faults>>

VerifySeat(h) ==
    /\ req[h].pc = "seat"
    /\ ConfirmTripSeat(req[h].order)
    /\ Finish(h)
    /\ UNCHANGED <<trip, pay, settling, razorpay, faults>>

-----------------------------------------------------------------------------
(* handleWebhook *)

\* payment.captured: the transaction on the payments document.  A right amount
\* leaves the seat to confirm; every other outcome is acknowledged here.
WebhookCaptured(a) ==
    LET m == <<"captured", a>>
        o == att[a].order
    IN
    /\ m \in hooks
    /\ IF pay[o].status = "none"
       THEN Ack(m) /\ UNCHANGED <<pay, settling>>
       ELSE IF ~AmountMatches(pay[o], att[a].amount)
       THEN /\ pay' = [pay EXCEPT ![o] = Mismatched(@, a)]
            /\ Ack(m) /\ settling' = settling
       ELSE /\ pay' = [pay EXCEPT ![o] = Completed(@, a)]
            /\ settling' = settling \cup {a}
            /\ hooks' = hooks
    /\ UNCHANGED <<reg, trip, req, ord, handed, att, faults>>

\* The seat of a payment just captured, then the 200.
WebhookSeat(a) ==
    /\ a \in settling
    /\ ConfirmTripSeat(att[a].order)
    /\ settling' = settling \ {a}
    /\ Ack(<<"captured", a>>)
    /\ UNCHANGED <<trip, pay, req, ord, handed, att, faults>>

\* The seat transaction fails: the error is logged and the answer is still 200.
WebhookSeatFails(a) ==
    /\ ConfirmMayFail
    /\ a \in settling
    /\ Fault
    /\ settling' = settling \ {a}
    /\ Ack(<<"captured", a>>)
    /\ UNCHANGED <<store, req, ord, handed, att>>

\* Outcomes a failed attempt must not undo.
FailureIgnoredBug(status) == status = "amount_mismatch"
FailureIgnored(status) == Settled(status)

\* payment.failed
WebhookFailed(a) ==
    LET m == <<"failed", a>>
        o == att[a].order
    IN
    /\ m \in hooks
    /\ IF pay[o].status = "none" \/ FailureIgnored(pay[o].status)
       THEN pay' = pay
       ELSE pay' = [pay EXCEPT ![o].status = "failed", ![o].verified = FALSE]
    /\ Ack(m)
    /\ UNCHANGED <<reg, trip, req, settling, ord, handed, att, faults>>

-----------------------------------------------------------------------------
(* Failures *)

\* A call of a request rejects (Razorpay or the store): the browser gets an
\* error, what was done stays done.
RequestFails(h) ==
    /\ req[h].pc # "idle"
    /\ Fault
    /\ Finish(h)
    /\ UNCHANGED <<store, settling, razorpay>>

\* The process dies: every request in flight is lost, Razorpay will deliver
\* what it has no 200 for again.
Crash ==
    /\ Fault
    /\ req' = [h \in Reqs |-> Idle]
    /\ settling' = {}
    /\ UNCHANGED <<store, razorpay>>

-----------------------------------------------------------------------------
Client ==
    \/ \E r \in Regs : Book(r) \/ DeleteBooking(r) \/ OwnerCancel(r) \/ StaffEdits(r)
    \/ \E r \in Regs, o \in Orders : OwnerPoints(r, o)
    \/ TripEdited

Step(h) ==
    \/ CheckOwed(h) \/ CreateRzpOrder(h) \/ RecordPayment(h) \/ LinkOrder(h)
    \/ FetchPayment(h) \/ MarkMismatch(h) \/ CaptureNow(h) \/ MarkCompleted(h)
    \/ VerifySeat(h)

Handler(h) ==
    \/ \E r \in Regs : StartOrder(h, r)
    \/ StartDonation(h)
    \/ \E a \in Attempts : StartVerify(h, a)
    \/ Step(h)
    \/ RequestFails(h)

Razorpay(a) ==
    \/ \E o \in Orders : Charge(a, o)
    \/ AutoCapture(a) \/ Lapse(a)

Webhook(a) ==
    \/ WebhookCaptured(a) \/ WebhookSeat(a) \/ WebhookSeatFails(a) \/ WebhookFailed(a)

Next ==
    \/ Client
    \/ \E h \in Reqs : Handler(h)
    \/ \E a \in Attempts : Razorpay(a) \/ Webhook(a)
    \/ Crash

Spec == Init /\ [][Next]_vars

\* Node runs every handler it started, and Razorpay delivers an event until
\* it is acknowledged.
Fairness ==
    /\ \A h \in Reqs : WF_vars(Step(h))
    /\ \A a \in Attempts :
           /\ WF_vars(WebhookCaptured(a) /\ a \notin settling)
           /\ WF_vars(WebhookSeat(a) \/ WebhookSeatFails(a))
           /\ WF_vars(WebhookFailed(a))

FairSpec == Spec /\ Fairness

-----------------------------------------------------------------------------
(* Properties *)

\* Every document, request and Razorpay record has its type, and a payments
\* document always asks for a positive amount.
TypeOK ==
    /\ reg \in [Regs -> Booking]
    /\ trip \in Quotes \cup {None}
    /\ pay \in [Orders -> PaymentDoc]
    /\ req \in [Reqs -> Request]
    /\ settling \subseteq Attempts
    /\ ord \in [Orders -> RzpOrder]
    /\ handed \subseteq Orders
    /\ att \in [Attempts -> RzpAttempt]
    /\ hooks \subseteq {"captured", "failed"} \X Attempts
    /\ faults \in 0..MaxFaults
    /\ \A o \in Orders : pay[o].status # "none" => pay[o].amount > 0

\* A payment the server shows as completed was captured by Razorpay, on that
\* very order and for the order's amount, whichever of the racing verifyPayment
\* requests and webhook deliveries wrote it, and wrote over what.
CompletedIsBacked ==
    \A o \in Orders : pay[o].status = "completed" =>
        /\ pay[o].verified
        /\ \E a \in Attempts : /\ pay[o].paymentId = a
                               /\ Captured(a, o)
                               /\ att[a].amount = pay[o].amount

\* A seat confirmed by a payment (confirmedBy: "payment") was paid: some order
\* created for that registration has been captured for its full amount.
SeatIsPaid ==
    \A r \in Regs : reg[r].by = "payment" =>
        \E a \in Attempts : /\ att[a].status = "captured"
                            /\ ord[att[a].order].for = r
                            /\ att[a].amount = ord[att[a].order].amount

\* A registration only ever points at a payments document that exists and was
\* created for it, through crashes, deletions and the owner's own writes.
PointerIsOwn ==
    \A r \in Regs : reg[r].order # None =>
        /\ pay[reg[r].order].status # "none"
        /\ pay[reg[r].order].for = r

\* Nobody is charged for an order the server has no document for, so no
\* captured payment is ever answered as an unknown order.
NoOrphanCharge ==
    \A a \in Attempts : att[a].status # "none" => pay[att[a].order].status # "none"

\* "A failed attempt must never undo a captured payment on the same order"
\* (applyWebhookEvent): no step of anyone takes a settled payment back.
SettledNeverUndone ==
    [][\A o \in Orders : Settled(pay[o].status) => Settled(pay'[o].status)]_vars

\* A request records the mismatch of another attempt than the completed one.
DemotedByVerify(o) ==
    \E h \in Reqs : /\ req[h].pc = "mismatch" /\ req'[h].pc = "idle"
                    /\ req[h].order = o
                    /\ req[h].attempt # pay[o].paymentId

\* The writes of verifyPayment are not transactions, so one whose reads are
\* stale may overwrite what a webhook recorded meanwhile.  Only the mismatch of
\* another attempt does harm: webhook deliveries, however late or repeated, and
\* completions never take a completed payment back.
OnlyStaleVerifyDemotes ==
    [][\A o \in Orders : pay[o].status = "completed" /\ pay'[o].status # "completed" =>
           DemotedByVerify(o)]_vars

\* Captured money is eventually recorded: the order's document is completed or
\* flagged for the team, whatever requests crash or fail on the way.
CaptureIsRecorded ==
    \A a \in Attempts, o \in Orders : Captured(a, o) ~> Settled(pay[o].status)

\* A pending booking whose payment Razorpay has captured, for the right amount,
\* and has still to report, does not stay pending.
PaidSeatIsConfirmed ==
    \A a \in Attempts, o \in Orders, r \in Regs :
        /\ <<"captured", a>> \in hooks
        /\ Captured(a, o)
        /\ pay[o].for = r
        /\ att[a].amount = pay[o].amount
        /\ reg[r].status = "pending"
        ~> reg[r].status # "pending"

\* createOrder refuses a registration that is already paid ("This registration
\* is already paid."): no order is made for one whose payment is completed.
PaidOwesNothing ==
    [][\A h \in Reqs : req[h].pc = "check" /\ req'[h].pc = "create" =>
           ~\E o \in Orders : pay[o].for = req[h].for /\ Paid(o)]_vars

-----------------------------------------------------------------------------
(* The inductive invariant behind the safety properties *)

Purposes == Regs \cup {Donation}

\* Documents, Razorpay orders and attempts agree: a payments document restates
\* its order, an order handed to a browser has its document, and only such an
\* order is ever charged.
Issued ==
    /\ \A o \in Orders : pay[o].status # "none" =>
           /\ ord[o] = [amount |-> pay[o].amount, for |-> pay[o].for]
           /\ pay[o].for \in Purposes
    /\ \A o \in handed : pay[o].status # "none"
    /\ \A a \in Attempts : att[a].status # "none" => att[a].order \in handed

\* The attempt paid its order in full.
PaidInFull(a, o) == Captured(a, o) /\ att[a].amount = pay[o].amount

\* What a request in flight still relies on at its next step.
RequestOK(h) ==
    LET q == req[h] IN
    /\ q.pc = "check" => q.for \in Regs
    /\ q.pc = "create" => q.for \in Purposes /\ q.amount > 0
    /\ q.pc = "record" => /\ q.order \in Orders /\ q.for \in Purposes /\ q.amount > 0
                          /\ ord[q.order] = [amount |-> q.amount, for |-> q.for]
                          /\ pay[q.order].status = "none"
    /\ q.pc = "link" => /\ q.order \in Orders /\ q.for \in Purposes
                        /\ pay[q.order].status # "none"
                        /\ pay[q.order].for = q.for
    /\ q.pc \in {"fetch", "mismatch", "capture", "complete", "seat"} =>
           /\ q.order \in Orders /\ q.attempt \in Attempts
           /\ att[q.attempt].order = q.order
           /\ att[q.attempt].status # "none"
    /\ q.pc = "capture" => att[q.attempt].amount = pay[q.order].amount
    /\ q.pc \in {"complete", "seat"} => PaidInFull(q.attempt, q.order)

\* Two requests never hold the same new order.
OneRecorder ==
    \A g, h \in Reqs : /\ req[g].pc = "record" /\ req[h].pc = "record"
                       /\ req[g].order = req[h].order
                       => g = h

\* Webhooks report what happened; a seat being settled has its payment.
WebhooksOK ==
    /\ \A a \in Attempts :
           /\ <<"captured", a>> \in hooks => att[a].status = "captured"
           /\ <<"failed", a>> \in hooks => att[a].status = "failed"
    /\ \A a \in settling : /\ att[a].order \in Orders
                           /\ PaidInFull(a, att[a].order)

IInv ==
    /\ TypeOK
    /\ Issued
    /\ \A h \in Reqs : RequestOK(h)
    /\ OneRecorder
    /\ WebhooksOK
    /\ CompletedIsBacked
    /\ SeatIsPaid
    /\ PointerIsOwn
=============================================================================
