--------------------------- MODULE MCTripCapacity ---------------------------
(* An instance for TLC of TripCapacity, and beside it one of TripPayments,    *)
(* about what is to happen in the end: a behaviour is one of one of them      *)
(* while the other stands still.                                              *)
EXTENDS TripCapacity, TLC

CONSTANTS r1, r2, r3, r4, t1, t2

\* Two bookings on each of two trips: of two seats, of one, and a legacy one
\* whose seats are not recorded.
MCTripOf == (r1 :> t1) @@ (r2 :> t2) @@ (r3 :> t1) @@ (r4 :> t2)
MCSeatsOf == (r1 :> 2) @@ (r2 :> 1) @@ (r3 :> None) @@ (r4 :> 1)

Write(docs, values) == {<<[doc |-> d, to |-> v]>> : d \in docs, v \in values}

\* Staff write two bookings of different trips in one commit, which may share
\* their bookings or only their trips; members and staff write one; a trip is
\* deleted, the other edited.
Pair(a, b, v) == <<[doc |-> a, to |-> v], [doc |-> b, to |-> v]>>
MCCommits ==
    {Pair(r1, r2, "pending"), Pair(r2, r1, "pending"), Pair(r1, r2, "cancelled"), Pair(r4, r3, "pending")}
    \cup Write({r3}, {"confirmed", "waitlisted"})
    \cup Write({t1}, {None}) \cup Write({t2}, {1})

-----------------------------------------------------------------------------
CONSTANTS PaidBookings, Orders, Attempts, Reqs, Donation, Donations, OddAmounts, MaxOrder, MaxFaults,
    ConfirmMayFail

VARIABLES part, reg, trip, pay, req, settling, ord, handed, att, hooks, faults

\* Bookings of two seats for a single price, that never changes.
Paid == INSTANCE TripPayments WITH
    Regs <- PaidBookings, SeatsOf <- [r \in PaidBookings |-> 2],
    Quotes <- {[price |-> 1, advance |-> 0, online |-> TRUE]}

paidVars == <<reg, trip, pay, req, settling, ord, handed, att, hooks, faults>>

\* At first the trips exist, t1 unlimited or with two seats; no commit creates a
\* trip. Of the part that stands still, one state is enough.
MCInit ==
    /\ part \in {"seats", "payments"}
    /\ Paid!Init
    /\ Init /\ cap[t1] \in {0, 2} /\ cap[t2] = 2 /\ booking[r4] = booking[r3]
    /\ part = "payments" => cap[t1] = 0 /\ \A r \in Regs : booking[r] = "none"

MCNext ==
    \/ part = "seats" /\ Next /\ UNCHANGED <<part, paidVars>>
    \/ part = "payments" /\ Paid!Next /\ UNCHANGED <<part, vars>>

\* That of both.
MCFairness ==
    /\ Fairness
    /\ \A h \in Reqs : WF_paidVars(part = "payments" /\ Paid!Step(h))
    /\ \A a \in Attempts :
           /\ WF_paidVars(part = "payments" /\ Paid!WebhookCaptured(a) /\ a \notin settling)
           /\ WF_paidVars(part = "payments" /\ (Paid!WebhookSeat(a) \/ Paid!WebhookSeatFails(a)))
           /\ WF_paidVars(part = "payments" /\ Paid!WebhookFailed(a))

MCSpec == MCInit /\ [][MCNext]_<<part, vars, paidVars>> /\ MCFairness

\* A booking points at a payments document that exists and was created for it
\* (createRazorpayOrder).
PointerIsOwn == Paid!PointerIsOwn

\* Money Razorpay captured is recorded by the server (verifyPayment, the webhook).
CaptureIsRecorded == Paid!CaptureIsRecorded

\* A payment recorded for a pending booking confirms it, or the booking leaves that
\* state otherwise (confirmTripSeat).
PaidSeatIsConfirmed == Paid!PaidSeatIsConfirmed
=============================================================================
