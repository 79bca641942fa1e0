------------------------ MODULE TripPayments_proofs ------------------------
(***************************************************************************)
(* Proofs about TripPayments, for any registrations, orders, requests and  *)
(* prices and any number of faults.  Stable says what no step ever takes   *)
(* back; each part of IInv is kept by a step that is Stable and leaves     *)
(* that part's own documents alone (the ...Kept lemmas), so each action's  *)
(* lemma argues only about the documents it writes.                        *)
(***************************************************************************)
EXTENDS TripPayments, TLAPS

USE IdsAssumption, AmountsAssumption

-----------------------------------------------------------------------------
(* Values *)

LEMMA CompletedDoc ==
    ASSUME NEW d \in PaymentDoc, NEW a \in Attempts
    PROVE  /\ Completed(d, a) \in PaymentDoc
           /\ Completed(d, a).status = "completed"
           /\ Completed(d, a).verified
           /\ Completed(d, a).paymentId = a
           /\ Completed(d, a).amount = d.amount
           /\ Completed(d, a).for = d.for
    BY DEF Completed, PaymentDoc

LEMMA MismatchedDoc ==
    ASSUME NEW d \in PaymentDoc, NEW a \in Attempts
    PROVE  /\ Mismatched(d, a) \in PaymentDoc
           /\ Mismatched(d, a).status = "amount_mismatch"
           /\ Mismatched(d, a).amount = d.amount
           /\ Mismatched(d, a).for = d.for
    BY DEF Mismatched, PaymentDoc

LEMMA FailedDoc ==
    ASSUME NEW d \in PaymentDoc
    PROVE  LET f == [d EXCEPT !.status = "failed", !.verified = FALSE] IN
           /\ f \in PaymentDoc
           /\ f.status = "failed"
           /\ f.amount = d.amount
           /\ f.for = d.for
    BY DEF PaymentDoc

LEMMA PendingDoc ==
    ASSUME NEW amount \in Nat, NEW for \in Purposes
    PROVE  /\ PendingFor(amount, for) \in PaymentDoc
           /\ PendingFor(amount, for).status = "pending"
           /\ PendingFor(amount, for).amount = amount
           /\ PendingFor(amount, for).for = for
    BY DEF PaymentDoc, NoPayment, PendingFor, Purposes

LEMMA IdleRequest == Idle \in Request /\ Idle.pc = "idle"
    BY DEF Idle, Request

Pcs == {"idle", "check", "create", "record", "link",
        "fetch", "mismatch", "capture", "complete", "seat"}

\* A request that only moves on keeps what it remembers.
LEMMA MovedRequest ==
    ASSUME NEW q \in Request, NEW to \in Pcs
    PROVE  LET m == [q EXCEPT !.pc = to] IN
           /\ m \in Request
           /\ m.pc = to
           /\ m.for = q.for /\ m.order = q.order
           /\ m.attempt = q.attempt /\ m.amount = q.amount
    BY DEF Request, Pcs

LEMMA RequestFields ==
    ASSUME NEW q \in Request
    PROVE  /\ q.pc \in Pcs
           /\ q.for \in Regs \cup {Donation, None}
           /\ q.order \in Orders \cup {None}
           /\ q.attempt \in Attempts \cup {None}
           /\ q.amount \in Nat
    BY DEF Request, Pcs

LEMMA AttemptFields ==
    ASSUME NEW t \in RzpAttempt
    PROVE  /\ t.status \in {"none", "authorized", "captured", "failed", "refunded"}
           /\ t.order \in Orders \cup {None}
           /\ t.amount \in Nat
    BY DEF RzpAttempt

LEMMA ConfirmedBooking ==
    ASSUME NEW b \in Booking
    PROVE  LET c == [b EXCEPT !.status = "confirmed", !.by = "payment"] IN
           /\ c \in Booking
           /\ c.order = b.order
    BY DEF Booking, HeldOrNot

LEMMA EditedBooking ==
    ASSUME NEW b \in Booking, NEW s \in HeldOrNot, NEW cash \in BOOLEAN
    PROVE  LET c == [b EXCEPT !.status = s, !.cash = cash] IN
           /\ c \in Booking
           /\ c.by = b.by
           /\ c.order = b.order
    BY DEF Booking

LEMMA PayNowNat == \A q \in Quotes, r \in Regs : PayNow(q, SeatsOf[r]) \in Nat
<1> SUFFICES ASSUME NEW q \in Quotes, NEW r \in Regs
             PROVE  PayNow(q, SeatsOf[r]) \in Nat
    OBVIOUS
<1>1. q.price \in Nat /\ q.advance \in Nat /\ SeatsOf[r] \in Nat
    OBVIOUS
<1>2. q.price * SeatsOf[r] \in Nat /\ q.advance * SeatsOf[r] \in Nat
    BY <1>1
<1>3. QED
    BY <1>2 DEF PayNow, Lesser

-----------------------------------------------------------------------------
(* What no step takes back *)

Stable ==
    /\ \A o \in Orders : pay[o].status # "none" =>
           /\ pay'[o].status # "none"
           /\ pay'[o].for = pay[o].for
           /\ pay'[o].amount = pay[o].amount
    /\ \A o \in Orders : ord[o] # NoOrder => ord'[o] = ord[o]
    /\ handed \subseteq handed'
    /\ \A a \in Attempts : att[a].status # "none" =>
           /\ att'[a].status # "none"
           /\ att'[a].order = att[a].order
           /\ att'[a].amount = att[a].amount
    /\ \A a \in Attempts :
           att[a].status \in {"captured", "failed"} => att'[a].status = att[a].status

LEMMA IssuedFacts ==
    ASSUME TypeOK, Issued
    PROVE  /\ \A o \in Orders : pay[o].status # "none" => ord[o] # NoOrder
           /\ \A o \in Orders : pay[o].status # "none" =>
                  ord[o].amount = pay[o].amount /\ ord[o].for = pay[o].for
           /\ \A a \in Attempts : att[a].status # "none" =>
                  /\ att[a].order \in Orders
                  /\ pay[att[a].order].status # "none"
<1>1. \A o \in Orders : pay[o].status # "none" => pay[o].amount > 0
    BY DEF TypeOK
<1>2. NoOrder.amount = 0
    BY DEF NoOrder
<1>3. QED
    BY <1>1, <1>2 DEF TypeOK, Issued

LEMMA IssuedKept ==
    ASSUME TypeOK, Issued, Stable,
           \A o \in Orders : pay[o].status = "none" => pay'[o].status = "none",
           handed' = handed,
           \A a \in Attempts : att[a].status = "none" => att'[a].status = "none"
    PROVE  Issued'
<1>1. \A o \in Orders : pay[o].status # "none" => ord'[o] = ord[o]
    BY IssuedFacts DEF Stable
<1>2. QED
    BY <1>1 DEF TypeOK, Issued, Stable, Purposes

LEMMA RequestKept ==
    ASSUME TypeOK, Issued, Stable,
           NEW h \in Reqs, RequestOK(h), req'[h] = req[h],
           req[h].pc = "record" => pay'[req[h].order].status = "none"
    PROVE  RequestOK(h)'
<1>1. req[h].pc = "record" => ord'[req[h].order] = ord[req[h].order]
    <2> SUFFICES ASSUME req[h].pc = "record"
                 PROVE  ord'[req[h].order] = ord[req[h].order]
        OBVIOUS
    <2>1. /\ req[h].order \in Orders /\ req[h].amount > 0
          /\ ord[req[h].order].amount = req[h].amount
        BY DEF RequestOK
    <2>2. ord[req[h].order] # NoOrder
        BY <2>1 DEF NoOrder
    <2>3. QED
        BY <2>1, <2>2 DEF Stable
<1>2. req[h].pc \in {"fetch", "mismatch", "capture", "complete", "seat"} =>
          /\ pay[req[h].order].status # "none"
          /\ pay'[req[h].order].amount = pay[req[h].order].amount
    BY IssuedFacts DEF RequestOK, Stable
<1>3. QED
    BY <1>1, <1>2 DEF RequestOK, Stable, PaidInFull, Captured, Purposes

LEMMA IdleKept ==
    ASSUME NEW h \in Reqs, req'[h] = Idle
    PROVE  RequestOK(h)'
    BY DEF RequestOK, Idle

LEMMA RecorderKept ==
    ASSUME OneRecorder,
           \A h \in Reqs : req'[h].pc = "record" =>
               req[h].pc = "record" /\ req'[h].order = req[h].order
    PROVE  OneRecorder'
    BY DEF OneRecorder

LEMMA WebhooksKept ==
    ASSUME TypeOK, Issued, Stable, WebhooksOK,
           hooks' \subseteq hooks, settling' \subseteq settling
    PROVE  WebhooksOK'
<1>1. \A a \in settling : att[a].status = "captured" /\ a \in Attempts
    BY DEF WebhooksOK, PaidInFull, Captured, TypeOK
<1>2. \A a \in settling : /\ att[a].order \in Orders
                          /\ pay[att[a].order].status # "none"
    BY <1>1, IssuedFacts
<1>3. \A a \in settling : /\ att'[a].status = "captured"
                          /\ att'[a].order = att[a].order
                          /\ att'[a].amount = att[a].amount
                          /\ pay'[att[a].order].amount = pay[att[a].order].amount
    BY <1>1, <1>2 DEF Stable
<1>4. QED
    BY <1>2, <1>3 DEF WebhooksOK, PaidInFull, Captured, Stable, TypeOK

LEMMA CompletedKept ==
    ASSUME TypeOK, Issued, Stable, CompletedIsBacked,
           \A o \in Orders : pay'[o].status = "completed" => pay'[o] = pay[o]
    PROVE  CompletedIsBacked'
    BY DEF CompletedIsBacked, Stable, Captured

LEMMA SeatKept ==
    ASSUME TypeOK, Issued, Stable, SeatIsPaid,
           \A r \in Regs : reg'[r].by = "payment" => reg[r].by = "payment"
    PROVE  SeatIsPaid'
<1>1. \A a \in Attempts : att[a].status = "captured" =>
          /\ att[a].order \in Orders
          /\ ord'[att[a].order] = ord[att[a].order]
          /\ att'[a].status = "captured" /\ att'[a].order = att[a].order
          /\ att'[a].amount = att[a].amount
    BY IssuedFacts DEF Stable
<1>2. QED
    BY <1>1 DEF SeatIsPaid

LEMMA PointerKept ==
    ASSUME TypeOK, Stable, PointerIsOwn,
           \A r \in Regs : reg'[r].order \in {None, reg[r].order}
    PROVE  PointerIsOwn'
<1> SUFFICES ASSUME NEW r \in Regs, reg'[r].order # None
             PROVE  /\ pay'[reg'[r].order].status # "none"
                    /\ pay'[reg'[r].order].for = r
    BY DEF PointerIsOwn
<1>1. reg'[r].order = reg[r].order /\ reg[r].order \in Orders
    BY DEF TypeOK, Booking
<1>2. QED
    BY <1>1 DEF PointerIsOwn, Stable

-----------------------------------------------------------------------------
(* Steps that write only documents of trip_registrations and trips *)

LEMMA InitInv == Init => IInv
<1> SUFFICES ASSUME Init PROVE IInv
    OBVIOUS
<1> USE DEF Init
<1>1. NoBooking \in Booking /\ NoPayment \in PaymentDoc /\ NoAttempt \in RzpAttempt
    BY DEF NoBooking, Booking, NoPayment, PaymentDoc, NoAttempt, RzpAttempt
<1>2. NoOrder \in RzpOrder
    BY DEF NoOrder, RzpOrder
<1>3. /\ NoPayment.status = "none" /\ NoAttempt.status = "none"
      /\ NoBooking.by = "none" /\ NoBooking.order = None
    BY DEF NoBooking, NoPayment, NoAttempt
<1>4. TypeOK
    BY <1>1, <1>2, <1>3, IdleRequest DEF TypeOK
<1>5. Issued /\ WebhooksOK
    BY <1>3 DEF Issued, WebhooksOK
<1>6. (\A h \in Reqs : RequestOK(h)) /\ OneRecorder
    BY DEF RequestOK, OneRecorder, Idle
<1>7. CompletedIsBacked /\ SeatIsPaid /\ PointerIsOwn
    BY <1>3 DEF CompletedIsBacked, SeatIsPaid, PointerIsOwn
<1>8. QED
    BY <1>4, <1>5, <1>6, <1>7 DEF IInv

\* A step that leaves payments and Razorpay alone is Stable.
LEMMA StableUnchanged ==
    ASSUME TypeOK, UNCHANGED <<pay, ord, handed, att>>
    PROVE  Stable
    BY DEF Stable

LEMMA BookingStep ==
    ASSUME IInv, UNCHANGED <<trip, pay, req, settling, razorpay, faults>>,
           reg' \in [Regs -> Booking],
           \A r \in Regs : reg'[r].by = "payment" => reg[r].by = "payment",
           PointerIsOwn'
    PROVE  IInv'
<1> USE DEF razorpay
<1>1. TypeOK'
    BY DEF IInv, TypeOK
<1>2. Stable
    BY StableUnchanged DEF IInv
<1>3. Issued' /\ WebhooksOK' /\ CompletedIsBacked'
    BY <1>2, IssuedKept, WebhooksKept, CompletedKept DEF IInv
<1>4. \A h \in Reqs : RequestOK(h)'
    BY <1>2, RequestKept DEF IInv, RequestOK
<1>5. OneRecorder'
    BY DEF IInv, OneRecorder
<1>6. SeatIsPaid'
    BY <1>2, SeatKept DEF IInv
<1>7. QED
    BY <1>1, <1>3, <1>4, <1>5, <1>6 DEF IInv

LEMMA BookInv == ASSUME IInv, NEW r \in Regs, Book(r) PROVE IInv'
<1> DEFINE b == [NoBooking EXCEPT !.status = "pending"]
<1>1. b \in Booking /\ b.by = "none" /\ b.order = None
    BY DEF NoBooking, Booking, HeldOrNot
<1>2. reg' \in [Regs -> Booking]
    BY <1>1 DEF IInv, TypeOK, Book
<1>3. \A q \in Regs : reg'[q] = reg[q] \/ reg'[q] = b
    BY DEF IInv, TypeOK, Book
<1>4. PointerIsOwn'
    BY <1>1, <1>3, PointerKept, StableUnchanged DEF IInv, Book, razorpay
<1>5. QED
    BY <1>1, <1>2, <1>3, <1>4, BookingStep DEF Book

LEMMA DeleteBookingInv == ASSUME IInv, NEW r \in Regs, DeleteBooking(r) PROVE IInv'
<1> DEFINE b == [NoBooking EXCEPT !.status = "deleted"]
<1>1. b \in Booking /\ b.by = "none" /\ b.order = None
    BY DEF NoBooking, Booking
<1>2. reg' \in [Regs -> Booking]
    BY <1>1 DEF IInv, TypeOK, DeleteBooking
<1>3. \A q \in Regs : reg'[q] = reg[q] \/ reg'[q] = b
    BY DEF IInv, TypeOK, DeleteBooking
<1>4. PointerIsOwn'
    BY <1>1, <1>3, PointerKept, StableUnchanged DEF IInv, DeleteBooking, razorpay
<1>5. QED
    BY <1>1, <1>2, <1>3, <1>4, BookingStep DEF DeleteBooking

LEMMA OwnerCancelInv == ASSUME IInv, NEW r \in Regs, OwnerCancel(r) PROVE IInv'
<1> DEFINE b == [reg[r] EXCEPT !.status = "cancelled"]
<1>1. b \in Booking /\ b.by = reg[r].by /\ b.order = reg[r].order
    BY DEF IInv, TypeOK, Booking, HeldOrNot
<1>2. reg' = [reg EXCEPT ![r] = b]
    BY DEF OwnerCancel
<1>3. reg' \in [Regs -> Booking]
    BY <1>1, <1>2 DEF IInv, TypeOK
<1>4. \A q \in Regs : reg'[q] = reg[q] \/ (q = r /\ reg'[q] = b)
    BY <1>2 DEF IInv, TypeOK
<1>5. PointerIsOwn'
    BY <1>1, <1>4, PointerKept, StableUnchanged DEF IInv, OwnerCancel, razorpay
<1>6. QED
    BY <1>1, <1>3, <1>4, <1>5, BookingStep DEF OwnerCancel

LEMMA StaffEditsInv == ASSUME IInv, NEW r \in Regs, StaffEdits(r) PROVE IInv'
<1>0. PICK s \in HeldOrNot, cash \in BOOLEAN :
          reg' = [reg EXCEPT ![r].status = s, ![r].cash = cash]
    BY DEF StaffEdits
<1> DEFINE b == [reg[r] EXCEPT !.status = s, !.cash = cash]
<1>1. b \in Booking /\ b.by = reg[r].by /\ b.order = reg[r].order
    BY ZenonT(40), EditedBooking DEF IInv, TypeOK
<1>2. reg' = [reg EXCEPT ![r] = b]
    BY <1>0 DEF IInv, TypeOK
<1>3. reg' \in [Regs -> Booking]
    BY <1>1, <1>2 DEF IInv, TypeOK
<1>4. \A q \in Regs : reg'[q] = reg[q] \/ (q = r /\ reg'[q] = b)
    BY <1>2 DEF IInv, TypeOK
<1>5. PointerIsOwn'
    BY <1>1, <1>4, PointerKept, StableUnchanged DEF IInv, StaffEdits, razorpay
<1>6. QED
    BY <1>1, <1>3, <1>4, <1>5, BookingStep DEF StaffEdits

LEMMA OwnerPointsInv ==
    ASSUME IInv, NEW r \in Regs, NEW o \in Orders, OwnerPoints(r, o) PROVE IInv'
<1> DEFINE b == [reg[r] EXCEPT !.order = o]
<1>1. b \in Booking /\ b.by = reg[r].by /\ b.order = o
    BY DEF IInv, TypeOK, Booking
<1>2. reg' = [reg EXCEPT ![r] = b]
    BY DEF OwnerPoints
<1>3. reg' \in [Regs -> Booking]
    BY <1>1, <1>2 DEF IInv, TypeOK
<1>4. \A q \in Regs : reg'[q] = reg[q] \/ (q = r /\ reg'[q] = b)
    BY <1>2 DEF IInv, TypeOK
<1>5. PointerIsOwn'
    BY <1>1, <1>4 DEF IInv, PointerIsOwn, OwnerPoints, OwnOrder
<1>6. QED
    BY <1>1, <1>3, <1>4, <1>5, BookingStep DEF OwnerPoints

LEMMA TripEditedInv == ASSUME IInv, TripEdited PROVE IInv'
<1> USE DEF TripEdited, razorpay
<1>1. TypeOK' /\ Stable
    BY StableUnchanged DEF IInv, TypeOK
<1>2. Issued' /\ WebhooksOK' /\ CompletedIsBacked' /\ SeatIsPaid' /\ PointerIsOwn'
    BY <1>1, IssuedKept, WebhooksKept, CompletedKept
       DEF IInv, SeatIsPaid, PointerIsOwn
<1>3. (\A h \in Reqs : RequestOK(h)') /\ OneRecorder'
    BY <1>1, RequestKept DEF IInv, RequestOK, OneRecorder
<1>4. QED
    BY <1>1, <1>2, <1>3 DEF IInv

-----------------------------------------------------------------------------
(* Steps that write only a request *)

LEMMA RequestStep ==
    ASSUME IInv, NEW h \in Reqs, NEW q \in Request,
           UNCHANGED <<store, settling, razorpay>>, faults' \in 0..MaxFaults,
           req' = [req EXCEPT ![h] = q],
           q.pc # "record", RequestOK(h)'
    PROVE  IInv'
<1> USE DEF store, razorpay
<1>1. /\ req' \in [Reqs -> Request]
      /\ req'[h] = q
      /\ \A g \in Reqs : g # h => req'[g] = req[g]
    BY DEF IInv, TypeOK
<1>2. TypeOK' /\ Stable
    BY <1>1, StableUnchanged DEF IInv, TypeOK
<1>3. Issued' /\ WebhooksOK' /\ CompletedIsBacked' /\ SeatIsPaid' /\ PointerIsOwn'
    BY <1>2, IssuedKept, WebhooksKept, CompletedKept
       DEF IInv, SeatIsPaid, PointerIsOwn
<1>4. \A g \in Reqs : RequestOK(g)'
    BY <1>1, <1>2, RequestKept DEF IInv, RequestOK
<1>5. OneRecorder'
    BY <1>1, RecorderKept DEF IInv
<1>6. QED
    BY <1>2, <1>3, <1>4, <1>5 DEF IInv

\* A request that ends remembers nothing.
LEMMA FinishStep ==
    ASSUME IInv, NEW h \in Reqs, Finish(h),
           UNCHANGED <<store, settling, razorpay>>, faults' \in 0..MaxFaults
    PROVE  IInv'
<1>1. req' = [req EXCEPT ![h] = Idle] /\ req'[h] = Idle
    BY DEF IInv, TypeOK, Finish
<1>2. QED
    BY <1>1, IdleRequest, IdleKept, RequestStep DEF Idle

LEMMA StartOrderInv ==
    ASSUME IInv, NEW h \in Reqs, NEW r \in Regs, StartOrder(h, r) PROVE IInv'
<1> DEFINE q == [Idle EXCEPT !.pc = "check", !.for = r, !.order = reg[r].order]
<1>1. reg[r].order \in Orders \cup {None}
    BY DEF IInv, TypeOK, Booking
<1>2. q \in Request /\ q.pc = "check" /\ q.for = r
    BY <1>1 DEF Idle, Request
<1>3. req' = [req EXCEPT ![h] = q] /\ req'[h] = q
    BY DEF StartOrder, IInv, TypeOK
<1>4. RequestOK(h)'
    BY <1>2, <1>3 DEF RequestOK
<1>5. QED
    BY <1>2, <1>3, <1>4, RequestStep DEF StartOrder, IInv, TypeOK

LEMMA StartDonationInv ==
    ASSUME IInv, NEW h \in Reqs, StartDonation(h) PROVE IInv'
<1>0. PICK amount \in Donations :
          req' = [req EXCEPT ![h] = [Idle EXCEPT !.pc = "create", !.for = Donation,
                                                 !.amount = amount]]
    BY DEF StartDonation
<1> DEFINE q == [Idle EXCEPT !.pc = "create", !.for = Donation, !.amount = amount]
<1>0a. amount \in Nat /\ amount > 0
    OBVIOUS
<1>1. q \in Request /\ q.pc = "create" /\ q.for = Donation /\ q.amount > 0
    BY <1>0a DEF Idle, Request
<1>2. req' = [req EXCEPT ![h] = q] /\ req'[h] = q
    BY <1>0 DEF IInv, TypeOK
<1>3. RequestOK(h)'
    BY <1>1, <1>2 DEF RequestOK, Purposes
<1>4. QED
    BY <1>1, <1>2, <1>3, RequestStep DEF StartDonation, IInv, TypeOK

LEMMA CheckOwedInv == ASSUME IInv, NEW h \in Reqs, CheckOwed(h) PROVE IInv'
<1> DEFINE r == req[h].for
           amount == PayNow(trip, SeatsOf[r])
           q == [req[h] EXCEPT !.pc = "create", !.order = None, !.amount = amount]
<1>1. UNCHANGED <<store, settling, razorpay>> /\ faults' \in 0..MaxFaults
    BY DEF CheckOwed, IInv, TypeOK
<1>2. CASE Finish(h)
    BY <1>1, <1>2, FinishStep
<1>3. CASE /\ req' = [req EXCEPT ![h].pc = "create", ![h].order = None, ![h].amount = amount]
           /\ trip # None /\ Payable(amount)
    <2>1. r \in Regs /\ req[h] \in Request /\ trip \in Quotes
        BY <1>3 DEF CheckOwed, IInv, RequestOK, TypeOK
    <2>2. amount \in Nat /\ amount > 0
        BY <1>3, <2>1, PayNowNat DEF Payable
    <2>3. q \in Request /\ q.pc = "create" /\ q.for = r /\ q.amount = amount
        BY <2>1, <2>2 DEF Request
    <2>4. req' = [req EXCEPT ![h] = q] /\ req'[h] = q
        BY <1>3 DEF IInv, TypeOK
    <2>5. RequestOK(h)'
        BY <2>1, <2>2, <2>3, <2>4 DEF RequestOK, Purposes
    <2>6. QED
        BY <1>1, <2>3, <2>4, <2>5, RequestStep
<1>4. QED
    BY <1>2, <1>3 DEF CheckOwed

LEMMA StartVerifyInv ==
    ASSUME IInv, NEW h \in Reqs, NEW a \in Attempts, StartVerify(h, a) PROVE IInv'
<1> DEFINE o == att[a].order
           q == [Idle EXCEPT !.pc = "fetch", !.order = o, !.attempt = a]
<1>1. o \in Orders /\ att[a].status # "none"
    BY IssuedFacts DEF StartVerify, IInv
<1>2. q \in Request /\ q.pc = "fetch" /\ q.order = o /\ q.attempt = a
    BY <1>1 DEF Idle, Request
<1>3. req' = [req EXCEPT ![h] = q] /\ req'[h] = q /\ att' = att
    BY DEF StartVerify, IInv, TypeOK, razorpay
<1>4. RequestOK(h)'
    BY <1>1, <1>2, <1>3 DEF RequestOK
<1>5. QED
    BY <1>2, <1>3, <1>4, RequestStep DEF StartVerify, IInv, TypeOK

LEMMA FetchPaymentInv == ASSUME IInv, NEW h \in Reqs, FetchPayment(h) PROVE IInv'
<1> DEFINE a == req[h].attempt
           o == req[h].order
<1>1. UNCHANGED <<store, settling, razorpay>> /\ faults' \in 0..MaxFaults
    BY DEF FetchPayment, IInv, TypeOK
<1>2. CASE Finish(h)
    BY <1>1, <1>2, FinishStep
<1>3. ASSUME NEW to \in {"mismatch", "capture", "complete"}, Goto(h, to),
             to # "mismatch" => att[a].amount = pay[o].amount,
             to = "complete" => att[a].status = "captured"
      PROVE  IInv'
    <2> DEFINE q == [req[h] EXCEPT !.pc = to]
    <2>1. /\ o \in Orders /\ a \in Attempts /\ att[a].order = o
          /\ att[a].status # "none"
        BY DEF FetchPayment, IInv, RequestOK
    <2>2. req[h] \in Request /\ to \in Pcs
        BY DEF IInv, TypeOK, Pcs
    <2>3. q \in Request /\ q.pc = to /\ q.order = o /\ q.attempt = a
        BY <2>2, MovedRequest
    <2>4. req' = [req EXCEPT ![h] = q] /\ req'[h] = q /\ att' = att /\ pay' = pay
        BY <1>1, <1>3 DEF Goto, IInv, TypeOK, razorpay, store
    <2>5. RequestOK(h)'
        BY <1>3, <2>1, <2>3, <2>4 DEF RequestOK, PaidInFull, Captured
    <2>6. QED
        BY <1>1, <2>3, <2>4, <2>5, RequestStep
<1>4. QED
    BY <1>2, <1>3 DEF FetchPayment, AmountMatches

LEMMA RequestFailsInv == ASSUME IInv, NEW h \in Reqs, RequestFails(h) PROVE IInv'
<1>1. faults' \in 0..MaxFaults
    BY DEF RequestFails, Fault, IInv, TypeOK
<1>2. QED
    BY <1>1, FinishStep DEF RequestFails

-----------------------------------------------------------------------------
(* Steps of createOrder that write *)

LEMMA CreateRzpOrderInv == ASSUME IInv, NEW h \in Reqs, CreateRzpOrder(h) PROVE IInv'
<1>0. PICK o \in Orders :
          /\ ord[o] = NoOrder
          /\ ord' = [ord EXCEPT ![o] = [amount |-> req[h].amount, for |-> req[h].for]]
          /\ req' = [req EXCEPT ![h].pc = "record", ![h].order = o]
    BY DEF CreateRzpOrder
<1> DEFINE q == [req[h] EXCEPT !.pc = "record", !.order = o]
           n == [amount |-> req[h].amount, for |-> req[h].for]
<1>1. /\ UNCHANGED <<store, settling, handed, att, hooks, faults>>
      /\ UNCHANGED <<reg, trip, pay>>
    BY DEF CreateRzpOrder, store
<1>2. /\ req[h].for \in Purposes /\ req[h].amount > 0 /\ req[h].amount \in Nat
      /\ req[h] \in Request
    BY RequestFields DEF CreateRzpOrder, IInv, RequestOK, TypeOK
<1>3. /\ q \in Request /\ q.pc = "record" /\ q.order = o
      /\ q.for = req[h].for /\ q.amount = req[h].amount
    BY <1>2 DEF Request
<1>4. /\ req' \in [Reqs -> Request] /\ req'[h] = q
      /\ \A g \in Reqs : g # h => req'[g] = req[g]
    BY <1>0, <1>3 DEF IInv, TypeOK
<1>5. n \in RzpOrder
    BY <1>2 DEF RzpOrder, Purposes
<1>6. /\ ord' \in [Orders -> RzpOrder] /\ ord'[o] = n
      /\ \A p \in Orders : p # o => ord'[p] = ord[p]
    BY <1>0, <1>5 DEF IInv, TypeOK
<1>7. TypeOK' /\ Stable
    BY <1>0, <1>1, <1>4, <1>6 DEF IInv, TypeOK, Stable
<1>8. Issued' /\ WebhooksOK' /\ CompletedIsBacked' /\ SeatIsPaid' /\ PointerIsOwn'
    BY <1>1, <1>7, IssuedKept, WebhooksKept, CompletedKept, SeatKept
       DEF IInv, PointerIsOwn
<1>9. pay[o].status = "none"
    BY <1>0, IssuedFacts DEF IInv
<1>10. RequestOK(h)'
    BY <1>1, <1>2, <1>3, <1>4, <1>6, <1>9 DEF RequestOK, Purposes
<1>11. \A g \in Reqs : RequestOK(g)'
    BY <1>1, <1>4, <1>7, <1>10, RequestKept DEF IInv, RequestOK
<1>12. \A g \in Reqs : req[g].pc = "record" => req[g].order # o
    <2> SUFFICES ASSUME NEW g \in Reqs, req[g].pc = "record", req[g].order = o
                 PROVE  FALSE
        OBVIOUS
    <2>1. /\ ord[req[g].order] = [amount |-> req[g].amount, for |-> req[g].for]
          /\ req[g].amount > 0
        BY DEF IInv, RequestOK
    <2>2. ord[o].amount > 0
        BY <2>1
    <2>3. QED
        BY <1>0, <2>2 DEF NoOrder
<1>13. OneRecorder'
    BY ZenonT(40), <1>3, <1>4, <1>12 DEF IInv, OneRecorder
<1>14. QED
    BY <1>7, <1>8, <1>11, <1>13 DEF IInv

LEMMA RecordPaymentInv == ASSUME IInv, NEW h \in Reqs, RecordPayment(h) PROVE IInv'
<1> DEFINE o == req[h].order
           q == [req[h] EXCEPT !.pc = "link"]
           d == PendingFor(req[h].amount, req[h].for)
<1>1. /\ UNCHANGED <<reg, trip, settling, faults>>
      /\ UNCHANGED <<ord, handed, att, hooks>>
    BY DEF RecordPayment, razorpay
<1>2. /\ o \in Orders /\ req[h].for \in Purposes
      /\ req[h].amount > 0 /\ req[h].amount \in Nat /\ req[h] \in Request
      /\ ord[o] = [amount |-> req[h].amount, for |-> req[h].for]
      /\ pay[o].status = "none"
    BY RequestFields DEF RecordPayment, IInv, RequestOK, TypeOK
<1>3. q \in Request /\ q.pc = "link" /\ q.order = o /\ q.for = req[h].for
    BY <1>2, MovedRequest DEF Pcs
<1>4. /\ req' \in [Reqs -> Request] /\ req'[h] = q
      /\ \A g \in Reqs : g # h => req'[g] = req[g]
    BY <1>3 DEF RecordPayment, Goto, IInv, TypeOK
<1>5. /\ d \in PaymentDoc /\ d.status = "pending"
      /\ d.amount = req[h].amount /\ d.for = req[h].for
    BY <1>2, PendingDoc
<1>6. /\ pay' \in [Orders -> PaymentDoc] /\ pay'[o] = d
      /\ \A p \in Orders : p # o => pay'[p] = pay[p]
    BY <1>2, <1>5 DEF RecordPayment, IInv, TypeOK
<1>7. TypeOK'
    BY <1>1, <1>2, <1>4, <1>5, <1>6 DEF IInv, TypeOK
<1>8. Stable
    BY <1>1, <1>2, <1>6 DEF Stable
<1>9. Issued'
    <2>1. \A p \in Orders : pay'[p].status # "none" =>
              /\ ord'[p] = [amount |-> pay'[p].amount, for |-> pay'[p].for]
              /\ pay'[p].for \in Purposes
        BY <1>1, <1>2, <1>5, <1>6 DEF IInv, Issued
    <2>2. \A p \in Orders : pay[p].status # "none" => pay'[p].status # "none"
        BY <1>8 DEF Stable
    <2>3. QED
        BY <1>1, <2>1, <2>2 DEF IInv, TypeOK, Issued, Purposes
<1>10. WebhooksOK' /\ CompletedIsBacked' /\ SeatIsPaid' /\ PointerIsOwn'
    BY <1>1, <1>5, <1>6, <1>8, WebhooksKept, CompletedKept, SeatKept, PointerKept
       DEF IInv, TypeOK, Booking
<1>11. RequestOK(h)'
    BY <1>2, <1>3, <1>4, <1>5, <1>6 DEF RequestOK
<1>12. \A g \in Reqs : g # h /\ req[g].pc = "record" => req[g].order # o
    BY DEF RecordPayment, IInv, OneRecorder
<1>13. \A g \in Reqs : g # h /\ req[g].pc = "record" =>
           pay'[req[g].order].status = "none"
    BY <1>6, <1>12 DEF IInv, RequestOK
<1>14. \A g \in Reqs : RequestOK(g)'
    BY <1>4, <1>8, <1>11, <1>13, RequestKept DEF IInv
<1>15. OneRecorder'
    BY <1>3, <1>4, RecorderKept DEF IInv
<1>16. QED
    BY <1>7, <1>9, <1>10, <1>14, <1>15 DEF IInv

LEMMA LinkOrderInv == ASSUME IInv, NEW h \in Reqs, LinkOrder(h) PROVE IInv'
<1> DEFINE o == req[h].order
           r == req[h].for
<1>1. /\ UNCHANGED <<trip, pay, settling, ord, att, hooks, faults>>
      /\ req' = [req EXCEPT ![h] = Idle]
    BY DEF LinkOrder, Finish
<1>2. /\ o \in Orders /\ r \in Purposes
      /\ pay[o].status # "none" /\ pay[o].for = r
    BY DEF LinkOrder, IInv, RequestOK
<1>3. /\ req' \in [Reqs -> Request] /\ req'[h] = Idle
      /\ \A g \in Reqs : g # h => req'[g] = req[g]
    BY <1>1, IdleRequest DEF IInv, TypeOK
<1>4. /\ handed \subseteq handed' /\ handed' \subseteq handed \cup {o}
    BY DEF LinkOrder
<1>5. Stable
    BY <1>1, <1>4 DEF Stable
<1>6. /\ reg' \in [Regs -> Booking]
      /\ \A s \in Regs : reg'[s].by = reg[s].by
      /\ \A s \in Regs : s # r \/ reg'[s].order # o => reg'[s].order = reg[s].order
    <2>0. reg \in [Regs -> Booking]
        BY DEF IInv, TypeOK
    <2>1. CASE reg' = reg
        BY <2>0, <2>1
    <2>2. CASE reg' = [reg EXCEPT ![r].order = o] /\ r \in Regs
        <3> DEFINE b == [reg[r] EXCEPT !.order = o]
        <3>1. b \in Booking /\ b.by = reg[r].by /\ b.order = o
            BY <1>2, <2>0, <2>2 DEF Booking
        <3>2. reg' = [reg EXCEPT ![r] = b]
            BY <2>2
        <3>3. QED
            BY <2>0, <2>2, <3>1, <3>2
    <2>3. QED
        BY <1>2, <2>1, <2>2 DEF LinkOrder, Purposes
<1>7. TypeOK'
    BY <1>1, <1>2, <1>3, <1>4, <1>6 DEF IInv, TypeOK
<1>8. Issued'
    BY <1>1, <1>2, <1>4 DEF IInv, Issued
<1>9. WebhooksOK' /\ CompletedIsBacked' /\ SeatIsPaid'
    BY <1>1, <1>5, <1>6, WebhooksKept, CompletedKept, SeatKept DEF IInv
<1>10. PointerIsOwn'
    BY <1>1, <1>2, <1>6 DEF IInv, PointerIsOwn
<1>11. RequestOK(h)'
    BY <1>3, IdleKept
<1>12. \A g \in Reqs : RequestOK(g)'
    BY <1>1, <1>3, <1>5, <1>11, RequestKept DEF IInv, RequestOK
<1>13. OneRecorder'
    BY <1>3, IdleRequest, RecorderKept DEF IInv
<1>14. QED
    BY <1>7, <1>8, <1>9, <1>10, <1>12, <1>13 DEF IInv

-----------------------------------------------------------------------------
(* Razorpay's steps *)

\* What a step that writes only attempts and deliveries has to show.
LEMMA RazorpayStep ==
    ASSUME IInv, UNCHANGED <<reg, trip, pay, settling, ord, handed, faults>>,
           NEW a \in Attempts, NEW t \in RzpAttempt,
           att' = [att EXCEPT ![a] = t],
           att[a] = NoAttempt
               \/ (att[a].status = "authorized" /\ t.order = att[a].order
                                               /\ t.amount = att[a].amount),
           t.status # "none", t.order \in handed,
           hooks' \subseteq hooks \cup {<<t.status, a>>},
           hooks' # hooks => t.status \in {"captured", "failed"}
    PROVE  /\ Stable
           /\ (UNCHANGED req => TypeOK')
           /\ Issued' /\ WebhooksOK' /\ CompletedIsBacked'
           /\ SeatIsPaid' /\ PointerIsOwn'
<1>1. /\ att' \in [Attempts -> RzpAttempt] /\ att'[a] = t
      /\ \A b \in Attempts : b # a => att'[b] = att[b]
    BY DEF IInv, TypeOK
<1>2. att[a].status \notin {"captured", "failed"}
    BY DEF NoAttempt
<1>3. Stable
    BY <1>1, <1>2 DEF Stable, NoAttempt
<1>4. UNCHANGED req => TypeOK'
    BY <1>1 DEF IInv, TypeOK
<1>5. Issued'
    BY <1>1 DEF IInv, Issued
<1>6. \A b \in settling : b # a
    BY <1>2 DEF IInv, WebhooksOK, PaidInFull, Captured
<1>7. WebhooksOK'
    <2>1. \A b \in Attempts, k \in {"captured", "failed"} :
              <<k, b>> \in hooks' => att'[b].status = k
        BY <1>1, <1>2 DEF IInv, WebhooksOK
    <2>2. \A b \in settling : b \in Attempts /\ att'[b] = att[b]
        BY <1>1, <1>6 DEF IInv, TypeOK
    <2>3. QED
        BY <2>1, <2>2 DEF IInv, WebhooksOK, PaidInFull, Captured
<1>8. CompletedIsBacked' /\ SeatIsPaid' /\ PointerIsOwn'
    BY <1>3, CompletedKept, SeatKept, PointerKept DEF IInv, TypeOK, Booking
<1>9. QED
    BY <1>3, <1>4, <1>5, <1>7, <1>8

LEMMA RazorpayStepInv ==
    ASSUME IInv, UNCHANGED <<reg, trip, pay, settling, ord, handed, faults>>, UNCHANGED req,
           NEW a \in Attempts, NEW t \in RzpAttempt,
           att' = [att EXCEPT ![a] = t],
           att[a] = NoAttempt
               \/ (att[a].status = "authorized" /\ t.order = att[a].order
                                               /\ t.amount = att[a].amount),
           t.status # "none", t.order \in handed,
           hooks' \subseteq hooks \cup {<<t.status, a>>},
           hooks' # hooks => t.status \in {"captured", "failed"}
    PROVE  IInv'
<1>1. /\ Stable /\ TypeOK' /\ Issued' /\ WebhooksOK' /\ CompletedIsBacked'
      /\ SeatIsPaid' /\ PointerIsOwn'
    BY RazorpayStep
<1>2. \A h \in Reqs : RequestOK(h)'
    BY <1>1, RequestKept DEF IInv, RequestOK
<1>3. OneRecorder'
    BY DEF IInv, OneRecorder
<1>4. QED
    BY <1>1, <1>2, <1>3 DEF IInv

LEMMA ChargeInv ==
    ASSUME IInv, NEW a \in Attempts, NEW o \in Orders, Charge(a, o) PROVE IInv'
<1>1. /\ UNCHANGED <<reg, trip, pay, settling, ord, handed, faults>> /\ UNCHANGED req
      /\ att[a] = NoAttempt /\ o \in handed /\ ord[o].amount \in Nat
    BY DEF Charge, store, IInv, TypeOK, RzpOrder
<1>2. CASE /\ att' = [att EXCEPT ![a] = [status |-> "failed", order |-> o,
                                         amount |-> ord[o].amount]]
           /\ hooks' = hooks \cup {<<"failed", a>>}
    <2> DEFINE t == [status |-> "failed", order |-> o, amount |-> ord[o].amount]
    <2>1. t \in RzpAttempt /\ t.status = "failed" /\ t.order = o
        BY <1>1 DEF RzpAttempt
    <2>2. QED
        BY <1>1, <1>2, <2>1, RazorpayStepInv
<1>3. ASSUME NEW amount \in {ord[o].amount} \cup OddAmounts,
             att' = [att EXCEPT ![a] = [status |-> "authorized", order |-> o,
                                        amount |-> amount]],
             hooks' = hooks
      PROVE  IInv'
    <2> DEFINE t == [status |-> "authorized", order |-> o, amount |-> amount]
    <2>0. amount \in Nat
        BY <1>1
    <2>1. t \in RzpAttempt /\ t.status = "authorized" /\ t.order = o
        BY <2>0 DEF RzpAttempt
    <2>2. QED
        BY <1>1, <1>3, <2>1, RazorpayStepInv
<1>4. QED
    BY <1>2, <1>3 DEF Charge

\* What a capture does to its attempt.
LEMMA CaptureAttemptFacts ==
    ASSUME IInv, NEW a \in Attempts, CaptureAttempt(a)
    PROVE  LET t == [att[a] EXCEPT !.status = "captured"] IN
           /\ t \in RzpAttempt /\ t.status = "captured"
           /\ t.order = att[a].order /\ t.amount = att[a].amount
           /\ att[a].status = "authorized" /\ att[a].order \in handed
           /\ att' = [att EXCEPT ![a] = t]
           /\ hooks' = hooks \cup {<<"captured", a>>}
<1>1. att[a] \in RzpAttempt /\ att[a].status = "authorized"
    BY DEF IInv, TypeOK, CaptureAttempt
<1>2. att[a].order \in handed
    BY <1>1 DEF IInv, Issued
<1>3. QED
    BY <1>1, <1>2 DEF CaptureAttempt, RzpAttempt

LEMMA AutoCaptureInv == ASSUME IInv, NEW a \in Attempts, AutoCapture(a) PROVE IInv'
    BY CaptureAttemptFacts, RazorpayStepInv DEF AutoCapture, store

LEMMA LapseInv == ASSUME IInv, NEW a \in Attempts, Lapse(a) PROVE IInv'
<1> DEFINE t == [att[a] EXCEPT !.status = "refunded"]
<1>1. att[a] \in RzpAttempt /\ att[a].status = "authorized" /\ att[a].order \in handed
    BY DEF IInv, TypeOK, Issued, Lapse
<1>2. /\ t \in RzpAttempt /\ t.status = "refunded"
      /\ t.order = att[a].order /\ t.amount = att[a].amount
    BY <1>1 DEF RzpAttempt
<1>3. att' = [att EXCEPT ![a] = t]
    BY DEF Lapse
<1>4. QED
    BY <1>1, <1>2, <1>3, RazorpayStepInv DEF Lapse, store

-----------------------------------------------------------------------------
(* Steps of verifyPayment that write *)

LEMMA CaptureNowInv == ASSUME IInv, NEW h \in Reqs, CaptureNow(h) PROVE IInv'
<1> DEFINE a == req[h].attempt
           o == req[h].order
           q == [req[h] EXCEPT !.pc = "complete"]
<1>1. /\ o \in Orders /\ a \in Attempts /\ att[a].order = o
      /\ att[a].amount = pay[o].amount /\ req[h] \in Request
    BY DEF CaptureNow, IInv, RequestOK, TypeOK
<1>2. CASE Finish(h) /\ UNCHANGED <<att, hooks>>
    BY <1>2, FinishStep DEF CaptureNow, razorpay, IInv, TypeOK
<1>3. CASE CaptureAttempt(a) /\ Goto(h, "complete")
    <2> DEFINE t == [att[a] EXCEPT !.status = "captured"]
    <2>1. UNCHANGED <<reg, trip, pay, settling, ord, handed, faults>>
        BY DEF CaptureNow, store
    <2>2. /\ t \in RzpAttempt /\ t.status = "captured"
          /\ t.order = att[a].order /\ t.amount = att[a].amount
          /\ att[a].status = "authorized" /\ att[a].order \in handed
          /\ att' = [att EXCEPT ![a] = t]
          /\ hooks' = hooks \cup {<<"captured", a>>}
        BY <1>1, <1>3, CaptureAttemptFacts
    <2>3. /\ Stable /\ Issued' /\ WebhooksOK' /\ CompletedIsBacked'
          /\ SeatIsPaid' /\ PointerIsOwn'
        BY <1>1, <2>1, <2>2, RazorpayStep
    <2>4. q \in Request /\ q.pc = "complete" /\ q.order = o /\ q.attempt = a
        BY <1>1, MovedRequest DEF Pcs
    <2>5. /\ req' \in [Reqs -> Request] /\ req'[h] = q
          /\ \A g \in Reqs : g # h => req'[g] = req[g]
        BY <1>3, <2>4 DEF Goto, IInv, TypeOK
    <2>6. att' \in [Attempts -> RzpAttempt] /\ att'[a] = t
        BY <1>1, <2>2 DEF IInv, TypeOK
    <2>7. TypeOK'
        BY <1>1, <2>1, <2>2, <2>5, <2>6 DEF IInv, TypeOK
    <2>8. RequestOK(h)'
        BY <1>1, <2>1, <2>2, <2>4, <2>5, <2>6 DEF RequestOK, PaidInFull, Captured
    <2>9. \A g \in Reqs : RequestOK(g)'
        BY <2>1, <2>3, <2>5, <2>8, RequestKept DEF IInv, RequestOK
    <2>10. OneRecorder'
        BY <2>4, <2>5, RecorderKept DEF IInv
    <2>11. QED
        BY <2>3, <2>7, <2>9, <2>10 DEF IInv
<1>4. QED
    BY <1>2, <1>3 DEF CaptureNow

\* A payments document that exists is rewritten, keeping its amount and purpose;
\* a completion comes with the payment that backs it.
LEMMA PaymentStep ==
    ASSUME IInv, UNCHANGED <<reg, trip, ord, handed, att, faults>>,
           NEW o \in Orders, NEW d \in PaymentDoc,
           pay[o].status # "none", d.status # "none",
           d.amount = pay[o].amount, d.for = pay[o].for,
           pay' = [pay EXCEPT ![o] = d],
           d.status = "completed" =>
               d.verified /\ \E a \in Attempts : d.paymentId = a /\ PaidInFull(a, o)
    PROVE  /\ Stable /\ Issued' /\ CompletedIsBacked' /\ SeatIsPaid' /\ PointerIsOwn'
           /\ pay' \in [Orders -> PaymentDoc]
           /\ \A p \in Orders : pay'[p].status # "none" => pay'[p].amount > 0
           /\ \A p \in Orders : pay[p].status = "none" => pay'[p].status = "none"
<1>1. /\ pay' \in [Orders -> PaymentDoc] /\ pay'[o] = d
      /\ \A p \in Orders : p # o => pay'[p] = pay[p]
    BY DEF IInv, TypeOK
<1>2. Stable
    BY <1>1 DEF Stable
<1>3. \A p \in Orders : pay[p].status = "none" => pay'[p].status = "none"
    BY <1>1
<1>4. Issued'
    BY <1>2, <1>3, IssuedKept DEF IInv
<1>5. CompletedIsBacked'
    BY <1>1 DEF IInv, CompletedIsBacked, PaidInFull, Captured
<1>6. SeatIsPaid' /\ PointerIsOwn'
    BY <1>2, SeatKept, PointerKept DEF IInv, TypeOK, Booking
<1>7. \A p \in Orders : pay'[p].status # "none" => pay'[p].amount > 0
    BY <1>1 DEF IInv, TypeOK
<1>8. QED
    BY <1>1, <1>2, <1>3, <1>4, <1>5, <1>6, <1>7

\* The rest of a PaymentStep taken by a request, which goes on to request q.
LEMMA VerifyWrites ==
    ASSUME IInv, NEW h \in Reqs, NEW q \in Request, NEW d \in PaymentDoc,
           NEW o \in Orders, UNCHANGED <<reg, trip, settling, razorpay, faults>>,
           pay[o].status # "none", d.status # "none",
           d.amount = pay[o].amount, d.for = pay[o].for,
           pay' = [pay EXCEPT ![o] = d],
           d.status = "completed" =>
               d.verified /\ \E a \in Attempts : d.paymentId = a /\ PaidInFull(a, o),
           req' = [req EXCEPT ![h] = q], q.pc # "record", RequestOK(h)'
    PROVE  IInv'
<1> USE DEF razorpay
<1>1. /\ Stable /\ Issued' /\ CompletedIsBacked' /\ SeatIsPaid' /\ PointerIsOwn'
      /\ pay' \in [Orders -> PaymentDoc]
      /\ \A p \in Orders : pay'[p].status # "none" => pay'[p].amount > 0
      /\ \A p \in Orders : pay[p].status = "none" => pay'[p].status = "none"
    BY PaymentStep
<1>2. /\ req' \in [Reqs -> Request] /\ req'[h] = q
      /\ \A g \in Reqs : g # h => req'[g] = req[g]
    BY DEF IInv, TypeOK
<1>3. TypeOK'
    BY <1>1, <1>2 DEF IInv, TypeOK
<1>4. WebhooksOK'
    BY <1>1, WebhooksKept DEF IInv
<1>5. \A g \in Reqs : RequestOK(g)'
    BY <1>1, <1>2, RequestKept DEF IInv, RequestOK
<1>6. OneRecorder'
    BY <1>2, RecorderKept DEF IInv
<1>7. QED
    BY <1>1, <1>3, <1>4, <1>5, <1>6 DEF IInv

\* The order a verifyPayment request is about, and its document.
LEMMA VerifierFacts ==
    ASSUME IInv, NEW h \in Reqs,
           req[h].pc \in {"fetch", "mismatch", "capture", "complete", "seat"}
    PROVE  /\ req[h].order \in Orders /\ req[h].attempt \in Attempts
           /\ att[req[h].attempt].order = req[h].order
           /\ pay[req[h].order].status # "none"
           /\ req[h].pc \in {"complete", "seat"} =>
                  PaidInFull(req[h].attempt, req[h].order)
<1>1. /\ req[h].order \in Orders /\ req[h].attempt \in Attempts
      /\ att[req[h].attempt].order = req[h].order
      /\ att[req[h].attempt].status # "none"
    BY DEF IInv, RequestOK
<1>2. pay[req[h].order].status # "none"
    BY <1>1, IssuedFacts DEF IInv
<1>3. QED
    BY <1>1, <1>2 DEF IInv, RequestOK

LEMMA MarkMismatchInv == ASSUME IInv, NEW h \in Reqs, MarkMismatch(h) PROVE IInv'
<1> DEFINE o == req[h].order
           a == req[h].attempt
           d == Mismatched(pay[o], a)
<1>1. o \in Orders /\ a \in Attempts /\ pay[o].status # "none"
    BY VerifierFacts DEF MarkMismatch
<1>2. /\ d \in PaymentDoc /\ d.status = "amount_mismatch"
      /\ d.amount = pay[o].amount /\ d.for = pay[o].for
    BY <1>1, MismatchedDoc DEF IInv, TypeOK
<1>3. pay' = [pay EXCEPT ![o] = d] /\ req' = [req EXCEPT ![h] = Idle]
    BY DEF MarkMismatch, Finish
<1>4. RequestOK(h)'
    BY <1>3, IdleKept DEF IInv, TypeOK
<1>5. QED
    BY <1>1, <1>2, <1>3, <1>4, IdleRequest, VerifyWrites DEF MarkMismatch

LEMMA MarkCompletedInv == ASSUME IInv, NEW h \in Reqs, MarkCompleted(h) PROVE IInv'
<1> DEFINE o == req[h].order
           a == req[h].attempt
           d == Completed(pay[o], a)
           q == [req[h] EXCEPT !.pc = "seat"]
<1>1. /\ o \in Orders /\ a \in Attempts /\ pay[o].status # "none"
      /\ PaidInFull(a, o) /\ att[a].order = o
      /\ att[a].status = "captured" /\ att[a].amount = pay[o].amount
    BY VerifierFacts DEF MarkCompleted, PaidInFull, Captured
<1>1a. req[h] \in Request
    BY DEF IInv, TypeOK
<1>2. /\ d \in PaymentDoc /\ d.status = "completed" /\ d.verified /\ d.paymentId = a
      /\ d.amount = pay[o].amount /\ d.for = pay[o].for
    BY <1>1, CompletedDoc DEF IInv, TypeOK
<1>3. q \in Request /\ q.pc = "seat" /\ q.order = o /\ q.attempt = a
    BY <1>1a, MovedRequest DEF Pcs
<1>4. pay' = [pay EXCEPT ![o] = d] /\ req' = [req EXCEPT ![h] = q] /\ att' = att
    BY DEF MarkCompleted, Goto, razorpay
<1>5. req'[h] = q /\ pay'[o] = d
    BY <1>1, <1>4 DEF IInv, TypeOK
<1>6. /\ att'[a].status = "captured" /\ att'[a].order = o
      /\ att'[a].amount = pay'[o].amount
    BY <1>1, <1>2, <1>4, <1>5
<1>7. RequestOK(h)'
    BY <1>1, <1>3, <1>5, <1>6 DEF RequestOK, PaidInFull, Captured
<1>8. QED
    BY ZenonT(40), <1>1, <1>2, <1>3, <1>4, <1>7, VerifyWrites DEF MarkCompleted

\* Confirming the seat of an order paid in full keeps the registrations right.
LEMMA ConfirmTripSeatKept ==
    ASSUME IInv, NEW o \in Orders, NEW a \in Attempts, PaidInFull(a, o),
           ConfirmTripSeat(o), UNCHANGED <<pay, ord, att>>
    PROVE  reg' \in [Regs -> Booking] /\ SeatIsPaid' /\ PointerIsOwn'
<1> DEFINE r == pay[o].for
           b == [reg[r] EXCEPT !.status = "confirmed", !.by = "payment"]
<1>1. CASE reg' = reg
    BY <1>1 DEF IInv, TypeOK, SeatIsPaid, PointerIsOwn
<1>2. CASE reg' = [reg EXCEPT ![r].status = "confirmed", ![r].by = "payment"] /\ r \in Regs
    <2>1. reg[r] \in Booking
        BY <1>2 DEF IInv, TypeOK
    <2>2. b \in Booking /\ b.order = reg[r].order
        BY <2>1, ConfirmedBooking
    <2>3. reg' = [reg EXCEPT ![r] = b]
        BY <1>2 DEF IInv, TypeOK
    <2>4. /\ reg' \in [Regs -> Booking]
          /\ \A s \in Regs : s # r => reg'[s] = reg[s]
          /\ \A s \in Regs : reg'[s].order = reg[s].order
        BY <1>2, <2>2, <2>3 DEF IInv, TypeOK
    <2>5. /\ att[a].status = "captured" /\ att[a].order = o
          /\ ord[o].for = r /\ att[a].amount = ord[o].amount
        BY IssuedFacts DEF PaidInFull, Captured, IInv
    <2>6. SeatIsPaid'
        BY <2>4, <2>5 DEF IInv, SeatIsPaid
    <2>7. PointerIsOwn'
        BY <2>4 DEF IInv, PointerIsOwn
    <2>8. QED
        BY <2>4, <2>6, <2>7
<1>3. QED
    BY <1>1, <1>2 DEF ConfirmTripSeat

LEMMA VerifySeatInv == ASSUME IInv, NEW h \in Reqs, VerifySeat(h) PROVE IInv'
<1>1. /\ req[h].order \in Orders /\ req[h].attempt \in Attempts
      /\ PaidInFull(req[h].attempt, req[h].order)
    BY VerifierFacts DEF VerifySeat
<1>2. /\ UNCHANGED <<trip, pay, settling, faults>> /\ UNCHANGED <<ord, handed, att, hooks>>
      /\ req' = [req EXCEPT ![h] = Idle]
    BY DEF VerifySeat, Finish, razorpay
<1>3. reg' \in [Regs -> Booking] /\ SeatIsPaid' /\ PointerIsOwn'
    BY <1>1, <1>2, ConfirmTripSeatKept DEF VerifySeat
<1>4. /\ req' \in [Reqs -> Request] /\ req'[h] = Idle
      /\ \A g \in Reqs : g # h => req'[g] = req[g]
    BY <1>2, IdleRequest DEF IInv, TypeOK
<1>5. TypeOK' /\ Stable
    BY <1>2, <1>3, <1>4, StableUnchanged DEF IInv, TypeOK
<1>6. Issued' /\ WebhooksOK' /\ CompletedIsBacked'
    BY <1>2, <1>5, IssuedKept, WebhooksKept, CompletedKept DEF IInv
<1>7. \A g \in Reqs : RequestOK(g)'
    BY <1>2, <1>4, <1>5, IdleKept, RequestKept DEF IInv, RequestOK
<1>8. OneRecorder'
    BY <1>4, IdleRequest, RecorderKept DEF IInv
<1>9. QED
    BY <1>3, <1>5, <1>6, <1>7, <1>8 DEF IInv

-----------------------------------------------------------------------------
(* Webhook deliveries and crashes *)

LEMMA HooksShrink == ASSUME NEW m, Ack(m) PROVE hooks' \subseteq hooks
    BY DEF Ack

\* The requests during a step that leaves them alone.
LEMMA RequestsKept ==
    ASSUME IInv, Stable, UNCHANGED req,
           \A o \in Orders : pay[o].status = "none" => pay'[o].status = "none"
    PROVE  (\A h \in Reqs : RequestOK(h)') /\ OneRecorder'
<1>1. \A h \in Reqs : RequestOK(h)'
    BY RequestKept DEF IInv, RequestOK
<1>2. OneRecorder'
    BY DEF IInv, OneRecorder
<1>3. QED
    BY <1>1, <1>2

LEMMA WebhookWrites ==
    ASSUME IInv, UNCHANGED <<reg, trip, req, ord, handed, att, faults>>,
           NEW o \in Orders, NEW d \in PaymentDoc,
           pay[o].status # "none", d.status # "none",
           d.amount = pay[o].amount, d.for = pay[o].for,
           pay' = [pay EXCEPT ![o] = d],
           d.status = "completed" =>
               d.verified /\ \E a \in Attempts : d.paymentId = a /\ PaidInFull(a, o),
           hooks' \subseteq hooks, settling' \subseteq Attempts, WebhooksOK'
    PROVE  IInv'
<1>1. /\ Stable /\ Issued' /\ CompletedIsBacked' /\ SeatIsPaid' /\ PointerIsOwn'
      /\ pay' \in [Orders -> PaymentDoc]
      /\ \A p \in Orders : pay'[p].status # "none" => pay'[p].amount > 0
      /\ \A p \in Orders : pay[p].status = "none" => pay'[p].status = "none"
    BY PaymentStep
<1>2. TypeOK'
    BY <1>1 DEF IInv, TypeOK
<1>3. (\A h \in Reqs : RequestOK(h)') /\ OneRecorder'
    BY <1>1, RequestsKept
<1>4. QED
    BY <1>1, <1>2, <1>3 DEF IInv

LEMMA WebhookCapturedInv == ASSUME IInv, NEW a \in Attempts, WebhookCaptured(a) PROVE IInv'
<1> DEFINE o == att[a].order
<1>1. att[a].status = "captured" /\ o \in Orders /\ pay[o].status # "none"
    BY IssuedFacts DEF WebhookCaptured, IInv, WebhooksOK
<1>2. pay[o] \in PaymentDoc /\ UNCHANGED <<reg, trip, req, ord, handed, att, faults>>
    BY <1>1 DEF WebhookCaptured, IInv, TypeOK
<1>3. CASE /\ pay' = [pay EXCEPT ![o] = Mismatched(@, a)]
           /\ Ack(<<"captured", a>>) /\ settling' = settling
    <2> DEFINE d == Mismatched(pay[o], a)
    <2>1. /\ d \in PaymentDoc /\ d.status = "amount_mismatch"
          /\ d.amount = pay[o].amount /\ d.for = pay[o].for
        BY <1>2, MismatchedDoc
    <2>2. pay' = [pay EXCEPT ![o] = d] /\ hooks' \subseteq hooks
        BY <1>3, HooksShrink
    <2>3. Stable
        BY <1>1, <1>2, <2>1, <2>2, PaymentStep
    <2>4. WebhooksOK'
        BY <1>3, <2>2, <2>3, WebhooksKept DEF IInv
    <2>5. QED
        BY <1>1, <1>2, <1>3, <2>1, <2>2, <2>4, WebhookWrites DEF IInv, TypeOK
<1>4. CASE /\ AmountMatches(pay[o], att[a].amount)
           /\ pay' = [pay EXCEPT ![o] = Completed(@, a)]
           /\ settling' = settling \cup {a} /\ hooks' = hooks
    <2> DEFINE d == Completed(pay[o], a)
    <2>1. /\ d \in PaymentDoc /\ d.status = "completed" /\ d.verified /\ d.paymentId = a
          /\ d.amount = pay[o].amount /\ d.for = pay[o].for
        BY <1>2, CompletedDoc
    <2>2. pay' = [pay EXCEPT ![o] = d]
        BY <1>4
    <2>3. PaidInFull(a, o)
        BY <1>1, <1>4 DEF PaidInFull, Captured, AmountMatches
    <2>4. \A p \in Orders : pay'[p].amount = pay[p].amount
        BY <1>1, <2>1, <2>2 DEF IInv, TypeOK
    <2>5. WebhooksOK'
        BY <1>1, <1>2, <1>4, <2>3, <2>4 DEF IInv, WebhooksOK, PaidInFull, Captured
    <2>6. QED
        BY <1>1, <1>2, <1>4, <2>1, <2>2, <2>3, <2>5, WebhookWrites DEF IInv, TypeOK
<1>5. QED
    BY <1>1, <1>3, <1>4 DEF WebhookCaptured

LEMMA WebhookFailedInv == ASSUME IInv, NEW a \in Attempts, WebhookFailed(a) PROVE IInv'
<1> DEFINE o == att[a].order
           d == [pay[o] EXCEPT !.status = "failed", !.verified = FALSE]
<1>1. o \in Orders /\ pay[o].status # "none"
    BY IssuedFacts DEF WebhookFailed, IInv, WebhooksOK
<1>2. /\ pay[o] \in PaymentDoc /\ UNCHANGED <<reg, trip, req, ord, handed, att, faults>>
      /\ settling' = settling /\ hooks' \subseteq hooks
    BY <1>1, HooksShrink DEF WebhookFailed, IInv, TypeOK
<1>3. CASE pay' = pay
    <2>1. TypeOK' /\ Stable
        BY <1>2, <1>3, StableUnchanged DEF IInv, TypeOK
    <2>2. Issued' /\ WebhooksOK' /\ CompletedIsBacked' /\ SeatIsPaid' /\ PointerIsOwn'
        BY <1>2, <1>3, <2>1, IssuedKept, WebhooksKept, CompletedKept
           DEF IInv, SeatIsPaid, PointerIsOwn
    <2>3. QED
        BY <1>2, <1>3, <2>1, <2>2, RequestsKept DEF IInv
<1>4. CASE pay' = [pay EXCEPT ![o].status = "failed", ![o].verified = FALSE]
    <2>1. /\ d \in PaymentDoc /\ d.status = "failed"
          /\ d.amount = pay[o].amount /\ d.for = pay[o].for
        BY <1>2, FailedDoc
    <2>2. pay' = [pay EXCEPT ![o] = d]
        BY <1>1, <1>4 DEF IInv, TypeOK
    <2>3. WebhooksOK'
        BY <1>1, <1>2, <2>1, <2>2, PaymentStep, WebhooksKept DEF IInv
    <2>4. QED
        BY <1>1, <1>2, <2>1, <2>2, <2>3, WebhookWrites DEF IInv, TypeOK
<1>5. QED
    BY <1>3, <1>4 DEF WebhookFailed

LEMMA WebhookSeatInv == ASSUME IInv, NEW a \in Attempts, WebhookSeat(a) PROVE IInv'
<1>1. att[a].order \in Orders /\ PaidInFull(a, att[a].order)
    BY DEF WebhookSeat, IInv, WebhooksOK
<1>2. /\ UNCHANGED <<trip, pay, req, ord, handed, att, faults>>
      /\ settling' \subseteq settling /\ hooks' \subseteq hooks
    BY HooksShrink DEF WebhookSeat
<1>3. reg' \in [Regs -> Booking] /\ SeatIsPaid' /\ PointerIsOwn'
    BY <1>1, <1>2, ConfirmTripSeatKept DEF WebhookSeat
<1>4. TypeOK' /\ Stable
    BY <1>2, <1>3, StableUnchanged DEF IInv, TypeOK
<1>5. Issued' /\ WebhooksOK' /\ CompletedIsBacked'
    BY <1>2, <1>4, IssuedKept, WebhooksKept, CompletedKept DEF IInv
<1>6. QED
    BY <1>2, <1>3, <1>4, <1>5, RequestsKept DEF IInv

\* A step that only drops deliveries, settlements and requests in flight.
LEMMA DropStep ==
    ASSUME IInv, UNCHANGED <<reg, trip, pay, ord, handed, att>>, faults' \in 0..MaxFaults,
           hooks' \subseteq hooks, settling' \subseteq settling,
           req' = req \/ req' = [h \in Reqs |-> Idle]
    PROVE  IInv'
<1>1. TypeOK' /\ Stable
    BY StableUnchanged, IdleRequest DEF IInv, TypeOK
<1>2. Issued' /\ WebhooksOK' /\ CompletedIsBacked' /\ SeatIsPaid' /\ PointerIsOwn'
    BY <1>1, IssuedKept, WebhooksKept, CompletedKept DEF IInv, SeatIsPaid, PointerIsOwn
<1>3. (\A h \in Reqs : RequestOK(h)') /\ OneRecorder'
    <2>1. CASE req' = req
        BY <1>1, <2>1, RequestsKept
    <2>2. CASE req' = [h \in Reqs |-> Idle]
        BY <2>2, IdleKept, IdleRequest DEF OneRecorder
    <2>3. QED
        BY <2>1, <2>2
<1>4. QED
    BY <1>1, <1>2, <1>3 DEF IInv

LEMMA WebhookSeatFailsInv ==
    ASSUME IInv, NEW a \in Attempts, WebhookSeatFails(a) PROVE IInv'
<1>1. faults' \in 0..MaxFaults /\ hooks' \subseteq hooks /\ settling' \subseteq settling
    BY HooksShrink DEF WebhookSeatFails, Fault, IInv, TypeOK
<1>2. QED
    BY <1>1, DropStep DEF WebhookSeatFails, store

LEMMA CrashInv == ASSUME IInv, Crash PROVE IInv'
<1>1. faults' \in 0..MaxFaults
    BY DEF Crash, Fault, IInv, TypeOK
<1>2. QED
    BY <1>1, DropStep DEF Crash, store, razorpay

-----------------------------------------------------------------------------
(* The theorems *)

LEMMA StepInv == IInv /\ [Next]_vars => IInv'
<1> SUFFICES ASSUME IInv, [Next]_vars PROVE IInv'
    OBVIOUS
<1>1. CASE Client
    BY <1>1, BookInv, DeleteBookingInv, OwnerCancelInv, StaffEditsInv, OwnerPointsInv,
       TripEditedInv DEF Client
<1>2. ASSUME NEW h \in Reqs, Handler(h) PROVE IInv'
    BY <1>2, StartOrderInv, StartDonationInv, StartVerifyInv, CheckOwedInv,
       CreateRzpOrderInv, RecordPaymentInv, LinkOrderInv, FetchPaymentInv,
       MarkMismatchInv, CaptureNowInv, MarkCompletedInv, VerifySeatInv, RequestFailsInv
       DEF Handler, Step
<1>3. ASSUME NEW a \in Attempts, Razorpay(a) PROVE IInv'
    BY <1>3, ChargeInv, AutoCaptureInv, LapseInv DEF Razorpay
<1>4. ASSUME NEW a \in Attempts, Webhook(a) PROVE IInv'
    BY <1>4, WebhookCapturedInv, WebhookSeatInv, WebhookSeatFailsInv, WebhookFailedInv
       DEF Webhook
<1>5. CASE Crash
    BY <1>5, CrashInv
<1>6. CASE UNCHANGED vars
    BY <1>6, DropStep DEF vars, IInv, TypeOK
<1>7. QED
    BY <1>1, <1>2, <1>3, <1>4, <1>5, <1>6 DEF Next

LEMMA Invariance == Spec => []IInv
    BY InitInv, StepInv, PTL DEF Spec

\* Every document, request and Razorpay record keeps its type, for every number
\* of registrations, orders, attempts and requests.
THEOREM TypeCorrect == Spec => []TypeOK
<1>1. IInv => TypeOK
    BY DEF IInv
<1>2. QED
    BY <1>1, Invariance, PTL

\* The status completed always stands for a capture of the order's full amount,
\* however verifyPayment requests, webhook deliveries and crashes interleave.
THEOREM CompletedPaymentsAreBacked == Spec => []CompletedIsBacked
<1>1. IInv => CompletedIsBacked
    BY DEF IInv
<1>2. QED
    BY <1>1, Invariance, PTL

\* No seat is confirmed by a payment that was not made in full for it.
THEOREM ConfirmedSeatsArePaid == Spec => []SeatIsPaid
<1>1. IInv => SeatIsPaid
    BY DEF IInv
<1>2. QED
    BY <1>1, Invariance, PTL

\* A registration's order pointer never dangles and never points at another
\* registration's order.
THEOREM PointersAreOwn == Spec => []PointerIsOwn
<1>1. IInv => PointerIsOwn
    BY DEF IInv
<1>2. QED
    BY <1>1, Invariance, PTL

\* No browser is given an order to pay before the server has its document.
THEOREM NoChargeIsOrphaned == Spec => []NoOrphanCharge
<1>1. IInv => NoOrphanCharge
    BY IssuedFacts DEF IInv, NoOrphanCharge
<1>2. QED
    BY <1>1, Invariance, PTL

SettledKept == \A o \in Orders : Settled(pay[o].status) => Settled(pay'[o].status)

LEMMA SettledStep == IInv /\ [Next]_vars => SettledKept
<1> SUFFICES ASSUME IInv, [Next]_vars PROVE SettledKept
    OBVIOUS
<1> USE DEF Settled
<1>0. pay \in [Orders -> PaymentDoc]
    BY DEF IInv, TypeOK
<1>1. CASE UNCHANGED pay
    BY <1>1 DEF SettledKept
<1>2. ASSUME NEW h \in Reqs, RecordPayment(h) PROVE SettledKept
    <2>1. pay[req[h].order].status = "none"
        BY <1>2 DEF RecordPayment, IInv, RequestOK
    <2>2. QED
        BY <1>0, <1>2, <2>1 DEF RecordPayment, SettledKept
<1>3. ASSUME NEW h \in Reqs, MarkMismatch(h) PROVE SettledKept
    BY <1>0, <1>3, VerifierFacts, MismatchedDoc DEF MarkMismatch, SettledKept
<1>4. ASSUME NEW h \in Reqs, MarkCompleted(h) PROVE SettledKept
    BY <1>0, <1>4, VerifierFacts, CompletedDoc DEF MarkCompleted, SettledKept
<1>5. ASSUME NEW a \in Attempts, WebhookCaptured(a) PROVE SettledKept
    <2>1. att[a].order \in Orders
        BY <1>5, IssuedFacts DEF WebhookCaptured, IInv, WebhooksOK
    <2>2. QED
        BY <1>0, <1>5, <2>1, MismatchedDoc, CompletedDoc DEF WebhookCaptured, SettledKept
<1>6. ASSUME NEW a \in Attempts, WebhookFailed(a) PROVE SettledKept
    BY <1>0, <1>6 DEF WebhookFailed, FailureIgnored, SettledKept
<1>7. QED
    BY <1>1, <1>2, <1>3, <1>4, <1>5, <1>6
       DEF Next, Client, Handler, Step, Razorpay, Webhook, Crash, vars, store, razorpay,
           Book, DeleteBooking, OwnerCancel, StaffEdits, OwnerPoints, TripEdited,
           StartOrder, StartDonation, StartVerify, CheckOwed, CreateRzpOrder, LinkOrder,
           FetchPayment, CaptureNow, VerifySeat, RequestFails, Charge, AutoCapture, Lapse,
           WebhookSeat, WebhookSeatFails

\* "A failed attempt must never undo a captured payment on the same order": once
\* completed or flagged, no step of any request or delivery takes that back.
THEOREM SettledStaysSettled == Spec => SettledNeverUndone
<1>1. IInv /\ [Next]_vars =>
          [\A o \in Orders : Settled(pay[o].status) => Settled(pay'[o].status)]_vars
    BY SettledStep DEF SettledKept
<1>2. QED
    BY <1>1, Invariance, PTL DEF Spec, SettledNeverUndone

-----------------------------------------------------------------------------
(* Who may take a completed payment back *)

\* The invariant behind OnlyStaleVerifyDemotes: an order has one capture at most,
\* and a request about to record a mismatch was charged another amount.
OneCapture == \A o \in Orders, a, b \in Attempts : Captured(a, o) /\ Captured(b, o) => a = b

Mismatch(h) == req[h].pc = "mismatch" =>
                   ~AmountMatches(pay[req[h].order], att[req[h].attempt].amount)

DemoteInv == IInv /\ OneCapture /\ \A h \in Reqs : Mismatch(h)

LEMMA InitDemote == Init => DemoteInv
<1> SUFFICES ASSUME Init PROVE DemoteInv
    OBVIOUS
<1>1. OneCapture
    BY DEF Init, OneCapture, Captured, NoAttempt
<1>2. \A h \in Reqs : Mismatch(h)
    BY DEF Init, Mismatch, Idle
<1>3. QED
    BY <1>1, <1>2, InitInv DEF DemoteInv

\* A capture, by whoever asks for it, is the first one of its order.
LEMMA OneCaptureStep == ASSUME DemoteInv, [Next]_vars PROVE OneCapture'
<1>0. att \in [Attempts -> RzpAttempt]
    BY DEF DemoteInv, IInv, TypeOK
<1>1. CASE UNCHANGED att
    BY <1>1 DEF DemoteInv, OneCapture, Captured
<1>2. ASSUME NEW a \in Attempts, CaptureAttempt(a) PROVE OneCapture'
    <2>1. \A o \in Orders, b \in Attempts : Captured(b, o) => o # att[a].order
        BY <1>2 DEF CaptureAttempt
    <2>2. /\ \A b \in Attempts : b # a => att'[b] = att[b]
          /\ att'[a].order = att[a].order
        BY <1>0, <1>2 DEF CaptureAttempt, RzpAttempt
    <2>3. \A o \in Orders, b \in Attempts :
              Captured(b, o)' => (b = a /\ o = att[a].order) \/ (b # a /\ Captured(b, o))
        BY <2>2 DEF Captured
    <2>4. QED
        BY <2>1, <2>3 DEF DemoteInv, OneCapture
<1>3. ASSUME NEW a \in Attempts, NEW o \in Orders, Charge(a, o) PROVE OneCapture'
    <2>1. \A p \in Orders, b \in Attempts : Captured(b, p)' => Captured(b, p)
        BY <1>0, <1>3 DEF Charge, Captured
    <2>2. QED
        BY <2>1 DEF DemoteInv, OneCapture
<1>4. ASSUME NEW a \in Attempts, Lapse(a) PROVE OneCapture'
    <2>1. \A p \in Orders, b \in Attempts : Captured(b, p)' => Captured(b, p)
        BY <1>0, <1>4 DEF Lapse, Captured
    <2>2. QED
        BY <2>1 DEF DemoteInv, OneCapture
<1>5. ASSUME NEW h \in Reqs, CaptureNow(h) PROVE OneCapture'
    <2>1. req[h].attempt \in Attempts
        BY <1>5, VerifierFacts DEF CaptureNow, DemoteInv
    <2>2. QED
        BY <1>1, <1>2, <1>5, <2>1 DEF CaptureNow
<1>6. QED
    BY <1>1, <1>2, <1>3, <1>4, <1>5
       DEF Next, Client, Handler, Step, Razorpay, Webhook, Crash, vars, store, razorpay,
           Book, DeleteBooking, OwnerCancel, StaffEdits, OwnerPoints, TripEdited,
           StartOrder, StartDonation, StartVerify, CheckOwed, CreateRzpOrder, LinkOrder,
           RecordPayment, FetchPayment, MarkMismatch, MarkCompleted, VerifySeat, RequestFails,
           AutoCapture, WebhookCaptured, WebhookFailed, WebhookSeat, WebhookSeatFails

\* What was asked and what was charged never change.
ChargesKept == \A a \in Attempts : att[a].status # "none" => att'[a].amount = att[a].amount
PricesKept == \A o \in Orders : pay[o].status # "none" => pay'[o].amount = pay[o].amount

LEMMA ChargesStep == ASSUME IInv, [Next]_vars PROVE ChargesKept
<1> USE DEF ChargesKept
<1>0. att \in [Attempts -> RzpAttempt]
    BY DEF IInv, TypeOK
<1>1. CASE UNCHANGED att
    BY <1>1
<1>2. ASSUME NEW a \in Attempts, CaptureAttempt(a) PROVE ChargesKept
    BY <1>0, <1>2 DEF CaptureAttempt, RzpAttempt
<1>3. ASSUME NEW a \in Attempts, NEW o \in Orders, Charge(a, o) PROVE ChargesKept
    BY <1>0, <1>3 DEF Charge, NoAttempt
<1>4. ASSUME NEW a \in Attempts, Lapse(a) PROVE ChargesKept
    BY <1>0, <1>4 DEF Lapse, RzpAttempt
<1>5. ASSUME NEW h \in Reqs, CaptureNow(h) PROVE ChargesKept
    <2>1. req[h].attempt \in Attempts
        BY <1>5, VerifierFacts DEF CaptureNow
    <2>2. QED
        BY <1>1, <1>2, <1>5, <2>1 DEF CaptureNow
<1>6. QED
    BY <1>1, <1>2, <1>3, <1>4, <1>5
       DEF Next, Client, Handler, Step, Razorpay, Webhook, Crash, vars, store, razorpay,
           Book, DeleteBooking, OwnerCancel, StaffEdits, OwnerPoints, TripEdited,
           StartOrder, StartDonation, StartVerify, CheckOwed, CreateRzpOrder, LinkOrder,
           RecordPayment, FetchPayment, MarkMismatch, MarkCompleted, VerifySeat, RequestFails,
           AutoCapture, WebhookCaptured, WebhookFailed, WebhookSeat, WebhookSeatFails

LEMMA PricesStep == ASSUME IInv, [Next]_vars PROVE PricesKept
<1> USE DEF PricesKept
<1>0. pay \in [Orders -> PaymentDoc]
    BY DEF IInv, TypeOK
<1>1. CASE UNCHANGED pay
    BY <1>1
<1>2. ASSUME NEW h \in Reqs, RecordPayment(h) PROVE PricesKept
    <2>1. pay[req[h].order].status = "none"
        BY <1>2 DEF RecordPayment, IInv, RequestOK
    <2>2. QED
        BY <1>0, <1>2, <2>1 DEF RecordPayment
<1>3. ASSUME NEW h \in Reqs, MarkMismatch(h) PROVE PricesKept
    BY <1>0, <1>3, VerifierFacts, MismatchedDoc DEF MarkMismatch
<1>4. ASSUME NEW h \in Reqs, MarkCompleted(h) PROVE PricesKept
    BY <1>0, <1>4, VerifierFacts, CompletedDoc DEF MarkCompleted
<1>5. ASSUME NEW a \in Attempts, WebhookCaptured(a) PROVE PricesKept
    <2>1. att[a].order \in Orders
        BY <1>5, IssuedFacts DEF WebhookCaptured, IInv, WebhooksOK
    <2>2. QED
        BY <1>0, <1>5, <2>1, MismatchedDoc, CompletedDoc DEF WebhookCaptured
<1>6. ASSUME NEW a \in Attempts, WebhookFailed(a) PROVE PricesKept
    BY <1>0, <1>6 DEF WebhookFailed, PaymentDoc
<1>7. QED
    BY <1>1, <1>2, <1>3, <1>4, <1>5, <1>6
       DEF Next, Client, Handler, Step, Razorpay, Webhook, Crash, vars, store, razorpay,
           Book, DeleteBooking, OwnerCancel, StaffEdits, OwnerPoints, TripEdited,
           StartOrder, StartDonation, StartVerify, CheckOwed, CreateRzpOrder, LinkOrder,
           FetchPayment, CaptureNow, VerifySeat, RequestFails, Charge, AutoCapture, Lapse,
           WebhookSeat, WebhookSeatFails

\* Where a request about to record a mismatch comes from.
Comes(h) ==
    /\ req'[h].order = req[h].order /\ req'[h].attempt = req[h].attempt
    /\ \/ req[h].pc = "mismatch"
       \/ req[h].pc = "fetch" /\ ~AmountMatches(pay[req[h].order], att[req[h].attempt].amount)

LEMMA MismatchComes ==
    ASSUME IInv, [Next]_vars, NEW h \in Reqs, req'[h].pc = "mismatch"
    PROVE  Comes(h)
<1> USE DEF Comes
<1>0. req \in [Reqs -> Request]
    BY DEF IInv, TypeOK
<1>1. CASE req'[h] = req[h]
    BY <1>1
<1>2. ASSUME NEW g \in Reqs, NEW q, req' = [req EXCEPT ![g] = q], q.pc # "mismatch"
      PROVE  Comes(h)
    BY <1>0, <1>1, <1>2
<1>3. ASSUME NEW g \in Reqs, NEW to, Goto(g, to), to # "mismatch" PROVE Comes(h)
    BY <1>0, <1>1, <1>3 DEF Goto, Request
<1>4. ASSUME NEW g \in Reqs, Finish(g) PROVE Comes(h)
    BY <1>2, <1>4 DEF Finish, Idle
<1>5. ASSUME NEW g \in Reqs, FetchPayment(g) PROVE Comes(h)
    <2>1. CASE ~AmountMatches(pay[req[g].order], att[req[g].attempt].amount)
        BY <1>0, <1>1, <1>5, <2>1 DEF FetchPayment, Goto, Request
    <2>2. CASE AmountMatches(pay[req[g].order], att[req[g].attempt].amount)
        BY <1>3, <1>4, <1>5, <2>2 DEF FetchPayment
    <2>3. QED
        BY <2>1, <2>2
<1>6. ASSUME NEW g \in Reqs, Handler(g) PROVE Comes(h)
    <2>1. ASSUME NEW r \in Regs, StartOrder(g, r) PROVE Comes(h)
        BY <1>2, <2>1 DEF StartOrder, Idle
    <2>2. CASE StartDonation(g)
        BY <1>2, <2>2 DEF StartDonation, Idle
    <2>3. ASSUME NEW a \in Attempts, StartVerify(g, a) PROVE Comes(h)
        BY <1>2, <2>3 DEF StartVerify, Idle
    <2>4. CASE CheckOwed(g)
        BY <1>0, <1>1, <1>4, <2>4 DEF CheckOwed, Request
    <2>5. CASE CreateRzpOrder(g)
        BY <1>0, <1>1, <2>5 DEF CreateRzpOrder, Request
    <2>6. CASE RecordPayment(g) \/ MarkCompleted(g)
        BY <1>3, <2>6 DEF RecordPayment, MarkCompleted
    <2>7. CASE LinkOrder(g) \/ MarkMismatch(g) \/ VerifySeat(g) \/ RequestFails(g)
        BY <1>4, <2>7 DEF LinkOrder, MarkMismatch, VerifySeat, RequestFails
    <2>8. CASE CaptureNow(g)
        BY <1>3, <1>4, <2>8 DEF CaptureNow
    <2>9. QED
        BY <1>5, <1>6, <2>1, <2>2, <2>3, <2>4, <2>5, <2>6, <2>7, <2>8 DEF Handler, Step
<1>7. CASE Crash
    BY <1>7 DEF Crash, Idle
<1>8. CASE UNCHANGED req
    BY <1>1, <1>8
<1>9. QED
    BY <1>6, <1>7, <1>8
       DEF Next, Client, Razorpay, Webhook, vars, Book, DeleteBooking, OwnerCancel, StaffEdits,
           OwnerPoints, TripEdited, Charge, AutoCapture, Lapse, WebhookCaptured, WebhookFailed,
           WebhookSeat, WebhookSeatFails

\* A request finds the mismatch by comparing the two, and nothing changes them after.
LEMMA MismatchStep ==
    ASSUME DemoteInv, [Next]_vars, NEW h \in Reqs
    PROVE  Mismatch(h)'
<1> SUFFICES ASSUME req'[h].pc = "mismatch"
             PROVE  ~AmountMatches(pay'[req'[h].order], att'[req'[h].attempt].amount)
    BY DEF Mismatch
<1> USE DEF AmountMatches
<1>1. Comes(h)
    BY MismatchComes DEF DemoteInv
<1>2. /\ req[h].order \in Orders /\ req[h].attempt \in Attempts
      /\ pay[req[h].order].status # "none" /\ att[req[h].attempt].status # "none"
    <2>1. /\ req[h].order \in Orders /\ req[h].attempt \in Attempts
          /\ pay[req[h].order].status # "none"
        BY <1>1, VerifierFacts DEF DemoteInv, Comes
    <2>2. att[req[h].attempt].status # "none"
        BY <1>1 DEF DemoteInv, IInv, RequestOK, Comes
    <2>3. QED
        BY <2>1, <2>2
<1>3. /\ pay'[req[h].order].amount = pay[req[h].order].amount
      /\ att'[req[h].attempt].amount = att[req[h].attempt].amount
    BY <1>2, PricesStep, ChargesStep DEF DemoteInv, PricesKept, ChargesKept
<1>4. QED
    BY <1>1, <1>3 DEF DemoteInv, Mismatch, Comes

LEMMA DemoteStep == DemoteInv /\ [Next]_vars => DemoteInv'
    BY StepInv, OneCaptureStep, MismatchStep DEF DemoteInv

LEMMA DemoteInvariance == Spec => []DemoteInv
    BY InitDemote, DemoteStep, PTL DEF Spec

LEMMA DemotedByMismatch ==
    ASSUME DemoteInv, [Next]_vars,
           NEW o \in Orders, pay[o].status = "completed", pay'[o].status # "completed"
    PROVE  DemotedByVerify(o)
<1>0. pay \in [Orders -> PaymentDoc] /\ req \in [Reqs -> Request] /\ IInv
    BY DEF DemoteInv, IInv, TypeOK
<1>1. PICK a \in Attempts : /\ pay[o].paymentId = a /\ Captured(a, o)
                            /\ att[a].amount = pay[o].amount
    BY DEF DemoteInv, IInv, CompletedIsBacked
<1>2. CASE UNCHANGED pay
    BY <1>2
<1>3. ASSUME NEW h \in Reqs, RecordPayment(h) PROVE DemotedByVerify(o)
    <2>1. pay[req[h].order].status = "none"
        BY <1>0, <1>3 DEF RecordPayment, IInv, RequestOK
    <2>2. QED
        BY <1>0, <1>3, <2>1 DEF RecordPayment
<1>4. ASSUME NEW h \in Reqs, MarkMismatch(h) PROVE DemotedByVerify(o)
    <2>1. req[h].order = o
        BY <1>0, <1>4 DEF MarkMismatch
    <2>2. req[h].attempt # a
        BY <1>1, <1>4, <2>1 DEF MarkMismatch, DemoteInv, Mismatch, AmountMatches
    <2>3. req'[h].pc = "idle"
        BY <1>0, <1>4 DEF MarkMismatch, Finish, Idle
    <2>4. QED
        BY <1>1, <1>4, <2>1, <2>2, <2>3 DEF MarkMismatch, DemotedByVerify
<1>5. ASSUME NEW h \in Reqs, MarkCompleted(h) PROVE DemotedByVerify(o)
    BY <1>0, <1>5, VerifierFacts, CompletedDoc DEF MarkCompleted
<1>6. ASSUME NEW b \in Attempts, WebhookCaptured(b) PROVE DemotedByVerify(o)
    <2>1. att[b].status = "captured"
        BY <1>0, <1>6 DEF WebhookCaptured, IInv, WebhooksOK
    <2>2. att[b].order = o
        BY <1>0, <1>6 DEF WebhookCaptured
    <2>3. b = a
        BY <1>1, <2>1, <2>2 DEF DemoteInv, OneCapture, Captured
    <2>4. QED
        BY <1>0, <1>1, <1>6, <2>2, <2>3, CompletedDoc DEF WebhookCaptured, AmountMatches
<1>7. ASSUME NEW b \in Attempts, WebhookFailed(b) PROVE DemotedByVerify(o)
    BY <1>0, <1>7 DEF WebhookFailed, FailureIgnored, Settled
<1>8. QED
    BY <1>2, <1>3, <1>4, <1>5, <1>6, <1>7
       DEF Next, Client, Handler, Step, Razorpay, Webhook, Crash, vars, store, razorpay,
           Book, DeleteBooking, OwnerCancel, StaffEdits, OwnerPoints, TripEdited,
           StartOrder, StartDonation, StartVerify, CheckOwed, CreateRzpOrder, LinkOrder,
           FetchPayment, CaptureNow, VerifySeat, RequestFails, Charge, AutoCapture, Lapse,
           WebhookSeat, WebhookSeatFails

\* Webhook deliveries, however late or repeated, and completions never take a completed
\* payment back: only a verifyPayment that fetched another attempt, of another amount, does.
THEOREM OnlyMismatchesDemote == Spec => OnlyStaleVerifyDemotes
<1>1. DemoteInv /\ [Next]_vars =>
          [\A o \in Orders : pay[o].status = "completed" /\ pay'[o].status # "completed" =>
               DemotedByVerify(o)]_vars
    BY DemotedByMismatch
<1>2. QED
    BY <1>1, DemoteInvariance, PTL DEF Spec, OnlyStaleVerifyDemotes
=============================================================================
