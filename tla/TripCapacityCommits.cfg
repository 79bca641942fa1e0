CONSTANTS
    r1 = r1
    r2 = r2
    r3 = r3
    r4 = r4
    t1 = t1
    t2 = t2
    Regs = {r1, r2, r3, r4}
    Trips = {t1, t2}
    Txs = {x1, x2}
    None = None
    TripOf <- MCTripOf
    SeatsOf <- MCSeatsOf
    Caps = {None, 0, 1, 2}
    Commits <- MCCommits
    MaxAttempts = 2
    PaidBookings = {b1}
    Orders = {o1}
    Attempts = {a1, a2}
    Reqs = {h1}
    Donation = Donation
    Donations = {3}
    OddAmounts = {1}
    MaxOrder = 10
    MaxFaults = 1
    ConfirmMayFail = FALSE
SPECIFICATION MCSpec
INVARIANTS SeatsTakenExact PointerIsOwn
PROPERTIES NeverOversold EveryCommitEnds CaptureIsRecorded PaidSeatIsConfirmed
