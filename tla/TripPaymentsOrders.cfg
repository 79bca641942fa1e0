CONSTANTS
    Regs = {r1}
    Orders = {o1, o2}
    Attempts = {a1, a2}
    Reqs = {h1, h2}
    None = None
    Donation = Donation
    Quotes <- MCQuotes
    SeatsOf <- MCSeatsOf
    Donations = {1}
    OddAmounts = {1}
    MaxOrder = 10
    MaxFaults = 1
    ConfirmMayFail = TRUE
SYMMETRY Interchangeable
SPECIFICATION Spec
CONSTRAINT FailedOrDonated
INVARIANTS TypeOK NoOrphanCharge CompletedIsBacked SeatIsPaid
PROPERTIES SettledNeverUndone OnlyStaleVerifyDemotes
