CONSTANTS
    Regs = {r1}
    Orders = {o1, o2}
    Attempts = {a1}
    Reqs = {h1}
    None = None
    Donation = Donation
    Quotes <- MCOneQuote
    SeatsOf <- MCSeatsOf
    Donations = {3}
    OddAmounts = {1}
    MaxOrder = 10
    MaxFaults = 0
    ConfirmMayFail = FALSE
SPECIFICATION Spec
PROPERTY PaidOwesNothing
