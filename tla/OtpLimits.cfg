CONSTANTS
    Codes = {c1, c2, c3, c4, c5}
    Reqs = {q1, q2}
    None = None
    Ttl = 3
    Window = 5
    MaxResends = 2
    Day = 9
    MaxSends = 3
    Interval = 2
    MaxAttempts = 2
    Timeout = 1
    DayStart = 1
    MaxTime = 12
SYMMETRY Interchangeable
SPECIFICATION Spec
CHECK_DEADLOCK FALSE
INVARIANTS TypeOK SendLimits GuessesPerCode GuessesPerDay
PROPERTIES AcceptedOnce ClearsOwnCode
