CONSTANTS
    Users = {u1, u2}
    Sevas = {s1}
    Callers = {c1, c2}
    Sizes = {1, 2}
    Kinds <- AllKinds
    None = None
    Gone = Gone
    MaxAttempts = 2
    MaxOneSided = 1
SYMMETRY Interchangeable
SPECIFICATION Spec
INVARIANT CounterMatches
