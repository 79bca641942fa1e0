CONSTANTS
    Uids = {root, u1, u2}
    Root = root
    Phones = {p1, p2}
    Reqs = {r1, r2}
    None = None
    MaxOutside = 2
SYMMETRY Symmetry
SPECIFICATION Spec
INVARIANTS LoginHoldsItsPhone
PROPERTIES NumbersStay 
