CONSTANTS
    Procs = {p1, p2}
    Docs = {"u1", "x1"}
    Collections = {"users"}
    CollectionOf <- MCCollectionOf
    Typed = {"users"}
    Copied <- MCCopied
    Unplaceable = {"x1"}
    None = None
    Had = {"users", "system"}
    MaxWrites = 3
    MaxCrashes = 1
SPECIFICATION FairSpec
INVARIANTS  CopyComplete MigratesAgain
PROPERTY EveryStartEnds
CHECK_DEADLOCK FALSE
