CONSTANTS
    Procs = {p1}
    Docs = {"u1", "t1"}
    Collections = {"users", "trips"}
    CollectionOf <- MCCollectionOf
    Typed = {"users", "trips"}
    Copied <- MCCopied
    Unplaceable = {}
    None = None
    Had = {"users"}
    MaxWrites = 2
    MaxCrashes = 0
SPECIFICATION FairSpec
INVARIANT MigratesAgain
CHECK_DEADLOCK FALSE
