CONSTANTS
    Docs = {"d1", "d2"}
    CollectionOf <- MCCollectionOf
    Rank <- MCRank
    Clients = {c1, c2}
    Calls <- MCCalls
    Typed = {"n"}
    Column <- MCColumn
    SqlInts <- MCSqlInts
    None = None
    MaxAttempts = 2
    MaxVersion = 2
    Operands <- MCOperands
    Lists <- MCLists
    Users = {u1}
    Sevas = {s1}
    Sizes = {1}
    Kinds <- MCKinds
    Gone = Gone
    MaxOneSided = 1
SPECIFICATION MCSpec
PROPERTIES ImplementsSerialStore QueriesFind EveryCallAnswered EveryCallEnds
