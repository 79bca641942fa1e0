CONSTANTS
    Members = {m1, m2}
    Taps = {t1, t2, t3}
    Devices = {v1, v2}
    Rounds = {8, 16, 20}
    Targets = {8, 16}
    None = None
    MaxCommits = 6
    MaxRolls = 3
    LastDay = 5
    MaxWrites = 6
    Collections = {"events", "trips"}
    Pages = {p1}
    max = 3
    MaxBoots = 2
    MaxFeed = 4
SPECIFICATION MCSpec
INVARIANTS TypeOK CountersMatch RecordedOnce SummaryMatches ClientAccepted NothingMissed
PROPERTY PagesCatchUp
CHECK_DEADLOCK FALSE
