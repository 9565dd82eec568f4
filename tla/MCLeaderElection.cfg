SPECIFICATION FairSpec
CONSTANTS
    Electors = {i1, i2}
    Renewers = {g1}
    Callers = {}
    Tokens = {1, 2, 3, 4}
    TTL = 3
    Margin = 1
    MaxDelay = 1
    Prompt = TRUE
    Tolerance = 2
    MaxFaults = 1
INVARIANTS
    TypeOK
    OneLeader
PROPERTIES
    LeadershipReturnsUnraced
CHECK_DEADLOCK FALSE
