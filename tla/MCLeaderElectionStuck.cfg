SPECIFICATION FairSpec
CONSTANTS
    Electors = {i1}
    Renewers = {g1, g2}
    Callers = {q1}
    Tokens = {1, 2, 3, 4}
    TTL = 3
    Margin = 1
    MaxDelay = 1
    Prompt = TRUE
    Tolerance = 2
    MaxFaults = 0
PROPERTIES
    LeadershipReturns
CHECK_DEADLOCK FALSE
