SPECIFICATION FairSpec
CONSTANTS
    Tasks = {t1}
    Groups = {}
    Runners = {r1}
    Requests = {p1, p2}
    Capacity = 1
    MaxClaims = 1
    MaxLeases = 2
    MaxSessions = 2
    MaxFaults = 2
    Slow = FALSE
    NoTask = NoTask
    Nobody = Nobody
INVARIANTS SessionsCurrent LostOnlyAsDuplicate
PROPERTY HandoffSettled
CHECK_DEADLOCK FALSE
