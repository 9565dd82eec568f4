SPECIFICATION Spec
CONSTANTS
    Tasks = {t1}
    Groups = {}
    Runners = {r1}
    Requests = {p1, p2}
    Capacity = 1
    MaxClaims = 1
    MaxLeases = 2
    MaxSessions = 1
    MaxFaults = 1
    Slow = FALSE
    NoTask = NoTask
    Nobody = Nobody
INVARIANT IntentKept
CHECK_DEADLOCK FALSE
