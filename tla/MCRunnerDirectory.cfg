SPECIFICATION Spec
CONSTANTS
    Tasks = {t1, g1}
    Groups = {g1}
    Runners = {r1}
    Requests = {p1, p2}
    Capacity = 1
    MaxClaims = 2
    MaxLeases = 1
    MaxSessions = 1
    MaxFaults = 1
    Slow = FALSE
    NoTask = NoTask
    Nobody = Nobody
SYMMETRY Symmetry
INVARIANTS TypeOK CapacityExact LedgerMatches FenceFirst ParkedIsReady
CHECK_DEADLOCK FALSE
