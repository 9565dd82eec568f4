SPECIFICATION FairSpec
CONSTANTS
    Entries = {e1}
    Deliverers = {d1, d2}
    Requests = {r1}
    Sources = {"execute", "advance"}
    Backend = "redis"
    TTL = 1
    MaxAttempts = 2
    MaxFaults = 1
INVARIANTS
    TypeOK
    BodyIffReady
    NothingLost
    DeadIsEarned
    ExclusiveUnlessDisturbed
PROPERTIES
    ImplementsOutbox
    ReceiptsAreFinal
    Settles
CHECK_DEADLOCK FALSE
