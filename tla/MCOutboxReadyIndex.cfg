SPECIFICATION FairSpec
CONSTANTS
    Entries = {e1, e2}
    Drainers = {d1}
    Horizon = 1
    SweepEvery = 2
    MaxFaults = 1
INVARIANTS
    TypeOK
    Registered
PROPERTIES
    WorkIsDrained
    OrphanIsRemoved
