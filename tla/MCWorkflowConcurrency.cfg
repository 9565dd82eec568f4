SPECIFICATION FairSpec
CONSTANTS
    Executions = {e1, e2, e3}
    Limits = {1, 2}
    Backlogs = {0, 1}
INVARIANTS TypeOK SlotAccounting HoldMatchesStatus
PROPERTIES NeverOverAdmits ImplementsAdmission QueuedIsServed
CHECK_DEADLOCK FALSE
