SPECIFICATION Spec
CONSTANTS
    Units <- MCUnits
    Edges <- MCEdges
    WaitAny <- MCWaitAny
    OnError <- MCOnError
    MaxAttempts <- MCMaxAttempts
    Mode <- MCMode
    Ports <- MCPorts
    Backend = "redis"
    MaxLeases <- MCMaxLeases
INVARIANTS TypeOK CountersExact NoLostWork VerdictSound
PROPERTIES DecisionsAreFinal CancelWins ImplementsDataflow
CHECK_DEADLOCK FALSE
