SPECIFICATION FairSpec
CONSTANTS
    Units <- MCUnits
    Edges <- RaceEdges
    WaitAny <- RaceWaitAny
    OnError <- RaceOnError
    MaxAttempts <- MCMaxAttempts
    Mode <- RaceMode
    Ports <- MCPorts
    Backend = "memory"
    MaxLeases <- RaceMaxLeases
INVARIANT JoinRespected
PROPERTIES Terminates
CHECK_DEADLOCK FALSE
