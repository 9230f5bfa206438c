SPECIFICATION FairSpec
CONSTANTS
    MaxSteps = 3
    MaxToolCalls = 3
    Retries = 2
    WindowSize = 2
    AlwaysDone = FALSE
    MaxResults = 5
INVARIANTS TypeOK Budgets WindowIsSound
PROPERTIES TurnEnds
CHECK_DEADLOCK FALSE
