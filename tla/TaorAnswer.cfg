SPECIFICATION Spec
CONSTANTS
    MaxSteps = 3
    MaxToolCalls = 3
    Retries = 2
    WindowSize = 2
    AlwaysDone = TRUE
    MaxResults = 5
INVARIANTS AnswerSeesResults
CHECK_DEADLOCK FALSE
