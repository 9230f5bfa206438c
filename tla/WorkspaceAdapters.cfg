SPECIFICATION Spec
CONSTANTS
    Starters = {a}
    Stoppers = {x}
    NumOwn = 1
    NumAdapters = 1
    MaxFailures = 0
INVARIANTS FailedStartLeavesNothing
