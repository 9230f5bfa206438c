SPECIFICATION Spec
CONSTANTS
    Starters = {a}
    Stoppers = {x, y}
    Nobody = Nobody
    NumChannels = 2
    MaxFailures = 0
INVARIANTS OneStopRun
