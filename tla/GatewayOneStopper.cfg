SPECIFICATION FairSpec
CONSTANTS
    Starters = {a, b}
    Stoppers = {x}
    Nobody = Nobody
    NumChannels = 2
    MaxFailures = 3
INVARIANTS TypeOK OneAtATime FlagIsTrue
PROPERTIES CallsReturn
