SPECIFICATION FairSpec
CONSTANTS
    Starters = {a, b}
    Stoppers = {x, y}
    NumOwn = 2
    NumAdapters = 2
    MaxFailures = 2
INVARIANTS TypeOK OneAtATime RunningMeansServing DownMeansReleased
PROPERTIES CallsReturn
