SPECIFICATION FairSpec
CONSTANTS
    t1 = t1
    t2 = t2
    alice = alice
    Turns = {t1, t2}
    Sessions = {alice}
    Owner <- OneSession
    Calls = {write}
    Cwd = "project"
    NoCall = NoCall
    MaxCalls = 3
    MaxResponses = 3
INVARIANTS TypeOK EntriesFollowWaits VerdictIsOwn
PROPERTIES ImplementsContract PauseEnds
CHECK_DEADLOCK FALSE
