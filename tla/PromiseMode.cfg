SPECIFICATION FairSpec
CONSTANTS
    t1 = t1
    t2 = t2
    alice = alice
    Turns = {t1, t2}
    Sessions = {alice}
    Owner <- OneSession
    Calls = {write}
    Cwd = ""
    NoCall = NoCall
    MaxCalls = 3
    MaxResponses = 3
INVARIANTS TypeOK EntriesFollowWaits StoreIsPaidFor VerdictIsOwn
PROPERTIES ImplementsContract WaitEnds
CHECK_DEADLOCK FALSE
