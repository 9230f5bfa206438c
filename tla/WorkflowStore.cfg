SPECIFICATION Spec
CONSTANTS
    s1 = s1
    u1 = u1
    Nobody = Nobody
    Callers <- SessionAndBase
    Calls = {write}
    Sessions = {s1}
    Users = {u1}
    Expiry = 1
    GrantOptions <- Options
    MaxAudit = 1
    MaxTime = 3
    MaxGrants = 2
    MaxRequests = 2
INVARIANTS TypeOK FileIsCurrent CountedUses OnePendingPerCaller
PROPERTIES DecidedStays
CHECK_DEADLOCK FALSE
