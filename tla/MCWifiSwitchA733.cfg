SPECIFICATION FairSpec
CONSTANTS
    n1 = n1
    n2 = n2
    Sw = Sw
    AP = AP
    None = None
    Networks = {n1, n2}
    MaxFaults = 1
    MaxCalls = 2
INVARIANTS
    NotSteppedOn
PROPERTIES
    RestoresAp
    StoredIsRetried
    Reachable
CHECK_DEADLOCK FALSE
