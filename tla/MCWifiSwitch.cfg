SPECIFICATION FairSpec
CONSTANTS
    home24 = home24
    home5 = home5
    Sw = Sw
    None = None
    Networks = {home24, home5}
    BandOf <- MCBandOf
    MaxFaults = 2
    MaxCalls = 2
    MaxEvents = 3
INVARIANTS
    NotSteppedOn
PROPERTIES
    OnlyProvenStored
    RestoresAp
    CallReturns
    Reachable
CHECK_DEADLOCK FALSE
