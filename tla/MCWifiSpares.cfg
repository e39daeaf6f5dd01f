SPECIFICATION Spec
CONSTANTS
    home24 = home24
    home5 = home5
    Sw = Sw
    None = None
    Networks = {home24}
    BandOf <- MCOne24
    MaxFaults = 0
    MaxCalls = 2
    MaxEvents = 2
PROPERTIES
    MonitorSparesJoin
CHECK_DEADLOCK FALSE
