SPECIFICATION FairSpec
CONSTANTS
    ble = ble
    unix = unix
    None = None
    Conns = {ble, unix}
    MayStall = {unix}
    Plans <- MCPlans
    Workers = {w1, w2}
    Ssids = {s1, s2}
    Passwds = {p1}
    MaxPush = 2
INVARIANTS
    AnsweredInOrder
    PushesMatchRequests
    JoinsWhatWasStored
PROPERTIES
    ResultFollows
    StallSparesSwitch
CHECK_DEADLOCK FALSE
