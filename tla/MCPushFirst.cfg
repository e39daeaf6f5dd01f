SPECIFICATION Spec
CONSTANTS
    ble = ble
    unix = unix
    None = None
    Conns = {ble, unix}
    MayStall = {unix}
    Plans <- MCPlans
    Workers = {w1, w2}
    Ssids = {s1, s2}
    Passwds = {p1}
    MaxPush = 2
INVARIANT
    RespFirst
CHECK_DEADLOCK FALSE
