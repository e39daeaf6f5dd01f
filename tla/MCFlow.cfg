SPECIFICATION FairSpec
CONSTANTS
    a = a
    b = b
    c = c
    Producers = {a, b, c}
    N = 2
    SlotOf <- MCSlotOf
    Inputs <- MCInputs
    MaxSend <- MCMaxSend
    None = None
INVARIANTS FetchFinds Bounded InOrder
PROPERTIES QueueSpec StopWakesSleeper
CHECK_DEADLOCK FALSE
