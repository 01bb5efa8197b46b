SPECIFICATION FairSSpec
CONSTANTS
    a1 = a1  u1 = u1  w = w
    None = None
    Agent = {a1}
    Domain = {}
    Receipt = {1, 2, 3}
    About <- Decoyed
    Slot = {u1, w}
    Request <- Culprit
    Settler = w
    Appliers = {"both", "trigger"}
    Decays = {0, 1}
    Gain = 2
    Wrong = 4
    DayCap = 3
    DomainCap = 3
    Start = 3
    Floor = 1
    Ceiling = 9
    Ttl = 2
    Grace = 0
    ScanLimit = 1
    MaxPerRun = 1
    LastDay = 2
    MaxFaults = 1
INVARIANTS STypeOK OneMovePerReceipt
PROPERTY WrongsAreNotOptIn
CHECK_DEADLOCK FALSE
