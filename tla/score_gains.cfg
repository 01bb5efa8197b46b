SPECIFICATION Spec
CONSTANTS
    a1 = a1  u1 = u1  u2 = u2  law = law  tax = tax
    None = None
    Agent = {a1}
    Domain = {law, tax}
    Receipt = {1, 2, 3, 4}
    About <- FourReceipts
    Slot = {u1, u2}
    Request <- TwoActors
    Appliers = {"app", "both", "trigger"}
    Decays = {0, 1}
    Gain = 2
    Wrong = 4
    DayCap = 3
    DomainCap = 3
    Start = 3
    Floor = 1
    Ceiling = 9
    Ttl = 2
    LastDay = 1
    MaxFaults = 1
INVARIANTS TypeOK OneMovePerReceipt GainsWithinBudget TriggerReplays
CHECK_DEADLOCK FALSE
