SPECIFICATION PanelFairSpec
CONSTANTS
    Escrow = {e1}
    Deliverer = {d1}
    Buyer = {b1}
    Sweeper = {}
    Faults = {"net"}
    Disputer = {p1}
    Panel = {w1, w2}
    MaxFaults = 1
INVARIANT PanelTypeOK
INVARIANT OneRulingPerRow
INVARIANT RulingExcludesReward
PROPERTY RowIsReleased
PROPERTY ClaimIsGivenUp
CHECK_DEADLOCK FALSE
