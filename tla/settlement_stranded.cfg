SPECIFICATION Spec
CONSTANTS
    Escrow = {e1}
    Deliverer = {d1}
    Buyer = {b1}
    Sweeper = {w1}
    Faults = {}
INVARIANT StrandedIsFound
CHECK_DEADLOCK FALSE
