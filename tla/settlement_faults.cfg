SPECIFICATION Spec
CONSTANTS
    Escrow = {e1, e2}
    Deliverer = {d1}
    Buyer = {b1, b2}
    Sweeper = {w1}
    Faults = {"db", "net", "crash"}
INVARIANT TypeOK
INVARIANT OneReleaser
INVARIANT RecordedMeansPaid
PROPERTY VoidIsFinal
PROPERTY ImplementsPayAfterDelivery
CHECK_DEADLOCK FALSE
