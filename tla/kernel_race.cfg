CONSTANTS
    r1 = r1  r2 = r2  c1 = c1  c2 = c2  c3 = c3  m1 = m1  m2 = m2
    Nil = Nil
    Replica = {r1, r2}
    Call = {c1, c2, c3}
    Post = {}
    Request <- Retried
    Policy <- Policies
    PolicyOf <- NoPosts
    InitialLog <- StartsTight
    Enforced = FALSE
    Day = 1
    MaxClock = 0
    MaxCrashes = 1
SPECIFICATION Spec
SYMMETRY Replicas
INVARIANTS TypeOK ChainUnforked IndexIsPrefix OneAllowPerAuthorization OutcomesAreEarned
PROPERTIES ImplementsOneUseBudget
CHECK_DEADLOCK FALSE
