CONSTANTS
    r1 = r1  r2 = r2  c1 = c1  c2 = c2  c3 = c3  m1 = m1  m2 = m2
    Nil = Nil
    Replica = {r1}
    Call = {c1, c2, c3}
    Post = {m1}
    Request <- Repeated
    Policy <- Policies
    PolicyOf <- PostsNarrow
    InitialLog <- StartsWide
    Enforced = FALSE
    Day = 1
    MaxClock = 1
    MaxCrashes = 0
SPECIFICATION Spec
INVARIANTS OneAllowPerAuthorization
PROPERTIES ImplementsOneUseBudget
CHECK_DEADLOCK FALSE
