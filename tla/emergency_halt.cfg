SPECIFICATION Spec
CONSTANTS
    w1 = w1  w2 = w2
    None = None
    Worker = {w1}
    CacheMs = 2
    TimeoutMs = 1
    Interval = 2
    Value = {"off", "on", "absent"}
    MaxFlips = 2
    MaxFaults = 2
    LastTick = 7
INVARIANTS TypeOK AnswersAreFresh GuardIsFresh
CHECK_DEADLOCK FALSE
