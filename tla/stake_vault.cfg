SPECIFICATION FairSpec
CONSTANTS
    b1 = b1  t1 = t1  t2 = t2  d1 = d1  d2 = d2  w1 = w1  w2 = w2  w3 = w3  n1 = n1  x1 = x1
    None = None
    Builder = {b1}
    Transfer = {t1, t2}
    Value <- Values
    Deposit = {d1, d2}
    Claim <- Claims
    Withdrawal = {w1, w2, w3}
    Approval = {n1}
    Presents <- ApprovedTwice
    ExpiresAt <- Expiry
    Ask <- Asks
    Simulated <- OldStake
    Bet = {x1}
    Bettor <- Bettors
    LastTick = 1
    MaxFaults = 1
INVARIANTS TypeOK ApprovalPassesOnce DebitsAreRefunds RefundsCovered OpenBetsHold
PROPERTY WithdrawalsReturn
CHECK_DEADLOCK FALSE
