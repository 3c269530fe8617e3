SPECIFICATION FairSpec
CONSTANTS
    a1 = a1
    a2 = a2
    Attempts = {a1, a2}
    Period = 2
    Capacity = 3
    MaxTime = 1
    MaxJumps = 1
INVARIANT TokensAreEarned
INVARIANT CallsStayWithinRate
INVARIANT ChargedAttemptHasItsJob
PROPERTY EveryWaitEnds
CHECK_DEADLOCK FALSE
