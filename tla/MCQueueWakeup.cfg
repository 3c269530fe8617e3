SPECIFICATION FairSpec
CONSTANTS
    s1 = s1
    s2 = s2
    j1 = j1
    Slots = {s1, s2}
    Jobs = {j1}
    MaxBreaks = 1
INVARIANT NoWakeupLost
PROPERTY EveryDueJobIsClaimed
PROPERTY ShutdownDrains
CHECK_DEADLOCK FALSE
