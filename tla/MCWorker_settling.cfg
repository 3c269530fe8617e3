SPECIFICATION TimersSpec
CONSTANTS
    s1 = s1
    j1 = j1
    Slots = {s1}
    NoSlot = NoSlot
    Jobs = {j1}
    MaxAttempts = 2
    LastStep = 3
    Checked = {1, 3}
INVARIANT DeadlineReleasesEveryAttempt
PROPERTY EveryClaimIsSettled
PROPERTY ShutdownTerminates
CHECK_DEADLOCK FALSE
