SPECIFICATION Spec
CONSTANTS
    s1 = s1
    s2 = s2
    j1 = j1
    Slots = {s1, s2}
    NoSlot = NoSlot
    Jobs = {j1}
    MaxAttempts = 2
    LastStep = 2
    Checked = {2}
SYMMETRY MCSymmetry
INVARIANT DeadlineReleasesEveryAttempt
CHECK_DEADLOCK FALSE
