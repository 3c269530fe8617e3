SPECIFICATION Spec
CONSTANTS
    s1 = s1
    j1 = j1
    Slots = {s1}
    NoSlot = NoSlot
    Jobs = {j1}
    MaxAttempts = 1
    LastStep = 2
    Checked = {2}
PROPERTY NothingStartsAfterDeadline
CHECK_DEADLOCK FALSE
