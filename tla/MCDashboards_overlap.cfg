SPECIFICATION Spec
CONSTANTS
    r1 = r1
    r2 = r2
    r3 = r3
    j1 = j1
    Runs = {r1, r2, r3}
    Jobs = {j1}
    None = None
    Nothing = Nothing
    Filters = {"all", "dead_letter"}
    LastChange = 2
    MaxLeftOver = 1
INVARIANT NoOverlappingPolls
