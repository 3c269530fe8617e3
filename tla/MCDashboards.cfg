SPECIFICATION Spec
CONSTANTS
    r1 = r1
    r2 = r2
    j1 = j1
    j2 = j2
    Runs = {r1, r2}
    Jobs = {j1, j2}
    None = None
    Nothing = Nothing
    Filters = {"all", "dead_letter"}
    LastChange = 2
    MaxLeftOver = 1
SYMMETRY MCSymmetry
INVARIANT OneAnswerAwaited
INVARIANT OnlyTheChosenIsShown
PROPERTY ViewsNeverGoBack
PROPERTY DetailsComeInOrder
