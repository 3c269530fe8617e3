SPECIFICATION CliSpec
CONSTANTS
    c1 = c1
    c2 = c2
    r1 = r1
    r2 = r2
    CaseNames = {c1, c2}
    Datasets = {"d1", "d2"}
    Scores <- MCScores
    NoScore = NoScore
    Runs = {r1, r2}
    NoRun = NoRun
    MaxRedrives = 1
SYMMETRY MCSymmetry
INVARIANT GateIsRight
INVARIANT ReportsAddUp
INVARIANT ExportsStayTrue
INVARIANT ComparisonIsSettled
INVARIANT VerdictIsTrue
INVARIANT OneRunAtMost
CHECK_DEADLOCK FALSE
