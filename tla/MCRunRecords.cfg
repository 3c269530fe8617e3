SPECIFICATION MCSpec
CONSTANTS
    a1 = a1
    a2 = a2
    b1 = b1
    b2 = b2
    v1 = v1
    v2 = v2
    o1 = o1
    l1 = l1
    l2 = l2
    l3 = l3
    c1 = c1
    j1 = j1
    Mock = Mock
    None = None
    Null = Null
    Keys = {a1, a2}
    CaseNames = {b1, b2}
    Values = {v1, v2}
    Orders = {o1}
    Loaders = {l1, l2, l3}
    Clients = {c1}
    Jobs = {j1}
    Workers = {a1, a2}
    GeminiModels = {b1, b2}
    MaxDeploys = 1
    ActiveDays <- MCActiveDays
    Tickets <- MCTickets
    NpsScores <- MCNpsScores
    Mentions <- MCMentions
    BaseWait = 2
    MaxWait = 7
    MaxAttempts = 4
    MaxTime = 20
SYMMETRY MCSymmetry
INVARIANT AnswersAreTrue
INVARIANT RunsKeepMeaning
INVARIANT OneSelectionPerJob
INVARIANT RunsAreWhatTheySay
INVARIANT MockIsJudgedByItsRules
INVARIANT WaitAddsUp
INVARIANT RunAfterIsRight
CHECK_DEADLOCK FALSE
