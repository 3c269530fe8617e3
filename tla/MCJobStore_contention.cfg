SPECIFICATION Spec
CONSTANTS
    w1 = w1
    s1 = s1
    s2 = s2
    s3 = s3
    Jobs <- MCOneJob
    Workers = {w1}
    NoWorker = NoWorker
    Sessions = {s1, s2, s3}
    MaxAttempts <- MCTwoAttempts
    ReaperBatch = 1
    MaxRequeues = 1
SYMMETRY MCSymmetry
INVARIANT RowsAreConsistent
INVARIANT OneAcceptedCompletion
INVARIANT ClaimsSettledInOrder
INVARIANT AttemptAccounting
INVARIANT CheckedTransactionStillOwns
PROPERTY ImplementsLifecycle
