SPECIFICATION FairSpec
CONSTANTS
    w1 = w1
    s1 = s1
    Jobs <- MCTwoJobs
    Workers = {w1}
    NoWorker = NoWorker
    Sessions = {s1}
    MaxAttempts <- MCYoungerHasTwo
    ReaperBatch = 1
    MaxRequeues = 0
INVARIANT TypeOK
PROPERTY EveryQueuedJobIsClaimed
PROPERTY ExpiredLeaseIsRecovered
PROPERTY ReaperEnds
