\* One job, two workers, hung handlers, a stop or a crash: every job comes to rest.
CONSTANTS
    j1 = j1
    j2 = j2
    w1 = w1
    w2 = w2
    Jobs <- OneJob
    NoHandler <- Nobody
    Rank <- RankOne
    Workers <- TwoWorkers
    NoWorker = NoWorker
    MaxAttempts = 2
    LockTimeout = 1
    ExecTimeout = 2
    MaxConcurrent = 1
    MaxOutages = 1
SPECIFICATION FairSpec
PROPERTIES ComesToRest
