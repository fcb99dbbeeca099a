\* The lock times out before the execution does, as the defaults have it.
CONSTANTS
    j1 = j1
    j2 = j2
    w1 = w1
    w2 = w2
    Jobs <- OneJob
    NoHandler <- Nobody
    Rank <- RankOne
    Workers <- TwoWorkers
    NoWorker = NoWorker
    MaxAttempts = 2
    LockTimeout = 1
    ExecTimeout = 2
    MaxConcurrent = 2
    MaxOutages = 0
SPECIFICATION Spec
INVARIANTS NoDoubleExecution
