\* Two jobs (one has no handler) on two workers of capacity one, a stop or a crash.
CONSTANTS
    j1 = j1
    j2 = j2
    w1 = w1
    w2 = w2
    Jobs <- TwoJobs
    NoHandler <- SecondJob
    Rank <- RankTwo
    Workers <- TwoWorkers
    NoWorker = NoWorker
    MaxAttempts = 2
    LockTimeout = 1
    ExecTimeout = 1
    MaxConcurrent = 1
    MaxOutages = 1
SYMMETRY WorkerSymmetry
SPECIFICATION Spec
INVARIANTS TypeOK LockProtects CapacityRespected DeadLetterIsDeserved
PROPERTIES SettledStays
