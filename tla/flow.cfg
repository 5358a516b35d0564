SPECIFICATION ScoringDeliverySpec
CONSTANTS
    Ids <- MCIds
    Compilable <- MCCompilable
    Writers = {w1}
    AddInputs <- MCAddInputs
    RemoveIds = {}
    RuleLists = {}
    MaxOps = 1
    NoCall = NoCall
    None = None
    Requests = {q1, q2, q3}
    MaxConcurrentUsers = 2
    BatchSizes = {2}
    HitSources <- MCHitSources
    Instances = {i1, i2}
    Partitions = {p1}
    Records = 3
    MaxPollRecords = 3
    CommitBatchSize = 2
    CommitChanCap = 2
    MaxWorkers = 1
    CommitMaxRetry = 1
    Faults = {}
    Closers = {}
    MaxRevokes = 2
    MaxStarts = 1
    Nil = Nil
INVARIANTS
    JudgedBound
    OneRuleSetPerRequest
    NamesComplete
    HandledOnce
PROPERTIES
    RequestsAnswered
    CommitsNeverRewind
    AllCommitted
