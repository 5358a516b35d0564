SPECIFICATION KSpec
CONSTANTS
    Instances = {i1}
    Partitions = {p1}
    Records = 1
    MaxPollRecords = 1
    CommitBatchSize = 1
    CommitChanCap = 1
    MaxWorkers = 1
    CommitMaxRetry = 0
    Faults = {}
    Closers = {i1}
    MaxRevokes = 1
    MaxStarts = 1
    Nil = Nil
INVARIANTS
    NoSendAfterClose
