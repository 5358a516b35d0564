SPECIFICATION KSpec
CONSTANTS
    Instances = {i1}
    Partitions = {p1, p2}
    Records = 2
    MaxPollRecords = 3
    CommitBatchSize = 2
    CommitChanCap = 1
    MaxWorkers = 1
    CommitMaxRetry = 1
    Faults = {"fetch"}
    Closers = {}
    MaxRevokes = 0
    MaxStarts = 1
    Nil = Nil
INVARIANTS
    CommittedWasHandled
