SPECIFICATION FairAdminConsumerSpec
CONSTANTS
    Ids <- MCIds
    Compilable <- MCCompilable
    Writers <- MCWriters
    AddInputs <- MCAddInputs
    RemoveIds = {1, 2}
    RuleLists = {}
    MaxOps = 5
    NoCall = NoCall
    None = None
    Admins = {a1}
    Main = main
    FileWatcher = watcher
    Boot = "cli"
    StartRules <- MCStartRules
    FileLists = {}
    SelfTestId = 9
    SelfTestInputs <- MCSelfTests
    MaxVersions = 2
    NoReq = NoReq
    Instances = {i1}
    Partitions = {p1, p2}
    Records = 2
    MaxPollRecords = 2
    CommitBatchSize = 2
    CommitChanCap = 1
    MaxWorkers = 1
    CommitMaxRetry = 1
    Faults = {"fetch", "commit"}
    Closers = {i1}
    MaxRevokes = 1
    MaxStarts = 1
    Nil = Nil
INVARIANTS
    EditableIsLive
    SelfTestsSucceed
    CloseCommitsEnqueued
PROPERTIES
    CloseReturns
