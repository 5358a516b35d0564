SPECIFICATION ContendedSpec
CONSTANTS
    Ids <- MCTwoIds
    Compilable <- MCCompilable
    Writers <- MCWriters
    AddInputs <- MCFewInputs
    RemoveIds = {1}
    RuleLists = {}
    MaxOps = 4
    NoCall = NoCall
    None = None
    Admins = {a1, a2}
    Main = main
    FileWatcher = watcher
    Boot = "cli"
    StartRules <- MCStartOne
    FileLists <- MCFileLists
    SelfTestId = 9
    SelfTestInputs <- MCOneSelfTest
    MaxVersions = 1
    NoReq = NoReq
    Instances = {i1, i2}
    Partitions = {p1}
    Records = 2
    MaxPollRecords = 2
    CommitBatchSize = 2
    CommitChanCap = 1
    MaxWorkers = 1
    CommitMaxRetry = 0
    Faults = {"commit", "timeout", "crash"}
    Closers = {i1}
    MaxRevokes = 1
    MaxStarts = 1
    Nil = Nil
    Error = Error
    NumText <- MCNumText
    TextNum <- MCTextNum
    BoolText <- MCBoolText
    Names = {"f", "g"}
    stackMax = 4
    Fields = {"f", "g"}
    Sources <- MCSources
    RawCodes <- MCRawCodes
    Rows <- MCRows
SYMMETRY AdminSymmetry
VIEW ContendedView
INVARIANTS
    InStepEditableIsLive
    PublishedRulesCompile
    SoloEditPublishesMap
    CommittedWasHandled
    WorkersLeaveBeforeClose
    MachineTypeOK
    CompiledMeaning
    TreeWalkAgrees
    SQLReadsBack
    ExportKeepsMeaning
