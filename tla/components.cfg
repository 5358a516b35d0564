SPECIFICATION CompSpec
CONSTANTS
    Ids <- MCIds
    Compilable <- MCCompilable
    AddInputs <- MCAddInputs
    RuleLists <- MCRuleLists
    RemoveIds = {2}
    Writers = {w1}
    MaxOps = 3
    NoCall = NoCall
    None = None
    EvalIds = {1, 2}
    GivenTexts = {"a", "bad"}
    Flagship = "flag"
    Readable = {"a", "flag"}
    Passing = {"a"}
    N = 7
    PoolWorkers = 2
    GOMAXPROCS = 1
    RuleIds <- MCRuleIds
    Matches <- MCMatches
    Unset = Unset
    Capacity = 4
    Default = 5
    Latencies = {1, 2}
    MaxRecords = 9
    maxRetries = 3
    Hosts = {h1, h2}
    NoHost = NoHost
    Contents = {1, 2, 3}
    First = 1
    MaxSaves = 3
    MaxRequests = 2
    Records = {r1, r2}
    Configs <- MCConfigs
    NoConfig = NoConfig
    MaxTries = 2
INVARIANTS
    AnswerWasTrue
    ResultsComplete
    WindowIsRecent
    AppliedWithinRetries
    OutcomeIsTrue
    ToldTheTruth
    DrainedBeforeClose
    LogsOutliveComponents
    NoSignalOnClosed
    DeliveredOnce
    CloseDropsNothing
PROPERTIES
    ImplementsRuleSet
    Terminates
    StopsSending
    CallReturns
    TransactionEnds
    SavedGoesLive
    SignalEndsProcess
    HardBoundReports
