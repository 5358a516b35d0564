SPECIFICATION MgrSpec
CONSTANTS
    Ids <- MCIds
    Compilable <- MCCompilable
    Writers <- MCWriters
    AddInputs <- MCAddInputs
    RemoveIds = {1, 2}
    RuleLists = {}
    MaxOps = 5
    NoCall = NoCall
    None = None
    Admins = {a1}
    Main = main
    FileWatcher = watcher
    Boot = "api"
    StartRules <- MCStartRules
    FileLists = {}
    SelfTestId = 9
    SelfTestInputs <- MCSelfTests
    MaxVersions = 2
    NoReq = NoReq
INVARIANT
    EditableIsLive
