SPECIFICATION ScoreSpec
CONSTANTS
    Ids <- MCIds
    Compilable <- MCCompilable
    Writers = {w1}
    AddInputs <- MCAddInputs
    RemoveIds = {}
    RuleLists = {}
    MaxOps = 1
    NoCall = NoCall
    None = None
    Requests = {q1, q2}
    MaxConcurrentUsers = 2
    BatchSizes = {2}
    HitSources <- MCHitSources
INVARIANT
    JudgedWithinCap
