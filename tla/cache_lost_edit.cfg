SPECIFICATION Spec
CONSTANTS
    Ids <- MCIds
    Compilable <- MCCompilable
    AddInputs <- MCAddInputs
    RuleLists <- MCRuleLists
    RemoveIds = {2}
    Writers = {w1, w2}
    MaxOps = 2
    NoCall = NoCall
    None = None
INVARIANT
    EditsTakeEffect
