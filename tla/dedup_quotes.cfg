SPECIFICATION PipeSpec
CONSTANTS
    Error = Error
    NumText <- MCNumText
    TextNum <- MCTextNum
    BoolText <- MCBoolText
    Names = {"f", "g"}
    stackMax = 4
    Fields = {"f", "g"}
    Sources <- TwoLists
    RawCodes <- MCRawCodes
    Rows <- MCRows
CHECK_DEADLOCK FALSE
INVARIANT
    RewritesKeepMeaning
