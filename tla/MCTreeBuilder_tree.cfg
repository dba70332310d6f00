SPECIFICATION Spec
CONSTANTS
    Characters = {" ", "x"}
    White = {" "}
    Names <- MCNames
    MaxNodes = 10
    Documents <- MCDocuments
    Replacement <- MCReplacement
    MaxAttributes = 2
    MaxDepth = 3
INVARIANTS 
    TypeOK
    TreeAsWritten
    WellFormedIsParsed
    WhiteSpaceMarked
    ContentsCurrent
CHECK_DEADLOCK FALSE
