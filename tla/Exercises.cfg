CONSTANTS
    None = None
    NUL = NUL
    letterA = letterA
    letterB = letterB
SPECIFICATION Spec
INVARIANTS
    TypeOK
    ContentsSurvive
    TreesAgree
    
CHECK_DEADLOCK FALSE
