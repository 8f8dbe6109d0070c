SPECIFICATION Spec
CONSTANTS
    Names = {"a.vtkhdf", ""}
    Texts <- MCTexts
    Paths <- MCPaths
    HdfEndings = {"a.vtkhdf", "x.vtkhdf"}
    MaxSteps = 2
    Digits <- MCDigits
    Value <- MCValue
    MaxVtkId = 7
    MaxChanges = 3
INVARIANTS
    TypeOK
    FrameReadsItsStep
    LiteralPathTakesPrecedence
CHECK_DEADLOCK FALSE
