SPECIFICATION RunSpec
CONSTANTS
    MaxWorld = 2
    Jobs <- MCTwoRankJobs
    RunIds = {"a", "b", ""}
    Labels = {"p"}
    NoRunId = ""
    Unsafe = {}
    Files = {"f"}
    Escaping = {}
    MaxAttempts = 2
    NoFile = NoFile
    Torn = Torn
INVARIANTS
    AssemblyFromThisAttempt
CHECK_DEADLOCK FALSE
