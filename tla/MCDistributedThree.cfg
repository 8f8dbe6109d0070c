SPECIFICATION RunSpec
CONSTANTS
    MaxWorld = 3
    Jobs <- MCThreeRankJobs
    RunIds = {"a", "b", ""}
    Labels = {"p"}
    NoRunId = ""
    Unsafe = {}
    Files = {"f"}
    Escaping = {}
    MaxAttempts = 1
    NoFile = NoFile
    Torn = Torn
INVARIANTS
    DoneMeansAssembled
CHECK_DEADLOCK FALSE
PROPERTIES
    JobEnds
