SPECIFICATION Spec
CONSTANTS
    MaxWorld = 2
    Jobs <- MCJobs
    RunIds = {"a", "b", ""}
    Labels = {"p", "q"}
    NoRunId = ""
    Unsafe = {}
    Files = {"f"}
    Escaping = {}
    MaxAttempts = 2
    NoFile = NoFile
    Torn = Torn
INVARIANTS
    TypeOK
    AssemblyCoversEveryRank
    WriterAgreesWithValidator
PROPERTIES
    ShardPublicationIsAtomic
CHECK_DEADLOCK FALSE
