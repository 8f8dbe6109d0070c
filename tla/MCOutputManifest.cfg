SPECIFICATION Spec
CONSTANTS
    main = main
    thread = thread
    other = other
    Callers = {main, thread, other}
    Processes = {"p", "q"}
    Process <- MCProcess
    Files = {"pvd", "vtm", "hdf"}
    Family = {"pvd", "hdf"}
    Hdf = {"hdf"}
    Pvds = {"pvd"}
    References <- MCReferences
    Targets = {"vtm"}
    Ticks = {0}
    MaxSequence = 2
    MaxActive = 2
    MaxChanges = 1
    NoFile = NoFile
    Torn = Torn
INVARIANTS
    TypeOK
    TempsBelongToCalls
    PublishedIsInside
    DescribesWhatStayed
PROPERTIES
    ManifestIsAtomic
SYMMETRY MCSymmetry
CHECK_DEADLOCK FALSE
