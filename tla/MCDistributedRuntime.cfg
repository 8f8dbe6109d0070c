SPECIFICATION Spec
CONSTANTS
    MaxWorld = 3
    Scripts <- MCScripts
    Node <- MCNode
    Environments <- MCEnvironments
    DeviceLists <- MCDeviceLists
    Unset = Unset
    Garbage = Garbage
INVARIANTS
    TypeOK
    SessionNeverMisused
    OwnedSessionIsClosed
    CollectivesAgree
    ProbeAgreesWithRuntime
    DevicesAreSpread
PROPERTIES
    EveryoneEnds
CHECK_DEADLOCK FALSE
