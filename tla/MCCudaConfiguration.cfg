SPECIFICATION Spec
CONSTANTS
    Targets = {solver}
    Modes = {"CpuOnly", "CpuCuda", "Cuda"}
    Policies = {"Release13_2", "Adaptive"}
    AdaptiveLists <- MCAdaptiveLists
    FallbackLists <- MCFallbackLists
    Probes <- MCProbes
    RequestInputs <- MCRequestInputs
    CapInputs <- MCCapInputs
    Normals <- MCNormals
INVARIANTS
    RecordedIsCompiled
    ListsAreOfThisConfigure
    TargetsFollowTheMode
    ThreadsAreWithinCaps
PROPERTIES
    RequestsAreKept
