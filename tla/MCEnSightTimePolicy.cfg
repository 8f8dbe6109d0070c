SPECIFICATION Spec
CONSTANTS
    Sources <- MCSources
    Quantum = 4
    Digits = 1
    MaxWrites = 2
    MaxPicked = 3
    NotFinite = NotFinite
    None = None
    Error = Error
INVARIANTS
    StepIsTheSolvers
    SelectionFitsItsStep
    AxisIsTheRuns
    NothingSoundIsRefused
