SPECIFICATION Spec
CONSTANTS
    Texts <- MCTexts
    Ranks = {0, 1, 2}
    Garbage = Garbage
    MaxItem = 3
    SizeLimit = 8
INVARIANTS
    OwnershipIsWhatTheFileSays
    CountIsOfItems
CHECK_DEADLOCK FALSE
