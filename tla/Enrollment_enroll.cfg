SPECIFICATION FairSpec
CONSTANTS
    Callers <- CallerSet
    MaxKeys = 2
    MaxLoads = 2
    MaxCrashes = 2
INVARIANTS
    LoadedKeyIsCertified
    PromptOnlyIfOpen
PROPERTIES
    CellsSpec
    EnrollReturns
CHECK_DEADLOCK FALSE
