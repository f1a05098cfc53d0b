SPECIFICATION FairSpec
CONSTANTS
    LastSeg = 2
    LookaheadArg = 0
    Credit = 2
    Window = 1
    Faults <- AllFaults
    MaxFaults = 1
INVARIANTS
    LeadBounded
    RefetchHasSource
PROPERTIES
    PacedSpec
    FetchCompletes
    PassedServed
    CancelStopsRelay
CHECK_DEADLOCK FALSE
