SPECIFICATION Spec
CONSTANTS
    Threads <- ThreadSet
    MayCall <- CallsOf
    Ids <- NearbyIds
    MaxCalls = 3
INVARIANTS
    NoCircularWait
    EngineAliveWhileUsed
    SeamOfNewestFace
    DatasetServed
    ProgressOfHolder
PROPERTIES
    CallsReturn
    QuickCallsReturn
    RetiredFacesEnd
CHECK_DEADLOCK FALSE
