SPECIFICATION FairSpec
CONSTANTS
    Credit = 2
    QueueCap = 1
    Faults <- OneOfEach
    MaxPackets = 3
    MaxPermits = 4
INVARIANTS
    SlotsHavePermits
    FlowControl
PROPERTIES
    EveryPacketLeaves
    TasksStop
CHECK_DEADLOCK FALSE
