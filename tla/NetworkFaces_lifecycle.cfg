CONSTANTS
    NetPeers = {p1}
    Tasks = {s1, s2, s3}
    MaxToken = 2
SPECIFICATION FacesFairSpec
INVARIANT SuspendedStaysDown
INVARIANT SomeoneRedials
PROPERTY Reconnects
PROPERTY SupervisorsStop
CHECK_DEADLOCK FALSE
