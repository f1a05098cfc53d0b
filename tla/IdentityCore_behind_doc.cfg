CONSTANTS
    Setters = {w1}
    Readers = {r1}
    Hows <- GenerateOrSignerFirst
    MaxInstalls = 2
SPECIFICATION Spec
INVARIANT NeverBehind
CHECK_DEADLOCK FALSE
