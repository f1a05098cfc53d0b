CONSTANTS
    Setters = {w1, w2}
    Readers = {r1}
    Hows <- GenerateOnly
    MaxInstalls = 2
SPECIFICATION Spec
INVARIANT CellsAgree
CHECK_DEADLOCK FALSE
