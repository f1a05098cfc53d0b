CONSTANTS
    Setters = {w1}
    Readers = {r1, r2}
    Hows <- AllHows
    MaxInstalls = 3
SPECIFICATION Spec
INVARIANT CellsAgree
INVARIANT CertNeverBehindSigner
CHECK_DEADLOCK FALSE
