SPECIFICATION Spec
CONSTANTS
    Callers = {c1, c2}
    Files = {f1, f2}
    NoFile = none
    Readers = {r1}
    History = 3
    Credit = 1
    LastSeg = 1
    MaxBoards = 2
    MaxRegs = 2
    MaxBudget = 2
INVARIANTS
    ListedIsServed
    BoardConsistent
    FetchSurvives
    SentWithinCredit
SYMMETRY CallersAndFiles
CHECK_DEADLOCK FALSE
