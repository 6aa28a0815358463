SPECIFICATION Spec
CONSTANTS
    Processes = {p1, p2}
    Keys = {k1, k2}
    None = None
    MaxReads = 2
    MaxClaims = 2
    MaxCrashes = 1
SYMMETRY Symmetry
CHECK_DEADLOCK FALSE
INVARIANT WritesFit
INVARIANT AbsenceIsReal
INVARIANT RemovedInOrder
INVARIANT CallsReserved
INVARIANT ReceiptIsTrue
