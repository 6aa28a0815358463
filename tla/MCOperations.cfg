SPECIFICATION Spec
CONSTANTS
    Periods = {p1, p2}
    Rotations = {r1, r2, r3}
    LaunchKey = LaunchKey
    None = None
SYMMETRY Symmetry
INVARIANTS
    DeletionIsAlone
    DeletesTheKeyInUse
    RotationCanEnd
    AlwaysDeletable
CHECK_DEADLOCK FALSE
