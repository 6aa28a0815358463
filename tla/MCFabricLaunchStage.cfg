CONSTANTS
    Callers = {c1, c2}
    MaxClaims = 2
    MaxLeases = 1
    LateCalls = {"disk"}
SPECIFICATION FairSpec
INVARIANTS
    ReadyIsReal
    BindingAfterDisk
    FirstCallOnce
PROPERTIES
    SucceededIsFinal
    ReadbackConverges
