SPECIFICATION FairSpec
CONSTANTS
    Processes = {p1}
    Keys = {k1, k2}
    None = None
    MaxReads = 3
    MaxClaims = 2
    MaxCrashes = 2
CHECK_DEADLOCK FALSE
PROPERTY DeletionSettles
