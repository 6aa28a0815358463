SPECIFICATION Spec
CONSTANTS
    LaunchKey = LaunchKey
    None = None
    Rotations = {r1, r2}
    b1 = b1
    b2 = b2
    Budgets = {b1, b2}
    Requests = {"quota", "enable", "disable", "reset"}
    LateCalls = {"disable", "create", "retire", "promote", "delete", "quota", "enable", "reset"}
    Quota = 2
    NewQuota <- Quotas
    MaxUses = 2
    MaxLate = 1
SYMMETRY Symmetry
INVARIANTS
    OneSpendableKey
    BudgetCarriedOver
    KeyOutlivesUse
    SucceededConverged
CHECK_DEADLOCK FALSE
