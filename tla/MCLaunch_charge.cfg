CONSTANTS
  Stages <- DebitComputeStages
  ResourceBilling = TRUE
  ReadBudget = 2
  FreshReads = 1
  ComputeReads = 2
  MaxGrants = 1
  Workers = {w1}
  Customers = {}
  Operators = {o1}
  NoOne = NoOne
  MaxCrashes = 1
SPECIFICATION Spec
INVARIANT ReadyIsReal
INVARIANT StagesInOrder
INVARIANT ReservedBeforeDispatch
INVARIANT SingleFirstDispatch
INVARIANT PendingIsAuthorized
PROPERTY GrantSpentOnce
CHECK_DEADLOCK FALSE
