CONSTANTS
  Stages <- BilledStages
  ResourceBilling = TRUE
  ReadBudget = 3
  FreshReads = 2
  ComputeReads = 3
  MaxGrants = 0
  Workers = {w1}
  Customers = {}
  Operators = {}
  NoOne = NoOne
  MaxCrashes = 2
SPECIFICATION FairSpec
PROPERTY PendingSettles
CHECK_DEADLOCK FALSE
