CONSTANTS
  Stages <- KeyStorageStages
  ResourceBilling = FALSE
  ReadBudget = 2
  FreshReads = 0
  ComputeReads = 2
  MaxGrants = 1
  Workers = {}
  Customers = {c1}
  Operators = {o1}
  NoOne = NoOne
  MaxCrashes = 1
SPECIFICATION Spec
PROPERTY ConfirmedIsFinal
CHECK_DEADLOCK FALSE
