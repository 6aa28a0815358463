CONSTANTS
  Stages <- RuntimeReceiptStages
  ResourceBilling = TRUE
  ReadBudget = 2
  FreshReads = 1
  ComputeReads = 2
  MaxGrants = 2
  Workers = {w1}
  Customers = {}
  Operators = {o1}
  NoOne = NoOne
  MaxCrashes = 1
SPECIFICATION Spec
INVARIANT ReplayNeedsGrant
INVARIANT FreshReadsWithinBudget
PROPERTY ParkedNeedsOperator
PROPERTY KeepsPromise
CHECK_DEADLOCK FALSE
