CONSTANTS
  Stages <- ComputeStages
  ResourceBilling = TRUE
  ReadBudget = 2
  FreshReads = 1
  ComputeReads = 2
  MaxGrants = 1
  Workers = {w1}
  Customers = {}
  Operators = {o1}
  NoOne = NoOne
  MaxCrashes = 0
SPECIFICATION FairSpec
PROPERTY DeadlineParks
CHECK_DEADLOCK FALSE
