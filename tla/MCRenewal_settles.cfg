CONSTANTS
  Workers = {w1}
  Reviewers = {r1}
  NoLease = NoLease
  LastPeriod = 2
  LastNow = 2
  StartBalance = 1
  MaxFaults = 2
  MaxMoves = 0
  MaxLosses = 1
  MaxRequests = 0
SPECIFICATION FairSpec
INVARIANTS
  EntitledIsPaid
  SuspendedIsExpired
  ReceiptsAgree
  OneOpenRenewal
PROPERTIES
  ChargeSettles
  ExpiryTakesHold
CHECK_DEADLOCK FALSE
