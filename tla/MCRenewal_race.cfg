CONSTANTS
  Workers = {w1, w2}
  Reviewers = {}
  NoLease = NoLease
  LastPeriod = 1
  LastNow = 1
  StartBalance = 1
  MaxFaults = 1
  MaxMoves = 1
  MaxLosses = 0
  MaxRequests = 1
SPECIFICATION Spec
SYMMETRY WorkerSymmetry
INVARIANT RenewalIsPaid
INVARIANT UnpaidIsUncharged
INVARIANT CancelledIsHonoured
CHECK_DEADLOCK FALSE
