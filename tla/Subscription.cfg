SPECIFICATION Spec
CONSTANTS
  FeePercentage = 5
  MinimumFee = 1
  MaximumFee = 2
  Users = {u1}
  Amounts = {1, 2}
  MaxDeposited = 2
  Workers = {w1}
  Price <- MCPrice
  MaxSubs = 3
  MaxTxns = 1
  MaxCrashes = 1
  MaxRequests = 3
  Operations <- MCRequests
INVARIANTS
  RenewedOnce
  PlanIsBacked
  PaidIsActivated
PROPERTIES
  PeriodsEnd
CHECK_DEADLOCK FALSE
