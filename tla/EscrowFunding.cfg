SPECIFICATION Spec
CONSTANTS
  FeePercentage = 5
  MinimumFee = 2
  MaximumFee = 100
  Amounts = {1, 2, 3, 4}
  MaxDeposited = 8
  client = client
  freelancer = freelancer
  milestone = milestone
  Total = Total
  NoEscrow = NoEscrow
  Users <- MCUsers
  Escrows = {e1, e2, c1}
  MilestoneOf <- MCMilestoneOf
  ClientOf <- MCClientOf
  FreelancerOf <- MCFreelancerOf
  WalletPaid = {c1}
  Workers = {w1, w2}
  DepositAmounts = {4}
  EscrowAmounts = {4}
  PartialAmounts = {3}
  Percentages = {0, 50}
  Operations = {"create", "hire", "fund", "mark", "release", "expire", "crash"}
SYMMETRY Symmetry
INVARIANTS
  UnfundedHoldsNothing
PROPERTY
  FundedAtMostOnce
CHECK_DEADLOCK FALSE
