SPECIFICATION Spec
CONSTANTS
  FeePercentage = 5
  MinimumFee = 2
  MaximumFee = 100
  Amounts = {1, 2, 3, 4, 5}
  MaxDeposited = 10
  client = client
  freelancer = freelancer
  milestone = milestone
  Total = Total
  NoEscrow = NoEscrow
  Users <- MCUsers
  Escrows = {c1, c2}
  MilestoneOf <- MCMilestoneOf
  ClientOf <- MCClientOf
  FreelancerOf <- MCFreelancerOf
  WalletPaid = {c1, c2}
  Workers = {w1, w2}
  DepositAmounts = {5}
  EscrowAmounts = {5}
  PartialAmounts = {4}
  Percentages = {0, 60}
  Operations = {"hire", "release", "refund", "freeze", "adminRelease", "resolve"}
SYMMETRY Symmetry
INVARIANTS
  LockedBalanceExplained
PROPERTY
  WalletSpec
CHECK_DEADLOCK FALSE
