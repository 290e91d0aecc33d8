SPECIFICATION PlatformSpec
CONSTANTS
  FeePercentage = 5
  MinimumFee = 1
  MaximumFee = 2
  Users = {client, freelancer}
  Amounts = {1, 2}
  MaxDeposited = 2
  a1 = a1
  a2 = a2
  r1 = r1
  r2 = r2
  Admins = {a1, a2}
  PlatformWithdrawals = {r1, r2}
  NoRequest = NoRequest
SYMMETRY MCSymmetry
INVARIANTS
  WalletTypeOK
  WalletBalanced
  MoneyConserved
  PlatformReconciles
\* The bound MaxDeposited stops the model once everything is spent.
CHECK_DEADLOCK FALSE
