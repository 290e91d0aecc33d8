SPECIFICATION MCSpec
CONSTANTS
  FeePercentage = 5
  MinimumFee = 1
  MaximumFee = 100
  owner = owner
  NoWithdrawal = NoWithdrawal
  Users <- MCUsers
  OwnerOf <- MCOwnerOf
  Raced = {1}
  Workers = {1, 2}
  Withdrawals = {1, 2, 3}
  Amounts = {1, 2, 3}
  WithdrawalAmounts = {2, 3}
  DailyLimit = 5
  MaxDeposited = 5
  Operations = {"create", "process", "reject", "cancel", "escrow", "lostAnswer"}
INVARIANTS
  ReleasedWasSent
  SettledInTurn
PROPERTIES
  WalletSpec
  ProcessingEnds
CHECK_DEADLOCK FALSE
