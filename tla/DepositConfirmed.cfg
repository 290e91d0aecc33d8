SPECIFICATION FairSpec
CONSTANTS
  FeePercentage = 5
  MinimumFee = 1
  MaximumFee = 100
  owner = owner
  Owner = owner
  Users <- MCUsers
  Amounts = {1}
  MaxDeposited = 4
  Cron = cron
  Workers = {cron, w1}
  Deposits = {d1, d2}
  Linked = {d1}
  NoDeposit = NoDeposit
  e1 = e1
  Escrows = {e1}
  NoEscrow = NoEscrow
  EscrowOf <- MCEscrowOf
  AmountOf <- MCAmountOf
  Operations = {"initialize", "webhook", "callback", "verify", "batch", "cancel", "spend"}
INVARIANTS
  ClaimedOnce
  StatusAgrees
PROPERTIES
  PendingEnds
CHECK_DEADLOCK FALSE
