----------------------------- MODULE MCDeposit -----------------------------
\* One owner.  Linked deposits are made for one escrow, the others for none.
EXTENDS Deposit

CONSTANTS owner, Linked, e1

MCUsers == {owner}
MCEscrowOf == [d \in Deposits |-> IF d \in Linked THEN e1 ELSE NoEscrow]
MCAmountOf == [d \in Deposits |-> 1]
=============================================================================
