------------------------------ MODULE MCEscrow ------------------------------
(* One client and one freelancer.  A milestone may get two escrow          *)
(* documents; the contract-level escrow is paid from the wallet.           *)
EXTENDS Escrow, TLC

CONSTANTS client, freelancer, milestone

MCUsers == {client, freelancer}
MCMilestoneOf ==
  [e \in Escrows |-> IF e \in WalletPaid THEN Total ELSE milestone]
MCClientOf == [e \in Escrows |-> client]
MCFreelancerOf == [e \in Escrows |-> freelancer]

\* Requests are interchangeable, and so are the documents of either kind.
Symmetry == Permutations(Workers) \cup Permutations(Escrows \ WalletPaid)
              \cup Permutations(WalletPaid)
=============================================================================
