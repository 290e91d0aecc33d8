------------------------------- MODULE Wallet -------------------------------
(***************************************************************************)
(* The wallets (src/models/Wallet.js, src/models/PlatformWallet.js) and    *)
(* the wallet service's money movements.                                   *)
(*                                                                         *)
(* Every movement is one conditional findOneAndUpdate, or several of them  *)
(* inside session.withTransaction, so it is one atomic action here; its    *)
(* guard is the balance test in the update's filter.  A movement whose     *)
(* guard is false throws and changes nothing: it is not a step.            *)
(*                                                                         *)
(* WalletSpec is also the abstract specification that the payment flows    *)
(* (escrows, and later deposits and withdrawals) implement: whatever their *)
(* requests do, and however they interleave, money moves only like this.   *)
(*                                                                         *)
(* Left out: wallet.status (no code ever makes a wallet inactive), the     *)
(* version counter, timestamps and the description of Transaction rows.    *)
(***************************************************************************)
EXTENDS Fees, FiniteSets, Functions

CONSTANTS
  Users,          \* wallet owners
  Amounts,        \* the amounts a request may name, in rupees
  MaxDeposited    \* bound on what one user ever deposits

ASSUME AmountsAssumption ==
  /\ Amounts \subseteq Nat \ {0}
  /\ \A a \in Amounts : 1..a \subseteq Amounts
ASSUME MaxDepositedAssumption == MaxDeposited \in Nat
ASSUME UsersAssumption == IsFiniteSet(Users)

VARIABLES
  wallet,     \* user -> the Wallet document
  paidOut,    \* user -> total of the user's ESCROW_RELEASE and SUBSCRIPTION
              \*         DEBIT rows: spending no wallet total records
  platform    \* PlatformWallet.totalFeesCollected

walletVars == <<wallet, paidOut, platform>>

EmptyWallet == [available |-> 0, locked |-> 0, deposited |-> 0,
                earned |-> 0, withdrawn |-> 0, feesPaid |-> 0]

WalletRecord == [available : Nat, locked : Nat, deposited : Nat,
                 earned : Nat, withdrawn : Nat, feesPaid : Nat]

WalletTypeOK ==
  /\ wallet \in [Users -> WalletRecord]
  /\ paidOut \in [Users -> Nat]
  /\ platform \in Nat

WalletInit ==
  /\ wallet = [u \in Users |-> EmptyWallet]
  /\ paidOut = [u \in Users |-> 0]
  /\ platform = 0
-----------------------------------------------------------------------------
\* atomicRecordDeposit: creditWallet and creditExistingDeposit
Deposit(u, a) ==
  /\ wallet[u].deposited + a <= MaxDeposited      \* bound
  /\ wallet' = [wallet EXCEPT ![u].available = @ + a,
                              ![u].deposited = @ + a]
  /\ UNCHANGED <<paidOut, platform>>

\* debitWallet: atomicDebit and atomicRecordWithdrawal in one transaction
DebitWallet(u, a) ==
  /\ wallet[u].available >= a
  /\ wallet' = [wallet EXCEPT ![u].available = @ - a,
                              ![u].withdrawn = @ + a]
  /\ UNCHANGED <<paidOut, platform>>

\* A plan paid from the wallet: atomicDebit, the SUBSCRIPTION row and
\* PlatformWallet.addFee in one transaction
PayPlatform(u, a) ==
  /\ wallet[u].available >= a
  /\ wallet' = [wallet EXCEPT ![u].available = @ - a]
  /\ paidOut' = [paidOut EXCEPT ![u] = @ + a]
  /\ platform' = platform + a


\* atomicLockFunds: lockFunds, transferToEscrow and lockWithdrawalFunds
CanLock(u, a) == wallet[u].available >= a

LockFunds(u, a) ==
  /\ CanLock(u, a)
  /\ wallet' = [wallet EXCEPT ![u].available = @ - a,
                              ![u].locked = @ + a]
  /\ UNCHANGED <<paidOut, platform>>

\* Mutant: the filter of the update tests the wrong balance.
CanUnlockAnyBalance(u, a) == wallet[u].available + wallet[u].locked >= a

\* atomicUnlockFunds: refundEscrow, unlockFunds and unlockWithdrawalFunds
CanUnlock(u, a) == wallet[u].locked >= a

UnlockFunds(u, a) ==
  /\ CanUnlock(u, a)
  /\ wallet' = [wallet EXCEPT ![u].available = @ + a,
                              ![u].locked = @ - a]
  /\ UNCHANGED <<paidOut, platform>>

\* Mutant: atomicRecordWithdrawal is forgotten.
ReleaseUnrecordedWithdrawal(u, a) ==
  /\ CanUnlock(u, a)
  /\ wallet' = [wallet EXCEPT ![u].locked = @ - a]
  /\ UNCHANGED <<paidOut, platform>>

\* releaseLockedWithdrawal: atomicReleaseFromLocked and
\* atomicRecordWithdrawal in one transaction
ReleaseLockedWithdrawal(u, a) ==
  /\ CanUnlock(u, a)
  /\ wallet' = [wallet EXCEPT ![u].locked = @ - a,
                              ![u].withdrawn = @ + a]
  /\ UNCHANGED <<paidOut, platform>>

\* releaseFromEscrow: the client's locked balance is the only thing checked
\* besides the freelancer's net amount, which atomicCreditEarnings refuses
\* unless it is positive.
CanRelease(client, a) ==
  /\ wallet[client].locked >= a
  /\ CalculateFreelancerAmount(a) > 0

\* Mutant: the freelancer is credited the gross amount.
ReleaseGrossFromEscrow(client, freelancer, a) ==
  LET fee == CalculatePlatformFee(a)
      debited == [wallet EXCEPT ![client].locked = @ - a]
  IN  /\ CanRelease(client, a)
      /\ wallet' = [debited EXCEPT ![freelancer].available = @ + a,
                                   ![freelancer].earned = @ + a,
                                   ![freelancer].feesPaid = @ + fee]
      /\ paidOut' = [paidOut EXCEPT ![client] = @ + a]
      /\ platform' = platform + fee

ReleaseFromEscrow(client, freelancer, a) ==
  LET fee == CalculatePlatformFee(a)
      net == CalculateFreelancerAmount(a)
      debited == [wallet EXCEPT ![client].locked = @ - a]
  IN  /\ CanRelease(client, a)
      /\ wallet' = [debited EXCEPT ![freelancer].available = @ + net,
                                   ![freelancer].earned = @ + net,
                                   ![freelancer].feesPaid = @ + fee]
      /\ paidOut' = [paidOut EXCEPT ![client] = @ + a]
      /\ platform' = platform + fee
-----------------------------------------------------------------------------
WalletNext ==
  \E u \in Users, a \in Amounts :
    \/ Deposit(u, a)
    \/ DebitWallet(u, a)
    \/ PayPlatform(u, a)
    \/ LockFunds(u, a)
    \/ UnlockFunds(u, a)
    \/ ReleaseLockedWithdrawal(u, a)
    \/ \E f \in Users : ReleaseFromEscrow(u, f, a)

WalletSpec == WalletInit /\ [][WalletNext]_walletVars
-----------------------------------------------------------------------------
(* Every wallet reconciles: what a user holds, free or locked, and what    *)
(* left the wallet is exactly what came in.  A movement that credits gross *)
(* instead of net, forgets one side, or records a withdrawal twice breaks  *)
(* it.                                                                     *)
WalletBalanced ==
  \A u \in Users :
    wallet[u].available + wallet[u].locked + wallet[u].withdrawn + paidOut[u]
      = wallet[u].deposited + wallet[u].earned

(* Money is neither created nor destroyed: over all users, what was        *)
(* deposited is what is held, what was withdrawn, and what the platform    *)
(* collected (wallet.service.js runs each movement in one transaction).    *)
HeldOf ==
  [u \in Users |-> wallet[u].available + wallet[u].locked + wallet[u].withdrawn]
DepositedOf == [u \in Users |-> wallet[u].deposited]

MoneyConserved ==
  SumFunctionOnSet(HeldOf, Users) + platform = SumFunctionOnSet(DepositedOf, Users)
=============================================================================
