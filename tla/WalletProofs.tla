---------------------------- MODULE WalletProofs ----------------------------
(***************************************************************************)
(* What holds of the fee and of the wallets for every finite set of users, *)
(* amounts and fee constants: no balance is overdrawn, every wallet        *)
(* reconciles, and no money is created or destroyed.  The proofs about     *)
(* escrows, deposits and withdrawals cite these theorems.                  *)
(***************************************************************************)
EXTENDS Wallet, SumTheorems

LEMMA RoundedIsNat ==
  ASSUME NEW a \in Nat, NEW p \in Nat
  PROVE  RoundedPercentage(a, p) \in Nat
<1>1. a * p + 50 \in Nat  OBVIOUS
<1>2. (a * p + 50) \div 100 \in Nat  BY <1>1
<1> QED  BY <1>2 DEF RoundedPercentage

LEMMA FeeIsNat ==
  ASSUME NEW a \in Nat
  PROVE  CalculatePlatformFee(a) \in Nat
<1>1. FeePercentage \in Nat  BY FeeAssumption
<1>2. RoundedPercentage(a, FeePercentage) \in Nat
  BY <1>1, RoundedIsNat
<1> QED  BY <1>2, FeeAssumption DEF CalculatePlatformFee

LEMMA RoundedAtMostAmount ==
  ASSUME NEW a \in Nat
  PROVE  RoundedPercentage(a, FeePercentage) <= a
<1>1. /\ FeePercentage \in Nat
      /\ FeePercentage <= 100
  BY FeeAssumption
<1>2. a * FeePercentage <= a * 100
  <2>1. \A p \in Nat : p <= 100 => a * p <= a * 100  OBVIOUS
  <2> QED  BY <2>1, <1>1
<1>3. a * FeePercentage \in Nat  BY <1>1
<1>4. \A n \in Nat : n <= a * 100 => (n + 50) \div 100 <= a  OBVIOUS
<1> QED  BY <1>2, <1>3, <1>4 DEF RoundedPercentage

(* createEscrow accepts exactly the amounts that cover the minimum fee:    *)
(* the freelancer's amount, which the Escrow schema requires to be at      *)
(* least 0, is negative for all the others.                                *)
THEOREM CreatableAmounts ==
  ASSUME NEW a \in Nat
  PROVE  CalculateFreelancerAmount(a) >= 0 <=> a >= MinimumFee
<1> DEFINE rounded == RoundedPercentage(a, FeePercentage)
<1>1. rounded \in Nat
  <2>1. FeePercentage \in Nat  BY FeeAssumption
  <2> QED  BY <2>1, RoundedIsNat
<1>2. rounded <= a  BY RoundedAtMostAmount
<1> HIDE DEF rounded
<1>3. CalculatePlatformFee(a) =
        LET raised == IF rounded < MinimumFee THEN MinimumFee ELSE rounded
        IN  IF raised > MaximumFee THEN MaximumFee ELSE raised
  BY DEF CalculatePlatformFee, rounded
<1> QED  BY <1>1, <1>2, <1>3, FeeAssumption DEF CalculateFreelancerAmount
-----------------------------------------------------------------------------
WalletInv == WalletTypeOK /\ WalletBalanced

LEMMA WalletInvInit == WalletInit => WalletInv
BY DEF WalletInit, WalletInv, WalletTypeOK, WalletBalanced, WalletRecord,
       EmptyWallet

(* The two-party movement: the client's side and the freelancer's side are *)
(* looked at one field at a time, because the two may be the same user.    *)
LEMMA ReleaseKeepsInv ==
  ASSUME WalletInv, NEW u \in Users, NEW f \in Users, NEW a \in Amounts,
         ReleaseFromEscrow(u, f, a)
  PROVE  WalletInv'
<1> DEFINE fee == CalculatePlatformFee(a)
           net == a - fee
<1>1. a \in Nat  BY AmountsAssumption
<1>2. fee \in Nat  BY <1>1, FeeIsNat
<1>3. net \in Nat /\ wallet[u].locked >= a
  BY <1>1, <1>2 DEF ReleaseFromEscrow, CanRelease, CalculateFreelancerAmount
<1>4. /\ wallet' = [[wallet EXCEPT ![u].locked = @ - a]
                      EXCEPT ![f].available = @ + net,
                             ![f].earned = @ + net,
                             ![f].feesPaid = @ + fee]
      /\ paidOut' = [paidOut EXCEPT ![u] = @ + a]
      /\ platform' = platform + fee
  BY DEF ReleaseFromEscrow, CalculateFreelancerAmount
<1>5. net = a - fee  OBVIOUS
<1> HIDE DEF fee, net
<1>6. /\ wallet \in [Users -> WalletRecord]
      /\ paidOut \in [Users -> Nat]
      /\ platform \in Nat
  BY DEF WalletInv, WalletTypeOK
<1>7. ASSUME NEW v \in Users
      PROVE  /\ wallet'[v].available = wallet[v].available
                                         + (IF v = f THEN net ELSE 0)
             /\ wallet'[v].locked = wallet[v].locked - (IF v = u THEN a ELSE 0)
             /\ wallet'[v].earned = wallet[v].earned
                                      + (IF v = f THEN net ELSE 0)
             /\ wallet'[v].feesPaid = wallet[v].feesPaid
                                        + (IF v = f THEN fee ELSE 0)
             /\ wallet'[v].deposited = wallet[v].deposited
             /\ wallet'[v].withdrawn = wallet[v].withdrawn
             /\ paidOut'[v] = paidOut[v] + (IF v = u THEN a ELSE 0)
  BY <1>1, <1>2, <1>3, <1>4, <1>6 DEF WalletRecord
<1>8. WalletTypeOK'
  <2>1. [wallet EXCEPT ![u].locked = @ - a] \in [Users -> WalletRecord]
    <3>1. wallet[u].locked - a \in Nat  BY <1>1, <1>3, <1>6 DEF WalletRecord
    <3> QED  BY <3>1, <1>6 DEF WalletRecord
  <2> DEFINE debited == [wallet EXCEPT ![u].locked = @ - a]
  <2>2. /\ wallet' = [debited EXCEPT ![f].available = @ + net,
                                     ![f].earned = @ + net,
                                     ![f].feesPaid = @ + fee]
        /\ debited \in [Users -> WalletRecord]
    BY <1>4, <2>1
  <2> HIDE DEF debited
  <2>3. /\ debited[f].available + net \in Nat
        /\ debited[f].earned + net \in Nat
        /\ debited[f].feesPaid + fee \in Nat
    BY <1>2, <1>3, <2>2 DEF WalletRecord
  <2>4. wallet' \in [Users -> WalletRecord]
    BY <2>2, <2>3, ZenonT(40) DEF WalletRecord
  <2>5. paidOut' \in [Users -> Nat] /\ platform' \in Nat
    BY <1>1, <1>2, <1>4, <1>6
  <2> QED  BY <2>4, <2>5 DEF WalletTypeOK
<1>9. WalletBalanced'
  <2> SUFFICES ASSUME NEW v \in Users
               PROVE  wallet'[v].available + wallet'[v].locked
                        + wallet'[v].withdrawn + paidOut'[v]
                        = wallet'[v].deposited + wallet'[v].earned
    BY DEF WalletBalanced
  <2>1. wallet[v].available + wallet[v].locked + wallet[v].withdrawn
          + paidOut[v] = wallet[v].deposited + wallet[v].earned
    BY DEF WalletInv, WalletBalanced
  <2>2. /\ wallet[v].available \in Nat /\ wallet[v].locked \in Nat
        /\ wallet[v].withdrawn \in Nat /\ wallet[v].deposited \in Nat
        /\ wallet[v].earned \in Nat /\ paidOut[v] \in Nat
    BY <1>6 DEF WalletRecord
  <2> DEFINE in  == IF v = f THEN net ELSE 0
             out == IF v = u THEN a ELSE 0
  <2>3. in \in Nat /\ out \in Nat  BY <1>1, <1>3
  <2>4. /\ wallet'[v].available = wallet[v].available + in
        /\ wallet'[v].locked = wallet[v].locked - out
        /\ wallet'[v].earned = wallet[v].earned + in
        /\ wallet'[v].deposited = wallet[v].deposited
        /\ wallet'[v].withdrawn = wallet[v].withdrawn
        /\ paidOut'[v] = paidOut[v] + out
    BY <1>7
  <2> HIDE DEF in, out
  <2> QED  BY <2>1, <2>2, <2>3, <2>4
<1> QED  BY <1>8, <1>9 DEF WalletInv

LEMMA WalletInvStep == WalletInv /\ [WalletNext]_walletVars => WalletInv'
<1> SUFFICES ASSUME WalletInv, [WalletNext]_walletVars
             PROVE  WalletInv'
  OBVIOUS
<1> USE DEF WalletInv, WalletTypeOK, WalletRecord
<1>1. ASSUME NEW u \in Users, NEW a \in Amounts, Deposit(u, a)
      PROVE  WalletInv'
  <2>1. a \in Nat  BY AmountsAssumption
  <2>2. wallet[u].available + a \in Nat /\ wallet[u].deposited + a \in Nat
    BY <1>1, <2>1 DEF Deposit
  <2>3. WalletTypeOK'  BY <1>1, <2>1, <2>2 DEF Deposit
  <2>4. WalletBalanced'
    BY <1>1, <2>1, <2>2 DEF Deposit, WalletBalanced
  <2> QED  BY <2>3, <2>4
<1>2. ASSUME NEW u \in Users, NEW a \in Amounts, DebitWallet(u, a)
      PROVE  WalletInv'
  <2>1. a \in Nat  BY AmountsAssumption
  <2>2. wallet[u].available - a \in Nat /\ wallet[u].withdrawn + a \in Nat
    BY <1>2, <2>1 DEF DebitWallet
  <2>3. WalletTypeOK'  BY <1>2, <2>1, <2>2 DEF DebitWallet
  <2>4. WalletBalanced'
    BY <1>2, <2>1, <2>2 DEF DebitWallet, WalletBalanced
  <2> QED  BY <2>3, <2>4
<1>3. ASSUME NEW u \in Users, NEW a \in Amounts, PayPlatform(u, a)
      PROVE  WalletInv'
  <2>1. a \in Nat  BY AmountsAssumption
  <2>2. wallet[u].available - a \in Nat /\ paidOut[u] + a \in Nat
    BY <1>3, <2>1 DEF PayPlatform
  <2>3. WalletTypeOK'  BY <1>3, <2>1, <2>2 DEF PayPlatform
  <2>4. WalletBalanced'
    BY <1>3, <2>1, <2>2 DEF PayPlatform, WalletBalanced
  <2> QED  BY <2>3, <2>4
<1>4. ASSUME NEW u \in Users, NEW a \in Amounts, LockFunds(u, a)
      PROVE  WalletInv'
  <2>1. a \in Nat  BY AmountsAssumption
  <2>2. wallet[u].available - a \in Nat /\ wallet[u].locked + a \in Nat
    BY <1>4, <2>1 DEF LockFunds, CanLock
  <2>3. WalletTypeOK'  BY <1>4, <2>1, <2>2 DEF LockFunds, CanLock
  <2>4. WalletBalanced'
    BY <1>4, <2>1, <2>2 DEF LockFunds, CanLock, WalletBalanced
  <2> QED  BY <2>3, <2>4
<1>5. ASSUME NEW u \in Users, NEW a \in Amounts, UnlockFunds(u, a)
      PROVE  WalletInv'
  <2>1. a \in Nat  BY AmountsAssumption
  <2>2. wallet[u].available + a \in Nat /\ wallet[u].locked - a \in Nat
    BY <1>5, <2>1 DEF UnlockFunds, CanUnlock
  <2>3. WalletTypeOK'  BY <1>5, <2>1, <2>2 DEF UnlockFunds, CanUnlock
  <2>4. WalletBalanced'
    BY <1>5, <2>1, <2>2 DEF UnlockFunds, CanUnlock, WalletBalanced
  <2> QED  BY <2>3, <2>4
<1>6. ASSUME NEW u \in Users, NEW a \in Amounts, ReleaseLockedWithdrawal(u, a)
      PROVE  WalletInv'
  <2>1. a \in Nat  BY AmountsAssumption
  <2>2. wallet[u].locked - a \in Nat /\ wallet[u].withdrawn + a \in Nat
    BY <1>6, <2>1 DEF ReleaseLockedWithdrawal, CanUnlock
  <2>3. WalletTypeOK'  BY <1>6, <2>1, <2>2 DEF ReleaseLockedWithdrawal, CanUnlock
  <2>4. WalletBalanced'
    BY <1>6, <2>1, <2>2 DEF ReleaseLockedWithdrawal, CanUnlock, WalletBalanced
  <2> QED  BY <2>3, <2>4
<1>7. CASE UNCHANGED walletVars
  BY <1>7 DEF walletVars, WalletBalanced
<1> QED
  BY <1>1, <1>2, <1>3, <1>4, <1>5, <1>6, <1>7, ReleaseKeepsInv DEF WalletNext

(* No movement overdraws a wallet: every balance and total stays a natural *)
(* number, for any users, amounts and fee.                                 *)
THEOREM WalletTypeSafe == WalletSpec => []WalletTypeOK
<1>1. WalletInv => WalletTypeOK  BY DEF WalletInv
<1> QED  BY WalletInvInit, WalletInvStep, <1>1, PTL DEF WalletSpec

(* Every wallet reconciles at all times.                                   *)
THEOREM WalletReconciles == WalletSpec => []WalletBalanced
<1>1. WalletInv => WalletBalanced  BY DEF WalletInv
<1> QED  BY WalletInvInit, WalletInvStep, <1>1, PTL DEF WalletSpec
-----------------------------------------------------------------------------
(* Money is conserved over all users.  A movement changes the wallets of   *)
(* one user, or of two; each change of one wallet changes the two sums by  *)
(* as much (SumChange).                                                    *)
LEMMA SumOverUsers ==
  \A f, g : \A u \in Users :
    /\ \A v \in Users : f[v] \in Int /\ g[v] \in Int
    /\ \A v \in Users \ {u} : g[v] = f[v]
    => SumFunctionOnSet(g, Users) = SumFunctionOnSet(f, Users) + g[u] - f[u]
BY UsersAssumption, SumChange

LEMMA OneWalletMoves ==
  ASSUME WalletTypeOK, WalletTypeOK', MoneyConserved, NEW u \in Users,
         \A v \in Users \ {u} : HeldOf'[v] = HeldOf[v],
         \A v \in Users \ {u} : DepositedOf'[v] = DepositedOf[v],
         HeldOf'[u] + platform' + DepositedOf[u]
           = HeldOf[u] + platform + DepositedOf'[u]
  PROVE  MoneyConserved'
<1>1. IsFiniteSet(Users)  BY UsersAssumption
<1>2. \A v \in Users : /\ HeldOf[v] \in Int /\ HeldOf'[v] \in Int
                       /\ DepositedOf[v] \in Int /\ DepositedOf'[v] \in Int
  BY DEF WalletTypeOK, WalletRecord, HeldOf, DepositedOf
<1>3. platform \in Int /\ platform' \in Int
  BY DEF WalletTypeOK
<1>4. SumFunctionOnSet(HeldOf, Users) + platform
        = SumFunctionOnSet(DepositedOf, Users)
  BY DEF MoneyConserved
<1>5. /\ \A v \in Users : HeldOf[v] \in Int /\ HeldOf'[v] \in Int
      /\ \A v \in Users : DepositedOf[v] \in Int /\ DepositedOf'[v] \in Int
  BY <1>2
<1>6. SumFunctionOnSet(HeldOf', Users) + platform'
        = SumFunctionOnSet(DepositedOf', Users)
  <2>1. \A f, g : /\ \A v \in Users : f[v] \in Int /\ g[v] \in Int
                  /\ \A v \in Users \ {u} : g[v] = f[v]
          => SumFunctionOnSet(g, Users) = SumFunctionOnSet(f, Users) + g[u] - f[u]
    BY SumOverUsers, Zenon
  <2>2. SumFunctionOnSet(HeldOf', Users)
          = SumFunctionOnSet(HeldOf, Users) + HeldOf'[u] - HeldOf[u]
    BY <1>5, <2>1, Zenon
  <2>3. SumFunctionOnSet(DepositedOf', Users)
          = SumFunctionOnSet(DepositedOf, Users) + DepositedOf'[u] - DepositedOf[u]
    BY <1>5, <2>1, Zenon
  <2>4. /\ SumFunctionOnSet(HeldOf, Users) \in Int
        /\ SumFunctionOnSet(DepositedOf, Users) \in Int
    BY <1>1, <1>2, SumInt
  <2> QED  BY <1>2, <1>3, <1>4, <2>2, <2>3, <2>4
<1> QED  BY <1>6 DEF MoneyConserved

(* A release takes from one wallet what it gives to another and to the     *)
(* platform; the two wallets may be the same.                              *)
LEMMA ReleaseConserves ==
  ASSUME WalletInv, MoneyConserved, NEW u \in Users, NEW f \in Users,
         NEW a \in Amounts, ReleaseFromEscrow(u, f, a)
  PROVE  MoneyConserved'
<1> DEFINE fee == CalculatePlatformFee(a)
           net == a - fee
<1>1. a \in Nat /\ fee \in Nat /\ net \in Int
  BY AmountsAssumption, FeeIsNat
<1>2. /\ wallet' = [[wallet EXCEPT ![u].locked = @ - a]
                      EXCEPT ![f].available = @ + net,
                             ![f].earned = @ + net,
                             ![f].feesPaid = @ + fee]
      /\ platform' = platform + fee
  BY DEF ReleaseFromEscrow, CalculateFreelancerAmount
<1>3. net + fee = a  BY <1>1
<1> HIDE DEF fee, net
<1>4. /\ wallet \in [Users -> WalletRecord] /\ platform \in Nat
  BY DEF WalletInv, WalletTypeOK
<1>5. ASSUME NEW v \in Users
      PROVE  /\ wallet'[v].available = wallet[v].available
                                         + (IF v = f THEN net ELSE 0)
             /\ wallet'[v].locked = wallet[v].locked - (IF v = u THEN a ELSE 0)
             /\ wallet'[v].deposited = wallet[v].deposited
             /\ wallet'[v].withdrawn = wallet[v].withdrawn
  BY <1>1, <1>2, <1>4 DEF WalletRecord
<1> DEFINE h == HeldOf
           i == HeldOf'
           k == [h EXCEPT ![u] = @ - a]
<1>6. \A v \in Users : h[v] \in Int  BY <1>4 DEF WalletRecord, HeldOf
<1>7. ASSUME NEW v \in Users
      PROVE  i[v] = h[v] - (IF v = u THEN a ELSE 0) + (IF v = f THEN net ELSE 0)
  <2>1. /\ h[v] = wallet[v].available + wallet[v].locked + wallet[v].withdrawn
        /\ i[v] = wallet'[v].available + wallet'[v].locked + wallet'[v].withdrawn
    BY DEF HeldOf
  <2>2. /\ wallet[v].available \in Nat /\ wallet[v].locked \in Nat
        /\ wallet[v].withdrawn \in Nat
    BY <1>4 DEF WalletRecord
  <2> HIDE DEF h, i
  <2> QED  BY <1>1, <1>5, <2>1, <2>2
<1>8. DepositedOf' = DepositedOf  BY <1>5 DEF DepositedOf
<1>9. /\ \A v \in Users : k[v] = h[v] - (IF v = u THEN a ELSE 0)
      /\ \A v \in Users : k[v] \in Int /\ i[v] \in Int
  <2>1. h = [v \in Users |-> h[v]]  BY DEF HeldOf
  <2>2. \A v \in Users : k[v] = h[v] - (IF v = u THEN a ELSE 0)
    <3> HIDE DEF h
    <3> QED  BY <1>1, <1>6, <2>1
  <2> HIDE DEF h, i, k
  <2> QED  BY <1>1, <1>6, <1>7, <2>2
<1>10. SumFunctionOnSet(k, Users) = SumFunctionOnSet(h, Users) - a
  <2>1. \A v \in Users \ {u} : k[v] = h[v]  BY <1>6, <1>9
  <2>2. k[u] = h[u] - a  BY <1>9
  <2> HIDE DEF h, i, k
  <2>3. SumFunctionOnSet(k, Users) = SumFunctionOnSet(h, Users) + k[u] - h[u]
    <3>1. \A v \in Users : h[v] \in Int /\ k[v] \in Int  BY <1>6, <1>9
    <3> QED  BY <2>1, <3>1, UsersAssumption, SumChange
  <2>4. SumFunctionOnSet(h, Users) \in Int
    BY <1>6, UsersAssumption, SumInt
  <2> QED  BY <1>1, <1>6, <2>2, <2>3, <2>4
<1>11. SumFunctionOnSet(i, Users) = SumFunctionOnSet(k, Users) + net
  <2> HIDE DEF h, i, k
  <2>1. \A v \in Users : i[v] = k[v] + (IF v = f THEN net ELSE 0)
    BY <1>1, <1>6, <1>7, <1>9
  <2>2. \A v \in Users \ {f} : i[v] = k[v]  BY <1>9, <2>1
  <2>3. SumFunctionOnSet(i, Users) = SumFunctionOnSet(k, Users) + i[f] - k[f]
    <3>1. \A v \in Users : k[v] \in Int /\ i[v] \in Int  BY <1>9
    <3> QED  BY <2>2, <3>1, UsersAssumption, SumChange
  <2>4. SumFunctionOnSet(k, Users) \in Int
    BY <1>9, UsersAssumption, SumInt
  <2>5. i[f] = k[f] + net /\ k[f] \in Int  BY <1>9, <2>1
  <2> QED  BY <1>1, <2>3, <2>4, <2>5
<1>12. SumFunctionOnSet(h, Users) \in Int
  BY <1>6, UsersAssumption, SumInt
<1>13. SumFunctionOnSet(h, Users) + platform = SumFunctionOnSet(DepositedOf, Users)
  BY DEF MoneyConserved
<1>14. SumFunctionOnSet(i, Users) + platform' = SumFunctionOnSet(DepositedOf', Users)
  <2> HIDE DEF h, i, k
  <2>1. SumFunctionOnSet(i, Users) + platform'
          = SumFunctionOnSet(h, Users) + platform
    BY <1>1, <1>2, <1>3, <1>4, <1>10, <1>11, <1>12
  <2> QED  BY <1>8, <1>13, <2>1
<1> QED  BY <1>14 DEF MoneyConserved

LEMMA MoneyConservedStep ==
  WalletInv /\ MoneyConserved /\ [WalletNext]_walletVars => MoneyConserved'
<1> SUFFICES ASSUME WalletInv, MoneyConserved, [WalletNext]_walletVars
             PROVE  MoneyConserved'
  OBVIOUS
<1>1. WalletTypeOK /\ WalletTypeOK'
  BY WalletInvStep DEF WalletInv
<1>2. ASSUME NEW u \in Users, NEW a \in Amounts,
             \/ Deposit(u, a) \/ DebitWallet(u, a) \/ PayPlatform(u, a)
             \/ LockFunds(u, a) \/ UnlockFunds(u, a)
             \/ ReleaseLockedWithdrawal(u, a)
      PROVE  MoneyConserved'
  <2>1. a \in Nat  BY AmountsAssumption
  <2>2. /\ wallet \in [Users -> WalletRecord] /\ platform \in Nat
    BY <1>1 DEF WalletTypeOK
  <2>3. \A v \in Users \ {u} : wallet'[v] = wallet[v]
    BY <1>2, <2>2 DEF Deposit, DebitWallet, PayPlatform, LockFunds, UnlockFunds,
                      ReleaseLockedWithdrawal
  <2>4. /\ \A v \in Users \ {u} : HeldOf'[v] = HeldOf[v]
        /\ \A v \in Users \ {u} : DepositedOf'[v] = DepositedOf[v]
    BY <2>3 DEF HeldOf, DepositedOf
  <2>5. HeldOf'[u] + platform' + DepositedOf[u]
          = HeldOf[u] + platform + DepositedOf'[u]
    <3> USE <2>1, <2>2 DEF HeldOf, DepositedOf, WalletRecord
    <3>1. CASE Deposit(u, a)  BY <3>1 DEF Deposit
    <3>2. CASE DebitWallet(u, a)  BY <3>2 DEF DebitWallet
    <3>3. CASE PayPlatform(u, a)  BY <3>3 DEF PayPlatform
    <3>4. CASE LockFunds(u, a)  BY <3>4 DEF LockFunds
    <3>5. CASE UnlockFunds(u, a)  BY <3>5 DEF UnlockFunds
    <3>6. CASE ReleaseLockedWithdrawal(u, a)
      BY <3>6 DEF ReleaseLockedWithdrawal
    <3> QED  BY <1>2, <3>1, <3>2, <3>3, <3>4, <3>5, <3>6
  <2> QED  BY <1>1, <2>4, <2>5, OneWalletMoves
<1>3. ASSUME NEW u \in Users, NEW f \in Users, NEW a \in Amounts,
             ReleaseFromEscrow(u, f, a)
      PROVE  MoneyConserved'
  BY <1>3, ReleaseConserves
<1>4. CASE UNCHANGED walletVars
  BY <1>4 DEF walletVars, MoneyConserved, HeldOf, DepositedOf
<1> QED  BY <1>2, <1>3, <1>4 DEF WalletNext

LEMMA MoneyConservedInit == WalletInit => MoneyConserved
<1> SUFFICES ASSUME WalletInit PROVE MoneyConserved
  OBVIOUS
<1>1. \A u \in Users : HeldOf[u] = 0 /\ DepositedOf[u] = 0
  BY DEF WalletInit, EmptyWallet, HeldOf, DepositedOf
<1>2. SumFunctionOnSet(HeldOf, Users) = 0 /\ SumFunctionOnSet(DepositedOf, Users) = 0
  BY <1>1, UsersAssumption, SumZero
<1> QED  BY <1>2 DEF MoneyConserved, WalletInit

(* No movement, and no sequence of them, creates or destroys money.        *)
THEOREM WalletConservesMoney == WalletSpec => []MoneyConserved
<1>1. WalletInit => WalletInv /\ MoneyConserved
  BY WalletInvInit, MoneyConservedInit
<1> QED
  BY <1>1, WalletInvStep, MoneyConservedStep, PTL DEF WalletSpec
=============================================================================
