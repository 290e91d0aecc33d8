--------------------------- MODULE DepositProofs ---------------------------
(***************************************************************************)
(* The deposit requests, for any number of requests in flight, deposits,   *)
(* escrows and amounts: types are kept, money moves by wallet movements    *)
(* only, a deposit is credited on a claim at most once, the verifier       *)
(* credits only what was paid at the gateway, and rows that verifyDeposit  *)
(* has not judged agree with the wallet.                                   *)
(*                                                                         *)
(* TypeOK is inductive with the wallets' invariant.  ClaimedOnce needs     *)
(* ClaimInv: whoever is about to credit on a claim is alone, and the       *)
(* deposit is closed.  VerifierCreditsPaid needs PaidInv: the verifier     *)
(* gets to the credit only past an answer of the gateway.  StatusAgrees    *)
(* needs AgreesInv: a row that says SUCCESS is credited or has a request   *)
(* that is about to credit it.                                             *)
(***************************************************************************)
EXTENDS Deposit, WalletProofs

TypesOK == DepositsOK /\ TasksOK

LEMMA IdleIsTyped == Idle \in TaskRecord /\ TaskOK(Idle)
BY DEF Idle, TaskRecord, TaskOK, Points

LEMMA InitTypeOK == Init => TypeOK
<1> SUFFICES ASSUME Init PROVE TypeOK
  OBVIOUS
<1>1. WalletTypeOK  BY WalletInvInit DEF Init, WalletInv
<1>2. DepositsOK  BY DEF Init, DepositsOK, Statuses, NotCredited, CreditRecord
<1>3. TasksOK  BY IdleIsTyped DEF Init, TasksOK
<1> QED  BY <1>1, <1>2, <1>3 DEF TypeOK
-----------------------------------------------------------------------------
(* Every action updates at most one task.                                  *)
LEMMA TaskUpdate ==
  ASSUME TasksOK, NEW w \in Workers, NEW t \in TaskRecord, TaskOK(t),
         task' = [task EXCEPT ![w] = t]
  PROVE  TasksOK'
<1>1. task' \in [Workers -> TaskRecord]
  BY DEF TasksOK
<1>2. \A v \in Workers : task'[v] = IF v = w THEN t ELSE task[v]
  BY DEF TasksOK
<1>3. ASSUME NEW v \in Workers PROVE TaskOK(task'[v])
  <2>1. CASE v = w  BY <1>2, <2>1
  <2>2. CASE v # w  BY <1>2, <2>2 DEF TasksOK
  <2> QED  BY <2>1, <2>2
<1> QED  BY <1>1, <1>3 DEF TasksOK

LEMMA GoTyped ==
  ASSUME TasksOK, NEW w \in Workers, NEW pc \in Points, Go(w, pc),
         Dep(w) \in Deposits,
         pc \in {"readEscrow", "claimEscrow", "transfer"}
           => EscrowOf[Dep(w)] \in Escrows
  PROVE  TasksOK'
<1> DEFINE t == [task[w] EXCEPT !.pc = pc]
<1>1. task[w] \in TaskRecord  BY DEF TasksOK
<1>2. t \in TaskRecord /\ t.deposit = Dep(w) /\ t.pc = pc
  BY <1>1 DEF TaskRecord, Dep
<1>3. TaskOK(t)  BY <1>2 DEF TaskOK
<1>4. task' = [task EXCEPT ![w] = t]  BY DEF Go
<1> HIDE DEF t
<1> QED  BY <1>2, <1>3, <1>4, TaskUpdate

LEMMA EndTyped ==
  ASSUME TasksOK, NEW w \in Workers, End(w)
  PROVE  TasksOK'
<1>1. task[w] \in TaskRecord  BY DEF TasksOK
<1>2. Ended(w) \in TaskRecord /\ TaskOK(Ended(w))
  <2>1. CASE Op(w) = "batch"
    <3> DEFINE t == [task[w] EXCEPT !.pc = "next", !.deposit = NoDeposit]
    <3>1. t \in TaskRecord /\ t.pc = "next"  BY <1>1 DEF TaskRecord, Points
    <3>2. TaskOK(t)  BY <3>1 DEF TaskOK
    <3>3. Ended(w) = t  BY <2>1 DEF Ended
    <3> HIDE DEF t
    <3> QED  BY <3>1, <3>2, <3>3
  <2>2. CASE Op(w) # "batch"
    BY <2>2, IdleIsTyped DEF Ended
  <2> QED  BY <2>1, <2>2
<1>3. task' = [task EXCEPT ![w] = Ended(w)]  BY DEF End
<1> QED  BY <1>2, <1>3, TaskUpdate

LEMMA BeginTyped ==
  ASSUME TasksOK, NEW w \in Workers, NEW d \in Deposits,
         NEW op \in Requests, NEW x \in Deposits \cup {NoDeposit}, NEW pc \in Points,
         pc \notin {"readEscrow", "claimEscrow", "transfer"},
         Begin(w, op, d, x, pc)
  PROVE  TasksOK'
<1> DEFINE t == [Idle EXCEPT !.op = op, !.pc = pc, !.deposit = d, !.asked = x]
<1>1. t \in TaskRecord /\ TaskOK(t)  BY DEF Idle, TaskRecord, TaskOK
<1>2. task' = [task EXCEPT ![w] = t]  BY DEF Begin
<1> HIDE DEF t
<1> QED  BY <1>1, <1>2, TaskUpdate
-----------------------------------------------------------------------------
(* Money moves by wallet movements only.                                   *)
LEMMA WalletStep == TypeOK /\ [Next]_vars => [WalletNext]_walletVars
<1> SUFFICES ASSUME TypeOK, [Next]_vars PROVE [WalletNext]_walletVars
  OBVIOUS
<1>1. ASSUME NEW w \in Workers, Start(w) PROVE UNCHANGED walletVars
  BY <1>1 DEF Start, InitializeInsert, WebhookRead, CallbackRead, VerifyRead,
              CancelPending, BatchRead, Settle
<1>2. ASSUME NEW w \in Workers, Continue(w) PROVE [WalletNext]_walletVars
  <2>1. CASE Credit(w)
    <3>1. Dep(w) \in Deposits
      BY <2>1 DEF Credit, TypeOK, TasksOK, TaskOK, At, Dep
    <3>2. AmountOf[Dep(w)] \in Amounts /\ Owner \in Users
      BY <3>1, DepositAssumption
    <3>3. \E a \in Amounts : Deposit(Owner, a)
      BY <2>1, <3>2 DEF Credit
    <3> QED  BY <3>2, <3>3 DEF WalletNext
  <2>2. CASE Transfer(w)
    <3>1. CASE UNCHANGED walletVars  BY <3>1
    <3>2. CASE LockFunds(Owner, AmountOf[Dep(w)])
      <4>1. At(w, "transfer")  BY <2>2 DEF Transfer
      <4>2. Dep(w) \in Deposits
        BY <4>1 DEF TypeOK, TasksOK, TaskOK, At, Dep
      <4>3. AmountOf[Dep(w)] \in Amounts /\ Owner \in Users
        BY <4>2, DepositAssumption
      <4> QED  BY <3>2, <4>3 DEF WalletNext
    <3> QED  BY <2>2, <3>1, <3>2 DEF Transfer
  <2>3. CASE GatewayInit(w) \/ SaveTracker(w) \/ BatchNext(w)
             \/ GatewayVerify(w) \/ VerifyPayment(w) \/ Claim(w) \/ TimeOut(w)
    BY <2>3 DEF GatewayInit, SaveTracker, BatchNext, GatewayVerify, VerifyPayment, Claim,
                TimeOut, Settle
  <2>4. CASE SaveSuccess(w) \/ SaveFailed(w) \/ ReadEscrow(w)
             \/ ClaimEscrow(w) \/ Revert(w) \/ CreditRefused(w)
    BY <2>4 DEF SaveSuccess, SaveFailed, SaveStatus, ReadEscrow, ClaimEscrow,
                Revert, CreditRefused
  <2> QED  BY <1>2, <2>1, <2>2, <2>3, <2>4 DEF Continue
<1>3. CASE Environment
  <2>1. ASSUME NEW a \in Amounts, OwnerSpends(a) PROVE WalletNext
    BY <2>1, DepositAssumption DEF OwnerSpends, WalletNext
  <2>2. ASSUME NEW d \in Deposits, Pay(d) \/ TimePasses(d)
        PROVE  UNCHANGED walletVars
    BY <2>2 DEF Pay, TimePasses
  <2> QED  BY <1>3, <2>1, <2>2 DEF Environment
<1>4. CASE UNCHANGED vars  BY <1>4 DEF vars
<1> QED  BY <1>1, <1>2, <1>3, <1>4 DEF Next
-----------------------------------------------------------------------------
(* The types of everything but the wallets.                                *)
LEMMA StartKeepsTypes ==
  ASSUME TypesOK, NEW w \in Workers, Start(w)
  PROVE  TypesOK'
<1>1. TasksOK /\ DepositsOK  BY DEF TypesOK
<1>2. ASSUME NEW d \in Deposits, InitializeInsert(w, d) PROVE TypesOK'
  <2>1. TasksOK'
    BY <1>1, <1>2, BeginTyped DEF InitializeInsert, Requests, Points
  <2>2. DepositsOK'
    BY <1>1, <1>2 DEF InitializeInsert, DepositsOK, Statuses
  <2> QED  BY <2>1, <2>2 DEF TypesOK
<1>3. ASSUME NEW d \in Deposits,
             \/ WebhookRead(w, d)
             \/ \E x \in Deposits \cup {NoDeposit} : CallbackRead(w, d, x)
             \/ VerifyRead(w, d)
      PROVE  TypesOK'
  <2>1. TasksOK'
    BY <1>1, <1>3, BeginTyped DEF WebhookRead, CallbackRead, VerifyRead,
                                  Requests, Points
  <2>2. DepositsOK'
    BY <1>1, <1>3 DEF WebhookRead, CallbackRead, VerifyRead, depositVars,
                      DepositsOK
  <2> QED  BY <2>1, <2>2 DEF TypesOK
<1>4. ASSUME NEW d \in Deposits, CancelPending(w, d) PROVE TypesOK'
  BY <1>1, <1>4 DEF CancelPending, Settle, DepositsOK, Statuses, TasksOK,
                    TypesOK
<1>5. ASSUME BatchRead(w) PROVE TypesOK'
  <2> DEFINE t == [Idle EXCEPT !.op = "batch", !.pc = "next", !.batch = Pending,
                               !.late = Pending \cap stale]
  <2>1. t \in TaskRecord /\ TaskOK(t)
    BY DEF Idle, TaskRecord, TaskOK, Pending, Requests, Points
  <2>2. task' = [task EXCEPT ![w] = t] /\ UNCHANGED depositVars
    BY <1>5 DEF BatchRead
  <2> HIDE DEF t
  <2>3. TasksOK'  BY <1>1, <2>1, <2>2, TaskUpdate
  <2> QED  BY <1>1, <2>2, <2>3 DEF TypesOK, DepositsOK, depositVars
<1> QED  BY <1>2, <1>3, <1>4, <1>5 DEF Start

\* What a credit does to the record of credits.
LEMMA CreditedTyped ==
  ASSUME credits \in [Deposits -> CreditRecord], NEW w \in Workers, Credited(w),
         Dep(w) \in Deposits
  PROVE  /\ credits' \in [Deposits -> CreditRecord]
         /\ \A d \in Deposits : d # Dep(w) => credits'[d] = credits[d]
         /\ credits'[Dep(w)].claimed = IF Op(w) = "verify" THEN credits[Dep(w)].claimed
                                       ELSE credits[Dep(w)].claimed + 1
         /\ credits'[Dep(w)].byVerifier => credits[Dep(w)].byVerifier \/ Op(w) = "batch"
<1> DEFINE c == credits[Dep(w)]
           b == c.byVerifier \/ Op(w) = "batch"
           n == IF Op(w) = "verify" THEN [c EXCEPT !.verified = @ + 1]
                ELSE [c EXCEPT !.claimed = @ + 1, !.byVerifier = b]
<1>1. c \in CreditRecord /\ b \in BOOLEAN  OBVIOUS
<1>2. credits' = [credits EXCEPT ![Dep(w)] = n]
  BY DEF Credited
<1>3. b => c.byVerifier \/ Op(w) = "batch"  OBVIOUS
<1> HIDE DEF b
<1>4. CASE Op(w) = "verify"
  <2>1. n = [c EXCEPT !.verified = @ + 1]  BY <1>4
  <2> HIDE DEF n
  <2>2. n \in CreditRecord /\ n.claimed = c.claimed /\ n.byVerifier = c.byVerifier
    BY <1>1, <2>1 DEF CreditRecord
  <2> QED  BY <1>2, <1>4, <2>2
<1>5. CASE Op(w) # "verify"
  <2>1. n = [c EXCEPT !.claimed = @ + 1, !.byVerifier = b]  BY <1>5
  <2> HIDE DEF n
  <2>2. n = [claimed |-> c.claimed + 1, verified |-> c.verified, byVerifier |-> b]
    BY <1>1, <2>1 DEF CreditRecord
  <2>3. c.claimed + 1 \in Nat /\ c.verified \in Nat  BY <1>1 DEF CreditRecord
  <2>4. n \in CreditRecord /\ n.claimed = c.claimed + 1 /\ n.byVerifier = b
    BY <1>1, <2>2, <2>3, Zenon DEF CreditRecord
  <2> QED  BY <1>2, <1>3, <1>5, <2>4
<1> QED  BY <1>4, <1>5

LEMMA ContinueKeepsTypes ==
  ASSUME TypesOK, NEW w \in Workers, Continue(w)
  PROVE  TypesOK'
<1>1. TasksOK /\ DepositsOK  BY DEF TypesOK
<1>2. task[w] \in TaskRecord /\ TaskOK(task[w])  BY <1>1 DEF TasksOK
<1>3. CASE At(w, "next")
  <2>1. BatchNext(w)
    BY <1>3 DEF Continue, GatewayInit, SaveTracker, GatewayVerify, VerifyPayment, Claim,
                TimeOut, SaveSuccess, SaveFailed, Credit, CreditRefused, ReadEscrow,
                ClaimEscrow, Transfer, Revert, At
  <2>2. ASSUME NEW d \in task[w].batch, NEW pc \in {"timeOut", "gatewayVerify"},
               task' = [task EXCEPT ![w].batch = @ \ {d}, ![w].deposit = d,
                                    ![w].pc = pc]
        PROVE  TasksOK'
    <3> DEFINE t == [task[w] EXCEPT !.batch = @ \ {d}, !.deposit = d, !.pc = pc]
    <3>1. d \in Deposits  BY <1>2 DEF TaskRecord
    <3>2. t \in TaskRecord /\ t.deposit = d /\ t.pc = pc
      BY <1>2, <3>1 DEF TaskRecord, Points
    <3>3. TaskOK(t)  BY <3>1, <3>2 DEF TaskOK
    <3>4. task' = [task EXCEPT ![w] = t]  BY <1>1, <2>2 DEF TasksOK
    <3> HIDE DEF t
    <3> QED  BY <1>1, <3>2, <3>3, <3>4, TaskUpdate
  <2>3. TasksOK'
    <3>1. CASE task' = [task EXCEPT ![w] = Idle]
      BY <1>1, <3>1, IdleIsTyped, TaskUpdate
    <3> QED  BY <2>1, <2>2, <3>1 DEF BatchNext
  <2> QED  BY <1>1, <2>1, <2>3 DEF BatchNext, TypesOK, DepositsOK, depositVars
<1>4. CASE ~At(w, "next")
  <2>1. Dep(w) \in Deposits
    BY <1>2, <1>4 DEF Continue, GatewayInit, SaveTracker, BatchNext,
                      GatewayVerify, VerifyPayment, Claim, TimeOut, SaveSuccess, SaveFailed,
                      Credit, CreditRefused, ReadEscrow, ClaimEscrow, Transfer, Revert, At,
                      Dep, TaskOK
  <2>2. ~BatchNext(w)  BY <1>4 DEF BatchNext
  <2>3. TasksOK'
    <3>1. ASSUME NEW pc \in Points \ {"readEscrow", "claimEscrow", "transfer"},
                 Go(w, pc)
          PROVE  TasksOK'
      BY <1>1, <2>1, <3>1, GoTyped
    <3>2. End(w) => TasksOK'  BY <1>1, EndTyped
    <3>3. CASE GatewayInit(w) \/ SaveTracker(w) \/ GatewayVerify(w)
               \/ VerifyPayment(w) \/ CreditRefused(w)
      BY <3>1, <3>2, <3>3 DEF GatewayInit, SaveTracker, GatewayVerify,
                              VerifyPayment, CreditRefused, Points
    <3>4. CASE Claim(w) \/ TimeOut(w) \/ SaveSuccess(w) \/ SaveFailed(w)
               \/ Revert(w)
      BY <3>1, <3>2, <3>4 DEF Claim, TimeOut, SaveSuccess, SaveFailed, Revert,
                              Points
    <3>5. CASE Transfer(w)
      BY <3>1, <3>2, <3>5 DEF Transfer, Points
    <3>6. CASE Credit(w)
      <4>1. EscrowOf[Dep(w)] = NoEscrow \/ EscrowOf[Dep(w)] \in Escrows
        BY <2>1, DepositAssumption
      <4> QED  BY <1>1, <2>1, <3>2, <3>6, <4>1, GoTyped
               DEF Credit, Credited, Points
    <3>7. CASE ReadEscrow(w) \/ ClaimEscrow(w)
      <4>1. EscrowOf[Dep(w)] \in Escrows
        BY <1>2, <3>7 DEF ReadEscrow, ClaimEscrow, At, TaskOK, Dep
      <4> QED  BY <1>1, <2>1, <3>2, <3>7, <4>1, GoTyped
               DEF ReadEscrow, ClaimEscrow, Points
    <3> QED  BY <2>2, <3>3, <3>4, <3>5, <3>6, <3>7 DEF Continue
  <2>4. DepositsOK'
    <3>1. CASE GatewayInit(w) \/ SaveTracker(w) \/ GatewayVerify(w)
               \/ VerifyPayment(w) \/ CreditRefused(w) \/ ReadEscrow(w)
               \/ Transfer(w)
      BY <1>1, <2>1, <3>1 DEF GatewayInit, SaveTracker, GatewayVerify,
                              VerifyPayment, CreditRefused, ReadEscrow,
                              Transfer, depositVars, DepositsOK
    <3>2. CASE Claim(w) \/ TimeOut(w) \/ SaveSuccess(w) \/ SaveFailed(w)
               \/ Revert(w)
      BY <1>1, <2>1, <3>2 DEF Claim, TimeOut, SaveSuccess, SaveFailed, Revert,
                              Settle, SaveStatus, depositVars, DepositsOK,
                              Statuses
    <3>3. CASE ClaimEscrow(w)
      BY <1>1, <3>3 DEF ClaimEscrow, DepositsOK
    <3>4. CASE Credit(w)
      <4>1. /\ credits' \in [Deposits -> CreditRecord]
            /\ UNCHANGED <<status, tracker, stale, paid, escrow, judged>>
        <5>1. credits \in [Deposits -> CreditRecord]
          BY <1>1 DEF DepositsOK
        <5>2. credits' \in [Deposits -> CreditRecord]
          BY <2>1, <3>4, <5>1, CreditedTyped DEF Credit
        <5> QED  BY <3>4, <5>2 DEF Credit, Credited
      <4> QED  BY <1>1, <4>1 DEF DepositsOK
    <3> QED  BY <2>2, <3>1, <3>2, <3>3, <3>4 DEF Continue
  <2> QED  BY <2>3, <2>4 DEF TypesOK
<1> QED  BY <1>3, <1>4

\* TypeOK is inductive together with the wallets' own invariant.
TypeInv == TypeOK /\ WalletBalanced

LEMMA TypeInvStep == TypeInv /\ [Next]_vars => TypeInv'
<1> SUFFICES ASSUME TypeInv, [Next]_vars PROVE TypeInv'
  OBVIOUS
<1>1. WalletInv'
  BY WalletStep, WalletInvStep DEF TypeInv, TypeOK, WalletInv
<1>2. TypesOK'
  <2>1. TypesOK  BY DEF TypeInv, TypeOK, TypesOK
  <2>2. CASE Environment
    BY <2>1, <2>2 DEF Environment, Pay, TimePasses, OwnerSpends, depositVars,
                      TypesOK, DepositsOK, TasksOK
  <2>3. CASE UNCHANGED vars
    BY <2>1, <2>3 DEF vars, depositVars, TypesOK, DepositsOK, TasksOK
  <2> QED  BY <2>1, <2>2, <2>3, StartKeepsTypes, ContinueKeepsTypes DEF Next
<1> QED  BY <1>1, <1>2 DEF TypeInv, TypeOK, TypesOK, WalletInv

LEMMA TypeInvHolds == Spec => []TypeInv
<1>1. Init => TypeInv
  BY InitTypeOK, WalletInvInit DEF Init, TypeInv, WalletInv
<1> QED  BY <1>1, TypeInvStep, PTL DEF Spec

(***************************************************************************)
(* The requests never break a type: a worker at work has a deposit, one    *)
(* that funds an escrow has an escrow, and balances are numbers.           *)
(***************************************************************************)
THEOREM DepositTypeSafe == Spec => []TypeOK
<1>1. TypeInv => TypeOK  BY DEF TypeInv
<1> QED  BY <1>1, TypeInvHolds, PTL

(***************************************************************************)
(* Confirmations and transfers change wallets by deposits and locks only,  *)
(* so what module Wallet promises of balances holds of deposits.           *)
(***************************************************************************)
THEOREM DepositImplementsWallet == Spec => WalletSpec
<1>1. Init => WalletInit  BY DEF Init
<1>2. TypeInv /\ [Next]_vars => [WalletNext]_walletVars
  BY WalletStep DEF TypeInv
<1> QED  BY <1>1, <1>2, TypeInvHolds, PTL DEF Spec, WalletSpec
-----------------------------------------------------------------------------
(* The verifier past the gateway's answer works on a deposit that was      *)
(* paid; and only verifyDeposit gets to the saves that no filter guards.   *)
PastGateway(w) == Op(w) = "batch" /\ task[w].pc \in {"claim", "credit"}
Judging(w) == task[w].pc \in {"verifyPayment", "saveSuccess"}

PaidInv ==
  /\ VerifierCreditsPaid
  /\ \A w \in Workers : PastGateway(w) => Dep(w) \in paid
  /\ \A w \in Workers : Judging(w) => Op(w) = "verify"

CreditInv == TypeInv /\ ClaimInv /\ PaidInv

\* What the updates of a task say of all tasks.
LEMMA GoFrame ==
  ASSUME TasksOK, NEW w \in Workers, NEW pc, Go(w, pc), NEW v \in Workers
  PROVE  /\ task'[v].pc = IF v = w THEN pc ELSE task[v].pc
         /\ task'[v].op = task[v].op
         /\ task'[v].deposit = task[v].deposit
BY DEF TasksOK, TaskRecord, Go

LEMMA EndFrame ==
  ASSUME TasksOK, NEW w \in Workers, End(w), NEW v \in Workers
  PROVE  /\ v # w => task'[v] = task[v]
         /\ v = w => \/ task'[v].pc = "idle"
                     \/ task'[v].pc = "next" /\ task'[v].op = "batch"
BY DEF TasksOK, TaskRecord, End, Ended, Idle, Op

LEMMA BeginFrame ==
  ASSUME TasksOK, NEW w \in Workers, NEW op, NEW d, NEW x, NEW pc,
         Begin(w, op, d, x, pc), NEW v \in Workers
  PROVE  /\ v # w => task'[v] = task[v]
         /\ v = w => /\ task'[v].pc = pc
                     /\ task'[v].op = op
                     /\ task'[v].deposit = d
BY DEF TasksOK, Begin, Idle

LEMMA BatchFrame ==
  ASSUME TasksOK, NEW w \in Workers, BatchNext(w)
  PROVE  /\ \A v \in Workers : v # w => task'[v] = task[v]
         /\ task'[w].pc \in {"timeOut", "gatewayVerify", "idle"}
         /\ task'[w].pc = "idle" \/ task'[w].op = task[w].op
<1>1. ASSUME NEW d \in task[w].batch, NEW pc \in {"timeOut", "gatewayVerify"},
             task' = [task EXCEPT ![w].batch = @ \ {d}, ![w].deposit = d, ![w].pc = pc]
      PROVE  /\ \A v \in Workers : v # w => task'[v] = task[v]
             /\ task'[w].pc = pc /\ task'[w].op = task[w].op
  <2> DEFINE t == [task[w] EXCEPT !.batch = @ \ {d}, !.deposit = d, !.pc = pc]
  <2>1. t.pc = pc /\ t.op = task[w].op  BY DEF TasksOK, TaskRecord
  <2>2. task' = [task EXCEPT ![w] = t]  BY <1>1 DEF TasksOK
  <2> HIDE DEF t
  <2> QED  BY <2>1, <2>2 DEF TasksOK
<1>2. CASE task' = [task EXCEPT ![w] = Idle]
  BY <1>2 DEF TasksOK, Idle
<1> QED  BY <1>1, <1>2 DEF BatchNext
-----------------------------------------------------------------------------
(* A step that credits nothing, claims nothing and takes nobody past the   *)
(* gateway unpaid keeps both invariants.                                   *)
Calm ==
  /\ credits' = credits
  /\ paid \subseteq paid'
  /\ \A d \in Deposits :
       status'[d] \in {"none", "PENDING"} => status[d] \in {"none", "PENDING"}
  /\ \A v \in Workers :
       /\ Crediting(v)' => Crediting(v) /\ Dep(v)' = Dep(v)
       /\ PastGateway(v)' => Dep(v)' \in paid'
       /\ Judging(v)' => Op(v)' = "verify"

LEMMA CalmStep ==
  ASSUME TypesOK, ClaimInv, PaidInv, Calm
  PROVE  ClaimInv' /\ PaidInv'
<1>1. \A v \in Workers : Crediting(v) => Dep(v) \in Deposits
  BY DEF Crediting, At, Dep, TypesOK, TasksOK, TaskOK
<1>2. ClaimedOnce'  BY DEF Calm, ClaimInv, ClaimedOnce
<1>3. \A d \in Deposits :
        status'[d] \in {"none", "PENDING"} => credits'[d].claimed = 0
  BY DEF Calm, ClaimInv
<1>4. \A v \in Workers : Crediting(v)' =>
        /\ status'[Dep(v)'] \notin {"none", "PENDING"}
        /\ credits'[Dep(v)'].claimed = 0
  BY <1>1 DEF Calm, ClaimInv
<1>5. \A v, w \in Workers :
        Crediting(v)' /\ Crediting(w)' /\ Dep(v)' = Dep(w)' => v = w
  BY DEF Calm, ClaimInv
<1>6. ClaimInv'  BY <1>2, <1>3, <1>4, <1>5 DEF ClaimInv
<1>7. VerifierCreditsPaid'  BY DEF Calm, PaidInv, VerifierCreditsPaid
<1> QED  BY <1>6, <1>7 DEF Calm, PaidInv

LEMMA StartIsCalm ==
  ASSUME TypesOK, PaidInv, NEW w \in Workers, Start(w)
  PROVE  Calm
<1>1. TasksOK /\ DepositsOK  BY DEF TypesOK
<1>2. ASSUME NEW d \in Deposits, NEW op \in Requests,
             NEW x \in Deposits \cup {NoDeposit},
             NEW pc \in {"gatewayInit", "claim", "gatewayVerify", "verifyPayment"},
             Begin(w, op, d, x, pc), pc = "claim" => op # "batch",
             pc = "verifyPayment" => op = "verify", paid' = paid,
             NEW v \in Workers
      PROVE  /\ Crediting(v)' => Crediting(v) /\ Dep(v)' = Dep(v)
             /\ PastGateway(v)' => Dep(v)' \in paid'
             /\ Judging(v)' => Op(v)' = "verify"
  <2>1. CASE v = w
    BY <1>1, <1>2, <2>1, BeginFrame DEF Crediting, PastGateway, Judging, At, Dep, Op
  <2>2. CASE v # w
    BY <1>1, <1>2, <2>2, BeginFrame
    DEF Crediting, PastGateway, Judging, At, Dep, Op, PaidInv
  <2> QED  BY <2>1, <2>2
<1>3. ASSUME NEW d \in Deposits, InitializeInsert(w, d) PROVE Calm
  BY <1>1, <1>2, <1>3 DEF InitializeInsert, Requests, Calm, DepositsOK
<1>4. ASSUME NEW d \in Deposits,
             \/ WebhookRead(w, d)
             \/ \E x \in Deposits \cup {NoDeposit} : CallbackRead(w, d, x)
             \/ VerifyRead(w, d)
      PROVE  Calm
  BY <1>1, <1>2, <1>4 DEF WebhookRead, CallbackRead, VerifyRead, Requests,
                          depositVars, Calm
<1>5. ASSUME NEW d \in Deposits, CancelPending(w, d) PROVE Calm
  BY <1>1, <1>5 DEF CancelPending, Settle, Calm, DepositsOK, Crediting,
                    PastGateway, Judging, At, Dep, Op, PaidInv
<1>6. ASSUME BatchRead(w) PROVE Calm
  <2>1. \A v \in Workers : /\ v # w => task'[v] = task[v]
                           /\ v = w => task'[v].pc = "next"
    BY <1>1, <1>6 DEF BatchRead, TasksOK, Idle
  <2> QED  BY <1>6, <2>1 DEF BatchRead, depositVars, Calm, Crediting,
                             PastGateway, Judging, At, Dep, Op, PaidInv
<1> QED  BY <1>3, <1>4, <1>5, <1>6 DEF Start

LEMMA GoIsCalm ==
  ASSUME TasksOK, PaidInv, NEW w \in Workers, NEW pc, pc # "credit",
         Go(w, pc), pc = "claim" /\ Op(w) = "batch" => Dep(w) \in paid,
         pc \in {"verifyPayment", "saveSuccess"} => Op(w) = "verify", paid' = paid,
         NEW v \in Workers
  PROVE  /\ Crediting(v)' => Crediting(v) /\ Dep(v)' = Dep(v)
         /\ PastGateway(v)' => Dep(v)' \in paid'
         /\ Judging(v)' => Op(v)' = "verify"
BY GoFrame DEF Crediting, PastGateway, Judging, At, Dep, Op, PaidInv

LEMMA EndIsCalm ==
  ASSUME TasksOK, PaidInv, NEW w \in Workers, End(w), paid' = paid,
         NEW v \in Workers
  PROVE  /\ Crediting(v)' => Crediting(v) /\ Dep(v)' = Dep(v)
         /\ PastGateway(v)' => Dep(v)' \in paid'
         /\ Judging(v)' => Op(v)' = "verify"
<1>1. CASE v = w
  BY <1>1, EndFrame DEF Crediting, PastGateway, Judging, At
<1>2. CASE v # w
  BY <1>2, EndFrame DEF Crediting, PastGateway, Judging, At, Dep, Op, PaidInv
<1> QED  BY <1>1, <1>2

LEMMA ContinueIsCalm ==
  ASSUME TypesOK, PaidInv, NEW w \in Workers, Continue(w), ~Credit(w),
         status[Dep(w)] # "PENDING" \/ ~Claim(w)
  PROVE  Calm \/ SaveSuccess(w)
<1>1. TasksOK /\ DepositsOK  BY DEF TypesOK
<1>2. CASE GatewayInit(w) \/ ReadEscrow(w) \/ ClaimEscrow(w) \/ Transfer(w)
  BY <1>1, <1>2, GoIsCalm, EndIsCalm
  DEF GatewayInit, ReadEscrow, ClaimEscrow, Transfer, depositVars, Calm
<1>3. CASE SaveTracker(w) \/ Claim(w)
  BY <1>1, <1>3, EndIsCalm DEF SaveTracker, Claim, depositVars, Calm
<1>4. CASE TimeOut(w) \/ SaveFailed(w) \/ Revert(w)
  <2>1. \A d \in Deposits : status'[d] \in {"none", "PENDING"}
                              => status[d] \in {"none", "PENDING"}
    BY <1>1, <1>4 DEF TimeOut, SaveFailed, Revert, SaveStatus, Settle,
                      DepositsOK, depositVars
  <2>2. credits' = credits /\ paid' = paid /\ End(w)
    BY <1>4 DEF TimeOut, SaveFailed, Revert, SaveStatus, Settle, depositVars
  <2> QED  BY <1>1, <2>1, <2>2, EndIsCalm DEF Calm
<1>5. CASE GatewayVerify(w) \/ VerifyPayment(w) \/ CreditRefused(w)
  <2>1. UNCHANGED <<status, credits, paid>>
    BY <1>5 DEF GatewayVerify, VerifyPayment, CreditRefused, depositVars
  <2>2. \/ Go(w, "claim") /\ (Op(w) = "batch" => Dep(w) \in paid)
        \/ Go(w, "saveSuccess") /\ Op(w) = "verify"
        \/ Go(w, "saveFailed")
        \/ End(w)
    BY <1>5 DEF GatewayVerify, AskedAbout, VerifyPayment, CreditRefused, PaidInv,
                Judging, At
  <2> QED  BY <1>1, <2>1, <2>2, GoIsCalm, EndIsCalm DEF Calm
<1>6. CASE BatchNext(w)
  <2>1. UNCHANGED <<status, credits, paid>>
    BY <1>6 DEF BatchNext, depositVars
  <2>2. /\ \A v \in Workers : v # w => task'[v] = task[v]
        /\ task'[w].pc \in {"timeOut", "gatewayVerify", "idle"}
    BY <1>1, <1>6, BatchFrame
  <2> QED  BY <2>1, <2>2 DEF Calm, Crediting, PastGateway, Judging, At, Dep, Op, PaidInv
<1> QED  BY <1>2, <1>3, <1>4, <1>5, <1>6 DEF Continue
-----------------------------------------------------------------------------
(* verifyDeposit closes the row and goes on to credit, on no claim.        *)
LEMMA SaveSuccessIsCalm ==
  ASSUME TypesOK, PaidInv, NEW w \in Workers, SaveSuccess(w)
  PROVE  Calm
<1>1. TasksOK /\ DepositsOK  BY DEF TypesOK
<1>2. /\ At(w, "saveSuccess") /\ Go(w, "credit") /\ SaveStatus(w, "SUCCESS")
      /\ Op(w) = "verify"
  BY DEF SaveSuccess, PaidInv, Judging, At
<1>3. \A d \in Deposits : status'[d] \in {"none", "PENDING"}
                            => status[d] \in {"none", "PENDING"}
  BY <1>1, <1>2 DEF SaveStatus, DepositsOK
<1>4. ASSUME NEW v \in Workers
      PROVE  /\ Crediting(v)' => Crediting(v) /\ Dep(v)' = Dep(v)
             /\ PastGateway(v)' => Dep(v)' \in paid
             /\ Judging(v)' => Op(v)' = "verify"
  BY <1>1, <1>2, GoFrame DEF Crediting, PastGateway, Judging, At, Dep, Op, PaidInv
<1> QED  BY <1>2, <1>3, <1>4 DEF SaveStatus, Calm

(* The claim that finds the row PENDING makes its request the only one     *)
(* that will credit the deposit.                                           *)
LEMMA ClaimStep ==
  ASSUME TypesOK, ClaimInv, PaidInv, NEW w \in Workers, Claim(w),
         status[Dep(w)] = "PENDING"
  PROVE  ClaimInv' /\ PaidInv'
<1>1. TasksOK /\ DepositsOK  BY DEF TypesOK
<1>2. /\ At(w, "claim") /\ Go(w, "credit")
      /\ status' = [status EXCEPT ![Dep(w)] = "SUCCESS"]
      /\ credits' = credits /\ paid' = paid
  BY DEF Claim, Settle
<1>3. /\ Dep(w) \in Deposits /\ credits[Dep(w)].claimed = 0
      /\ Op(w) = "batch" => Dep(w) \in paid
  BY <1>1, <1>2 DEF TasksOK, TaskOK, At, Dep, PaidInv, PastGateway, ClaimInv
<1>4. \A d \in Deposits :
        status'[d] = IF d = Dep(w) THEN "SUCCESS" ELSE status[d]
  BY <1>1, <1>2 DEF DepositsOK
<1>5. ASSUME NEW v \in Workers
      PROVE  /\ Crediting(v)' => v = w \/ Crediting(v)
             /\ Dep(v)' = Dep(v)
             /\ PastGateway(v)' => Dep(v)' \in paid
             /\ Judging(v)' => Op(v)' = "verify"
  BY <1>1, <1>2, <1>3, GoFrame
  DEF Crediting, PastGateway, Judging, At, Dep, Op, PaidInv
<1>6. \A v \in Workers : Crediting(v) => Dep(v) \in Deposits /\ Dep(v) # Dep(w)
  BY <1>1 DEF Crediting, At, Dep, TasksOK, TaskOK, ClaimInv
<1>7. ClaimInv'
  <2>1. ClaimedOnce'  BY <1>2 DEF ClaimInv, ClaimedOnce
  <2>2. \A d \in Deposits :
          status'[d] \in {"none", "PENDING"} => credits'[d].claimed = 0
    BY <1>2, <1>4 DEF ClaimInv
  <2>3. \A v \in Workers : Crediting(v)' =>
          /\ status'[Dep(v)'] \notin {"none", "PENDING"}
          /\ credits'[Dep(v)'].claimed = 0
    BY <1>2, <1>3, <1>4, <1>5, <1>6 DEF ClaimInv
  <2>4. \A u, v \in Workers :
          Crediting(u)' /\ Crediting(v)' /\ Dep(u)' = Dep(v)' => u = v
    BY <1>5, <1>6 DEF ClaimInv
  <2> QED  BY <2>1, <2>2, <2>3, <2>4 DEF ClaimInv
<1>8. VerifierCreditsPaid'  BY <1>2 DEF PaidInv, VerifierCreditsPaid
<1> QED  BY <1>2, <1>5, <1>7, <1>8 DEF PaidInv

LEMMA CreditStep ==
  ASSUME TypesOK, ClaimInv, PaidInv, NEW w \in Workers, Credit(w)
  PROVE  ClaimInv' /\ PaidInv'
<1> DEFINE e == Dep(w)
<1>1. TasksOK /\ DepositsOK  BY DEF TypesOK
<1>2. At(w, "credit") /\ Credited(w)  BY DEF Credit
<1>3. /\ UNCHANGED <<status, paid>>
      /\ End(w) \/ Go(w, "readEscrow")
  BY <1>2 DEF Credited
<1>4. e \in Deposits /\ (Op(w) = "batch" => e \in paid)
  BY <1>1, <1>2 DEF TasksOK, TaskOK, At, Dep, PaidInv, PastGateway
<1>5. /\ \A d \in Deposits : d # e => credits'[d] = credits[d]
      /\ credits'[e].claimed = IF Op(w) = "verify" THEN credits[e].claimed
                               ELSE credits[e].claimed + 1
      /\ credits'[e].byVerifier => credits[e].byVerifier \/ Op(w) = "batch"
  BY <1>1, <1>2, <1>4, CreditedTyped DEF DepositsOK
<1>6. ASSUME NEW v \in Workers
      PROVE  /\ Crediting(v)' => v # w /\ Crediting(v) /\ Dep(v)' = Dep(v)
             /\ PastGateway(v)' => Dep(v)' \in paid'
             /\ Judging(v)' => Op(v)' = "verify"
  <2>1. CASE End(w)
    BY <1>1, <1>3, <2>1, EndIsCalm, EndFrame DEF Crediting, At
  <2>2. CASE Go(w, "readEscrow")
    BY <1>1, <1>3, <2>2, GoIsCalm, GoFrame DEF Crediting, At
  <2> QED  BY <1>3, <2>1, <2>2
<1>7. \A v \in Workers : Crediting(v) => Dep(v) \in Deposits
  BY <1>1 DEF Crediting, At, Dep, TasksOK, TaskOK
<1>8. \A d \in Deposits :
        \/ credits'[d].claimed = credits[d].claimed
        \/ /\ d = e /\ Crediting(w)
           /\ credits[d].claimed = 0 /\ credits'[d].claimed = 1
  <2>1. CASE Op(w) = "verify"  BY <1>5, <2>1
  <2>2. CASE Op(w) # "verify"
    <3>1. Crediting(w) /\ credits[e].claimed = 0
      BY <1>2, <2>2 DEF Crediting, ClaimInv
    <3> QED  BY <1>5, <2>2, <3>1
  <2> QED  BY <2>1, <2>2
<1> HIDE DEF e
<1>9. ClaimInv'
  <2>1. ClaimedOnce'  BY <1>8 DEF ClaimInv, ClaimedOnce
  <2>2. \A d \in Deposits :
          status'[d] \in {"none", "PENDING"} => credits'[d].claimed = 0
    BY <1>3, <1>8 DEF ClaimInv, e
  <2>3. ASSUME NEW v \in Workers, Crediting(v)'
        PROVE  /\ status'[Dep(v)'] \notin {"none", "PENDING"}
               /\ credits'[Dep(v)'].claimed = 0
    <3>1. v # w /\ Crediting(v) /\ Dep(v)' = Dep(v) /\ Dep(v) \in Deposits
      BY <1>6, <1>7, <2>3
    <3>2. Crediting(w) => Dep(v) # e  BY <3>1 DEF ClaimInv, e
    <3> QED  BY <1>3, <1>8, <3>1, <3>2 DEF ClaimInv
  <2>4. \A u, v \in Workers :
          Crediting(u)' /\ Crediting(v)' /\ Dep(u)' = Dep(v)' => u = v
    BY <1>6 DEF ClaimInv
  <2> QED  BY <2>1, <2>2, <2>3, <2>4 DEF ClaimInv
<1>10. VerifierCreditsPaid'
  BY <1>3, <1>4, <1>5 DEF PaidInv, VerifierCreditsPaid
<1> QED  BY <1>6, <1>9, <1>10 DEF PaidInv

LEMMA CreditInvStep == CreditInv /\ [Next]_vars => CreditInv'
<1> SUFFICES ASSUME CreditInv, [Next]_vars PROVE CreditInv'
  OBVIOUS
<1>1. TypesOK /\ ClaimInv /\ PaidInv
  BY DEF CreditInv, TypeInv, TypeOK, TypesOK
<1>2. TypeInv'  BY TypeInvStep DEF CreditInv
<1>3. ClaimInv' /\ PaidInv'
  <2>1. ASSUME NEW w \in Workers, Start(w) PROVE ClaimInv' /\ PaidInv'
    BY <1>1, <2>1, StartIsCalm, CalmStep
  <2>2. ASSUME NEW w \in Workers, Continue(w) PROVE ClaimInv' /\ PaidInv'
    BY <1>1, <2>2, ContinueIsCalm, SaveSuccessIsCalm, CalmStep, ClaimStep,
       CreditStep
  <2>3. CASE Environment
    <3>1. Calm
      BY <1>1, <2>3 DEF Environment, Pay, TimePasses, OwnerSpends,
                        depositVars, Calm, Crediting, PastGateway, Judging, At, Dep,
                        Op, PaidInv
    <3> QED  BY <1>1, <3>1, CalmStep
  <2>4. CASE UNCHANGED vars
    <3>1. Calm
      BY <1>1, <2>4 DEF vars, depositVars, Calm, Crediting, PastGateway, Judging, At,
                        Dep, Op, PaidInv
    <3> QED  BY <1>1, <3>1, CalmStep
  <2> QED  BY <2>1, <2>2, <2>3, <2>4 DEF Next
<1> QED  BY <1>2, <1>3 DEF CreditInv

LEMMA CreditInvHolds == Spec => []CreditInv
<1>1. Init => CreditInv
  <2>1. Init => TypeInv
    BY InitTypeOK, WalletInvInit DEF Init, TypeInv, WalletInv
  <2>2. Init => ClaimInv
    BY DEF Init, ClaimInv, ClaimedOnce, Crediting, At, Idle, NotCredited
  <2>3. Init => PaidInv
    BY DEF Init, PaidInv, VerifierCreditsPaid, PastGateway, Judging, Idle, NotCredited
  <2> QED  BY <2>1, <2>2, <2>3 DEF CreditInv
<1> QED  BY <1>1, CreditInvStep, PTL DEF Spec

(***************************************************************************)
(* However many webhooks, callbacks and verifiers confirm a deposit at the *)
(* same time, it is credited on a claim at most once.                      *)
(***************************************************************************)
THEOREM CreditedOnce == Spec => []ClaimedOnce
<1>1. CreditInv => ClaimedOnce  BY DEF CreditInv, ClaimInv
<1> QED  BY <1>1, CreditInvHolds, PTL

(***************************************************************************)
(* The verifier credits no deposit that the client has not paid at the     *)
(* gateway, whatever others do between its read, its question and its      *)
(* claim.                                                                  *)
(***************************************************************************)
THEOREM VerifierCreditsOnlyPaid == Spec => []VerifierCreditsPaid
<1>1. CreditInv => VerifierCreditsPaid  BY DEF CreditInv, PaidInv
<1> QED  BY <1>1, CreditInvHolds, PTL
-----------------------------------------------------------------------------
(* The row and the wallet agree.  Between the claim and the credit they do *)
(* not, so the invariant says who is about to make them agree; and that    *)
(* only a deposit made for an escrow is reverted.                          *)
Awaited(d) == \E w \in Workers : Crediting(w) /\ Dep(w) = d
Claiming(w) == task[w].pc \in {"next", "gatewayVerify", "claim"}

AgreesInv ==
  /\ \A d \in Deposits \ judged :
       /\ status[d] = "SUCCESS" => credits[d].claimed = 1 \/ Awaited(d)
       /\ status[d] = "FAILED" /\ EscrowOf[d] = NoEscrow =>
            credits[d].claimed = 0 /\ ~Awaited(d)
  /\ \A w \in Workers :
       /\ At(w, "revert") => EscrowOf[Dep(w)] \in Escrows
       /\ Claiming(w) => Op(w) # "verify"

\* A step that neither credits nor makes anyone credit on a claim.
Quiet ==
  /\ judged \subseteq judged'
  /\ \A d \in Deposits \ judged' :
       /\ credits'[d] = credits[d]
       /\ status'[d] = "SUCCESS" => status[d] = "SUCCESS"
       /\ status'[d] = "FAILED" /\ EscrowOf[d] = NoEscrow =>
            status[d] \in {"PENDING", "FAILED"}
  /\ \A v \in Workers :
       /\ Crediting(v)' <=> Crediting(v)
       /\ Crediting(v) => Dep(v)' = Dep(v)
       /\ At(v, "revert")' => EscrowOf[Dep(v)'] \in Escrows
       /\ Claiming(v)' => Op(v)' # "verify"

LEMMA QuietStep ==
  ASSUME AgreesInv, ClaimInv, Quiet
  PROVE  AgreesInv'
<1>1. \A d \in Deposits : Awaited(d)' <=> Awaited(d)  BY DEF Quiet, Awaited
<1>2. \A d \in Deposits : status[d] = "PENDING" => ~Awaited(d) /\ credits[d].claimed = 0
  BY DEF ClaimInv, Awaited
<1> QED  BY <1>1, <1>2 DEF AgreesInv, Quiet

LEMMA OthersGoOn ==
  ASSUME TypesOK, NEW w \in Workers, Start(w) \/ Continue(w), NEW v \in Workers, v # w
  PROVE  task'[v] = task[v]
BY DEF TypesOK, TasksOK, Start, Continue, InitializeInsert, GatewayInit, SaveTracker,
       WebhookRead, CallbackRead, VerifyRead, BatchRead, BatchNext, GatewayVerify, VerifyPayment, Claim,
       TimeOut, CancelPending, SaveSuccess, SaveFailed, Credit, CreditRefused, Credited, ReadEscrow,
       ClaimEscrow, Transfer, Revert, Begin, Go, End

LEMMA QuietCredits ==
  ASSUME TypesOK, Calm, NEW w \in Workers, Start(w) \/ Continue(w), ~Crediting(w),
         NEW v \in Workers
  PROVE  /\ Crediting(v)' <=> Crediting(v)
         /\ Crediting(v) => Dep(v)' = Dep(v)
BY OthersGoOn DEF Calm, Crediting, At, Dep, Op

LEMMA QuietPoints ==
  ASSUME TypesOK, AgreesInv, NEW w \in Workers, Start(w) \/ Continue(w),
         At(w, "revert")' => EscrowOf[Dep(w)'] \in Escrows,
         Claiming(w)' => Op(w)' # "verify",
         NEW v \in Workers
  PROVE  /\ At(v, "revert")' => EscrowOf[Dep(v)'] \in Escrows
         /\ Claiming(v)' => Op(v)' # "verify"
BY OthersGoOn DEF AgreesInv, Claiming, At, Dep, Op

LEMMA StartIsQuiet ==
  ASSUME TypesOK, PaidInv, AgreesInv, NEW w \in Workers, Start(w)
  PROVE  Quiet
<1>1. TasksOK /\ DepositsOK  BY DEF TypesOK
<1>2. Calm  BY StartIsCalm
<1>3. CASE \E d \in Deposits : CancelPending(w, d)
  <2>1. task' = task  BY <1>3 DEF CancelPending
  <2> QED  BY <1>1, <1>3, <2>1 DEF CancelPending, Settle, Quiet, AgreesInv, DepositsOK,
                                   Crediting, Claiming, At, Dep, Op
<1>4. CASE ~\E d \in Deposits : CancelPending(w, d)
  <2>1. At(w, "idle") /\ ~At(w, "revert")' /\ (Claiming(w)' => Op(w)' # "verify")
    <3>1. ASSUME NEW d \in Deposits,
                 \/ InitializeInsert(w, d)
                 \/ WebhookRead(w, d)
                 \/ \E x \in Deposits \cup {NoDeposit} : CallbackRead(w, d, x)
                 \/ VerifyRead(w, d)
          PROVE  At(w, "idle") /\ ~At(w, "revert")' /\ (Claiming(w)' => Op(w)' # "verify")
      <4>1. PICK op \in Requests, x \in Deposits \cup {NoDeposit},
                 pc \in {"gatewayInit", "claim", "gatewayVerify", "verifyPayment"} :
              /\ Begin(w, op, d, x, pc) /\ At(w, "idle")
              /\ pc \in {"claim", "gatewayVerify"} => op # "verify"
        BY <3>1 DEF InitializeInsert, WebhookRead, CallbackRead, VerifyRead, May, Requests
      <4> QED  BY <1>1, <4>1, BeginFrame DEF Claiming, At, Op
    <3>2. CASE BatchRead(w)  BY <1>1, <3>2 DEF BatchRead, TasksOK, Claiming, At, Op, May, Idle
    <3> QED  BY <1>4, <3>1, <3>2 DEF Start
  <2>2. /\ judged' = judged /\ credits' = credits
        /\ \A d \in Deposits : status'[d] = status[d] \/ status'[d] = "PENDING"
    BY <1>1, <1>4 DEF Start, InitializeInsert, WebhookRead, CallbackRead, VerifyRead,
                      BatchRead, depositVars, DepositsOK
  <2> QED  BY <1>2, <2>1, <2>2, QuietCredits, QuietPoints DEF Quiet, Crediting, At
<1> QED  BY <1>3, <1>4

LEMMA ContinueIsQuiet ==
  ASSUME TypesOK, PaidInv, AgreesInv, NEW w \in Workers, Continue(w), ~Credit(w),
         status[Dep(w)] # "PENDING" \/ ~Claim(w)
  PROVE  Quiet
<1>1. TasksOK /\ DepositsOK  BY DEF TypesOK
<1>2. Calm  BY ContinueIsCalm, SaveSuccessIsCalm
<1>3. ~Crediting(w)
  <2>1. CASE CreditRefused(w)  BY <2>1 DEF CreditRefused, Crediting
  <2>2. CASE ~CreditRefused(w)
    BY <2>2 DEF Continue, GatewayInit, SaveTracker, BatchNext, GatewayVerify,
                VerifyPayment, Claim, TimeOut, SaveSuccess, SaveFailed, ReadEscrow,
                ClaimEscrow, Transfer, Revert, Crediting, At
  <2> QED  BY <2>1, <2>2
<1>4. /\ At(w, "revert")' => EscrowOf[Dep(w)'] \in Escrows
      /\ Claiming(w)' => Op(w)' # "verify"
  <2>1. CASE Transfer(w)
    <3>1. CASE End(w)  BY <1>1, <3>1, EndFrame DEF Claiming, At, Op
    <3>2. CASE Go(w, "revert")
      BY <1>1, <2>1, <3>2, GoFrame DEF Transfer, Claiming, At, Dep, TasksOK, TaskOK
    <3> QED  BY <2>1, <3>1, <3>2 DEF Transfer
  <2>2. CASE BatchNext(w)
    BY <1>1, <2>2, BatchFrame DEF AgreesInv, Claiming, BatchNext, At, Op
  <2>3. CASE ~Transfer(w) /\ ~BatchNext(w)
    <3>1. \/ End(w)
          \/ \E pc \in Points \ {"revert"} :
               Go(w, pc) /\ (pc \in {"next", "gatewayVerify", "claim"} => Op(w) # "verify")
      <4>1. CASE GatewayVerify(w)
        BY <4>1 DEF GatewayVerify, AgreesInv, Claiming, At, Points
      <4>2. CASE ~GatewayVerify(w)
        BY <2>3, <4>2 DEF Continue, GatewayInit, SaveTracker, VerifyPayment, Claim,
                          TimeOut, SaveSuccess, SaveFailed, CreditRefused,
                          ReadEscrow, ClaimEscrow, Revert, Points
      <4> QED  BY <4>1, <4>2
    <3> QED  BY <1>1, <3>1, GoFrame, EndFrame DEF Claiming, At, Op
  <2> QED  BY <2>1, <2>2, <2>3
<1>5. /\ judged \subseteq judged' /\ credits' = credits
      /\ \A d \in Deposits \ judged' :
           /\ status'[d] = "SUCCESS" => status[d] = "SUCCESS"
           /\ status'[d] = "FAILED" /\ EscrowOf[d] = NoEscrow =>
                status[d] \in {"PENDING", "FAILED"}
  <2>1. CASE TimeOut(w)
    BY <1>1, <2>1 DEF TimeOut, Settle, depositVars, DepositsOK
  <2>2. CASE SaveSuccess(w) \/ SaveFailed(w)
    BY <1>1, <2>2 DEF SaveSuccess, SaveFailed, SaveStatus, DepositsOK
  <2>3. CASE Revert(w)
    <3>1. EscrowOf[Dep(w)] # NoEscrow
      BY <2>3, DepositAssumption DEF Revert, AgreesInv
    <3> QED  BY <1>1, <2>3, <3>1 DEF Revert, DepositsOK
  <2>4. CASE ~TimeOut(w) /\ ~SaveSuccess(w) /\ ~SaveFailed(w) /\ ~Revert(w)
    BY <2>4 DEF Continue, GatewayInit, SaveTracker, BatchNext, GatewayVerify, VerifyPayment, Claim,
           CreditRefused, ReadEscrow, ClaimEscrow, Transfer, depositVars
  <2> QED  BY <2>1, <2>2, <2>3, <2>4
<1> QED  BY <1>2, <1>3, <1>4, <1>5, QuietCredits, QuietPoints DEF Quiet

LEMMA ClaimAgrees ==
  ASSUME TypesOK, ClaimInv, AgreesInv, NEW w \in Workers, Claim(w),
         status[Dep(w)] = "PENDING"
  PROVE  AgreesInv'
<1>1. TasksOK /\ DepositsOK  BY DEF TypesOK
<1>2. /\ At(w, "claim") /\ Go(w, "credit") /\ judged' = judged /\ credits' = credits
      /\ status' = [status EXCEPT ![Dep(w)] = "SUCCESS"]
  BY DEF Claim, Settle
<1>3. Dep(w) \in Deposits /\ Dep(w)' = Dep(w)
  BY <1>1, <1>2, GoFrame DEF TasksOK, TaskOK, At, Dep
<1>4. \A v \in Workers \ {w} :
        (Crediting(v)' <=> Crediting(v)) /\ Dep(v)' = Dep(v)
  BY <1>1, <1>2, GoFrame DEF Crediting, At, Dep, Op
<1>5. ASSUME NEW d \in Deposits \ judged, d # Dep(w)
      PROVE  status'[d] = status[d] /\ (Awaited(d)' <=> Awaited(d))
  <2>1. ~(Crediting(w) /\ Dep(w) = d) /\ ~(Crediting(w)' /\ Dep(w)' = d)
    BY <1>3, <1>5
  <2>2. Awaited(d)' <=> Awaited(d)  BY <1>4, <2>1 DEF Awaited
  <2> QED  BY <1>1, <1>2, <1>5, <2>2 DEF DepositsOK
<1>6. status'[Dep(w)] = "SUCCESS"  BY <1>1, <1>2, <1>3 DEF DepositsOK
<1>7. ASSUME NEW d \in Deposits, d = Dep(w), Op(w) # "verify"
      PROVE  Awaited(d)'
  BY <1>1, <1>2, <1>3, <1>7, GoFrame DEF Awaited, Crediting, At, Op
<1>8. Op(w) # "verify"  BY <1>2 DEF AgreesInv, Claiming, At
<1>9. \A v \in Workers : /\ At(v, "revert")' => EscrowOf[Dep(v)'] \in Escrows
                         /\ Claiming(v)' => Op(v)' # "verify"
  BY <1>1, <1>2, GoFrame DEF AgreesInv, Claiming, At, Dep, Op
<1>10. ASSUME NEW d \in Deposits \ judged
       PROVE  /\ status'[d] = "SUCCESS" => credits'[d].claimed = 1 \/ Awaited(d)'
              /\ status'[d] = "FAILED" /\ EscrowOf[d] = NoEscrow =>
                   credits'[d].claimed = 0 /\ ~Awaited(d)'
  <2>1. CASE d = Dep(w)  BY <1>6, <1>7, <1>8, <1>10, <2>1
  <2>2. CASE d # Dep(w)
    <3>1. status'[d] = status[d] /\ (Awaited(d)' <=> Awaited(d))
      BY <1>5, <1>10, <2>2
    <3>2. credits'[d] = credits[d]  BY <1>2
    <3> QED  BY <1>10, <3>1, <3>2 DEF AgreesInv
  <2> QED  BY <2>1, <2>2
<1> QED  BY <1>2, <1>9, <1>10 DEF AgreesInv

LEMMA CreditAgrees ==
  ASSUME TypesOK, ClaimInv, AgreesInv, NEW w \in Workers, Credit(w)
  PROVE  AgreesInv'
<1> DEFINE e == Dep(w)
<1>1. TasksOK /\ DepositsOK  BY DEF TypesOK
<1>2. At(w, "credit") /\ Credited(w)  BY DEF Credit
<1>3. /\ UNCHANGED <<status, judged>>
      /\ End(w) \/ Go(w, "readEscrow")
  BY <1>2 DEF Credited
<1>4. e \in Deposits  BY <1>1, <1>2 DEF TasksOK, TaskOK, At, Dep
<1>5. /\ \A d \in Deposits : d # e => credits'[d] = credits[d]
      /\ credits'[e].claimed = IF Op(w) = "verify" THEN credits[e].claimed
                               ELSE credits[e].claimed + 1
  BY <1>1, <1>2, <1>4, CreditedTyped DEF DepositsOK
<1>6. \A v \in Workers : v # w => task'[v] = task[v]
  BY <1>1, OthersGoOn DEF Continue
<1>7. /\ task'[w].pc \in {"idle", "next", "readEscrow"}
      /\ task'[w].pc = "next" => task'[w].op = "batch"
  BY <1>1, <1>3, EndFrame, GoFrame
<1>8. \A v \in Workers : Crediting(v)' <=> v # w /\ Crediting(v)
  BY <1>6, <1>7 DEF Crediting, At, Op
<1>9. \A v \in Workers : v # w => Dep(v)' = Dep(v)  BY <1>6 DEF Dep
<1>10. ASSUME NEW d \in Deposits, d # e
       PROVE  Awaited(d)' <=> Awaited(d)
  BY <1>8, <1>9, <1>10 DEF Awaited
<1>11. CASE Op(w) = "verify"
  <2>1. ~Crediting(w)  BY <1>11 DEF Crediting
  <2>2. \A d \in Deposits : Awaited(d)' <=> Awaited(d)
    BY <1>8, <1>9, <2>1 DEF Awaited
  <2>3. \A d \in Deposits : credits'[d].claimed = credits[d].claimed  BY <1>5, <1>11
  <2>4. \A v \in Workers : /\ At(v, "revert")' => EscrowOf[Dep(v)'] \in Escrows
                           /\ Claiming(v)' => Op(v)' # "verify"
    BY <1>6, <1>7 DEF AgreesInv, Claiming, At, Dep, Op
  <2> QED  BY <1>3, <2>2, <2>3, <2>4 DEF AgreesInv
<1>12. CASE Op(w) # "verify"
  <2>1. Crediting(w) /\ credits[e].claimed = 0  BY <1>2, <1>12 DEF Crediting, ClaimInv
  <2>2. credits'[e].claimed = 1  BY <1>5, <1>12, <2>1
  <2>3. Awaited(e)  BY <2>1 DEF Awaited
  <2>4. ASSUME NEW d \in Deposits \ judged
        PROVE  /\ status[d] = "SUCCESS" => credits'[d].claimed = 1 \/ Awaited(d)'
               /\ status[d] = "FAILED" /\ EscrowOf[d] = NoEscrow =>
                    credits'[d].claimed = 0 /\ ~Awaited(d)'
    <3>1. CASE d = e  BY <2>2, <2>3, <3>1 DEF AgreesInv
    <3>2. CASE d # e  BY <1>5, <1>10, <3>2 DEF AgreesInv
    <3> QED  BY <3>1, <3>2
  <2>5. \A v \in Workers : /\ At(v, "revert")' => EscrowOf[Dep(v)'] \in Escrows
                           /\ Claiming(v)' => Op(v)' # "verify"
    BY <1>6, <1>7 DEF AgreesInv, Claiming, At, Dep, Op
  <2> QED  BY <1>3, <2>4, <2>5 DEF AgreesInv
<1> QED  BY <1>11, <1>12

LEMMA AgreesInvStep == CreditInv /\ AgreesInv /\ [Next]_vars => AgreesInv'
<1> SUFFICES ASSUME CreditInv, AgreesInv, [Next]_vars PROVE AgreesInv'
  OBVIOUS
<1>1. TypesOK /\ ClaimInv /\ PaidInv
  BY DEF CreditInv, TypeInv, TypeOK, TypesOK
<1>2. ASSUME NEW w \in Workers, Start(w) PROVE AgreesInv'
  BY <1>1, <1>2, StartIsQuiet, QuietStep
<1>3. ASSUME NEW w \in Workers, Continue(w) PROVE AgreesInv'
  BY <1>1, <1>3, ContinueIsQuiet, QuietStep, ClaimAgrees, CreditAgrees
<1>4. CASE Environment \/ UNCHANGED vars
  <2>1. UNCHANGED <<status, credits, judged, task>>
    BY <1>4 DEF Environment, Pay, TimePasses, OwnerSpends, vars, depositVars
  <2> QED  BY <2>1 DEF AgreesInv, Awaited, Crediting, Claiming, At, Dep, Op
<1> QED  BY <1>2, <1>3, <1>4 DEF Next

(***************************************************************************)
(* When no request is at work on a deposit, its row and the wallet agree:  *)
(* SUCCESS is credited once, on its claim, and what is open or has failed  *)
(* is not, whatever confirmations, time-outs and cancellations overlapped. *)
(***************************************************************************)
THEOREM RowAndWalletAgree == Spec => []StatusAgrees
<1>1. Init => AgreesInv
  BY DEF Init, AgreesInv, Claiming, At, Idle
<1>2. CreditInv /\ AgreesInv => StatusAgrees
  <2> SUFFICES ASSUME CreditInv, AgreesInv, NEW d \in Deposits \ judged, ~Busy(d)
               PROVE  /\ status[d] = "SUCCESS" => credits[d].claimed = 1
                      /\ status[d] = "PENDING" => credits[d].claimed = 0
                      /\ status[d] = "FAILED" /\ EscrowOf[d] = NoEscrow =>
                           credits[d].claimed = 0
    BY DEF StatusAgrees
  <2>1. ~Awaited(d)  BY DEF Awaited, Busy
  <2> QED  BY <2>1 DEF CreditInv, ClaimInv, AgreesInv
<1> QED  BY <1>1, <1>2, CreditInvHolds, AgreesInvStep, PTL DEF Spec
=============================================================================
