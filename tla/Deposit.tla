------------------------------ MODULE Deposit ------------------------------
(***************************************************************************)
(* Deposits: src/modules/payments/payment.service.js,                      *)
(* payment.controller.js and safepay-verification.service.js.              *)
(*                                                                         *)
(* A deposit is a Transaction row that waits, PENDING, for its payment at  *)
(* the gateway to be confirmed: by the gateway's webhook, by the client's  *)
(* return from the checkout page (callback), by the scheduled verifier or  *)
(* the same verifier run for one user (batch), or by verifyDeposit.  The   *)
(* confirmation credits the wallet, and funds the escrow the deposit was   *)
(* made for.  As in module Escrow a worker is a request in flight and one  *)
(* action is one awaited call; Cron is the scheduled verifier, which never *)
(* runs twice at a time (safepayVerifier.worker.js).                       *)
(*                                                                         *)
(* All deposits are of one owner.  fundEscrow is reduced to its claim and  *)
(* its transfer; module Escrow has the rest.                               *)
(***************************************************************************)
EXTENDS Wallet

CONSTANTS
  Workers,     \* requests in flight at the same time
  Cron,        \* the worker that is the scheduled verifier
  Deposits,    \* identities of deposit transactions
  NoDeposit,   \* a value that is no deposit
  Escrows,     \* the escrows that deposits are made for
  NoEscrow,    \* escrowId of a deposit made for none
  EscrowOf,    \* deposit -> its escrowId
  AmountOf,    \* deposit -> amount
  Owner,       \* userId
  Operations   \* the requests that are made

ASSUME DepositAssumption ==
  /\ Cron \in Workers
  /\ NoDeposit \notin Deposits
  /\ NoEscrow \notin Escrows
  /\ EscrowOf \in [Deposits -> Escrows \cup {NoEscrow}]
  /\ AmountOf \in [Deposits -> Amounts]
  /\ Owner \in Users

VARIABLES
  status,    \* deposit -> status of its Transaction row
  tracker,   \* deposits whose gatewayTransactionId is the gateway's
  stale,     \* deposits created more than SAFEPAY_PENDING_TIMEOUT_HOURS ago
  paid,      \* deposits the client has paid for at the gateway
  escrow,    \* escrow -> "CREATED" or "FUNDED"
  credits,   \* deposit -> how often a claim, and verifyDeposit, credited it,
             \* and whether the claim was the verifier's
  judged,    \* deposits whose status verifyDeposit has saved
  task       \* worker -> the request it is executing

depositVars == <<status, tracker, stale, paid, escrow, credits, judged>>
vars == <<walletVars, depositVars, task>>

Statuses == {"none", "PENDING", "SUCCESS", "FAILED"}
Requests == {"initialize", "webhook", "callback", "verify", "batch"}
Points == {"idle", "gatewayInit", "saveTracker", "gatewayVerify", "verifyPayment", "claim",
           "saveSuccess", "saveFailed", "credit", "readEscrow", "claimEscrow",
           "transfer", "revert", "next", "timeOut"}

Idle == [op |-> "none", pc |-> "idle", deposit |-> NoDeposit,
         asked |-> NoDeposit, batch |-> {}, late |-> {}]
NotCredited == [claimed |-> 0, verified |-> 0, byVerifier |-> FALSE]

Init ==
  /\ WalletInit
  /\ status = [d \in Deposits |-> "none"]
  /\ tracker = {} /\ stale = {} /\ paid = {} /\ judged = {}
  /\ escrow = [e \in Escrows |-> "CREATED"]
  /\ credits = [d \in Deposits |-> NotCredited]
  /\ task = [w \in Workers |-> Idle]

CreditRecord == [claimed : Nat, verified : Nat, byVerifier : BOOLEAN]
TaskRecord == [op : Requests \cup {"none"}, pc : Points,
               deposit : Deposits \cup {NoDeposit},
               asked : Deposits \cup {NoDeposit},   \* whose tracker a callback names
               batch : SUBSET Deposits, late : SUBSET Deposits]

\* A worker at work has a deposit, and one that funds an escrow has one to fund.
TaskOK(t) ==
  /\ t.pc \notin {"idle", "next"} => t.deposit \in Deposits
  /\ t.pc \in {"readEscrow", "claimEscrow", "transfer"}
       => EscrowOf[t.deposit] \in Escrows

DepositsOK ==
  /\ status \in [Deposits -> Statuses]
  /\ tracker \subseteq Deposits /\ stale \subseteq Deposits
  /\ paid \subseteq Deposits /\ judged \subseteq Deposits
  /\ escrow \in [Escrows -> {"CREATED", "FUNDED"}]
  /\ credits \in [Deposits -> CreditRecord]
TasksOK ==
  /\ task \in [Workers -> TaskRecord]
  /\ \A w \in Workers : TaskOK(task[w])

TypeOK == WalletTypeOK /\ DepositsOK /\ TasksOK
-----------------------------------------------------------------------------
At(w, pc) == task[w].pc = pc
Op(w) == task[w].op
Dep(w) == task[w].deposit
Go(w, pc) == task' = [task EXCEPT ![w].pc = pc]

\* A request ends; a batch goes on with its next transaction.
Ended(w) ==
  IF Op(w) = "batch"
  THEN [task[w] EXCEPT !.pc = "next", !.deposit = NoDeposit]
  ELSE Idle
End(w) == task' = [task EXCEPT ![w] = Ended(w)]

May(w, op) == At(w, "idle") /\ op \in Operations /\ (w = Cron => op = "batch")

Begin(w, op, d, x, pc) ==
  task' = [task EXCEPT ![w] =
            [Idle EXCEPT !.op = op, !.pc = pc, !.deposit = d, !.asked = x]]
-----------------------------------------------------------------------------
(* initializeDeposit: insert the row, open a session at the gateway, save  *)
(* the gateway's reference.  When the gateway throws the row stays.        *)
InitializeInsert(w, d) ==
  /\ May(w, "initialize")
  /\ status[d] = "none"
  /\ status' = [status EXCEPT ![d] = "PENDING"]
  /\ Begin(w, "initialize", d, NoDeposit, "gatewayInit")
  /\ UNCHANGED <<walletVars, tracker, stale, paid, escrow, credits, judged>>

GatewayInit(w) ==
  /\ At(w, "gatewayInit")
  /\ Go(w, "saveTracker") \/ End(w)
  /\ UNCHANGED <<walletVars, depositVars>>

SaveTracker(w) ==
  /\ At(w, "saveTracker")
  /\ tracker' = tracker \cup {Dep(w)}
  /\ End(w)
  /\ UNCHANGED <<walletVars, status, stale, paid, escrow, credits, judged>>

\* The client pays on the checkout page, whatever the row says by then.
Pay(d) ==
  /\ d \in tracker \ paid
  /\ paid' = paid \cup {d}
  /\ UNCHANGED <<walletVars, status, tracker, stale, escrow, credits, judged, task>>
-----------------------------------------------------------------------------
(* The confirmations begin with a read that finds the row PENDING, by the   *)
(* gateway's tracker or, until that is saved, by the order id.              *)

\* That the session was paid is what the notification says: its signature is
\* tested only when there are one and a secret, and binds in production only.
WebhookRead(w, d) ==
  /\ May(w, "webhook")
  /\ status[d] = "PENDING"
  /\ Begin(w, "webhook", d, NoDeposit, "claim")
  /\ UNCHANGED <<walletVars, depositVars>>

\* The gateway is asked about the tracker in the request.  A row that was found
\* by its order id need not be its: it is one of no PENDING row, or unknown.
CallbackRead(w, d, x) ==
  /\ May(w, "callback")
  /\ status[d] = "PENDING"
  /\ \/ d \in tracker /\ x = d
     \/ d \notin tracker /\ x \in tracker /\ status[x] # "PENDING"
     \/ d \notin tracker /\ x = NoDeposit
  /\ Begin(w, "callback", d, x, "gatewayVerify")
  /\ UNCHANGED <<walletVars, depositVars>>

VerifyRead(w, d) ==
  /\ May(w, "verify")
  /\ status[d] = "PENDING"
  /\ Begin(w, "verify", d, NoDeposit, "verifyPayment")
  /\ UNCHANGED <<walletVars, depositVars>>

\* verifyPendingSafepayTransactions takes all pending rows and, now, the
\* cutoff that decides which of them have timed out.
Pending == {d \in Deposits : status[d] = "PENDING"}

BatchRead(w) ==
  /\ May(w, "batch")
  /\ Pending # {}
  /\ task' = [task EXCEPT ![w] =
                [Idle EXCEPT !.op = "batch", !.pc = "next",
                             !.batch = Pending, !.late = Pending \cap stale]]
  /\ UNCHANGED <<walletVars, depositVars>>

\* Mutant: what has timed out is left for another day.
BatchNextSkipsLate(w) ==
  /\ At(w, "next")
  /\ \/ \E d \in task[w].batch :
          task' = [task EXCEPT ![w].batch = @ \ {d}, ![w].deposit = d,
                     ![w].pc = IF d \in task[w].late THEN "next"
                                                     ELSE "gatewayVerify"]
     \/ task[w].batch = {} /\ task' = [task EXCEPT ![w] = Idle]
  /\ UNCHANGED <<walletVars, depositVars>>

BatchNext(w) ==
  /\ At(w, "next")
  /\ \/ \E d \in task[w].batch :
          task' = [task EXCEPT ![w].batch = @ \ {d}, ![w].deposit = d,
                     ![w].pc = IF d \in task[w].late THEN "timeOut"
                                                     ELSE "gatewayVerify"]
     \/ task[w].batch = {} /\ task' = [task EXCEPT ![w] = Idle]
  /\ UNCHANGED <<walletVars, depositVars>>
-----------------------------------------------------------------------------
(* verifyPaymentByTracker: a network error reads as an unpaid session.     *)

\* The verifier asks about the row's own tracker.
AskedAbout(w) == IF Op(w) = "batch" THEN Dep(w) ELSE task[w].asked

GatewayVerify(w) ==
  /\ At(w, "gatewayVerify")
  /\ (AskedAbout(w) \in paid /\ Go(w, "claim")) \/ End(w)
  /\ UNCHANGED <<walletVars, depositVars>>

\* verifyPayment of the row's payment method reads the data of the callback it
\* is given and asks nobody; it throws when a hash or an approval is missing.
VerifyPayment(w) ==
  /\ At(w, "verifyPayment")
  /\ Go(w, "saveSuccess") \/ Go(w, "saveFailed") \/ End(w)
  /\ UNCHANGED <<walletVars, depositVars>>

(* findOneAndUpdate({ _id, status: 'PENDING' }): of all confirmations,     *)
(* cancellations and time-outs of a deposit, one finds it PENDING.         *)
Settle(d, to) ==
  /\ status' = [status EXCEPT ![d] = to]
  /\ UNCHANGED <<walletVars, tracker, stale, paid, escrow, credits, judged>>

\* Mutant: the filter is the _id only.
ClaimAnyStatus(w) ==
  /\ At(w, "claim")
  /\ Settle(Dep(w), "SUCCESS")
  /\ Go(w, "credit")

Claim(w) ==
  /\ At(w, "claim")
  /\ \/ status[Dep(w)] = "PENDING" /\ Settle(Dep(w), "SUCCESS") /\ Go(w, "credit")
     \/ /\ status[Dep(w)] # "PENDING"
        /\ End(w)
        /\ UNCHANGED <<walletVars, depositVars>>

\* Mutant: the filter is the _id only.
TimeOutAnyStatus(w) ==
  /\ At(w, "timeOut")
  /\ Settle(Dep(w), "FAILED")
  /\ End(w)

TimeOut(w) ==
  /\ At(w, "timeOut")
  /\ \/ status[Dep(w)] = "PENDING" /\ Settle(Dep(w), "FAILED")
     \/ status[Dep(w)] # "PENDING" /\ UNCHANGED <<walletVars, depositVars>>
  /\ End(w)

\* cancelSafepayPending is one such update, and looks at nothing else.
CancelPending(w, d) ==
  /\ May(w, "cancel")
  /\ status[d] = "PENDING"
  /\ Settle(d, "FAILED")
  /\ UNCHANGED task

\* verifyDeposit saves the status in the document it read, whatever the row
\* has become.
SaveStatus(w, to) ==
  /\ status' = [status EXCEPT ![Dep(w)] = to]
  /\ judged' = judged \cup {Dep(w)}
  /\ UNCHANGED <<walletVars, tracker, stale, paid, escrow, credits>>

SaveSuccess(w) ==
  At(w, "saveSuccess") /\ SaveStatus(w, "SUCCESS") /\ Go(w, "credit")

SaveFailed(w) == At(w, "saveFailed") /\ SaveStatus(w, "FAILED") /\ End(w)
-----------------------------------------------------------------------------
(* creditExistingDeposit, and then the escrow the deposit was made for.    *)
Credited(w) ==
  /\ credits' = IF Op(w) = "verify"
                THEN [credits EXCEPT ![Dep(w)].verified = @ + 1]
                ELSE [credits EXCEPT ![Dep(w)].claimed = @ + 1,
                                     ![Dep(w)].byVerifier = @ \/ Op(w) = "batch"]
  /\ IF EscrowOf[Dep(w)] = NoEscrow THEN End(w) ELSE Go(w, "readEscrow")
  /\ UNCHANGED <<status, tracker, stale, paid, escrow, judged>>

\* A claim credits the row's amount, verifyDeposit the one in the answer.
Credit(w) ==
  /\ At(w, "credit")
  /\ \E a \in IF Op(w) = "verify" THEN Amounts ELSE {AmountOf[Dep(w)]} :
       Deposit(Owner, a)
  /\ Credited(w)

\* The answer names no amount above 0: the row is SUCCESS, the credit throws.
CreditRefused(w) ==
  /\ At(w, "credit") /\ Op(w) = "verify"
  /\ End(w)
  /\ UNCHANGED <<walletVars, depositVars>>

ReadEscrow(w) ==
  /\ At(w, "readEscrow")
  /\ IF escrow[EscrowOf[Dep(w)]] = "CREATED" THEN Go(w, "claimEscrow") ELSE End(w)
  /\ UNCHANGED <<walletVars, depositVars>>

ClaimEscrow(w) ==
  LET e == EscrowOf[Dep(w)]
  IN  /\ At(w, "claimEscrow")
      /\ escrow' = [escrow EXCEPT ![e] = "FUNDED"]
      /\ IF escrow[e] = "CREATED" THEN Go(w, "transfer") ELSE End(w)
      /\ UNCHANGED <<walletVars, status, tracker, stale, paid, credits, judged>>

\* When the balance has been spent meanwhile the transfer throws; webhook and
\* callback then revert the deposit, the others only log.
Transfer(w) ==
  /\ At(w, "transfer")
  /\ \/ LockFunds(Owner, AmountOf[Dep(w)]) /\ End(w)
     \/ /\ ~CanLock(Owner, AmountOf[Dep(w)])
        /\ IF Op(w) \in {"webhook", "callback"} THEN Go(w, "revert") ELSE End(w)
        /\ UNCHANGED walletVars
  /\ UNCHANGED depositVars

\* The debit that follows the update throws: its type, 'REVERSAL', is none of
\* Transaction's, so its transaction is aborted and the wallet stays credited.
Revert(w) ==
  /\ At(w, "revert")
  /\ status' = [status EXCEPT ![Dep(w)] = IF @ = "SUCCESS" THEN "FAILED" ELSE @]
  /\ End(w)
  /\ UNCHANGED <<walletVars, tracker, stale, paid, escrow, credits, judged>>
-----------------------------------------------------------------------------
(* The environment: time passes, and the owner spends from the wallet.     *)
TimePasses(d) ==
  /\ status[d] # "none" /\ d \notin stale
  /\ stale' = stale \cup {d}
  /\ UNCHANGED <<walletVars, status, tracker, paid, escrow, credits, judged, task>>

OwnerSpends(a) ==
  /\ "spend" \in Operations
  /\ LockFunds(Owner, a)
  /\ UNCHANGED <<depositVars, task>>
-----------------------------------------------------------------------------
Start(w) ==
  \/ \E d \in Deposits :
       \/ InitializeInsert(w, d)
       \/ WebhookRead(w, d)
       \/ \E x \in Deposits \cup {NoDeposit} : CallbackRead(w, d, x)
       \/ VerifyRead(w, d)
       \/ CancelPending(w, d)
  \/ BatchRead(w)

Continue(w) ==
  \/ GatewayInit(w)
  \/ SaveTracker(w)
  \/ BatchNext(w)
  \/ GatewayVerify(w)
  \/ VerifyPayment(w)
  \/ Claim(w)
  \/ TimeOut(w)
  \/ SaveSuccess(w)
  \/ SaveFailed(w)
  \/ Credit(w)
  \/ CreditRefused(w)
  \/ ReadEscrow(w)
  \/ ClaimEscrow(w)
  \/ Transfer(w)
  \/ Revert(w)

Environment ==
  \/ \E d \in Deposits : Pay(d) \/ TimePasses(d)
  \/ \E a \in Amounts : OwnerSpends(a)

Next ==
  \/ \E w \in Workers : Start(w) \/ Continue(w)
  \/ Environment

Spec == Init /\ [][Next]_vars

\* Every await returns, the scheduled verifier is started again and again, and
\* time goes on.
FairSpec ==
  /\ Spec
  /\ \A w \in Workers : WF_vars(Continue(w))
  /\ WF_vars(BatchRead(Cron))
  /\ \A d \in Deposits : WF_vars(TimePasses(d))
-----------------------------------------------------------------------------
(* However many webhooks, callbacks and verifiers confirm a deposit, and   *)
(* whatever verifyDeposit saves meanwhile, it is credited on a claim at    *)
(* most once ("only update if still PENDING to prevent double-credit",     *)
(* payment.controller.js:494).                                             *)
ClaimedOnce == \A d \in Deposits : credits[d].claimed <= 1

(* The inductive strengthening: who is about to credit on a claim is the   *)
(* only one, and a deposit credited or being credited is no longer open.   *)
Crediting(w) == At(w, "credit") /\ Op(w) # "verify"

ClaimInv ==
  /\ ClaimedOnce
  /\ \A d \in Deposits :
       status[d] \in {"none", "PENDING"} => credits[d].claimed = 0
  /\ \A w \in Workers : Crediting(w) =>
       /\ status[Dep(w)] \notin {"none", "PENDING"}
       /\ credits[Dep(w)].claimed = 0
  /\ \A v, w \in Workers :
       Crediting(v) /\ Crediting(w) /\ Dep(v) = Dep(w) => v = w

(* What the verifier credits, scheduled or for one user, the client has    *)
(* paid at the gateway, though rows are closed and reverted by others      *)
(* between its read and its claim (safepay-verification.service.js:98).    *)
VerifierCreditsPaid == \A d \in Deposits : credits[d].byVerifier => d \in paid

(* When no request is at work on a deposit that verifyDeposit has not      *)
(* touched, its row and the wallet agree: SUCCESS is credited once, and    *)
(* PENDING and FAILED are not, unless the escrow it was made for failed.   *)
Busy(d) == \E w \in Workers : Dep(w) = d

StatusAgrees ==
  \A d \in Deposits \ judged : ~Busy(d) =>
    /\ status[d] = "SUCCESS" => credits[d].claimed = 1
    /\ status[d] = "PENDING" => credits[d].claimed = 0
    /\ status[d] = "FAILED" /\ EscrowOf[d] = NoEscrow => credits[d].claimed = 0

(* No deposit waits forever: the scheduled verifier confirms it or times   *)
(* it out, whatever the gateway answers (safepay-verification.service.js:  *)
(* 66).                                                                    *)
PendingEnds ==
  \A d \in Deposits : status[d] = "PENDING" ~> status[d] # "PENDING"
-----------------------------------------------------------------------------
(* "only update if still PENDING to prevent double-credit": a deposit is   *)
(* credited once, also by verifyDeposit, which does not claim.             *)
CreditedOnceInAll == \A d \in Deposits : credits[d].claimed + credits[d].verified <= 1

(* "Callback handler verifies payment state and credits wallet"            *)
(* (safepay.service.js:17): what is credited was paid.                     *)
CreditedWasPaid ==
  \A d \in Deposits : credits[d].claimed + credits[d].verified > 0 => d \in paid

(* "Revert transaction status and reverse wallet credit to avoid           *)
(* inconsistent state" (payment.controller.js:51): a deposit that failed   *)
(* is not credited.                                                        *)
FailedIsNotCredited ==
  \A d \in Deposits \ judged :
    status[d] = "FAILED" /\ ~Busy(d) => credits[d].claimed = 0
=============================================================================
