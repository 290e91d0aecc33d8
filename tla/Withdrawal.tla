----------------------------- MODULE Withdrawal -----------------------------
(***************************************************************************)
(* Withdrawals: src/modules/payments/withdrawal.service.js and             *)
(* src/models/WithdrawalRequest.js.                                        *)
(*                                                                         *)
(* A user's request is inserted and its amount locked in the wallet; an    *)
(* admin processes it through a payment gateway or rejects it, and its     *)
(* owner may cancel it.  As in module Escrow, a worker is a request in     *)
(* flight, one action is one awaited call, and task[w].status is the       *)
(* status in the worker's own copy of the document, which is what the      *)
(* methods of WithdrawalRequest test.  The amount of a document never      *)
(* changes and no document is ever removed.                                *)
(*                                                                         *)
(* The locked balance is shared with escrows, which are the environment    *)
(* here: they lock and unlock some of it.  All requests are of one day.    *)
(***************************************************************************)
EXTENDS Wallet, FiniteSetsExt

CONSTANTS
  Workers,            \* requests in flight at the same time
  Withdrawals,        \* identities of withdrawal requests
  NoWithdrawal,       \* a value that is no withdrawal
  OwnerOf,            \* withdrawal -> userId
  WithdrawalAmounts,  \* amounts users ask for, all within the limits
  DailyLimit,         \* PAYMENT_LIMITS.MAX_DAILY_WITHDRAWAL
  Operations          \* the requests that are made, and what may go wrong

ASSUME WithdrawalAssumption ==
  /\ NoWithdrawal \notin Withdrawals /\ IsFiniteSet(Withdrawals)
  /\ OwnerOf \in [Withdrawals -> Users]
  /\ WithdrawalAmounts \subseteq Amounts
  /\ DailyLimit \in Nat

VARIABLES
  request,   \* withdrawal -> the stored document
  row,       \* withdrawal -> status of its Transaction row
  moved,     \* withdrawal -> what was locked, released and unlocked for it
  sent,      \* withdrawal -> what the gateway has paid out for it
  escrowed,  \* user -> what escrows hold of the locked balance
  task       \* worker -> the request it is executing

ledgerVars == <<request, row, moved, sent, escrowed>>
vars == <<walletVars, ledgerVars, task>>

Statuses == {"none", "REQUESTED", "PROCESSING", "SUCCESS", "FAILED",
             "CANCELLED"}
RowStatuses == {"none", "PENDING", "SUCCESS", "FAILED", "CANCELLED"}
Points == {"idle", "readToday", "insert", "lock", "markProcessing", "gateway",
           "saveSuccess", "rowSuccess", "release", "markFailed", "rowFailed",
           "saveCancelled", "rowCancelled", "unlock"}

\* trying: the task is inside processWithdrawal's try block, so that what is
\* thrown reaches its catch.
Idle == [pc |-> "idle", request |-> NoWithdrawal, status |-> "none",
         amount |-> 0, trying |-> FALSE]

Init ==
  /\ WalletInit
  /\ request = [r \in Withdrawals |-> [status |-> "none", amount |-> 0]]
  /\ row = [r \in Withdrawals |-> "none"]
  /\ moved = [r \in Withdrawals |-> [locked |-> 0, released |-> 0, unlocked |-> 0]]
  /\ sent = [r \in Withdrawals |-> 0]
  /\ escrowed = [u \in Users |-> 0]
  /\ task = [w \in Workers |-> Idle]

RequestRecord == [status : Statuses, amount : Nat]
MovedRecord == [locked : Nat, released : Nat, unlocked : Nat]
TaskRecord == [pc : Points, request : Withdrawals \cup {NoWithdrawal},
               status : Statuses, amount : Nat, trying : BOOLEAN]

\* A worker at work has a request, and moves one of Amounts.
TaskOK(t) ==
  t.pc # "idle" => t.request \in Withdrawals /\ t.amount \in Amounts

RequestsOK ==
  /\ request \in [Withdrawals -> RequestRecord]
  /\ \A r \in Withdrawals :
       request[r].status # "none" => request[r].amount \in Amounts
LedgersOK ==
  /\ row \in [Withdrawals -> RowStatuses]
  /\ moved \in [Withdrawals -> MovedRecord]
  /\ sent \in [Withdrawals -> Nat]
  /\ escrowed \in [Users -> Nat]
TasksOK ==
  /\ task \in [Workers -> TaskRecord]
  /\ \A w \in Workers : TaskOK(task[w])

\* A document is stored before it is worked on, and never removed.
StoredOK ==
  \A w \in Workers :
    task[w].pc \notin {"idle", "readToday", "insert"}
      => request[task[w].request].status # "none"

TypeOK == WalletTypeOK /\ RequestsOK /\ LedgersOK /\ TasksOK /\ StoredOK
-----------------------------------------------------------------------------
At(w, pc) == task[w].pc = pc
Go(w, pc) == task' = [task EXCEPT ![w].pc = pc]
Done(w) == task' = [task EXCEPT ![w] = Idle]
Request(w) == task[w].request
Owner(w) == OwnerOf[task[w].request]
May(w, op) == At(w, "idle") /\ op \in Operations

\* A worker begins with the document it read.
Begin(w, r, pc) ==
  task' = [task EXCEPT ![w] =
             [pc |-> pc, request |-> r, status |-> request[r].status,
              amount |-> request[r].amount, trying |-> FALSE]]

\* Save a status, in the collection and in the worker's copy.
Save(w, status, pc) ==
  /\ request' = [request EXCEPT ![Request(w)].status = status]
  /\ task' = [task EXCEPT ![w].status = status, ![w].pc = pc]
  /\ UNCHANGED <<walletVars, row, moved, sent, escrowed>>

\* Transaction.findOneAndUpdate by withdrawalRequestId; there is no row
\* before the funds are locked.
UpdateRow(w, status, pc) ==
  /\ row' = [row EXCEPT ![Request(w)] = IF @ = "none" THEN @ ELSE status]
  /\ Go(w, pc)
  /\ UNCHANGED <<walletVars, request, moved, sent, escrowed>>

Busy(r) == \E w \in Workers : task[w].request = r
-----------------------------------------------------------------------------
(* createWithdrawalRequest: read the balance, read the day's requests,     *)
(* insert the document, then lock the funds.  When the lock is refused the *)
(* document stays.                                                         *)
CreateReadBalance(w, r, a) ==
  /\ May(w, "create")
  /\ request[r].status = "none" /\ ~Busy(r)   \* a fresh identity
  /\ wallet[OwnerOf[r]].available >= a
  /\ task' = [task EXCEPT ![w] = [Idle EXCEPT !.pc = "readToday",
                                              !.request = r, !.amount = a]]
  /\ UNCHANGED <<walletVars, ledgerVars>>

TodayOf(u) ==
  {r \in Withdrawals : /\ OwnerOf[r] = u
                       /\ request[r].status \in {"REQUESTED", "PROCESSING", "SUCCESS"}}

TodayTotal(u) ==
  LET amount(r) == request[r].amount IN MapThenSumSet(amount, TodayOf(u))

CreateReadToday(w) ==
  /\ At(w, "readToday")
  /\ IF TodayTotal(Owner(w)) + task[w].amount > DailyLimit
     THEN Done(w)
     ELSE Go(w, "insert")
  /\ UNCHANGED <<walletVars, ledgerVars>>

CreateInsert(w) ==
  /\ At(w, "insert")
  /\ request' = [request EXCEPT ![Request(w)] =
                   [status |-> "REQUESTED", amount |-> task[w].amount]]
  /\ Go(w, "lock")
  /\ UNCHANGED <<walletVars, row, moved, sent, escrowed>>

CreateLock(w) ==
  /\ At(w, "lock")
  /\ \/ /\ LockFunds(Owner(w), task[w].amount)
        /\ row' = [row EXCEPT ![Request(w)] = "PENDING"]
        /\ moved' = [moved EXCEPT ![Request(w)].locked = @ + task[w].amount]
     \/ /\ ~CanLock(Owner(w), task[w].amount)
        /\ UNCHANGED <<walletVars, row, moved>>
  /\ Done(w)
  /\ UNCHANGED <<request, sent, escrowed>>
-----------------------------------------------------------------------------
(* processWithdrawal: the status test and markProcessing's own read the    *)
(* worker's copy; the gateway pays or refuses or throws.                   *)
ProcessRead(w, r) ==
  /\ May(w, "process")
  /\ request[r].status = "REQUESTED"
  /\ Begin(w, r, "markProcessing")
  /\ UNCHANGED <<walletVars, ledgerVars>>

ProcessMark(w) == At(w, "markProcessing") /\ Save(w, "PROCESSING", "gateway")

Pays(w) == sent' = [sent EXCEPT ![Request(w)] = @ + task[w].amount]

\* Where the try block goes on, or its catch.
Try(w, pc) == task' = [task EXCEPT ![w].pc = pc, ![w].trying = TRUE]
Catch(w) == task' = [task EXCEPT ![w].pc = "markFailed", ![w].trying = FALSE]

\* Mutant: the answer's success field is not looked at.
GatewayUnchecked(w) ==
  /\ At(w, "gateway")
  /\ Pays(w) \/ UNCHANGED sent
  /\ Try(w, "saveSuccess")
  /\ UNCHANGED <<walletVars, request, row, moved, escrowed>>

\* Mutant: what the gateway throws is not caught.
GatewayUncaught(w) ==
  /\ At(w, "gateway")
  /\ \/ Pays(w) /\ Try(w, "saveSuccess")
     \/ UNCHANGED sent /\ Done(w)
  /\ UNCHANGED <<walletVars, request, row, moved, escrowed>>

Gateway(w) ==
  /\ At(w, "gateway")
  /\ \/ Pays(w) /\ Try(w, "saveSuccess")
     \/ UNCHANGED sent /\ (Try(w, "markFailed") \/ Catch(w))
     \/ "lostAnswer" \in Operations /\ Pays(w) /\ Catch(w)
  /\ UNCHANGED <<walletVars, request, row, moved, escrowed>>

ProcessSuccess(w) == At(w, "saveSuccess") /\ Save(w, "SUCCESS", "rowSuccess")

RowSuccess(w) == At(w, "rowSuccess") /\ UpdateRow(w, "SUCCESS", "release")

\* A release the locked balance refuses throws inside the try block.
ReleaseLocked(w) ==
  /\ At(w, "release")
  /\ \/ /\ ReleaseLockedWithdrawal(Owner(w), task[w].amount)
        /\ moved' = [moved EXCEPT ![Request(w)].released = @ + task[w].amount]
        /\ Done(w)
     \/ /\ ~CanUnlock(Owner(w), task[w].amount)
        /\ Catch(w)
        /\ UNCHANGED <<walletVars, moved>>
  /\ UNCHANGED <<request, row, sent, escrowed>>

\* Mutant: markFailed accepts every status, as PlatformWithdrawal's does.
canMarkAnyFailed(status) == TRUE

canMarkFailed(status) == status \in {"PROCESSING", "REQUESTED"}

(* markFailed, the row and the unlock: the failure branch of               *)
(* processWithdrawal, its catch, and rejectWithdrawal.                     *)
MarkFailed(w) ==
  /\ At(w, "markFailed")
  /\ \/ canMarkFailed(task[w].status) /\ Save(w, "FAILED", "rowFailed")
     \/ /\ ~canMarkFailed(task[w].status)
        /\ Done(w)
        /\ UNCHANGED <<walletVars, ledgerVars>>

RowFailed(w) == At(w, "rowFailed") /\ UpdateRow(w, "FAILED", "unlock")

\* The failure branch ends with a throw that its own catch takes.
AfterUnlock(w) == IF task[w].trying THEN Catch(w) ELSE Done(w)

\* Mutant: the amount is credited without being unlocked.
UnlockCredits(w) ==
  /\ At(w, "unlock")
  /\ wallet' = [wallet EXCEPT ![Owner(w)].available = @ + task[w].amount]
  /\ moved' = [moved EXCEPT ![Request(w)].unlocked = @ + task[w].amount]
  /\ AfterUnlock(w)
  /\ UNCHANGED <<paidOut, platform, request, row, sent, escrowed>>

Unlock(w) ==
  /\ At(w, "unlock")
  /\ \/ /\ UnlockFunds(Owner(w), task[w].amount)
        /\ moved' = [moved EXCEPT ![Request(w)].unlocked = @ + task[w].amount]
     \/ /\ ~CanUnlock(Owner(w), task[w].amount)
        /\ UNCHANGED <<walletVars, moved>>
  /\ AfterUnlock(w)
  /\ UNCHANGED <<request, row, sent, escrowed>>
-----------------------------------------------------------------------------
(* rejectWithdrawal and cancelWithdrawal.  The owner may cancel a request  *)
(* that is being processed.                                                *)
RejectRead(w, r) ==
  /\ May(w, "reject")
  /\ request[r].status = "REQUESTED"
  /\ Begin(w, r, "markFailed")
  /\ UNCHANGED <<walletVars, ledgerVars>>

CancelRead(w, r) ==
  /\ May(w, "cancel")
  /\ request[r].status \in {"REQUESTED", "PROCESSING"}
  /\ Begin(w, r, "saveCancelled")
  /\ UNCHANGED <<walletVars, ledgerVars>>

SaveCancelled(w) ==
  At(w, "saveCancelled") /\ Save(w, "CANCELLED", "rowCancelled")

RowCancelled(w) ==
  At(w, "rowCancelled") /\ UpdateRow(w, "CANCELLED", "unlock")
-----------------------------------------------------------------------------
(* The environment: deposits, and escrows that use the same wallet.  (A    *)
(* server that stops is a worker that does not go on: Spec allows it.)     *)
OwnerDeposit(u, a) ==
  /\ Deposit(u, a)
  /\ UNCHANGED <<ledgerVars, task>>

EscrowLocks(u, a) ==
  /\ "escrow" \in Operations
  /\ LockFunds(u, a)
  /\ escrowed' = [escrowed EXCEPT ![u] = @ + a]
  /\ UNCHANGED <<request, row, moved, sent, task>>

EscrowUnlocks(u, a) ==
  /\ escrowed[u] >= a
  /\ UnlockFunds(u, a)
  /\ escrowed' = [escrowed EXCEPT ![u] = @ - a]
  /\ UNCHANGED <<request, row, moved, sent, task>>

-----------------------------------------------------------------------------
Start(w, r) ==
  \/ \E a \in WithdrawalAmounts : CreateReadBalance(w, r, a)
  \/ ProcessRead(w, r)
  \/ RejectRead(w, r)
  \/ CancelRead(w, r)

Continue(w) ==
  \/ CreateReadToday(w)
  \/ CreateInsert(w)
  \/ CreateLock(w)
  \/ ProcessMark(w)
  \/ Gateway(w)
  \/ ProcessSuccess(w)
  \/ RowSuccess(w)
  \/ ReleaseLocked(w)
  \/ MarkFailed(w)
  \/ RowFailed(w)
  \/ Unlock(w)
  \/ SaveCancelled(w)
  \/ RowCancelled(w)

Environment ==
  \E u \in {OwnerOf[r] : r \in Withdrawals}, a \in WithdrawalAmounts :
    OwnerDeposit(u, a) \/ EscrowLocks(u, a) \/ EscrowUnlocks(u, a)

Next ==
  \/ \E w \in Workers :
       (\E r \in Withdrawals : Start(w, r)) \/ Continue(w)
  \/ Environment

Spec == Init /\ [][Next]_vars

\* A request that has begun is carried on: every await returns.
FairSpec == Spec /\ \A w \in Workers : WF_vars(Continue(w))
-----------------------------------------------------------------------------
(* Money is taken out of the locked balance only for what the gateway has  *)
(* paid: whatever requests race, a refused or cancelled payout never       *)
(* counts as withdrawn (withdrawal.service.js:223, the test of the answer).*)
ReleasedWasSent ==
  \A r \in Withdrawals : moved[r].released <= sent[r]

(* A request being processed does not stay so: when the gateway refuses or *)
(* throws, the catch of processWithdrawal still closes it                  *)
(* (withdrawal.service.js:292), whatever else was saved meanwhile.         *)
ProcessingEnds ==
  \A r \in Withdrawals :
    request[r].status = "PROCESSING"
      ~> request[r].status \in {"SUCCESS", "FAILED", "CANCELLED"}

(* Requests in turn: w alone works, no escrow uses the wallets meanwhile,  *)
(* and no answer of the gateway is lost.                                   *)
InTurn(w) ==
  /\ \A v \in Workers \ {w} : task'[v] = task[v]
  /\ escrowed' = escrowed
  /\ sent' # sent => task'[w].pc = "saveSuccess"

(* For requests that do not overlap, the document, its row, the wallet and *)
(* the gateway agree whenever no request is at work on it: an open request *)
(* is held, a paid one was sent once and debited once, and a failed or     *)
(* cancelled one was unlocked once, although processWithdrawal's failure   *)
(* branch runs into its own catch.                                         *)
SettledAsSaid ==
  \A r \in Withdrawals : ~Busy(r) =>
    LET a == request[r].amount
        ledger(locked, released, unlocked, paid, status) ==
          /\ moved[r] = [locked |-> locked, released |-> released,
                         unlocked |-> unlocked]
          /\ sent[r] = paid
          /\ row[r] = status
    IN  /\ request[r].status # "PROCESSING"
        /\ request[r].status = "REQUESTED" => ledger(a, 0, 0, 0, "PENDING")
        /\ request[r].status = "SUCCESS" => ledger(a, a, 0, a, "SUCCESS")
        /\ request[r].status \in {"FAILED", "CANCELLED"} =>
             ledger(a, 0, a, 0, request[r].status)
-----------------------------------------------------------------------------
(* What the code's comments and messages say and the code does not do.     *)

(* "Cannot process withdrawal in ${withdrawal.status} status"              *)
(* (withdrawal.service.js:181): a request is paid once.                    *)
PaidOnce == \A r \in Withdrawals : sent[r] <= request[r].amount

(* "Unlock funds back to available balance" (withdrawal.service.js:353): a *)
(* withdrawal whose funds went back to its owner is not paid too.          *)
UnlockedIsNotPaid ==
  \A r \in Withdrawals : moved[r].unlocked > 0 => sent[r] = 0

(* "Funds leave available balance immediately, but the transaction stays   *)
(* pending until an admin actually processes the payout"                   *)
(* (wallet.service.js:220): what is paid out has been locked.              *)
PaidWasLocked ==
  \A r \in Withdrawals : sent[r] > 0 => moved[r].locked = request[r].amount

(* "Daily withdrawal limit exceeded. Maximum: ..."                         *)
(* (withdrawal.service.js:64): a day's open and paid requests stay within  *)
(* the limit.                                                              *)
WithinDailyLimit == \A u \in Users : TodayTotal(u) <= DailyLimit
=============================================================================
