------------------------------- MODULE Escrow -------------------------------
(***************************************************************************)
(* Escrows: src/modules/payments/escrow.service.js, src/models/Escrow.js,  *)
(* and the requests of contract.service.js and the admin controllers that  *)
(* create, fund, lock, release, refund, freeze and resolve them.           *)
(*                                                                         *)
(* A request is a sequence of awaited database calls, and requests         *)
(* interleave at every await.  A worker is a request in flight: task[w]    *)
(* holds what the request remembers between two calls, in particular the   *)
(* Mongoose document it read, whose status and amount may be stale when    *)
(* the request saves it.  One action is one database call with the code    *)
(* up to the next await.  save() writes only the fields the request        *)
(* changed, whatever the stored document now holds, and throws when the    *)
(* document is gone.  Wallet movements are transactions (module Wallet).   *)
(*                                                                         *)
(* A request that throws before it has written anything is not a step.     *)
(***************************************************************************)
EXTENDS Wallet

CONSTANTS
  Workers,         \* requests in flight at the same time
  Escrows,         \* identities of escrow documents
  NoEscrow,        \* a value that is no escrow
  Total,           \* the milestoneId 'TOTAL' of contract-level escrows
  MilestoneOf,     \* escrow -> milestoneId
  ClientOf,        \* escrow -> clientId
  FreelancerOf,    \* escrow -> freelancerId
  WalletPaid,      \* contract-level escrows createFromProposal pays from
                   \* the wallet: no gateway transaction refers to them
  DepositAmounts,  \* amounts clients deposit
  EscrowAmounts,   \* amounts escrows are created for
  PartialAmounts,  \* amounts an admin releases in part
  Percentages,     \* the freelancer's share of a split
  Operations       \* the requests that are made

ASSUME EscrowAssumption ==
  /\ NoEscrow \notin Escrows
  /\ IsFiniteSet(Escrows)
  /\ ClientOf \in [Escrows -> Users]
  /\ FreelancerOf \in [Escrows -> Users]
  /\ WalletPaid \subseteq Escrows
  /\ \A e \in WalletPaid : MilestoneOf[e] = Total
  /\ DepositAmounts \subseteq Amounts
  /\ EscrowAmounts \subseteq Amounts
  /\ PartialAmounts \subseteq Amounts
  /\ Percentages \subseteq Nat

VARIABLES
  escrow,   \* the stored Escrow documents
  rows,     \* escrow -> totals of the Transaction rows with its escrowId
  task      \* worker -> the request it is executing

vars == <<wallet, paidOut, platform, escrow, rows, task>>

\* "none" is not yet created, "DELETED" removed from the collection.
StoredStatuses == {"CREATED", "FUNDED", "LOCKED", "RELEASED", "REFUNDED",
                   "DISPUTED", "EXPIRED"}
Statuses == StoredStatuses \cup {"none", "DELETED"}

\* expiresAt: unset, in the future, or in the past
Expiries == {"never", "later", "past"}

Resolutions == {"RELEASE_TO_FREELANCER", "REFUND_TO_CLIENT", "SPLIT"}
DisputeResolutions == Resolutions \cup {"none", "PENDING"}

NoDocument == [status |-> "none", amount |-> 0, expiry |-> "never",
               resolution |-> "none"]
NoRows == [funded |-> 0, released |-> 0, refunded |-> 0]

Requests == {"create", "hire", "fund", "mark", "release", "refund", "freeze",
             "adminRelease"} \cup Resolutions
Points == {"idle", "insert", "checkBalance", "lockFunds", "markFunded",
           "transfer", "saveExpired", "saveFunded", "saveLocked", "mark",
           "payFreelancer", "saveRelease", "payClient", "saveRefund",
           "saveFrozen", "readInner", "payRest", "recordResolution"}

Idle == [op |-> "none", pc |-> "idle", escrow |-> NoEscrow,
         status |-> "none", amount |-> 0, part |-> 0, rest |-> 0]

Init ==
  /\ WalletInit
  /\ escrow = [e \in Escrows |-> NoDocument]
  /\ rows = [e \in Escrows |-> NoRows]
  /\ task = [w \in Workers |-> Idle]

\* Where a request holds the amount it is about to move or save.
HoldsAmount == {"insert", "checkBalance", "lockFunds", "transfer",
                "payFreelancer", "saveRelease", "payClient"}

EscrowRecord == [status : Statuses, amount : Nat, expiry : Expiries,
                 resolution : DisputeResolutions]
RowsRecord == [funded : Nat, released : Nat, refunded : Nat]
TaskRecord == [op : Requests \cup {"none"}, pc : Points,
               escrow : Escrows \cup {NoEscrow}, status : Statuses,
               amount : Nat, part : Nat, rest : Nat]

(* The amounts a request may move are always among Amounts, even when it   *)
(* is the rest of a split or what a partial release leaves.                *)
TaskOK(t) ==
  /\ t.pc # "idle" => t.escrow \in Escrows
  /\ t.pc \in HoldsAmount => t.amount \in Amounts
  /\ t.pc \in {"payFreelancer", "saveRelease"} => t.part <= t.amount
  /\ t.rest \in Amounts \cup {0}
  /\ t.pc = "payRest" => t.rest \in Amounts
  /\ t.pc \in {"readInner", "payRest", "recordResolution"}
       => t.op \in Resolutions

EscrowsOK ==
  /\ escrow \in [Escrows -> EscrowRecord]
  /\ \A e \in Escrows : escrow[e].status # "none" => escrow[e].amount \in Amounts
RowsOK == rows \in [Escrows -> RowsRecord]
TasksOK ==
  /\ task \in [Workers -> TaskRecord]
  /\ \A w \in Workers : TaskOK(task[w])

TypeOK == WalletTypeOK /\ EscrowsOK /\ RowsOK /\ TasksOK
-----------------------------------------------------------------------------
Exists(e) == escrow[e].status \in StoredStatuses
Client(w) == ClientOf[task[w].escrow]
Freelancer(w) == FreelancerOf[task[w].escrow]

At(w, pc) == task[w].pc = pc
Go(w, pc) == task' = [task EXCEPT ![w].pc = pc]
Done(w) == task' = [task EXCEPT ![w] = Idle]

\* Request op on e begins: the worker holds the document it read.
Begin(w, op, e, pc) ==
  task' = [task EXCEPT ![w] =
             [op |-> op, pc |-> pc, escrow |-> e, status |-> escrow[e].status,
              amount |-> escrow[e].amount, part |-> 0, rest |-> 0]]

May(w, op) == At(w, "idle") /\ op \in Operations

\* The save fails (DocumentNotFoundError) and ends the request.
SaveFails(w) ==
  /\ ~Exists(task[w].escrow)
  /\ Done(w)
  /\ UNCHANGED <<walletVars, escrow, rows>>

\* Mutants: each test accepts one status more.
canReleaseFrozenEscrow(status) == status \in {"LOCKED", "FUNDED", "DISPUTED"}
canRefundPaidEscrow(status) == status \in {"FUNDED", "LOCKED", "DISPUTED",
                                           "RELEASED"}
canFreezePaidEscrow(status) == status \in {"FUNDED", "LOCKED", "RELEASED"}

canReleaseEscrow(status) == status \in {"LOCKED", "FUNDED"}
canRefundEscrow(status) == status \in {"FUNDED", "LOCKED", "DISPUTED"}
canFreezeEscrow(status) == status \in {"FUNDED", "LOCKED"}
-----------------------------------------------------------------------------
(* Creation.  createEscrow looks for an escrow of the milestone and then   *)
(* inserts one; a contract-level escrow is inserted without looking.  The  *)
(* insert assigns a fresh identity, and validation refuses an amount that  *)
(* the fee exceeds (freelancerAmount has a minimum of 0).                  *)
Unborn(milestone) ==
  {e \in Escrows : escrow[e].status = "none" /\ MilestoneOf[e] = milestone}

getByMilestone(milestone) ==
  {e \in Escrows : Exists(e) /\ MilestoneOf[e] = milestone}

Insert(e, amount) ==
  /\ CalculateFreelancerAmount(amount) >= 0
  /\ escrow' = [escrow EXCEPT ![e] =
                  [status |-> "CREATED", amount |-> amount,
                   expiry |-> "later", resolution |-> "none"]]

CreateCheck(w, e, a) ==
  /\ May(w, "create")
  /\ e \in Unborn(MilestoneOf[e]) \ WalletPaid
  /\ MilestoneOf[e] # Total => getByMilestone(MilestoneOf[e]) = {}
  /\ task' = [task EXCEPT ![w] = [Idle EXCEPT !.op = "create", !.pc = "insert",
                                              !.escrow = e, !.amount = a]]
  /\ UNCHANGED <<walletVars, escrow, rows>>

CreateInsert(w) ==
  /\ At(w, "insert")
  /\ \/ \E e \in Unborn(MilestoneOf[task[w].escrow]) \ WalletPaid :
          Insert(e, task[w].amount)
     \/ /\ \/ CalculateFreelancerAmount(task[w].amount) < 0  \* ValidationError
           \/ Unborn(MilestoneOf[task[w].escrow]) = {}  \* bound: no identity left
        /\ UNCHANGED escrow
  /\ Done(w)
  /\ UNCHANGED <<walletVars, rows>>
-----------------------------------------------------------------------------
(* createFromProposal paying from the wallet: insert the contract-level    *)
(* escrow, read the balance (and delete the escrow when it is short), lock *)
(* the funds, then mark the escrow funded through Escrow.fund().           *)
Hire(w, e, a) ==
  /\ May(w, "hire")
  /\ e \in WalletPaid
  /\ escrow[e].status = "none"
  /\ Insert(e, a)
  /\ task' = [task EXCEPT ![w] = [Idle EXCEPT !.op = "hire",
                !.pc = "checkBalance", !.escrow = e, !.status = "CREATED",
                !.amount = a]]
  /\ UNCHANGED <<walletVars, rows>>

HireCheckBalance(w) ==
  /\ At(w, "checkBalance")
  /\ IF wallet[Client(w)].available < task[w].amount
     THEN /\ escrow' = [escrow EXCEPT ![task[w].escrow].status = "DELETED"]
          /\ Done(w)
     ELSE /\ Go(w, "lockFunds")
          /\ UNCHANGED escrow
  /\ UNCHANGED <<walletVars, rows>>

\* Mutant: the transfer is made and the request tries it again.
TransferAgain(w, next) ==
  LET e == task[w].escrow
  IN  \/ /\ LockFunds(Client(w), task[w].amount)
         /\ rows' = [rows EXCEPT ![e].funded = @ + task[w].amount]
         /\ UNCHANGED <<escrow, task>>
      \/ /\ ~CanLock(Client(w), task[w].amount)
         /\ Go(w, next)
         /\ UNCHANGED <<walletVars, escrow, rows>>

\* Lock the amount of w's document in the client's wallet, with its
\* ESCROW_FUND row; when the balance is short the request ends here and the
\* escrow keeps the status it has.
Transfer(w, next) ==
  LET e == task[w].escrow
  IN  \/ /\ LockFunds(Client(w), task[w].amount)
         /\ rows' = [rows EXCEPT ![e].funded = @ + task[w].amount]
         /\ Go(w, next)
         /\ UNCHANGED escrow
      \/ /\ ~CanLock(Client(w), task[w].amount)
         /\ Done(w)
         /\ UNCHANGED <<walletVars, escrow, rows>>

HireLockFunds(w) == At(w, "lockFunds") /\ Transfer(w, "markFunded")

HireMarkFunded(w) ==
  /\ At(w, "markFunded")
  /\ \/ /\ Exists(task[w].escrow)
        /\ escrow' = [escrow EXCEPT ![task[w].escrow].status = "FUNDED",
                                    ![task[w].escrow].expiry = "never"]
        /\ Done(w)
        /\ UNCHANGED <<walletVars, rows>>
     \/ SaveFails(w)
-----------------------------------------------------------------------------
\* Mutant: a FUNDED escrow may be claimed again, to retry a funding that failed.
FundClaimAgain(w, e) ==
  /\ May(w, "fund")
  /\ e \notin WalletPaid
  /\ escrow[e].status \in {"CREATED", "FUNDED"}
  /\ escrow' = [escrow EXCEPT ![e].status = "FUNDED"]
  /\ task' = [task EXCEPT ![w] = [Idle EXCEPT !.op = "fund", !.escrow = e,
                !.pc = "transfer", !.status = "FUNDED",
                !.amount = escrow[e].amount]]
  /\ UNCHANGED <<walletVars, rows>>

\* Mutant: the status is tested but not claimed.
FundClaimRead(w, e) ==
  /\ May(w, "fund")
  /\ e \notin WalletPaid
  /\ escrow[e].status = "CREATED"
  /\ Begin(w, "fund", e, "transfer")
  /\ UNCHANGED <<walletVars, escrow, rows>>

(* fundEscrow.  The claim CREATED -> FUNDED is one findOneAndUpdate; the   *)
(* expiry test follows in the same turn.  A request that loses the claim   *)
(* writes nothing.  lock() saves LOCKED whatever the stored status is by   *)
(* then: its test reads the request's own copy.                            *)
FundClaim(w, e) ==
  /\ May(w, "fund")
  /\ e \notin WalletPaid
  /\ escrow[e].status = "CREATED"
  /\ escrow' = [escrow EXCEPT ![e].status = "FUNDED"]
  /\ task' = [task EXCEPT ![w] = [Idle EXCEPT !.op = "fund", !.escrow = e,
                !.pc = IF escrow[e].expiry = "past" THEN "saveExpired"
                                                    ELSE "transfer",
                !.status = "FUNDED", !.amount = escrow[e].amount]]
  /\ UNCHANGED <<walletVars, rows>>

FundSaveExpired(w) ==
  /\ At(w, "saveExpired")
  /\ \/ /\ Exists(task[w].escrow)
        /\ escrow' = [escrow EXCEPT ![task[w].escrow].status = "EXPIRED"]
        /\ Done(w)
        /\ UNCHANGED <<walletVars, rows>>
     \/ SaveFails(w)

FundTransfer(w) == At(w, "transfer") /\ Transfer(w, "saveFunded")

FundSaveFunded(w) ==
  /\ At(w, "saveFunded")
  /\ \/ /\ Exists(task[w].escrow)
        /\ escrow' = [escrow EXCEPT ![task[w].escrow].expiry = "never"]
        /\ Go(w, "saveLocked")
        /\ UNCHANGED <<walletVars, rows>>
     \/ SaveFails(w)

FundSaveLocked(w) ==
  /\ At(w, "saveLocked")
  /\ \/ /\ Exists(task[w].escrow)
        /\ escrow' = [escrow EXCEPT ![task[w].escrow].status = "LOCKED"]
        /\ Done(w)
        /\ UNCHANGED <<walletVars, rows>>
     \/ SaveFails(w)

(* A milestone escrow covered by the contract-level one is set LOCKED by   *)
(* findByIdAndUpdate, with no status in the filter and no wallet movement; *)
(* its caller read CREATED or EXPIRED, or has just created it.             *)
MarkRead(w, e) ==
  /\ May(w, "mark")
  /\ MilestoneOf[e] # Total
  /\ escrow[e].status \in {"CREATED", "EXPIRED"}
  /\ Begin(w, "mark", e, "mark")
  /\ UNCHANGED <<walletVars, escrow, rows>>

MarkLocked(w) ==
  /\ At(w, "mark")
  /\ escrow' = IF Exists(task[w].escrow)
               THEN [escrow EXCEPT ![task[w].escrow].status = "LOCKED",
                                   ![task[w].escrow].expiry = "never"]
               ELSE escrow
  /\ Done(w)
  /\ UNCHANGED <<walletVars, rows>>
-----------------------------------------------------------------------------
(* releaseEscrow and refundEscrow: test the status of the document read,   *)
(* pay, save.  The milestone of a milestone escrow is tested too, in the   *)
(* contract document; either outcome is possible here.                     *)
Release(w, e) ==
  /\ May(w, "release")
  /\ canReleaseEscrow(escrow[e].status)
  /\ Begin(w, "release", e, "payFreelancer")
  /\ UNCHANGED <<walletVars, escrow, rows>>

Refund(w, e) ==
  /\ May(w, "refund")
  /\ canRefundEscrow(escrow[e].status)
  /\ Begin(w, "refund", e, "payClient")
  /\ UNCHANGED <<walletVars, escrow, rows>>

Freeze(w, e) ==
  /\ May(w, "freeze")
  /\ canFreezeEscrow(escrow[e].status)
  /\ Begin(w, "freeze", e, "saveFrozen")
  /\ UNCHANGED <<walletVars, escrow, rows>>

SaveFrozen(w) ==
  /\ At(w, "saveFrozen")
  /\ \/ /\ Exists(task[w].escrow)
        /\ escrow' = [escrow EXCEPT ![task[w].escrow].status = "DISPUTED",
                                    ![task[w].escrow].resolution = "PENDING"]
        /\ Done(w)
        /\ UNCHANGED <<walletVars, rows>>
     \/ SaveFails(w)

\* adminReleaseEscrow reads the escrow and tests no status; a part of 0 is
\* no part (partialAmount || escrow.amount).
AdminRelease(w, e, part) ==
  /\ May(w, "adminRelease")
  /\ Exists(e)
  /\ part <= escrow[e].amount
  /\ task' = [task EXCEPT ![w] =
                [op |-> "adminRelease", pc |-> "payFreelancer", escrow |-> e,
                 status |-> escrow[e].status, amount |-> escrow[e].amount,
                 part |-> part, rest |-> 0]]
  /\ UNCHANGED <<walletVars, escrow, rows>>

\* resolveDispute reads the escrow, and for a split computes both shares.
Share(amount, percentage) == RoundedPercentage(amount, percentage)

ResolveDispute(w, e, resolution, percentage) ==
  LET amount == escrow[e].amount
      part == IF resolution = "SPLIT" THEN Share(amount, percentage) ELSE 0
  IN  /\ May(w, "resolve")
      /\ escrow[e].status = "DISPUTED"
      /\ task' = [task EXCEPT ![w] =
           [op |-> resolution, pc |-> "readInner", escrow |-> e,
            status |-> "DISPUTED", amount |-> amount, part |-> part,
            rest |-> IF resolution = "SPLIT" /\ part < amount
                     THEN amount - part ELSE 0]]
      /\ UNCHANGED <<walletVars, escrow, rows>>

\* The nested adminReleaseEscrow or refundEscrow reads its own copy, with
\* its own tests; a test that fails ends the whole request.
ReadInner(w) ==
  LET e == task[w].escrow
      refund == task[w].op = "REFUND_TO_CLIENT"
      allowed == IF refund THEN canRefundEscrow(escrow[e].status)
                 ELSE Exists(e) /\ task[w].part <= escrow[e].amount
  IN  /\ At(w, "readInner")
      /\ IF allowed
         THEN task' = [task EXCEPT
                ![w].pc = IF refund THEN "payClient" ELSE "payFreelancer",
                ![w].status = escrow[e].status,
                ![w].amount = escrow[e].amount]
         ELSE Done(w)
      /\ UNCHANGED <<walletVars, escrow, rows>>
-----------------------------------------------------------------------------
(* The three payments, each one wallet transaction with its rows.  A       *)
(* payment that the balance (or the fee) refuses ends the request.         *)
Payment(w) == IF task[w].part = 0 THEN task[w].amount ELSE task[w].part

PayFreelancer(w) ==
  LET e == task[w].escrow
  IN  /\ At(w, "payFreelancer")
      /\ \/ /\ ReleaseFromEscrow(Client(w), Freelancer(w), Payment(w))
            /\ rows' = [rows EXCEPT ![e].released = @ + Payment(w)]
            /\ Go(w, "saveRelease")
            /\ UNCHANGED escrow
         \/ /\ ~CanRelease(Client(w), Payment(w))
            /\ Done(w)
            /\ UNCHANGED <<walletVars, escrow, rows>>

\* Mutant: the refund is credited but nothing is unlocked.
RefundClientCredits(w, amount, next) ==
  /\ wallet' = [wallet EXCEPT ![Client(w)].available = @ + amount]
  /\ rows' = [rows EXCEPT ![task[w].escrow].refunded = @ + amount]
  /\ Go(w, next)
  /\ UNCHANGED <<paidOut, platform, escrow>>

\* Mutant: the ESCROW_REFUND row is not written.
RefundClientUnrecorded(w, amount, next) ==
  \/ /\ UnlockFunds(Client(w), amount)
     /\ Go(w, next)
     /\ UNCHANGED <<escrow, rows>>
  \/ /\ ~CanUnlock(Client(w), amount)
     /\ Done(w)
     /\ UNCHANGED <<walletVars, escrow, rows>>

RefundClient(w, amount, next) ==
  LET e == task[w].escrow
  IN  \/ /\ UnlockFunds(Client(w), amount)
         /\ rows' = [rows EXCEPT ![e].refunded = @ + amount]
         /\ Go(w, next)
         /\ UNCHANGED escrow
      \/ /\ ~CanUnlock(Client(w), amount)
         /\ Done(w)
         /\ UNCHANGED <<walletVars, escrow, rows>>

PayClient(w) ==
  At(w, "payClient") /\ RefundClient(w, task[w].amount, "saveRefund")

PayRest(w) ==
  At(w, "payRest") /\ RefundClient(w, task[w].rest, "recordResolution")
-----------------------------------------------------------------------------
(* The saves that follow.  Status tests read the request's own copy; a     *)
(* test or a validation that fails throws after the money has moved.       *)
IsPartial(w) == task[w].part # 0 /\ task[w].part < task[w].amount

\* What the request does once the nested call has returned.
Return(w) ==
  IF task[w].op \in Resolutions
  THEN Go(w, IF task[w].rest > 0 THEN "payRest" ELSE "recordResolution")
  ELSE Done(w)

SaveRelease(w) ==
  LET e == task[w].escrow
      remaining == task[w].amount - task[w].part
      saved == IF IsPartial(w)
               THEN CalculateFreelancerAmount(remaining) >= 0
               ELSE canReleaseEscrow(task[w].status)
  IN  /\ At(w, "saveRelease")
      /\ IF saved /\ Exists(e)
         THEN /\ escrow' = IF IsPartial(w)
                           THEN [escrow EXCEPT ![e].amount = remaining]
                           ELSE [escrow EXCEPT ![e].status = "RELEASED"]
              /\ Return(w)
         ELSE /\ Done(w)
              /\ UNCHANGED escrow
      /\ UNCHANGED <<walletVars, rows>>

SaveRefund(w) ==
  /\ At(w, "saveRefund")
  /\ \/ /\ Exists(task[w].escrow)
        /\ escrow' = [escrow EXCEPT ![task[w].escrow].status = "REFUNDED"]
        /\ Return(w)
        /\ UNCHANGED <<walletVars, rows>>
     \/ SaveFails(w)

\* Escrow.resolveDispute records the resolution and leaves the status.
RecordResolution(w) ==
  /\ At(w, "recordResolution")
  /\ \/ /\ Exists(task[w].escrow)
        /\ escrow' = [escrow EXCEPT ![task[w].escrow].resolution = task[w].op]
        /\ Done(w)
        /\ UNCHANGED <<walletVars, rows>>
     \/ SaveFails(w)
-----------------------------------------------------------------------------
(* The environment: clients deposit, time passes expiresAt, MongoDB's TTL  *)
(* index removes a document whose expiresAt has passed, whatever its       *)
(* status, and the server may stop in the middle of a request.             *)
ClientDeposit(u, a) ==
  /\ u \in {ClientOf[e] : e \in Escrows}
  /\ Deposit(u, a)
  /\ UNCHANGED <<escrow, rows, task>>

ExpiryPasses(e) ==
  /\ "expire" \in Operations
  /\ Exists(e)
  /\ escrow[e].expiry = "later"
  /\ escrow' = [escrow EXCEPT ![e].expiry = "past"]
  /\ UNCHANGED <<walletVars, rows, task>>

TTLDelete(e) ==
  /\ Exists(e)
  /\ escrow[e].expiry = "past"
  /\ escrow' = [escrow EXCEPT ![e].status = "DELETED"]
  /\ UNCHANGED <<walletVars, rows, task>>

Crash(w) ==
  /\ "crash" \in Operations
  /\ ~At(w, "idle")
  /\ Done(w)
  /\ UNCHANGED <<walletVars, escrow, rows>>
-----------------------------------------------------------------------------
Start(w, e) ==
  \/ \E a \in EscrowAmounts : CreateCheck(w, e, a) \/ Hire(w, e, a)
  \/ FundClaim(w, e)
  \/ MarkRead(w, e)
  \/ Release(w, e)
  \/ Refund(w, e)
  \/ Freeze(w, e)
  \/ \E part \in PartialAmounts \cup {0} : AdminRelease(w, e, part)
  \/ \E r \in Resolutions, p \in Percentages : ResolveDispute(w, e, r, p)

Continue(w) ==
  \/ CreateInsert(w)
  \/ HireCheckBalance(w)
  \/ HireLockFunds(w)
  \/ HireMarkFunded(w)
  \/ FundSaveExpired(w)
  \/ FundTransfer(w)
  \/ FundSaveFunded(w)
  \/ FundSaveLocked(w)
  \/ MarkLocked(w)
  \/ SaveFrozen(w)
  \/ ReadInner(w)
  \/ PayFreelancer(w)
  \/ PayClient(w)
  \/ PayRest(w)
  \/ SaveRelease(w)
  \/ SaveRefund(w)
  \/ RecordResolution(w)

Environment ==
  \/ \E u \in Users, a \in DepositAmounts : ClientDeposit(u, a)
  \/ \E e \in Escrows : ExpiryPasses(e) \/ TTLDelete(e)
  \/ \E w \in Workers : Crash(w)

Next ==
  \/ \E w \in Workers : (\E e \in Escrows : Start(w, e)) \/ Continue(w)
  \/ Environment

Spec == Init /\ [][Next]_vars
-----------------------------------------------------------------------------
(* An escrow is funded at most once: however many gateway callbacks, cron  *)
(* runs and client requests call fundEscrow at the same time, and whatever *)
(* else happens to the escrow, its amount leaves the client's available    *)
(* balance in one transfer only (escrow.service.js:118, the claim).        *)
FundedAtMostOnce ==
  [][\A e \in Escrows :
       rows'[e].funded # rows[e].funded => rows[e].funded = 0]_vars

(* An escrow that expired, or was never claimed, has taken no money: the   *)
(* expiry branch of fundEscrow runs before the transfer, and no other      *)
(* request can claim the escrow between the two.  (Between lockFunds and   *)
(* Escrow.fund(), createFromProposal's own escrow is still CREATED.)       *)
UnfundedHoldsNothing ==
  \A e \in Escrows :
    /\ escrow[e].status \in {"none", "EXPIRED"} => rows[e].funded = 0
    /\ escrow[e].status = "CREATED" /\ e \notin WalletPaid
         => rows[e].funded = 0

\* The requests that are about to move money into an escrow, or have just
\* found it expired: each holds the escrow for itself.
Claiming(w) == task[w].pc \in {"checkBalance", "lockFunds", "transfer",
                               "saveExpired"}

(* The inductive strengthening of the two: a request that holds the claim  *)
(* is the only one, and the claim is taken before any money is.            *)
FundingInv ==
  /\ UnfundedHoldsNothing
  /\ \A w \in Workers : Claiming(w) =>
       LET e == task[w].escrow
       IN  /\ e \in Escrows
           /\ rows[e].funded = 0
           /\ escrow[e].status \notin {"none", "EXPIRED"}
           /\ e \in WalletPaid <=> task[w].pc \in {"checkBalance", "lockFunds"}
           /\ e \notin WalletPaid => escrow[e].status # "CREATED"
  /\ \A v, w \in Workers :
       Claiming(v) /\ Claiming(w) /\ task[v].escrow = task[w].escrow => v = w

(* The locked balance is explained by the ledger: what a client has locked *)
(* is what the Transaction rows of the client's escrows say was funded and *)
(* neither released nor refunded since.  (lockFunds, releaseFromEscrow and *)
(* refundEscrow write the rows in the wallet's transaction.)               *)
RowsHold ==
  [e \in Escrows |-> rows[e].funded - rows[e].released - rows[e].refunded]
EscrowsOf(u) == {e \in Escrows : ClientOf[e] = u}

LockedBalanceExplained ==
  \A u \in Users : wallet[u].locked = SumFunctionOnSet(RowsHold, EscrowsOf(u))
-----------------------------------------------------------------------------
(* The following hold of requests that do not overlap.                     *)

(* An escrow pays out its amount once, to one side or the other, and never *)
(* more: release, refund, freeze and admin refund in any order.            *)
PaidAtMostOnce ==
  \A e \in Escrows : rows[e].released + rows[e].refunded <= escrow[e].amount

(* A settled escrow stays settled: no later request makes it fundable,     *)
(* releasable, refundable or disputed again (the TTL index may remove it). *)
SettledIsFinal ==
  [][\A e \in Escrows :
       escrow[e].status \in {"RELEASED", "REFUNDED"} =>
         escrow'[e].status \in {escrow[e].status, "DELETED"}]_vars

(* The money of a disputed escrow never goes to the freelancer on the      *)
(* client's request: freezing stops releaseEscrow.                         *)
FrozenIsNotReleased ==
  [][\A e \in Escrows :
       escrow[e].status = "DISPUTED" => rows'[e].released = rows[e].released]_vars
-----------------------------------------------------------------------------
(* What the code's comments and messages say and the code does not do.     *)
Busy(e) == \E w \in Workers : task[w].escrow = e

(* A FUNDED escrow was funded: fundEscrow answers "Already funded/locked - *)
(* idempotent success" for it (escrow.service.js:130).                     *)
FundedHoldsItsAmount ==
  \A e \in Escrows :
    escrow[e].status \in {"FUNDED", "LOCKED"} /\ ~Busy(e) =>
      rows[e].funded = escrow[e].amount

(* approveWork looks at the escrow first, which "prevents trying to        *)
(* release twice" (contract.service.js:1452).                              *)
ReleasedOnce ==
  \A e \in Escrows : rows[e].released <= escrow[e].amount

(* "Status will be updated by the resolution handler (RELEASED or          *)
(* REFUNDED)" (Escrow.js:285): once a resolution has paid and its request  *)
(* is over, the escrow is no longer disputed.                              *)
PaidDisputeIsClosed ==
  \A e \in Escrows :
    escrow[e].status = "DISPUTED" /\ ~Busy(e) =>
      rows[e].released + rows[e].refunded = 0

(* "Escrow already exists for this milestone" (escrow.service.js:72): a    *)
(* milestone has at most one escrow document.                              *)
OneEscrowPerMilestone ==
  \A d, e \in Escrows :
    Exists(d) /\ Exists(e) /\ MilestoneOf[d] = MilestoneOf[e]
      /\ MilestoneOf[e] # Total => d = e

(* "Dispute split: x% to freelancer" (escrow.service.js:489): what a split *)
(* pays the freelancer is the freelancer's share.                          *)
SplitPaysTheShare ==
  [][\A w \in Workers :
       task[w].op = "SPLIT" /\ At(w, "payFreelancer")
         /\ task'[w].pc = "saveRelease" =>
           rows'[task[w].escrow].released
             = rows[task[w].escrow].released + task[w].part]_vars

(* "Expiry for unfunded escrows (auto-cleanup)" (Escrow.js:66): the TTL    *)
(* index removes no escrow whose money is still locked.                    *)
OnlyUnfundedIsCleanedUp ==
  \A e \in Escrows :
    escrow[e].status = "DELETED" /\ ~Busy(e) =>
      rows[e].funded <= rows[e].released + rows[e].refunded
=============================================================================
