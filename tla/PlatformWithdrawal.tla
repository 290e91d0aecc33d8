------------------------- MODULE PlatformWithdrawal -------------------------
(***************************************************************************)
(* What the platform collects and its admins take out:                     *)
(* src/models/PlatformWallet.js, src/models/PlatformWithdrawal.js and the  *)
(* platform withdrawals of                                                 *)
(* src/modules/admin/payments/payment-management.controller.js.            *)
(*                                                                         *)
(* The fees come from the wallet movements of module Wallet; the platform  *)
(* wallet's availableBalance is what was collected less what was taken     *)
(* out, since every update adds to both fields at once.  An action is one  *)
(* awaited call, or one withTransaction, of an admin's request.            *)
(***************************************************************************)
EXTENDS Wallet

CONSTANTS
  Admins,              \* admins, each with one request at a time
  PlatformWithdrawals, \* identities of PlatformWithdrawal documents
  NoRequest            \* a value that is no PlatformWithdrawal

ASSUME PlatformAssumption ==
  NoRequest \notin PlatformWithdrawals /\ IsFiniteSet(PlatformWithdrawals)

VARIABLES
  totalWithdrawn,  \* PlatformWallet.totalWithdrawn
  taken,           \* the PlatformWithdrawal documents
  inFlight,        \* admin -> the request in flight
  disturbed        \* history: documents that two requests worked on at the
                   \* same time, or whose request was cut short

platformVars == <<totalWithdrawn, taken, disturbed>>
adminVars == <<walletVars, platformVars, inFlight>>

Statuses == {"none", "PENDING", "PROCESSING", "COMPLETED", "FAILED", "CANCELLED"}
NoTask == [pc |-> "idle", on |-> NoRequest, amount |-> 0]

PlatformInit ==
  /\ WalletInit
  /\ totalWithdrawn = 0
  /\ taken = [r \in PlatformWithdrawals |-> [status |-> "none", amount |-> 0]]
  /\ inFlight = [a \in Admins |-> NoTask]
  /\ disturbed = {}
-----------------------------------------------------------------------------
AtStep(a, pc) == inFlight[a].pc = pc
On(a) == inFlight[a].on
Finish(a) == inFlight' = [inFlight EXCEPT ![a] = NoTask]
Go(a, pc) == inFlight' = [inFlight EXCEPT ![a].pc = pc]
Start(a, r, pc, amount) ==
  /\ inFlight' = [inFlight EXCEPT ![a] = [pc |-> pc, on |-> r, amount |-> amount]]
  /\ disturbed' = IF \E b \in Admins : On(b) = r THEN disturbed \cup {r} ELSE disturbed
  /\ UNCHANGED <<totalWithdrawn, taken>>
SaveStatus(r, status) == taken' = [taken EXCEPT ![r].status = status]

availableBalance == platform - totalWithdrawn

\* createPlatformWithdrawal reads the balance, then records and inserts.
Create(a, r, amount) ==
  /\ AtStep(a, "idle")
  /\ taken[r].status = "none" /\ \A b \in Admins : On(b) # r
  /\ availableBalance >= amount
  /\ Start(a, r, "record", amount)
\* Mutant: the balance is not in the update's filter.
CanRecordAny(amount) == amount \in Amounts
\* The filter of recordWithdrawal.
CanRecord(amount) == availableBalance >= amount
Record(a) ==
  /\ AtStep(a, "record")
  /\ IF CanRecord(inFlight[a].amount)
     THEN /\ totalWithdrawn' = totalWithdrawn + inFlight[a].amount
          /\ taken' = [taken EXCEPT ![On(a)] =
               [status |-> "PENDING", amount |-> inFlight[a].amount]]
     ELSE UNCHANGED <<totalWithdrawn, taken>>
  /\ Finish(a)
  /\ UNCHANGED disturbed

\* processPlatformWithdrawal
Process(a, r) ==
  /\ AtStep(a, "idle") /\ taken[r].status = "PENDING"
  /\ Start(a, r, "markProcessing", taken[r].amount)
MarkProcessing(a) ==
  /\ AtStep(a, "markProcessing")
  /\ SaveStatus(On(a), "PROCESSING")
  /\ Go(a, "transfer")
  /\ UNCHANGED <<totalWithdrawn, disturbed>>
\* The gateway answers, or refuses, or the call throws.
Transfer(a) ==
  /\ AtStep(a, "transfer")
  /\ Go(a, "markCompleted") \/ Go(a, "markFailed")
  /\ UNCHANGED platformVars
\* A save that throws is caught like a refusal.
MarkCompleted(a) ==
  /\ AtStep(a, "markCompleted")
  /\ \/ SaveStatus(On(a), "COMPLETED") /\ Finish(a)
     \/ Go(a, "markFailed") /\ UNCHANGED taken
  /\ UNCHANGED <<totalWithdrawn, disturbed>>
MarkFailed(a) ==
  /\ AtStep(a, "markFailed")
  /\ SaveStatus(On(a), "FAILED")
  /\ Go(a, "refund")
  /\ UNCHANGED <<totalWithdrawn, disturbed>>
\* Mutant: the refund is forgotten.
RefundNothing(a) == AtStep(a, "refund") /\ Finish(a) /\ UNCHANGED platformVars
Refund(a) ==
  /\ AtStep(a, "refund")
  /\ totalWithdrawn' = totalWithdrawn - inFlight[a].amount
  /\ Finish(a)
  /\ UNCHANGED <<taken, disturbed>>

\* cancelPlatformWithdrawal: the refund and the status in one transaction.
Cancel(a, r) ==
  /\ AtStep(a, "idle") /\ taken[r].status = "PENDING"
  /\ Start(a, r, "cancel", taken[r].amount)
RefundCancelled(a) ==
  /\ AtStep(a, "cancel")
  /\ totalWithdrawn' = totalWithdrawn - inFlight[a].amount
  /\ SaveStatus(On(a), "CANCELLED")
  /\ Finish(a)
  /\ UNCHANGED disturbed

\* The request is cut short: a call throws outside the try, or a crash.
Stop(a) ==
  /\ ~AtStep(a, "idle")
  /\ disturbed' = disturbed \cup {On(a)}
  /\ Finish(a)
  /\ UNCHANGED <<totalWithdrawn, taken>>

AdminStep(a) ==
  \/ \E r \in PlatformWithdrawals :
       Process(a, r) \/ Cancel(a, r) \/ \E amount \in Amounts : Create(a, r, amount)
  \/ Record(a) \/ MarkProcessing(a) \/ Transfer(a) \/ MarkCompleted(a)
  \/ MarkFailed(a) \/ Refund(a) \/ RefundCancelled(a) \/ Stop(a)

PlatformNext ==
  \/ WalletNext /\ UNCHANGED <<platformVars, inFlight>>
  \/ (\E a \in Admins : AdminStep(a)) /\ UNCHANGED walletVars

PlatformSpec == PlatformInit /\ [][PlatformNext]_adminVars
-----------------------------------------------------------------------------
NoneInFlight == \A a \in Admins : AtStep(a, "idle")

(* The platform's balance is explained by its documents: between requests, *)
(* what was taken out is what the pending, processing and completed        *)
(* withdrawals say, and never more than was collected - as long as no two  *)
(* requests worked on one document and none was cut short.                 *)
Outstanding(r) == taken[r].status \in {"PENDING", "PROCESSING", "COMPLETED"}
TakenOf ==
  [r \in PlatformWithdrawals |-> IF Outstanding(r) THEN taken[r].amount ELSE 0]
PlatformReconciles ==
  NoneInFlight /\ disturbed = {} =>
    /\ totalWithdrawn = SumFunctionOnSet(TakenOf, PlatformWithdrawals)
    /\ availableBalance >= 0
-----------------------------------------------------------------------------
(* A claim of the code that does not hold: cancelPlatformWithdrawal is     *)
(* "before processing".  Refuted by a cancellation that reads PENDING and  *)
(* refunds after another request has begun to process.                     *)
CancelledIsNotProcessed ==
  \A a \in Admins : AtStep(a, "transfer") => taken[On(a)].status # "CANCELLED"
=============================================================================
