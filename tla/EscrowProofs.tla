---------------------------- MODULE EscrowProofs ----------------------------
(***************************************************************************)
(* The escrow requests, for any number of requests in flight, any escrows, *)
(* amounts and fee: types are kept, every step is a wallet movement or     *)
(* leaves the wallets alone, an escrow is funded at most once, and what a  *)
(* client has locked is explained by the rows of his escrows.              *)
(*                                                                         *)
(* TypeOK is inductive by itself.  FundedAtMostOnce needs FundingInv: the  *)
(* request about to transfer holds the only claim on its escrow, and the   *)
(* escrow has taken nothing yet.  LockedBalanceExplained is inductive with *)
(* the types: a step moves what is locked and one row by the same amount.  *)
(*                                                                         *)
(* Of requests that do not overlap, SequentialInv says what the one worker *)
(* finds its escrow to be, and that nothing is paid of an escrow that is   *)
(* not settled nor about to be.                                            *)
(***************************************************************************)
EXTENDS Escrow, WalletProofs

LEMMA InitTypeOK == Init => TypeOK
<1> SUFFICES ASSUME Init PROVE TypeOK
  OBVIOUS
<1>1. WalletTypeOK  BY WalletInvInit DEF Init, WalletInv
<1>2. EscrowsOK
  BY DEF Init, EscrowsOK, EscrowRecord, NoDocument, Statuses, StoredStatuses,
         Expiries, DisputeResolutions, Resolutions
<1>3. RowsOK  BY DEF Init, RowsOK, RowsRecord, NoRows
<1>4. TasksOK
  <2>1. Idle \in TaskRecord
    BY DEF Idle, TaskRecord, Requests, Points, Statuses, StoredStatuses
  <2>2. TaskOK(Idle)  BY DEF TaskOK, Idle, HoldsAmount
  <2> QED  BY <2>1, <2>2 DEF Init, TasksOK
<1> QED  BY <1>1, <1>2, <1>3, <1>4 DEF TypeOK
-----------------------------------------------------------------------------
\* The parts of TypeOK are expanded wherever a step of this section cites it.
USE DEF EscrowsOK, RowsOK, TasksOK, EscrowRecord, RowsRecord, TaskRecord

(* Two facts about FundingInv that cover most actions.                     *)

\* Rows are left alone and no request becomes a claiming one; an escrow keeps
\* its status or moves on to one that was reached by a claim.
LEMMA FundingFrame ==
  ASSUME TypeOK, FundingInv,
         \A e \in Escrows : rows'[e].funded = rows[e].funded,
         \A e \in Escrows :
           \/ escrow'[e].status = escrow[e].status
           \/ /\ escrow[e].status # "none"
              /\ escrow'[e].status \notin {"none", "CREATED", "EXPIRED"},
         \A v \in Workers : Claiming(v)' => Claiming(v) /\ task'[v] = task[v]
  PROVE  FundingInv'
<1>1. UnfundedHoldsNothing'
  BY DEF FundingInv, UnfundedHoldsNothing
<1>2. ASSUME NEW v \in Workers, Claiming(v)'
      PROVE  LET e == task'[v].escrow
             IN  /\ e \in Escrows
                 /\ rows'[e].funded = 0
                 /\ escrow'[e].status \notin {"none", "EXPIRED"}
                 /\ e \in WalletPaid
                      <=> task'[v].pc \in {"checkBalance", "lockFunds"}
                 /\ e \notin WalletPaid => escrow'[e].status # "CREATED"
  BY <1>2 DEF FundingInv
<1>3. ASSUME NEW u \in Workers, NEW v \in Workers,
             Claiming(u)', Claiming(v)', task'[u].escrow = task'[v].escrow
      PROVE  u = v
  BY <1>3 DEF FundingInv
<1> QED  BY <1>1, <1>2, <1>3 DEF FundingInv

\* The same for a step of one worker, which is not claiming afterwards.
LEMMA WorkerFrame ==
  ASSUME TypeOK, FundingInv, NEW w \in Workers,
         \/ \E pc \in Points : ~(pc \in {"checkBalance", "lockFunds",
                                         "transfer", "saveExpired"})
                               /\ Go(w, pc)
         \/ Done(w),
         \A e \in Escrows : rows'[e].funded = rows[e].funded,
         \A e \in Escrows :
           \/ escrow'[e].status = escrow[e].status
           \/ /\ escrow[e].status # "none"
              /\ escrow'[e].status \notin {"none", "CREATED", "EXPIRED"}
  PROVE  FundingInv'
<1>1. ~Claiming(w)'
  BY DEF Claiming, Go, Done, Idle, TypeOK
<1>2. \A v \in Workers : v # w => task'[v] = task[v]
  BY DEF Go, Done, TypeOK
<1>3. \A v \in Workers : Claiming(v)' => Claiming(v) /\ task'[v] = task[v]
  BY <1>1, <1>2 DEF Claiming
<1> QED  BY <1>3, FundingFrame

\* The holder w of a claim on e transfers or gives the claim up.
LEMMA ClaimEnds ==
  ASSUME TypeOK, FundingInv, NEW w \in Workers, Claiming(w),
         \A e \in Escrows :
           e # task[w].escrow => /\ rows'[e].funded = rows[e].funded
                                 /\ escrow'[e].status = escrow[e].status,
         escrow'[task[w].escrow].status # "none",
         task[w].escrow \notin WalletPaid
           => escrow'[task[w].escrow].status # "CREATED",
         \/ rows'[task[w].escrow].funded = 0
         \/ escrow'[task[w].escrow].status # "EXPIRED",
         \A v \in Workers : v # w => task'[v] = task[v],
         ~Claiming(w)'
  PROVE  FundingInv'
<1> DEFINE mine == task[w].escrow
<1>0. mine \in Escrows /\ rows[mine].funded = 0
  BY DEF FundingInv
<1>1. UnfundedHoldsNothing'
  BY <1>0 DEF FundingInv, UnfundedHoldsNothing
<1>2. ASSUME NEW v \in Workers, Claiming(v)'
      PROVE  /\ v # w /\ Claiming(v) /\ task'[v] = task[v]
             /\ task[v].escrow \in Escrows
             /\ task[v].escrow # mine
  BY <1>2 DEF Claiming, FundingInv
<1>3. ASSUME NEW v \in Workers, Claiming(v)'
      PROVE  LET e == task'[v].escrow
             IN  /\ e \in Escrows
                 /\ rows'[e].funded = 0
                 /\ escrow'[e].status \notin {"none", "EXPIRED"}
                 /\ e \in WalletPaid
                      <=> task'[v].pc \in {"checkBalance", "lockFunds"}
                 /\ e \notin WalletPaid => escrow'[e].status # "CREATED"
  <2> DEFINE e == task[v].escrow
  <2>1. /\ Claiming(v) /\ task'[v] = task[v] /\ e \in Escrows
        /\ rows'[e].funded = rows[e].funded
        /\ escrow'[e].status = escrow[e].status
    BY <1>2, <1>3
  <2>2. /\ rows[e].funded = 0
        /\ escrow[e].status \notin {"none", "EXPIRED"}
        /\ e \in WalletPaid <=> task[v].pc \in {"checkBalance", "lockFunds"}
        /\ e \notin WalletPaid => escrow[e].status # "CREATED"
    BY <2>1 DEF FundingInv
  <2> QED  BY <2>1, <2>2
<1>4. ASSUME NEW u \in Workers, NEW v \in Workers,
             Claiming(u)', Claiming(v)', task'[u].escrow = task'[v].escrow
      PROVE  u = v
  BY <1>2, <1>4 DEF FundingInv
<1> QED  BY <1>1, <1>3, <1>4 DEF FundingInv

LEMMA TransferKeepsFunding ==
  ASSUME TypeOK, FundingInv, NEW w \in Workers, Claiming(w),
         task[w].pc # "checkBalance",
         NEW next \in {"markFunded", "saveFunded"}, Transfer(w, next)
  PROVE  FundingInv'
<1> DEFINE e == task[w].escrow
<1>1. e \in Escrows /\ escrow[e].status \notin {"none", "EXPIRED"}
      /\ (e \notin WalletPaid => escrow[e].status # "CREATED")
  BY DEF FundingInv
<1>2. escrow' = escrow
  BY DEF Transfer
<1>3. \A d \in Escrows : d # e => rows'[d].funded = rows[d].funded
  BY DEF Transfer, TypeOK
<1>4. \A v \in Workers : v # w => task'[v] = task[v]
  BY DEF Transfer, Go, Done, TypeOK
<1>5. ~Claiming(w)'
  BY DEF Transfer, Go, Done, TypeOK, Claiming, Idle
<1> QED  BY <1>1, <1>2, <1>3, <1>4, <1>5, ClaimEnds

LEMMA InsertKeepsFunding ==
  ASSUME TypeOK, FundingInv, NEW w \in Workers, ~Claiming(w), ~Claiming(w)',
         NEW e \in Escrows \ WalletPaid, escrow[e].status = "none",
         NEW amount \in Nat, Insert(e, amount),
         rows' = rows,
         \A v \in Workers : v # w => task'[v] = task[v]
  PROVE  FundingInv'
<1>1. /\ escrow'[e].status = "CREATED"
      /\ \A d \in Escrows : d # e => escrow'[d] = escrow[d]
  BY DEF Insert, TypeOK
<1>2. UnfundedHoldsNothing'
  BY <1>1 DEF FundingInv, UnfundedHoldsNothing
<1>3. ASSUME NEW v \in Workers, Claiming(v)'
      PROVE  /\ Claiming(v) /\ task'[v] = task[v]
             /\ task[v].escrow \in Escrows /\ task[v].escrow # e
  BY <1>3 DEF Claiming, FundingInv
<1> QED  BY <1>1, <1>2, <1>3 DEF FundingInv

LEMMA HireKeepsFunding ==
  ASSUME TypeOK, FundingInv, NEW w \in Workers, NEW e \in Escrows,
         NEW a \in EscrowAmounts, Hire(w, e, a)
  PROVE  FundingInv'
<1>1. /\ escrow'[e].status = "CREATED"
      /\ \A d \in Escrows : d # e => escrow'[d] = escrow[d]
      /\ rows' = rows
  BY DEF Hire, Insert, TypeOK
<1>2. /\ task'[w].pc = "checkBalance" /\ task'[w].escrow = e
      /\ \A v \in Workers : v # w => task'[v] = task[v]
  BY DEF Hire, TypeOK, Idle
<1>3. e \in WalletPaid /\ escrow[e].status = "none" /\ rows[e].funded = 0
  BY DEF Hire, FundingInv, UnfundedHoldsNothing
<1>4. UnfundedHoldsNothing'
  BY <1>1, <1>3 DEF FundingInv, UnfundedHoldsNothing
<1>5. ASSUME NEW v \in Workers, v # w, Claiming(v)'
      PROVE  /\ Claiming(v) /\ task'[v] = task[v]
             /\ task[v].escrow \in Escrows /\ task[v].escrow # e
  BY <1>2, <1>3, <1>5 DEF Claiming, FundingInv
<1>6. ASSUME NEW v \in Workers, Claiming(v)'
      PROVE  LET d == task'[v].escrow
             IN  /\ d \in Escrows
                 /\ rows'[d].funded = 0
                 /\ escrow'[d].status \notin {"none", "EXPIRED"}
                 /\ d \in WalletPaid
                      <=> task'[v].pc \in {"checkBalance", "lockFunds"}
                 /\ d \notin WalletPaid => escrow'[d].status # "CREATED"
  <2>1. CASE v = w  BY <2>1, <1>1, <1>2, <1>3
  <2>2. CASE v # w
    <3>1. /\ Claiming(v) /\ task'[v] = task[v] /\ task[v].escrow \in Escrows
          /\ escrow'[task[v].escrow] = escrow[task[v].escrow]
      BY <1>1, <1>5, <1>6, <2>2
    <3> QED  BY <3>1, <1>1 DEF FundingInv
  <2> QED  BY <2>1, <2>2
<1>7. ASSUME NEW u \in Workers, NEW v \in Workers,
             Claiming(u)', Claiming(v)', task'[u].escrow = task'[v].escrow
      PROVE  u = v
  BY <1>2, <1>5, <1>7 DEF FundingInv
<1> QED  BY <1>4, <1>6, <1>7 DEF FundingInv

LEMMA ClaimKeepsFunding ==
  ASSUME TypeOK, FundingInv, NEW w \in Workers, NEW e \in Escrows,
         FundClaim(w, e)
  PROVE  FundingInv'
<1>1. /\ escrow'[e].status = "FUNDED"
      /\ \A d \in Escrows : d # e => escrow'[d] = escrow[d]
      /\ rows' = rows
  BY DEF FundClaim, TypeOK
<1>2. /\ task'[w].pc \in {"transfer", "saveExpired"} /\ task'[w].escrow = e
      /\ \A v \in Workers : v # w => task'[v] = task[v]
  BY DEF FundClaim, TypeOK, Idle
<1>3. e \notin WalletPaid /\ escrow[e].status = "CREATED" /\ rows[e].funded = 0
  BY DEF FundClaim, FundingInv, UnfundedHoldsNothing
<1>4. UnfundedHoldsNothing'
  BY <1>1, <1>3 DEF FundingInv, UnfundedHoldsNothing
<1>5. ASSUME NEW v \in Workers, v # w, Claiming(v)'
      PROVE  /\ Claiming(v) /\ task'[v] = task[v]
             /\ task[v].escrow \in Escrows /\ task[v].escrow # e
  BY <1>2, <1>3, <1>5 DEF Claiming, FundingInv
<1>6. ASSUME NEW v \in Workers, Claiming(v)'
      PROVE  LET d == task'[v].escrow
             IN  /\ d \in Escrows
                 /\ rows'[d].funded = 0
                 /\ escrow'[d].status \notin {"none", "EXPIRED"}
                 /\ d \in WalletPaid
                      <=> task'[v].pc \in {"checkBalance", "lockFunds"}
                 /\ d \notin WalletPaid => escrow'[d].status # "CREATED"
  <2>1. CASE v = w  BY <2>1, <1>1, <1>2, <1>3
  <2>2. CASE v # w
    <3>1. /\ Claiming(v) /\ task'[v] = task[v] /\ task[v].escrow \in Escrows
          /\ escrow'[task[v].escrow] = escrow[task[v].escrow]
      BY <1>1, <1>5, <1>6, <2>2
    <3> QED  BY <3>1, <1>1 DEF FundingInv
  <2> QED  BY <2>1, <2>2
<1>7. ASSUME NEW u \in Workers, NEW v \in Workers,
             Claiming(u)', Claiming(v)', task'[u].escrow = task'[v].escrow
      PROVE  u = v
  BY <1>2, <1>5, <1>7 DEF FundingInv
<1> QED  BY <1>4, <1>6, <1>7 DEF FundingInv

LEMMA CheckBalanceKeepsFunding ==
  ASSUME TypeOK, FundingInv, NEW w \in Workers, HireCheckBalance(w)
  PROVE  FundingInv'
<1> DEFINE e == task[w].escrow
<1>1. /\ Claiming(w) /\ e \in Escrows /\ e \in WalletPaid
      /\ rows[e].funded = 0 /\ rows' = rows
  BY DEF HireCheckBalance, At, Claiming, FundingInv
<1>2. \A v \in Workers : v # w => task'[v] = task[v]
  BY DEF HireCheckBalance, Go, Done, TypeOK
<1>3. CASE Done(w) /\ escrow' = [escrow EXCEPT ![e].status = "DELETED"]
  <2>1. /\ escrow'[e].status = "DELETED"
        /\ \A d \in Escrows : d # e => escrow'[d] = escrow[d]
    BY <1>1, <1>3 DEF TypeOK
  <2>2. ~Claiming(w)'
    BY <1>3 DEF Done, Claiming, Idle, TypeOK
  <2> QED  BY <1>1, <1>2, <2>1, <2>2, ClaimEnds
<1>4. CASE Go(w, "lockFunds") /\ escrow' = escrow
  <2>1. task'[w].pc = "lockFunds" /\ task'[w].escrow = e
    BY <1>4 DEF Go, TypeOK
  <2>2. task[w].pc = "checkBalance"
    BY DEF HireCheckBalance, At
  <2>3. ASSUME NEW v \in Workers
        PROVE  /\ task'[v].escrow = task[v].escrow
               /\ Claiming(v)' <=> Claiming(v)
               /\ task'[v].pc \in {"checkBalance", "lockFunds"}
                    <=> task[v].pc \in {"checkBalance", "lockFunds"}
    BY <1>2, <2>1, <2>2 DEF Claiming
  <2> QED  BY <1>1, <1>4, <2>3 DEF FundingInv, UnfundedHoldsNothing
<1> QED  BY <1>3, <1>4 DEF HireCheckBalance

\* A request that reads begins without a claim.
LEMMA StartKeepsFunding ==
  ASSUME TypeOK, FundingInv, NEW w \in Workers, NEW e \in Escrows,
         Start(w, e)
  PROVE  FundingInv'
<1>1. ASSUME rows' = rows, escrow' = escrow,
             NEW t, task' = [task EXCEPT ![w] = t],
             ~(t.pc \in {"checkBalance", "lockFunds", "transfer",
                         "saveExpired"})
      PROVE  FundingInv'
  <2>1. \A v \in Workers : Claiming(v)' => Claiming(v) /\ task'[v] = task[v]
    BY <1>1 DEF Claiming, TypeOK
  <2> QED  BY <1>1, <2>1, FundingFrame
<1>2. ASSUME NEW a \in EscrowAmounts, CreateCheck(w, e, a)
      PROVE  FundingInv'
  <2>1. [Idle EXCEPT !.op = "create", !.pc = "insert",
                     !.escrow = e, !.amount = a].pc = "insert"
    BY DEF Idle
  <2> QED  BY <1>1, <1>2, <2>1 DEF CreateCheck
<1>3. ASSUME NEW a \in EscrowAmounts, Hire(w, e, a) PROVE FundingInv'
  BY <1>3, HireKeepsFunding
<1>4. CASE FundClaim(w, e)  BY <1>4, ClaimKeepsFunding
<1>5. CASE MarkRead(w, e)   BY <1>1, <1>5 DEF MarkRead, Begin
<1>6. CASE Release(w, e)    BY <1>1, <1>6 DEF Release, Begin
<1>7. CASE Refund(w, e)     BY <1>1, <1>7 DEF Refund, Begin
<1>8. CASE Freeze(w, e)     BY <1>1, <1>8 DEF Freeze, Begin
<1>9. ASSUME NEW part \in PartialAmounts \cup {0}, AdminRelease(w, e, part)
      PROVE  FundingInv'
  BY <1>1, <1>9 DEF AdminRelease
<1>10. ASSUME NEW r \in Resolutions, NEW p \in Percentages,
              ResolveDispute(w, e, r, p)
       PROVE  FundingInv'
  <2> DEFINE amount == escrow[e].amount
             part == IF r = "SPLIT" THEN Share(amount, p) ELSE 0
             t == [op |-> r, pc |-> "readInner", escrow |-> e,
                   status |-> "DISPUTED", amount |-> amount, part |-> part,
                   rest |-> IF r = "SPLIT" /\ part < amount
                            THEN amount - part ELSE 0]
  <2>1. task' = [task EXCEPT ![w] = t] /\ rows' = rows /\ escrow' = escrow
    BY <1>10 DEF ResolveDispute
  <2>2. t.pc = "readInner"  OBVIOUS
  <2> HIDE DEF t
  <2> QED  BY <1>1, <2>1, <2>2
<1>11. CASE \E a \in EscrowAmounts : CreateCheck(w, e, a) \/ Hire(w, e, a)
  BY <1>2, <1>3, <1>11
<1>12. CASE \E part \in PartialAmounts \cup {0} : AdminRelease(w, e, part)
  BY <1>9, <1>12
<1>13. CASE \E r \in Resolutions, p \in Percentages :
              ResolveDispute(w, e, r, p)
  BY <1>10, <1>13
<1> QED
  BY <1>4, <1>5, <1>6, <1>7, <1>8, <1>11, <1>12, <1>13 DEF Start

(* FundingInv is inductive: one step per action.                           *)
LEMMA FundingStep == TypeOK /\ FundingInv /\ [Next]_vars => FundingInv'
<1> SUFFICES ASSUME TypeOK, FundingInv, [Next]_vars
             PROVE  FundingInv'
  OBVIOUS
<1>1. ASSUME NEW w \in Workers, NEW e \in Escrows, Start(w, e)
      PROVE  FundingInv'
  BY <1>1, StartKeepsFunding
<1>2. ASSUME NEW w \in Workers, Continue(w)
      PROVE  FundingInv'
  <2> USE DEF At
  <2>1. CASE CreateInsert(w)
    <3>1. ~Claiming(w) /\ ~Claiming(w)' /\ rows' = rows /\ Done(w)
          /\ \A v \in Workers : v # w => task'[v] = task[v]
      BY <2>1 DEF CreateInsert, Done, Idle, Claiming, TypeOK
    <3>2. CASE escrow' = escrow  BY <3>1, <3>2, WorkerFrame
    <3>3. ASSUME NEW e \in Unborn(MilestoneOf[task[w].escrow]) \ WalletPaid,
                 Insert(e, task[w].amount)
          PROVE  FundingInv'
      <4>1. e \in Escrows \ WalletPaid /\ escrow[e].status = "none"
            /\ task[w].amount \in Nat
        BY DEF Unborn, TypeOK
      <4> QED  BY <3>1, <3>3, <4>1, InsertKeepsFunding
    <3> QED  BY <2>1, <3>2, <3>3 DEF CreateInsert
  <2>2. CASE HireCheckBalance(w)  BY <2>2, CheckBalanceKeepsFunding
  <2>3. CASE HireLockFunds(w)
    BY <2>3, TransferKeepsFunding DEF HireLockFunds, Claiming
  <2>4. CASE HireMarkFunded(w)
    <3>1. Done(w) /\ rows' = rows
      BY <2>4 DEF HireMarkFunded, SaveFails
    <3>2. \A e \in Escrows :
            \/ escrow'[e].status = escrow[e].status
            \/ escrow[e].status # "none" /\ escrow'[e].status = "FUNDED"
      BY <2>4 DEF HireMarkFunded, SaveFails, Exists, StoredStatuses, TypeOK
    <3> QED  BY <3>1, <3>2, WorkerFrame
  <2>5. CASE FundSaveExpired(w)
    <3> DEFINE e == task[w].escrow
    <3>1. Claiming(w) /\ Done(w) /\ rows' = rows
      BY <2>5 DEF FundSaveExpired, SaveFails, Claiming
    <3>2. ~Claiming(w)' /\ \A v \in Workers : v # w => task'[v] = task[v]
      BY <3>1 DEF Done, Idle, Claiming, TypeOK
    <3>3. e \in Escrows /\ rows[e].funded = 0
          /\ escrow[e].status \notin {"none", "EXPIRED"}
          /\ (e \notin WalletPaid => escrow[e].status # "CREATED")
      BY <3>1 DEF FundingInv
    <3>4. escrow' = escrow \/ escrow' = [escrow EXCEPT ![e].status = "EXPIRED"]
      BY <2>5 DEF FundSaveExpired, SaveFails
    <3>5. /\ escrow'[e].status \notin {"none", "CREATED"}
             \/ escrow'[e].status = escrow[e].status
          /\ \A d \in Escrows : d # e => escrow'[d] = escrow[d]
      BY <3>3, <3>4 DEF TypeOK
    <3> QED  BY <3>1, <3>2, <3>3, <3>5, ClaimEnds
  <2>6. CASE FundTransfer(w)
    BY <2>6, TransferKeepsFunding DEF FundTransfer, Claiming
  <2>7. CASE FundSaveFunded(w)
    <3>1. (Done(w) \/ Go(w, "saveLocked")) /\ rows' = rows
      BY <2>7 DEF FundSaveFunded, SaveFails
    <3>2. \A e \in Escrows : escrow'[e].status = escrow[e].status
      BY <2>7 DEF FundSaveFunded, SaveFails, TypeOK
    <3> QED  BY <3>1, <3>2, WorkerFrame DEF Points
  <2>8. CASE FundSaveLocked(w)
    <3>1. Done(w) /\ rows' = rows
      BY <2>8 DEF FundSaveLocked, SaveFails
    <3>2. \A e \in Escrows :
            \/ escrow'[e].status = escrow[e].status
            \/ escrow[e].status # "none" /\ escrow'[e].status = "LOCKED"
      BY <2>8 DEF FundSaveLocked, SaveFails, Exists, StoredStatuses, TypeOK
    <3> QED  BY <3>1, <3>2, WorkerFrame
  <2>9. CASE MarkLocked(w)
    <3>1. Done(w) /\ rows' = rows
      BY <2>9 DEF MarkLocked
    <3>2. \A e \in Escrows :
            \/ escrow'[e].status = escrow[e].status
            \/ escrow[e].status # "none" /\ escrow'[e].status = "LOCKED"
      BY <2>9 DEF MarkLocked, Exists, StoredStatuses, TypeOK
    <3> QED  BY <3>1, <3>2, WorkerFrame
  <2>10. CASE SaveFrozen(w)
    <3>1. Done(w) /\ rows' = rows
      BY <2>10 DEF SaveFrozen, SaveFails
    <3>2. \A e \in Escrows :
            \/ escrow'[e].status = escrow[e].status
            \/ escrow[e].status # "none" /\ escrow'[e].status = "DISPUTED"
      BY <2>10 DEF SaveFrozen, SaveFails, Exists, StoredStatuses, TypeOK
    <3> QED  BY <3>1, <3>2, WorkerFrame
  <2>11. CASE ReadInner(w)
    <3>1. rows' = rows /\ escrow' = escrow
      BY <2>11 DEF ReadInner
    <3>2. task'[w].pc \in {"payClient", "payFreelancer", "idle"}
          /\ \A v \in Workers : v # w => task'[v] = task[v]
      BY <2>11 DEF ReadInner, Done, Idle, TypeOK
    <3>3. \A v \in Workers : Claiming(v)' => Claiming(v) /\ task'[v] = task[v]
      BY <3>2 DEF Claiming
    <3> QED  BY <3>1, <3>3, FundingFrame
  <2>12. CASE PayFreelancer(w)
    <3>1. /\ \A e \in Escrows : rows'[e].funded = rows[e].funded
          /\ escrow' = escrow
      BY <2>12 DEF PayFreelancer, TypeOK
    <3> QED  BY <2>12, <3>1, WorkerFrame DEF PayFreelancer, Points
  <2>13. CASE PayClient(w)
    <3>1. /\ \A e \in Escrows : rows'[e].funded = rows[e].funded
          /\ escrow' = escrow
      BY <2>13 DEF PayClient, RefundClient, TypeOK
    <3> QED  BY <2>13, <3>1, WorkerFrame DEF PayClient, RefundClient, Points
  <2>14. CASE PayRest(w)
    <3>1. /\ \A e \in Escrows : rows'[e].funded = rows[e].funded
          /\ escrow' = escrow
      BY <2>14 DEF PayRest, RefundClient, TypeOK
    <3> QED  BY <2>14, <3>1, WorkerFrame DEF PayRest, RefundClient, Points
  <2>15. CASE SaveRelease(w)
    <3>1. Done(w) \/ Go(w, "payRest") \/ Go(w, "recordResolution")
      BY <2>15 DEF SaveRelease, Return
    <3>2. rows' = rows
      BY <2>15 DEF SaveRelease
    <3>3. \A e \in Escrows :
            \/ escrow'[e].status = escrow[e].status
            \/ escrow[e].status # "none" /\ escrow'[e].status = "RELEASED"
      BY <2>15 DEF SaveRelease, Exists, StoredStatuses, TypeOK
    <3> QED  BY <3>1, <3>2, <3>3, WorkerFrame DEF Points
  <2>16. CASE SaveRefund(w)
    <3>1. Done(w) \/ Go(w, "payRest") \/ Go(w, "recordResolution")
      BY <2>16 DEF SaveRefund, SaveFails, Return
    <3>2. rows' = rows
      BY <2>16 DEF SaveRefund, SaveFails
    <3>3. \A e \in Escrows :
            \/ escrow'[e].status = escrow[e].status
            \/ escrow[e].status # "none" /\ escrow'[e].status = "REFUNDED"
      BY <2>16 DEF SaveRefund, SaveFails, Exists, StoredStatuses, TypeOK
    <3> QED  BY <3>1, <3>2, <3>3, WorkerFrame DEF Points
  <2>17. CASE RecordResolution(w)
    <3>1. Done(w) /\ rows' = rows
      BY <2>17 DEF RecordResolution, SaveFails
    <3>2. \A e \in Escrows : escrow'[e].status = escrow[e].status
      BY <2>17 DEF RecordResolution, SaveFails, TypeOK
    <3> QED  BY <3>1, <3>2, WorkerFrame
  <2> QED
    BY <1>2, <2>1, <2>2, <2>3, <2>4, <2>5, <2>6, <2>7, <2>8, <2>9, <2>10,
       <2>11, <2>12, <2>13, <2>14, <2>15, <2>16, <2>17 DEF Continue
<1>3. ASSUME NEW u \in Users, NEW a \in DepositAmounts, ClientDeposit(u, a)
      PROVE  FundingInv'
  BY <1>3, FundingFrame DEF ClientDeposit, Claiming
<1>4. ASSUME NEW e \in Escrows, ExpiryPasses(e) PROVE FundingInv'
  <2>1. \A d \in Escrows : escrow'[d].status = escrow[d].status
    BY <1>4 DEF ExpiryPasses, TypeOK
  <2> QED  BY <1>4, <2>1, FundingFrame DEF ExpiryPasses, Claiming
<1>5. ASSUME NEW e \in Escrows, TTLDelete(e) PROVE FundingInv'
  <2>1. \A d \in Escrows :
          \/ escrow'[d].status = escrow[d].status
          \/ escrow[d].status # "none" /\ escrow'[d].status = "DELETED"
    BY <1>5 DEF TTLDelete, Exists, StoredStatuses, TypeOK
  <2> QED  BY <1>5, <2>1, FundingFrame DEF TTLDelete, Claiming
<1>6. ASSUME NEW w \in Workers, Crash(w) PROVE FundingInv'
  BY <1>6, WorkerFrame DEF Crash
<1>7. CASE UNCHANGED vars
  BY <1>7, FundingFrame DEF vars, Claiming
<1>8. CASE \E w \in Workers : (\E e \in Escrows : Start(w, e)) \/ Continue(w)
  BY <1>1, <1>2, <1>8
<1>9. CASE Environment
  BY <1>3, <1>4, <1>5, <1>6, <1>9 DEF Environment
<1> QED  BY <1>7, <1>8, <1>9 DEF Next

HIDE DEF EscrowsOK, RowsOK, TasksOK, EscrowRecord, RowsRecord, TaskRecord
-----------------------------------------------------------------------------
(* Every step is a wallet movement or leaves the wallets alone.            *)

\* A payment in part is of an amount too: Amounts is closed downwards.
LEMMA PaymentIsAmount ==
  ASSUME TypeOK, NEW w \in Workers, At(w, "payFreelancer")
  PROVE  Payment(w) \in Amounts
<1>1. /\ task[w].amount \in Amounts
      /\ task[w].part \in Nat
      /\ task[w].part <= task[w].amount
  BY DEF At, TypeOK, TasksOK, TaskOK, TaskRecord, HoldsAmount
<1>2. task[w].part # 0 => task[w].part \in 1..task[w].amount
  BY <1>1, AmountsAssumption
<1> QED  BY <1>1, <1>2, AmountsAssumption DEF Payment

LEMMA ParticipantsAreUsers ==
  ASSUME TypeOK, NEW w \in Workers, task[w].pc # "idle"
  PROVE  Client(w) \in Users /\ Freelancer(w) \in Users
BY EscrowAssumption DEF Client, Freelancer, TypeOK, TasksOK, TaskOK

LEMMA WalletStep == TypeOK /\ [Next]_vars => [WalletNext]_walletVars
<1> SUFFICES ASSUME TypeOK, [Next]_vars
             PROVE  [WalletNext]_walletVars
  OBVIOUS
<1>1. ASSUME NEW w \in Workers, NEW e \in Escrows, Start(w, e)
      PROVE  UNCHANGED walletVars
  <2>1. CASE \E a \in EscrowAmounts : CreateCheck(w, e, a) \/ Hire(w, e, a)
    BY <2>1 DEF CreateCheck, Hire
  <2>2. CASE FundClaim(w, e)  BY <2>2 DEF FundClaim
  <2>3. CASE MarkRead(w, e)   BY <2>3 DEF MarkRead
  <2>4. CASE Release(w, e)    BY <2>4 DEF Release
  <2>5. CASE Refund(w, e)     BY <2>5 DEF Refund
  <2>6. CASE Freeze(w, e)     BY <2>6 DEF Freeze
  <2>7. CASE \E part \in PartialAmounts \cup {0} : AdminRelease(w, e, part)
    BY <2>7 DEF AdminRelease
  <2>8. CASE \E r \in Resolutions, p \in Percentages :
               ResolveDispute(w, e, r, p)
    BY <2>8 DEF ResolveDispute
  <2> QED
    BY <1>1, <2>1, <2>2, <2>3, <2>4, <2>5, <2>6, <2>7, <2>8 DEF Start
<1>2. ASSUME NEW w \in Workers, Transfer(w, "markFunded")
                                \/ Transfer(w, "saveFunded"),
             task[w].pc \in {"lockFunds", "transfer"}
      PROVE  [WalletNext]_walletVars
  <2>1. task[w].amount \in Amounts /\ Client(w) \in Users
    BY <1>2, ParticipantsAreUsers DEF TypeOK, TasksOK, TaskOK, HoldsAmount
  <2>2. LockFunds(Client(w), task[w].amount) \/ UNCHANGED walletVars
    BY <1>2 DEF Transfer
  <2> QED  BY <2>1, <2>2 DEF WalletNext
<1>3. ASSUME NEW w \in Workers, PayFreelancer(w)
      PROVE  [WalletNext]_walletVars
  <2>1. Payment(w) \in Amounts
    BY <1>3, PaymentIsAmount DEF PayFreelancer
  <2>2. Client(w) \in Users /\ Freelancer(w) \in Users
    BY <1>3, ParticipantsAreUsers DEF PayFreelancer, At
  <2>3. ReleaseFromEscrow(Client(w), Freelancer(w), Payment(w))
        \/ UNCHANGED walletVars
    BY <1>3 DEF PayFreelancer
  <2> QED  BY <2>1, <2>2, <2>3 DEF WalletNext
<1>4. ASSUME NEW w \in Workers, PayClient(w)
      PROVE  [WalletNext]_walletVars
  <2>1. task[w].amount \in Amounts /\ Client(w) \in Users
    BY <1>4, ParticipantsAreUsers
       DEF PayClient, At, TypeOK, TasksOK, TaskOK, HoldsAmount
  <2>2. UnlockFunds(Client(w), task[w].amount) \/ UNCHANGED walletVars
    BY <1>4 DEF PayClient, RefundClient
  <2> QED  BY <2>1, <2>2 DEF WalletNext
<1>5. ASSUME NEW w \in Workers, PayRest(w)
      PROVE  [WalletNext]_walletVars
  <2>1. task[w].rest \in Amounts /\ Client(w) \in Users
    BY <1>5, ParticipantsAreUsers DEF PayRest, At, TypeOK, TasksOK, TaskOK
  <2>2. UnlockFunds(Client(w), task[w].rest) \/ UNCHANGED walletVars
    BY <1>5 DEF PayRest, RefundClient
  <2> QED  BY <2>1, <2>2 DEF WalletNext
<1>6. ASSUME NEW w \in Workers, Continue(w)
      PROVE  [WalletNext]_walletVars
  <2>1. CASE HireLockFunds(w)  BY <1>2, <2>1 DEF HireLockFunds, At
  <2>2. CASE FundTransfer(w)   BY <1>2, <2>2 DEF FundTransfer, At
  <2>3. CASE CreateInsert(w) \/ HireCheckBalance(w) \/ ReadInner(w)
             \/ MarkLocked(w) \/ SaveRelease(w)
    BY <2>3 DEF CreateInsert, HireCheckBalance, ReadInner, MarkLocked,
                SaveRelease
  <2>4. CASE HireMarkFunded(w) \/ FundSaveExpired(w) \/ FundSaveFunded(w)
             \/ FundSaveLocked(w)
    BY <2>4 DEF HireMarkFunded, FundSaveExpired, FundSaveFunded,
                FundSaveLocked, SaveFails
  <2>5. CASE SaveFrozen(w) \/ SaveRefund(w) \/ RecordResolution(w)
    BY <2>5 DEF SaveFrozen, SaveRefund, RecordResolution, SaveFails
  <2> QED  BY <1>3, <1>4, <1>5, <1>6, <2>1, <2>2, <2>3, <2>4, <2>5 DEF Continue
<1>7. CASE Environment
  <2>1. ASSUME NEW u \in Users, NEW a \in DepositAmounts, ClientDeposit(u, a)
        PROVE  WalletNext
    <3>1. a \in Amounts  BY EscrowAssumption
    <3>2. Deposit(u, a)  BY <2>1 DEF ClientDeposit
    <3> QED  BY <3>1, <3>2 DEF WalletNext
  <2>2. ASSUME NEW e \in Escrows, ExpiryPasses(e) \/ TTLDelete(e)
        PROVE  UNCHANGED walletVars
    BY <2>2 DEF ExpiryPasses, TTLDelete
  <2>3. ASSUME NEW w \in Workers, Crash(w)
        PROVE  UNCHANGED walletVars
    BY <2>3 DEF Crash
  <2> QED  BY <1>7, <2>1, <2>2, <2>3 DEF Environment
<1>8. CASE UNCHANGED vars
  BY <1>8 DEF vars, walletVars
<1>9. CASE \E w \in Workers : (\E e \in Escrows : Start(w, e)) \/ Continue(w)
  BY <1>1, <1>6, <1>9
<1> QED  BY <1>7, <1>8, <1>9 DEF Next
-----------------------------------------------------------------------------
(* Types.  The wallets' part follows from WalletStep; the others are taken *)
(* up one at a time.  FundingInv says that the escrow a request is about   *)
(* to fund has been inserted.                                              *)

LEMMA TaskUpdate ==
  ASSUME TasksOK, NEW w \in Workers, NEW t \in TaskRecord, TaskOK(t),
         task' = [task EXCEPT ![w] = t]
  PROVE  TasksOK'
<1>1. task' \in [Workers -> TaskRecord]
  BY DEF TasksOK
<1>2. \A v \in Workers : task'[v] = IF v = w THEN t ELSE task[v]
  BY DEF TasksOK
<1>3. ASSUME NEW v \in Workers PROVE TaskOK(task'[v])
  <2>1. CASE v = w  BY <1>2, <2>1
  <2>2. CASE v # w  BY <1>2, <2>2 DEF TasksOK
  <2> QED  BY <2>1, <2>2
<1> QED  BY <1>1, <1>3 DEF TasksOK

LEMMA TaskDone ==
  ASSUME TasksOK, NEW w \in Workers, Done(w)
  PROVE  TasksOK'
<1>1. Idle \in TaskRecord
  BY DEF Idle, TaskRecord, Requests, Points, Statuses, StoredStatuses
<1>2. TaskOK(Idle)  BY DEF TaskOK, Idle, HoldsAmount
<1> QED  BY <1>1, <1>2, TaskUpdate DEF Done

LEMMA TaskGo ==
  ASSUME TasksOK, NEW w \in Workers, NEW pc \in Points \ {"idle"}, Go(w, pc),
         task[w].pc # "idle",
         pc \in HoldsAmount => task[w].amount \in Amounts,
         pc \in {"payFreelancer", "saveRelease"}
           => task[w].part <= task[w].amount,
         pc = "payRest" => task[w].rest \in Amounts,
         pc \in {"readInner", "payRest", "recordResolution"}
           => task[w].op \in Resolutions
  PROVE  TasksOK'
<1> DEFINE t == [task[w] EXCEPT !.pc = pc]
<1>1. task[w] \in TaskRecord /\ TaskOK(task[w])
  BY DEF TasksOK
<1>2. /\ t \in TaskRecord
      /\ t.pc = pc
      /\ t.escrow = task[w].escrow /\ t.amount = task[w].amount
      /\ t.part = task[w].part /\ t.rest = task[w].rest /\ t.op = task[w].op
  BY <1>1 DEF TaskRecord
<1>3. task' = [task EXCEPT ![w] = t]
  BY DEF Go
<1> HIDE DEF t
<1>4. TaskOK(t)
  BY <1>1, <1>2 DEF TaskOK
<1> QED  BY <1>2, <1>3, <1>4, TaskUpdate

\* A document saved with another status, amount or expiry.
LEMMA EscrowUpdate ==
  ASSUME EscrowsOK, NEW e \in Escrows, NEW d \in EscrowRecord,
         d.amount \in Amounts, escrow' = [escrow EXCEPT ![e] = d]
  PROVE  EscrowsOK'
<1>1. escrow' \in [Escrows -> EscrowRecord]
  BY DEF EscrowsOK
<1>2. \A c \in Escrows : escrow'[c] = IF c = e THEN d ELSE escrow[c]
  BY DEF EscrowsOK
<1> QED  BY <1>1, <1>2 DEF EscrowsOK

LEMMA StatusUpdate ==
  ASSUME EscrowsOK, NEW e \in Escrows, escrow[e].status # "none",
         NEW s \in Statuses, NEW x \in Expiries,
         \/ escrow' = [escrow EXCEPT ![e].status = s]
         \/ escrow' = [escrow EXCEPT ![e].expiry = x]
         \/ escrow' = [escrow EXCEPT ![e].status = s, ![e].expiry = x]
  PROVE  EscrowsOK'
<1>1. escrow[e] \in EscrowRecord /\ escrow[e].amount \in Amounts
  BY DEF EscrowsOK
<1>2. CASE escrow' = [escrow EXCEPT ![e].status = s]
  <2> DEFINE d == [escrow[e] EXCEPT !.status = s]
  <2>1. d \in EscrowRecord /\ d.amount \in Amounts
    BY <1>1 DEF EscrowRecord
  <2>2. escrow' = [escrow EXCEPT ![e] = d]  BY <1>2
  <2> HIDE DEF d
  <2> QED  BY <2>1, <2>2, EscrowUpdate
<1>3. CASE escrow' = [escrow EXCEPT ![e].expiry = x]
  <2> DEFINE d == [escrow[e] EXCEPT !.expiry = x]
  <2>1. d \in EscrowRecord /\ d.amount \in Amounts
    BY <1>1 DEF EscrowRecord
  <2>2. escrow' = [escrow EXCEPT ![e] = d]  BY <1>3
  <2> HIDE DEF d
  <2> QED  BY <2>1, <2>2, EscrowUpdate
<1>4. CASE escrow' = [escrow EXCEPT ![e].status = s, ![e].expiry = x]
  <2>1. /\ escrow' \in [Escrows -> EscrowRecord]
        /\ \A c \in Escrows : escrow'[c].amount = escrow[c].amount
        /\ \A c \in Escrows : c # e => escrow'[c] = escrow[c]
    BY <1>1, <1>4 DEF EscrowsOK, EscrowRecord
  <2> QED  BY <1>1, <2>1 DEF EscrowsOK
<1> QED  BY <1>2, <1>3, <1>4

LEMMA InsertedIsTyped ==
  ASSUME EscrowsOK, NEW e \in Escrows, NEW a \in Amounts, Insert(e, a)
  PROVE  EscrowsOK'
<1> DEFINE d == [status |-> "CREATED", amount |-> a,
                 expiry |-> "later", resolution |-> "none"]
<1>1. a \in Nat  BY AmountsAssumption
<1>2. d \in EscrowRecord /\ d.amount \in Amounts
  BY <1>1 DEF EscrowRecord, Statuses, StoredStatuses, Expiries,
              DisputeResolutions
<1>3. escrow' = [escrow EXCEPT ![e] = d]  BY DEF Insert
<1> HIDE DEF d
<1> QED  BY <1>2, <1>3, EscrowUpdate
-----------------------------------------------------------------------------
\* Everything of TypeOK that is not the wallets'.
RequestsOK == EscrowsOK /\ RowsOK /\ TasksOK

LEMMA StartKeepsTypes ==
  ASSUME TypeOK, NEW w \in Workers, NEW e \in Escrows, Start(w, e)
  PROVE  RequestsOK'
<1>0. /\ EscrowsOK /\ RowsOK /\ TasksOK
      /\ escrow[e] \in EscrowRecord
      /\ escrow[e].status # "none" => escrow[e].amount \in Amounts
  BY DEF TypeOK, EscrowsOK
<1>1. ASSUME NEW t \in TaskRecord, TaskOK(t),
             task' = [task EXCEPT ![w] = t],
             UNCHANGED <<escrow, rows>>
      PROVE  RequestsOK'
  <2>1. TasksOK'  BY <1>0, <1>1, TaskUpdate
  <2> QED  BY <1>0, <1>1, <2>1 DEF RequestsOK, EscrowsOK, RowsOK
<1>2. ASSUME NEW op \in Requests, NEW pc \in {"mark", "payFreelancer",
                                              "payClient", "saveFrozen"},
             Begin(w, op, e, pc), escrow[e].status # "none",
             UNCHANGED <<escrow, rows>>
      PROVE  RequestsOK'
  <2> DEFINE t == [op |-> op, pc |-> pc, escrow |-> e,
                   status |-> escrow[e].status, amount |-> escrow[e].amount,
                   part |-> 0, rest |-> 0]
  <2>1. escrow[e].status \in Statuses /\ escrow[e].amount \in Nat
        /\ escrow[e].amount \in Amounts
    BY <1>0, <1>2 DEF EscrowRecord
  <2>2. t \in TaskRecord
    BY <2>1 DEF TaskRecord, Points
  <2>3. TaskOK(t)
    BY <2>1 DEF TaskOK
  <2>4. task' = [task EXCEPT ![w] = t]
    BY <1>2 DEF Begin
  <2> HIDE DEF t
  <2> QED  BY <1>1, <1>2, <2>2, <2>3, <2>4
<1>3. ASSUME NEW a \in EscrowAmounts, CreateCheck(w, e, a)
      PROVE  RequestsOK'
  <2> DEFINE t == [Idle EXCEPT !.op = "create", !.pc = "insert",
                               !.escrow = e, !.amount = a]
  <2>1. a \in Amounts /\ a \in Nat  BY EscrowAssumption, AmountsAssumption
  <2>2. t \in TaskRecord /\ TaskOK(t)
    BY <2>1 DEF TaskRecord, TaskOK, Idle, Points, Requests, Statuses
  <2>3. task' = [task EXCEPT ![w] = t] /\ UNCHANGED <<escrow, rows>>
    BY <1>3 DEF CreateCheck
  <2> HIDE DEF t
  <2> QED  BY <1>1, <2>2, <2>3
<1>4. ASSUME NEW a \in EscrowAmounts, Hire(w, e, a)
      PROVE  RequestsOK'
  <2> DEFINE t == [Idle EXCEPT !.op = "hire", !.pc = "checkBalance",
                               !.escrow = e, !.status = "CREATED",
                               !.amount = a]
  <2>1. a \in Amounts /\ a \in Nat  BY EscrowAssumption, AmountsAssumption
  <2>2. t \in TaskRecord /\ TaskOK(t)
    BY <2>1 DEF TaskRecord, TaskOK, Idle, Points, Requests, Statuses,
                StoredStatuses
  <2>3. task' = [task EXCEPT ![w] = t] /\ rows' = rows /\ Insert(e, a)
    BY <1>4 DEF Hire
  <2> HIDE DEF t
  <2>4. TasksOK'    BY <1>0, <2>2, <2>3, TaskUpdate
  <2>5. EscrowsOK'  BY <1>0, <2>1, <2>3, InsertedIsTyped
  <2> QED  BY <1>0, <2>3, <2>4, <2>5 DEF RequestsOK, RowsOK
<1>5. CASE FundClaim(w, e)
  <2> DEFINE point == IF escrow[e].expiry = "past" THEN "saveExpired"
                                                   ELSE "transfer"
             t == [Idle EXCEPT !.op = "fund", !.escrow = e, !.pc = point,
                               !.status = "FUNDED",
                               !.amount = escrow[e].amount]
  <2>1. escrow[e].amount \in Amounts /\ escrow[e].amount \in Nat
        /\ escrow[e].status = "CREATED"
    BY <1>0, <1>5, AmountsAssumption DEF FundClaim
  <2>2. t \in TaskRecord /\ TaskOK(t)
    BY <2>1 DEF TaskRecord, TaskOK, Idle, Points, Requests, Statuses,
                StoredStatuses
  <2>3. /\ task' = [task EXCEPT ![w] = t] /\ rows' = rows
        /\ escrow' = [escrow EXCEPT ![e].status = "FUNDED"]
    BY <1>5 DEF FundClaim
  <2> HIDE DEF t
  <2>4. TasksOK'    BY <1>0, <2>2, <2>3, TaskUpdate
  <2>5. EscrowsOK'
    <3>1. "FUNDED" \in Statuses /\ "never" \in Expiries
      BY DEF Statuses, StoredStatuses, Expiries
    <3> QED  BY <1>0, <2>1, <2>3, <3>1, StatusUpdate
  <2> QED  BY <1>0, <2>3, <2>4, <2>5 DEF RequestsOK, RowsOK
<1>6. CASE MarkRead(w, e)   BY <1>2, <1>6 DEF MarkRead, Requests
<1>7. CASE Release(w, e)
  BY <1>2, <1>7 DEF Release, canReleaseEscrow, Requests
<1>8. CASE Refund(w, e)
  BY <1>2, <1>8 DEF Refund, canRefundEscrow, Requests
<1>9. CASE Freeze(w, e)
  BY <1>2, <1>9 DEF Freeze, canFreezeEscrow, Requests
<1>10. ASSUME NEW part \in PartialAmounts \cup {0}, AdminRelease(w, e, part)
       PROVE  RequestsOK'
  <2> DEFINE t == [op |-> "adminRelease", pc |-> "payFreelancer",
                   escrow |-> e, status |-> escrow[e].status,
                   amount |-> escrow[e].amount, part |-> part, rest |-> 0]
  <2>1. /\ escrow[e].status \in Statuses /\ escrow[e].amount \in Nat
        /\ escrow[e].amount \in Amounts
        /\ part \in Nat /\ part <= escrow[e].amount
    <3>1. part \in Nat  BY EscrowAssumption, AmountsAssumption
    <3>2. escrow[e].status # "none"
      BY <1>10 DEF AdminRelease, Exists, StoredStatuses
    <3> QED  BY <1>0, <1>10, <3>1, <3>2 DEF AdminRelease, EscrowRecord
  <2>2. t \in TaskRecord
    BY <2>1 DEF TaskRecord, Points, Requests
  <2>3. TaskOK(t)
    BY <2>1 DEF TaskOK
  <2>4. task' = [task EXCEPT ![w] = t] /\ UNCHANGED <<escrow, rows>>
    BY <1>10 DEF AdminRelease
  <2> HIDE DEF t
  <2> QED  BY <1>1, <2>2, <2>3, <2>4
<1>11. ASSUME NEW r \in Resolutions, NEW p \in Percentages,
              ResolveDispute(w, e, r, p)
       PROVE  RequestsOK'
  <2> DEFINE amount == escrow[e].amount
             part == IF r = "SPLIT" THEN Share(amount, p) ELSE 0
             rest == IF r = "SPLIT" /\ part < amount
                     THEN amount - part ELSE 0
             t == [op |-> r, pc |-> "readInner", escrow |-> e,
                   status |-> "DISPUTED", amount |-> amount, part |-> part,
                   rest |-> rest]
  <2>1. escrow[e].status = "DISPUTED" /\ task' = [task EXCEPT ![w] = t]
        /\ UNCHANGED <<escrow, rows>>
    BY <1>11 DEF ResolveDispute
  <2>2. amount \in Amounts /\ amount \in Nat
    BY <1>0, <2>1, AmountsAssumption
  <2>3. part \in Nat
    <3>1. p \in Nat  BY EscrowAssumption
    <3>2. Share(amount, p) \in Nat  BY <2>2, <3>1, RoundedIsNat DEF Share
    <3> QED  BY <3>2
  <2> HIDE DEF amount, part
  <2>4. rest \in Amounts \cup {0} /\ rest \in Nat
    <3>1. part < amount => amount - part \in 1..amount  BY <2>2, <2>3
    <3> QED  BY <2>2, <3>1, AmountsAssumption
  <2> HIDE DEF rest
  <2>5. t \in TaskRecord
    BY <2>2, <2>3, <2>4 DEF TaskRecord, Points, Requests, Statuses,
                            StoredStatuses
  <2>6. TaskOK(t)
    BY <2>4 DEF TaskOK, HoldsAmount
  <2> HIDE DEF t
  <2> QED  BY <1>1, <2>1, <2>5, <2>6
<1>12. CASE \E a \in EscrowAmounts : CreateCheck(w, e, a) \/ Hire(w, e, a)
  BY <1>3, <1>4, <1>12
<1>13. CASE \E part \in PartialAmounts \cup {0} : AdminRelease(w, e, part)
  BY <1>10, <1>13
<1>14. CASE \E r \in Resolutions, p \in Percentages :
              ResolveDispute(w, e, r, p)
  BY <1>11, <1>14
<1> QED
  BY <1>5, <1>6, <1>7, <1>8, <1>9, <1>12, <1>13, <1>14 DEF Start

LEMMA ContinueKeepsTypes ==
  ASSUME TypeOK, FundingInv, NEW w \in Workers, Continue(w)
  PROVE  RequestsOK'
<1> DEFINE e == task[w].escrow
<1>0. /\ EscrowsOK /\ RowsOK /\ TasksOK
      /\ task[w] \in TaskRecord /\ TaskOK(task[w])
  BY DEF TypeOK, TasksOK
<1>1. ASSUME task[w].pc # "idle"
      PROVE  /\ e \in Escrows /\ escrow[e] \in EscrowRecord
             /\ rows[e] \in RowsRecord
             /\ escrow[e].status # "none" => escrow[e].amount \in Amounts
  BY <1>0, <1>1 DEF TaskOK, EscrowsOK, RowsOK
<1>2. \A s \in {"FUNDED", "LOCKED", "EXPIRED", "DISPUTED", "RELEASED",
                "REFUNDED", "DELETED"} : s \in Statuses
  BY DEF Statuses, StoredStatuses
<1>3. \A x \in {"never", "later", "past"} : x \in Expiries
  BY DEF Expiries
<1>4. ASSUME UNCHANGED <<escrow, rows>> PROVE EscrowsOK' /\ RowsOK'
  BY <1>0, <1>4 DEF EscrowsOK, RowsOK
<1>5. ASSUME SaveFails(w) PROVE RequestsOK'
  BY <1>0, <1>4, <1>5, TaskDone DEF SaveFails, RequestsOK
\* A save that changes the status or the expiry and ends the request.
<1>6. ASSUME task[w].pc # "idle", Exists(e), Done(w), rows' = rows,
             NEW s \in Statuses, NEW x \in Expiries,
             \/ escrow' = [escrow EXCEPT ![e].status = s]
             \/ escrow' = [escrow EXCEPT ![e].status = s, ![e].expiry = x]
      PROVE  RequestsOK'
  <2>1. escrow[e].status # "none"
    BY <1>6 DEF Exists, StoredStatuses
  <2>2. EscrowsOK'  BY <1>0, <1>1, <1>6, <2>1, StatusUpdate
  <2>3. TasksOK'    BY <1>0, <1>6, TaskDone
  <2> QED  BY <1>0, <1>6, <2>2, <2>3 DEF RequestsOK, RowsOK
\* A wallet movement and its rows, or the end of a request without one.
<1>7. ASSUME NEW next \in Points, NEW amount \in Amounts, escrow' = escrow,
             task[w].pc # "idle",
             \/ rows' = [rows EXCEPT ![e].funded = @ + amount]
             \/ rows' = [rows EXCEPT ![e].released = @ + amount]
             \/ rows' = [rows EXCEPT ![e].refunded = @ + amount]
             \/ rows' = rows
      PROVE  EscrowsOK' /\ RowsOK'
  <2>1. amount \in Nat  BY AmountsAssumption
  <2>2. /\ rows[e].funded + amount \in Nat
        /\ rows[e].released + amount \in Nat
        /\ rows[e].refunded + amount \in Nat
    BY <1>1, <1>7, <2>1 DEF RowsRecord
  <2>3. RowsOK'
    BY <1>0, <1>1, <1>7, <2>2 DEF RowsOK, RowsRecord
  <2> QED  BY <1>0, <1>7, <2>3 DEF EscrowsOK
\* What follows the save of a nested call.
<1>8. ASSUME Return(w), task[w].pc # "idle" PROVE TasksOK'
  <2>1. CASE Done(w)  BY <1>0, <2>1, TaskDone
  <2>2. CASE Go(w, "payRest") /\ task[w].rest > 0 /\ task[w].op \in Resolutions
    <3>1. task[w].rest \in Amounts
      BY <1>0, <2>2 DEF TaskOK
    <3> QED  BY <1>0, <1>8, <2>2, <3>1, TaskGo DEF Points, HoldsAmount
  <2>3. CASE Go(w, "recordResolution") /\ task[w].op \in Resolutions
    BY <1>0, <1>8, <2>3, TaskGo DEF Points, HoldsAmount
  <2> QED  BY <1>8, <2>1, <2>2, <2>3 DEF Return
<1> USE DEF At
<1> HIDE DEF e
<1>9. CASE CreateInsert(w)
  <2>1. TasksOK' /\ rows' = rows
    BY <1>0, <1>9, TaskDone DEF CreateInsert
  <2>2. task[w].amount \in Amounts
    BY <1>0, <1>9 DEF CreateInsert, TaskOK, HoldsAmount
  <2>3. CASE escrow' = escrow
    BY <1>4, <2>1, <2>3 DEF RequestsOK
  <2>4. ASSUME NEW d \in Unborn(MilestoneOf[task[w].escrow]) \ WalletPaid,
               Insert(d, task[w].amount)
        PROVE  RequestsOK'
    <3>1. d \in Escrows  BY DEF Unborn
    <3>2. EscrowsOK'     BY <1>0, <2>2, <2>4, <3>1, InsertedIsTyped
    <3> QED  BY <1>0, <2>1, <3>2 DEF RequestsOK, RowsOK
  <2> QED  BY <1>9, <2>3, <2>4 DEF CreateInsert
<1>10. CASE HireCheckBalance(w)
  <2>0. task[w].pc = "checkBalance" /\ rows' = rows
    BY <1>10 DEF HireCheckBalance
  <2>1. CASE Done(w) /\ escrow' = [escrow EXCEPT ![e].status = "DELETED"]
    <3>1. escrow[e].status # "none" /\ e \in Escrows
      BY <2>0 DEF FundingInv, Claiming, e
    <3>2. EscrowsOK'  BY <1>0, <1>2, <1>3, <2>1, <3>1, StatusUpdate
    <3>3. TasksOK'    BY <1>0, <2>1, TaskDone
    <3> QED  BY <1>0, <2>0, <3>2, <3>3 DEF RequestsOK, RowsOK
  <2>2. CASE Go(w, "lockFunds") /\ escrow' = escrow
    <3>1. task[w].amount \in Amounts
      BY <1>0, <2>0 DEF TaskOK, HoldsAmount
    <3>2. TasksOK'  BY <1>0, <2>0, <2>2, <3>1, TaskGo DEF Points
    <3> QED  BY <1>4, <2>0, <2>2, <3>2 DEF RequestsOK
  <2> QED  BY <1>10, <2>1, <2>2 DEF HireCheckBalance, e
<1>11. ASSUME NEW next \in {"markFunded", "saveFunded"},
              task[w].pc \in {"lockFunds", "transfer"}, Transfer(w, next)
       PROVE  RequestsOK'
  <2>1. task[w].amount \in Amounts
    BY <1>0, <1>11 DEF TaskOK, HoldsAmount
  <2>2. /\ escrow' = escrow
        /\ rows' = [rows EXCEPT ![e].funded = @ + task[w].amount]
           \/ rows' = rows
        /\ Done(w) \/ Go(w, next)
    BY <1>11 DEF Transfer, e
  <2>3. TasksOK'
    BY <1>0, <1>11, <2>2, TaskDone, TaskGo DEF Points, HoldsAmount
  <2>4. "idle" \in Points  BY DEF Points
  <2> QED  BY <1>7, <1>11, <2>1, <2>2, <2>3, <2>4 DEF RequestsOK
<1>12. CASE HireLockFunds(w)  BY <1>11, <1>12 DEF HireLockFunds
<1>13. CASE FundTransfer(w)   BY <1>11, <1>13 DEF FundTransfer
<1>14. CASE HireMarkFunded(w)
  BY <1>2, <1>3, <1>5, <1>6, <1>14 DEF HireMarkFunded, e
<1>15. CASE FundSaveExpired(w)
  BY <1>2, <1>3, <1>5, <1>6, <1>15 DEF FundSaveExpired, e
<1>16. CASE FundSaveLocked(w)
  BY <1>2, <1>3, <1>5, <1>6, <1>16 DEF FundSaveLocked, e
<1>17. CASE FundSaveFunded(w)
  <2>1. CASE SaveFails(w)  BY <1>5, <2>1
  <2>2. CASE Exists(e) /\ Go(w, "saveLocked") /\ rows' = rows
             /\ escrow' = [escrow EXCEPT ![e].expiry = "never"]
    <3>1. escrow[e].status # "none" /\ e \in Escrows
      BY <1>1, <1>17, <2>2 DEF FundSaveFunded, Exists, StoredStatuses
    <3>2. EscrowsOK'  BY <1>0, <1>2, <1>3, <2>2, <3>1, StatusUpdate
    <3>3. TasksOK'
      BY <1>0, <1>17, <2>2, TaskGo DEF FundSaveFunded, Points, HoldsAmount
    <3> QED  BY <1>0, <2>2, <3>2, <3>3 DEF RequestsOK, RowsOK
  <2> QED  BY <1>17, <2>1, <2>2 DEF FundSaveFunded, e
<1>18. CASE MarkLocked(w)
  <2>1. CASE Exists(e)
    BY <1>2, <1>3, <1>6, <1>18, <2>1 DEF MarkLocked, e
  <2>2. CASE ~Exists(e)
    BY <1>0, <1>4, <1>18, <2>2, TaskDone DEF MarkLocked, RequestsOK, e
  <2> QED  BY <2>1, <2>2
<1>19. CASE SaveFrozen(w)
  <2>1. CASE SaveFails(w)  BY <1>5, <2>1
  <2>2. CASE Exists(e) /\ Done(w) /\ rows' = rows
             /\ escrow' = [escrow EXCEPT ![e].status = "DISPUTED",
                                         ![e].resolution = "PENDING"]
    <3>1. /\ e \in Escrows /\ escrow[e] \in EscrowRecord
          /\ escrow[e].amount \in Amounts
      BY <1>1, <1>19, <2>2 DEF SaveFrozen, Exists, StoredStatuses
    <3> DEFINE d == [escrow[e] EXCEPT !.status = "DISPUTED",
                                      !.resolution = "PENDING"]
    <3>2. d \in EscrowRecord /\ d.amount \in Amounts
      BY <1>2, <3>1 DEF EscrowRecord, DisputeResolutions
    <3>3. escrow' = [escrow EXCEPT ![e] = d]
      BY <1>0, <2>2, <3>1 DEF EscrowsOK
    <3> HIDE DEF d
    <3>4. EscrowsOK'  BY <1>0, <3>1, <3>2, <3>3, EscrowUpdate
    <3>5. TasksOK'    BY <1>0, <2>2, TaskDone
    <3> QED  BY <1>0, <2>2, <3>4, <3>5 DEF RequestsOK, RowsOK
  <2> QED  BY <1>19, <2>1, <2>2 DEF SaveFrozen, e
<1>20. CASE ReadInner(w)
  <2>1. UNCHANGED <<escrow, rows>> /\ task[w].pc = "readInner"
    BY <1>20 DEF ReadInner
  <2>2. CASE Done(w)
    BY <1>0, <1>4, <2>1, <2>2, TaskDone DEF RequestsOK
  <2>3. ASSUME NEW pc \in {"payClient", "payFreelancer"},
               task' = [task EXCEPT ![w].pc = pc,
                                    ![w].status = escrow[e].status,
                                    ![w].amount = escrow[e].amount],
               escrow[e].status # "none",
               pc = "payFreelancer" => task[w].part <= escrow[e].amount
        PROVE  RequestsOK'
    <3> DEFINE t == [task[w] EXCEPT !.pc = pc, !.status = escrow[e].status,
                                    !.amount = escrow[e].amount]
    <3>1. /\ escrow[e].amount \in Amounts /\ escrow[e].amount \in Nat
          /\ escrow[e].status \in Statuses /\ e \in Escrows
      BY <1>1, <2>1, <2>3, AmountsAssumption DEF EscrowRecord
    <3>2. /\ t \in TaskRecord
          /\ t.pc = pc /\ t.escrow = e /\ t.amount = escrow[e].amount
          /\ t.part = task[w].part /\ t.rest = task[w].rest
      BY <1>0, <3>1 DEF TaskRecord, Points, e
    <3>3. task' = [task EXCEPT ![w] = t]
      BY <2>3
    <3> HIDE DEF t
    <3>4. TaskOK(t)
      BY <1>0, <2>3, <3>1, <3>2 DEF TaskOK
    <3>5. TasksOK'  BY <1>0, <3>2, <3>3, <3>4, TaskUpdate
    <3> QED  BY <1>4, <2>1, <3>5 DEF RequestsOK
  <2>4. canRefundEscrow(escrow[e].status) \/ Exists(e)
          => escrow[e].status # "none"
    BY DEF canRefundEscrow, Exists, StoredStatuses
  <2>5. CASE /\ task[w].op = "REFUND_TO_CLIENT"
             /\ canRefundEscrow(escrow[e].status)
             /\ task' = [task EXCEPT ![w].pc = "payClient",
                                     ![w].status = escrow[e].status,
                                     ![w].amount = escrow[e].amount]
    BY <2>3, <2>4, <2>5
  <2>6. CASE /\ Exists(e) /\ task[w].part <= escrow[e].amount
             /\ task' = [task EXCEPT ![w].pc = "payFreelancer",
                                     ![w].status = escrow[e].status,
                                     ![w].amount = escrow[e].amount]
    BY <2>3, <2>4, <2>6
  <2> QED  BY <1>20, <2>2, <2>5, <2>6 DEF ReadInner, e
<1>21. CASE PayFreelancer(w)
  <2>1. /\ task[w].pc = "payFreelancer"
        /\ task[w].amount \in Amounts /\ task[w].part <= task[w].amount
        /\ Payment(w) \in Amounts
    BY <1>0, <1>21, PaymentIsAmount DEF PayFreelancer, TaskOK, HoldsAmount
  <2>2. /\ escrow' = escrow
        /\ rows' = [rows EXCEPT ![e].released = @ + Payment(w)]
           \/ rows' = rows
        /\ Done(w) \/ Go(w, "saveRelease")
    BY <1>21 DEF PayFreelancer, e
  <2>3. TasksOK'
    BY <1>0, <2>1, <2>2, TaskDone, TaskGo DEF Points
  <2>4. "idle" \in Points  BY DEF Points
  <2> QED  BY <1>7, <2>1, <2>2, <2>3, <2>4 DEF RequestsOK
<1>22. ASSUME NEW amount \in Amounts, task[w].pc \in {"payClient", "payRest"},
              NEW next \in {"saveRefund", "recordResolution"},
              next = "recordResolution" => task[w].op \in Resolutions,
              RefundClient(w, amount, next)
       PROVE  RequestsOK'
  <2>1. /\ escrow' = escrow
        /\ rows' = [rows EXCEPT ![e].refunded = @ + amount] \/ rows' = rows
        /\ Done(w) \/ Go(w, next)
    BY <1>22 DEF RefundClient, e
  <2>2. TasksOK'
    BY <1>0, <1>22, <2>1, TaskDone, TaskGo DEF Points, HoldsAmount
  <2>3. "idle" \in Points  BY DEF Points
  <2> QED  BY <1>7, <1>22, <2>1, <2>2, <2>3 DEF RequestsOK
<1>23. CASE PayClient(w)
  <2>1. task[w].amount \in Amounts
    BY <1>0, <1>23 DEF PayClient, TaskOK, HoldsAmount
  <2> QED  BY <1>22, <1>23, <2>1 DEF PayClient
<1>24. CASE PayRest(w)
  <2>1. task[w].rest \in Amounts /\ task[w].op \in Resolutions
    BY <1>0, <1>24 DEF PayRest, TaskOK
  <2> QED  BY <1>22, <1>24, <2>1 DEF PayRest
<1>25. CASE SaveRelease(w)
  <2>1. /\ task[w].pc = "saveRelease" /\ rows' = rows
        /\ task[w].amount \in Amounts /\ task[w].amount \in Nat
        /\ task[w].part \in Nat
    BY <1>0, <1>25, AmountsAssumption
       DEF SaveRelease, TaskOK, TaskRecord, HoldsAmount
  <2>2. CASE Done(w) /\ escrow' = escrow
    BY <1>0, <1>4, <2>1, <2>2, TaskDone DEF RequestsOK
  <2>3. CASE /\ Exists(e) /\ Return(w)
             /\ \/ escrow' = [escrow EXCEPT ![e].status = "RELEASED"]
                \/ /\ IsPartial(w)
                   /\ escrow' = [escrow EXCEPT
                                   ![e].amount = task[w].amount - task[w].part]
    <3>1. /\ e \in Escrows /\ escrow[e] \in EscrowRecord
          /\ escrow[e].status # "none"
      BY <1>1, <2>1, <2>3 DEF Exists, StoredStatuses
    <3>2. TasksOK'  BY <1>8, <2>1, <2>3
    <3>3. CASE escrow' = [escrow EXCEPT ![e].status = "RELEASED"]
      <4>1. EscrowsOK'  BY <1>0, <1>2, <1>3, <3>1, <3>3, StatusUpdate
      <4> QED  BY <1>0, <2>1, <3>2, <4>1 DEF RequestsOK, RowsOK
    <3>4. CASE /\ IsPartial(w)
               /\ escrow' = [escrow EXCEPT
                               ![e].amount = task[w].amount - task[w].part]
      <4> DEFINE remaining == task[w].amount - task[w].part
                 d == [escrow[e] EXCEPT !.amount = remaining]
      <4>1. remaining \in 1..task[w].amount
        BY <2>1, <3>4 DEF IsPartial
      <4>2. remaining \in Amounts /\ remaining \in Nat
        BY <2>1, <4>1, AmountsAssumption
      <4> HIDE DEF remaining
      <4>3. d \in EscrowRecord /\ d.amount \in Amounts
        BY <3>1, <4>2 DEF EscrowRecord
      <4>4. escrow' = [escrow EXCEPT ![e] = d]
        BY <3>4 DEF remaining
      <4> HIDE DEF d
      <4>5. EscrowsOK'  BY <1>0, <3>1, <4>3, <4>4, EscrowUpdate
      <4> QED  BY <1>0, <2>1, <3>2, <4>5 DEF RequestsOK, RowsOK
    <3> QED  BY <2>3, <3>3, <3>4
  <2> QED  BY <1>25, <2>2, <2>3 DEF SaveRelease, e
<1>26. CASE SaveRefund(w)
  <2>1. CASE SaveFails(w)  BY <1>5, <2>1
  <2>2. CASE Exists(e) /\ Return(w) /\ rows' = rows
             /\ escrow' = [escrow EXCEPT ![e].status = "REFUNDED"]
    <3>1. escrow[e].status # "none" /\ e \in Escrows
      BY <1>1, <1>26, <2>2 DEF SaveRefund, Exists, StoredStatuses
    <3>2. EscrowsOK'  BY <1>0, <1>2, <1>3, <2>2, <3>1, StatusUpdate
    <3>3. TasksOK'    BY <1>8, <1>26, <2>2 DEF SaveRefund
    <3> QED  BY <1>0, <2>2, <3>2, <3>3 DEF RequestsOK, RowsOK
  <2> QED  BY <1>26, <2>1, <2>2 DEF SaveRefund, e
<1>27. CASE RecordResolution(w)
  <2>1. CASE SaveFails(w)  BY <1>5, <2>1
  <2>2. CASE Exists(e) /\ Done(w) /\ rows' = rows
             /\ escrow' = [escrow EXCEPT ![e].resolution = task[w].op]
    <3>1. /\ e \in Escrows /\ escrow[e] \in EscrowRecord
          /\ escrow[e].amount \in Amounts
          /\ task[w].op \in Resolutions
      BY <1>0, <1>1, <1>27, <2>2
         DEF RecordResolution, Exists, StoredStatuses, TaskOK
    <3> DEFINE d == [escrow[e] EXCEPT !.resolution = task[w].op]
    <3>2. d \in EscrowRecord /\ d.amount \in Amounts
      BY <3>1 DEF EscrowRecord, DisputeResolutions
    <3>3. escrow' = [escrow EXCEPT ![e] = d]
      BY <2>2
    <3> HIDE DEF d
    <3>4. EscrowsOK'  BY <1>0, <3>1, <3>2, <3>3, EscrowUpdate
    <3>5. TasksOK'    BY <1>0, <2>2, TaskDone
    <3> QED  BY <1>0, <2>2, <3>4, <3>5 DEF RequestsOK, RowsOK
  <2> QED  BY <1>27, <2>1, <2>2 DEF RecordResolution, e
<1> QED
  BY <1>9, <1>10, <1>12, <1>13, <1>14, <1>15, <1>16, <1>17, <1>18, <1>19,
     <1>20, <1>21, <1>23, <1>24, <1>25, <1>26, <1>27 DEF Continue
-----------------------------------------------------------------------------
(* The inductive invariant: types, the reconciled wallets (which the       *)
(* wallets' types need), and the claims on escrows.                        *)
IInv == TypeOK /\ WalletBalanced /\ FundingInv

LEMMA InitIInv == Init => IInv
<1> SUFFICES ASSUME Init PROVE IInv
  OBVIOUS
<1>1. TypeOK  BY InitTypeOK
<1>2. WalletBalanced  BY WalletInvInit DEF Init, WalletInv
<1>3. \A e \in Escrows : rows[e].funded = 0
  BY DEF Init, NoRows
<1>4. \A w \in Workers : ~Claiming(w)
  BY DEF Init, Idle, Claiming
<1>5. FundingInv
  BY <1>3, <1>4 DEF FundingInv, UnfundedHoldsNothing
<1> QED  BY <1>1, <1>2, <1>5 DEF IInv

LEMMA TypeStep == IInv /\ [Next]_vars => TypeOK' /\ WalletBalanced'
<1> SUFFICES ASSUME IInv, [Next]_vars
             PROVE  TypeOK' /\ WalletBalanced'
  OBVIOUS
<1>1. WalletTypeOK' /\ WalletBalanced'
  BY WalletStep, WalletInvStep DEF IInv, TypeOK, WalletInv
<1>2. RequestsOK'
  <2>1. ASSUME NEW w \in Workers, NEW e \in Escrows, Start(w, e)
        PROVE  RequestsOK'
    BY <2>1, StartKeepsTypes DEF IInv
  <2>2. ASSUME NEW w \in Workers, Continue(w) PROVE RequestsOK'
    BY <2>2, ContinueKeepsTypes DEF IInv
  <2>3. EscrowsOK /\ RowsOK /\ TasksOK
    BY DEF IInv, TypeOK
  <2>4. ASSUME NEW u \in Users, NEW a \in DepositAmounts, ClientDeposit(u, a)
        PROVE  RequestsOK'
    BY <2>3, <2>4 DEF ClientDeposit, RequestsOK, EscrowsOK, RowsOK, TasksOK
  <2>5. ASSUME NEW e \in Escrows, ExpiryPasses(e) \/ TTLDelete(e)
        PROVE  RequestsOK'
    <3>1. /\ UNCHANGED <<rows, task>>
          /\ escrow[e].status # "none"
          /\ \/ escrow' = [escrow EXCEPT ![e].expiry = "past"]
             \/ escrow' = [escrow EXCEPT ![e].status = "DELETED"]
      BY <2>5 DEF ExpiryPasses, TTLDelete, Exists, StoredStatuses
    <3>2. "DELETED" \in Statuses /\ "past" \in Expiries
      BY DEF Statuses, Expiries
    <3>3. EscrowsOK'  BY <2>3, <3>1, <3>2, StatusUpdate
    <3> QED  BY <2>3, <3>1, <3>3 DEF RequestsOK, RowsOK, TasksOK
  <2>6. ASSUME NEW w \in Workers, Crash(w) PROVE RequestsOK'
    BY <2>3, <2>6, TaskDone DEF Crash, RequestsOK, EscrowsOK, RowsOK
  <2>7. CASE UNCHANGED vars
    BY <2>3, <2>7 DEF vars, RequestsOK, EscrowsOK, RowsOK, TasksOK
  <2>8. CASE \E w \in Workers : (\E e \in Escrows : Start(w, e)) \/ Continue(w)
    BY <2>1, <2>2, <2>8
  <2>9. CASE Environment
    BY <2>4, <2>5, <2>6, <2>9 DEF Environment
  <2> QED  BY <2>7, <2>8, <2>9 DEF Next
<1> QED  BY <1>1, <1>2 DEF TypeOK, RequestsOK

LEMMA IInvStep == IInv /\ [Next]_vars => IInv'
BY TypeStep, FundingStep DEF IInv

LEMMA IInvHolds == Spec => []IInv
BY InitIInv, IInvStep, PTL DEF Spec
-----------------------------------------------------------------------------
(* Types are kept, and no request ever moves an amount that is not one:    *)
(* whatever the interleaving, no balance becomes negative.                 *)
THEOREM EscrowTypeSafe == Spec => []TypeOK
<1>1. IInv => TypeOK  BY DEF IInv
<1> QED  BY <1>1, IInvHolds, PTL

(* The escrow requests implement the wallets' specification: they move     *)
(* money by the wallet service's movements only.                           *)
THEOREM EscrowImplementsWallet == Spec => WalletSpec
<1>1. Init => WalletInit  BY DEF Init
<1>2. IInv /\ [Next]_vars => [WalletNext]_walletVars
  BY WalletStep DEF IInv
<1> QED  BY <1>1, <1>2, IInvHolds, PTL DEF Spec, WalletSpec

(* Every wallet reconciles, whatever the requests do.                      *)
THEOREM EscrowReconciles == Spec => []WalletBalanced
<1>1. IInv => WalletBalanced  BY DEF IInv
<1> QED  BY <1>1, IInvHolds, PTL

(* The claim on an escrow is exclusive and comes before its money.         *)
THEOREM ClaimsAreExclusive == Spec => []FundingInv
<1>1. IInv => FundingInv  BY DEF IInv
<1> QED  BY <1>1, IInvHolds, PTL

(* An escrow that is not funded holds no money.                            *)
THEOREM UnfundedSafe == Spec => []UnfundedHoldsNothing
<1>1. IInv => UnfundedHoldsNothing  BY DEF IInv, FundingInv
<1> QED  BY <1>1, IInvHolds, PTL

(* Only a transfer adds to what an escrow was funded with, and the request *)
(* that transfers holds the claim on an escrow that has taken nothing.     *)
LEMMA FundedOnceStep ==
  ASSUME IInv, [Next]_vars, NEW d \in Escrows, rows'[d].funded # rows[d].funded
  PROVE  rows[d].funded = 0
<1>1. ASSUME rows' = rows PROVE FALSE
  BY <1>1
<1>2. ASSUME NEW w \in Workers, Claiming(w),
             NEW next \in {"markFunded", "saveFunded"}, Transfer(w, next)
      PROVE  rows[d].funded = 0
  <2>1. d = task[w].escrow
    BY <1>2 DEF Transfer, IInv, TypeOK, RowsOK, RowsRecord
  <2> QED  BY <1>2, <2>1 DEF IInv, FundingInv
<1>3. ASSUME NEW w \in Workers, NEW e \in Escrows, Start(w, e)
      PROVE  rows' = rows
  <2>1. CASE \E a \in EscrowAmounts : CreateCheck(w, e, a) \/ Hire(w, e, a)
    BY <2>1 DEF CreateCheck, Hire
  <2>2. CASE FundClaim(w, e) \/ MarkRead(w, e) \/ Release(w, e)
             \/ Refund(w, e) \/ Freeze(w, e)
    BY <2>2 DEF FundClaim, MarkRead, Release, Refund, Freeze
  <2>3. CASE \E part \in PartialAmounts \cup {0} : AdminRelease(w, e, part)
    BY <2>3 DEF AdminRelease
  <2>4. CASE \E r \in Resolutions, p \in Percentages :
               ResolveDispute(w, e, r, p)
    BY <2>4 DEF ResolveDispute
  <2> QED  BY <1>3, <2>1, <2>2, <2>3, <2>4 DEF Start
<1>4. ASSUME NEW w \in Workers, Continue(w)
      PROVE  rows[d].funded = 0
  <2>1. CASE HireLockFunds(w)
    BY <1>2, <2>1 DEF HireLockFunds, At, Claiming
  <2>2. CASE FundTransfer(w)
    BY <1>2, <2>2 DEF FundTransfer, At, Claiming
  <2>3. CASE PayFreelancer(w) \/ PayClient(w) \/ PayRest(w)
    <3>1. rows'[d].funded = rows[d].funded
      BY <2>3 DEF PayFreelancer, PayClient, PayRest, RefundClient, IInv,
                  TypeOK, RowsOK, RowsRecord
    <3> QED  BY <3>1
  <2>4. CASE CreateInsert(w) \/ HireCheckBalance(w) \/ ReadInner(w)
             \/ MarkLocked(w) \/ SaveRelease(w)
    BY <1>1, <2>4 DEF CreateInsert, HireCheckBalance, ReadInner, MarkLocked,
                      SaveRelease
  <2>5. CASE HireMarkFunded(w) \/ FundSaveExpired(w) \/ FundSaveFunded(w)
             \/ FundSaveLocked(w)
    BY <1>1, <2>5 DEF HireMarkFunded, FundSaveExpired, FundSaveFunded,
                      FundSaveLocked, SaveFails
  <2>6. CASE SaveFrozen(w) \/ SaveRefund(w) \/ RecordResolution(w)
    BY <1>1, <2>6 DEF SaveFrozen, SaveRefund, RecordResolution, SaveFails
  <2> QED  BY <1>4, <2>1, <2>2, <2>3, <2>4, <2>5, <2>6 DEF Continue
<1>5. CASE Environment
  BY <1>1, <1>5 DEF Environment, ClientDeposit, ExpiryPasses, TTLDelete, Crash
<1>6. CASE UNCHANGED vars
  BY <1>1, <1>6 DEF vars
<1>7. CASE \E w \in Workers : (\E e \in Escrows : Start(w, e)) \/ Continue(w)
  BY <1>1, <1>3, <1>4, <1>7
<1> QED  BY <1>5, <1>6, <1>7 DEF Next

(* However many callbacks, cron runs and client requests fund an escrow at *)
(* the same time, its amount is transferred once.                          *)
THEOREM FundedOnce == Spec => FundedAtMostOnce
<1>1. IInv /\ [Next]_vars =>
        [\A e \in Escrows :
           rows'[e].funded # rows[e].funded => rows[e].funded = 0]_vars
  BY FundedOnceStep
<1> QED  BY <1>1, IInvHolds, PTL DEF Spec, FundedAtMostOnce
-----------------------------------------------------------------------------
(* The locked balances.  A payment moves one escrow's rows and its         *)
(* client's locked balance by the same amount; every other step moves      *)
(* neither.                                                                *)
Locks(w, a) ==
  \/ LockFunds(Client(w), a)
       /\ rows' = [rows EXCEPT ![task[w].escrow].funded = @ + a]
  \/ UnlockFunds(Client(w), a)
       /\ rows' = [rows EXCEPT ![task[w].escrow].refunded = @ + a]
  \/ ReleaseFromEscrow(Client(w), Freelancer(w), a)
       /\ rows' = [rows EXCEPT ![task[w].escrow].released = @ + a]

LEMMA StepLocks ==
  ASSUME TypeOK, [Next]_vars
  PROVE  \/ UNCHANGED rows /\ \A u \in Users : wallet'[u].locked = wallet[u].locked
         \/ \E w \in Workers, a \in Amounts :
              task[w].escrow \in Escrows /\ Locks(w, a)
<1> DEFINE Quiet == UNCHANGED rows
                      /\ \A u \in Users : wallet'[u].locked = wallet[u].locked
           Moves == \E w \in Workers, a \in Amounts :
                      task[w].escrow \in Escrows /\ Locks(w, a)
<1>1. UNCHANGED <<wallet, rows>> => Quiet  OBVIOUS
<1>2. ASSUME NEW w \in Workers, NEW e \in Escrows, Start(w, e)
      PROVE  UNCHANGED <<wallet, rows>>
  BY <1>2 DEF Start, CreateCheck, Hire, FundClaim, MarkRead, Release, Refund,
              Freeze, AdminRelease, ResolveDispute, walletVars
<1>3. ASSUME NEW w \in Workers,
             \/ CreateInsert(w) \/ HireCheckBalance(w) \/ HireMarkFunded(w)
             \/ FundSaveExpired(w) \/ FundSaveFunded(w) \/ FundSaveLocked(w)
             \/ MarkLocked(w) \/ SaveFrozen(w) \/ ReadInner(w)
             \/ SaveRelease(w) \/ SaveRefund(w) \/ RecordResolution(w)
      PROVE  UNCHANGED <<wallet, rows>>
  BY <1>3 DEF CreateInsert, HireCheckBalance, HireMarkFunded, FundSaveExpired,
              FundSaveFunded, FundSaveLocked, MarkLocked, SaveFrozen, ReadInner,
              SaveRelease, SaveRefund, RecordResolution, SaveFails, walletVars
<1>4. ASSUME NEW w \in Workers, HireLockFunds(w) \/ FundTransfer(w)
      PROVE  UNCHANGED <<wallet, rows>> \/ Moves
  <2>1. task[w].pc \in {"lockFunds", "transfer"}
          /\ \E next : Transfer(w, next)
    BY <1>4 DEF HireLockFunds, FundTransfer, At
  <2>2. task[w].amount \in Amounts /\ task[w].escrow \in Escrows
    BY <2>1 DEF TypeOK, TasksOK, TaskOK, HoldsAmount
  <2>3. Locks(w, task[w].amount) \/ UNCHANGED <<wallet, rows>>
    BY <2>1 DEF Transfer, Locks, walletVars
  <2> QED  BY <2>2, <2>3
<1>5. ASSUME NEW w \in Workers, PayFreelancer(w)
      PROVE  UNCHANGED <<wallet, rows>> \/ Moves
  <2>1. Payment(w) \in Amounts  BY <1>5, PaymentIsAmount DEF PayFreelancer
  <2>2. task[w].escrow \in Escrows
    BY <1>5 DEF PayFreelancer, At, TypeOK, TasksOK, TaskOK
  <2>3. Locks(w, Payment(w)) \/ UNCHANGED <<wallet, rows>>
    BY <1>5 DEF PayFreelancer, Locks, walletVars
  <2> QED  BY <2>1, <2>2, <2>3
<1>6. ASSUME NEW w \in Workers, PayClient(w) \/ PayRest(w)
      PROVE  UNCHANGED <<wallet, rows>> \/ Moves
  <2>1. PICK a \in Amounts, next \in Points :
          RefundClient(w, a, next) /\ task[w].escrow \in Escrows
    BY <1>6 DEF PayClient, PayRest, At, TypeOK, TasksOK, TaskOK, HoldsAmount,
       Points
  <2>2. Locks(w, a) \/ UNCHANGED <<wallet, rows>>
    BY <2>1 DEF RefundClient, Locks, walletVars
  <2> QED  BY <2>1, <2>2
<1>7. ASSUME NEW u \in Users, NEW a \in DepositAmounts, ClientDeposit(u, a)
      PROVE  Quiet
  BY <1>7 DEF ClientDeposit, Deposit, TypeOK, WalletTypeOK, WalletRecord
<1>8. ASSUME NEW e \in Escrows, ExpiryPasses(e) \/ TTLDelete(e)
      PROVE  UNCHANGED <<wallet, rows>>
  BY <1>8 DEF ExpiryPasses, TTLDelete, walletVars
<1>9. ASSUME NEW w \in Workers, Crash(w) PROVE UNCHANGED <<wallet, rows>>
  BY <1>9 DEF Crash, walletVars
<1>10. UNCHANGED vars => UNCHANGED <<wallet, rows>>  BY DEF vars
<1>11. ASSUME NEW w \in Workers, Continue(w)
       PROVE  UNCHANGED <<wallet, rows>> \/ Moves
  BY <1>3, <1>4, <1>5, <1>6, <1>11 DEF Continue
<1>12. CASE Environment
  BY <1>1, <1>7, <1>8, <1>9, <1>12 DEF Environment
<1> QED  BY <1>1, <1>2, <1>10, <1>11, <1>12 DEF Next

\* What Locks does, and to whom.
LEMMA LocksBoth ==
  ASSUME TypeOK, NEW w \in Workers, NEW a \in Amounts,
         task[w].escrow \in Escrows, Locks(w, a)
  PROVE  /\ Client(w) \in Users
         /\ \A e \in Escrows \ {task[w].escrow} : RowsHold'[e] = RowsHold[e]
         /\ \A u \in Users \ {Client(w)} : wallet'[u].locked = wallet[u].locked
         /\ wallet'[Client(w)].locked
              = wallet[Client(w)].locked + RowsHold'[task[w].escrow]
                  - RowsHold[task[w].escrow]
<1> DEFINE e == task[w].escrow
           c == Client(w)
<1>1. /\ a \in Nat
      /\ c \in Users /\ Freelancer(w) \in Users
      /\ rows \in [Escrows -> RowsRecord]
      /\ wallet \in [Users -> WalletRecord]
  BY AmountsAssumption, EscrowAssumption
     DEF Client, Freelancer, TypeOK, RowsOK, WalletTypeOK
<1>2. /\ rows[e].funded \in Nat /\ rows[e].released \in Nat
      /\ rows[e].refunded \in Nat /\ wallet[c].locked \in Nat
  BY <1>1 DEF RowsRecord, WalletRecord
<1>3. /\ RowsHold[e] = rows[e].funded - rows[e].released - rows[e].refunded
      /\ RowsHold'[e] = rows'[e].funded - rows'[e].released - rows'[e].refunded
  BY DEF RowsHold
<1>4. \A d \in Escrows \ {e} : rows'[d] = rows[d]
  BY <1>1 DEF Locks
<1>5. \A d \in Escrows \ {e} : RowsHold'[d] = RowsHold[d]
  BY <1>4 DEF RowsHold
<1>6. CASE /\ LockFunds(c, a) /\ rows' = [rows EXCEPT ![e].funded = @ + a]
  <2>1. /\ rows'[e].funded = rows[e].funded + a
        /\ rows'[e].released = rows[e].released
        /\ rows'[e].refunded = rows[e].refunded
    BY <1>1, <1>6 DEF RowsRecord
  <2>2. /\ wallet'[c].locked = wallet[c].locked + a
        /\ \A u \in Users \ {c} : wallet'[u].locked = wallet[u].locked
    BY <1>1, <1>6 DEF LockFunds, WalletRecord
  <2> HIDE DEF e, c
  <2>3. wallet'[c].locked = wallet[c].locked + RowsHold'[e] - RowsHold[e]
    BY <1>1, <1>2, <1>3, <2>1, <2>2
  <2> QED  BY <1>1, <1>5, <2>2, <2>3 DEF e, c
<1>7. CASE /\ UnlockFunds(c, a) /\ rows' = [rows EXCEPT ![e].refunded = @ + a]
  <2>1. /\ rows'[e].funded = rows[e].funded
        /\ rows'[e].released = rows[e].released
        /\ rows'[e].refunded = rows[e].refunded + a
    BY <1>1, <1>7 DEF RowsRecord
  <2>2. /\ wallet'[c].locked = wallet[c].locked - a
        /\ \A u \in Users \ {c} : wallet'[u].locked = wallet[u].locked
    BY <1>1, <1>7 DEF UnlockFunds, WalletRecord
  <2> HIDE DEF e, c
  <2>3. wallet'[c].locked = wallet[c].locked + RowsHold'[e] - RowsHold[e]
    BY <1>1, <1>2, <1>3, <2>1, <2>2
  <2> QED  BY <1>1, <1>5, <2>2, <2>3 DEF e, c
<1>8. CASE /\ ReleaseFromEscrow(c, Freelancer(w), a)
           /\ rows' = [rows EXCEPT ![e].released = @ + a]
  <2>1. /\ rows'[e].funded = rows[e].funded
        /\ rows'[e].released = rows[e].released + a
        /\ rows'[e].refunded = rows[e].refunded
    BY <1>1, <1>8 DEF RowsRecord
  <2>2. /\ wallet'[c].locked = wallet[c].locked - a
        /\ \A u \in Users \ {c} : wallet'[u].locked = wallet[u].locked
    BY <1>1, <1>8 DEF ReleaseFromEscrow, WalletRecord
  <2> HIDE DEF e, c
  <2>3. wallet'[c].locked = wallet[c].locked + RowsHold'[e] - RowsHold[e]
    BY <1>1, <1>2, <1>3, <2>1, <2>2
  <2> QED  BY <1>1, <1>5, <2>2, <2>3 DEF e, c
<1> QED  BY <1>6, <1>7, <1>8 DEF Locks

LEMMA SumOverEscrows ==
  \A S \in SUBSET Escrows :
    /\ \A f, g :
         (\A e \in S : g[e] = f[e])
           => SumFunctionOnSet(g, S) = SumFunctionOnSet(f, S)
    /\ \A f, g : \A c \in S :
         /\ \A e \in S : f[e] \in Int /\ g[e] \in Int
         /\ \A e \in S \ {c} : g[e] = f[e]
         => SumFunctionOnSet(g, S) = SumFunctionOnSet(f, S) + g[c] - f[c]
<1> SUFFICES ASSUME NEW S \in SUBSET Escrows
             PROVE  /\ \A f, g :
                         (\A e \in S : g[e] = f[e])
                           => SumFunctionOnSet(g, S) = SumFunctionOnSet(f, S)
                    /\ \A f, g : \A c \in S :
                         /\ \A e \in S : f[e] \in Int /\ g[e] \in Int
                         /\ \A e \in S \ {c} : g[e] = f[e]
                         => SumFunctionOnSet(g, S)
                              = SumFunctionOnSet(f, S) + g[c] - f[c]
  OBVIOUS
<1>1. IsFiniteSet(S)  BY EscrowAssumption, FS_Subset
<1> QED  BY <1>1, SumChange, SumSame

LEMMA LockedStep ==
  TypeOK /\ TypeOK' /\ LockedBalanceExplained /\ [Next]_vars
    => LockedBalanceExplained'
<1> SUFFICES ASSUME TypeOK, TypeOK', LockedBalanceExplained, [Next]_vars,
                    NEW u \in Users
             PROVE  wallet'[u].locked = SumFunctionOnSet(RowsHold', EscrowsOf(u))
  BY DEF LockedBalanceExplained, EscrowsOf
<1> DEFINE S == EscrowsOf(u)
<1>1. S \in SUBSET Escrows  BY DEF EscrowsOf
<1>2. wallet[u].locked = SumFunctionOnSet(RowsHold, S)
  BY DEF LockedBalanceExplained
<1>3. \A e \in S : RowsHold[e] \in Int /\ RowsHold'[e] \in Int
  BY <1>1 DEF TypeOK, RowsOK, RowsRecord, RowsHold
<1> HIDE DEF S
<1>4. CASE UNCHANGED rows /\ wallet'[u].locked = wallet[u].locked
  <2>1. RowsHold' = RowsHold  BY <1>4 DEF RowsHold
  <2> QED  BY <1>2, <1>4, <2>1 DEF S
<1>5. ASSUME NEW w \in Workers, NEW a \in Amounts,
             task[w].escrow \in Escrows, Locks(w, a)
      PROVE  wallet'[u].locked = SumFunctionOnSet(RowsHold', S)
  <2> DEFINE e == task[w].escrow
  <2>1. /\ \A d \in Escrows \ {e} : RowsHold'[d] = RowsHold[d]
        /\ u # Client(w) => wallet'[u].locked = wallet[u].locked
        /\ u = Client(w) => wallet'[u].locked
                              = wallet[u].locked + RowsHold'[e] - RowsHold[e]
    BY <1>5, LocksBoth
  <2>2. e \in S <=> u = Client(w)  BY <1>5 DEF S, EscrowsOf, Client
  <2>3. CASE u = Client(w)
    <3>1. \A d \in S \ {e} : RowsHold'[d] = RowsHold[d]  BY <1>1, <2>1
    <3>2. SumFunctionOnSet(RowsHold', S)
            = SumFunctionOnSet(RowsHold, S) + RowsHold'[e] - RowsHold[e]
      <4> HIDE DEF e
      <4> QED  BY <1>1, <1>3, <2>2, <2>3, <3>1, SumOverEscrows, Zenon
    <3> QED  BY <1>2, <2>1, <2>3, <3>2
  <2>4. CASE u # Client(w)
    <3>1. \A d \in S : RowsHold'[d] = RowsHold[d]
      BY <1>1, <2>1, <2>2, <2>4
    <3>2. SumFunctionOnSet(RowsHold', S) = SumFunctionOnSet(RowsHold, S)
      BY <1>1, <3>1, SumOverEscrows, Zenon
    <3> QED  BY <1>2, <2>1, <2>4, <3>2
  <2> QED  BY <2>3, <2>4
<1> QED  BY <1>4, <1>5, StepLocks DEF S

LEMMA LockedInit == Init => LockedBalanceExplained
<1> SUFFICES ASSUME Init, NEW u \in Users
             PROVE  wallet[u].locked = SumFunctionOnSet(RowsHold, EscrowsOf(u))
  BY DEF LockedBalanceExplained
<1>1. \A e \in EscrowsOf(u) : RowsHold[e] = 0
  BY DEF Init, NoRows, RowsHold, EscrowsOf
<1>2. IsFiniteSet(EscrowsOf(u))
  BY EscrowAssumption, FS_Subset DEF EscrowsOf
<1>3. SumFunctionOnSet(RowsHold, EscrowsOf(u)) = 0
  BY <1>1, <1>2, SumZero
<1> QED  BY <1>3 DEF Init, WalletInit, EmptyWallet

(* However the requests interleave, a client's locked balance is what the  *)
(* rows of the client's escrows say is held: no payment is recorded that   *)
(* did not move money, and none moves money unrecorded.                    *)
THEOREM LockedIsExplained == Spec => []LockedBalanceExplained
<1>1. IInv /\ IInv' => TypeOK /\ TypeOK'  BY DEF IInv
<1> QED  BY <1>1, LockedInit, LockedStep, IInvHolds, PTL DEF Spec
-----------------------------------------------------------------------------
(* Requests that do not overlap: one worker, the requests of clients, and  *)
(* no request that is cut short.  A request that has paid an escrow is     *)
(* about to close it, and until it has paid nothing was paid before.       *)
ClientRequests ==
  {"create", "hire", "fund", "mark", "release", "refund", "freeze", "expire"}
Sequential(w) == Workers = {w} /\ Operations \subseteq ClientRequests

PaidFrom(e) == rows[e].released + rows[e].refunded
Settled == {"RELEASED", "REFUNDED", "DELETED"}
Saving(w) == task[w].pc \in {"saveRelease", "saveRefund"}

\* The stored statuses a worker may find the escrow in that it holds.
ExpectedStatuses(t) ==
  CASE t.pc \in {"checkBalance", "lockFunds", "markFunded"} -> {"CREATED", "DELETED"}
    [] t.pc \in {"transfer", "saveExpired", "saveFunded", "saveLocked"}
         -> {"FUNDED", "DELETED"}
    [] t.pc = "mark" -> {"CREATED", "EXPIRED", "DELETED"}
    [] t.pc \in {"payFreelancer", "saveRelease", "saveFrozen"}
         -> {"FUNDED", "LOCKED", "DELETED"}
    [] t.pc \in {"payClient", "saveRefund"}
         -> {"FUNDED", "LOCKED", "DISPUTED", "DELETED"}
    [] OTHER -> Statuses

WorkerInv(w) ==
  LET t == task[w]
      e == t.escrow
  IN  /\ t.pc \notin {"readInner", "payRest", "recordResolution"}
      /\ t.pc \notin {"idle", "insert"} => escrow[e].status \in ExpectedStatuses(t)
      /\ t.pc \in {"payFreelancer", "payClient"} =>
           t.amount = escrow[e].amount /\ PaidFrom(e) = 0
      /\ t.pc \in {"payFreelancer", "saveRelease"} =>
           t.op = "release" /\ t.part = 0 /\ canReleaseEscrow(t.status)
      /\ t.pc \in {"payClient", "saveRefund"} => t.op = "refund"

PaidInv(w) ==
  \A e \in Escrows :
    /\ PaidFrom(e) <= escrow[e].amount
    /\ escrow[e].status \notin Settled /\ ~(Saving(w) /\ task[w].escrow = e)
         => PaidFrom(e) = 0

SequentialInv(w) == WorkerInv(w) /\ PaidInv(w)

LEMMA SequentialInit ==
  ASSUME NEW w0, Sequential(w0), Init
  PROVE  SequentialInv(w0)
BY DEF Sequential, Init, SequentialInv, WorkerInv, PaidInv, PaidFrom, Saving, Idle,
       NoRows, NoDocument

\* What the steps of such requests keep, besides the invariant.
SettledStays ==
  \A e \in Escrows : escrow[e].status \in {"RELEASED", "REFUNDED"} =>
    escrow'[e].status \in {escrow[e].status, "DELETED"}
FrozenStays ==
  \A e \in Escrows :
    escrow[e].status = "DISPUTED" => rows'[e].released = rows[e].released

Kept(w) == SequentialInv(w)' /\ SettledStays /\ FrozenStays

\* No payment is recorded.
UnpaidRows ==
  \A e \in Escrows : /\ rows'[e].released = rows[e].released
                     /\ rows'[e].refunded = rows[e].refunded

LEMMA SameRowsUnpaid == UNCHANGED rows => UnpaidRows
BY DEF UnpaidRows

\* A step that pays nobody and leaves every document as it is, but for the
\* one the request holds or, when it is not settled, begins with.
LEMMA UnpaidFrame ==
  ASSUME NEW w, PaidInv(w), NEW d \in Escrows, UnpaidRows,
         Saving(w) => task[w].escrow = d,
         ~Saving(w) \/ ~Saving(w)',
         \A e \in Escrows \ {d} : escrow'[e] = escrow[e],
         escrow'[d].amount = escrow[d].amount
           \/ (escrow[d].status = "none" /\ ~Saving(w)),
         escrow'[d].amount >= 0,
         escrow[d].status \in {"RELEASED", "REFUNDED"} =>
           escrow'[d].status \in {escrow[d].status, "DELETED"},
         escrow[d].status = "DELETED" => escrow'[d].status = "DELETED",
         Saving(w) => escrow'[d].status \in Settled
  PROVE  PaidInv(w)' /\ SettledStays /\ FrozenStays
BY DEF PaidInv, PaidFrom, UnpaidRows, Saving, SettledStays, FrozenStays,
       Settled

\* Which operations the requests of clients are not.
LEMMA OnlyClients ==
  ASSUME NEW w0, Sequential(w0), NEW w \in Workers
  PROVE  /\ w = w0
         /\ ~May(w, "adminRelease") /\ ~May(w, "resolve")
         /\ "crash" \notin Operations
BY DEF Sequential, ClientRequests, May

LEMMA StartKeeps ==
  ASSUME NEW w0, Sequential(w0), TypeOK, SequentialInv(w0), NEW w \in Workers,
         NEW e \in Escrows, Start(w, e)
  PROVE  Kept(w0)
<1>1. w = w0 /\ At(w, "idle") /\ UNCHANGED rows
  BY OnlyClients DEF Start, CreateCheck, Hire, FundClaim, MarkRead, Release,
     Refund, Freeze, AdminRelease, ResolveDispute, May
<1> SUFFICES Kept(w)
  BY <1>1
<1>2. PaidFrom(e) = 0 \/ escrow[e].status \in Settled
  BY <1>1 DEF SequentialInv, PaidInv, Saving, At
<1>3. /\ task \in [Workers -> TaskRecord]
      /\ escrow \in [Escrows -> EscrowRecord]
      /\ ~Saving(w)
      /\ PaidInv(w)
      /\ escrow[e].amount >= 0
  BY <1>1 DEF TypeOK, EscrowsOK, TasksOK, EscrowRecord, Saving, At,
     SequentialInv
<1>4. CASE \E a \in EscrowAmounts : CreateCheck(w, e, a)
  <2>1. PICK a \in EscrowAmounts : CreateCheck(w, e, a)  BY <1>4
  <2>2. WorkerInv(w)' /\ ~Saving(w)' /\ UNCHANGED escrow
    BY <1>3, <2>1 DEF CreateCheck, WorkerInv, Idle, Saving
  <2> QED  BY <1>1, <1>3, <2>2, UnpaidFrame, SameRowsUnpaid
       DEF Kept, SequentialInv
<1>5. CASE \E a \in EscrowAmounts : Hire(w, e, a)
  <2>1. PICK a \in EscrowAmounts : Hire(w, e, a)  BY <1>5
  <2>2. WorkerInv(w)' /\ ~Saving(w)'
    BY <1>3, <2>1 DEF Hire, Insert, WorkerInv, ExpectedStatuses, Idle, Saving
  <2>3. /\ escrow[e].status = "none"
        /\ escrow' = [escrow EXCEPT ![e] = escrow'[e]]
        /\ escrow'[e].amount = a /\ escrow'[e].status = "CREATED"
    BY <1>3, <2>1 DEF Hire, Insert
  <2>4. a >= 0  BY EscrowAssumption, AmountsAssumption
  <2> QED
    BY <1>1, <1>3, <2>2, <2>3, <2>4, UnpaidFrame, SameRowsUnpaid
       DEF Kept, SequentialInv
<1>6. CASE FundClaim(w, e)
  <2>1. WorkerInv(w)' /\ ~Saving(w)'
    BY <1>3, <1>6 DEF FundClaim, WorkerInv, ExpectedStatuses, Idle, Saving
  <2>2. /\ escrow[e].status = "CREATED"
        /\ escrow' = [escrow EXCEPT ![e].status = "FUNDED"]
    BY <1>6 DEF FundClaim
  <2> QED  BY <1>1, <1>3, <2>1, <2>2, UnpaidFrame, SameRowsUnpaid
       DEF Kept, SequentialInv
<1>7. CASE MarkRead(w, e) \/ Release(w, e) \/ Refund(w, e) \/ Freeze(w, e)
  <2>1. WorkerInv(w)' /\ ~Saving(w)' /\ UNCHANGED escrow
    BY <1>2, <1>3, <1>7 DEF MarkRead, Release, Refund, Freeze, Begin, WorkerInv,
       ExpectedStatuses, Saving, canReleaseEscrow, canRefundEscrow,
       canFreezeEscrow, PaidFrom, Settled
  <2> QED  BY <1>1, <1>3, <2>1, UnpaidFrame, SameRowsUnpaid
       DEF Kept, SequentialInv
<1> QED
  BY <1>4, <1>5, <1>6, <1>7, OnlyClients DEF Start, AdminRelease, ResolveDispute

LEMMA EnvironmentKeeps ==
  ASSUME NEW w0, Sequential(w0), TypeOK, SequentialInv(w0), Environment
  PROVE  Kept(w0)
<1>1. /\ task \in [Workers -> TaskRecord]
      /\ escrow \in [Escrows -> EscrowRecord]
      /\ w0 \in Workers
      /\ TaskOK(task[w0])
  BY DEF TypeOK, EscrowsOK, TasksOK, Sequential
<1>2. CASE \E u \in Users, a \in DepositAmounts : ClientDeposit(u, a)
  BY <1>1, <1>2 DEF ClientDeposit, Kept, SequentialInv, WorkerInv, PaidInv,
     PaidFrom, Saving, ExpectedStatuses, SettledStays, FrozenStays
<1>3. ASSUME NEW e \in Escrows, ExpiryPasses(e) \/ TTLDelete(e)
      PROVE  Kept(w0)
  <2>1. /\ UNCHANGED <<rows, task>>
        /\ escrow[e].status \in StoredStatuses
        /\ escrow' = [escrow EXCEPT ![e] = escrow'[e]]
        /\ escrow'[e].amount = escrow[e].amount
        /\ escrow'[e].status \in {escrow[e].status, "DELETED"}
    BY <1>1, <1>3 DEF ExpiryPasses, TTLDelete, Exists, EscrowRecord
  <2>2. PaidInv(w0)'
    BY <1>1, <2>1 DEF SequentialInv, PaidInv, PaidFrom, Saving, Settled
  <2>3. SettledStays /\ FrozenStays
    BY <1>1, <2>1 DEF SettledStays, FrozenStays
  <2>4. WorkerInv(w0)'
    <3>1. \A s \in Statuses : s \in ExpectedStatuses(task[w0]) =>
            "DELETED" \in ExpectedStatuses(task[w0])
      BY DEF ExpectedStatuses, Statuses
    <3> QED
      BY <1>1, <2>1, <3>1 DEF SequentialInv, WorkerInv, TaskOK, PaidFrom,
         ExpectedStatuses
  <2> QED  BY <2>2, <2>3, <2>4 DEF Kept, SequentialInv
<1> QED  BY <1>2, <1>3, OnlyClients DEF Environment, Crash

\* The request is over.
LEMMA DoneKeepsWorker ==
  ASSUME NEW w \in Workers, task \in [Workers -> TaskRecord], Done(w)
  PROVE  WorkerInv(w)' /\ ~Saving(w)'
BY DEF Done, WorkerInv, Saving, Idle

\* A step that pays records it in one column of one escrow.
LEMMA PaidStep ==
  ASSUME NEW w \in Workers, TypeOK, PaidInv(w), ~Saving(w), NEW d \in Escrows,
         UNCHANGED escrow, Saving(w)', task'[w].escrow = d,
         PaidFrom(d) = 0, PaidFrom(d)' = escrow[d].amount,
         \A e \in Escrows \ {d} : rows'[e] = rows[e],
         rows'[d].released = rows[d].released \/ escrow[d].status # "DISPUTED"
  PROVE  PaidInv(w)' /\ SettledStays /\ FrozenStays
<1>1. escrow[d].amount \in Int
  BY DEF TypeOK, EscrowsOK, EscrowRecord
<1> QED
  BY <1>1 DEF PaidInv, PaidFrom, Saving, SettledStays, FrozenStays

LEMMA ContinueKeeps ==
  ASSUME NEW w \in Workers, TypeOK, SequentialInv(w), Continue(w)
  PROVE  Kept(w)
<1>0. PICK d : d = task[w].escrow
  OBVIOUS
<1>1. /\ task \in [Workers -> TaskRecord]
      /\ escrow \in [Escrows -> EscrowRecord]
      /\ rows \in [Escrows -> RowsRecord]
      /\ \A e \in Escrows : escrow[e].amount >= 0
      /\ WorkerInv(w)
      /\ PaidInv(w)
  BY DEF TypeOK, EscrowsOK, RowsOK, TasksOK, EscrowRecord, SequentialInv
<1>2. ~At(w, "idle") => d \in Escrows
  BY <1>0 DEF TypeOK, TasksOK, TaskOK, At
<1>3. CASE CreateInsert(w)
  <2>1. WorkerInv(w)' /\ ~Saving(w)' /\ ~Saving(w) /\ d \in Escrows
    BY <1>0, <1>1, <1>2, <1>3, DoneKeepsWorker DEF CreateInsert, Saving, At
  <2>2. ASSUME NEW e \in Unborn(MilestoneOf[d]), Insert(e, task[w].amount)
        PROVE  Kept(w)
    <3>1. /\ e \in Escrows /\ escrow[e].status = "none"
          /\ escrow' = [escrow EXCEPT ![e] = escrow'[e]]
          /\ escrow'[e].amount >= 0
      BY <1>0, <1>1, <1>3, <2>2 DEF Unborn, Insert, TaskRecord
    <3>2. UNCHANGED rows  BY <1>3 DEF CreateInsert
    <3> QED
      BY <1>0, <1>1, <2>1, <3>1, <3>2, UnpaidFrame, SameRowsUnpaid
       DEF Kept, SequentialInv
  <2>3. CASE UNCHANGED escrow
    <3>1. UNCHANGED rows  BY <1>3 DEF CreateInsert
    <3> QED
      BY <1>0, <1>1, <2>1, <2>3, <3>1, UnpaidFrame, SameRowsUnpaid
       DEF Kept, SequentialInv
  <2> QED  BY <1>0, <1>3, <2>2, <2>3 DEF CreateInsert
<1>4. CASE HireCheckBalance(w) \/ HireMarkFunded(w) \/ FundSaveExpired(w)
             \/ FundSaveFunded(w) \/ FundSaveLocked(w) \/ MarkLocked(w)
             \/ SaveFrozen(w)
  <2>1. d \in Escrows /\ ~Saving(w) /\ UNCHANGED rows
    BY <1>2, <1>4 DEF HireCheckBalance, HireMarkFunded, FundSaveExpired,
       FundSaveFunded, FundSaveLocked, MarkLocked, SaveFrozen, SaveFails, At,
       Saving
  <2>2. escrow[d].status \in ExpectedStatuses(task[w])
    BY <1>0, <1>1, <1>4 DEF HireCheckBalance, HireMarkFunded, FundSaveExpired,
       FundSaveFunded, FundSaveLocked, MarkLocked, SaveFrozen, At, WorkerInv
  <2>3. /\ \A e \in Escrows \ {d} : escrow'[e] = escrow[e]
        /\ escrow'[d].amount = escrow[d].amount
        /\ escrow[d].status \notin {"RELEASED", "REFUNDED"}
        /\ escrow[d].status = "DELETED" => escrow'[d].status = "DELETED"
    <3>1. escrow[d].status \notin {"RELEASED", "REFUNDED"}
      BY <1>0, <1>4, <2>2 DEF HireCheckBalance, HireMarkFunded, FundSaveExpired,
         FundSaveFunded, FundSaveLocked, MarkLocked, SaveFrozen, At, ExpectedStatuses
    <3>2. CASE HireCheckBalance(w)
      BY <1>0, <1>1, <2>1, <3>1, <3>2 DEF HireCheckBalance, EscrowRecord
    <3>3. CASE escrow' = escrow  BY <3>1, <3>3
    <3>4. CASE /\ HireMarkFunded(w) \/ FundSaveExpired(w) \/ FundSaveFunded(w)
                    \/ FundSaveLocked(w) \/ MarkLocked(w) \/ SaveFrozen(w)
               /\ escrow' # escrow
      <4>1. escrow[d].status # "DELETED"
        BY <1>0, <3>4 DEF HireMarkFunded, FundSaveExpired, FundSaveFunded,
           FundSaveLocked, MarkLocked, SaveFrozen, SaveFails, Exists, StoredStatuses
      <4>2. /\ \A e \in Escrows \ {d} : escrow'[e] = escrow[e]
            /\ escrow'[d].amount = escrow[d].amount
        BY <1>0, <1>1, <2>1, <3>4 DEF HireMarkFunded, FundSaveExpired, FundSaveFunded,
           FundSaveLocked, MarkLocked, SaveFrozen, SaveFails, EscrowRecord
      <4> QED  BY <3>1, <4>1, <4>2
    <3> QED  BY <1>4, <3>2, <3>3, <3>4
  <2>4. WorkerInv(w)' /\ ~Saving(w)'
    <3>1. CASE Done(w)  BY <1>0, <1>1, <3>1, DoneKeepsWorker
    <3>2. CASE HireCheckBalance(w) /\ ~Done(w)
      BY <1>0, <1>1, <2>2, <3>2 DEF HireCheckBalance, Go, TaskRecord, WorkerInv, Saving, At,
         ExpectedStatuses
    <3>3. CASE FundSaveFunded(w) /\ ~Done(w)
      BY <1>0, <1>1, <2>1, <2>2, <3>3 DEF FundSaveFunded, Go, TaskRecord, EscrowRecord, WorkerInv, Saving, At,
         SaveFails, ExpectedStatuses
    <3> QED
      BY <1>4, <3>1, <3>2, <3>3 DEF HireMarkFunded, FundSaveExpired,
         FundSaveLocked, MarkLocked, SaveFrozen, SaveFails
  <2> QED
    BY <1>0, <1>1, <2>1, <2>3, <2>4, UnpaidFrame, SameRowsUnpaid
       DEF Kept, SequentialInv
<1>5. CASE HireLockFunds(w) \/ FundTransfer(w)
  <2>1. /\ d \in Escrows /\ ~Saving(w) /\ UNCHANGED escrow
        /\ escrow[d].status \in ExpectedStatuses(task[w])
    BY <1>0, <1>1, <1>2, <1>5 DEF HireLockFunds, FundTransfer, Transfer, At, Saving,
       WorkerInv
  <2>2. UnpaidRows
    BY <1>0, <1>1, <1>5 DEF HireLockFunds, FundTransfer, Transfer, UnpaidRows,
       RowsRecord
  <2>3. escrow[d].status \notin {"RELEASED", "REFUNDED"}
    BY <1>5, <2>1 DEF HireLockFunds, FundTransfer, At, ExpectedStatuses
  <2>4. WorkerInv(w)' /\ ~Saving(w)'
    <3>1. CASE Done(w)  BY <1>0, <1>1, <3>1, DoneKeepsWorker
    <3>2. CASE HireLockFunds(w) /\ ~Done(w)
      BY <1>0, <1>1, <2>1, <3>2 DEF HireLockFunds, Transfer, Go, TaskRecord, WorkerInv, Saving,
         At, ExpectedStatuses
    <3>3. CASE FundTransfer(w) /\ ~Done(w)
      BY <1>0, <1>1, <2>1, <3>3 DEF FundTransfer, Transfer, Go, TaskRecord, WorkerInv, Saving,
         At, ExpectedStatuses
    <3> QED  BY <1>5, <3>1, <3>2, <3>3
  <2> QED
    BY <1>0, <1>1, <2>1, <2>2, <2>3, <2>4, UnpaidFrame DEF Kept, SequentialInv
<1>6. CASE PayFreelancer(w) \/ PayClient(w)
  <2>1. /\ d \in Escrows /\ ~Saving(w) /\ UNCHANGED escrow
        /\ PaidFrom(d) = 0
        /\ task[w].amount = escrow[d].amount
        /\ escrow[d].status \in ExpectedStatuses(task[w])
    BY <1>0, <1>1, <1>2, <1>6 DEF PayFreelancer, PayClient, RefundClient, At, Saving,
       WorkerInv
  <2>2. CASE Done(w) /\ UNCHANGED rows
    BY <1>0, <1>1, <2>1, <2>2, UnpaidFrame, SameRowsUnpaid, DoneKeepsWorker
       DEF Kept, SequentialInv
  <2>3. CASE PayFreelancer(w) /\ Go(w, "saveRelease")
    <3>1. /\ WorkerInv(w)' /\ Saving(w)' /\ task'[w].escrow = d
          /\ escrow[d].status # "DISPUTED"
      BY <1>0, <1>1, <2>1, <2>3 DEF PayFreelancer, Go, At, WorkerInv, Saving,
         ExpectedStatuses
    <3>2. rows' = [rows EXCEPT ![d].released = @ + task[w].amount]
      BY <1>0, <1>1, <2>1, <2>3 DEF PayFreelancer, Payment, At, WorkerInv, Go, Done, Idle
    <3>3. /\ PaidFrom(d)' = escrow[d].amount
          /\ \A e \in Escrows \ {d} : rows'[e] = rows[e]
      BY <1>0, <1>1, <2>1, <3>2 DEF PaidFrom, RowsRecord, TaskRecord
    <3> QED  BY <1>0, <1>1, <2>1, <3>1, <3>3, PaidStep DEF Kept, SequentialInv
  <2>4. CASE PayClient(w) /\ Go(w, "saveRefund")
    <3>1. WorkerInv(w)' /\ Saving(w)' /\ task'[w].escrow = d
      BY <1>0, <1>1, <2>1, <2>4 DEF PayClient, Go, At, WorkerInv, Saving,
         ExpectedStatuses
    <3>2. rows' = [rows EXCEPT ![d].refunded = @ + task[w].amount]
      BY <1>0, <1>1, <2>1, <2>4 DEF PayClient, RefundClient, At, Go, Done, Idle
    <3>3. /\ PaidFrom(d)' = escrow[d].amount
          /\ rows'[d].released = rows[d].released
          /\ \A e \in Escrows \ {d} : rows'[e] = rows[e]
      BY <1>0, <1>1, <2>1, <3>2 DEF PaidFrom, RowsRecord, TaskRecord
    <3> QED  BY <1>0, <1>1, <2>1, <3>1, <3>3, PaidStep DEF Kept, SequentialInv
  <2> QED
    BY <1>6, <2>2, <2>3, <2>4 DEF PayFreelancer, PayClient, RefundClient
<1>7. CASE SaveRelease(w) \/ SaveRefund(w)
  <2>1. /\ d \in Escrows /\ UNCHANGED rows
        /\ escrow[d].status \in ExpectedStatuses(task[w])
    BY <1>0, <1>1, <1>2, <1>7 DEF SaveRelease, SaveRefund, SaveFails, At, WorkerInv
  <2>2. Done(w)
    BY <1>0, <1>1, <1>7 DEF SaveRelease, SaveRefund, SaveFails, At, WorkerInv, Return,
       Resolutions
  <2>3. /\ \A e \in Escrows \ {d} : escrow'[e] = escrow[e]
        /\ escrow'[d].amount = escrow[d].amount
        /\ escrow'[d].status \in Settled
        /\ escrow[d].status \notin {"RELEASED", "REFUNDED"}
        /\ escrow[d].status = "DELETED" => escrow'[d].status = "DELETED"
    <3>1. CASE SaveRelease(w)
      BY <1>0, <1>1, <2>1, <3>1 DEF SaveRelease, At, WorkerInv, IsPartial,
         ExpectedStatuses, Exists, StoredStatuses, EscrowRecord, Settled
    <3>2. CASE SaveRefund(w)
      BY <1>0, <1>1, <2>1, <3>2 DEF SaveRefund, SaveFails, At, ExpectedStatuses,
         Exists, StoredStatuses, EscrowRecord, Settled
    <3> QED  BY <1>7, <3>1, <3>2
  <2>4. WorkerInv(w)' /\ ~Saving(w)'  BY <1>0, <1>1, <2>2, DoneKeepsWorker
  <2>5. UnpaidRows /\ escrow'[d].amount >= 0
    BY <1>1, <2>1, <2>3, SameRowsUnpaid
  <2>6. PaidInv(w)' /\ SettledStays /\ FrozenStays
    BY <1>0, <1>1, <2>1, <2>3, <2>4, <2>5, UnpaidFrame
  <2> QED  BY <2>4, <2>6 DEF Kept, SequentialInv
<1>8. ~ReadInner(w) /\ ~PayRest(w) /\ ~RecordResolution(w)
  BY <1>1 DEF ReadInner, PayRest, RecordResolution, At, WorkerInv
<1> QED
  BY <1>3, <1>4, <1>5, <1>6, <1>7, <1>8 DEF Continue

LEMMA SequentialStep ==
  ASSUME NEW w0, Sequential(w0)
  PROVE  TypeOK /\ SequentialInv(w0) /\ [Next]_vars => Kept(w0)
<1> SUFFICES ASSUME TypeOK, SequentialInv(w0), [Next]_vars
             PROVE  Kept(w0)
  OBVIOUS
<1>1. CASE UNCHANGED vars
  BY <1>1 DEF vars, Kept, SequentialInv, WorkerInv, PaidInv, PaidFrom, Saving,
     ExpectedStatuses, SettledStays, FrozenStays
<1>2. CASE \E w \in Workers : \E e \in Escrows : Start(w, e)
  BY <1>2, StartKeeps
<1>3. CASE \E w \in Workers : Continue(w)
  BY <1>3, ContinueKeeps DEF Sequential
<1>4. CASE Environment
  BY <1>4, EnvironmentKeeps
<1> QED  BY <1>1, <1>2, <1>3, <1>4 DEF Next

(* One request at a time, an escrow pays out its amount once, to one side  *)
(* or the other, and never more.                                           *)
THEOREM PaidOnceInTurn ==
  ASSUME NEW w0, Sequential(w0)
  PROVE  Spec => []PaidAtMostOnce
<1>1. Init => SequentialInv(w0)  BY SequentialInit
<1>2. TypeOK /\ SequentialInv(w0) /\ [Next]_vars => SequentialInv(w0)'
  BY SequentialStep DEF Kept
<1>3. SequentialInv(w0) => PaidAtMostOnce
  BY DEF SequentialInv, PaidInv, PaidFrom, PaidAtMostOnce
<1>4. IInv => TypeOK  BY DEF IInv
<1> QED  BY <1>1, <1>2, <1>3, <1>4, IInvHolds, PTL DEF Spec

(* One request at a time, a released or refunded escrow stays so.          *)
THEOREM SettledInTurnIsFinal ==
  ASSUME NEW w0, Sequential(w0)
  PROVE  Spec => SettledIsFinal
<1>1. Init => SequentialInv(w0)  BY SequentialInit
<1>2. TypeOK /\ SequentialInv(w0) /\ [Next]_vars
        => SequentialInv(w0)' /\ SettledStays
  BY SequentialStep DEF Kept
<1>3. IInv => TypeOK  BY DEF IInv
<1>4. Spec => [][SettledStays]_vars
  BY <1>1, <1>2, <1>3, IInvHolds, PTL DEF Spec
<1> QED  BY <1>4 DEF SettledIsFinal, SettledStays

(* One request at a time, no request of a client moves the money of a      *)
(* disputed escrow to the freelancer.                                      *)
THEOREM FrozenInTurnIsNotReleased ==
  ASSUME NEW w0, Sequential(w0)
  PROVE  Spec => FrozenIsNotReleased
<1>1. Init => SequentialInv(w0)  BY SequentialInit
<1>2. TypeOK /\ SequentialInv(w0) /\ [Next]_vars
        => SequentialInv(w0)' /\ FrozenStays
  BY SequentialStep DEF Kept
<1>3. IInv => TypeOK  BY DEF IInv
<1>4. Spec => [][FrozenStays]_vars
  BY <1>1, <1>2, <1>3, IInvHolds, PTL DEF Spec
<1> QED  BY <1>4 DEF FrozenIsNotReleased, FrozenStays
=============================================================================
