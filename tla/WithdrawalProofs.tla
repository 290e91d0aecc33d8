-------------------------- MODULE WithdrawalProofs --------------------------
(***************************************************************************)
(* The withdrawal requests, for any number of them in flight, any owners,  *)
(* amounts and daily limit: types are kept, every step is a wallet         *)
(* movement or leaves the wallets alone, what is released was sent, and    *)
(* requests that do not overlap end settled.                               *)
(*                                                                         *)
(* The first two are argued as in EscrowProofs: a worker at work moves one *)
(* of Amounts (TaskOK), and the wallets then stay typed by WalletInvStep.  *)
(* ReleasedWasSent needs ReleaseInv: what the gateway sent covers what was *)
(* released and what the workers it has paid still carry.                  *)
(* SettledInTurn needs TurnInv, at the end of the module.                  *)
(***************************************************************************)
EXTENDS MCWithdrawal, WalletProofs, FiniteSetTheorems

LEMMA IdleIsTyped == Idle \in TaskRecord /\ TaskOK(Idle)
BY DEF Idle, TaskRecord, TaskOK, Points, Statuses

LEMMA InitTypeOK == Init => TypeOK
<1> SUFFICES ASSUME Init PROVE TypeOK
  OBVIOUS
<1>1. WalletTypeOK  BY WalletInvInit DEF Init, WalletInv
<1>2. RequestsOK  BY DEF Init, RequestsOK, RequestRecord, Statuses
<1>3. LedgersOK  BY DEF Init, LedgersOK, MovedRecord, RowStatuses
<1>4. TasksOK  BY IdleIsTyped DEF Init, TasksOK
<1>5. StoredOK  BY DEF Init, StoredOK, Idle
<1> QED  BY <1>1, <1>2, <1>3, <1>4, <1>5 DEF TypeOK
-----------------------------------------------------------------------------
(* Every action updates at most one task, and at most one document.        *)
LEMMA TaskUpdate ==
  ASSUME TasksOK, NEW w \in Workers, NEW t \in TaskRecord, TaskOK(t),
         task' = [task EXCEPT ![w] = t]
  PROVE  TasksOK'
<1>1. task' \in [Workers -> TaskRecord]
  BY DEF TasksOK
<1>2. \A v \in Workers : task'[v] = IF v = w THEN t ELSE task[v]
  BY DEF TasksOK
<1>3. ASSUME NEW v \in Workers PROVE TaskOK(task'[v])
  <2>1. CASE v = w  BY <1>2, <2>1
  <2>2. CASE v # w  BY <1>2, <2>2 DEF TasksOK
  <2> QED  BY <2>1, <2>2
<1> QED  BY <1>1, <1>3 DEF TasksOK

\* A worker at work goes on with the same request and amount.
LEMMA TaskGoesOn ==
  ASSUME TasksOK, NEW w \in Workers, task[w].pc # "idle",
         NEW pc \in Points, NEW s \in Statuses, NEW b \in BOOLEAN,
         \/ Go(w, pc)
         \/ Done(w)
         \/ task' = [task EXCEPT ![w].status = s, ![w].pc = pc]
         \/ task' = [task EXCEPT ![w].pc = pc, ![w].trying = b]
  PROVE  TasksOK'
<1>1. task[w] \in TaskRecord /\ TaskOK(task[w])
  BY DEF TasksOK
<1>2. CASE Done(w)
  BY <1>2, IdleIsTyped, TaskUpdate DEF Done
<1>3. ASSUME NEW t, t \in TaskRecord, t.request = task[w].request,
             t.amount = task[w].amount, task' = [task EXCEPT ![w] = t]
      PROVE  TasksOK'
  <2>1. TaskOK(t)  BY <1>1, <1>3 DEF TaskOK
  <2> QED  BY <1>3, <2>1, TaskUpdate
<1>4. CASE Go(w, pc)
  <2> DEFINE t == [task[w] EXCEPT !.pc = pc]
  <2>1. /\ t \in TaskRecord /\ t.request = task[w].request
        /\ t.amount = task[w].amount
    BY <1>1 DEF TaskRecord
  <2>2. task' = [task EXCEPT ![w] = t]  BY <1>4 DEF Go
  <2> HIDE DEF t
  <2> QED  BY <1>3, <2>1, <2>2
<1>5. CASE task' = [task EXCEPT ![w].status = s, ![w].pc = pc]
  <2> DEFINE t == [task[w] EXCEPT !.status = s, !.pc = pc]
  <2>1. /\ t \in TaskRecord /\ t.request = task[w].request
        /\ t.amount = task[w].amount
    BY <1>1 DEF TaskRecord
  <2>2. task' = [task EXCEPT ![w] = t]  BY <1>5 DEF TasksOK
  <2> HIDE DEF t
  <2> QED  BY <1>3, <2>1, <2>2
<1>6. CASE task' = [task EXCEPT ![w].pc = pc, ![w].trying = b]
  <2> DEFINE t == [task[w] EXCEPT !.pc = pc, !.trying = b]
  <2>1. /\ t \in TaskRecord /\ t.request = task[w].request
        /\ t.amount = task[w].amount
    BY <1>1 DEF TaskRecord
  <2>2. task' = [task EXCEPT ![w] = t]  BY <1>6 DEF TasksOK
  <2> HIDE DEF t
  <2> QED  BY <1>3, <2>1, <2>2
<1> QED  BY <1>2, <1>4, <1>5, <1>6

LEMMA RequestUpdate ==
  ASSUME RequestsOK, NEW r \in Withdrawals, NEW d \in RequestRecord,
         d.amount \in Amounts, request' = [request EXCEPT ![r] = d]
  PROVE  RequestsOK'
<1>1. request' \in [Withdrawals -> RequestRecord]
  BY DEF RequestsOK
<1>2. \A q \in Withdrawals : request'[q] = IF q = r THEN d ELSE request[q]
  BY DEF RequestsOK
<1> QED  BY <1>1, <1>2 DEF RequestsOK

\* What a worker at work holds.
LEMMA AtWork ==
  ASSUME TypeOK, NEW w \in Workers, task[w].pc # "idle"
  PROVE  /\ Request(w) \in Withdrawals
         /\ Owner(w) \in Users
         /\ task[w].amount \in Amounts
         /\ task[w].amount \in Nat
<1>1. Request(w) \in Withdrawals /\ task[w].amount \in Amounts
  BY DEF TypeOK, TasksOK, TaskOK, Request
<1> QED  BY <1>1, WithdrawalAssumption, AmountsAssumption DEF Owner, Request
-----------------------------------------------------------------------------
(* What one step does to the ledgers.                                      *)
LEMMA LedgerStep ==
  ASSUME LedgersOK, NEW r \in Withdrawals, NEW a \in Nat, NEW u \in Users,
         \/ UNCHANGED row
         \/ \E s \in RowStatuses : row' = [row EXCEPT ![r] = s]
         \/ \E s \in RowStatuses :
              row' = [row EXCEPT ![r] = IF @ = "none" THEN @ ELSE s],
         \/ UNCHANGED moved
         \/ moved' = [moved EXCEPT ![r].locked = @ + a]
         \/ moved' = [moved EXCEPT ![r].released = @ + a]
         \/ moved' = [moved EXCEPT ![r].unlocked = @ + a],
         UNCHANGED sent \/ sent' = [sent EXCEPT ![r] = @ + a],
         UNCHANGED escrowed \/ escrowed' = [escrowed EXCEPT ![u] = @ + a]
  PROVE  LedgersOK'
<1>1. row' \in [Withdrawals -> RowStatuses]
  <2>1. row \in [Withdrawals -> RowStatuses]  BY DEF LedgersOK
  <2> QED  BY <2>1
<1>2. moved' \in [Withdrawals -> MovedRecord]
  <2>1. moved \in [Withdrawals -> MovedRecord] /\ moved[r] \in MovedRecord
    BY DEF LedgersOK
  <2>2. /\ moved[r].locked + a \in Nat
        /\ moved[r].released + a \in Nat
        /\ moved[r].unlocked + a \in Nat
    BY <2>1 DEF MovedRecord
  <2> QED  BY <2>1, <2>2 DEF MovedRecord
<1>3. sent' \in [Withdrawals -> Nat]
  BY DEF LedgersOK
<1>4. escrowed' \in [Users -> Nat]
  BY DEF LedgersOK
<1> QED  BY <1>1, <1>2, <1>3, <1>4 DEF LedgersOK
-----------------------------------------------------------------------------
(* Every step is a movement of the owner's wallet by the amount the worker *)
(* holds, or leaves the wallets alone.                                     *)
LEMMA WalletStep == TypeOK /\ [Next]_vars => [WalletNext]_walletVars
<1> SUFFICES ASSUME TypeOK, [Next]_vars
             PROVE  [WalletNext]_walletVars
  OBVIOUS
<1>1. ASSUME NEW w \in Workers, NEW r \in Withdrawals, Start(w, r)
      PROVE  UNCHANGED walletVars
  BY <1>1 DEF Start, CreateReadBalance, ProcessRead, RejectRead, CancelRead
<1>2. ASSUME NEW w \in Workers, Continue(w)
      PROVE  [WalletNext]_walletVars
  <2>1. CASE CreateLock(w)
    <3>1. Owner(w) \in Users /\ task[w].amount \in Amounts
      BY <2>1, AtWork DEF CreateLock, At
    <3>2. LockFunds(Owner(w), task[w].amount) \/ UNCHANGED walletVars
      BY <2>1 DEF CreateLock
    <3> QED  BY <3>1, <3>2 DEF WalletNext
  <2>2. CASE ReleaseLocked(w)
    <3>1. Owner(w) \in Users /\ task[w].amount \in Amounts
      BY <2>2, AtWork DEF ReleaseLocked, At
    <3>2. ReleaseLockedWithdrawal(Owner(w), task[w].amount)
            \/ UNCHANGED walletVars
      BY <2>2 DEF ReleaseLocked
    <3> QED  BY <3>1, <3>2 DEF WalletNext
  <2>3. CASE Unlock(w)
    <3>1. Owner(w) \in Users /\ task[w].amount \in Amounts
      BY <2>3, AtWork DEF Unlock, At
    <3>2. UnlockFunds(Owner(w), task[w].amount) \/ UNCHANGED walletVars
      BY <2>3 DEF Unlock
    <3> QED  BY <3>1, <3>2 DEF WalletNext
  <2>4. CASE CreateReadToday(w) \/ CreateInsert(w) \/ Gateway(w)
             \/ MarkFailed(w)
    BY <2>4 DEF CreateReadToday, CreateInsert, Gateway, MarkFailed, Save
  <2>5. CASE ProcessMark(w) \/ ProcessSuccess(w) \/ SaveCancelled(w)
    BY <2>5 DEF ProcessMark, ProcessSuccess, SaveCancelled, Save
  <2>6. CASE RowSuccess(w) \/ RowFailed(w) \/ RowCancelled(w)
    BY <2>6 DEF RowSuccess, RowFailed, RowCancelled, UpdateRow
  <2> QED  BY <1>2, <2>1, <2>2, <2>3, <2>4, <2>5, <2>6 DEF Continue
<1>3. ASSUME NEW u \in Users, NEW a \in Amounts,
             OwnerDeposit(u, a) \/ EscrowLocks(u, a) \/ EscrowUnlocks(u, a)
      PROVE  WalletNext
  <2>1. Deposit(u, a) \/ LockFunds(u, a) \/ UnlockFunds(u, a)
    BY <1>3 DEF OwnerDeposit, EscrowLocks, EscrowUnlocks
  <2> QED  BY <2>1 DEF WalletNext
<1>4. CASE Environment
  <2>1. /\ {OwnerOf[r] : r \in Withdrawals} \subseteq Users
        /\ WithdrawalAmounts \subseteq Amounts
    BY WithdrawalAssumption
  <2> QED  BY <1>3, <1>4, <2>1 DEF Environment
<1>5. CASE UNCHANGED vars
  BY <1>5 DEF vars, walletVars
<1> QED  BY <1>1, <1>2, <1>4, <1>5 DEF Next
-----------------------------------------------------------------------------
(* The types of everything but the wallets.                                *)
TypesOK == RequestsOK /\ LedgersOK /\ TasksOK /\ StoredOK

\* The other workers keep what they hold, and documents stay stored.
LEMMA StoredStep ==
  ASSUME TasksOK, StoredOK, NEW w \in Workers,
         \A v \in Workers \ {w} : task'[v] = task[v],
         \A q \in Withdrawals :
           request[q].status # "none" => request'[q].status # "none",
         task'[w].pc \notin {"idle", "readToday", "insert"}
           => request'[task'[w].request].status # "none"
  PROVE  StoredOK'
<1> SUFFICES ASSUME NEW v \in Workers,
                    task'[v].pc \notin {"idle", "readToday", "insert"}
             PROVE  request'[task'[v].request].status # "none"
  BY DEF StoredOK
<1>1. CASE v = w  BY <1>1
<1>2. CASE v # w
  <2>1. task'[v] = task[v]  BY <1>2
  <2>2. task[v].request \in Withdrawals
    BY <2>1 DEF TasksOK, TaskOK
  <2>3. request[task[v].request].status # "none"
    BY <2>1 DEF StoredOK
  <2> QED  BY <2>1, <2>2, <2>3
<1> QED  BY <1>1, <1>2

LEMMA StartKeepsTypes ==
  ASSUME TypesOK, NEW w \in Workers, NEW r \in Withdrawals, Start(w, r)
  PROVE  TypesOK'
<1>1. UNCHANGED ledgerVars
  BY DEF Start, CreateReadBalance, ProcessRead, RejectRead, CancelRead
<1>2. RequestsOK' /\ LedgersOK'
  BY <1>1 DEF TypesOK, ledgerVars, RequestsOK, LedgersOK
<1>3. ASSUME NEW a \in WithdrawalAmounts, CreateReadBalance(w, r, a)
      PROVE  TasksOK'
  <2> DEFINE t == [Idle EXCEPT !.pc = "readToday", !.request = r, !.amount = a]
  <2>1. a \in Amounts /\ a \in Nat
    BY WithdrawalAssumption, AmountsAssumption
  <2>2. t \in TaskRecord /\ TaskOK(t)
    BY <2>1 DEF Idle, TaskRecord, TaskOK, Points, Statuses
  <2>3. task' = [task EXCEPT ![w] = t]
    BY <1>3 DEF CreateReadBalance
  <2> HIDE DEF t
  <2> QED  BY <2>2, <2>3, TaskUpdate DEF TypesOK
<1>4. ASSUME NEW pc \in Points, Begin(w, r, pc), request[r].status # "none"
      PROVE  TasksOK'
  <2> DEFINE t == [pc |-> pc, request |-> r, status |-> request[r].status,
                   amount |-> request[r].amount, trying |-> FALSE]
  <2>1. /\ request[r].status \in Statuses
        /\ request[r].amount \in Nat
        /\ request[r].amount \in Amounts
    BY <1>4 DEF TypesOK, RequestsOK, RequestRecord
  <2>2. t \in TaskRecord /\ TaskOK(t)
    BY <2>1 DEF TaskRecord, TaskOK
  <2>3. task' = [task EXCEPT ![w] = t]
    BY <1>4 DEF Begin
  <2> HIDE DEF t
  <2> QED  BY <2>2, <2>3, TaskUpdate DEF TypesOK
<1>5. ProcessRead(w, r) \/ RejectRead(w, r) \/ CancelRead(w, r) => TasksOK'
  BY <1>4 DEF ProcessRead, RejectRead, CancelRead, Points
<1>6. StoredOK'
  <2>1. /\ \A v \in Workers \ {w} : task'[v] = task[v]
        /\ task'[w].pc \notin {"idle", "readToday", "insert"} =>
             task'[w].request = r /\ request[r].status # "none"
    <3>1. task \in [Workers -> TaskRecord]  BY DEF TypesOK, TasksOK
    <3>2. CASE \E a \in WithdrawalAmounts : CreateReadBalance(w, r, a)
      BY <3>1, <3>2 DEF CreateReadBalance, Idle
    <3>3. CASE ProcessRead(w, r) \/ RejectRead(w, r) \/ CancelRead(w, r)
      BY <3>1, <3>3 DEF ProcessRead, RejectRead, CancelRead, Begin
    <3> QED  BY <3>2, <3>3 DEF Start
  <2> QED  BY <1>1, <2>1, StoredStep DEF TypesOK, ledgerVars
<1> QED  BY <1>2, <1>3, <1>5, <1>6 DEF Start, TypesOK

LEMMA ContinueKeepsTypes ==
  ASSUME TypeOK, NEW w \in Workers, Continue(w)
  PROVE  TypesOK'
<1> DEFINE r == Request(w)
           a == task[w].amount
<1>1. task[w].pc # "idle"
  BY DEF Continue, CreateReadToday, CreateInsert, CreateLock, ProcessMark,
         Gateway, ProcessSuccess, RowSuccess, ReleaseLocked, MarkFailed,
         RowFailed, Unlock, SaveCancelled, RowCancelled, At
<1>2. /\ r \in Withdrawals /\ a \in Amounts /\ a \in Nat /\ Owner(w) \in Users
      /\ RequestsOK /\ LedgersOK /\ TasksOK
  BY <1>1, AtWork DEF TypeOK
<1>3. /\ request[r] \in RequestRecord
      /\ task[w].status \in Statuses /\ task[w].trying \in BOOLEAN
  BY <1>2 DEF RequestsOK, TasksOK, TaskRecord
<1>4. TasksOK'
  <2>1. \/ Done(w)
        \/ \E pc \in Points : Go(w, pc)
        \/ \E pc \in Points, s \in Statuses :
             task' = [task EXCEPT ![w].status = s, ![w].pc = pc]
        \/ \E pc \in Points, b \in BOOLEAN :
             task' = [task EXCEPT ![w].pc = pc, ![w].trying = b]
    <3>1. CASE CreateReadToday(w) \/ CreateInsert(w) \/ CreateLock(w)
      BY <3>1 DEF CreateReadToday, CreateInsert, CreateLock, Points
    <3>2. CASE ProcessMark(w) \/ ProcessSuccess(w) \/ SaveCancelled(w)
      BY <3>2 DEF ProcessMark, ProcessSuccess, SaveCancelled, Save, Points,
                  Statuses
    <3>3. CASE RowSuccess(w) \/ RowFailed(w) \/ RowCancelled(w)
      BY <3>3 DEF RowSuccess, RowFailed, RowCancelled, UpdateRow, Points
    <3>4. CASE Gateway(w) \/ ReleaseLocked(w)
      BY <3>4 DEF Gateway, ReleaseLocked, Try, Catch, Points
    <3>5. CASE MarkFailed(w)
      BY <3>5 DEF MarkFailed, Save, Points, Statuses
    <3>6. CASE Unlock(w)
      BY <3>6 DEF Unlock, AfterUnlock, Catch, Points
    <3> QED  BY <3>1, <3>2, <3>3, <3>4, <3>5, <3>6 DEF Continue
  <2>2. "idle" \in Points /\ "none" \in Statuses  BY DEF Points, Statuses
  <2>3. ASSUME NEW pc \in Points, Go(w, pc) PROVE TasksOK'
    BY <1>1, <1>2, <2>2, <2>3, TaskGoesOn
  <2>4. ASSUME NEW pc \in Points, NEW s \in Statuses,
               task' = [task EXCEPT ![w].status = s, ![w].pc = pc]
        PROVE  TasksOK'
    BY <1>1, <1>2, <2>4, TaskGoesOn
  <2>5. ASSUME NEW pc \in Points, NEW b \in BOOLEAN,
               task' = [task EXCEPT ![w].pc = pc, ![w].trying = b]
        PROVE  TasksOK'
    BY <1>1, <1>2, <2>2, <2>5, TaskGoesOn
  <2>6. Done(w) => TasksOK'
    BY <1>1, <1>2, <2>2, TaskGoesOn
  <2> QED  BY <2>1, <2>3, <2>4, <2>5, <2>6
<1>5. ASSUME NEW s \in Statuses \ {"none"}, NEW pc, Save(w, s, pc),
             task[w].pc \notin {"idle", "readToday", "insert"}
      PROVE  /\ RequestsOK'
             /\ \A q \in Withdrawals :
                  request[q].status # "none" => request'[q].status # "none"
  <2> DEFINE d == [request[r] EXCEPT !.status = s]
  <2>1. request[r].status # "none"
    BY <1>2, <1>5 DEF TypeOK, StoredOK, Request
  <2>2. d \in RequestRecord /\ d.amount \in Amounts /\ d.status # "none"
    BY <1>2, <1>3, <2>1 DEF RequestsOK, RequestRecord
  <2>3. request' = [request EXCEPT ![r] = d]
    BY <1>5 DEF Save
  <2> HIDE DEF d, r, a
  <2>4. RequestsOK'
    BY <1>2, <2>2, <2>3, RequestUpdate
  <2>5. \A q \in Withdrawals : request'[q] = IF q = r THEN d ELSE request[q]
    BY <1>2, <2>3 DEF RequestsOK
  <2> QED  BY <2>2, <2>4, <2>5
<1>6. /\ RequestsOK'
      /\ \A q \in Withdrawals :
           request[q].status # "none" => request'[q].status # "none"
  <2>1. CASE CreateInsert(w)
    <3> DEFINE d == [status |-> "REQUESTED", amount |-> a]
    <3>1. d \in RequestRecord /\ d.amount \in Amounts /\ d.status # "none"
      BY <1>2 DEF RequestRecord, Statuses
    <3>2. request' = [request EXCEPT ![r] = d]
      BY <2>1 DEF CreateInsert
    <3> HIDE DEF d, r, a
    <3>3. RequestsOK'
      BY <1>2, <3>1, <3>2, RequestUpdate
    <3>4. \A q \in Withdrawals : request'[q] = IF q = r THEN d ELSE request[q]
      BY <1>2, <3>2 DEF RequestsOK
    <3> QED  BY <3>1, <3>3, <3>4
  <2>2. CASE request' = request
    BY <1>2, <2>2 DEF RequestsOK
  <2>3. CASE ProcessMark(w) \/ ProcessSuccess(w) \/ SaveCancelled(w)
    BY <1>5, <2>3 DEF ProcessMark, ProcessSuccess, SaveCancelled, At, Statuses
  <2>4. CASE MarkFailed(w)
    BY <1>5, <2>2, <2>4 DEF MarkFailed, At, Statuses, ledgerVars
  <2>5. CASE CreateReadToday(w) \/ CreateLock(w) \/ Gateway(w)
             \/ ReleaseLocked(w) \/ Unlock(w)
    BY <2>2, <2>5 DEF CreateReadToday, CreateLock, Gateway, ReleaseLocked,
                      Unlock, ledgerVars
  <2>6. CASE RowSuccess(w) \/ RowFailed(w) \/ RowCancelled(w)
    BY <2>2, <2>6 DEF RowSuccess, RowFailed, RowCancelled, UpdateRow
  <2> QED  BY <2>1, <2>3, <2>4, <2>5, <2>6 DEF Continue
<1>7. StoredOK'
  <2>1. /\ \A v \in Workers \ {w} : task'[v] = task[v]
        /\ task'[w].pc # "idle" => task'[w].request = r
    <3>1. task[w].request = r  BY DEF Request
    <3>2. CASE CreateReadToday(w) \/ CreateInsert(w) \/ CreateLock(w)
      BY <1>2, <3>1, <3>2 DEF CreateReadToday, CreateInsert, CreateLock, Go,
                              Done, Idle, TasksOK, TaskRecord
    <3>3. CASE ProcessMark(w) \/ ProcessSuccess(w) \/ SaveCancelled(w)
      BY <1>2, <3>1, <3>3 DEF ProcessMark, ProcessSuccess, SaveCancelled, Save,
                              TasksOK, TaskRecord
    <3>4. CASE RowSuccess(w) \/ RowFailed(w) \/ RowCancelled(w)
      BY <1>2, <3>1, <3>4 DEF RowSuccess, RowFailed, RowCancelled, UpdateRow,
                              Go, TasksOK, TaskRecord
    <3>5. CASE Gateway(w) \/ ReleaseLocked(w)
      BY <1>2, <3>1, <3>5 DEF Gateway, ReleaseLocked, Try, Catch, Done, Idle,
                              TasksOK, TaskRecord
    <3>6. CASE MarkFailed(w)
      BY <1>2, <3>1, <3>6 DEF MarkFailed, Save, Done, Idle, TasksOK, TaskRecord
    <3>7. CASE Unlock(w)
      BY <1>2, <3>1, <3>7 DEF Unlock, AfterUnlock, Catch, Done, Idle, TasksOK,
                              TaskRecord
    <3> QED  BY <3>2, <3>3, <3>4, <3>5, <3>6, <3>7 DEF Continue
  <2>2. task'[w].pc \notin {"idle", "readToday", "insert"}
          => request'[r].status # "none"
    <3>1. CASE task[w].pc \notin {"idle", "readToday", "insert"}
      BY <1>2, <1>6, <3>1 DEF TypeOK, StoredOK, Request
    <3>2. CASE CreateReadToday(w)
      <4>1. Done(w) \/ Go(w, "insert")  BY <3>2 DEF CreateReadToday
      <4>2. task'[w].pc \in {"idle", "insert"}
        BY <1>2, <4>1 DEF Go, Done, Idle, TasksOK, TaskRecord
      <4> QED  BY <4>2
    <3>3. CASE CreateInsert(w)
      BY <1>2, <3>3 DEF CreateInsert, RequestsOK
    <3>4. CreateReadToday(w) \/ CreateInsert(w)
            \/ task[w].pc \notin {"idle", "readToday", "insert"}
      BY DEF Continue, CreateLock, ProcessMark, Gateway, ProcessSuccess,
             RowSuccess, ReleaseLocked, MarkFailed, RowFailed, Unlock,
             SaveCancelled, RowCancelled, At
    <3> QED  BY <3>1, <3>2, <3>3, <3>4
  <2> HIDE DEF r, a
  <2> QED  BY <1>2, <1>6, <2>1, <2>2, StoredStep DEF TypeOK
<1>8. LedgersOK'
  <2>1. \/ UNCHANGED row
        \/ \E s \in RowStatuses : row' = [row EXCEPT ![r] = s]
        \/ \E s \in RowStatuses :
             row' = [row EXCEPT ![r] = IF @ = "none" THEN @ ELSE s]
    <3>1. CASE RowSuccess(w) \/ RowFailed(w) \/ RowCancelled(w)
      BY <3>1 DEF RowSuccess, RowFailed, RowCancelled, UpdateRow, RowStatuses
    <3>2. CASE CreateLock(w)
      BY <3>2 DEF CreateLock, RowStatuses
    <3>3. CASE ~(RowSuccess(w) \/ RowFailed(w) \/ RowCancelled(w) \/ CreateLock(w))
      BY <3>3 DEF Continue, CreateReadToday, CreateInsert, ProcessMark, Gateway,
                  ProcessSuccess, ReleaseLocked, MarkFailed, Unlock,
                  SaveCancelled, Save, ledgerVars
    <3> QED  BY <3>1, <3>2, <3>3
  <2>2. \/ UNCHANGED moved
        \/ moved' = [moved EXCEPT ![r].locked = @ + a]
        \/ moved' = [moved EXCEPT ![r].released = @ + a]
        \/ moved' = [moved EXCEPT ![r].unlocked = @ + a]
    BY DEF Continue, CreateReadToday, CreateInsert, CreateLock, ProcessMark,
           Gateway, ProcessSuccess, RowSuccess, ReleaseLocked, MarkFailed,
           RowFailed, Unlock, SaveCancelled, RowCancelled, Save, UpdateRow,
           ledgerVars
  <2>3. UNCHANGED sent \/ sent' = [sent EXCEPT ![r] = @ + a]
    BY DEF Continue, CreateReadToday, CreateInsert, CreateLock, ProcessMark,
           Gateway, Pays, ProcessSuccess, RowSuccess, ReleaseLocked,
           MarkFailed, RowFailed, Unlock, SaveCancelled, RowCancelled, Save,
           UpdateRow, ledgerVars
  <2>4. UNCHANGED escrowed
    BY DEF Continue, CreateReadToday, CreateInsert, CreateLock, ProcessMark,
           Gateway, ProcessSuccess, RowSuccess, ReleaseLocked, MarkFailed,
           RowFailed, Unlock, SaveCancelled, RowCancelled, Save, UpdateRow,
           ledgerVars
  <2> HIDE DEF r, a
  <2> QED  BY <1>2, <2>1, <2>2, <2>3, <2>4, LedgerStep
<1> QED  BY <1>4, <1>6, <1>7, <1>8 DEF TypesOK
-----------------------------------------------------------------------------
(* TypeOK is inductive together with the wallets' own invariant.           *)
IInv == TypeOK /\ WalletBalanced

LEMMA IInvStep == IInv /\ [Next]_vars => IInv'
<1> SUFFICES ASSUME IInv, [Next]_vars PROVE IInv'
  OBVIOUS
<1>1. WalletInv'
  BY WalletStep, WalletInvStep DEF IInv, TypeOK, WalletInv
<1>2. TypesOK'
  <2>1. TypesOK /\ LedgersOK  BY DEF IInv, TypeOK, TypesOK
  <2>2. ASSUME NEW w \in Workers, NEW r \in Withdrawals, Start(w, r)
        PROVE  TypesOK'
    BY <2>1, <2>2, StartKeepsTypes
  <2>3. ASSUME NEW w \in Workers, Continue(w) PROVE TypesOK'
    BY <2>3, ContinueKeepsTypes DEF IInv
  <2>4. CASE UNCHANGED <<request, row, moved, sent, task>>
             /\ escrowed' \in [Users -> Nat]
    BY <2>1, <2>4 DEF TypesOK, RequestsOK, LedgersOK, TasksOK, StoredOK
  <2>5. ASSUME NEW u \in Users, NEW a \in Amounts,
               OwnerDeposit(u, a) \/ EscrowLocks(u, a) \/ EscrowUnlocks(u, a)
        PROVE  TypesOK'
    <3>1. a \in Nat  BY AmountsAssumption
    <3>2. escrowed \in [Users -> Nat]  BY <2>1 DEF LedgersOK
    <3>3. escrowed' \in [Users -> Nat]
      BY <2>5, <3>1, <3>2 DEF OwnerDeposit, EscrowLocks, EscrowUnlocks,
                              ledgerVars
    <3> QED  BY <2>4, <2>5, <3>3 DEF OwnerDeposit, EscrowLocks, EscrowUnlocks,
                                     ledgerVars
  <2>6. CASE Environment
    <3>1. /\ {OwnerOf[r] : r \in Withdrawals} \subseteq Users
          /\ WithdrawalAmounts \subseteq Amounts
      BY WithdrawalAssumption
    <3> QED  BY <2>5, <2>6, <3>1 DEF Environment
  <2>7. CASE UNCHANGED vars
    BY <2>1, <2>4, <2>7 DEF vars, ledgerVars, LedgersOK
  <2> QED  BY <2>2, <2>3, <2>6, <2>7 DEF Next
<1> QED  BY <1>1, <1>2 DEF IInv, TypeOK, TypesOK, WalletInv

LEMMA IInvHolds == Spec => []IInv
<1>1. Init => IInv
  BY InitTypeOK, WalletInvInit DEF Init, IInv, WalletInv
<1> QED  BY <1>1, IInvStep, PTL DEF Spec
-----------------------------------------------------------------------------
(* Types are kept: no interleaving of withdrawals and escrows makes a      *)
(* balance negative.                                                       *)
THEOREM WithdrawalTypeSafe == Spec => []TypeOK
<1>1. IInv => TypeOK  BY DEF IInv
<1> QED  BY <1>1, IInvHolds, PTL

(* The withdrawal requests implement the wallets' specification: they move *)
(* money by the wallet service's movements only.                           *)
THEOREM WithdrawalImplementsWallet == Spec => WalletSpec
<1>1. Init => WalletInit  BY DEF Init
<1>2. IInv /\ [Next]_vars => [WalletNext]_walletVars
  BY WalletStep DEF IInv
<1> QED  BY <1>1, <1>2, IInvHolds, PTL DEF Spec, WalletSpec
-----------------------------------------------------------------------------
(* What is released was paid out.  A worker that the gateway has paid for  *)
(* carries the amount it will take out of the locked balance: the gateway  *)
(* has sent what was released and what those workers carry.                *)
Making == {"readToday", "insert"}
Releasing == {"saveSuccess", "rowSuccess", "release"}
Carrying(r) ==
  {w \in Workers : task[w].request = r /\ task[w].pc \in Releasing}

\* A request being made is not stored, and no one else has it; a worker's
\* amount is that of the document it read.
HeldOK ==
  \A w \in Workers :
    /\ task[w].pc = "idle" => task[w].request = NoWithdrawal
    /\ task[w].pc \in Making =>
         /\ request[task[w].request].status = "none"
         /\ \A v \in Workers \ {w} : task[v].request # task[w].request
    /\ task[w].pc \notin Making \cup {"idle"} =>
         task[w].amount = request[task[w].request].amount

CarriedOK ==
  \A r \in Withdrawals :
    /\ IsFiniteSet(Carrying(r))
    /\ moved[r].released + request[r].amount * Cardinality(Carrying(r))
         <= sent[r]

ReleaseInv == HeldOK /\ CarriedOK

LEMMA ReleaseInvInit == Init => ReleaseInv
<1> SUFFICES ASSUME Init PROVE ReleaseInv
  OBVIOUS
<1>1. HeldOK  BY DEF Init, HeldOK, Idle, Making
<1>2. ASSUME NEW r \in Withdrawals
      PROVE  Carrying(r) = {} /\ moved[r].released = 0 /\ sent[r] = 0
             /\ request[r].amount = 0
  BY DEF Init, Carrying, Idle, Releasing
<1>3. ASSUME NEW r \in Withdrawals
      PROVE  /\ IsFiniteSet(Carrying(r))
             /\ moved[r].released + request[r].amount * Cardinality(Carrying(r))
                  <= sent[r]
  <2>1. IsFiniteSet(Carrying(r)) /\ Cardinality(Carrying(r)) = 0
    BY <1>2, FS_EmptySet
  <2> QED  BY <1>2, <2>1
<1>4. CarriedOK  BY <1>3 DEF CarriedOK
<1> QED  BY <1>1, <1>4 DEF ReleaseInv

\* How the task of a worker that continues moves: the points it may leave
\* for, and what it keeps.
LEMMA ContinueFrame ==
  ASSUME TypesOK, NEW w \in Workers, Continue(w)
  PROVE  /\ \A v \in Workers \ {w} : task'[v] = task[v]
         /\ \/ task'[w] = Idle
            \/ /\ task'[w].request = task[w].request
               /\ task'[w].amount = task[w].amount
               /\ task'[w].pc # "idle"
         /\ task[w].pc # "idle"
<1>1. task \in [Workers -> TaskRecord]  BY DEF TypesOK, TasksOK
<1>2. CASE CreateReadToday(w) \/ CreateInsert(w) \/ CreateLock(w)
  BY <1>1, <1>2 DEF CreateReadToday, CreateInsert, CreateLock, Go, Done, At,
                    TaskRecord
<1>3. CASE ProcessMark(w) \/ ProcessSuccess(w) \/ SaveCancelled(w)
  BY <1>1, <1>3 DEF ProcessMark, ProcessSuccess, SaveCancelled, Save, At,
                    TaskRecord
<1>4. CASE RowSuccess(w) \/ RowFailed(w) \/ RowCancelled(w)
  BY <1>1, <1>4 DEF RowSuccess, RowFailed, RowCancelled, UpdateRow, Go, At,
                    TaskRecord
<1>5. CASE Gateway(w) \/ ReleaseLocked(w)
  BY <1>1, <1>5 DEF Gateway, ReleaseLocked, Try, Catch, Done, At, TaskRecord
<1>6. CASE MarkFailed(w)
  BY <1>1, <1>6 DEF MarkFailed, Save, Done, At, TaskRecord
<1>7. CASE Unlock(w)
  BY <1>1, <1>7 DEF Unlock, AfterUnlock, Catch, Done, At, TaskRecord
<1> QED  BY <1>2, <1>3, <1>4, <1>5, <1>6, <1>7 DEF Continue

\* The worker is at the insert, or the amounts of all documents are kept.
LEMMA AmountFrame ==
  ASSUME TypesOK, NEW w \in Workers, Continue(w)
  PROVE  /\ \A q \in Withdrawals : q # task[w].request => request'[q] = request[q]
         /\ CreateInsert(w)
            \/ \A q \in Withdrawals : request'[q].amount = request[q].amount
<1>1. request \in [Withdrawals -> RequestRecord]
  BY DEF TypesOK, RequestsOK
<1>2. CASE CreateInsert(w)  BY <1>1, <1>2 DEF CreateInsert, Request
<1>3. CASE ProcessMark(w) \/ ProcessSuccess(w) \/ SaveCancelled(w)
  BY <1>1, <1>3 DEF ProcessMark, ProcessSuccess, SaveCancelled, Save, Request,
                    RequestRecord
<1>4. CASE MarkFailed(w)
  BY <1>1, <1>4 DEF MarkFailed, Save, Request, RequestRecord, ledgerVars
<1>5. CASE ~(CreateInsert(w) \/ ProcessMark(w) \/ ProcessSuccess(w)
             \/ SaveCancelled(w) \/ MarkFailed(w))
  <2>1. UNCHANGED request
    BY <1>5 DEF Continue, CreateReadToday, CreateLock, Gateway, RowSuccess,
                ReleaseLocked, RowFailed, Unlock, RowCancelled, UpdateRow,
                ledgerVars
  <2> QED  BY <2>1
<1> QED  BY <1>2, <1>3, <1>4, <1>5

\* Starting a request.
LEMMA StartReleases ==
  ASSUME TypesOK, ReleaseInv, NEW w \in Workers, NEW r \in Withdrawals,
         Start(w, r)
  PROVE  ReleaseInv'
<1>1. /\ UNCHANGED ledgerVars
      /\ task[w].pc = "idle"
      /\ task \in [Workers -> TaskRecord]
  BY DEF Start, CreateReadBalance, ProcessRead, RejectRead, CancelRead, May, At,
         TypesOK, TasksOK
<1>2. /\ \A v \in Workers \ {w} : task'[v] = task[v]
      /\ task'[w].request = r
      /\ \/ /\ task'[w].pc = "readToday"
            /\ request[r].status = "none" /\ ~Busy(r)
         \/ /\ task'[w].pc \in {"markProcessing", "markFailed", "saveCancelled"}
            /\ request[r].status # "none"
            /\ task'[w].amount = request[r].amount
  <2>1. CASE \E a \in WithdrawalAmounts : CreateReadBalance(w, r, a)
    BY <1>1, <2>1 DEF CreateReadBalance, Idle
  <2>2. CASE ProcessRead(w, r)  BY <1>1, <2>2 DEF ProcessRead, Begin
  <2>3. CASE RejectRead(w, r)  BY <1>1, <2>3 DEF RejectRead, Begin
  <2>4. CASE CancelRead(w, r)  BY <1>1, <2>4 DEF CancelRead, Begin
  <2> QED  BY <2>1, <2>2, <2>3, <2>4 DEF Start
<1>3. HeldOK'
  <2> SUFFICES ASSUME NEW v \in Workers
               PROVE  /\ task'[v].pc = "idle" => task'[v].request = NoWithdrawal
                      /\ task'[v].pc \in Making =>
                           /\ request[task'[v].request].status = "none"
                           /\ \A x \in Workers \ {v} :
                                task'[x].request # task'[v].request
                      /\ task'[v].pc \notin Making \cup {"idle"} =>
                           task'[v].amount = request[task'[v].request].amount
    BY <1>1 DEF HeldOK, ledgerVars
  <2>1. CASE v = w  BY <1>2, <2>1 DEF Making, Busy
  <2>2. CASE v # w
    <3>1. task'[v] = task[v]  BY <1>2, <2>2
    <3>2. task[v].pc \in Making => task[v].request # r
      <4>1. task[v].pc \in Making => request[task[v].request].status = "none"
        BY DEF ReleaseInv, HeldOK
      <4>2. ~Busy(r) => task[v].request # r  BY DEF Busy
      <4> QED  BY <1>2, <4>1, <4>2
    <3> QED  BY <1>2, <3>1, <3>2 DEF ReleaseInv, HeldOK
  <2> QED  BY <2>1, <2>2
<1>4. \A q \in Withdrawals : Carrying(q)' = Carrying(q)
  BY <1>1, <1>2 DEF Carrying, Releasing
<1>5. CarriedOK'
  BY <1>1, <1>4 DEF ReleaseInv, CarriedOK, ledgerVars
<1> QED  BY <1>3, <1>5 DEF ReleaseInv

\* A worker that goes on keeps what HeldOK says of all workers.
LEMMA ContinueHolds ==
  ASSUME TypesOK, ReleaseInv, NEW w \in Workers, Continue(w)
  PROVE  HeldOK'
<1> DEFINE r == task[w].request
<1>1. /\ \A v \in Workers \ {w} : task'[v] = task[v]
      /\ task[w].pc # "idle"
      /\ r \in Withdrawals
  BY ContinueFrame DEF TypesOK, TasksOK, TaskOK
<1>2. \/ task'[w] = Idle
      \/ task'[w].request = r /\ task'[w].amount = task[w].amount
           /\ task'[w].pc # "idle"
  BY ContinueFrame
<1>3. /\ \A q \in Withdrawals : q # r => request'[q] = request[q]
      /\ CreateInsert(w)
           \/ \A q \in Withdrawals : request'[q].amount = request[q].amount
  BY AmountFrame
<1>4. request \in [Withdrawals -> RequestRecord]
  BY DEF TypesOK, RequestsOK
<1>5. /\ task'[w].pc \in Making =>
           task[w].pc \in Making /\ UNCHANGED request
      /\ task'[w].pc \notin Making \cup {"idle"} =>
           task[w].amount = request'[r].amount
  <2>1. task \in [Workers -> TaskRecord]  BY DEF TypesOK, TasksOK
  <2>2. CASE CreateReadToday(w)
    <3>1. /\ task[w].pc = "readToday" /\ UNCHANGED request
          /\ Done(w) \/ Go(w, "insert")
      BY <2>2 DEF CreateReadToday, At, ledgerVars
    <3> QED  BY <2>1, <3>1 DEF Go, Done, Making, Idle, TaskRecord
  <2>3. CASE CreateInsert(w)
    <3>1. task'[w].pc = "lock"
      BY <2>1, <2>3 DEF CreateInsert, Go, TaskRecord
    <3>2. request'[r].amount = task[w].amount
      BY <1>1, <1>4, <2>3 DEF CreateInsert, Request
    <3> QED  BY <3>1, <3>2 DEF Making
  <2>4. CASE ~(CreateReadToday(w) \/ CreateInsert(w))
    <3>1. task'[w].pc \notin Making
      BY <2>1, <2>4 DEF TaskRecord, Continue, CreateLock, ProcessMark, Gateway,
                        ProcessSuccess, RowSuccess, ReleaseLocked, MarkFailed,
                        RowFailed, Unlock, SaveCancelled, RowCancelled, Save,
                        UpdateRow, Try, Catch, AfterUnlock, Go, Done, Idle,
                        Making
    <3>2. task[w].pc \notin Making
      BY <2>4 DEF Continue, CreateLock, ProcessMark, Gateway, ProcessSuccess,
                  RowSuccess, ReleaseLocked, MarkFailed, RowFailed, Unlock,
                  SaveCancelled, RowCancelled, At, Making
    <3> QED  BY <1>1, <1>3, <2>4, <3>1, <3>2 DEF ReleaseInv, HeldOK
  <2> QED  BY <2>2, <2>3, <2>4
<1>6. ASSUME NEW v \in Workers, v # w, task[v].request = r,
             task[v].pc # "idle"
      PROVE  task[v].pc \notin Making /\ ~CreateInsert(w)
  BY <1>1, <1>6 DEF ReleaseInv, HeldOK, CreateInsert, At, Making
<1>7. ASSUME NEW v \in Workers
      PROVE  /\ task'[v].pc = "idle" => task'[v].request = NoWithdrawal
             /\ task'[v].pc \in Making =>
                  /\ request'[task'[v].request].status = "none"
                  /\ \A x \in Workers \ {v} : task'[x].request # task'[v].request
             /\ task'[v].pc \notin Making \cup {"idle"} =>
                  task'[v].amount = request'[task'[v].request].amount
  <2>1. CASE v = w
    BY <1>1, <1>2, <1>5, <2>1 DEF ReleaseInv, HeldOK, Idle, Making
  <2>2. CASE v # w
    <3>1. task'[v] = task[v]  BY <1>1, <2>2
    <3>2. task[v].pc # "idle" => task[v].request \in Withdrawals
      BY DEF TypesOK, TasksOK, TaskOK
    <3>3. task[v].pc \in Making => task[v].request # r
      BY <1>6, <2>2 DEF Making
    <3>4. task'[w].request \in {r, NoWithdrawal}  BY <1>2 DEF Idle
    <3>5. NoWithdrawal \notin Withdrawals  BY WithdrawalAssumption
    <3>6. CASE task[v].pc = "idle"
      BY <3>1, <3>6 DEF ReleaseInv, HeldOK, Making
    <3>7. CASE task[v].pc \in Making
      BY <1>1, <1>3, <3>1, <3>2, <3>3, <3>4, <3>5, <3>7
         DEF ReleaseInv, HeldOK, Making
    <3>8. CASE task[v].pc \notin Making \cup {"idle"}
      BY <1>3, <1>6, <2>2, <3>1, <3>2, <3>8 DEF ReleaseInv, HeldOK, Making
    <3> QED  BY <3>6, <3>7, <3>8
  <2> QED  BY <2>1, <2>2
<1> QED  BY <1>7 DEF HeldOK

\* The sums CarriedOK compares, when one worker comes or goes.
LEMMA Carried ==
  ASSUME NEW S, IsFiniteSet(S), NEW w, NEW a \in Nat, NEW released \in Nat,
         NEW paid \in Nat, released + a * Cardinality(S) <= paid
  PROVE  /\ IsFiniteSet(S \cup {w}) /\ IsFiniteSet(S \ {w})
         /\ released + a * Cardinality(S \cup {w}) <= paid + a
         /\ released + a * Cardinality(S \ {w}) <= paid
         /\ w \in S => released + a + a * Cardinality(S \ {w}) <= paid
<1> DEFINE n == Cardinality(S)
<1>1. n \in Nat  BY FS_CardinalityType
<1>2. /\ IsFiniteSet(S \cup {w})
      /\ Cardinality(S \cup {w}) = IF w \in S THEN n ELSE n + 1
  BY FS_AddElement
<1>3. /\ IsFiniteSet(S \ {w})
      /\ Cardinality(S \ {w}) = IF w \in S THEN n - 1 ELSE n
  BY FS_RemoveElement
<1>4. a * n \in Nat /\ a * (n + 1) = a * n + a /\ a * (n - 1) = a * n - a
  BY <1>1
<1> HIDE DEF n
<1>5. released + a * n <= paid  BY DEF n
<1>6. CASE w \in S  BY <1>1, <1>2, <1>3, <1>4, <1>5, <1>6
<1>7. CASE w \notin S  BY <1>1, <1>2, <1>3, <1>4, <1>5, <1>7
<1> QED  BY <1>6, <1>7

\* Going on from or to the points where a worker carries what was paid.
LEMMA CarryFrame ==
  ASSUME TypesOK, NEW w \in Workers, Continue(w),
         NEW r \in Withdrawals
  PROVE  \/ /\ Carrying(r)' = Carrying(r) \/ Carrying(r)' = Carrying(r) \ {w}
            /\ sent'[r] = sent[r] \/ sent'[r] = sent[r] + task[w].amount
            /\ moved'[r].released = moved[r].released
         \/ /\ r = task[w].request /\ task[w].pc = "gateway"
            /\ Carrying(r)' = Carrying(r) \cup {w}
            /\ sent'[r] = sent[r] + task[w].amount
            /\ moved'[r].released = moved[r].released
         \/ /\ w \in Carrying(r) /\ task[w].pc = "release"
            /\ Carrying(r)' = Carrying(r) \ {w}
            /\ sent'[r] = sent[r]
            /\ moved'[r].released = moved[r].released + task[w].amount
<1>1. /\ \A v \in Workers \ {w} : task'[v] = task[v]
      /\ task'[w] = Idle \/ task'[w].request = task[w].request
      /\ task[w].pc # "idle"
  BY ContinueFrame
<1>2. /\ task \in [Workers -> TaskRecord]
      /\ sent \in [Withdrawals -> Nat]
      /\ moved \in [Withdrawals -> MovedRecord]
      /\ task[w].amount \in Nat
  BY DEF TypesOK, TasksOK, LedgersOK, TaskRecord
<1>3. /\ task'[w].pc \notin Releasing => Carrying(r)' = Carrying(r) \ {w}
      /\ task'[w].pc \in Releasing /\ task[w].pc \in Releasing
           => Carrying(r)' = Carrying(r)
      /\ task'[w].pc \in Releasing /\ r # task[w].request
           => Carrying(r)' = Carrying(r)
      /\ task'[w].pc \in Releasing /\ r = task[w].request
           => Carrying(r)' = Carrying(r) \cup {w}
  BY <1>1 DEF Carrying, Idle, Releasing
<1>4. CASE Gateway(w)
  <2>1. task[w].pc = "gateway" /\ moved' = moved
    BY <1>4 DEF Gateway, At
  <2>2. CASE Pays(w) /\ Try(w, "saveSuccess")
    <3>1. task'[w].pc = "saveSuccess"  BY <1>2, <2>2 DEF Try, TaskRecord
    <3>2. sent'[r] = IF r = task[w].request THEN sent[r] + task[w].amount
                     ELSE sent[r]
      BY <1>2, <2>2 DEF Pays, Request
    <3> QED  BY <1>3, <2>1, <3>1, <3>2 DEF Releasing
  <2>3. CASE /\ UNCHANGED sent \/ Pays(w)
             /\ Try(w, "markFailed") \/ Catch(w)
    <3>1. task'[w].pc = "markFailed"
      BY <1>2, <2>3 DEF Try, Catch, TaskRecord
    <3>2. sent'[r] = sent[r] \/ sent'[r] = sent[r] + task[w].amount
      BY <1>2, <2>3 DEF Pays, Request
    <3> QED  BY <1>3, <2>1, <3>1, <3>2 DEF Releasing
  <2> QED  BY <1>4, <2>2, <2>3 DEF Gateway
<1>5. CASE ReleaseLocked(w)
  <2>1. sent' = sent /\ task[w].pc = "release"
    BY <1>5 DEF ReleaseLocked, At
  <2>2. CASE /\ moved' = [moved EXCEPT ![Request(w)].released = @ + task[w].amount]
             /\ Done(w)
    <3>1. task'[w].pc = "idle"  BY <1>2, <2>2 DEF Done, Idle
    <3>2. moved'[r].released = IF r = task[w].request
                               THEN moved[r].released + task[w].amount
                               ELSE moved[r].released
      BY <1>2, <2>2 DEF Request, MovedRecord
    <3>3. r = task[w].request => w \in Carrying(r)
      BY <2>1 DEF Carrying, Releasing
    <3> QED  BY <1>3, <2>1, <3>1, <3>2, <3>3 DEF Releasing
  <2>3. CASE Catch(w) /\ UNCHANGED moved
    <3>1. task'[w].pc = "markFailed"  BY <1>2, <2>3 DEF Catch, TaskRecord
    <3> QED  BY <1>3, <2>1, <2>3, <3>1 DEF Releasing
  <2> QED  BY <1>5, <2>2, <2>3 DEF ReleaseLocked
<1>6. CASE ~Gateway(w) /\ ~ReleaseLocked(w)
  <2>1. sent' = sent /\ moved'[r].released = moved[r].released
    <3>1. CASE CreateLock(w)
      BY <1>2, <3>1 DEF CreateLock, Request, MovedRecord
    <3>2. CASE Unlock(w)
      BY <1>2, <3>2 DEF Unlock, Request, MovedRecord
    <3>3. CASE ~CreateLock(w) /\ ~Unlock(w)
      BY <1>6, <3>3 DEF Continue, CreateReadToday, CreateInsert, ProcessMark,
                        ProcessSuccess, RowSuccess, MarkFailed, RowFailed,
                        SaveCancelled, RowCancelled, Save, UpdateRow, ledgerVars
    <3> QED  BY <3>1, <3>2, <3>3
  <2>2. task'[w].pc \in Releasing => task[w].pc \in Releasing
    <3>1. CASE ProcessSuccess(w) \/ RowSuccess(w)
      BY <3>1 DEF ProcessSuccess, RowSuccess, At, Releasing
    <3>2. CASE ~(ProcessSuccess(w) \/ RowSuccess(w))
      BY <1>2, <1>6, <3>2
         DEF TaskRecord, Continue, CreateReadToday, CreateInsert, CreateLock,
             ProcessMark, MarkFailed, RowFailed, Unlock, SaveCancelled,
             RowCancelled, Save, UpdateRow, Catch, AfterUnlock, Go, Done, Idle,
             Releasing
    <3> QED  BY <3>1, <3>2
  <2> QED  BY <1>3, <2>1, <2>2
<1> QED  BY <1>4, <1>5, <1>6

LEMMA ContinueCarries ==
  ASSUME TypesOK, ReleaseInv, NEW w \in Workers, Continue(w)
  PROVE  CarriedOK'
<1> SUFFICES ASSUME NEW r \in Withdrawals
             PROVE  /\ IsFiniteSet(Carrying(r)')
                    /\ moved'[r].released
                         + request'[r].amount * Cardinality(Carrying(r)')
                         <= sent'[r]
  BY DEF CarriedOK
<1> DEFINE a == request[r].amount
           S == Carrying(r)
<1>1. /\ a \in Nat /\ sent[r] \in Nat /\ moved[r].released \in Nat
      /\ task[w].amount \in Nat
  BY DEF TypesOK, TasksOK, RequestsOK, LedgersOK, TaskRecord, RequestRecord,
         MovedRecord
<1>2. IsFiniteSet(S) /\ moved[r].released + a * Cardinality(S) <= sent[r]
  BY DEF ReleaseInv, CarriedOK
<1>3. /\ IsFiniteSet(S \cup {w}) /\ IsFiniteSet(S \ {w})
      /\ moved[r].released + a * Cardinality(S \cup {w}) <= sent[r] + a
      /\ moved[r].released + a * Cardinality(S \ {w}) <= sent[r]
      /\ w \in S => moved[r].released + a + a * Cardinality(S \ {w}) <= sent[r]
  <2> HIDE DEF a, S
  <2> QED  BY <1>1, <1>2, Carried
<1>4. /\ Cardinality(S) \in Nat /\ Cardinality(S \cup {w}) \in Nat
      /\ Cardinality(S \ {w}) \in Nat
  <2> HIDE DEF S
  <2> QED  BY <1>2, <1>3, FS_CardinalityType
<1>5. CASE request'[r].amount = a
  <2>1. /\ w \in S => task[w].amount = a
        /\ task[w].pc = "gateway" /\ r = task[w].request => task[w].amount = a
    BY DEF ReleaseInv, HeldOK, Making, Carrying, Releasing
  <2>2. CASE /\ Carrying(r)' = S \/ Carrying(r)' = S \ {w}
             /\ sent'[r] = sent[r] \/ sent'[r] = sent[r] + task[w].amount
             /\ moved'[r].released = moved[r].released
    <3> HIDE DEF a, S
    <3>1. moved[r].released + a * Cardinality(Carrying(r)') <= sent[r]
      <4>1. CASE Carrying(r)' = S  BY <1>2, <4>1, Zenon
      <4>2. CASE Carrying(r)' = S \ {w}  BY <1>3, <4>2, Zenon
      <4> QED  BY <2>2, <4>1, <4>2
    <3>2. IsFiniteSet(Carrying(r)') /\ Cardinality(Carrying(r)') \in Nat
      <4>1. CASE Carrying(r)' = S  BY <1>2, <1>4, <4>1, Zenon
      <4>2. CASE Carrying(r)' = S \ {w}  BY <1>3, <1>4, <4>2, Zenon
      <4> QED  BY <2>2, <4>1, <4>2
    <3> DEFINE c == Cardinality(Carrying(r)')
    <3>3. a * c \in Nat  BY <1>1, <3>2
    <3> QED  BY <1>1, <1>5, <2>2, <3>1, <3>2, <3>3
  <2>3. CASE /\ r = task[w].request /\ task[w].pc = "gateway"
             /\ Carrying(r)' = S \cup {w}
             /\ sent'[r] = sent[r] + task[w].amount
             /\ moved'[r].released = moved[r].released
    BY <1>3, <1>5, <2>1, <2>3
  <2>4. CASE /\ w \in S /\ task[w].pc = "release"
             /\ Carrying(r)' = S \ {w}
             /\ sent'[r] = sent[r]
             /\ moved'[r].released = moved[r].released + task[w].amount
    BY <1>3, <1>5, <2>1, <2>4
  <2> QED  BY <2>2, <2>3, <2>4, CarryFrame
<1>6. CASE request'[r].amount # a
  <2>1. CreateInsert(w) /\ r = task[w].request  BY <1>6, AmountFrame
  <2>2. S = {} /\ Carrying(r)' = {}
    <3>1. task[w].pc = "insert"  BY <2>1 DEF CreateInsert, At
    <3>2. \A v \in Workers \ {w} : task[v].request # r
      BY <2>1, <3>1 DEF ReleaseInv, HeldOK, Making
    <3>3. S = {}  BY <3>1, <3>2 DEF Carrying, Releasing
    <3> QED  BY <3>1, <3>3, CarryFrame
  <2>3. sent' = sent /\ moved' = moved  BY <2>1 DEF CreateInsert
  <2>4. request'[r].amount \in Nat
    BY <2>1, <1>1 DEF CreateInsert, Request, TypesOK, RequestsOK
  <2>5. Cardinality({}) = 0 /\ IsFiniteSet({})  BY FS_EmptySet
  <2>6. moved[r].released <= sent[r]  BY <1>1, <1>2, <2>2, <2>5
  <2> HIDE DEF a, S
  <2> QED  BY <1>1, <2>2, <2>3, <2>4, <2>5, <2>6
<1> QED  BY <1>5, <1>6

LEMMA ReleaseInvStep == IInv /\ ReleaseInv /\ [Next]_vars => ReleaseInv'
<1> SUFFICES ASSUME IInv, ReleaseInv, [Next]_vars PROVE ReleaseInv'
  OBVIOUS
<1>1. TypesOK  BY DEF IInv, TypeOK, TypesOK
<1>2. CASE UNCHANGED <<request, moved, sent, task>>
  BY <1>2 DEF ReleaseInv, HeldOK, CarriedOK, Carrying
<1>3. CASE Environment
  BY <1>2, <1>3 DEF Environment, OwnerDeposit, EscrowLocks, EscrowUnlocks,
                    ledgerVars
<1>4. CASE UNCHANGED vars  BY <1>2, <1>4 DEF vars, ledgerVars
<1>5. ASSUME NEW w \in Workers, Continue(w) PROVE ReleaseInv'
  BY <1>1, <1>5, ContinueHolds, ContinueCarries DEF ReleaseInv
<1>6. ASSUME NEW w \in Workers, NEW r \in Withdrawals, Start(w, r)
      PROVE  ReleaseInv'
  BY <1>1, <1>6, StartReleases
<1> QED  BY <1>3, <1>4, <1>5, <1>6 DEF Next

(* Whatever requests race, what is taken out of the locked balance for a   *)
(* withdrawal was paid out for it by the gateway.                          *)
THEOREM OnlySentIsReleased == Spec => []ReleasedWasSent
<1>1. Spec => []ReleaseInv
  BY ReleaseInvInit, ReleaseInvStep, IInvHolds, PTL DEF Spec
<1>2. IInv /\ ReleaseInv => ReleasedWasSent
  <2> SUFFICES ASSUME IInv, ReleaseInv, NEW r \in Withdrawals
               PROVE  moved[r].released <= sent[r]
    BY DEF ReleasedWasSent
  <2> DEFINE n == Cardinality(Carrying(r))
  <2>1. n \in Nat
    BY FS_CardinalityType DEF ReleaseInv, CarriedOK
  <2>2. /\ request[r].amount \in Nat /\ moved[r].released \in Nat
        /\ sent[r] \in Nat
    BY DEF IInv, TypeOK, RequestsOK, LedgersOK, RequestRecord, MovedRecord
  <2>3. moved[r].released + request[r].amount * n <= sent[r]
    BY DEF ReleaseInv, CarriedOK
  <2> HIDE DEF n
  <2>4. request[r].amount * n \in Nat  BY <2>1, <2>2
  <2> QED  BY <2>2, <2>3, <2>4
<1> QED  BY <1>1, <1>2, IInvHolds, PTL
-----------------------------------------------------------------------------
(* Requests in turn.  What is stored of a withdrawal is compared with the  *)
(* point its request has reached: PointEntry says what the one worker      *)
(* finds there, SettledEntry what every other withdrawal looks like.  That *)
(* the locked balance is never short, so that no release and no unlock is  *)
(* refused, needs all withdrawals of the owner: AllHeld.                   *)
BookOf(r) == [status |-> request[r].status, amount |-> request[r].amount,
              row |-> row[r], moved |-> moved[r], sent |-> sent[r]]
EntryRecord == [status : Statuses, amount : Nat, row : RowStatuses,
                moved : MovedRecord, sent : Nat]
Ledger(e, locked, released, unlocked, paid, status) ==
  /\ e.moved.locked = locked /\ e.moved.released = released
  /\ e.moved.unlocked = unlocked
  /\ e.sent = paid /\ e.row = status

SettledEntry(e) ==
  /\ e.status # "PROCESSING"
  /\ e.status = "none" => Ledger(e, 0, 0, 0, 0, "none")
  /\ e.status = "REQUESTED" => Ledger(e, e.amount, 0, 0, 0, "PENDING")
  /\ e.status = "SUCCESS" => Ledger(e, e.amount, e.amount, 0, e.amount, "SUCCESS")
  /\ e.status \in {"FAILED", "CANCELLED"} =>
       Ledger(e, e.amount, 0, e.amount, 0, e.status)

\* The funds are locked, and nothing else has happened to them.
Locked(e, status) == Ledger(e, e.amount, 0, 0, 0, status)
PointEntry(t, e) ==
  /\ t.pc \in {"readToday", "insert"} =>
       e.status = "none" /\ Ledger(e, 0, 0, 0, 0, "none")
  /\ t.pc = "lock" => e.status = "REQUESTED" /\ Ledger(e, 0, 0, 0, 0, "none")
  /\ t.pc \notin {"readToday", "insert"} => t.amount = e.amount
  /\ t.pc \notin {"readToday", "insert", "lock"} => t.status = e.status
  /\ t.pc \in {"markProcessing", "saveCancelled"} =>
       e.status = "REQUESTED" /\ Locked(e, "PENDING")
  /\ t.pc = "gateway" => e.status = "PROCESSING" /\ Locked(e, "PENDING")
  /\ t.pc = "saveSuccess" =>
       e.status = "PROCESSING" /\ Ledger(e, e.amount, 0, 0, e.amount, "PENDING")
  /\ t.pc = "rowSuccess" =>
       e.status = "SUCCESS" /\ Ledger(e, e.amount, 0, 0, e.amount, "PENDING")
  /\ t.pc = "release" =>
       e.status = "SUCCESS" /\ Ledger(e, e.amount, 0, 0, e.amount, "SUCCESS")
  /\ t.pc = "markFailed" =>
       \/ e.status \in {"REQUESTED", "PROCESSING"} /\ Locked(e, "PENDING")
       \/ e.status = "FAILED" /\ SettledEntry(e)
  /\ t.pc = "rowFailed" => e.status = "FAILED" /\ Locked(e, "PENDING")
  /\ t.pc = "rowCancelled" => e.status = "CANCELLED" /\ Locked(e, "PENDING")
  /\ t.pc = "unlock" => e.status \in {"FAILED", "CANCELLED"} /\ Locked(e, e.status)
  /\ t.pc \in {"saveCancelled", "rowCancelled"} => ~t.trying
  /\ t.pc = "unlock" /\ t.trying => e.status = "FAILED"

Holds(e) == e.moved.locked - e.moved.released - e.moved.unlocked
HeldFor(u) ==
  [r \in Withdrawals |-> IF OwnerOf[r] = u THEN Holds(BookOf(r)) ELSE 0]
AllHeld ==
  \A u \in Users : wallet[u].locked = SumFunctionOnSet(HeldFor(u), Withdrawals)

\* Until it locks, nothing lowers the balance that a new request read.
Covered(t, available) ==
  t.pc \in {"readToday", "insert", "lock"} => available >= t.amount

TurnInv(w) ==
  /\ \A v \in Workers \ {w} : task[v] = Idle
  /\ \A u \in Users : escrowed[u] = 0
  /\ Request(w) = NoWithdrawal <=> At(w, "idle")
  /\ \A r \in Withdrawals \ {Request(w)} : SettledEntry(BookOf(r))
  /\ \A r \in Withdrawals : r = Request(w) =>
       PointEntry(task[w], BookOf(r)) /\ Covered(task[w], wallet[OwnerOf[r]].available)
  /\ AllHeld

LEMMA SumOverWithdrawals ==
  \A f, g : \A r \in Withdrawals :
    /\ \A q \in Withdrawals : f[q] \in Int
    /\ \A q \in Withdrawals : g[q] \in Int
    /\ \A q \in Withdrawals \ {r} : g[q] = f[q]
    => SumFunctionOnSet(g, Withdrawals)
         = SumFunctionOnSet(f, Withdrawals) + g[r] - f[r]
BY WithdrawalAssumption, SumChange

LEMMA Entries ==
  ASSUME TypeOK
  PROVE  \A r \in Withdrawals : BookOf(r) \in EntryRecord /\ Holds(BookOf(r)) \in Int
<1>1. /\ request \in [Withdrawals -> RequestRecord]
      /\ row \in [Withdrawals -> RowStatuses]
      /\ moved \in [Withdrawals -> MovedRecord]
      /\ sent \in [Withdrawals -> Nat]
  BY DEF TypeOK, RequestsOK, LedgersOK
<1> QED
  BY <1>1 DEF BookOf, EntryRecord, RequestRecord, MovedRecord, Holds

LEMMA SettledHolds ==
  ASSUME NEW e \in EntryRecord, SettledEntry(e)
  PROVE  Holds(e) \in Nat
BY DEF SettledEntry, EntryRecord, MovedRecord, Ledger, Holds, Statuses

\* The locked balance covers what is held for any one withdrawal.
LEMMA HeldIsLocked ==
  ASSUME TypeOK, AllHeld, NEW r \in Withdrawals, Holds(BookOf(r)) \in Nat,
         \A q \in Withdrawals \ {r} : SettledEntry(BookOf(q))
  PROVE  wallet[OwnerOf[r]].locked >= Holds(BookOf(r))
<1> DEFINE u == OwnerOf[r]
<1>1. u \in Users  BY WithdrawalAssumption
<1>2. \A q \in Withdrawals : Holds(BookOf(q)) \in Nat
  BY Entries, SettledHolds
<1>3. PICK f : f = HeldFor(u)  OBVIOUS
<1> DEFINE g == [q \in Withdrawals |-> IF q = r THEN 0 ELSE f[q]]
<1>4. /\ \A q \in Withdrawals : f[q] \in Nat
      /\ f[r] = Holds(BookOf(r))
  BY <1>2, <1>3 DEF HeldFor
<1>5. wallet[u].locked = SumFunctionOnSet(f, Withdrawals)
  BY <1>1, <1>3 DEF AllHeld
<1>6. /\ \A q \in Withdrawals : g[q] \in Nat
      /\ \A q \in Withdrawals \ {r} : g[q] = f[q]
      /\ g[r] = 0
  BY <1>4
<1> HIDE DEF g, u
<1>7. SumFunctionOnSet(g, Withdrawals) \in Nat
  BY <1>6, WithdrawalAssumption, SumNat
<1>8. SumFunctionOnSet(g, Withdrawals)
        = SumFunctionOnSet(f, Withdrawals) + g[r] - f[r]
  <2>1. /\ \A q \in Withdrawals : f[q] \in Int
        /\ \A q \in Withdrawals : g[q] \in Int
    BY <1>4, <1>6
  <2> QED  BY <1>6, <2>1, SumOverWithdrawals, Zenon
<1>9. SumFunctionOnSet(f, Withdrawals) \in Int
  <2>1. \A q \in Withdrawals : f[q] \in Int  BY <1>4
  <2> QED  BY <2>1, WithdrawalAssumption, SumInt
<1>10. SumFunctionOnSet(f, Withdrawals) >= f[r]
  <2>1. f[r] \in Nat  BY <1>4
  <2> QED  BY <1>6, <1>7, <1>8, <1>9, <2>1
<1> QED  BY <1>4, <1>5, <1>10 DEF u

(* The request of w moves to t and leaves the entry of r as e; the wallet  *)
(* of r's owner holds as much more as e does.                              *)
TurnMove(w, r, t, e) ==
  /\ task' = [task EXCEPT ![w] = t]
  /\ request' = [request EXCEPT ![r] = [status |-> e.status, amount |-> e.amount]]
  /\ row' = [row EXCEPT ![r] = e.row]
  /\ moved' = [moved EXCEPT ![r] = e.moved]
  /\ sent' = [sent EXCEPT ![r] = e.sent]
  /\ escrowed' = escrowed /\ e \in EntryRecord
  /\ Request(w) \in {r, NoWithdrawal} /\ t.request \in {r, NoWithdrawal}
  /\ t.request = NoWithdrawal <=> t.pc = "idle"
  /\ \A u \in Users :
       wallet'[u].locked = wallet[u].locked
         + (IF u = OwnerOf[r] THEN Holds(e) - Holds(BookOf(r)) ELSE 0)
  /\ IF t.pc = "idle" THEN SettledEntry(e)
     ELSE PointEntry(t, e) /\ Covered(t, wallet'[OwnerOf[r]].available)

LEMMA TurnMoves ==
  ASSUME TypeOK, TypeOK', NEW w \in Workers, TurnInv(w),
         NEW r \in Withdrawals, NEW t, NEW e, TurnMove(w, r, t, e)
  PROVE  TurnInv(w)'
<1>1. /\ task'[w] = t /\ \A v \in Workers \ {w} : task'[v] = task[v]
      /\ BookOf(r)' = e
      /\ \A q \in Withdrawals \ {r} : BookOf(q)' = BookOf(q)
  <2>1. /\ task \in [Workers -> TaskRecord]
        /\ request \in [Withdrawals -> RequestRecord]
        /\ row \in [Withdrawals -> RowStatuses]
        /\ moved \in [Withdrawals -> MovedRecord]
        /\ sent \in [Withdrawals -> Nat]
    BY DEF TypeOK, TasksOK, RequestsOK, LedgersOK
  <2>2. e = [status |-> e.status, amount |-> e.amount, row |-> e.row,
             moved |-> e.moved, sent |-> e.sent]
    BY DEF TurnMove, EntryRecord
  <2>3. /\ task'[w] = t /\ \A v \in Workers \ {w} : task'[v] = task[v]
    BY <2>1 DEF TurnMove
  <2>4. BookOf(r)' = e
    BY <2>1, <2>2 DEF TurnMove, BookOf
  <2>5. \A q \in Withdrawals \ {r} :
          /\ request'[q] = request[q] /\ row'[q] = row[q]
          /\ moved'[q] = moved[q] /\ sent'[q] = sent[q]
    BY <2>1 DEF TurnMove
  <2> QED  BY <2>3, <2>4, <2>5 DEF BookOf
<1>2. NoWithdrawal \notin Withdrawals /\ OwnerOf[r] \in Users
  BY WithdrawalAssumption
<1>3. /\ Request(w) \in {r, NoWithdrawal} /\ Request(w)' = t.request
      /\ t.request \in {r, NoWithdrawal}
      /\ t.request = NoWithdrawal <=> t.pc = "idle"
  BY <1>1 DEF TurnMove, Request
<1>4. \A q \in Withdrawals \ {r} : SettledEntry(BookOf(q))
  BY <1>2, <1>3 DEF TurnInv
<1>5. \A q \in Withdrawals \ {Request(w)'} : SettledEntry(BookOf(q)')
  <2> SUFFICES ASSUME NEW q \in Withdrawals \ {t.request}
               PROVE  SettledEntry(BookOf(q)')
    BY <1>3
  <2>1. CASE q = r
    <3>1. t.pc = "idle"  BY <1>3, <2>1
    <3>2. SettledEntry(e)  BY <3>1 DEF TurnMove
    <3> QED  BY <1>1, <2>1, <3>2
  <2>2. CASE q # r
    <3>1. BookOf(q)' = BookOf(q) /\ SettledEntry(BookOf(q))  BY <1>1, <1>4, <2>2
    <3> QED  BY <3>1
  <2> QED  BY <2>1, <2>2
<1>6. ASSUME NEW q \in Withdrawals, q = Request(w)'
      PROVE  PointEntry(task'[w], BookOf(q)')
             /\ Covered(task'[w], wallet'[OwnerOf[q]].available)
  <2>1. q = r /\ t.pc # "idle"  BY <1>2, <1>3, <1>6
  <2> QED  BY <1>1, <2>1 DEF TurnMove
<1>7. AllHeld'
  <2> SUFFICES ASSUME NEW u \in Users
               PROVE  wallet'[u].locked = SumFunctionOnSet(HeldFor(u)', Withdrawals)
    BY DEF AllHeld
  <2>1. PICK f : f = HeldFor(u)  OBVIOUS
  <2>2. PICK g : g = HeldFor(u)'  OBVIOUS
  <2>3. /\ \A q \in Withdrawals : f[q] \in Int
        /\ f[r] = IF u = OwnerOf[r] THEN Holds(BookOf(r)) ELSE 0
    BY <2>1, Entries DEF HeldFor
  <2>4. Holds(e) \in Int
    BY DEF TurnMove, Holds, EntryRecord, MovedRecord
  <2>5. /\ \A q \in Withdrawals \ {r} : g[q] = f[q]
        /\ g[r] = IF u = OwnerOf[r] THEN Holds(e) ELSE 0
    BY <1>1, <2>1, <2>2 DEF HeldFor, Holds
  <2>6. \A q \in Withdrawals : g[q] \in Int
    BY <2>3, <2>4, <2>5
  <2>7. SumFunctionOnSet(g, Withdrawals)
          = SumFunctionOnSet(f, Withdrawals) + g[r] - f[r]
    BY <2>3, <2>5, <2>6, SumOverWithdrawals, Zenon
  <2>8. wallet[u].locked = SumFunctionOnSet(f, Withdrawals)
    BY <2>1 DEF TurnInv, AllHeld
  <2>9. /\ wallet'[u].locked = wallet[u].locked + (IF u = OwnerOf[r] THEN
                                 Holds(e) - Holds(BookOf(r)) ELSE 0)
        /\ wallet[u].locked \in Nat /\ Holds(BookOf(r)) \in Int
    BY Entries DEF TurnMove, TypeOK, WalletTypeOK, WalletRecord
  <2>10. wallet'[u].locked = SumFunctionOnSet(g, Withdrawals)
    <3>1. CASE u = OwnerOf[r]
      <4>1. f[r] = Holds(BookOf(r)) /\ g[r] = Holds(e)  BY <2>3, <2>5, <3>1
      <4>2. wallet'[u].locked = wallet[u].locked + (Holds(e) - Holds(BookOf(r)))
        BY <2>9, <3>1
      <4> QED  BY <2>4, <2>7, <2>8, <2>9, <4>1, <4>2
    <3>2. CASE u # OwnerOf[r]
      <4>1. f[r] = 0 /\ g[r] = 0  BY <2>3, <2>5, <3>2
      <4>2. wallet'[u].locked = wallet[u].locked + 0  BY <2>9, <3>2
      <4> QED  BY <2>7, <2>8, <2>9, <4>1, <4>2
    <3> QED  BY <3>1, <3>2
  <2> QED  BY <2>2, <2>10
<1>8. /\ \A v \in Workers \ {w} : task'[v] = Idle
      /\ \A u \in Users : escrowed'[u] = 0
      /\ Request(w)' = NoWithdrawal <=> At(w, "idle")'
  BY <1>1, <1>3 DEF TurnInv, TurnMove, At
<1> QED  BY <1>5, <1>6, <1>7, <1>8 DEF TurnInv

\* What the worker in turn finds.
LEMMA TurnKnows ==
  ASSUME TypeOK, NEW w \in Workers, TurnInv(w), ~At(w, "idle")
  PROVE  \E r \in Withdrawals, t \in TaskRecord, e \in EntryRecord :
           /\ r = Request(w) /\ t = task[w] /\ e = BookOf(r) /\ t.request = r
           /\ t.pc # "idle" /\ t.amount \in Nat /\ PointEntry(t, e)
           /\ Covered(t, wallet[OwnerOf[r]].available)
<1>1. Request(w) \in Withdrawals /\ task[w] \in TaskRecord
  BY DEF TypeOK, TasksOK, TaskOK, Request, At
<1>2. BookOf(Request(w)) \in EntryRecord  BY <1>1, Entries
<1>3. PICK r, t, e : r = Request(w) /\ t = task[w] /\ e = BookOf(r)  OBVIOUS
<1>4. PointEntry(t, e) /\ Covered(t, wallet[OwnerOf[r]].available)
  BY <1>1, <1>3 DEF TurnInv
<1>5. t.pc # "idle" /\ t.request = r /\ t.amount \in Nat
  BY <1>1, <1>3 DEF At, Request, TaskRecord
<1> QED  BY <1>1, <1>2, <1>3, <1>4, <1>5

\* A step that leaves the wallets alone: the entry's holdings stay.
LEMMA QuietMove ==
  ASSUME TypeOK, NEW w \in Workers, NEW r \in Withdrawals, NEW t, NEW e,
         UNCHANGED walletVars, Holds(e) = Holds(BookOf(r)),
         Covered(t, wallet[OwnerOf[r]].available)
  PROVE  /\ \A u \in Users :
              wallet'[u].locked = wallet[u].locked
                + (IF u = OwnerOf[r] THEN Holds(e) - Holds(BookOf(r)) ELSE 0)
         /\ Covered(t, wallet'[OwnerOf[r]].available)
<1>1. wallet' = wallet  BY DEF walletVars
<1>2. \A u \in Users : wallet[u].locked \in Nat
  BY DEF TypeOK, WalletTypeOK, WalletRecord
<1>3. Holds(BookOf(r)) \in Int  BY Entries
<1>4. Holds(e) - Holds(BookOf(r)) = 0  BY <1>3
<1> QED  BY <1>1, <1>2, <1>4

\* The maps of the ledgers, one entry replaced.
Replaced(r, e) ==
  /\ request' = [request EXCEPT ![r] = [status |-> e.status, amount |-> e.amount]]
  /\ row' = [row EXCEPT ![r] = e.row]
  /\ moved' = [moved EXCEPT ![r] = e.moved]
  /\ sent' = [sent EXCEPT ![r] = e.sent]

LEMMA Replacing ==
  ASSUME TypeOK, NEW r \in Withdrawals, NEW e \in EntryRecord, e = BookOf(r)
  PROVE  /\ UNCHANGED <<request, row, moved, sent>> => Replaced(r, e)
         /\ \A s : /\ request' = [request EXCEPT ![r].status = s]
                   /\ UNCHANGED <<row, moved, sent>>
                   => Replaced(r, [e EXCEPT !.status = s])
         /\ \A s : /\ row' = [row EXCEPT ![r] = s]
                   /\ UNCHANGED <<request, moved, sent>>
                   => Replaced(r, [e EXCEPT !.row = s])
         /\ \A m : /\ sent' = [sent EXCEPT ![r] = m]
                   /\ UNCHANGED <<request, row, moved>>
                   => Replaced(r, [e EXCEPT !.sent = m])
         /\ \A m : /\ moved' = [moved EXCEPT ![r] = m]
                   /\ UNCHANGED <<request, row, sent>>
                   => Replaced(r, [e EXCEPT !.moved = m])
<1>1. /\ request \in [Withdrawals -> RequestRecord]
      /\ row \in [Withdrawals -> RowStatuses]
      /\ moved \in [Withdrawals -> MovedRecord]
      /\ sent \in [Withdrawals -> Nat]
  BY DEF TypeOK, RequestsOK, LedgersOK
<1>2. /\ request[r] = [status |-> e.status, amount |-> e.amount]
      /\ row[r] = e.row /\ moved[r] = e.moved /\ sent[r] = e.sent
  BY <1>1 DEF BookOf, RequestRecord
<1>3. /\ request = [request EXCEPT ![r] = [status |-> e.status, amount |-> e.amount]]
      /\ row = [row EXCEPT ![r] = e.row]
      /\ moved = [moved EXCEPT ![r] = e.moved]
      /\ sent = [sent EXCEPT ![r] = e.sent]
  BY <1>1, <1>2
<1>4. UNCHANGED <<request, row, moved, sent>> => Replaced(r, e)
  BY <1>3 DEF Replaced
<1>5. ASSUME NEW s, request' = [request EXCEPT ![r].status = s],
             UNCHANGED <<row, moved, sent>>
      PROVE  Replaced(r, [e EXCEPT !.status = s])
  <2>1. request' = [request EXCEPT ![r] = [status |-> s, amount |-> e.amount]]
    <3>1. [request[r] EXCEPT !.status = s] = [status |-> s, amount |-> e.amount]
      BY <1>2
    <3>2. request' = [request EXCEPT ![r] = [request[r] EXCEPT !.status = s]]
      BY <1>5
    <3> QED  BY <3>1, <3>2
  <2>2. [e EXCEPT !.status = s] = [status |-> s, amount |-> e.amount,
           row |-> e.row, moved |-> e.moved, sent |-> e.sent]
    BY DEF EntryRecord
  <2> QED  BY <1>3, <1>5, <2>1, <2>2 DEF Replaced
<1>6. ASSUME NEW s, row' = [row EXCEPT ![r] = s],
             UNCHANGED <<request, moved, sent>>
      PROVE  Replaced(r, [e EXCEPT !.row = s])
  <2>1. [e EXCEPT !.row = s] = [status |-> e.status, amount |-> e.amount,
           row |-> s, moved |-> e.moved, sent |-> e.sent]
    BY DEF EntryRecord
  <2> QED  BY <1>3, <1>6, <2>1 DEF Replaced
<1>7. ASSUME NEW m, sent' = [sent EXCEPT ![r] = m],
             UNCHANGED <<request, row, moved>>
      PROVE  Replaced(r, [e EXCEPT !.sent = m])
  <2>1. [e EXCEPT !.sent = m] = [status |-> e.status, amount |-> e.amount,
           row |-> e.row, moved |-> e.moved, sent |-> m]
    BY DEF EntryRecord
  <2> QED  BY <1>3, <1>7, <2>1 DEF Replaced
<1>8. ASSUME NEW m, moved' = [moved EXCEPT ![r] = m],
             UNCHANGED <<request, row, sent>>
      PROVE  Replaced(r, [e EXCEPT !.moved = m])
  <2>1. [e EXCEPT !.moved = m] = [status |-> e.status, amount |-> e.amount,
           row |-> e.row, moved |-> m, sent |-> e.sent]
    BY DEF EntryRecord
  <2> QED  BY <1>3, <1>8, <2>1 DEF Replaced
<1> QED  BY <1>4, <1>5, <1>6, <1>7, <1>8

\* A step of the worker in turn that moves no money.
LEMMA QuietStep ==
  ASSUME TypeOK, TypeOK', NEW w \in Workers, TurnInv(w),
         NEW r \in Withdrawals, NEW t, NEW e \in EntryRecord,
         task' = [task EXCEPT ![w] = t], Replaced(r, e),
         escrowed' = escrowed, UNCHANGED walletVars,
         Holds(e) = Holds(BookOf(r)),
         Request(w) \in {r, NoWithdrawal}, t.request \in {r, NoWithdrawal},
         t.request = NoWithdrawal <=> t.pc = "idle",
         IF t.pc = "idle" THEN SettledEntry(e)
         ELSE PointEntry(t, e) /\ Covered(t, wallet[OwnerOf[r]].available)
  PROVE  TurnInv(w)'
<1>1. Covered(t, wallet[OwnerOf[r]].available)
  BY DEF Covered
<1>2. TurnMove(w, r, t, e)
  BY <1>1, QuietMove DEF TurnMove, Replaced
<1> QED  BY <1>2, TurnMoves

\* A worker between requests starts one.
LEMMA TurnStarts ==
  ASSUME TypeOK, TypeOK', NEW w \in Workers, TurnInv(w),
         NEW r \in Withdrawals, Start(w, r)
  PROVE  TurnInv(w)'
<1>1. /\ At(w, "idle") /\ UNCHANGED <<walletVars, ledgerVars>>
  BY DEF Start, CreateReadBalance, ProcessRead, RejectRead, CancelRead, May
<1>2. /\ Request(w) = NoWithdrawal /\ SettledEntry(BookOf(r))
      /\ NoWithdrawal \notin Withdrawals
  BY <1>1, WithdrawalAssumption DEF TurnInv
<1>3. PICK e \in EntryRecord : e = BookOf(r)  BY Entries
<1>4. Replaced(r, e) /\ escrowed' = escrowed /\ UNCHANGED walletVars
  BY <1>1, <1>3, Replacing DEF ledgerVars
<1>5. e.status = request[r].status /\ e.amount = request[r].amount
  BY <1>3 DEF BookOf
<1>6. ASSUME NEW a \in WithdrawalAmounts, CreateReadBalance(w, r, a)
      PROVE  TurnInv(w)'
  <2> DEFINE t == [Idle EXCEPT !.pc = "readToday", !.request = r, !.amount = a]
  <2>1. /\ t.pc = "readToday" /\ t.request = r /\ t.amount = a
    BY DEF Idle
  <2>2. /\ task' = [task EXCEPT ![w] = t]
        /\ e.status = "none" /\ wallet[OwnerOf[r]].available >= a
    BY <1>5, <1>6 DEF CreateReadBalance
  <2> HIDE DEF t
  <2>3. PointEntry(t, e) /\ Covered(t, wallet[OwnerOf[r]].available)
    BY <1>2, <1>3, <2>1, <2>2 DEF PointEntry, Covered, SettledEntry
  <2> QED  BY <1>2, <1>3, <1>4, <2>1, <2>2, <2>3, QuietStep
<1>7. ASSUME NEW pc \in {"markProcessing", "markFailed", "saveCancelled"},
             Begin(w, r, pc), request[r].status \in {"REQUESTED", "PROCESSING"}
      PROVE  TurnInv(w)'
  <2> DEFINE t == [pc |-> pc, request |-> r, status |-> request[r].status,
                   amount |-> request[r].amount, trying |-> FALSE]
  <2>1. /\ t.pc = pc /\ t.request = r /\ t.status = e.status
        /\ t.amount = e.amount /\ ~t.trying /\ task' = [task EXCEPT ![w] = t]
    BY <1>5, <1>7 DEF Begin
  <2> HIDE DEF t
  <2>2. e.status = "REQUESTED" /\ Locked(e, "PENDING")
    BY <1>2, <1>3, <1>5, <1>7 DEF SettledEntry, Locked
  <2>3. PointEntry(t, e) /\ Covered(t, wallet[OwnerOf[r]].available)
    BY <1>7, <2>1, <2>2 DEF PointEntry, Covered
  <2> QED  BY <1>2, <1>3, <1>4, <1>7, <2>1, <2>3, QuietStep
<1> QED
  BY <1>6, <1>7 DEF Start, ProcessRead, RejectRead, CancelRead

\* What a request that goes on keeps of its task.
GoesOn(t0, t, r) ==
  /\ t.request = r /\ t.amount = t0.amount /\ t.pc # "idle"

LEMMA TaskForms ==
  ASSUME TypeOK, NEW w \in Workers, NEW t0 \in TaskRecord, t0 = task[w]
  PROVE  /\ \A pc : task' = [task EXCEPT ![w].pc = pc] =>
              task' = [task EXCEPT ![w] = [t0 EXCEPT !.pc = pc]]
         /\ \A pc, s : task' = [task EXCEPT ![w].status = s, ![w].pc = pc] =>
              task' = [task EXCEPT ![w] = [t0 EXCEPT !.status = s, !.pc = pc]]
         /\ \A pc, b : task' = [task EXCEPT ![w].pc = pc, ![w].trying = b] =>
              task' = [task EXCEPT ![w] = [t0 EXCEPT !.pc = pc, !.trying = b]]
         /\ Done(w) => task' = [task EXCEPT ![w] = Idle]
         /\ Idle.request = NoWithdrawal /\ Idle.pc = "idle"
<1>1. task \in [Workers -> TaskRecord]  BY DEF TypeOK, TasksOK
<1>2. \A pc : task' = [task EXCEPT ![w].pc = pc] =>
              task' = [task EXCEPT ![w] = [t0 EXCEPT !.pc = pc]]
  BY <1>1
<1>3. \A pc, s : task' = [task EXCEPT ![w].status = s, ![w].pc = pc] =>
        task' = [task EXCEPT ![w] = [t0 EXCEPT !.status = s, !.pc = pc]]
  BY <1>1
<1>4. \A pc, b : task' = [task EXCEPT ![w].pc = pc, ![w].trying = b] =>
        task' = [task EXCEPT ![w] = [t0 EXCEPT !.pc = pc, !.trying = b]]
  BY <1>1
<1> QED  BY <1>2, <1>3, <1>4 DEF Done, Idle, TaskRecord

LEMMA EntryForms ==
  ASSUME NEW e0 \in EntryRecord
  PROVE  /\ \A s \in Statuses : LET e == [e0 EXCEPT !.status = s] IN
              /\ e \in EntryRecord /\ e.status = s /\ e.amount = e0.amount
              /\ e.row = e0.row /\ e.moved = e0.moved /\ e.sent = e0.sent
         /\ \A s \in RowStatuses : LET e == [e0 EXCEPT !.row = s] IN
              /\ e \in EntryRecord /\ e.status = e0.status /\ e.amount = e0.amount
              /\ e.row = s /\ e.moved = e0.moved /\ e.sent = e0.sent
         /\ \A m \in Nat : LET e == [e0 EXCEPT !.sent = m] IN
              /\ e \in EntryRecord /\ e.status = e0.status /\ e.amount = e0.amount
              /\ e.row = e0.row /\ e.moved = e0.moved /\ e.sent = m
         /\ \A m \in MovedRecord : LET e == [e0 EXCEPT !.moved = m] IN
              /\ e \in EntryRecord /\ e.status = e0.status /\ e.amount = e0.amount
              /\ e.row = e0.row /\ e.moved = m /\ e.sent = e0.sent
BY DEF EntryRecord

\* The saves of a status.
LEMMA TurnSaves ==
  ASSUME TypeOK, TypeOK', NEW w \in Workers, TurnInv(w),
         \/ ProcessMark(w) \/ ProcessSuccess(w) \/ SaveCancelled(w)
         \/ At(w, "markFailed") /\ canMarkFailed(task[w].status)
              /\ Save(w, "FAILED", "rowFailed")
  PROVE  TurnInv(w)'
<1>1. ~At(w, "idle")
  BY DEF ProcessMark, ProcessSuccess, SaveCancelled, At
<1>2. PICK r \in Withdrawals, t0 \in TaskRecord, e0 \in EntryRecord :
        /\ r = Request(w) /\ t0 = task[w] /\ e0 = BookOf(r) /\ t0.request = r
        /\ t0.pc # "idle" /\ t0.amount \in Nat /\ PointEntry(t0, e0)
        /\ Covered(t0, wallet[OwnerOf[r]].available)
  BY <1>1, TurnKnows
<1>3. PICK s \in Statuses, pc \in Points :
        /\ Save(w, s, pc)
        /\ \/ t0.pc = "markProcessing" /\ s = "PROCESSING" /\ pc = "gateway"
           \/ t0.pc = "saveSuccess" /\ s = "SUCCESS" /\ pc = "rowSuccess"
           \/ t0.pc = "saveCancelled" /\ s = "CANCELLED" /\ pc = "rowCancelled"
           \/ /\ t0.pc = "markFailed" /\ s = "FAILED" /\ pc = "rowFailed"
              /\ t0.status \in {"REQUESTED", "PROCESSING"}
  BY <1>2 DEF ProcessMark, ProcessSuccess, SaveCancelled, At, Statuses, Points,
              canMarkFailed
<1> DEFINE t == [t0 EXCEPT !.status = s, !.pc = pc]
           e == [e0 EXCEPT !.status = s]
<1>4. /\ task' = [task EXCEPT ![w] = t] /\ t.pc = pc /\ t.request = r
      /\ t.amount = t0.amount /\ t.status = s /\ t.trying = t0.trying
  <2>1. task' = [task EXCEPT ![w].status = s, ![w].pc = pc]
    BY <1>3 DEF Save
  <2>2. task' = [task EXCEPT ![w] = t]
    BY <1>2, <2>1, TaskForms, ZenonT(40)
  <2>3. /\ t.pc = pc /\ t.request = r /\ t.amount = t0.amount
        /\ t.status = s /\ t.trying = t0.trying
    BY <1>2 DEF TaskRecord
  <2> QED  BY <2>2, <2>3
<1>5. /\ e \in EntryRecord /\ e.status = s /\ e.amount = e0.amount
      /\ e.row = e0.row /\ e.moved = e0.moved /\ e.sent = e0.sent
  BY EntryForms
<1>6. Replaced(r, e) /\ escrowed' = escrowed /\ UNCHANGED walletVars
  BY <1>2, <1>3, Replacing DEF Save
<1> HIDE DEF t, e
<1>7. PointEntry(t, e)
  BY <1>2, <1>3, <1>4, <1>5 DEF PointEntry, Ledger, Locked, SettledEntry
<1>8. t.pc # "idle" /\ Covered(t, wallet[OwnerOf[r]].available)
  BY <1>3, <1>4 DEF Covered
<1>9. Holds(e) = Holds(BookOf(r))  BY <1>2, <1>5 DEF Holds
<1>10. t.request # NoWithdrawal  BY <1>4, WithdrawalAssumption
<1> QED  BY <1>2, <1>4, <1>5, <1>6, <1>7, <1>8, <1>9, <1>10, QuietStep

\* The updates of the Transaction row.
LEMMA TurnRows ==
  ASSUME TypeOK, TypeOK', NEW w \in Workers, TurnInv(w),
         RowSuccess(w) \/ RowFailed(w) \/ RowCancelled(w)
  PROVE  TurnInv(w)'
<1>1. ~At(w, "idle")
  BY DEF RowSuccess, RowFailed, RowCancelled, At
<1>2. PICK r \in Withdrawals, t0 \in TaskRecord, e0 \in EntryRecord :
        /\ r = Request(w) /\ t0 = task[w] /\ e0 = BookOf(r) /\ t0.request = r
        /\ t0.pc # "idle" /\ t0.amount \in Nat /\ PointEntry(t0, e0)
        /\ Covered(t0, wallet[OwnerOf[r]].available)
  BY <1>1, TurnKnows
<1>3. PICK s \in RowStatuses, pc \in Points :
        /\ UpdateRow(w, s, pc)
        /\ \/ t0.pc = "rowSuccess" /\ s = "SUCCESS" /\ pc = "release"
           \/ t0.pc = "rowFailed" /\ s = "FAILED" /\ pc = "unlock"
           \/ t0.pc = "rowCancelled" /\ s = "CANCELLED" /\ pc = "unlock"
  BY <1>2 DEF RowSuccess, RowFailed, RowCancelled, At, RowStatuses, Points
<1> DEFINE t == [t0 EXCEPT !.pc = pc]
           e == [e0 EXCEPT !.row = s]
<1>4. /\ task' = [task EXCEPT ![w] = t] /\ t.pc = pc /\ t.request = r
      /\ t.amount = t0.amount /\ t.status = t0.status /\ t.trying = t0.trying
  <2>1. task' = [task EXCEPT ![w].pc = pc]  BY <1>3 DEF UpdateRow, Go
  <2>2. task' = [task EXCEPT ![w] = t]
    BY <1>2, <2>1, TaskForms, ZenonT(40)
  <2>3. /\ t.pc = pc /\ t.request = r /\ t.amount = t0.amount
        /\ t.status = t0.status /\ t.trying = t0.trying
    BY <1>2 DEF TaskRecord
  <2> QED  BY <2>2, <2>3
<1>5. /\ e \in EntryRecord /\ e.status = e0.status /\ e.amount = e0.amount
      /\ e.row = s /\ e.moved = e0.moved /\ e.sent = e0.sent
  BY EntryForms
<1>6. e0.row = "PENDING"
  BY <1>2, <1>3 DEF PointEntry, Ledger, Locked
<1>7. Replaced(r, e) /\ escrowed' = escrowed /\ UNCHANGED walletVars
  <2>1. row[r] = "PENDING" /\ row \in [Withdrawals -> RowStatuses]
    BY <1>2, <1>6 DEF BookOf, TypeOK, LedgersOK
  <2>2. row' = [row EXCEPT ![r] = s]
    BY <1>2, <1>3, <2>1 DEF UpdateRow
  <2> QED  BY <1>2, <1>3, <2>2, Replacing DEF UpdateRow
<1> HIDE DEF t, e
<1>8. PointEntry(t, e)
  BY <1>2, <1>3, <1>4, <1>5 DEF PointEntry, Ledger, Locked
<1>9. t.pc # "idle" /\ Covered(t, wallet[OwnerOf[r]].available)
  BY <1>3, <1>4 DEF Covered
<1>10. Holds(e) = Holds(BookOf(r))  BY <1>2, <1>5 DEF Holds
<1>11. t.request # NoWithdrawal  BY <1>4, WithdrawalAssumption
<1> QED  BY <1>2, <1>4, <1>5, <1>7, <1>8, <1>9, <1>10, <1>11, QuietStep

\* The first steps of a new request.
LEMMA TurnCreates ==
  ASSUME TypeOK, TypeOK', NEW w \in Workers, TurnInv(w),
         CreateReadToday(w) \/ CreateInsert(w)
  PROVE  TurnInv(w)'
<1>1. ~At(w, "idle")
  BY DEF CreateReadToday, CreateInsert, At
<1>2. PICK r \in Withdrawals, t0 \in TaskRecord, e0 \in EntryRecord :
        /\ r = Request(w) /\ t0 = task[w] /\ e0 = BookOf(r) /\ t0.request = r
        /\ t0.pc # "idle" /\ t0.amount \in Nat /\ PointEntry(t0, e0)
        /\ Covered(t0, wallet[OwnerOf[r]].available)
  BY <1>1, TurnKnows
<1>3. /\ escrowed' = escrowed /\ UNCHANGED walletVars
      /\ NoWithdrawal \notin Withdrawals
  BY WithdrawalAssumption DEF CreateReadToday, CreateInsert, ledgerVars
<1>4. CASE CreateReadToday(w) /\ Done(w)
  <2>1. Replaced(r, e0)
    BY <1>2, <1>4, Replacing DEF CreateReadToday, ledgerVars
  <2>2. task' = [task EXCEPT ![w] = Idle]  BY <1>4 DEF Done
  <2>3. SettledEntry(e0)
    BY <1>2, <1>4 DEF CreateReadToday, At, PointEntry, SettledEntry
  <2>4. Idle.request = NoWithdrawal /\ Idle.pc = "idle"  BY DEF Idle
  <2> QED  BY <1>2, <1>3, <2>1, <2>2, <2>3, <2>4, QuietStep
<1>5. CASE CreateReadToday(w) /\ Go(w, "insert")
  <2> DEFINE t == [t0 EXCEPT !.pc = "insert"]
  <2>1. Replaced(r, e0)
    BY <1>2, <1>5, Replacing DEF CreateReadToday, ledgerVars
  <2>2. task' = [task EXCEPT ![w] = t]  BY <1>2, <1>5, TaskForms, ZenonT(40) DEF Go
  <2>3. /\ t.pc = "insert" /\ t.request = r /\ t.amount = t0.amount
        /\ t.status = t0.status /\ t.trying = t0.trying
    BY <1>2 DEF TaskRecord
  <2> HIDE DEF t
  <2>4. PointEntry(t, e0) /\ Covered(t, wallet[OwnerOf[r]].available)
    BY <1>2, <1>5, <2>3 DEF CreateReadToday, At, PointEntry, Covered
  <2> QED  BY <1>2, <1>3, <2>1, <2>2, <2>3, <2>4, QuietStep
<1>6. CASE CreateInsert(w)
  <2> DEFINE t == [t0 EXCEPT !.pc = "lock"]
             e == [e0 EXCEPT !.status = "REQUESTED", !.amount = t0.amount]
  <2>1. /\ e \in EntryRecord /\ e.status = "REQUESTED" /\ e.amount = t0.amount
        /\ e.row = e0.row /\ e.moved = e0.moved /\ e.sent = e0.sent
    BY <1>2 DEF EntryRecord, Statuses
  <2>2. /\ row = [row EXCEPT ![r] = e0.row]
        /\ moved = [moved EXCEPT ![r] = e0.moved]
        /\ sent = [sent EXCEPT ![r] = e0.sent]
    BY <1>2 DEF BookOf, TypeOK, LedgersOK
  <2>3. task' = [task EXCEPT ![w] = t]
    BY <1>2, <1>6, TaskForms, ZenonT(40) DEF CreateInsert, Go
  <2>4. /\ t.pc = "lock" /\ t.request = r /\ t.amount = t0.amount
        /\ t.status = t0.status /\ t.trying = t0.trying
    BY <1>2 DEF TaskRecord
  <2> HIDE DEF t, e
  <2>5. Replaced(r, e)
    BY <1>2, <1>6, <2>1, <2>2 DEF CreateInsert, Replaced
  <2>6. PointEntry(t, e) /\ Covered(t, wallet[OwnerOf[r]].available)
    BY <1>2, <1>6, <2>1, <2>4
    DEF CreateInsert, At, PointEntry, Covered, Ledger
  <2>7. Holds(e) = Holds(BookOf(r))  BY <1>2, <2>1 DEF Holds
  <2> QED  BY <1>2, <1>3, <2>1, <2>3, <2>4, <2>5, <2>6, <2>7, QuietStep
<1> QED  BY <1>4, <1>5, <1>6 DEF CreateReadToday

\* The gateway pays and answers, refuses or throws.
LEMMA TurnGateway ==
  ASSUME TypeOK, TypeOK', NEW w \in Workers, TurnInv(w), Gateway(w),
         sent' # sent => task'[w].pc = "saveSuccess"
  PROVE  TurnInv(w)'
<1>1. ~At(w, "idle")  BY DEF Gateway, At
<1>2. PICK r \in Withdrawals, t0 \in TaskRecord, e0 \in EntryRecord :
        /\ r = Request(w) /\ t0 = task[w] /\ e0 = BookOf(r) /\ t0.request = r
        /\ t0.pc # "idle" /\ t0.amount \in Nat /\ PointEntry(t0, e0)
        /\ Covered(t0, wallet[OwnerOf[r]].available)
  BY <1>1, TurnKnows
<1>3. /\ escrowed' = escrowed /\ UNCHANGED walletVars
      /\ UNCHANGED <<request, row, moved>> /\ t0.pc = "gateway"
      /\ NoWithdrawal \notin Withdrawals
  BY <1>2, WithdrawalAssumption DEF Gateway, At
<1>4. /\ e0.status = "PROCESSING" /\ t0.status = "PROCESSING"
      /\ t0.amount = e0.amount /\ Locked(e0, "PENDING")
      /\ e0.amount \in Nat /\ e0.sent = 0 /\ sent[r] = 0
  BY <1>2, <1>3 DEF PointEntry, Locked, Ledger, EntryRecord, BookOf
<1>5. CASE Pays(w) /\ Try(w, "saveSuccess")
  <2> DEFINE t == [t0 EXCEPT !.pc = "saveSuccess", !.trying = TRUE]
             e == [e0 EXCEPT !.sent = e0.amount]
  <2>1. sent' = [sent EXCEPT ![r] = e0.amount]
    <3>1. sent \in [Withdrawals -> Nat]  BY DEF TypeOK, LedgersOK
    <3>2. sent' = [sent EXCEPT ![r] = sent[r] + t0.amount]
      BY <1>2, <1>5 DEF Pays
    <3>3. sent[r] + t0.amount = e0.amount  BY <1>4
    <3> QED  BY <3>2, <3>3
  <2>2. Replaced(r, e)  BY <1>2, <1>3, <2>1, Replacing
  <2>3. task' = [task EXCEPT ![w] = t]
    BY <1>2, <1>5, TaskForms, ZenonT(40) DEF Try
  <2>4. /\ t.pc = "saveSuccess" /\ t.request = r /\ t.amount = t0.amount
        /\ t.status = t0.status
    BY <1>2 DEF TaskRecord
  <2>5. /\ e \in EntryRecord /\ e.status = e0.status /\ e.amount = e0.amount
        /\ e.row = e0.row /\ e.moved = e0.moved /\ e.sent = e0.amount
    BY <1>4 DEF EntryRecord
  <2> HIDE DEF t, e
  <2>6. PointEntry(t, e) /\ Covered(t, wallet[OwnerOf[r]].available)
    BY <1>4, <2>4, <2>5 DEF PointEntry, Covered, Locked, Ledger
  <2>7. Holds(e) = Holds(BookOf(r))  BY <1>2, <2>5 DEF Holds
  <2> QED  BY <1>2, <1>3, <2>2, <2>3, <2>4, <2>5, <2>6, <2>7, QuietStep
<1>6. ASSUME NEW b \in BOOLEAN, UNCHANGED sent,
             task' = [task EXCEPT ![w].pc = "markFailed", ![w].trying = b]
      PROVE  TurnInv(w)'
  <2> DEFINE t == [t0 EXCEPT !.pc = "markFailed", !.trying = b]
  <2>1. Replaced(r, e0)  BY <1>2, <1>3, <1>6, Replacing
  <2>2. task' = [task EXCEPT ![w] = t]
    BY <1>2, <1>6, TaskForms, ZenonT(40)
  <2>3. /\ t.pc = "markFailed" /\ t.request = r /\ t.amount = t0.amount
        /\ t.status = t0.status
    BY <1>2 DEF TaskRecord
  <2> HIDE DEF t
  <2>4. PointEntry(t, e0) /\ Covered(t, wallet[OwnerOf[r]].available)
    BY <1>4, <2>3 DEF PointEntry, Covered
  <2> QED  BY <1>2, <1>3, <2>1, <2>2, <2>3, <2>4, QuietStep
<1>7. CASE Pays(w) /\ Catch(w)
  <2>1. sent \in [Withdrawals -> Nat] /\ task \in [Workers -> TaskRecord]
    BY DEF TypeOK, LedgersOK, TasksOK
  <2>2. sent'[r] = sent[r] + t0.amount  BY <1>2, <1>7, <2>1 DEF Pays
  <2>3. t0.amount > 0
    BY <1>1, <1>2, AmountsAssumption DEF TypeOK, TasksOK, TaskOK, At
  <2>4. sent' # sent  BY <1>4, <2>2, <2>3
  <2>5. task'[w].pc = "markFailed"  BY <1>7, <2>1 DEF Catch, TaskRecord
  <2> QED  BY <2>4, <2>5
<1> QED  BY <1>5, <1>6, <1>7 DEF Gateway, Try, Catch

\* The steps that move money: what the wallet holds changes as the entry.
LEMMA MoneyStep ==
  ASSUME TypeOK, TypeOK', NEW w \in Workers, TurnInv(w),
         NEW r \in Withdrawals, NEW t, NEW e \in EntryRecord,
         task' = [task EXCEPT ![w] = t], Replaced(r, e),
         escrowed' = escrowed, r = Request(w),
         NEW change \in Int, Holds(e) = Holds(BookOf(r)) + change,
         \A u \in Users : wallet'[u].locked = wallet[u].locked
                            + (IF u = OwnerOf[r] THEN change ELSE 0),
         t.request \in {r, NoWithdrawal}, t.request = NoWithdrawal <=> t.pc = "idle",
         IF t.pc = "idle" THEN SettledEntry(e)
         ELSE PointEntry(t, e) /\ t.pc \notin {"readToday", "insert", "lock"}
  PROVE  TurnInv(w)'
<1>1. Holds(e) - Holds(BookOf(r)) = change  BY Entries
<1>2. t.pc # "idle" => Covered(t, wallet'[OwnerOf[r]].available)
  BY DEF Covered
<1>3. TurnMove(w, r, t, e)
  BY <1>1, <1>2 DEF TurnMove, Replaced
<1> QED  BY <1>3, TurnMoves

LEMMA LockedBalances ==
  ASSUME TypeOK, NEW u \in Users, NEW a \in Nat
  PROVE  /\ LockFunds(u, a) => \A v \in Users :
              wallet'[v].locked = wallet[v].locked + (IF v = u THEN a ELSE 0)
         /\ UnlockFunds(u, a) \/ ReleaseLockedWithdrawal(u, a) => \A v \in Users :
              wallet'[v].locked = wallet[v].locked + (IF v = u THEN -a ELSE 0)
<1>1. wallet \in [Users -> WalletRecord] /\ \A v \in Users : wallet[v].locked \in Nat
  BY DEF TypeOK, WalletTypeOK, WalletRecord
<1>2. ASSUME LockFunds(u, a), NEW v \in Users
      PROVE  wallet'[v].locked = wallet[v].locked + (IF v = u THEN a ELSE 0)
  BY <1>1, <1>2 DEF LockFunds, WalletRecord
<1>3. ASSUME UnlockFunds(u, a), NEW v \in Users
      PROVE  wallet'[v].locked = wallet[v].locked + (IF v = u THEN -a ELSE 0)
  BY <1>1, <1>3 DEF UnlockFunds, WalletRecord
<1>4. ASSUME ReleaseLockedWithdrawal(u, a), NEW v \in Users
      PROVE  wallet'[v].locked = wallet[v].locked + (IF v = u THEN -a ELSE 0)
  BY <1>1, <1>4 DEF ReleaseLockedWithdrawal, WalletRecord
<1> QED  BY <1>2, <1>3, <1>4

LEMMA TurnLocks ==
  ASSUME TypeOK, TypeOK', NEW w \in Workers, TurnInv(w), CreateLock(w)
  PROVE  TurnInv(w)'
<1>1. ~At(w, "idle")  BY DEF CreateLock, At
<1>2. PICK r \in Withdrawals, t0 \in TaskRecord, e0 \in EntryRecord :
        /\ r = Request(w) /\ t0 = task[w] /\ e0 = BookOf(r) /\ t0.request = r
        /\ t0.pc # "idle" /\ t0.amount \in Nat /\ PointEntry(t0, e0)
        /\ Covered(t0, wallet[OwnerOf[r]].available)
  BY <1>1, TurnKnows
<1> DEFINE a == t0.amount
           m == [e0.moved EXCEPT !.locked = @ + a]
           e == [e0 EXCEPT !.row = "PENDING", !.moved = m]
<1>3. /\ t0.pc = "lock" /\ e0.status = "REQUESTED" /\ e0.amount = a
      /\ Ledger(e0, 0, 0, 0, 0, "none") /\ wallet[OwnerOf[r]].available >= a
  BY <1>2 DEF CreateLock, At, PointEntry, Covered
<1>4. /\ LockFunds(OwnerOf[r], a) /\ OwnerOf[r] \in Users
      /\ row' = [row EXCEPT ![r] = "PENDING"]
      /\ moved' = [moved EXCEPT ![r].locked = @ + a]
      /\ task' = [task EXCEPT ![w] = Idle]
      /\ UNCHANGED <<request, sent, escrowed>>
  BY <1>2, <1>3, WithdrawalAssumption DEF CreateLock, CanLock, Owner, Request, Done
<1>5. e0.moved \in MovedRecord /\ m \in MovedRecord /\ m.locked = a
      /\ m.released = 0 /\ m.unlocked = 0
  BY <1>2, <1>3 DEF EntryRecord, MovedRecord, Ledger
<1>6. moved[r] = e0.moved /\ moved' = [moved EXCEPT ![r] = m]
  <2>1. moved \in [Withdrawals -> MovedRecord] /\ moved[r] = e0.moved
    BY <1>2 DEF TypeOK, LedgersOK, BookOf
  <2> QED  BY <1>4, <2>1
<1> HIDE DEF m
<1>7. /\ e \in EntryRecord /\ e.status = "REQUESTED" /\ e.amount = a
      /\ e.row = "PENDING" /\ e.moved = m /\ e.sent = 0
  BY <1>2, <1>3, <1>5 DEF EntryRecord, RowStatuses, Ledger
<1> HIDE DEF e
<1>8. Replaced(r, e)
  <2>1. /\ request = [request EXCEPT ![r] = [status |-> e.status, amount |-> e.amount]]
        /\ sent = [sent EXCEPT ![r] = e.sent]
    BY <1>2, <1>3, <1>7
    DEF BookOf, TypeOK, RequestsOK, RequestRecord, LedgersOK, Ledger
  <2> QED  BY <1>4, <1>6, <1>7, <2>1 DEF Replaced
<1>9. Holds(e) = a /\ Holds(BookOf(r)) = 0 /\ a \in Nat
  BY <1>2, <1>3, <1>5, <1>7 DEF Holds, Ledger
<1>10. SettledEntry(e)
  BY <1>5, <1>7 DEF SettledEntry, Ledger
<1>11. Idle.request = NoWithdrawal /\ Idle.pc = "idle"  BY DEF Idle
<1>12. \A u \in Users :
         wallet'[u].locked = wallet[u].locked + (IF u = OwnerOf[r] THEN a ELSE 0)
  BY <1>2, <1>4, LockedBalances
<1>13. a \in Int /\ Holds(e) = Holds(BookOf(r)) + a  BY <1>9
<1> HIDE DEF a
<1> QED
  BY <1>2, <1>4, <1>7, <1>8, <1>10, <1>11, <1>12, <1>13, MoneyStep

\* What the worker holds is locked: no release and no unlock is refused.
LEMMA TurnCovers ==
  ASSUME TypeOK, NEW w \in Workers, TurnInv(w), NEW r \in Withdrawals,
         r = Request(w), Holds(BookOf(r)) \in Nat
  PROVE  wallet[OwnerOf[r]].locked >= Holds(BookOf(r))
BY HeldIsLocked DEF TurnInv

LEMMA TurnReleases ==
  ASSUME TypeOK, TypeOK', NEW w \in Workers, TurnInv(w), ReleaseLocked(w)
  PROVE  TurnInv(w)'
<1>1. ~At(w, "idle")  BY DEF ReleaseLocked, At
<1>2. PICK r \in Withdrawals, t0 \in TaskRecord, e0 \in EntryRecord :
        /\ r = Request(w) /\ t0 = task[w] /\ e0 = BookOf(r) /\ t0.request = r
        /\ t0.pc # "idle" /\ t0.amount \in Nat /\ PointEntry(t0, e0)
        /\ Covered(t0, wallet[OwnerOf[r]].available)
  BY <1>1, TurnKnows
<1> DEFINE a == t0.amount
           m == [e0.moved EXCEPT !.released = @ + a]
           e == [e0 EXCEPT !.moved = m]
<1>3. /\ e0.status = "SUCCESS" /\ e0.amount = a
      /\ Ledger(e0, a, 0, 0, a, "SUCCESS")
  BY <1>2 DEF ReleaseLocked, At, PointEntry
<1>4. Holds(BookOf(r)) = a /\ a \in Nat
  BY <1>2, <1>3 DEF Holds, Ledger
<1>5. CanUnlock(OwnerOf[r], a)
  BY <1>2, <1>4, TurnCovers DEF CanUnlock
<1>6. /\ ReleaseLockedWithdrawal(OwnerOf[r], a) /\ OwnerOf[r] \in Users
      /\ moved' = [moved EXCEPT ![r].released = @ + a]
      /\ task' = [task EXCEPT ![w] = Idle]
      /\ UNCHANGED <<request, row, sent, escrowed>>
  BY <1>2, <1>5, WithdrawalAssumption DEF ReleaseLocked, Owner, Request, Done
<1>7. e0.moved \in MovedRecord /\ m \in MovedRecord /\ m.locked = a
      /\ m.released = a /\ m.unlocked = 0
  BY <1>2, <1>3 DEF EntryRecord, MovedRecord, Ledger
<1>8. moved[r] = e0.moved /\ moved' = [moved EXCEPT ![r] = m]
  <2>1. moved \in [Withdrawals -> MovedRecord] /\ moved[r] = e0.moved
    BY <1>2 DEF TypeOK, LedgersOK, BookOf
  <2> QED  BY <1>6, <2>1
<1> HIDE DEF m
<1>9. Replaced(r, e)  BY <1>2, <1>6, <1>8, Replacing
<1>10. /\ e \in EntryRecord /\ e.status = "SUCCESS" /\ e.amount = a
       /\ e.row = "SUCCESS" /\ e.moved = m /\ e.sent = a
  BY <1>2, <1>3, <1>7 DEF EntryRecord, Ledger
<1> HIDE DEF e
<1>11. SettledEntry(e)  BY <1>7, <1>10 DEF SettledEntry, Ledger
<1>12. -a \in Int /\ Holds(e) = Holds(BookOf(r)) + (-a)
  BY <1>4, <1>7, <1>10 DEF Holds
<1>13. Idle.request = NoWithdrawal /\ Idle.pc = "idle"  BY DEF Idle
<1>14. \A u \in Users :
         wallet'[u].locked = wallet[u].locked + (IF u = OwnerOf[r] THEN -a ELSE 0)
  BY <1>2, <1>6, LockedBalances
<1> HIDE DEF a
<1> QED
  BY <1>2, <1>6, <1>9, <1>10, <1>11, <1>12, <1>13, <1>14, MoneyStep

LEMMA TurnUnlocks ==
  ASSUME TypeOK, TypeOK', NEW w \in Workers, TurnInv(w), Unlock(w)
  PROVE  TurnInv(w)'
<1>1. ~At(w, "idle")  BY DEF Unlock, At
<1>2. PICK r \in Withdrawals, t0 \in TaskRecord, e0 \in EntryRecord :
        /\ r = Request(w) /\ t0 = task[w] /\ e0 = BookOf(r) /\ t0.request = r
        /\ t0.pc # "idle" /\ t0.amount \in Nat /\ PointEntry(t0, e0)
        /\ Covered(t0, wallet[OwnerOf[r]].available)
  BY <1>1, TurnKnows
<1> DEFINE a == t0.amount
           m == [e0.moved EXCEPT !.unlocked = @ + a]
           e == [e0 EXCEPT !.moved = m]
           t == IF t0.trying THEN [t0 EXCEPT !.pc = "markFailed", !.trying = FALSE]
                ELSE Idle
<1>3. /\ e0.status \in {"FAILED", "CANCELLED"} /\ e0.amount = a
      /\ Ledger(e0, a, 0, 0, 0, e0.status) /\ t0.status = e0.status
      /\ t0.trying => e0.status = "FAILED"
  BY <1>2 DEF Unlock, At, PointEntry, Locked
<1>4. Holds(BookOf(r)) = a /\ a \in Nat
  BY <1>2, <1>3 DEF Holds, Ledger
<1>5. CanUnlock(OwnerOf[r], a)
  BY <1>2, <1>4, TurnCovers DEF CanUnlock
<1>6. /\ UnlockFunds(OwnerOf[r], a) /\ OwnerOf[r] \in Users
      /\ moved' = [moved EXCEPT ![r].unlocked = @ + a]
      /\ UNCHANGED <<request, row, sent, escrowed>>
  BY <1>2, <1>5, WithdrawalAssumption DEF Unlock, Owner, Request
<1>7. task' = [task EXCEPT ![w] = t]
  BY <1>2, TaskForms DEF Unlock, AfterUnlock, Catch, Done
<1>8. e0.moved \in MovedRecord /\ m \in MovedRecord /\ m.locked = a
      /\ m.released = 0 /\ m.unlocked = a
  BY <1>2, <1>3 DEF EntryRecord, MovedRecord, Ledger
<1>9. moved[r] = e0.moved /\ moved' = [moved EXCEPT ![r] = m]
  <2>1. moved \in [Withdrawals -> MovedRecord] /\ moved[r] = e0.moved
    BY <1>2 DEF TypeOK, LedgersOK, BookOf
  <2> QED  BY <1>6, <2>1
<1> HIDE DEF m
<1>10. Replaced(r, e)  BY <1>2, <1>6, <1>9, Replacing
<1>11. /\ e \in EntryRecord /\ e.status = e0.status /\ e.amount = a
       /\ e.row = e0.status /\ e.moved = m /\ e.sent = 0
  BY <1>2, <1>3, <1>8 DEF EntryRecord, Ledger
<1>12. /\ t0.trying => t.pc = "markFailed" /\ t.request = r /\ t.amount = a
                         /\ t.status = "FAILED"
       /\ ~t0.trying => t.pc = "idle" /\ t.request = NoWithdrawal
  BY <1>2, <1>3 DEF TaskRecord, Idle
<1> HIDE DEF e, t
<1>13. SettledEntry(e)  BY <1>3, <1>8, <1>11 DEF SettledEntry, Ledger
<1>14. t0.trying => PointEntry(t, e)
  BY <1>3, <1>11, <1>12, <1>13 DEF PointEntry
<1>15. -a \in Int /\ Holds(e) = Holds(BookOf(r)) + (-a)
  BY <1>4, <1>8, <1>11 DEF Holds
<1>16. \A u \in Users :
         wallet'[u].locked = wallet[u].locked + (IF u = OwnerOf[r] THEN -a ELSE 0)
  BY <1>2, <1>6, LockedBalances
<1>17. /\ t.request \in {r, NoWithdrawal} /\ NoWithdrawal # r
       /\ t.request = NoWithdrawal <=> t.pc = "idle"
  BY <1>12, WithdrawalAssumption
<1>18. IF t.pc = "idle" THEN SettledEntry(e)
       ELSE PointEntry(t, e) /\ t.pc \notin {"readToday", "insert", "lock"}
  BY <1>12, <1>13, <1>14
<1> HIDE DEF a
<1> QED
  BY <1>2, <1>6, <1>7, <1>10, <1>11, <1>15, <1>16, <1>17, <1>18, MoneyStep

\* markFailed refuses what the failure branch has already settled.
LEMMA TurnRefuses ==
  ASSUME TypeOK, TypeOK', NEW w \in Workers, TurnInv(w), At(w, "markFailed"),
         ~canMarkFailed(task[w].status), Done(w),
         UNCHANGED <<walletVars, ledgerVars>>
  PROVE  TurnInv(w)'
<1>1. ~At(w, "idle")  BY DEF At
<1>2. PICK r \in Withdrawals, t0 \in TaskRecord, e0 \in EntryRecord :
        /\ r = Request(w) /\ t0 = task[w] /\ e0 = BookOf(r) /\ t0.request = r
        /\ t0.pc # "idle" /\ t0.amount \in Nat /\ PointEntry(t0, e0)
        /\ Covered(t0, wallet[OwnerOf[r]].available)
  BY <1>1, TurnKnows
<1>3. SettledEntry(e0)
  BY <1>2 DEF At, PointEntry, canMarkFailed
<1>4. Replaced(r, e0) /\ task' = [task EXCEPT ![w] = Idle]
  BY <1>2, Replacing DEF ledgerVars, Done
<1>5. Idle.request = NoWithdrawal /\ Idle.pc = "idle"  BY DEF Idle
<1>6. escrowed' = escrowed  BY DEF ledgerVars
<1> QED  BY <1>2, <1>3, <1>4, <1>5, <1>6, QuietStep

LEMMA TurnInvInit == ASSUME NEW w \in Workers PROVE Init => TurnInv(w)
<1> SUFFICES ASSUME Init PROVE TurnInv(w)
  OBVIOUS
<1>1. \A v \in Workers : task[v] = Idle  BY DEF Init
<1>2. \A r \in Withdrawals : BookOf(r) =
        [status |-> "none", amount |-> 0, row |-> "none", sent |-> 0,
         moved |-> [locked |-> 0, released |-> 0, unlocked |-> 0]]
  BY DEF Init, BookOf
<1>3. Request(w) = NoWithdrawal /\ At(w, "idle")
  BY <1>1 DEF Request, At, Idle
<1>4. \A r \in Withdrawals : SettledEntry(BookOf(r)) /\ Holds(BookOf(r)) = 0
  BY <1>2 DEF SettledEntry, Ledger, Holds
<1>5. AllHeld
  <2> SUFFICES ASSUME NEW u \in Users
               PROVE  wallet[u].locked = SumFunctionOnSet(HeldFor(u), Withdrawals)
    BY DEF AllHeld
  <2>1. PICK f : f = HeldFor(u)  OBVIOUS
  <2>2. \A r \in Withdrawals : f[r] = 0
    BY <1>4, <2>1 DEF HeldFor
  <2>3. SumFunctionOnSet(f, Withdrawals) = 0
    BY <2>2, WithdrawalAssumption, SumZero
  <2>4. wallet[u].locked = 0  BY DEF Init, WalletInit, EmptyWallet
  <2> QED  BY <2>1, <2>3, <2>4
<1>6. \A u \in Users : escrowed[u] = 0  BY DEF Init
<1> QED  BY <1>1, <1>3, <1>4, <1>5, <1>6, WithdrawalAssumption DEF TurnInv

\* What leaves the requests and the locked balances alone, and takes nothing
\* from a balance.
LEMMA TurnFrame ==
  ASSUME NEW w \in Workers, TurnInv(w),
         UNCHANGED <<request, row, moved, sent, escrowed, task>>,
         \A u \in Users : /\ wallet'[u].locked = wallet[u].locked
                          /\ wallet[u].available \in Nat
                          /\ wallet'[u].available \in Nat
                          /\ wallet'[u].available >= wallet[u].available,
         \A v \in Workers : task[v].amount \in Nat
  PROVE  TurnInv(w)'
<1>1. \A r \in Withdrawals : BookOf(r)' = BookOf(r)  BY DEF BookOf
<1>2. Request(w)' = Request(w) /\ At(w, "idle")' = At(w, "idle")
  BY DEF Request, At
<1>3. AllHeld'
  <2> SUFFICES ASSUME NEW u \in Users
               PROVE  wallet'[u].locked = SumFunctionOnSet(HeldFor(u)', Withdrawals)
    BY DEF AllHeld
  <2>1. HeldFor(u)' = HeldFor(u)  BY <1>1 DEF HeldFor, Holds
  <2> QED  BY <2>1 DEF TurnInv, AllHeld
<1>4. ASSUME NEW r \in Withdrawals, r = Request(w)'
      PROVE  /\ PointEntry(task'[w], BookOf(r)')
             /\ Covered(task'[w], wallet'[OwnerOf[r]].available)
  <2>1. /\ PointEntry(task[w], BookOf(r))
        /\ Covered(task[w], wallet[OwnerOf[r]].available)
    BY <1>2, <1>4 DEF TurnInv
  <2>2. OwnerOf[r] \in Users  BY WithdrawalAssumption
  <2> QED  BY <1>1, <2>1, <2>2 DEF Covered
<1>5. \A r \in Withdrawals \ {Request(w)'} : SettledEntry(BookOf(r)')
  BY <1>1, <1>2 DEF TurnInv
<1> QED  BY <1>2, <1>3, <1>4, <1>5 DEF TurnInv

LEMMA TurnEnvironment ==
  ASSUME TypeOK, TypeOK', NEW w \in Workers, TurnInv(w), escrowed' = escrowed,
         Environment
  PROVE  TurnInv(w)'
<1>1. PICK u \in Users, a \in Amounts :
        OwnerDeposit(u, a) \/ EscrowLocks(u, a) \/ EscrowUnlocks(u, a)
  BY WithdrawalAssumption DEF Environment
<1>2. a \in Nat /\ a > 0  BY AmountsAssumption
<1>3. escrowed \in [Users -> Nat] /\ escrowed[u] = 0
  BY DEF TypeOK, LedgersOK, TurnInv
<1>4. OwnerDeposit(u, a)
  <2>1. ~EscrowLocks(u, a)  BY <1>2, <1>3 DEF EscrowLocks
  <2>2. ~EscrowUnlocks(u, a)  BY <1>2, <1>3 DEF EscrowUnlocks
  <2> QED  BY <1>1, <2>1, <2>2
<1>5. UNCHANGED <<request, row, moved, sent, escrowed, task>>
  BY <1>4 DEF OwnerDeposit, ledgerVars
<1>6. \A v \in Users : /\ wallet'[v].locked = wallet[v].locked
                       /\ wallet[v].available \in Nat
                       /\ wallet'[v].available \in Nat
                       /\ wallet'[v].available >= wallet[v].available
  <2>1. wallet \in [Users -> WalletRecord] /\ wallet' \in [Users -> WalletRecord]
    BY DEF TypeOK, WalletTypeOK
  <2>2. wallet' = [wallet EXCEPT ![u].available = @ + a, ![u].deposited = @ + a]
    BY <1>4 DEF OwnerDeposit, Deposit
  <2> QED  BY <1>2, <2>1, <2>2 DEF WalletRecord
<1>7. \A v \in Workers : task[v].amount \in Nat
  BY DEF TypeOK, TasksOK, TaskRecord
<1> QED  BY <1>5, <1>6, <1>7, TurnFrame

\* Nobody but w takes a step.
LEMMA OthersWait ==
  ASSUME TypeOK, NEW w \in Workers, TurnInv(w), InTurn(w),
         NEW v \in Workers, (\E r \in Withdrawals : Start(v, r)) \/ Continue(v)
  PROVE  v = w
<1> SUFFICES ASSUME v # w PROVE FALSE
  OBVIOUS
<1>1. task[v] = Idle /\ task'[v] = task[v]  BY DEF TurnInv, InTurn
<1>2. task[v].pc = "idle"  BY <1>1 DEF Idle
<1>3. task \in [Workers -> TaskRecord]  BY DEF TypeOK, TasksOK
<1>4. CASE Continue(v)
  <2>1. CASE CreateReadToday(v) \/ CreateInsert(v) \/ CreateLock(v) \/ Gateway(v)
    BY <1>2, <2>1 DEF CreateReadToday, CreateInsert, CreateLock, Gateway, At
  <2>2. CASE ProcessMark(v) \/ ProcessSuccess(v) \/ SaveCancelled(v)
    BY <1>2, <2>2 DEF ProcessMark, ProcessSuccess, SaveCancelled, At
  <2>3. CASE RowSuccess(v) \/ RowFailed(v) \/ RowCancelled(v)
    BY <1>2, <2>3 DEF RowSuccess, RowFailed, RowCancelled, At
  <2>4. CASE ReleaseLocked(v) \/ MarkFailed(v) \/ Unlock(v)
    <3>1. At(v, "release") \/ At(v, "markFailed") \/ At(v, "unlock")
      BY <2>4, Zenon DEF ReleaseLocked, MarkFailed, Unlock
    <3> QED  BY <1>2, <3>1 DEF At
  <2> QED  BY <1>4, <2>1, <2>2, <2>3, <2>4 DEF Continue
<1>5. ASSUME NEW r \in Withdrawals, Start(v, r) PROVE FALSE
  <2>1. \A t : task' = [task EXCEPT ![v] = t] => t.pc = "idle"
    BY <1>1, <1>2, <1>3
  <2>2. CASE \E a \in WithdrawalAmounts : CreateReadBalance(v, r, a)
    <3>1. PICK a : CreateReadBalance(v, r, a)  BY <2>2
    <3>2. PICK t : t = [Idle EXCEPT !.pc = "readToday", !.request = r, !.amount = a]
      OBVIOUS
    <3>3. task' = [task EXCEPT ![v] = t]  BY <3>1, <3>2 DEF CreateReadBalance
    <3>4. t.pc = "readToday"  BY <3>2 DEF Idle
    <3> QED  BY <2>1, <3>3, <3>4
  <2>3. CASE ProcessRead(v, r) \/ RejectRead(v, r) \/ CancelRead(v, r)
    <3>1. PICK pc : pc # "idle" /\ Begin(v, r, pc)
      BY <2>3 DEF ProcessRead, RejectRead, CancelRead
    <3>2. PICK t : t = [pc |-> pc, request |-> r, status |-> request[r].status,
                        amount |-> request[r].amount, trying |-> FALSE]
      OBVIOUS
    <3>3. task' = [task EXCEPT ![v] = t]  BY <3>1, <3>2 DEF Begin
    <3>4. t.pc = pc  BY <3>2
    <3> QED  BY <2>1, <3>1, <3>3, <3>4
  <2> QED  BY <1>5, <2>2, <2>3 DEF Start
<1> QED  BY <1>4, <1>5

LEMMA TurnContinues ==
  ASSUME TypeOK, TypeOK', NEW w \in Workers, TurnInv(w), InTurn(w), Continue(w)
  PROVE  TurnInv(w)'
<1>1. CASE CreateReadToday(w) \/ CreateInsert(w)  BY <1>1, TurnCreates
<1>2. CASE CreateLock(w)  BY <1>2, TurnLocks
<1>3. CASE ProcessMark(w) \/ ProcessSuccess(w) \/ SaveCancelled(w)
  BY <1>3, TurnSaves
<1>4. CASE Gateway(w)
  BY <1>4, TurnGateway DEF InTurn
<1>5. CASE RowSuccess(w) \/ RowFailed(w) \/ RowCancelled(w)  BY <1>5, TurnRows
<1>6. CASE ReleaseLocked(w)  BY <1>6, TurnReleases
<1>7. CASE MarkFailed(w)
  BY <1>7, TurnSaves, TurnRefuses DEF MarkFailed
<1>8. CASE Unlock(w)  BY <1>8, TurnUnlocks
<1> QED  BY <1>1, <1>2, <1>3, <1>4, <1>5, <1>6, <1>7, <1>8 DEF Continue

LEMMA TurnInvStep ==
  ASSUME NEW w \in Workers
  PROVE  IInv /\ TurnInv(w) /\ [Next /\ InTurn(w)]_vars => TurnInv(w)'
<1> SUFFICES ASSUME IInv, TurnInv(w), [Next /\ InTurn(w)]_vars
             PROVE  TurnInv(w)'
  OBVIOUS
<1>1. TypeOK /\ TypeOK'
  BY IInvStep DEF IInv
<1>2. CASE UNCHANGED vars
  <2>1. UNCHANGED <<request, row, moved, sent, escrowed, task, wallet>>
    BY <1>2 DEF vars, ledgerVars, walletVars
  <2>2. /\ \A v \in Workers : task[v].amount \in Nat
        /\ \A u \in Users : wallet[u].available \in Nat
    BY <1>1 DEF TypeOK, TasksOK, TaskRecord, WalletTypeOK, WalletRecord
  <2>3. \A u \in Users : /\ wallet'[u].locked = wallet[u].locked
                         /\ wallet[u].available \in Nat
                         /\ wallet'[u].available \in Nat
                         /\ wallet'[u].available >= wallet[u].available
    BY <2>1, <2>2
  <2> QED  BY <2>1, <2>2, <2>3, TurnFrame
<1>3. CASE Environment /\ InTurn(w)
  BY <1>1, <1>3, TurnEnvironment DEF InTurn
<1>4. ASSUME NEW v \in Workers, NEW r \in Withdrawals, Start(v, r), InTurn(w)
      PROVE  TurnInv(w)'
  <2>1. v = w  BY <1>1, <1>4, OthersWait
  <2> QED  BY <1>1, <1>4, <2>1, TurnStarts
<1>5. ASSUME NEW v \in Workers, Continue(v), InTurn(w)
      PROVE  TurnInv(w)'
  <2>1. v = w  BY <1>1, <1>5, OthersWait
  <2> QED  BY <1>1, <1>5, <2>1, TurnContinues
<1> QED  BY <1>2, <1>3, <1>4, <1>5 DEF Next

LEMMA TurnSettles ==
  ASSUME NEW w \in Workers, TypeOK, TurnInv(w)
  PROVE  SettledAsSaid
<1> SUFFICES ASSUME NEW r \in Withdrawals, ~Busy(r)
    PROVE  LET a == request[r].amount
               ledger(locked, released, unlocked, paid, status) ==
                 /\ moved[r] = [locked |-> locked, released |-> released,
                                unlocked |-> unlocked]
                 /\ sent[r] = paid
                 /\ row[r] = status
           IN  /\ request[r].status # "PROCESSING"
               /\ request[r].status = "REQUESTED" => ledger(a, 0, 0, 0, "PENDING")
               /\ request[r].status = "SUCCESS" => ledger(a, a, 0, a, "SUCCESS")
               /\ request[r].status \in {"FAILED", "CANCELLED"} =>
                    ledger(a, 0, a, 0, request[r].status)
  BY DEF SettledAsSaid
<1>1. r # Request(w)  BY DEF Busy, Request
<1>2. SettledEntry(BookOf(r))  BY <1>1 DEF TurnInv
<1>3. moved[r] = [locked |-> moved[r].locked, released |-> moved[r].released,
                  unlocked |-> moved[r].unlocked]
  BY DEF TypeOK, LedgersOK, MovedRecord
<1> QED  BY <1>2, <1>3 DEF SettledEntry, BookOf, Ledger

(* Requests that do not overlap: however many are made, by whom and of     *)
(* what amounts, whenever none is at work the document, its row, the       *)
(* wallet and the gateway agree.                                           *)
THEOREM SettledOneByOne ==
  ASSUME NEW w \in Workers
  PROVE  Init /\ [][Next /\ InTurn(w)]_vars => []SettledAsSaid
<1>1. Init => IInv /\ TurnInv(w)
  BY InitTypeOK, WalletInvInit, TurnInvInit DEF IInv, Init, WalletInv
<1>2. (IInv /\ TurnInv(w)) /\ [Next /\ InTurn(w)]_vars => (IInv /\ TurnInv(w))'
  BY IInvStep, TurnInvStep
<1>3. IInv /\ TurnInv(w) => SettledAsSaid
  BY TurnSettles DEF IInv
<1> QED  BY <1>1, <1>2, <1>3, PTL

(* The same of the behaviours in which MCWithdrawal runs through requests  *)
(* in turn.                                                                *)
THEOREM RequestsSettleInTurn == MCSpec => []SettledInTurn
<1> DEFINE J == IInv /\ (mode = "in turn" => TurnInv(1))
<1>1. MCInit => J
  BY MCAssumption, InitTypeOK, WalletInvInit, TurnInvInit
     DEF MCInit, IInv, Init, WalletInv
<1>2. J /\ [MCNext]_<<vars, mode>> => J'
  <2> SUFFICES ASSUME J, [MCNext]_<<vars, mode>> PROVE J'
    OBVIOUS
  <2>1. [Next]_vars /\ mode' = mode  BY DEF MCNext
  <2>2. IInv'  BY <2>1, IInvStep
  <2>3. ASSUME mode' = "in turn" PROVE TurnInv(1)'
    <3>1. TurnInv(1)  BY <2>1, <2>3
    <3>2. [Next /\ InTurn(1)]_vars
      BY <2>1, <2>3 DEF MCNext, Racing, OneByOne
    <3> QED  BY <3>1, <3>2, MCAssumption, TurnInvStep
  <2> QED  BY <2>2, <2>3
<1>3. J => SettledInTurn
  BY MCAssumption, TurnSettles DEF IInv, SettledInTurn
<1> HIDE DEF J
<1> QED  BY <1>1, <1>2, <1>3, PTL DEF MCSpec
=============================================================================
