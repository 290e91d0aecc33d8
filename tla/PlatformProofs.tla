--------------------------- MODULE PlatformProofs ---------------------------
(***************************************************************************)
(* The platform's income, its subscriptions, and what its admins take out, *)
(* for any users, prices, admins and numbers of requests in flight.        *)
(*                                                                         *)
(* Inv says which documents requests, payments and the renewal run hold:   *)
(* a document in use keeps its user and its plan (Evolves), what the run   *)
(* has on its list is elapsed and on it once (CronInv), and what has been  *)
(* renewed is expired and off the list (RenewInv).  PlatformInv, in the    *)
(* second part, adds up the documents of the platform's withdrawals.       *)
(***************************************************************************)
EXTENDS Subscription, PlatformWithdrawal, WalletProofs, SequenceTheorems

LEMMA PlanFacts ==
  /\ 1 \in Plans /\ Free \notin Plans
  /\ \A p \in Plans : Price[p] \in Amounts /\ Price[p] \in Nat
<1>1. Price \in Seq(Amounts) /\ Len(Price) > 0  BY SubscriptionAssumption
<1>2. Plans = 1..Len(Price) /\ Len(Price) \in Nat  BY <1>1 DEF Plans
<1>3. \A p \in 1..Len(Price) : Price[p] \in Amounts  BY <1>1, ElementOfSeq
<1>4. Len(Price) > 0  BY <1>1
<1>5. 1 \in Plans /\ Free \notin Plans  BY <1>2, <1>4 DEF Free
<1>6. \A p \in Plans : Price[p] \in Amounts  BY <1>2, <1>3
<1>7. Amounts \subseteq Nat  BY AmountsAssumption
<1> QED  BY <1>5, <1>6, <1>7

LEMMA IdFacts == Subs \subseteq Nat /\ None \notin Subs /\ None \notin Txns
BY SubscriptionAssumption DEF Subs, Txns, None

LEMMA SomeUser == AnyUser \in Users
BY SubscriptionAssumption DEF AnyUser

Bounded ==
  /\ crashes \in 0..MaxCrashes /\ requests \in 0..MaxRequests

DocsTyped ==
  /\ sub \in [Subs -> SubRecord]
  /\ user \in [Users -> [plan : Plans \cup {Free}, sub : Subs \cup {None}]]
  /\ txn \in [Txns -> TxnRecord]

(* What is not created is empty, and only an elapsed subscription is past  *)
(* due.                                                                    *)
SubsInv ==
  \A s \in Subs :
    /\ sub[s].status = "none" => sub[s] = NoSub
    /\ sub[s].status = "past_due" => sub[s].elapsed

(* What a request holds: a document of its user, and a payment that was    *)
(* claimed.                                                                *)
Fits(t, subs, txns) ==
  /\ t.sub # None => subs[t.sub].status # "none" /\ subs[t.sub].user = t.user
  /\ t.pc \in {"upgrade", "change", "setGranted"} => t.sub # None
  /\ t.pc = "activate" => t.txn # None /\ txns[t.txn].status = "SUCCESS"
  /\ t.pc \in {"createGranted", "setGranted"} => "grant" \in Operations

Replaces(x, subs) ==
  x.replaces # None =>
    subs[x.replaces].status # "none" /\ subs[x.replaces].user = x.user

HeldInv ==
  /\ \A w \in Workers : Fits(task[w], sub, txn)
  /\ \A t \in Txns : Replaces(txn[t], sub)

Listed == cron.left \cup cron.now

CronInv ==
  /\ cron.now = {} \/ \E d \in Decision : cron.now = {d}
  /\ cron.pc \in {"idle", "next", "readPastDue"} => cron.now = {}
  /\ cron.pc \in {"idle", "readPastDue"} => cron.left = {}
  /\ cron.pc = "downgrade" => \A d \in cron.now : d.plan # Free
  /\ \A d \in cron.left : \A e \in cron.now : d.sub # e.sub
  /\ \A d, e \in cron.left : d.sub = e.sub => d = e
  /\ \A d \in Listed : sub[d.sub].elapsed

RenewInv ==
  /\ \A s \in Subs :
       sub[s].renews # None =>
         /\ sub[sub[s].renews].status = "expired"
         /\ \A d \in Listed : d.sub # sub[s].renews
  /\ RenewedOnce

Bought(t) == \E s \in Subs : sub[s].txn = t
Activating(w, t) == task[w].pc = "activate" /\ task[w].txn = t

PaidInv ==
  crashes = 0 =>
    \A t \in Txns : txn[t].status = "SUCCESS" =>
      Bought(t) \/ \E w \in Workers : Activating(w, t)

Inv ==
  /\ WalletInv /\ Bounded
  /\ DocsTyped /\ task \in [Workers -> TaskRecord] /\ cron \in CronRecord
  /\ SubsInv /\ HeldInv /\ CronInv /\ RenewInv /\ PaidInv
-----------------------------------------------------------------------------
(* How documents change.                                                   *)
Ages(s) ==
  /\ sub[s].status # "none" /\ sub'[s].status # "none"
  /\ sub'[s].user = sub[s].user /\ sub'[s].plan = sub[s].plan
  /\ sub'[s].renews = sub[s].renews /\ sub'[s].txn = sub[s].txn
  /\ sub[s].elapsed => sub'[s].elapsed
  /\ sub'[s].status = "past_due" => sub'[s].elapsed
  /\ sub[s].status = "expired" =>
       sub'[s].status = "expired" \/ \E d \in cron.now : d.sub = s
Created(s) ==
  sub[s].status = "none" /\ sub'[s].status = "active"

Evolves == \A s \in Subs : sub'[s] = sub[s] \/ Ages(s) \/ Created(s)

LEMMA NewOne ==
  ASSUME Unused # {}
  PROVE  NewSub \in Subs /\ sub[NewSub].status = "none"
<1>1. Unused \in SUBSET Nat  BY IdFacts DEF Unused
<1>2. \E s \in Unused : \A r \in Unused : s <= r  BY <1>1, LeastNumber
<1>3. NewSub \in Unused  BY <1>2 DEF NewSub
<1> QED  BY <1>3 DEF Unused

LEMMA RoomForOne ==
  ASSUME Inv, Room(1) PROVE Unused # {}
<1>1. IsFiniteSet(Subs)  BY SubscriptionAssumption, FS_Interval DEF Subs
<1>2. Renewable \in SUBSET Subs
  BY DEF Renewable, Inv, CronRecord, Decision
<1>3. Cardinality(Renewable) \in Nat  BY <1>1, <1>2, FS_Subset, FS_CardinalityType
<1>4. Cardinality({}) = 0  BY FS_EmptySet
<1> QED  BY <1>3, <1>4 DEF Room

LEMMA InHandIs ==
  ASSUME CronInv, cron.now # {}
  PROVE  \E d \in Decision :
           cron.now = {d} /\ (CHOOSE e \in cron.now : TRUE) = d /\ InHand = d.sub
BY DEF CronInv, InHand
-----------------------------------------------------------------------------
LEMMA Keeps ==
  ASSUME Inv, WalletInv', Bounded', DocsTyped',
         task' \in [Workers -> TaskRecord], cron' \in CronRecord, CronInv',
         Evolves,
         \A r, s \in Subs : Created(r) /\ Created(s) => r = s,
         \A s \in Subs : Created(s) /\ sub'[s].renews # None =>
           /\ \A r \in Subs : sub[r].renews # sub'[s].renews
           /\ sub'[sub'[s].renews].status = "expired"
           /\ \A d \in Listed' : d.sub # sub'[s].renews,
         \A d \in Listed' : d \in Listed \/ sub[d.sub].status # "expired",
         \A w \in Workers : task'[w] = task[w] \/ Fits(task'[w], sub', txn'),
         \A t \in Txns :
           \/ txn'[t].replaces = txn[t].replaces /\ txn'[t].user = txn[t].user
           \/ Replaces(txn'[t], sub'),
         \A t \in Txns : txn[t].status = "SUCCESS" => txn'[t].status = "SUCCESS",
         crashes' = 0 =>
           /\ crashes = 0
           /\ \A t \in Txns :
                txn'[t].status = "SUCCESS" /\ txn[t].status # "SUCCESS" =>
                  Bought(t)' \/ \E w \in Workers : Activating(w, t)'
           /\ \A w \in Workers, t \in Txns :
                Activating(w, t) => Activating(w, t)' \/ Bought(t)'
  PROVE  Inv'
<1> USE DEF Inv
<1>1. /\ sub \in [Subs -> SubRecord] /\ sub' \in [Subs -> SubRecord]
      /\ txn \in [Txns -> TxnRecord] /\ txn' \in [Txns -> TxnRecord]
      /\ cron \in CronRecord /\ cron' \in CronRecord
  BY DEF DocsTyped
<1>2. SubsInv'
  BY <1>1 DEF SubsInv, Evolves, Ages, Created
<1>3. ASSUME NEW s \in Subs, sub[s].status # "none"
      PROVE  sub'[s].status # "none" /\ sub'[s].user = sub[s].user
  BY <1>3 DEF Evolves, Ages, Created
<1>4. ASSUME NEW t \in TaskRecord, Fits(t, sub, txn) PROVE Fits(t, sub', txn')
  BY <1>3, <1>4 DEF Fits, TaskRecord
<1>5. HeldInv'
  <2>1. ASSUME NEW t \in Txns PROVE Replaces(txn'[t], sub')
    BY <1>1, <1>3 DEF HeldInv, Replaces, TxnRecord
  <2>2. ASSUME NEW w \in Workers PROVE Fits(task'[w], sub', txn')
    BY <1>4 DEF HeldInv
  <2> QED  BY <2>1, <2>2 DEF HeldInv
<1>6. ASSUME NEW s \in Subs, sub[s].renews # None
      PROVE  /\ sub'[s].renews = sub[s].renews
             /\ sub[s].renews \in Subs
             /\ sub'[sub[s].renews].status = "expired"
             /\ \A d \in Listed' : d.sub # sub[s].renews
  <2>1. sub[s].status # "none"  BY <1>6 DEF SubsInv, NoSub
  <2>2. sub'[s].renews = sub[s].renews  BY <2>1 DEF Evolves, Ages, Created
  <2>3. sub[s].renews \in Subs  BY <1>1, <1>6 DEF SubRecord
  <2>4. sub[sub[s].renews].status = "expired" /\ \A d \in Listed : d.sub # sub[s].renews
    BY <1>6 DEF RenewInv
  <2>5. sub'[sub[s].renews].status = "expired"
    BY <2>3, <2>4 DEF Evolves, Ages, Created, Listed
  <2> QED  BY <2>2, <2>3, <2>4, <2>5
<1>7. ASSUME NEW s \in Subs, sub'[s].renews # None
      PROVE  Created(s) \/ (sub[s].renews # None /\ sub'[s].renews = sub[s].renews)
  BY <1>7 DEF Evolves, Ages
<1>8. RenewInv'
  <2>1. ASSUME NEW s \in Subs, sub'[s].renews # None
        PROVE  /\ sub'[sub'[s].renews].status = "expired"
               /\ \A d \in Listed' : d.sub # sub'[s].renews
    BY <1>6, <1>7, <2>1
  <2>2. ASSUME NEW r \in Subs, NEW s \in Subs,
               sub'[r].renews = sub'[s].renews, sub'[r].renews # None
        PROVE  r = s
    <3>1. CASE Created(r) /\ Created(s)  BY <3>1
    <3>2. CASE Created(r) /\ ~Created(s)  BY <1>7, <2>2, <3>2
    <3>3. CASE ~Created(r) /\ Created(s)  BY <1>7, <2>2, <3>3
    <3>4. CASE ~Created(r) /\ ~Created(s)
      BY <1>7, <2>2, <3>4 DEF RenewInv, RenewedOnce
    <3> QED  BY <3>1, <3>2, <3>3, <3>4
  <2> QED  BY <2>1, <2>2 DEF RenewInv, RenewedOnce
<1>9. ASSUME NEW t \in Txns, Bought(t) PROVE Bought(t)'
  <2>1. PICK s \in Subs : sub[s].txn = t  BY <1>9 DEF Bought
  <2>2. sub[s].status # "none"  BY <2>1, IdFacts DEF SubsInv, NoSub
  <2>3. sub'[s].txn = t  BY <2>1, <2>2 DEF Evolves, Ages, Created
  <2> QED  BY <2>3 DEF Bought
<1>10. PaidInv'
  <2> SUFFICES ASSUME crashes' = 0, NEW t \in Txns, txn'[t].status = "SUCCESS"
               PROVE  Bought(t)' \/ \E w \in Workers : Activating(w, t)'
    BY DEF PaidInv
  <2>1. CASE txn[t].status # "SUCCESS"  BY <2>1
  <2>2. CASE txn[t].status = "SUCCESS"
    <3>1. Bought(t) \/ \E w \in Workers : Activating(w, t)  BY <2>2 DEF PaidInv
    <3> QED  BY <1>9, <3>1
  <2> QED  BY <2>1, <2>2
<1> QED  BY <1>2, <1>5, <1>8, <1>10

\* A step of one request: cron and the server go on.
LEMMA WorkerKeeps ==
  ASSUME Inv, NEW w \in Workers, NEW t \in TaskRecord,
         task' = [task EXCEPT ![w] = t], Fits(t, sub', txn'),
         UNCHANGED <<cron, crashes>>, WalletInv', Bounded', DocsTyped', Evolves,
         \A s \in Subs : Created(s) => s = NewSub /\ sub'[s].renews = None,
         \A x \in Txns :
           \/ txn'[x] = txn[x]
           \/ /\ Replaces(txn'[x], sub') /\ txn[x].status # "SUCCESS"
              /\ txn'[x].status = "SUCCESS" => t.pc = "activate" /\ t.txn = x,
         \A x \in Txns : Activating(w, x) => Bought(x)'
  PROVE  Inv' /\ Evolves
<1>1. task \in [Workers -> TaskRecord] /\ cron \in CronRecord /\ CronInv /\ SubsInv
  BY DEF Inv
<1>2. task' \in [Workers -> TaskRecord] /\ cron' \in CronRecord  BY <1>1
<1>3. Listed' = Listed  BY DEF Listed
<1>4. CronInv'
  <2>1. ASSUME NEW d \in Listed PROVE sub'[d.sub].elapsed
    <3>1. d.sub \in Subs /\ sub[d.sub].elapsed
      BY <1>1 DEF CronInv, Listed, CronRecord, Decision
    <3>2. sub[d.sub].status # "none"  BY <1>1, <3>1 DEF SubsInv, NoSub
    <3> QED  BY <3>1, <3>2 DEF Evolves, Ages, Created
  <2> QED  BY <1>1, <1>3, <2>1 DEF CronInv
<1>5. \A d \in Listed' : d \in Listed \/ sub[d.sub].status # "expired"  BY <1>3
<1>6. \A v \in Workers : task'[v] = task[v] \/ Fits(task'[v], sub', txn')
  BY <1>1
<1>7. \A x \in Txns :
        \/ txn'[x].replaces = txn[x].replaces /\ txn'[x].user = txn[x].user
        \/ Replaces(txn'[x], sub')
  OBVIOUS
<1>8. \A x \in Txns : txn[x].status = "SUCCESS" => txn'[x].status = "SUCCESS"
  OBVIOUS
<1>9. ASSUME NEW x \in Txns, txn'[x].status = "SUCCESS", txn[x].status # "SUCCESS"
      PROVE  \E v \in Workers : Activating(v, x)'
  <2>1. t.pc = "activate" /\ t.txn = x  BY <1>9
  <2> QED  BY <1>1, <2>1 DEF Activating
<1>10. ASSUME NEW v \in Workers, NEW x \in Txns, Activating(v, x)
       PROVE  Activating(v, x)' \/ Bought(x)'
  BY <1>1, <1>10 DEF Activating
<1>11. \A r, s \in Subs : Created(r) /\ Created(s) => r = s  OBVIOUS
<1>12. \A s \in Subs : Created(s) => sub'[s].renews = None  OBVIOUS
<1> QED  BY <1>2, <1>4, <1>5, <1>6, <1>7, <1>8, <1>9, <1>10, <1>11, <1>12, Keeps

\* A step of the renewal run: the requests and the payments stay as they are.
LEMMA CronKeeps ==
  ASSUME Inv, UNCHANGED <<txn, task, crashes, requests>>,
         WalletInv', DocsTyped', cron' \in CronRecord, CronInv', Evolves,
         \A s \in Subs : Created(s) =>
           /\ s = NewSub
           /\ \A r \in Subs : sub[r].renews # sub'[s].renews
           /\ sub'[sub'[s].renews].status = "expired"
           /\ \A d \in Listed' : d.sub # sub'[s].renews,
         \A d \in Listed' : d \in Listed \/ sub[d.sub].status # "expired"
  PROVE  Inv' /\ Evolves
<1>1. Bounded' /\ task' \in [Workers -> TaskRecord]  BY DEF Inv, Bounded
<1>2. \A w \in Workers, x \in Txns : Activating(w, x) => Activating(w, x)'
  BY DEF Activating
<1>3. \A r, s \in Subs : Created(r) /\ Created(s) => r = s  OBVIOUS
<1>4. \A w \in Workers : task'[w] = task[w]  OBVIOUS
<1>5. \A x \in Txns : /\ txn'[x].replaces = txn[x].replaces /\ txn'[x].user = txn[x].user
                      /\ txn'[x].status = txn[x].status
  OBVIOUS
<1> QED  BY <1>1, <1>2, <1>3, <1>4, <1>5, Keeps

LEMMA ChargeKeeps ==
  ASSUME WalletInv, NEW u \in Users, NEW a \in Nat, ChargeWallet(u, a)
  PROVE  WalletInv'
<1>1. CASE a = 0  BY <1>1 DEF ChargeWallet, WalletInv, WalletTypeOK, WalletBalanced, walletVars
<1>2. CASE a # 0
  <2>1. PayPlatform(u, a)  BY <1>2 DEF ChargeWallet
  <2>2. WalletTypeOK'
    BY <2>1 DEF PayPlatform, WalletInv, WalletTypeOK, WalletRecord
  <2>3. WalletBalanced'
    BY <2>1 DEF PayPlatform, WalletInv, WalletTypeOK, WalletRecord, WalletBalanced
  <2> QED  BY <2>2, <2>3 DEF WalletInv
<1> QED  BY <1>1, <1>2

LEMMA WalletStays ==
  ASSUME WalletInv, UNCHANGED walletVars PROVE WalletInv'
BY DEF walletVars, WalletInv, WalletTypeOK, WalletBalanced

LEMMA IdleFits ==
  /\ Idle \in TaskRecord /\ \A subs, txns : Fits(Idle, subs, txns)
  /\ Idle.pc = "idle" /\ CronIdle \in CronRecord
<1>1. AnyUser \in Users /\ 1 \in Plans  BY SomeUser, PlanFacts
<1>2. Idle \in TaskRecord  BY <1>1 DEF Idle, TaskRecord, Points
<1>3. CronIdle \in CronRecord  BY DEF CronIdle, CronRecord, CronPoints
<1>4. \A subs, txns : Fits(Idle, subs, txns)  BY DEF Idle, Fits, None
<1> QED  BY <1>2, <1>3, <1>4 DEF Idle

LEMMA Typed ==
  ASSUME Inv
  PROVE  /\ WalletInv
         /\ sub \in [Subs -> SubRecord] /\ txn \in [Txns -> TxnRecord]
         /\ user \in [Users -> [plan : Plans \cup {Free}, sub : Subs \cup {None}]]
         /\ task \in [Workers -> TaskRecord] /\ cron \in CronRecord
BY DEF Inv, DocsTyped

LEMMA DocsStay == UNCHANGED docVars => UNCHANGED <<sub, user, txn>> /\ Evolves
BY DEF docVars, Evolves

(* One document is created, and some of the others end.                    *)
Replaced(u, p, a, r, x) ==
  /\ sub' = [s \in Subs |-> sub'[s]]
  /\ sub'[NewSub] = Subscribed(u, p, a, r, x)
  /\ \A s \in Subs \ {NewSub} :
       \/ sub'[s] = sub[s]
       \/ /\ sub[s].status # "none"
          /\ sub'[s] \in {Expired(s), [sub[s] EXCEPT !.status = "expired"]}

LEMMA Replacing ==
  ASSUME Inv, Unused # {}, NEW u \in Users, NEW p \in Plans, NEW a \in Nat,
         NEW r \in Subs \cup {None}, NEW x \in Txns \cup {None},
         Replaced(u, p, a, r, x)
  PROVE  /\ sub' \in [Subs -> SubRecord] /\ Evolves
         /\ \A s \in Subs : Created(s) => s = NewSub
         /\ NewSub \in Subs /\ sub[NewSub].status = "none"
         /\ sub'[NewSub].renews = r /\ sub'[NewSub].txn = x
         /\ sub'[NewSub].status = "active" /\ sub'[NewSub].user = u
         /\ sub'[NewSub].plan = p
<1>1. sub \in [Subs -> SubRecord]  BY Typed
<1>2. NewSub \in Subs /\ sub[NewSub].status = "none"  BY NewOne
<1> DEFINE new == Subscribed(u, p, a, r, x)
<1>3. /\ new \in SubRecord /\ new.status = "active" /\ new.renews = r /\ new.txn = x
      /\ new.user = u /\ new.plan = p
  BY DEF Subscribed, NoSub, SubRecord
<1> HIDE DEF new
<1>4. sub'[NewSub] = new  BY DEF Replaced, new
<1>5. Created(NewSub)  BY <1>2, <1>3, <1>4 DEF Created
<1>6. ASSUME NEW s \in Subs \ {NewSub}
      PROVE  sub'[s] \in SubRecord /\ ~Created(s) /\ (sub'[s] = sub[s] \/ Ages(s))
  <2>0. sub[s] \in SubRecord  BY <1>1
  <2>1. CASE sub'[s] = sub[s]  BY <2>0, <2>1 DEF Created
  <2>2. CASE sub'[s] # sub[s]
    <3>1. sub[s].status # "none" /\ sub[s] \in SubRecord
      BY <2>0, <2>2 DEF Replaced
    <3>2. sub'[s] \in {Expired(s), [sub[s] EXCEPT !.status = "expired"]}
      BY <2>2 DEF Replaced
    <3>3. sub'[s] \in SubRecord  BY <3>1, <3>2 DEF Expired, SubRecord
    <3>4. /\ sub'[s].status = "expired" /\ sub'[s].user = sub[s].user
          /\ sub'[s].plan = sub[s].plan /\ sub'[s].renews = sub[s].renews
          /\ sub'[s].txn = sub[s].txn /\ sub'[s].elapsed = sub[s].elapsed
      BY <3>1, <3>2 DEF Expired, SubRecord
    <3> QED  BY <3>1, <3>3, <3>4 DEF Created, Ages
  <2> QED  BY <2>1, <2>2
<1>7. \A s \in Subs : sub'[s] \in SubRecord  BY <1>3, <1>4, <1>6
<1>8. Evolves  BY <1>5, <1>6 DEF Evolves
<1> QED  BY <1>2, <1>3, <1>4, <1>6, <1>7, <1>8 DEF Replaced
-----------------------------------------------------------------------------
(* The requests.                                                           *)
LEMMA AskKeeps ==
  ASSUME Inv, Bounded', NEW w \in Workers, NEW t \in TaskRecord,
         task' = [task EXCEPT ![w] = t], Fits(t, sub, txn),
         UNCHANGED <<walletVars, docVars, cron, crashes>>,
         \A x \in Txns : Activating(w, x) => Bought(x)
  PROVE  Inv' /\ Evolves
<1>1. UNCHANGED <<sub, user, txn>> /\ Evolves /\ UNCHANGED <<cron, crashes>>
  BY DocsStay
<1>2. WalletInv'  BY Typed, WalletStays
<1>3. DocsTyped'  BY Typed, <1>1 DEF DocsTyped
<1>4. Fits(t, sub', txn')  BY <1>1
<1>5. \A s \in Subs : ~Created(s)  BY <1>1 DEF Created
<1>6. \A x \in Txns : Bought(x)' <=> Bought(x)  BY <1>1 DEF Bought
<1> QED  BY <1>1, <1>2, <1>3, <1>4, <1>5, <1>6, WorkerKeeps

LEMMA NotActivating ==
  ASSUME NEW w \in Workers, NEW pc \in Points \ {"activate"}, At(w, pc)
  PROVE  \A x \in Txns : ~Activating(w, x)
BY DEF At, Activating

LEMMA PurchaseKeeps ==
  ASSUME Inv, Bounded', NEW w \in Workers, NEW u \in Users, NEW p \in Plans,
         Purchase(w, u, p), UNCHANGED <<cron, crashes>>
  PROVE  Inv' /\ Evolves
<1>1. PICK pc \in {"purchase", "insertTxn"} :
        task' = [task EXCEPT ![w] = [Idle EXCEPT !.op = "purchase", !.pc = pc,
                   !.user = u, !.plan = p, !.charge = Price[p]]]
  BY DEF Purchase
<1> DEFINE t == [Idle EXCEPT !.op = "purchase", !.pc = pc, !.user = u, !.plan = p,
                             !.charge = Price[p]]
<1>2. "purchase" \in Operations /\ At(w, "idle")  BY DEF Purchase, May
<1>3. t \in TaskRecord
  BY <1>2, IdleFits, PlanFacts DEF TaskRecord, Points
<1>4. Fits(t, sub, txn)  BY IdleFits DEF Fits, Idle, None
<1>5. \A x \in Txns : ~Activating(w, x)  BY <1>2, NotActivating DEF Points
<1> HIDE DEF t
<1> QED  BY <1>1, <1>3, <1>4, <1>5, AskKeeps DEF Purchase, t

LEMMA UpgradeKeeps ==
  ASSUME Inv, Bounded', NEW w \in Workers, NEW u \in Users, NEW p \in Plans,
         Upgrade(w, u, p), UNCHANGED <<cron, crashes>>
  PROVE  Inv' /\ Evolves
<1>0. PICK s \in ActiveOf(u) :
        \E credit \in Credits(s) :
          LET charge == IF Price[p] > credit THEN Price[p] - credit ELSE 0
          IN  \E pc \in {"upgrade"} \cup (IF charge = 0 THEN {} ELSE {"insertTxn"}) :
                task' = [task EXCEPT ![w] = [Idle EXCEPT !.op = "upgrade", !.pc = pc,
                           !.user = u, !.plan = p, !.sub = s, !.charge = charge]]
  BY DEF Upgrade
<1> DEFINE Charge(credit) == IF Price[p] > credit THEN Price[p] - credit ELSE 0
<1>1. PICK credit \in Credits(s), pc \in {"upgrade", "insertTxn"} :
        task' = [task EXCEPT ![w] = [Idle EXCEPT !.op = "upgrade", !.pc = pc,
                   !.user = u, !.plan = p, !.sub = s, !.charge = Charge(credit)]]
  BY <1>0
<1> DEFINE charge == Charge(credit)
<1> DEFINE t == [Idle EXCEPT !.op = "upgrade", !.pc = pc, !.user = u, !.plan = p,
                             !.sub = s, !.charge = charge]
<1>2. "upgrade" \in Operations /\ At(w, "idle")  BY DEF Upgrade, May
<1>3. s \in Subs /\ sub[s].status = "active" /\ sub[s].user = u  BY DEF ActiveOf
<1>4. charge \in Nat
  <2>1. credit \in Nat
    <3>1. sub[s].amount \in Nat  BY <1>3, Typed DEF SubRecord
    <3> QED  BY <3>1 DEF Credits
  <2> QED  BY <1>1, <2>1, PlanFacts
<1>5. t \in TaskRecord
  BY <1>2, <1>3, <1>4, IdleFits DEF TaskRecord, Points
<1>6. Fits(t, sub, txn)  BY <1>3, IdFacts, IdleFits DEF Fits, Idle
<1>7. \A x \in Txns : ~Activating(w, x)  BY <1>2, NotActivating DEF Points
<1> HIDE DEF t
<1> QED  BY <1>1, <1>5, <1>6, <1>7, AskKeeps DEF Upgrade, t

LEMMA ChangeKeeps ==
  ASSUME Inv, Bounded', NEW w \in Workers, NEW u \in Users,
         Change(w, u), UNCHANGED <<cron, crashes>>
  PROVE  Inv' /\ Evolves
<1>0. PICK s \in ActiveOf(u),
           op \in {"cancel", "reactivate", "scheduleDowngrade", "cancelDowngrade"} :
        /\ May(w, op)
        /\ \E to \in IF op = "scheduleDowngrade"
                       THEN {{p} : p \in {q \in Plans \cup {Free} : q < sub[s].plan}}
                       ELSE {{}} :
             task' = [task EXCEPT ![w] = [Idle EXCEPT !.op = op, !.pc = "change",
                        !.user = u, !.sub = s, !.to = to]]
  BY DEF Change
<1>1. PICK to \in IF op = "scheduleDowngrade"
                    THEN {{p} : p \in {q \in Plans \cup {Free} : q < sub[s].plan}}
                    ELSE {{}} :
        task' = [task EXCEPT ![w] = [Idle EXCEPT !.op = op, !.pc = "change",
                   !.user = u, !.sub = s, !.to = to]]
  BY <1>0
<1> DEFINE t == [Idle EXCEPT !.op = op, !.pc = "change", !.user = u, !.sub = s,
                             !.to = to]
<1>2. op \in Operations /\ At(w, "idle")  BY <1>0 DEF May
<1>3. s \in Subs /\ sub[s].status = "active" /\ sub[s].user = u  BY DEF ActiveOf
<1>4. t \in TaskRecord
  <2>1. \A p \in Plans \cup {Free} : {p} \in SUBSET (Plans \cup {Free})  OBVIOUS
  <2>2. to \in SUBSET (Plans \cup {Free})  BY <2>1, Zenon
  <2> QED  BY <1>2, <1>3, <2>2, IdleFits DEF TaskRecord, Points
<1>5. Fits(t, sub, txn)  BY <1>3, IdFacts, IdleFits DEF Fits, Idle
<1>6. \A x \in Txns : ~Activating(w, x)  BY <1>2, NotActivating DEF Points
<1> HIDE DEF t
<1> QED  BY <1>1, <1>4, <1>5, <1>6, AskKeeps DEF Change, t

LEMMA DoneKeeps ==
  ASSUME Inv, Bounded', NEW w \in Workers, Done(w),
         UNCHANGED <<walletVars, docVars, cron, crashes>>,
         \A x \in Txns : Activating(w, x) => Bought(x)
  PROVE  Inv' /\ Evolves
<1>1. task' = [task EXCEPT ![w] = Idle]  BY DEF Done
<1> QED  BY <1>1, IdleFits, AskKeeps

LEMMA CreateKeeps ==
  ASSUME Inv, Bounded', NEW w \in Workers, NEW t \in TaskRecord,
         task' = [task EXCEPT ![w] = t], Fits(t, sub', txn'),
         UNCHANGED <<cron, crashes>>, WalletInv', Room(1),
         NEW u \in Users, NEW p \in Plans, NEW a \in Nat, NEW y \in Txns \cup {None},
         sub' = [s \in Subs |-> sub'[s]],
         sub'[NewSub] = Subscribed(u, p, a, None, y),
         \A s \in Subs \ {NewSub} :
           sub'[s] = sub[s] \/ (sub[s].status # "none" /\ sub'[s] = Expired(s)),
         user' \in {user, [user EXCEPT ![u] = [plan |-> p, sub |-> NewSub]]},
         UNCHANGED txn,
         \A x \in Txns : Activating(w, x) => Bought(x)'
  PROVE  Inv' /\ Evolves
<1>1. Unused # {}  BY RoomForOne
<1>2. /\ sub' \in [Subs -> SubRecord] /\ Evolves
      /\ \A s \in Subs : Created(s) => s = NewSub
      /\ NewSub \in Subs /\ sub'[NewSub].renews = None
  <2>1. Replaced(u, p, a, None, y)  BY DEF Replaced
  <2> QED  BY <1>1, <2>1, Replacing
<1>3. DocsTyped'
  <2>1. user' \in [Users -> [plan : Plans \cup {Free}, sub : Subs \cup {None}]]
    BY <1>2, Typed
  <2> QED  BY <1>2, <2>1, Typed DEF DocsTyped
<1>4. \A s \in Subs : Created(s) => s = NewSub /\ sub'[s].renews = None
  BY <1>2
<1>5. \A x \in Txns : txn'[x] = txn[x]  OBVIOUS
<1> QED  BY <1>2, <1>3, <1>4, <1>5, WorkerKeeps

LEMMA PurchaseViaWalletKeeps ==
  ASSUME Inv, Bounded', NEW w \in Workers, PurchaseViaWallet(w),
         UNCHANGED <<cron, crashes>>
  PROVE  Inv' /\ Evolves
<1> DEFINE u == task[w].user
           p == task[w].plan
           c == task[w].charge
<1>1. At(w, "purchase") /\ Done(w)  BY DEF PurchaseViaWallet
<1>2. u \in Users /\ p \in Plans /\ c \in Nat /\ Price[p] \in Nat
  BY Typed, PlanFacts DEF TaskRecord
<1>3. \A x \in Txns : ~Activating(w, x)  BY <1>1, NotActivating DEF Points
<1>4. CASE UNCHANGED <<walletVars, docVars>>
  BY <1>1, <1>3, <1>4, DoneKeeps
<1>5. CASE /\ Room(1) /\ ChargeWallet(u, c) /\ UNCHANGED txn
           /\ sub' = [sub EXCEPT ![NewSub] = Subscribed(u, p, Price[p], None, None)]
           /\ user' = [user EXCEPT ![u] = [plan |-> p, sub |-> NewSub]]
  <2>1. WalletInv'  BY <1>2, <1>5, Typed, ChargeKeeps
  <2>2. NewSub \in Subs  BY <1>5, RoomForOne, NewOne
  <2>3. /\ sub' = [s \in Subs |-> sub'[s]]
        /\ sub'[NewSub] = Subscribed(u, p, Price[p], None, None)
        /\ \A s \in Subs \ {NewSub} : sub'[s] = sub[s]
    BY <1>5, <2>2, Typed
  <2>4. task' = [task EXCEPT ![w] = Idle]  BY <1>1 DEF Done
  <2> HIDE DEF u, p, c
  <2> QED  BY <1>2, <1>3, <1>5, <2>1, <2>3, <2>4, IdleFits, CreateKeeps
<1> QED  BY <1>4, <1>5 DEF PurchaseViaWallet

LEMMA UpgradeViaWalletKeeps ==
  ASSUME Inv, Bounded', NEW w \in Workers, UpgradeViaWallet(w),
         UNCHANGED <<cron, crashes>>
  PROVE  Inv' /\ Evolves
<1> DEFINE u == task[w].user
           p == task[w].plan
           c == task[w].charge
           o == task[w].sub
<1>1. At(w, "upgrade") /\ Done(w)  BY DEF UpgradeViaWallet
<1>2. u \in Users /\ p \in Plans /\ c \in Nat /\ Price[p] \in Nat
  BY Typed, PlanFacts DEF TaskRecord
<1>3. \A x \in Txns : ~Activating(w, x)  BY <1>1, NotActivating DEF Points
<1>4. o \in Subs /\ sub[o].status # "none"
  <2>1. Fits(task[w], sub, txn)  BY DEF Inv, HeldInv
  <2> QED  BY <1>1, <2>1, Typed DEF Fits, At, TaskRecord
<1>5. CASE UNCHANGED <<walletVars, docVars>>
  BY <1>1, <1>3, <1>5, DoneKeeps
<1>6. CASE /\ Room(1) /\ ChargeWallet(u, c) /\ UNCHANGED txn
           /\ sub' = [sub EXCEPT ![o] = Expired(o),
                                 ![NewSub] = Subscribed(u, p, Price[p], None, None)]
           /\ user' = [user EXCEPT ![u] = [plan |-> p, sub |-> NewSub]]
  <2>1. WalletInv'  BY <1>2, <1>6, Typed, ChargeKeeps
  <2>2. NewSub \in Subs /\ sub[NewSub].status = "none"  BY <1>6, RoomForOne, NewOne
  <2> HIDE DEF u, p, c, o
  <2>3. /\ sub' = [s \in Subs |-> sub'[s]]
        /\ sub'[NewSub] = Subscribed(u, p, Price[p], None, None)
        /\ \A s \in Subs \ {NewSub} :
             sub'[s] = sub[s] \/ (sub[s].status # "none" /\ sub'[s] = Expired(s))
    BY <1>4, <1>6, <2>2, Typed
  <2>4. task' = [task EXCEPT ![w] = Idle]  BY <1>1 DEF Done
  <2> QED  BY <1>2, <1>3, <1>6, <2>1, <2>3, <2>4, IdleFits, CreateKeeps
<1> QED  BY <1>5, <1>6 DEF UpgradeViaWallet

LEMMA ActivateKeeps ==
  ASSUME Inv, Bounded', NEW w \in Workers, ActivateAfterPayment(w),
         UNCHANGED <<cron, crashes>>
  PROVE  Inv' /\ Evolves
<1>1. At(w, "activate") /\ Done(w)  BY DEF ActivateAfterPayment
<1>2. PICK y \in Txns : task[w].txn = y /\ txn[y].status = "SUCCESS"
  <2>1. Fits(task[w], sub, txn)  BY DEF Inv, HeldInv
  <2> QED  BY <1>1, <2>1, Typed DEF Fits, At, TaskRecord
<1> DEFINE u == txn[y].user
           p == txn[y].plan
           old == txn[y].replaces
<1>3. /\ u \in Users /\ p \in Plans /\ Price[p] \in Nat /\ old \in Subs \cup {None}
      /\ txn[y].charge \in Nat
  BY <1>2, Typed, PlanFacts DEF TxnRecord
<1>4. \A x \in Txns : Activating(w, x) => x = y  BY <1>2 DEF Activating
<1>5. CASE ~Eligible(y)
  <2>1. Bought(y)  BY <1>2, <1>5 DEF Eligible, Bought
  <2>2. UNCHANGED <<walletVars, docVars>>  BY <1>2, <1>5 DEF ActivateAfterPayment
  <2> QED  BY <1>1, <1>4, <2>1, <2>2, DoneKeeps
<1>6. CASE Eligible(y)
  <2>1. /\ Room(1)
        /\ sub' = [s \in Subs |-> CASE s = NewSub -> Subscribed(u, p, Price[p], None, y)
                                    [] s = old -> Expired(s)
                                    [] OTHER -> sub[s]]
        /\ user' = [user EXCEPT ![u] = [plan |-> p, sub |-> NewSub]]
        /\ txn' = [txn EXCEPT ![y].status = "SUCCESS"]
        /\ platform' = platform + txn[y].charge
        /\ UNCHANGED <<wallet, paidOut>>
    BY <1>2, <1>6 DEF ActivateAfterPayment
  <2>2. WalletInv'
    BY <1>3, <2>1, Typed DEF WalletInv, WalletTypeOK, WalletBalanced
  <2>3. NewSub \in Subs /\ sub[NewSub].status = "none"  BY <2>1, RoomForOne, NewOne
  <2>4. old \in Subs => sub[old].status # "none"
    <3>1. Replaces(txn[y], sub)  BY <1>2 DEF Inv, HeldInv
    <3> QED  BY <3>1, IdFacts DEF Replaces
  <2>5. UNCHANGED txn  BY <1>2, <2>1, Typed DEF TxnRecord
  <2> HIDE DEF u, p, old
  <2>6. /\ sub' = [s \in Subs |-> sub'[s]]
        /\ sub'[NewSub] = Subscribed(u, p, Price[p], None, y)
        /\ \A s \in Subs \ {NewSub} :
             sub'[s] = sub[s] \/ (sub[s].status # "none" /\ sub'[s] = Expired(s))
    BY <2>1, <2>3, <2>4
  <2>7. task' = [task EXCEPT ![w] = Idle]  BY <1>1 DEF Done
  <2>8. Subscribed(u, p, Price[p], None, y).txn = y  BY DEF Subscribed, NoSub
  <2>9. Bought(y)'  BY <2>3, <2>6, <2>8 DEF Bought
  <2>10. \A x \in Txns : Activating(w, x) => Bought(x)'  BY <1>4, <2>9
  <2>11. Idle \in TaskRecord /\ Fits(Idle, sub', txn')  BY IdleFits
  <2>12. /\ \A s \in Subs \ {NewSub} :
              sub'[s] = sub[s] \/ (sub[s].status # "none" /\ sub'[s] = Expired(s))
         /\ user' \in {user, [user EXCEPT ![u] = [plan |-> p, sub |-> NewSub]]}
         /\ Room(1)
    BY <2>1, <2>6
  <2> QED
    BY <1>3, <2>2, <2>5, <2>6, <2>7, <2>10, <2>11, <2>12, CreateKeeps
<1> QED  BY <1>5, <1>6

LEMMA InsertTxnKeeps ==
  ASSUME Inv, Bounded', NEW w \in Workers, InsertTxn(w), UNCHANGED <<cron, crashes>>
  PROVE  Inv' /\ Evolves
<1>1. PICK y \in Txns :
        /\ txn[y].status = "none"
        /\ txn' = [txn EXCEPT ![y] =
             [status |-> "PENDING", user |-> task[w].user, plan |-> task[w].plan,
              charge |-> task[w].charge, replaces |-> task[w].sub]]
  BY DEF InsertTxn
<1>2. /\ At(w, "insertTxn") /\ task' = [task EXCEPT ![w] = Idle]
      /\ UNCHANGED <<walletVars, sub, user>>
  BY DEF InsertTxn, Done
<1>3. \A x \in Txns : ~Activating(w, x)  BY <1>2, NotActivating DEF Points
<1>4. WalletInv' /\ Evolves /\ \A s \in Subs : ~Created(s)
  BY <1>2, Typed, WalletStays DEF Evolves, Created
<1>5. task[w] \in TaskRecord  BY Typed
<1>6. /\ txn'[y].status = "PENDING" /\ txn'[y] \in TxnRecord
      /\ txn'[y].replaces = task[w].sub /\ txn'[y].user = task[w].user
  BY <1>1, <1>5, Typed DEF TxnRecord, TaskRecord
<1>7. txn' \in [Txns -> TxnRecord] /\ \A x \in Txns \ {y} : txn'[x] = txn[x]
  BY <1>1, <1>6, Typed
<1>8. DocsTyped'  BY <1>2, <1>7, Typed DEF DocsTyped
<1>9. Replaces(txn'[y], sub')
  <2>1. Fits(task[w], sub, txn)  BY DEF Inv, HeldInv
  <2> QED  BY <1>2, <1>6, <2>1 DEF Fits, Replaces
<1>10. \A x \in Txns :
         \/ txn'[x] = txn[x]
         \/ Replaces(txn'[x], sub') /\ txn[x].status # "SUCCESS" /\ txn'[x].status # "SUCCESS"
  BY <1>1, <1>6, <1>7, <1>9
<1> QED  BY <1>2, <1>3, <1>4, <1>8, <1>10, IdleFits, WorkerKeeps

LEMMA ClaimKeeps ==
  ASSUME Inv, Bounded', NEW w \in Workers, NEW y \in Txns, Claim(w, y),
         UNCHANGED <<cron, crashes>>
  PROVE  Inv' /\ Evolves
<1> DEFINE t == [Idle EXCEPT !.op = "callback", !.pc = "activate", !.txn = y]
<1>1. /\ txn[y].status = "PENDING" /\ txn' = [txn EXCEPT ![y].status = "SUCCESS"]
      /\ task' = [task EXCEPT ![w] = t] /\ UNCHANGED <<walletVars, sub, user>>
      /\ At(w, "idle") /\ "callback" \in Operations
  BY DEF Claim, May
<1>2. t \in TaskRecord /\ t.pc = "activate" /\ t.txn = y /\ t.sub = None
  BY <1>1, IdleFits DEF TaskRecord, Points, Idle
<1>3. /\ txn'[y].status = "SUCCESS" /\ txn'[y] \in TxnRecord
      /\ txn'[y].replaces = txn[y].replaces /\ txn'[y].user = txn[y].user
  BY <1>1, Typed DEF TxnRecord
<1>4. txn' \in [Txns -> TxnRecord] /\ \A x \in Txns \ {y} : txn'[x] = txn[x]
  BY <1>1, <1>3, Typed
<1> HIDE DEF t
<1>5. Fits(t, sub', txn')  BY <1>2, <1>3, IdFacts DEF Fits
<1>6. \A x \in Txns : ~Activating(w, x)  BY <1>1, NotActivating DEF Points
<1>7. WalletInv' /\ Evolves /\ \A s \in Subs : ~Created(s)
  BY <1>1, Typed, WalletStays DEF Evolves, Created
<1>8. DocsTyped'  BY <1>1, <1>4, Typed DEF DocsTyped
<1>9. Replaces(txn'[y], sub')  BY <1>1, <1>3 DEF Inv, HeldInv, Replaces
<1>10. \A x \in Txns :
         \/ txn'[x] = txn[x]
         \/ /\ Replaces(txn'[x], sub') /\ txn[x].status # "SUCCESS"
            /\ txn'[x].status = "SUCCESS" => t.pc = "activate" /\ t.txn = x
  BY <1>1, <1>2, <1>4, <1>9
<1> QED  BY <1>1, <1>2, <1>5, <1>6, <1>7, <1>8, <1>10, WorkerKeeps

\* Requests that write documents and create none.
LEMMA SaveKeeps ==
  ASSUME Inv, Bounded', NEW w \in Workers, NEW pc \in Points \ {"activate"}, At(w, pc),
         NEW t \in TaskRecord, task' = [task EXCEPT ![w] = t], Fits(t, sub', txn'),
         UNCHANGED <<walletVars, cron, crashes, txn>>,
         sub' \in [Subs -> SubRecord],
         \A s \in Subs : sub'[s] = sub[s] \/ Ages(s),
         user' \in [Users -> [plan : Plans \cup {Free}, sub : Subs \cup {None}]]
  PROVE  Inv' /\ Evolves
<1>1. WalletInv' /\ DocsTyped'  BY Typed, WalletStays DEF DocsTyped
<1>2. Evolves /\ \A s \in Subs : ~Created(s)  BY DEF Evolves, Created, Ages
<1>3. \A x \in Txns : ~Activating(w, x)  BY NotActivating
<1>4. \A x \in Txns : txn'[x] = txn[x]  OBVIOUS
<1> QED  BY <1>1, <1>2, <1>3, <1>4, WorkerKeeps

LEMMA SaveChangeKeeps ==
  ASSUME Inv, Bounded', NEW w \in Workers, SaveChange(w), UNCHANGED <<cron, crashes>>
  PROVE  Inv' /\ Evolves
<1> DEFINE o == task[w].sub
           d == task[w].to
<1>1. /\ At(w, "change") /\ task' = [task EXCEPT ![w] = Idle]
      /\ UNCHANGED <<walletVars, user, txn>>
  BY DEF SaveChange, Done
<1>2. o \in Subs /\ sub[o].status # "none"
  <2>1. Fits(task[w], sub, txn)  BY DEF Inv, HeldInv
  <2> QED  BY <1>1, <2>1, Typed DEF Fits, At, TaskRecord
<1>3. d \in SUBSET (Plans \cup {Free})  BY Typed DEF TaskRecord
<1>4. sub[o] \in SubRecord  BY <1>2, Typed
<1>5. \E x \in {[sub[o] EXCEPT !.cancel = TRUE], [sub[o] EXCEPT !.cancel = FALSE],
                [sub[o] EXCEPT !.downgrade = d, !.cancel = FALSE],
                [sub[o] EXCEPT !.downgrade = {}]} : sub' = [sub EXCEPT ![o] = x]
  BY DEF SaveChange
<1> HIDE DEF o, d
<1> DEFINE Saved(x) == /\ x \in SubRecord
                       /\ x.status = sub[o].status /\ x.user = sub[o].user
                       /\ x.plan = sub[o].plan /\ x.renews = sub[o].renews
                       /\ x.txn = sub[o].txn /\ x.elapsed = sub[o].elapsed
<1>6. PICK x : sub' = [sub EXCEPT ![o] = x] /\ Saved(x)
  <2>1. Saved([sub[o] EXCEPT !.cancel = TRUE])  BY <1>4 DEF SubRecord
  <2>2. Saved([sub[o] EXCEPT !.cancel = FALSE])  BY <1>4 DEF SubRecord
  <2>3. Saved([sub[o] EXCEPT !.downgrade = d, !.cancel = FALSE])
    BY <1>3, <1>4 DEF SubRecord
  <2>4. Saved([sub[o] EXCEPT !.downgrade = {}])  BY <1>4 DEF SubRecord
  <2> HIDE DEF Saved
  <2> QED  BY <1>5, <2>1, <2>2, <2>3, <2>4
<1>7. sub'[o] = x /\ \A s \in Subs \ {o} : sub'[s] = sub[s]  BY <1>2, <1>6, Typed
<1>8. sub' \in [Subs -> SubRecord]  BY <1>6, Typed
<1>9. Ages(o)
  BY <1>2, <1>6, <1>7 DEF Ages, Inv, SubsInv
<1> QED  BY <1>1, <1>7, <1>8, <1>9, IdleFits, Typed, SaveKeeps DEF Points

LEMMA GrantKeeps ==
  ASSUME Inv, Bounded', NEW w \in Workers, NEW u \in Users, NEW p \in Plans,
         Grant(w, u, p), UNCHANGED <<cron, crashes>>
  PROVE  Inv' /\ Evolves
<1> DEFINE t == [Idle EXCEPT !.op = "grant", !.pc = "createGranted", !.user = u,
                             !.plan = p]
<1>1. /\ At(w, "idle") /\ task' = [task EXCEPT ![w] = t]
      /\ "grant" \in Operations /\ UNCHANGED <<walletVars, user, txn>>
  BY DEF Grant, Begin, May
<1>2. t \in TaskRecord /\ t.pc = "createGranted" /\ t.sub = None
  BY <1>1, IdleFits DEF TaskRecord, Points, Idle
<1> HIDE DEF t
<1>3. Fits(t, sub', txn')  BY <1>1, <1>2 DEF Fits
<1>4. ASSUME NEW s \in Subs
      PROVE  sub'[s] \in SubRecord /\ (sub'[s] = sub[s] \/ Ages(s))
  <2>1. sub[s] \in SubRecord  BY Typed
  <2>2. sub'[s] = sub[s] \/ (s \in ActiveOf(u)
                              /\ sub'[s] = [sub[s] EXCEPT !.status = "expired"])
    BY DEF Grant
  <2>3. CASE sub'[s] = sub[s]  BY <2>1, <2>3
  <2>4. CASE s \in ActiveOf(u) /\ sub'[s] = [sub[s] EXCEPT !.status = "expired"]
    BY <2>1, <2>4 DEF ActiveOf, Ages, SubRecord
  <2> QED  BY <2>2, <2>3, <2>4
<1>5. sub' \in [Subs -> SubRecord]
  <2>1. sub' = [s \in Subs |-> sub'[s]]  BY DEF Grant
  <2> QED  BY <1>4, <2>1
<1> QED  BY <1>1, <1>2, <1>3, <1>4, <1>5, Typed, SaveKeeps DEF Points

LEMMA CreateGrantedKeeps ==
  ASSUME Inv, Bounded', NEW w \in Workers, CreateGranted(w), UNCHANGED <<cron, crashes>>
  PROVE  Inv' /\ Evolves
<1>0. PICK u, p, t, a :
        /\ u = task[w].user /\ p = task[w].plan /\ a = 0
        /\ t = [task[w] EXCEPT !.pc = "setGranted", !.sub = NewSub]
  OBVIOUS
<1>1. /\ At(w, "createGranted") /\ Room(1) /\ UNCHANGED <<walletVars, user, txn>>
      /\ sub' = [sub EXCEPT ![NewSub] = Subscribed(u, p, a, None, None)]
      /\ task' = [task EXCEPT ![w].pc = "setGranted", ![w].sub = NewSub]
  BY <1>0 DEF CreateGranted
<1>2. u \in Users /\ p \in Plans /\ task[w] \in TaskRecord  BY <1>0, Typed DEF TaskRecord
<1>3. NewSub \in Subs /\ sub[NewSub].status = "none"  BY <1>1, RoomForOne, NewOne
<1>4. /\ t \in TaskRecord /\ task' = [task EXCEPT ![w] = t]
      /\ t.pc = "setGranted" /\ t.sub = NewSub /\ t.user = u
  BY <1>0, <1>1, <1>2, <1>3, Typed DEF TaskRecord, Points
<1>5. \A x \in Txns : ~Activating(w, x)  BY <1>1, NotActivating DEF Points
<1>6. "grant" \in Operations
  <2>1. Fits(task[w], sub, txn)  BY DEF Inv, HeldInv
  <2> QED  BY <1>1, <2>1 DEF Fits, At
<1>7. WalletInv'  BY <1>1, Typed, WalletStays
<1>8. /\ sub' = [s \in Subs |-> sub'[s]]
      /\ sub'[NewSub] = Subscribed(u, p, a, None, None)
      /\ \A s \in Subs \ {NewSub} : sub'[s] = sub[s]
  BY <1>1, <1>3, Typed
<1>9. Subscribed(u, p, a, None, None).user = u
      /\ Subscribed(u, p, a, None, None).status = "active"
  BY DEF Subscribed, NoSub
<1>10. Fits(t, sub', txn')  BY <1>3, <1>4, <1>6, <1>8, <1>9, IdFacts DEF Fits
<1>11. /\ a \in Nat /\ None \in Txns \cup {None}
       /\ user' \in {user, [user EXCEPT ![u] = [plan |-> p, sub |-> NewSub]]}
       /\ \A s \in Subs \ {NewSub} :
            sub'[s] = sub[s] \/ (sub[s].status # "none" /\ sub'[s] = Expired(s))
       /\ \A x \in Txns : Activating(w, x) => Bought(x)'
       /\ Room(1) /\ UNCHANGED txn
       /\ sub' = [s \in Subs |-> sub'[s]]
       /\ sub'[NewSub] = Subscribed(u, p, a, None, None)
  BY <1>0, <1>1, <1>5, <1>8
<1>12. t \in TaskRecord /\ task' = [task EXCEPT ![w] = t]  BY <1>4
<1>13. u \in Users /\ p \in Plans  BY <1>2
<1> QED  BY <1>7, <1>10, <1>11, <1>12, <1>13, CreateKeeps

LEMMA SetGrantedKeeps ==
  ASSUME Inv, Bounded', NEW w \in Workers, SetGranted(w), UNCHANGED <<cron, crashes>>
  PROVE  Inv' /\ Evolves
<1>1. /\ At(w, "setGranted") /\ task' = [task EXCEPT ![w] = Idle]
      /\ user' = [user EXCEPT ![task[w].user] =
                    [plan |-> task[w].plan, sub |-> task[w].sub]]
      /\ UNCHANGED <<walletVars, sub, txn>>
  BY DEF SetGranted, Done
<1>2. user' \in [Users -> [plan : Plans \cup {Free}, sub : Subs \cup {None}]]
  BY <1>1, Typed DEF TaskRecord
<1> QED  BY <1>1, <1>2, IdleFits, Typed, SaveKeeps DEF Points
-----------------------------------------------------------------------------
(* The renewal run.                                                        *)
LEMMA ReadKeeps ==
  ASSUME Inv, UNCHANGED <<walletVars, docVars, task, crashes, requests>>,
         cron' \in CronRecord, CronInv',
         \A d \in Listed' : d \in Listed \/ sub[d.sub].status # "expired"
  PROVE  Inv' /\ Evolves
<1>1. UNCHANGED <<sub, user, txn>> /\ Evolves  BY DocsStay
<1>2. WalletInv' /\ DocsTyped'  BY <1>1, Typed, WalletStays DEF DocsTyped
<1>3. \A s \in Subs : ~Created(s)  BY <1>1 DEF Created
<1> QED  BY <1>1, <1>2, <1>3, CronKeeps

LEMMA DecideIs ==
  ASSUME Inv, NEW s \in Subs
  PROVE  /\ Decide(s) \in Decision /\ Decide(s).sub = s
         /\ Decide(s).do = "downgrade" => sub[s].downgrade # {}
<1>1. sub[s].downgrade \in SUBSET (Plans \cup {Free})  BY Typed DEF SubRecord
<1> DEFINE p == IF sub[s].downgrade = {} THEN Free
                                         ELSE CHOOSE q \in sub[s].downgrade : TRUE
<1>2. p \in Plans \cup {Free}  BY <1>1
<1> HIDE DEF p
<1>3. Decide(s) = [sub |-> s, plan |-> p,
                   do |-> CASE sub[s].cancel -> "expire"
                            [] ~sub[s].cancel /\ sub[s].downgrade # {} -> "downgrade"
                            [] OTHER -> "renew"]
  BY DEF Decide, p
<1> QED  BY <1>2, <1>3 DEF Decision

LEMMA CronStartKeeps ==
  ASSUME Inv, CronStart, UNCHANGED <<task, crashes, requests>>
  PROVE  Inv' /\ Evolves
<1> DEFINE due == {r \in Subs : sub[r].status = "active" /\ sub[r].elapsed}
           list == {Decide(s) : s \in due}
<1>1. /\ cron.pc = "idle" /\ UNCHANGED <<walletVars, docVars>>
      /\ cron' = [cron EXCEPT !.pc = "next", !.left = list]
  BY DEF CronStart
<1>2. \A s \in due : Decide(s) \in Decision /\ Decide(s).sub = s  BY DecideIs
<1>3. /\ list \subseteq Decision
      /\ \A d \in list : d.sub \in due
      /\ \A d, e \in list : d.sub = e.sub => d = e
  BY <1>2
<1>4. cron.now = {} /\ cron \in CronRecord  BY <1>1, Typed DEF Inv, CronInv
<1> HIDE DEF list
<1>5. /\ cron'.pc = "next" /\ cron'.left = list /\ cron'.now = {}
      /\ cron' \in CronRecord
  BY <1>1, <1>3, <1>4 DEF CronRecord, CronPoints
<1>6. UNCHANGED sub  BY <1>1, DocsStay
<1>7. CronInv'  BY <1>3, <1>5, <1>6 DEF CronInv, Listed
<1>8. \A d \in Listed' : sub[d.sub].status # "expired"  BY <1>3, <1>5 DEF Listed
<1> QED  BY <1>1, <1>5, <1>7, <1>8, ReadKeeps

LEMMA CronNextKeeps ==
  ASSUME Inv, CronNext, UNCHANGED <<task, crashes, requests>>
  PROVE  Inv' /\ Evolves
<1>1. cron.pc = "next" /\ UNCHANGED <<walletVars, docVars>>  BY DEF CronNext
<1>2. cron.now = {} /\ cron \in CronRecord /\ CronInv
  BY <1>1, Typed DEF Inv, CronInv
<1>3. UNCHANGED sub  BY <1>1, DocsStay
<1>4. CASE cron.left = {} /\ (cron' = CronIdle \/ CronGo("readPastDue"))
  <2>1. /\ cron'.pc \in {"idle", "readPastDue"} /\ cron'.left = {} /\ cron'.now = {}
        /\ cron' \in CronRecord
    <3>1. CASE cron' = CronIdle
      BY <3>1 DEF CronIdle, CronRecord, CronPoints
    <3>2. CASE CronGo("readPastDue")
      <4>1. cron' = [cron EXCEPT !.pc = "readPastDue"]  BY <3>2 DEF CronGo
      <4> QED  BY <1>2, <1>4, <4>1 DEF CronRecord, CronPoints
    <3> QED  BY <1>4, <3>1, <3>2
  <2>2. CronInv'  BY <2>1 DEF CronInv, Listed
  <2> QED  BY <1>1, <2>1, <2>2, ReadKeeps DEF Listed
<1>5. ASSUME NEW d \in cron.left,
             cron' = [cron EXCEPT !.left = @ \ {d}, !.now = {d},
               !.pc = CASE d.do = "expire" \/ (d.do = "downgrade" /\ d.plan = Free)
                             -> "saveExpired"
                        [] d.do = "downgrade" /\ d.plan # Free -> "downgrade"
                        [] d.do = "renew" -> "checkWallet"
                        [] OTHER -> "checkTopUp"]
      PROVE  Inv' /\ Evolves
  <2>1. d \in Decision /\ cron.left \subseteq Decision  BY <1>2 DEF CronRecord
  <2>2. PICK pc \in {"saveExpired", "downgrade", "checkWallet", "checkTopUp"} :
          /\ pc = "downgrade" => d.plan # Free
          /\ cron' = [cron EXCEPT !.left = @ \ {d}, !.now = {d}, !.pc = pc]
    <3> DEFINE pc == CASE d.do = "expire" \/ (d.do = "downgrade" /\ d.plan = Free)
                            -> "saveExpired"
                       [] d.do = "downgrade" /\ d.plan # Free -> "downgrade"
                       [] d.do = "renew" -> "checkWallet"
                       [] OTHER -> "checkTopUp"
    <3>1. pc \in {"saveExpired", "downgrade", "checkWallet", "checkTopUp"}
      BY <2>1 DEF Decision
    <3>2. pc = "downgrade" => d.plan # Free  BY <2>1 DEF Decision
    <3>3. cron' = [cron EXCEPT !.left = @ \ {d}, !.now = {d}, !.pc = pc]  BY <1>5
    <3> HIDE DEF pc
    <3> QED  BY <3>1, <3>2, <3>3
  <2>3. /\ cron'.pc = pc /\ cron'.left = cron.left \ {d} /\ cron'.now = {d}
        /\ cron' \in CronRecord
    BY <1>2, <2>1, <2>2 DEF CronRecord, CronPoints
  <2>4. Listed' = Listed  BY <1>2, <2>3 DEF Listed
  <2>5. CronInv'
    <3>1. \A e \in Listed' : sub'[e.sub].elapsed  BY <1>2, <1>3, <2>4 DEF CronInv
    <3>2. \A e, f \in cron'.left : e.sub = f.sub => e = f  BY <1>2, <2>3 DEF CronInv
    <3>3. \A e \in cron'.left : \A f \in cron'.now : e.sub # f.sub
      BY <1>2, <2>3 DEF CronInv
    <3>4. \E e \in Decision : cron'.now = {e}  BY <2>1, <2>3
    <3> QED  BY <2>2, <2>3, <3>1, <3>2, <3>3, <3>4 DEF CronInv
  <2> QED  BY <1>1, <2>3, <2>4, <2>5, ReadKeeps
<1> QED  BY <1>4, <1>5 DEF CronNext

LEMMA ReadPastDueKeeps ==
  ASSUME Inv, ReadPastDue, UNCHANGED <<task, crashes, requests>>
  PROVE  Inv' /\ Evolves
<1> DEFINE due == {r \in Subs : sub[r].status = "past_due" /\ sub[r].graceOver}
           list == {[sub |-> s, plan |-> Free, do |-> "grace"] : s \in due}
<1>1. /\ cron.pc = "readPastDue" /\ UNCHANGED <<walletVars, docVars>>
      /\ cron' = [cron EXCEPT !.pc = "next", !.graceRead = TRUE, !.left = list]
  BY DEF ReadPastDue
<1>2. /\ list \subseteq Decision
      /\ \A d \in list : d.sub \in due
      /\ \A d, e \in list : d.sub = e.sub => d = e
  BY DEF Decision
<1>3. cron.now = {} /\ cron \in CronRecord  BY <1>1, Typed DEF Inv, CronInv
<1>4. \A s \in due : sub[s].elapsed  BY DEF Inv, SubsInv
<1> HIDE DEF list
<1>5. /\ cron'.pc = "next" /\ cron'.left = list /\ cron'.now = {}
      /\ cron' \in CronRecord
  BY <1>1, <1>2, <1>3 DEF CronRecord, CronPoints
<1>6. UNCHANGED sub  BY <1>1, DocsStay
<1>7. \A d \in list : sub[d.sub].elapsed  BY <1>2, <1>4
<1>8. CronInv'  BY <1>2, <1>5, <1>6, <1>7 DEF CronInv, Listed
<1>9. \A d \in Listed' : sub[d.sub].status # "expired"  BY <1>2, <1>5 DEF Listed
<1> QED  BY <1>1, <1>5, <1>8, <1>9, ReadKeeps

(* What the run has in hand, and how it moves on with it.                  *)
LEMMA InHandFacts ==
  ASSUME Inv, cron.now # {}
  PROVE  /\ InHand \in Subs /\ sub[InHand].elapsed /\ sub[InHand].status # "none"
         /\ sub[InHand] \in SubRecord /\ Payer \in Users /\ sub[InHand].plan \in Plans
         /\ \A d \in cron.left : d.sub # InHand
         /\ \A r \in Subs : sub[r].renews # InHand
         /\ \E d \in cron.now : d.sub = InHand
         /\ cron.pc = "downgrade" => (CHOOSE d \in cron.now : TRUE).plan \in Plans
<1>1. CronInv /\ RenewInv /\ SubsInv /\ cron \in CronRecord  BY DEF Inv
<1>2. PICK d \in Decision : /\ cron.now = {d}
                            /\ (CHOOSE e \in cron.now : TRUE) = d /\ InHand = d.sub
  BY <1>1, InHandIs
<1>3. InHand \in Subs /\ d \in Listed  BY <1>2 DEF Decision, Listed
<1>4. sub[InHand].elapsed  BY <1>1, <1>2, <1>3 DEF CronInv
<1>5. sub[InHand].status # "none"  BY <1>1, <1>3, <1>4 DEF SubsInv, NoSub
<1>6. sub[InHand] \in SubRecord  BY <1>3, Typed
<1>7. Payer \in Users /\ sub[InHand].plan \in Plans  BY <1>6 DEF Payer, SubRecord
<1>8. \A e \in cron.left : e.sub # InHand  BY <1>1, <1>2 DEF CronInv
<1>9. \A r \in Subs : sub[r].renews # InHand
  BY <1>1, <1>2, <1>3, IdFacts DEF RenewInv
<1>10. cron.pc = "downgrade" => d.plan \in Plans
  BY <1>1, <1>2 DEF CronInv, Decision
<1> QED  BY <1>2, <1>3, <1>4, <1>5, <1>6, <1>7, <1>8, <1>9, <1>10

LEMMA GoesOn ==
  ASSUME Inv, cron.now # {}, Evolves,
         \/ NextOne
         \/ \E pc \in CronPoints \ {"idle", "next", "readPastDue", "downgrade"} : CronGo(pc)
  PROVE  /\ cron' \in CronRecord /\ CronInv' /\ \A d \in Listed' : d \in Listed
         /\ NextOne => \A d \in Listed' : d.sub # InHand
<1>1. CronInv /\ SubsInv /\ cron \in CronRecord  BY DEF Inv
<1>2. \A d \in Listed : sub'[d.sub].elapsed
  <2>1. ASSUME NEW d \in Listed PROVE sub'[d.sub].elapsed
    <3>1. d.sub \in Subs /\ sub[d.sub].elapsed
      BY <1>1 DEF CronInv, Listed, CronRecord, Decision
    <3>2. sub[d.sub].status # "none"  BY <1>1, <3>1 DEF SubsInv, NoSub
    <3> QED  BY <3>1, <3>2 DEF Evolves, Ages, Created
  <2> QED  BY <2>1
<1>3. CASE NextOne
  <2>1. /\ cron' \in CronRecord /\ cron'.pc = "next" /\ cron'.now = {}
        /\ cron'.left = cron.left
    BY <1>1, <1>3 DEF NextOne, CronRecord, CronPoints
  <2>2. CronInv'  BY <1>1, <1>2, <2>1 DEF CronInv, Listed
  <2> QED  BY <2>1, <2>2, InHandFacts DEF Listed
<1>4. ASSUME NEW pc \in CronPoints \ {"idle", "next", "readPastDue", "downgrade"},
             CronGo(pc)
      PROVE  cron' \in CronRecord /\ CronInv' /\ (\A d \in Listed' : d \in Listed)
             /\ ~NextOne
  <2>1. /\ cron' \in CronRecord /\ cron'.pc = pc /\ cron'.now = cron.now
        /\ cron'.left = cron.left
    BY <1>1, <1>4 DEF CronGo, CronRecord
  <2>2. CronInv'  BY <1>1, <1>2, <2>1 DEF CronInv, Listed
  <2>3. ~NextOne  BY <1>1, <2>1 DEF NextOne, CronRecord
  <2> QED  BY <2>1, <2>2, <2>3 DEF Listed
<1> QED  BY <1>3, <1>4

LEMMA CheckKeeps ==
  ASSUME Inv, UNCHANGED <<task, crashes, requests>>,
         cron.now # {}, UNCHANGED <<walletVars, docVars>>,
         \E pc \in CronPoints \ {"idle", "next", "readPastDue", "downgrade"} : CronGo(pc)
  PROVE  Inv' /\ Evolves
<1>1. Evolves  BY DocsStay
<1>2. cron' \in CronRecord /\ CronInv' /\ \A d \in Listed' : d \in Listed
  BY <1>1, GoesOn
<1> QED  BY <1>2, ReadKeeps

(* expireSubscription, savePastDue and restore write the document in hand. *)
LEMMA WriteKeeps ==
  ASSUME Inv, UNCHANGED <<task, crashes, requests>>,
         cron.now # {}, UNCHANGED <<walletVars, txn>>,
         \/ NextOne
         \/ \E pc \in CronPoints \ {"idle", "next", "readPastDue", "downgrade"} : CronGo(pc),
         NEW x \in SubRecord, sub' = [sub EXCEPT ![InHand] = x],
         x.status # "none", x.user = sub[InHand].user, x.plan = sub[InHand].plan,
         x.renews = sub[InHand].renews, x.txn = sub[InHand].txn,
         x.elapsed = sub[InHand].elapsed,
         user' \in [Users -> [plan : Plans \cup {Free}, sub : Subs \cup {None}]]
  PROVE  Inv' /\ Evolves
<1>1. /\ InHand \in Subs /\ sub[InHand].elapsed /\ sub[InHand].status # "none"
      /\ \E d \in cron.now : d.sub = InHand
  BY InHandFacts
<1>2. sub' \in [Subs -> SubRecord] /\ sub'[InHand] = x
      /\ \A s \in Subs \ {InHand} : sub'[s] = sub[s]
  BY <1>1, Typed
<1>3. Ages(InHand)  BY <1>1, <1>2 DEF Ages
<1>4. Evolves /\ \A s \in Subs : ~Created(s)
  BY <1>1, <1>2, <1>3 DEF Evolves, Created
<1>5. cron' \in CronRecord /\ CronInv' /\ \A d \in Listed' : d \in Listed
  BY <1>4, GoesOn
<1>6. WalletInv' /\ DocsTyped'  BY <1>2, Typed, WalletStays DEF DocsTyped
<1> QED  BY <1>4, <1>5, <1>6, CronKeeps

\* The two transactions that charge for the next period.
LEMMA RenewalDocs ==
  ASSUME Inv, cron.now # {}, NextOne, Unused # {},
         NEW p \in Plans, NEW u \in Users, NEW a \in Nat, NEW h \in Subs, h = InHand,
         NEW y \in Txns \cup {None},
         Replaced(u, p, a, h, y), sub'[h].status = "expired"
  PROVE  /\ sub' \in [Subs -> SubRecord] /\ Evolves
         /\ cron' \in CronRecord /\ CronInv' /\ \A d \in Listed' : d \in Listed
         /\ \A s \in Subs : Created(s) =>
              /\ s = NewSub
              /\ \A r \in Subs : sub[r].renews # sub'[s].renews
              /\ sub'[sub'[s].renews].status = "expired"
              /\ \A d \in Listed' : d.sub # sub'[s].renews
<1>1. /\ sub' \in [Subs -> SubRecord] /\ Evolves
      /\ \A s \in Subs : Created(s) => s = NewSub
      /\ sub'[NewSub].renews = h
  <2>1. h \in Subs \cup {None}  OBVIOUS
  <2> QED  BY <2>1, Replacing
<1>2. /\ cron' \in CronRecord /\ CronInv'
      /\ \A d \in Listed' : d \in Listed /\ d.sub # h
  BY <1>1, GoesOn
<1>3. \A r \in Subs : sub[r].renews # h  BY InHandFacts
<1> QED  BY <1>1, <1>2, <1>3

LEMMA RenewKeeps ==
  ASSUME Inv, UNCHANGED <<task, crashes, requests>>, cron.now # {}, NextOne,
         UNCHANGED txn, Unused # {},
         NEW p \in Plans, NEW u \in Users, NEW a \in Nat, NEW h \in Subs, h = InHand,
         a # 0, PayPlatform(u, a), NEW y \in Txns \cup {None},
         Replaced(u, p, a, h, y), sub'[h].status = "expired",
         user' \in {[user EXCEPT ![u].sub = NewSub],
                    [user EXCEPT ![u] = [plan |-> p, sub |-> NewSub]]}
  PROVE  Inv' /\ Evolves
<1>1. /\ sub' \in [Subs -> SubRecord] /\ Evolves
      /\ cron' \in CronRecord /\ CronInv' /\ \A d \in Listed' : d \in Listed
      /\ \A s \in Subs : Created(s) =>
           /\ s = NewSub
           /\ \A r \in Subs : sub[r].renews # sub'[s].renews
           /\ sub'[sub'[s].renews].status = "expired"
           /\ \A d \in Listed' : d.sub # sub'[s].renews
  BY RenewalDocs
<1>2. WalletInv'
  <2>1. ChargeWallet(u, a)  BY DEF ChargeWallet
  <2> QED  BY <2>1, Typed, ChargeKeeps
<1>3. user' \in [Users -> [plan : Plans \cup {Free}, sub : Subs \cup {None}]]
  BY Typed, NewOne
<1>4. DocsTyped'  BY <1>1, <1>3, Typed DEF DocsTyped
<1> QED  BY <1>1, <1>2, <1>4, CronKeeps

LEMMA RenewedIs ==
  ASSUME Inv, cron.now # {}, Unused # {}, NEW p \in Plans,
         NEW x \in {Expired(InHand), [sub[InHand] EXCEPT !.status = "expired"]},
         sub' = [sub EXCEPT ![InHand] = x,
                            ![NewSub] = Subscribed(Payer, p, Price[p], InHand, None)]
  PROVE  \E u \in Users, a \in Nat, h \in Subs, y \in Txns \cup {None} :
           /\ h = InHand /\ u = Payer /\ a = Price[p] /\ a # 0
           /\ Replaced(u, p, a, h, y) /\ sub'[h].status = "expired"
<1>1. /\ InHand \in Subs /\ sub[InHand].status # "none"
      /\ Payer \in Users /\ Price[p] \in Nat /\ Price[p] # 0
      /\ sub[InHand] \in SubRecord
  BY InHandFacts, PlanFacts, AmountsAssumption
<1>2. PICK h \in Subs, u \in Users, a \in Nat, y \in Txns \cup {None} :
        h = InHand /\ u = Payer /\ a = Price[p] /\ y = None
  BY <1>1
<1>3. NewSub \in Subs /\ sub[NewSub].status = "none"  BY NewOne
<1>4. x.status = "expired"  BY <1>1 DEF Expired, SubRecord
<1>5. Replaced(u, p, a, h, y) /\ sub'[h].status = "expired"
  BY <1>1, <1>2, <1>3, <1>4, Typed DEF Replaced
<1> QED  BY <1>1, <1>2, <1>5, Zenon

LEMMA CronStepKeeps ==
  ASSUME Inv, CronStep, UNCHANGED <<task, crashes, requests>>
  PROVE  Inv' /\ Evolves
<1> DEFINE Users2 == [Users -> [plan : Plans \cup {Free}, sub : Subs \cup {None}]]
           Later == CronPoints \ {"idle", "next", "readPastDue", "downgrade"}
<1>0. /\ user \in Users2
      /\ {"checkWallet", "savePastDue", "renew", "checkTopUp", "restore",
          "saveExpired", "setFree"} \subseteq Later
  BY Typed DEF CronPoints
<1> HIDE DEF Later
<1>1. CASE CronNext  BY <1>1, CronNextKeeps
<1>2. CASE ReadPastDue  BY <1>2, ReadPastDueKeeps
<1>3. CASE ProcessDowngrade
  <2> DEFINE p == (CHOOSE d \in cron.now : TRUE).plan
  <2>1. cron.now # {} /\ cron.pc = "downgrade" /\ UNCHANGED txn
    BY <1>3 DEF ProcessDowngrade, CronAt
  <2>2. p \in Plans  BY <2>1, InHandFacts
  <2>3. CASE CronGo("saveExpired") /\ UNCHANGED <<walletVars, sub, user>>
    BY <1>0, <2>1, <2>3, CheckKeeps DEF docVars, Later
  <2>4. CASE /\ Unused # {} /\ PayPlatform(Payer, Price[p]) /\ NextOne
             /\ sub' = [sub EXCEPT ![InHand] = Expired(InHand),
                          ![NewSub] = Subscribed(Payer, p, Price[p], InHand, None)]
             /\ user' = [user EXCEPT ![Payer] = [plan |-> p, sub |-> NewSub]]
    <3>1. PICK q \in Plans, x \in {Expired(InHand)} : q = p  BY <2>2
    <3>2. sub' = [sub EXCEPT ![InHand] = x,
                    ![NewSub] = Subscribed(Payer, q, Price[q], InHand, None)]
      BY <2>4, <3>1
    <3>3. PICK u \in Users, a \in Nat, h \in Subs, y \in Txns \cup {None} :
            /\ h = InHand /\ u = Payer /\ a = Price[q] /\ a # 0
            /\ Replaced(u, q, a, h, y) /\ sub'[h].status = "expired"
      BY <2>1, <2>4, <3>1, <3>2, RenewedIs
    <3>4. /\ PayPlatform(u, a) /\ Unused # {} /\ NextOne
          /\ user' = [user EXCEPT ![u] = [plan |-> q, sub |-> NewSub]]
      BY <2>4, <3>1, <3>3
    <3> QED  BY <2>1, <3>3, <3>4, RenewKeeps
  <2> QED  BY <1>3, <2>3, <2>4 DEF ProcessDowngrade
<1>4. CASE CheckWallet
  BY <1>0, <1>4, CheckKeeps DEF CheckWallet, CronAt, Later
<1>5. CASE SavePastDue
  <2>1. /\ cron.now # {} /\ NextOne /\ UNCHANGED <<walletVars, user, txn>>
        /\ sub' = [sub EXCEPT ![InHand].status = "past_due", ![InHand].graceOver = FALSE]
    BY <1>5 DEF SavePastDue, CronAt
  <2>2. PICK x : x = [sub[InHand] EXCEPT !.status = "past_due", !.graceOver = FALSE]
    OBVIOUS
  <2>3. /\ x \in SubRecord /\ x.status # "none" /\ x.user = sub[InHand].user
        /\ x.plan = sub[InHand].plan /\ x.renews = sub[InHand].renews
        /\ x.txn = sub[InHand].txn /\ x.elapsed = sub[InHand].elapsed
        /\ sub' = [sub EXCEPT ![InHand] = x]
    BY <2>1, <2>2, InHandFacts, Typed DEF SubRecord
  <2> QED  BY <1>0, <2>1, <2>3, WriteKeeps
<1>6. CASE Renew
  <2> DEFINE p == sub[InHand].plan
  <2>1. cron.now # {} /\ NextOne /\ UNCHANGED txn  BY <1>6 DEF Renew, CronAt
  <2>2. p \in Plans  BY <2>1, InHandFacts
  <2>3. CASE UNCHANGED <<walletVars, sub, user>>
    <3>1. Evolves /\ UNCHANGED docVars  BY <2>1, <2>3 DEF Evolves, docVars
    <3>2. cron' \in CronRecord /\ CronInv' /\ \A d \in Listed' : d \in Listed
      BY <2>1, <3>1, GoesOn
    <3> QED  BY <2>3, <3>1, <3>2, ReadKeeps
  <2>4. CASE /\ Unused # {} /\ PayPlatform(Payer, Price[p])
             /\ sub' = [sub EXCEPT ![InHand].status = "expired",
                          ![NewSub] = Subscribed(Payer, p, Price[p], InHand, None)]
             /\ user' = [user EXCEPT ![Payer].sub = NewSub]
    <3>1. PICK q \in Plans, x \in {[sub[InHand] EXCEPT !.status = "expired"]} : q = p
      BY <2>2
    <3>2. sub' = [sub EXCEPT ![InHand] = x,
                    ![NewSub] = Subscribed(Payer, q, Price[q], InHand, None)]
      BY <2>4, <3>1
    <3>3. PICK u \in Users, a \in Nat, h \in Subs, y \in Txns \cup {None} :
            /\ h = InHand /\ u = Payer /\ a = Price[q] /\ a # 0
            /\ Replaced(u, q, a, h, y) /\ sub'[h].status = "expired"
      BY <2>1, <2>4, <3>1, <3>2, RenewedIs
    <3>4. /\ PayPlatform(u, a) /\ Unused # {}
          /\ user' = [user EXCEPT ![u].sub = NewSub]
      BY <2>4, <3>1, <3>3
    <3> QED  BY <2>1, <3>3, <3>4, RenewKeeps
  <2> QED  BY <1>6, <2>3, <2>4 DEF Renew
<1>7. CASE CheckTopUp
  BY <1>0, <1>7, CheckKeeps DEF CheckTopUp, CronAt, Later
<1>8. CASE Restore
  <2>1. /\ cron.now # {} /\ CronGo("checkWallet") /\ UNCHANGED <<walletVars, user, txn>>
        /\ sub' = [sub EXCEPT ![InHand].status = "active", ![InHand].graceOver = FALSE]
    BY <1>8 DEF Restore, CronAt
  <2>2. PICK x : x = [sub[InHand] EXCEPT !.status = "active", !.graceOver = FALSE]
    OBVIOUS
  <2>3. /\ x \in SubRecord /\ x.status # "none" /\ x.user = sub[InHand].user
        /\ x.plan = sub[InHand].plan /\ x.renews = sub[InHand].renews
        /\ x.txn = sub[InHand].txn /\ x.elapsed = sub[InHand].elapsed
        /\ sub' = [sub EXCEPT ![InHand] = x]
    BY <2>1, <2>2, InHandFacts, Typed DEF SubRecord
  <2> QED  BY <1>0, <2>1, <2>3, WriteKeeps DEF Later
<1>9. CASE SaveExpired
  <2>1. /\ cron.now # {} /\ CronGo("setFree") /\ UNCHANGED <<walletVars, user, txn>>
        /\ sub' = [sub EXCEPT ![InHand].status = "expired"]
    BY <1>9 DEF SaveExpired, CronAt
  <2>2. PICK x : x = [sub[InHand] EXCEPT !.status = "expired"]
    OBVIOUS
  <2>3. /\ x \in SubRecord /\ x.status # "none" /\ x.user = sub[InHand].user
        /\ x.plan = sub[InHand].plan /\ x.renews = sub[InHand].renews
        /\ x.txn = sub[InHand].txn /\ x.elapsed = sub[InHand].elapsed
        /\ sub' = [sub EXCEPT ![InHand] = x]
    BY <2>1, <2>2, InHandFacts, Typed DEF SubRecord
  <2> QED  BY <1>0, <2>1, <2>3, WriteKeeps DEF Later
<1>10. CASE SetFree
  <2>1. /\ cron.now # {} /\ NextOne /\ UNCHANGED <<walletVars, sub, txn>>
        /\ user' = [user EXCEPT ![Payer] = [plan |-> Free, sub |-> None]]
    BY <1>10 DEF SetFree, CronAt
  <2>2. user' \in Users2  BY <1>0, <2>1
  <2>3. PICK x : x = sub[InHand]  OBVIOUS
  <2>4. x \in SubRecord /\ x.status # "none" /\ sub' = [sub EXCEPT ![InHand] = x]
    BY <2>1, <2>3, InHandFacts, Typed
  <2> QED  BY <2>1, <2>2, <2>3, <2>4, WriteKeeps
<1> QED
  BY <1>1, <1>2, <1>3, <1>4, <1>5, <1>6, <1>7, <1>8, <1>9, <1>10 DEF CronStep
-----------------------------------------------------------------------------
(* Time, the gateway, deposits, and the server that stops.                 *)
LEMMA AroundKeeps ==
  ASSUME Inv, UNCHANGED <<user, task, cron, requests>>, crashes' = crashes,
         WalletInv', sub' \in [Subs -> SubRecord], txn' \in [Txns -> TxnRecord],
         \A s \in Subs : sub'[s] = sub[s] \/ Ages(s),
         \A y \in Txns :
           \/ txn'[y] = txn[y]
           \/ /\ txn[y].status # "SUCCESS" /\ txn'[y].status # "SUCCESS"
              /\ txn'[y].replaces = txn[y].replaces /\ txn'[y].user = txn[y].user
  PROVE  Inv' /\ Evolves
<1>1. /\ CronInv /\ SubsInv /\ cron \in CronRecord /\ cron' = cron
      /\ task' = task /\ task' \in [Workers -> TaskRecord]
  BY DEF Inv
<1>2. Bounded' /\ DocsTyped'  BY Typed DEF Inv, Bounded, DocsTyped
<1>3. Evolves /\ \A s \in Subs : ~Created(s)  BY DEF Evolves, Created, Ages
<1>4. Listed' = Listed  BY <1>1 DEF Listed
<1>5. CronInv'
  <2>1. ASSUME NEW d \in Listed PROVE sub'[d.sub].elapsed
    <3>1. d.sub \in Subs /\ sub[d.sub].elapsed
      BY <1>1 DEF CronInv, Listed, CronRecord, Decision
    <3> QED  BY <3>1 DEF Ages
  <2> QED  BY <1>1, <1>4, <2>1 DEF CronInv
<1>6. \A w \in Workers : task'[w] = task[w]  BY <1>1
<1>7. \A w \in Workers, y \in Txns : Activating(w, y) => Activating(w, y)'
  BY <1>1 DEF Activating
<1>8. \A y \in Txns :
        /\ txn'[y].replaces = txn[y].replaces /\ txn'[y].user = txn[y].user
        /\ txn[y].status = "SUCCESS" <=> txn'[y].status = "SUCCESS"
  OBVIOUS
<1> QED  BY <1>1, <1>2, <1>3, <1>4, <1>5, <1>6, <1>7, <1>8, Keeps

LEMMA TimePassesKeeps == ASSUME Inv, TimePasses PROVE Inv' /\ Evolves
<1>1. /\ UNCHANGED <<walletVars, user, txn, task, cron, crashes, requests>>
      /\ WalletInv'
  BY Typed, WalletStays DEF TimePasses
<1>2. PICK s \in Subs :
        \/ /\ sub[s].status # "none" /\ sub' = [sub EXCEPT ![s].elapsed = TRUE]
        \/ /\ sub[s].status # "none" /\ sub' = [sub EXCEPT ![s].graceOver = TRUE]
  BY DEF TimePasses, PeriodEnds, GraceEnds, Live
<1>3. sub[s] \in SubRecord /\ (sub[s].status = "past_due" => sub[s].elapsed)
  BY Typed DEF Inv, SubsInv
<1> DEFINE x == [sub[s] EXCEPT !.elapsed = TRUE]
           y == [sub[s] EXCEPT !.graceOver = TRUE]
<1>4. /\ x \in SubRecord /\ y \in SubRecord
      /\ \A z \in {x, y} :
           /\ z.status = sub[s].status /\ z.user = sub[s].user /\ z.plan = sub[s].plan
           /\ z.renews = sub[s].renews /\ z.txn = sub[s].txn
           /\ z.elapsed = sub[s].elapsed \/ z.elapsed = TRUE
  BY <1>3 DEF SubRecord
<1>5. \E z \in {x, y} : sub' = [sub EXCEPT ![s] = z]  BY <1>2
<1> HIDE DEF x, y
<1>6. /\ sub' \in [Subs -> SubRecord] /\ sub'[s] \in {x, y}
      /\ \A r \in Subs \ {s} : sub'[r] = sub[r]
  BY <1>4, <1>5, Typed
<1>7. Ages(s)  BY <1>2, <1>3, <1>4, <1>6 DEF Ages
<1> QED  BY <1>1, <1>6, <1>7, Typed, AroundKeeps

LEMMA TimeOutKeeps ==
  ASSUME Inv, NEW y \in Txns, TimeOut(y), UNCHANGED <<cron, crashes, requests>>
  PROVE  Inv' /\ Evolves
<1>1. /\ txn[y].status = "PENDING" /\ txn' = [txn EXCEPT ![y].status = "FAILED"]
      /\ UNCHANGED <<walletVars, sub, user, task>> /\ WalletInv'
  BY Typed, WalletStays DEF TimeOut
<1>2. /\ txn' \in [Txns -> TxnRecord] /\ txn'[y].status = "FAILED"
      /\ txn'[y].replaces = txn[y].replaces /\ txn'[y].user = txn[y].user
      /\ \A x \in Txns \ {y} : txn'[x] = txn[x]
  BY <1>1, Typed DEF TxnRecord
<1> QED  BY <1>1, <1>2, Typed, AroundKeeps

LEMMA TopUpKeeps ==
  ASSUME Inv, NEW u \in Users, NEW a \in Amounts, TopUp(u, a) PROVE Inv' /\ Evolves
<1>1. Deposit(u, a) /\ UNCHANGED <<docVars, task, cron, crashes, requests>>
  BY DEF TopUp
<1>2. WalletInv'  BY <1>1, Typed, WalletInvStep DEF WalletNext
<1>3. UNCHANGED <<sub, user, txn>>  BY <1>1 DEF docVars
<1> QED  BY <1>1, <1>2, <1>3, Typed, AroundKeeps

LEMMA CrashKeeps == ASSUME Inv, Crash PROVE Inv' /\ Evolves
<1>1. /\ crashes < MaxCrashes /\ crashes' = crashes + 1 /\ cron' = CronIdle
      /\ task' = [w \in Workers |-> Idle]
      /\ UNCHANGED <<walletVars, docVars, requests>>
  BY DEF Crash
<1>2. UNCHANGED <<sub, user, txn>> /\ Evolves /\ \A s \in Subs : ~Created(s)
  BY <1>1, DocsStay DEF Created
<1>3. Bounded' /\ crashes' # 0
  BY <1>1, SubscriptionAssumption DEF Inv, Bounded
<1>4. WalletInv' /\ DocsTyped'  BY <1>1, <1>2, Typed, WalletStays DEF DocsTyped
<1>5. task' \in [Workers -> TaskRecord] /\ cron' \in CronRecord
      /\ \A w \in Workers : Fits(task'[w], sub', txn')
  BY <1>1, IdleFits
<1>6. cron'.pc = "idle" /\ cron'.now = {} /\ cron'.left = {}  BY <1>1 DEF CronIdle
<1>7. CronInv' /\ Listed' = {}  BY <1>6 DEF CronInv, Listed
<1>8. \A y \in Txns :
        /\ txn'[y].replaces = txn[y].replaces /\ txn'[y].user = txn[y].user
        /\ txn[y].status = "SUCCESS" => txn'[y].status = "SUCCESS"
  BY <1>2
<1> QED  BY <1>2, <1>3, <1>4, <1>5, <1>7, <1>8, Keeps

LEMMA InvInit == Init => Inv
<1> SUFFICES ASSUME Init PROVE Inv  OBVIOUS
<1> USE DEF Init
<1>1. WalletInv  BY WalletInvInit
<1>2. AnyUser \in Users /\ 1 \in Plans  BY SomeUser, PlanFacts
<1>3. NoSub \in SubRecord /\ NoSub.status = "none" /\ NoSub.renews = None
  BY <1>2 DEF NoSub, SubRecord
<1>4. NoTxn \in TxnRecord /\ NoTxn.status = "none" /\ NoTxn.replaces = None
  BY <1>2 DEF NoTxn, TxnRecord
<1>5. Bounded  BY SubscriptionAssumption DEF Bounded
<1>6. DocsTyped  BY <1>3, <1>4 DEF DocsTyped
<1>7. task \in [Workers -> TaskRecord] /\ cron \in CronRecord  BY IdleFits
<1>8. SubsInv  BY <1>3 DEF SubsInv
<1>9. HeldInv  BY <1>4, IdleFits DEF HeldInv, Replaces
<1>10. CronInv /\ Listed = {}  BY DEF CronInv, CronIdle, Listed
<1>11. RenewInv  BY <1>3 DEF RenewInv, RenewedOnce
<1>12. PaidInv  BY <1>4 DEF PaidInv
<1> QED
  BY <1>1, <1>5, <1>6, <1>7, <1>8, <1>9, <1>10, <1>11, <1>12 DEF Inv

LEMMA InvNext == Inv /\ [Next]_vars => Inv'
<1> SUFFICES ASSUME Inv, [Next]_vars PROVE Inv'  OBVIOUS
<1>1. ASSUME NEW w \in Workers, Arrive(w), UNCHANGED <<cron, crashes>> PROVE Inv'
  <2>1. Bounded'
    BY <1>1, SubscriptionAssumption DEF Arrive, Inv, Bounded
  <2> QED
    BY <1>1, <2>1, PurchaseKeeps, UpgradeKeeps, GrantKeeps, ClaimKeeps, ChangeKeeps
    DEF Arrive
<1>2. ASSUME NEW w \in Workers, Proceed(w), UNCHANGED <<cron, crashes, requests>>
      PROVE  Inv'
  <2>1. Bounded'  BY <1>2 DEF Inv, Bounded
  <2> QED
    BY <1>2, <2>1, PurchaseViaWalletKeeps, UpgradeViaWalletKeeps, InsertTxnKeeps,
       ActivateKeeps, SaveChangeKeeps, CreateGrantedKeeps, SetGrantedKeeps
    DEF Proceed
<1>3. CASE Hourly  BY <1>3, CronStartKeeps, CronStepKeeps DEF Hourly
<1>4. CASE UNCHANGED vars
  <2>1. /\ UNCHANGED <<walletVars, sub, user, txn, task, cron, crashes, requests>>
    BY <1>4 DEF vars, docVars
  <2>2. WalletInv'  BY <2>1, Typed, WalletStays
  <2> QED  BY <2>1, <2>2, Typed, AroundKeeps
<1> QED
  BY <1>1, <1>2, <1>3, <1>4, TimeOutKeeps, TimePassesKeeps, TopUpKeeps, CrashKeeps
  DEF Next

LEMMA InvAlways == Spec => []Inv
BY InvInit, InvNext, PTL DEF Spec
-----------------------------------------------------------------------------
(* Subscriptions, users, payments, requests and the run stay well-formed,  *)
(* and the run has at most one document in hand.                           *)
THEOREM SubscriptionTypeSafe == Spec => []TypeOK
<1>1. Inv => TypeOK
  <2> SUFFICES ASSUME Inv PROVE TypeOK  OBVIOUS
  <2>1. Cardinality(cron.now) <= 1
    <3>1. cron.now = {} \/ \E d \in Decision : cron.now = {d}  BY DEF Inv, CronInv
    <3>2. Cardinality({}) = 0 /\ \A d \in Decision : Cardinality({d}) = 1
      BY FS_EmptySet, FS_Singleton
    <3>3. CASE cron.now = {}  BY <3>2, <3>3
    <3>4. CASE cron.now # {}  BY <3>1, <3>2, <3>4
    <3> QED  BY <3>3, <3>4
  <2> QED  BY <2>1 DEF Inv, TypeOK, Bounded, DocsTyped, WalletInv
<1> QED  BY <1>1, InvAlways, PTL

(* A period is renewed, and charged, at most once: whatever the requests   *)
(* do between the steps of the run, and wherever the server stops.         *)
THEOREM PeriodsRenewOnce == Spec => []RenewedOnce
<1>1. Inv => RenewedOnce  BY DEF Inv, RenewInv
<1> QED  BY <1>1, InvAlways, PTL

(* A payment that was claimed has its subscription, or a request that is   *)
(* about to create it (activateAfterPayment), until the server stops.      *)
THEOREM PaymentsActivate == Spec => []PaidIsActivated
<1>1. Inv => PaidIsActivated
  BY DEF Inv, PaidInv, PaidIsActivated, Quiet, At, Activating, Bought
<1> QED  BY <1>1, InvAlways, PTL

(* Plans are paid from what the wallet holds: every wallet reconciles.     *)
THEOREM SubscribersReconcile == Spec => []WalletBalanced
<1>1. Inv => WalletBalanced  BY DEF Inv, WalletInv
<1> QED  BY <1>1, InvAlways, PTL
-----------------------------------------------------------------------------
(* A paid plan is backed by a live subscription, or by somebody on the way *)
(* to write the user document: the run that ends the plan, or the          *)
(* administrator's grant.  A grant that overlaps another request is not    *)
(* covered: of two grants, or of a grant and an upgrade, one can expire    *)
(* what the other made before it names it as the user's plan.              *)
NoRace == (\A v, w \in Workers : v = w) \/ "grant" \notin Operations

Backing(u) ==
  \E s \in Subs : sub[s].user = u /\ sub[s].plan = user[u].plan /\ Live(s)
Expiring(u) == cron.pc = "setFree" /\ cron.now # {} /\ Payer = u
Granting(w, u) ==
  task[w].pc \in {"createGranted", "setGranted"} /\ task[w].user = u
Backed(u) ==
  user[u].plan # Free =>
    Backing(u) \/ Expiring(u) \/ \E w \in Workers : Granting(w, u)

BackedInv == crashes = 0 => \A u \in Users : Backed(u)

\* What a grant created stays until the grant names it.
GrantInv ==
  \A w \in Workers : task[w].pc = "setGranted" =>
    /\ Live(task[w].sub) /\ ~sub[task[w].sub].elapsed
    /\ sub[task[w].sub].plan = task[w].plan

\* Nothing that backs the plan of u ends.
KeepsPlan(u) ==
  /\ user'[u].plan = user[u].plan
  /\ \A s \in Subs : Live(s) /\ sub[s].user = u => Live(s)'

LEMMA StaysBacked ==
  ASSUME Inv, Evolves, NEW u \in Users, KeepsPlan(u), Backed(u),
         Expiring(u) => Expiring(u)',
         \A w \in Workers : Granting(w, u) => Granting(w, u)'
  PROVE  Backed(u)'
<1> SUFFICES ASSUME user'[u].plan # Free, Backing(u) PROVE Backing(u)'
  BY DEF Backed, KeepsPlan
<1>1. PICK s \in Subs : sub[s].user = u /\ sub[s].plan = user[u].plan /\ Live(s)
  BY DEF Backing
<1>2. sub'[s].user = u /\ sub'[s].plan = user[u].plan
  BY <1>1 DEF Evolves, Ages, Created, Live
<1> QED  BY <1>1, <1>2 DEF KeepsPlan, Backing

LEMMA ExpiringStays ==
  ASSUME Inv, Evolves, NEW u \in Users, cron' = cron, Expiring(u)
  PROVE  Expiring(u)'
<1>1. InHand \in Subs /\ sub[InHand].status # "none" /\ InHand' = InHand
  BY InHandFacts DEF Expiring, InHand
<1>2. sub'[InHand].user = sub[InHand].user
  BY <1>1 DEF Evolves, Ages, Created
<1> QED  BY <1>1, <1>2 DEF Expiring, Payer

LEMMA WorkerBacked ==
  ASSUME Inv, Evolves, BackedInv, NEW w \in Workers, NEW t,
         task' = [task EXCEPT ![w] = t], UNCHANGED <<cron, crashes>>,
         \A u \in Users : Backed(u)' \/ (KeepsPlan(u) /\ ~Granting(w, u))
  PROVE  BackedInv'
<1> SUFFICES ASSUME crashes = 0, NEW u \in Users, KeepsPlan(u), ~Granting(w, u)
             PROVE  Backed(u)'
  BY DEF BackedInv
<1>1. Backed(u)  BY DEF BackedInv
<1>2. Expiring(u) => Expiring(u)'  BY ExpiringStays
<1>3. \A v \in Workers : Granting(v, u) => Granting(v, u)'
  BY Typed DEF Granting
<1> QED  BY <1>1, <1>2, <1>3, StaysBacked

\* A request that leaves everything a plan rests on alone.
LEMMA WorkerLeaves ==
  ASSUME Inv, Evolves, BackedInv, NEW w \in Workers, NEW t,
         task' = [task EXCEPT ![w] = t], UNCHANGED <<cron, crashes, user>>,
         task[w].pc \notin {"createGranted", "setGranted"},
         \A s \in Subs : Live(s) => Live(s)'
  PROVE  BackedInv'
<1>1. \A u \in Users : KeepsPlan(u) /\ ~Granting(w, u)  BY DEF KeepsPlan, Granting
<1> QED  BY <1>1, WorkerBacked

\* A request that gives a user a plan, and the document that backs it.
LEMMA WorkerGives ==
  ASSUME Inv, Evolves, BackedInv, NEW w \in Workers, NEW t,
         task' = [task EXCEPT ![w] = t], UNCHANGED <<cron, crashes>>,
         NEW u \in Users, NEW p \in Plans, NEW n \in Subs,
         user' = [user EXCEPT ![u] = [plan |-> p, sub |-> n]],
         sub'[n].user = u, sub'[n].plan = p, Live(n)',
         \A v \in Users \ {u} : ~Granting(w, v),
         \A s \in Subs : Live(s) /\ sub[s].user # u => Live(s)'
  PROVE  BackedInv'
<1>1. user'[u].plan = p /\ \A v \in Users \ {u} : user'[v] = user[v]  BY Typed
<1>2. Backing(u)'  BY <1>1 DEF Backing
<1>3. \A v \in Users \ {u} : KeepsPlan(v)  BY <1>1 DEF KeepsPlan
<1>4. \A v \in Users : Backed(v)' \/ (KeepsPlan(v) /\ ~Granting(w, v))
  BY <1>2, <1>3 DEF Backed
<1> QED  BY <1>4, WorkerBacked

\* What the run does to a plan.
LEMMA CronBacked ==
  ASSUME Inv, Evolves, BackedInv, UNCHANGED <<task, crashes>>,
         \A u \in Users : Backed(u)' \/ (KeepsPlan(u) /\ ~Expiring(u))
  PROVE  BackedInv'
<1> SUFFICES ASSUME crashes = 0, NEW u \in Users, KeepsPlan(u), ~Expiring(u)
             PROVE  Backed(u)'
  BY DEF BackedInv
<1>1. Backed(u)  BY DEF BackedInv
<1>2. \A v \in Workers : Granting(v, u) => Granting(v, u)'  BY DEF Granting
<1> QED  BY <1>1, <1>2, StaysBacked

LEMMA CronLeaves ==
  ASSUME Inv, Evolves, BackedInv, UNCHANGED <<task, crashes, user>>,
         cron.pc # "setFree" \/ cron' = cron,
         \A s \in Subs : Live(s) => Live(s)'
  PROVE  BackedInv'
<1> SUFFICES ASSUME crashes = 0, NEW u \in Users PROVE Backed(u)'
  BY DEF BackedInv
<1>1. Backed(u) /\ KeepsPlan(u)  BY DEF BackedInv, KeepsPlan
<1>2. Expiring(u) => Expiring(u)'
  <2>1. CASE cron' = cron  BY <2>1, ExpiringStays
  <2>2. CASE cron.pc # "setFree"  BY <2>2 DEF Expiring
  <2> QED  BY <2>1, <2>2
<1>3. \A v \in Workers : Granting(v, u) => Granting(v, u)'  BY DEF Granting
<1> QED  BY <1>1, <1>2, <1>3, StaysBacked

LEMMA ArriveBacked ==
  ASSUME Inv, Evolves, BackedInv, NEW w \in Workers, Arrive(w), UNCHANGED <<cron, crashes>>
  PROVE  BackedInv'
<1>1. At(w, "idle")
  BY DEF Arrive, Purchase, Upgrade, Grant, Claim, Change, May
<1>2. task[w].pc \notin {"createGranted", "setGranted"}
      /\ \A u \in Users : ~Granting(w, u)
  BY <1>1 DEF At, Granting
<1>3. CASE UNCHANGED <<sub, user>>
  <2>1. PICK t : task' = [task EXCEPT ![w] = t]
    <3> DEFINE Asks == \E t : task' = [task EXCEPT ![w] = t]
    <3>1. \A u \in Users, p \in Plans : Purchase(w, u, p) => Asks  BY DEF Purchase
    <3>2. \A u \in Users, p \in Plans : Upgrade(w, u, p) => Asks  BY DEF Upgrade
    <3>3. \A u \in Users, p \in Plans : Grant(w, u, p) => Asks  BY DEF Grant, Begin
    <3>4. \A y \in Txns : Claim(w, y) => Asks  BY DEF Claim
    <3>5. \A u \in Users : Change(w, u) => Asks  BY DEF Change
    <3> QED  BY <3>1, <3>2, <3>3, <3>4, <3>5 DEF Arrive
  <2>2. \A s \in Subs : Live(s) => Live(s)'  BY <1>3 DEF Live
  <2> QED  BY <1>2, <1>3, <2>1, <2>2, WorkerLeaves
<1>4. ASSUME NEW u \in Users, NEW p \in Plans, Grant(w, u, p) PROVE BackedInv'
  <2> DEFINE t == [Idle EXCEPT !.op = "grant", !.pc = "createGranted", !.user = u,
                               !.plan = p]
  <2>1. /\ task' = [task EXCEPT ![w] = t] /\ UNCHANGED user
        /\ sub' = [s \in Subs |-> IF s \in ActiveOf(u)
                                    THEN [sub[s] EXCEPT !.status = "expired"] ELSE sub[s]]
    BY <1>4 DEF Grant, Begin
  <2>2. t.pc = "createGranted" /\ t.user = u  BY DEF Idle
  <2> HIDE DEF t
  <2>3. Granting(w, u)'  BY <2>1, <2>2, Typed DEF Granting
  <2>4. \A v \in Users \ {u} : KeepsPlan(v)
    BY <2>1 DEF KeepsPlan, ActiveOf, Live
  <2>5. \A v \in Users : Backed(v)' \/ (KeepsPlan(v) /\ ~Granting(w, v))
    BY <1>2, <2>3, <2>4 DEF Backed
  <2> QED  BY <2>1, <2>5, WorkerBacked
<1>5. \A u \in Users, p \in Plans : Purchase(w, u, p) \/ Upgrade(w, u, p) =>
        UNCHANGED <<sub, user>>
  BY DEF Purchase, Upgrade, docVars
<1>6. \A y \in Txns : Claim(w, y) => UNCHANGED <<sub, user>>  BY DEF Claim
<1>7. \A u \in Users : Change(w, u) => UNCHANGED <<sub, user>>  BY DEF Change, docVars
<1> QED  BY <1>3, <1>4, <1>5, <1>6, <1>7 DEF Arrive

LEMMA ProceedBacked ==
  ASSUME Inv, Evolves, BackedInv, GrantInv, NEW w \in Workers, Proceed(w),
         UNCHANGED <<cron, crashes>>
  PROVE  BackedInv'
<1>1. task[w] \in TaskRecord /\ Fits(task[w], sub, txn) /\ task \in [Workers -> TaskRecord]
  BY Typed DEF Inv, HeldInv
<1>2. PICK u \in Users, p \in Plans, o \in Subs \cup {None}, y \in Txns \cup {None} :
        u = task[w].user /\ p = task[w].plan /\ o = task[w].sub /\ y = task[w].txn
  BY <1>1 DEF TaskRecord
<1>3. Room(1) => NewSub \in Subs /\ sub[NewSub].status = "none"
  BY RoomForOne, NewOne
<1>4. ASSUME NEW s, s = Subscribed(u, p, Price[p], None, None) \/ s = Subscribed(u, p, 0, None, None)
      PROVE  s.user = u /\ s.plan = p /\ s.status = "active"
  BY <1>4 DEF Subscribed, NoSub
<1>5. ASSUME Done(w), UNCHANGED <<sub, user>>,
             task[w].pc \notin {"createGranted", "setGranted"}
      PROVE  BackedInv'
  <2>1. \A s \in Subs : Live(s) => Live(s)'  BY <1>5 DEF Live
  <2> QED  BY <1>5, <2>1, WorkerLeaves DEF Done
<1>6. ASSUME task[w].pc \notin {"createGranted", "setGranted"}
      PROVE  \A v \in Users : ~Granting(w, v)
  BY <1>6 DEF Granting
<1>7. CASE PurchaseViaWallet(w)
  <2>1. At(w, "purchase") /\ task' = [task EXCEPT ![w] = Idle]
    BY <1>7 DEF PurchaseViaWallet, Done
  <2>2. CASE UNCHANGED docVars  BY <1>5, <1>7, <2>1, <2>2 DEF docVars, At, Done
  <2>3. CASE /\ Room(1)
             /\ sub' = [sub EXCEPT ![NewSub] = Subscribed(u, p, Price[p], None, None)]
             /\ user' = [user EXCEPT ![u] = [plan |-> p, sub |-> NewSub]]
    <3>1. PICK n \in Subs : n = NewSub /\ sub[n].status = "none"  BY <1>3, <2>3
    <3>2. sub'[n] = Subscribed(u, p, Price[p], None, None)
          /\ \A s \in Subs \ {n} : sub'[s] = sub[s]
      BY <2>3, <3>1, Typed
    <3>3. sub'[n].user = u /\ sub'[n].plan = p /\ Live(n)'
      BY <1>4, <3>2 DEF Live
    <3>4. \A s \in Subs : Live(s) => Live(s)'  BY <3>1, <3>2 DEF Live
    <3> QED  BY <1>6, <2>1, <2>3, <3>1, <3>3, <3>4, WorkerGives DEF At
  <2> QED  BY <1>2, <1>7, <2>2, <2>3 DEF PurchaseViaWallet
<1>8. CASE UpgradeViaWallet(w)
  <2>1. At(w, "upgrade") /\ task' = [task EXCEPT ![w] = Idle]
    BY <1>8 DEF UpgradeViaWallet, Done
  <2>2. CASE UNCHANGED docVars  BY <1>5, <1>8, <2>1, <2>2 DEF docVars, At, Done
  <2>3. CASE /\ Room(1)
             /\ sub' = [sub EXCEPT ![o] = Expired(o),
                                   ![NewSub] = Subscribed(u, p, Price[p], None, None)]
             /\ user' = [user EXCEPT ![u] = [plan |-> p, sub |-> NewSub]]
    <3>1. PICK n \in Subs : n = NewSub /\ sub[n].status = "none"  BY <1>3, <2>3
    <3>2. o \in Subs /\ sub[o].user = u  BY <1>1, <1>2, <2>1 DEF Fits, At
    <3>3. sub'[n] = Subscribed(u, p, Price[p], None, None)
          /\ \A s \in Subs \ {n, o} : sub'[s] = sub[s]
      BY <2>3, <3>1, <3>2, Typed
    <3>4. sub'[n].user = u /\ sub'[n].plan = p /\ Live(n)'
      BY <1>4, <3>3 DEF Live
    <3>5. \A s \in Subs : Live(s) /\ sub[s].user # u => Live(s)'
      BY <3>1, <3>2, <3>3 DEF Live
    <3> QED  BY <1>6, <2>1, <2>3, <3>1, <3>4, <3>5, WorkerGives DEF At
  <2> QED  BY <1>2, <1>8, <2>2, <2>3 DEF UpgradeViaWallet
<1>9. CASE InsertTxn(w)
  BY <1>5, <1>9 DEF InsertTxn, At
<1>10. CASE ActivateAfterPayment(w)
  <2>1. At(w, "activate") /\ task' = [task EXCEPT ![w] = Idle]
    BY <1>10 DEF ActivateAfterPayment, Done
  <2>2. CASE UNCHANGED docVars  BY <1>5, <1>10, <2>1, <2>2 DEF docVars, At, Done
  <2>3. CASE Eligible(y)
    <3>1. y \in Txns  BY <1>1, <1>2, <2>1 DEF Fits, At
    <3>2. PICK v \in Users, q \in Plans, old \in Subs \cup {None} :
            v = txn[y].user /\ q = txn[y].plan /\ old = txn[y].replaces
      BY <3>1, Typed DEF TxnRecord
    <3>3. /\ Room(1)
          /\ sub' = [s \in Subs |-> CASE s = NewSub -> Subscribed(v, q, Price[q], None, y)
                                      [] s = old -> Expired(s)
                                      [] OTHER -> sub[s]]
          /\ user' = [user EXCEPT ![v] = [plan |-> q, sub |-> NewSub]]
      BY <1>2, <1>10, <2>3, <3>2 DEF ActivateAfterPayment
    <3>4. PICK n \in Subs : n = NewSub /\ sub[n].status = "none"  BY <1>3, <3>3
    <3>5. old \in Subs => sub[old].user = v /\ sub[old].status # "none"
      <4>1. Replaces(txn[y], sub)  BY <3>1 DEF Inv, HeldInv
      <4> QED  BY <3>2, <4>1, IdFacts DEF Replaces
    <3>6. sub'[n] = Subscribed(v, q, Price[q], None, y)
          /\ \A s \in Subs \ {n, old} : sub'[s] = sub[s]
      BY <3>3, <3>4, <3>5
    <3>7. sub'[n].user = v /\ sub'[n].plan = q /\ Live(n)'
      <4>1. PICK s : s = Subscribed(v, q, Price[q], None, y)  OBVIOUS
      <4>2. s.user = v /\ s.plan = q /\ s.status = "active"
        BY <4>1 DEF Subscribed, NoSub
      <4> QED  BY <3>6, <4>1, <4>2 DEF Live
    <3>8. \A s \in Subs : Live(s) /\ sub[s].user # v => Live(s)'
      BY <3>4, <3>5, <3>6 DEF Live
    <3> QED  BY <1>6, <2>1, <3>3, <3>4, <3>7, <3>8, WorkerGives DEF At
  <2> QED  BY <1>2, <1>10, <2>2, <2>3 DEF ActivateAfterPayment
<1>11. CASE SaveChange(w)
  <2>1. At(w, "change") /\ task' = [task EXCEPT ![w] = Idle] /\ UNCHANGED user
    BY <1>11 DEF SaveChange, Done
  <2>2. o \in Subs  BY <1>1, <1>2, <2>1 DEF Fits, At
  <2>3. \E x : sub' = [sub EXCEPT ![o] = x] /\ x.status = sub[o].status
    <3>1. sub[o] \in SubRecord  BY <2>2, Typed
    <3>2. /\ [sub[o] EXCEPT !.cancel = TRUE].status = sub[o].status
          /\ [sub[o] EXCEPT !.cancel = FALSE].status = sub[o].status
          /\ [sub[o] EXCEPT !.downgrade = task[w].to, !.cancel = FALSE].status = sub[o].status
          /\ [sub[o] EXCEPT !.downgrade = {}].status = sub[o].status
      BY <3>1 DEF SubRecord
    <3>3. \E x \in {[sub[o] EXCEPT !.cancel = TRUE], [sub[o] EXCEPT !.cancel = FALSE],
                    [sub[o] EXCEPT !.downgrade = task[w].to, !.cancel = FALSE],
                    [sub[o] EXCEPT !.downgrade = {}]} : sub' = [sub EXCEPT ![o] = x]
      BY <1>2, <1>11 DEF SaveChange
    <3> QED  BY <3>2, <3>3
  <2>4. \A s \in Subs : Live(s) => Live(s)'  BY <2>2, <2>3, Typed DEF Live
  <2> QED  BY <2>1, <2>4, WorkerLeaves DEF At
<1>12. CASE CreateGranted(w)
  <2>1. /\ At(w, "createGranted") /\ Room(1) /\ UNCHANGED user
        /\ sub' = [sub EXCEPT ![NewSub] = Subscribed(u, p, 0, None, None)]
        /\ task' = [task EXCEPT ![w].pc = "setGranted", ![w].sub = NewSub]
    BY <1>2, <1>12 DEF CreateGranted
  <2>2. PICK t : /\ task' = [task EXCEPT ![w] = t] /\ t.pc = "setGranted" /\ t.user = u
    <3>1. PICK t : t = [task[w] EXCEPT !.pc = "setGranted", !.sub = NewSub]  OBVIOUS
    <3>2. t.pc = "setGranted" /\ t.user = u  BY <1>1, <1>2, <3>1 DEF TaskRecord
    <3>3. task' = [task EXCEPT ![w] = t]  BY <1>1, <2>1, <3>1
    <3> QED  BY <3>2, <3>3
  <2>3. \A s \in Subs : Live(s) => Live(s)'  BY <1>3, <2>1, Typed DEF Live
  <2>4. Granting(w, u)' /\ \A v \in Users \ {u} : ~Granting(w, v)
    BY <1>1, <1>2, <2>2 DEF Granting
  <2>5. \A v \in Users : Backed(v)' \/ (KeepsPlan(v) /\ ~Granting(w, v))
    BY <2>1, <2>3, <2>4 DEF Backed, KeepsPlan
  <2> QED  BY <2>2, <2>5, WorkerBacked
<1>13. CASE SetGranted(w)
  <2>1. /\ At(w, "setGranted") /\ task' = [task EXCEPT ![w] = Idle] /\ UNCHANGED sub
        /\ user' = [user EXCEPT ![u] = [plan |-> p, sub |-> o]]
    BY <1>2, <1>13 DEF SetGranted, Done
  <2>2. /\ o \in Subs /\ sub[o].user = u /\ sub[o].plan = p /\ Live(o)
    BY <1>1, <1>2, <2>1 DEF Fits, At, GrantInv
  <2>3. \A s \in Subs : Live(s) => Live(s)'  BY <2>1 DEF Live
  <2>4. \A v \in Users \ {u} : ~Granting(w, v)  BY <1>2 DEF Granting
  <2> QED  BY <2>1, <2>2, <2>3, <2>4, WorkerGives
<1> QED
  BY <1>7, <1>8, <1>9, <1>10, <1>11, <1>12, <1>13 DEF Proceed

LEMMA HourlyBacked ==
  ASSUME Inv, Evolves, BackedInv, Hourly
  PROVE  BackedInv'
<1>1. UNCHANGED <<task, crashes>> /\ cron \in CronRecord  BY Typed DEF Hourly
<1>2. cron.now # {} =>
        /\ InHand \in Subs /\ Payer \in Users /\ Payer = sub[InHand].user
        /\ sub[InHand].plan \in Plans
        /\ cron.pc = "downgrade" => (CHOOSE d \in cron.now : TRUE).plan \in Plans
  BY InHandFacts DEF Payer
<1>3. CASE UNCHANGED <<sub, user>> /\ cron.pc # "setFree"
  <2>1. \A s \in Subs : Live(s) => Live(s)'  BY <1>3 DEF Live
  <2> QED  BY <1>1, <1>3, <2>1, CronLeaves
<1>4. CASE CronStart \/ CronNext \/ ReadPastDue \/ CheckWallet \/ CheckTopUp
  BY <1>3, <1>4 DEF CronStart, CronNext, ReadPastDue, CheckWallet, CheckTopUp, CronAt,
                    docVars
<1>5. CASE ProcessDowngrade
  <2>1. cron.now # {} /\ cron.pc = "downgrade"  BY <1>5 DEF ProcessDowngrade, CronAt
  <2>2. PICK h \in Subs, u \in Users, p \in Plans :
          h = InHand /\ u = Payer /\ p = (CHOOSE d \in cron.now : TRUE).plan
    BY <1>2, <2>1
  <2>3. CASE /\ Unused # {}
             /\ sub' = [sub EXCEPT ![h] = Expired(h),
                                   ![NewSub] = Subscribed(u, p, Price[p], h, None)]
             /\ user' = [user EXCEPT ![u] = [plan |-> p, sub |-> NewSub]]
    <3>1. PICK n \in Subs : n = NewSub /\ sub[n].status = "none"  BY <2>3, NewOne
    <3>2. /\ sub'[n] = Subscribed(u, p, Price[p], h, None)
          /\ \A s \in Subs \ {n, h} : sub'[s] = sub[s]
          /\ user'[u].plan = p /\ \A v \in Users \ {u} : user'[v] = user[v]
      BY <2>3, <3>1, Typed
    <3>3. sub'[n].user = u /\ sub'[n].plan = p /\ Live(n)'
      <4>1. PICK s : s = Subscribed(u, p, Price[p], h, None)  OBVIOUS
      <4>2. s.user = u /\ s.plan = p /\ s.status = "active"
        BY <4>1 DEF Subscribed, NoSub
      <4> QED  BY <3>2, <4>1, <4>2 DEF Live
    <3>4. Backed(u)'  BY <3>2, <3>3 DEF Backed, Backing
    <3>5. \A v \in Users \ {u} : KeepsPlan(v) /\ ~Expiring(v)
      BY <1>2, <2>1, <2>2, <3>1, <3>2 DEF KeepsPlan, Expiring, Live
    <3> QED  BY <1>1, <3>4, <3>5, CronBacked
  <2> QED  BY <1>3, <1>5, <2>1, <2>2, <2>3 DEF ProcessDowngrade
<1>6. CASE Renew
  <2>1. cron.now # {} /\ cron.pc = "renew"  BY <1>6 DEF Renew, CronAt
  <2>2. PICK h \in Subs, u \in Users, p \in Plans :
          h = InHand /\ u = Payer /\ p = sub[h].plan /\ u = sub[h].user
    BY <1>2, <2>1
  <2>3. CASE /\ Unused # {}
             /\ sub' = [sub EXCEPT ![h].status = "expired",
                                   ![NewSub] = Subscribed(u, p, Price[p], h, None)]
             /\ user' = [user EXCEPT ![u].sub = NewSub]
    <3>1. PICK n \in Subs : n = NewSub /\ sub[n].status = "none"  BY <2>3, NewOne
    <3>2. /\ sub'[n] = Subscribed(u, p, Price[p], h, None)
          /\ \A s \in Subs \ {n, h} : sub'[s] = sub[s]
          /\ \A v \in Users : user'[v].plan = user[v].plan
      BY <2>3, <3>1, Typed
    <3>3. sub'[n].user = u /\ sub'[n].plan = p /\ Live(n)'
      <4>1. PICK s : s = Subscribed(u, p, Price[p], h, None)  OBVIOUS
      <4>2. s.user = u /\ s.plan = p /\ s.status = "active"
        BY <4>1 DEF Subscribed, NoSub
      <4> QED  BY <3>2, <4>1, <4>2 DEF Live
    <3>4. ASSUME user[u].plan = p PROVE Backed(u)'
      BY <3>2, <3>3, <3>4 DEF Backed, Backing
    <3>5. ASSUME crashes = 0, user[u].plan # p PROVE Backed(u)'
      <4>1. Backed(u) /\ ~Expiring(u)  BY <2>1, <3>5 DEF BackedInv, Expiring
      <4>2. CASE Backing(u)
        <5>1. PICK s \in Subs : sub[s].user = u /\ sub[s].plan = user[u].plan /\ Live(s)
          BY <4>2 DEF Backing
        <5>2. sub'[s] = sub[s]  BY <2>2, <3>1, <3>2, <3>5, <5>1 DEF Live
        <5> QED  BY <3>2, <5>1, <5>2 DEF Backed, Backing, Live
      <4>3. ASSUME NEW v \in Workers, Granting(v, u) PROVE Backed(u)'
        BY <1>1, <4>3 DEF Granting, Backed
      <4>4. CASE user[u].plan = Free  BY <3>2, <4>4 DEF Backed
      <4> QED  BY <4>1, <4>2, <4>3, <4>4 DEF Backed
    <3>6. \A v \in Users \ {u} : KeepsPlan(v) /\ ~Expiring(v)
      BY <2>1, <2>2, <3>1, <3>2 DEF KeepsPlan, Expiring, Live
    <3>7. CASE crashes = 0  BY <1>1, <3>4, <3>5, <3>6, <3>7, CronBacked
    <3>8. CASE crashes # 0  BY <1>1, <3>8 DEF BackedInv
    <3> QED  BY <3>7, <3>8
  <2> QED  BY <1>3, <1>6, <2>1, <2>2, <2>3 DEF Renew
<1>7. CASE SavePastDue \/ Restore
  <2>1. cron.now # {} /\ cron.pc # "setFree" /\ UNCHANGED user
    BY <1>7 DEF SavePastDue, Restore, CronAt
  <2>2. PICK st \in {"past_due", "active"} :
          sub' = [sub EXCEPT ![InHand].status = st, ![InHand].graceOver = FALSE]
    BY <1>7 DEF SavePastDue, Restore
  <2>3. sub'[InHand].status = st /\ \A s \in Subs \ {InHand} : sub'[s] = sub[s]
    BY <1>2, <2>1, <2>2, Typed DEF SubRecord
  <2>4. \A s \in Subs : Live(s) => Live(s)'  BY <2>3 DEF Live
  <2> QED  BY <1>1, <2>1, <2>4, CronLeaves
<1>8. CASE SaveExpired
  <2>1. /\ cron.now # {} /\ cron.pc = "saveExpired" /\ UNCHANGED user
        /\ sub' = [sub EXCEPT ![InHand].status = "expired"]
        /\ cron' = [cron EXCEPT !.pc = "setFree"]
    BY <1>8 DEF SaveExpired, CronAt, CronGo
  <2>2. PICK h \in Subs, u \in Users : h = InHand /\ u = sub[h].user  BY <1>2, <2>1
  <2>3. cron'.pc = "setFree" /\ cron'.now = cron.now  BY <1>1, <2>1 DEF CronRecord
  <2>4. sub'[h].user = u /\ \A s \in Subs \ {h} : sub'[s] = sub[s]
    BY <2>1, <2>2, Typed DEF SubRecord
  <2>5. InHand' = h  BY <2>2, <2>3 DEF InHand
  <2>6. Backed(u)'  BY <2>1, <2>3, <2>4, <2>5 DEF Backed, Expiring, Payer
  <2>7. \A v \in Users \ {u} : KeepsPlan(v) /\ ~Expiring(v)
    BY <2>1, <2>2, <2>4 DEF KeepsPlan, Expiring, Live
  <2> QED  BY <1>1, <2>6, <2>7, CronBacked
<1>9. CASE SetFree
  <2>1. /\ cron.now # {} /\ UNCHANGED sub
        /\ user' = [user EXCEPT ![Payer] = [plan |-> Free, sub |-> None]]
    BY <1>9 DEF SetFree, CronAt
  <2>2. PICK u \in Users : u = Payer  BY <1>2, <2>1
  <2>3. user'[u].plan = Free /\ \A v \in Users \ {u} : user'[v] = user[v]
    BY <2>1, <2>2, Typed
  <2>4. Backed(u)'  BY <2>3 DEF Backed
  <2>5. \A v \in Users \ {u} : KeepsPlan(v) /\ ~Expiring(v)
    BY <2>1, <2>2, <2>3 DEF KeepsPlan, Expiring, Live
  <2> QED  BY <1>1, <2>4, <2>5, CronBacked
<1> QED
  BY <1>4, <1>5, <1>6, <1>7, <1>8, <1>9 DEF Hourly, CronStep

LEMMA GrantStays ==
  ASSUME Inv, GrantInv, task' = task,
         \A s \in Subs : Live(s) /\ ~sub[s].elapsed =>
           \/ /\ Live(s)' /\ ~sub'[s].elapsed /\ sub'[s].plan = sub[s].plan
           \/ \A w \in Workers : task[w].pc = "setGranted" => task[w].sub # s
  PROVE  GrantInv'
<1> SUFFICES ASSUME NEW w \in Workers, task'[w].pc = "setGranted"
             PROVE  /\ Live(task[w].sub)' /\ ~sub'[task'[w].sub].elapsed
                    /\ sub'[task'[w].sub].plan = task'[w].plan
  BY DEF GrantInv
<1>1. PICK s \in Subs : s = task[w].sub
  <2>1. Fits(task[w], sub, txn) /\ task[w] \in TaskRecord  BY Typed DEF Inv, HeldInv
  <2> QED  BY <2>1 DEF Fits, TaskRecord
<1>2. Live(s) /\ ~sub[s].elapsed /\ sub[s].plan = task[w].plan
  BY <1>1 DEF GrantInv
<1>3. Live(s)' /\ ~sub'[s].elapsed /\ sub'[s].plan = sub[s].plan  BY <1>1, <1>2
<1> QED  BY <1>1, <1>2, <1>3 DEF Live

LEMMA WorkerGrant ==
  ASSUME NoRace, Inv, Inv', GrantInv, NEW w \in Workers,
         (Arrive(w) /\ UNCHANGED <<cron, crashes>>) \/ Proceed(w)
  PROVE  GrantInv'
<1>1. task \in [Workers -> TaskRecord] /\ Fits(task[w], sub, txn)
  BY Typed DEF Inv, HeldInv
<1>2. ASSUME NEW t, task' = [task EXCEPT ![w] = t],
             t.pc = "setGranted" =>
               /\ Live(t.sub)' /\ ~sub'[t.sub].elapsed /\ sub'[t.sub].plan = t.plan
      PROVE  GrantInv'
  <2> SUFFICES ASSUME NEW v \in Workers, task'[v].pc = "setGranted"
               PROVE  /\ Live(task[v].sub)' /\ ~sub'[task'[v].sub].elapsed
                      /\ sub'[task'[v].sub].plan = task'[v].plan
    BY DEF GrantInv
  <2>1. "grant" \in Operations  BY DEF Inv, HeldInv, Fits
  <2>2. v = w  BY <2>1 DEF NoRace
  <2>3. task'[v] = t  BY <1>1, <1>2, <2>2
  <2> QED  BY <1>2, <2>3 DEF Live
<1>3. CASE CreateGranted(w)
  <2>1. /\ Room(1) /\ task' = [task EXCEPT ![w].pc = "setGranted", ![w].sub = NewSub]
        /\ sub' = [sub EXCEPT ![NewSub] = Subscribed(task[w].user, task[w].plan, 0, None, None)]
    BY <1>3 DEF CreateGranted
  <2>2. PICK n \in Subs, p \in {task[w].plan} : n = NewSub  BY <2>1, RoomForOne, NewOne
  <2>3. PICK t : t = [task[w] EXCEPT !.pc = "setGranted", !.sub = n]  OBVIOUS
  <2>4. PICK d : d = Subscribed(task[w].user, p, 0, None, None)  OBVIOUS
  <2>5. d.plan = p /\ d.status = "active" /\ d.elapsed = FALSE
    BY <2>4 DEF Subscribed, NoSub
  <2>6. task' = [task EXCEPT ![w] = t] /\ t.sub = n /\ t.plan = p
    <3>1. t.sub = n /\ t.plan = p  BY <1>1, <2>2, <2>3 DEF TaskRecord
    <3>2. task' = [task EXCEPT ![w] = t]  BY <1>1, <2>1, <2>2, <2>3
    <3> QED  BY <3>1, <3>2
  <2>7. sub'[n] = d  BY <2>1, <2>2, <2>4, Typed
  <2>8. Live(n)' /\ ~sub'[n].elapsed /\ sub'[n].plan = p  BY <2>5, <2>7 DEF Live
  <2>9. Live(t.sub)' /\ ~sub'[t.sub].elapsed /\ sub'[t.sub].plan = t.plan
    BY <2>6, <2>8 DEF Live
  <2> QED  BY <1>2, <2>6, <2>9
<1>4. CASE \E t : task' = [task EXCEPT ![w] = t] /\ t.pc # "setGranted"
  BY <1>2, <1>4
<1>5. Idle.pc = "idle"  BY DEF Idle
<1>6. CASE Proceed(w) /\ ~CreateGranted(w)
  <2>1. task' = [task EXCEPT ![w] = Idle]
    BY <1>6 DEF Proceed, Done, PurchaseViaWallet, UpgradeViaWallet, InsertTxn,
                ActivateAfterPayment, SaveChange, SetGranted
  <2> QED  BY <1>4, <1>5, <2>1
<1>7. CASE Arrive(w)
  <2>1. ASSUME NEW t, t.pc # "setGranted", task' = [task EXCEPT ![w] = t] PROVE GrantInv'
    BY <1>4, <2>1
  <2>2. ASSUME NEW u \in Users, NEW p \in Plans, Purchase(w, u, p) PROVE GrantInv'
    BY <2>1, <2>2 DEF Purchase, Idle
  <2>3. ASSUME NEW u \in Users, NEW p \in Plans, Upgrade(w, u, p) PROVE GrantInv'
    BY <2>1, <2>3 DEF Upgrade, Idle
  <2>4. ASSUME NEW u \in Users, NEW p \in Plans, Grant(w, u, p) PROVE GrantInv'
    BY <2>1, <2>4 DEF Grant, Begin, Idle
  <2>5. ASSUME NEW y \in Txns, Claim(w, y) PROVE GrantInv'
    BY <2>1, <2>5 DEF Claim, Idle
  <2>6. ASSUME NEW u \in Users, Change(w, u) PROVE GrantInv'
    BY <2>1, <2>6 DEF Change, Idle
  <2> QED  BY <1>7, <2>2, <2>3, <2>4, <2>5, <2>6 DEF Arrive
<1> QED  BY <1>3, <1>6, <1>7

LEMMA HourlyGrant ==
  ASSUME Inv, GrantInv, Hourly PROVE GrantInv'
<1>1. task' = task  BY DEF Hourly
<1>2. ASSUME NEW s \in Subs, Live(s), ~sub[s].elapsed PROVE sub'[s] = sub[s]
  <2>1. cron.now # {} => InHand # s  BY <1>2, InHandFacts
  <2>2. Unused # {} => NewSub # s  BY <1>2, NewOne DEF Live
  <2>3. CASE UNCHANGED sub  BY <2>3
  <2>4. CASE CronStart \/ CronNext \/ ReadPastDue \/ CheckWallet \/ CheckTopUp \/ SetFree
    BY <2>4 DEF CronStart, CronNext, ReadPastDue, CheckWallet, CheckTopUp, SetFree, docVars
  <2>5. CASE ProcessDowngrade \/ Renew
    BY <2>1, <2>2, <2>5, Typed DEF ProcessDowngrade, Renew, CronAt
  <2>6. CASE SavePastDue \/ Restore \/ SaveExpired
    BY <2>1, <2>6, Typed DEF SavePastDue, Restore, SaveExpired, CronAt
  <2> QED  BY <2>4, <2>5, <2>6 DEF Hourly, CronStep
<1> QED  BY <1>1, <1>2, GrantStays DEF Live

LEMMA TimePassesGrant ==
  ASSUME Inv, GrantInv, TimePasses PROVE GrantInv'
<1>1. task' = task  BY DEF TimePasses
<1>2. PICK r \in Subs : PeriodEnds(r) \/ GraceEnds(r)  BY DEF TimePasses
<1>3. ASSUME NEW s \in Subs, Live(s), ~sub[s].elapsed
      PROVE  \/ /\ Live(s)' /\ ~sub'[s].elapsed /\ sub'[s].plan = sub[s].plan
             \/ \A w \in Workers : task[w].pc = "setGranted" => task[w].sub # s
  <2>1. sub[s] \in SubRecord  BY Typed
  <2>2. CASE r # s
    <3>1. sub'[s] = sub[s]  BY <1>2, <2>2, Typed DEF PeriodEnds, GraceEnds
    <3> QED  BY <1>3, <3>1 DEF Live
  <2>3. CASE r = s /\ PeriodEnds(r)  BY <2>3 DEF PeriodEnds, At
  <2>4. CASE r = s /\ GraceEnds(r)
    <3>1. sub' = [sub EXCEPT ![s].graceOver = TRUE]  BY <2>4 DEF GraceEnds
    <3>2. sub'[s] = [sub[s] EXCEPT !.graceOver = TRUE]  BY <3>1, Typed
    <3> QED  BY <1>3, <2>1, <3>2 DEF Live, SubRecord
  <2> QED  BY <1>2, <2>2, <2>3, <2>4
<1> QED  BY <1>1, <1>3, GrantStays

LEMMA BackedInit == Init => BackedInv /\ GrantInv
<1> SUFFICES ASSUME Init PROVE BackedInv /\ GrantInv  OBVIOUS
<1>1. \A u \in Users : user[u].plan = Free  BY DEF Init
<1>2. \A w \in Workers : task[w].pc = "idle"  BY DEF Init, Idle
<1> QED  BY <1>1, <1>2 DEF BackedInv, Backed, GrantInv

LEMMA BackedNext ==
  ASSUME NoRace PROVE Inv /\ BackedInv /\ GrantInv /\ [Next]_vars => BackedInv' /\ GrantInv'
<1> SUFFICES ASSUME Inv, BackedInv, GrantInv, [Next]_vars PROVE BackedInv' /\ GrantInv'
  OBVIOUS
<1>1. Inv'  BY InvNext
<1>2. ASSUME NEW w \in Workers, Arrive(w), UNCHANGED <<cron, crashes>>
      PROVE  BackedInv' /\ GrantInv'
  <2>1. Bounded'  BY <1>1 DEF Inv
  <2>2. Evolves
    BY <1>2, <2>1, PurchaseKeeps, UpgradeKeeps, GrantKeeps, ClaimKeeps, ChangeKeeps
    DEF Arrive
  <2> QED  BY <1>1, <1>2, <2>2, ArriveBacked, WorkerGrant
<1>3. ASSUME NEW w \in Workers, Proceed(w), UNCHANGED <<cron, crashes, requests>>
      PROVE  BackedInv' /\ GrantInv'
  <2>1. Bounded'  BY <1>1 DEF Inv
  <2>2. Evolves
    BY <1>3, <2>1, PurchaseViaWalletKeeps, UpgradeViaWalletKeeps, InsertTxnKeeps,
       ActivateKeeps, SaveChangeKeeps, CreateGrantedKeeps, SetGrantedKeeps
    DEF Proceed
  <2> QED  BY <1>1, <1>3, <2>2, ProceedBacked, WorkerGrant
<1>4. CASE Hourly
  <2>1. Evolves  BY <1>4, CronStartKeeps, CronStepKeeps DEF Hourly
  <2> QED  BY <1>4, <2>1, HourlyBacked, HourlyGrant
<1>5. CASE TimePasses
  <2>1. Evolves /\ UNCHANGED <<user, task, cron, crashes>>
    BY <1>5, TimePassesKeeps DEF TimePasses
  <2>2. PICK r \in Subs : PeriodEnds(r) \/ GraceEnds(r)  BY <1>5 DEF TimePasses
  <2>3. sub'[r].status = sub[r].status /\ \A s \in Subs \ {r} : sub'[s] = sub[s]
    BY <2>2, Typed DEF PeriodEnds, GraceEnds, SubRecord
  <2>4. \A s \in Subs : Live(s) => Live(s)'  BY <2>3 DEF Live
  <2> QED  BY <1>5, <2>1, <2>4, CronLeaves, TimePassesGrant
<1>6. CASE UNCHANGED <<sub, user, task, cron, crashes>>
  <2>1. Evolves /\ \A s \in Subs : Live(s) => Live(s)'  BY <1>6 DEF Evolves, Live
  <2>2. \A s \in Subs : Live(s) /\ ~sub[s].elapsed =>
          Live(s)' /\ ~sub'[s].elapsed /\ sub'[s].plan = sub[s].plan
    BY <1>6, <2>1
  <2> QED  BY <1>6, <2>1, <2>2, CronLeaves, GrantStays
<1>7. CASE Crash
  <2>1. crashes' # 0  BY <1>7, SubscriptionAssumption DEF Crash, Inv, Bounded
  <2>2. \A w \in Workers : task'[w].pc = "idle"  BY <1>7 DEF Crash, Idle
  <2> QED  BY <2>1, <2>2 DEF BackedInv, GrantInv
<1>8. \A y \in Txns : TimeOut(y) => UNCHANGED <<sub, user, task>>  BY DEF TimeOut
<1>9. \A u \in Users, a \in Amounts : TopUp(u, a) =>
        UNCHANGED <<sub, user, task, cron, crashes>>
  BY DEF TopUp, docVars
<1>10. UNCHANGED vars => UNCHANGED <<sub, user, task, cron, crashes>>
  BY DEF vars, docVars
<1> QED
  BY <1>2, <1>3, <1>4, <1>5, <1>6, <1>7, <1>8, <1>9, <1>10 DEF Next

(* Nobody keeps a paid plan whose subscription has ended                   *)
(* (expireSubscription, the renewal run), while no administrator's grant   *)
(* overlaps another request and the server does not stop.                  *)
THEOREM PaidPlansAreBacked == ASSUME NoRace PROVE Spec => []PlanIsBacked
<1>1. Inv /\ BackedInv => PlanIsBacked
  <2> SUFFICES ASSUME Inv, BackedInv, Quiet, crashes = 0, NEW u \in Users,
                      user[u].plan # Free
               PROVE  Backing(u)
    BY DEF PlanIsBacked, Backing
  <2>1. Backed(u)  BY DEF BackedInv
  <2>2. ~Expiring(u) /\ \A w \in Workers : ~Granting(w, u)
    BY DEF Quiet, At, Expiring, Granting
  <2> QED  BY <2>1, <2>2 DEF Backed
<1>2. Init => Inv /\ BackedInv /\ GrantInv  BY InvInit, BackedInit
<1>3. Inv /\ BackedInv /\ GrantInv /\ [Next]_vars => (Inv /\ BackedInv /\ GrantInv)'
  BY InvNext, BackedNext
<1> QED  BY <1>1, <1>2, <1>3, PTL DEF Spec
-----------------------------------------------------------------------------
(* The platform's own wallet.  In any case it never pays out more than was *)
(* collected, because recordWithdrawal tests the balance in its filter.    *)
(* While the documents are undisturbed, each is worked on by one admin who *)
(* holds the amount it says, and what was taken out is the amounts of the  *)
(* documents that stand or are about to be refunded.                       *)
AdminPoints == {"idle", "record", "markProcessing", "transfer", "markCompleted",
                "markFailed", "refund", "cancel"}
AdminTask ==
  [pc : AdminPoints, on : PlatformWithdrawals \cup {NoRequest}, amount : Nat]
PlatformDocument == [status : Statuses, amount : Nat]

NeverOverdrawn == availableBalance >= 0

PlatformTyped ==
  /\ WalletInv /\ totalWithdrawn \in Int
  /\ taken \in [PlatformWithdrawals -> PlatformDocument]
  /\ inFlight \in [Admins -> AdminTask]
  /\ disturbed \subseteq PlatformWithdrawals
  /\ \A a \in Admins : On(a) = NoRequest <=> AtStep(a, "idle")
  /\ NeverOverdrawn

\* What a request at pc finds in its document.
AlignedWith(t, d) ==
  /\ t.pc = "record" => d.status = "none"
  /\ t.pc \in {"markProcessing", "cancel"} => d.status = "PENDING"
  /\ t.pc \in {"transfer", "markCompleted", "markFailed"} => d.status = "PROCESSING"
  /\ t.pc = "refund" => d.status = "FAILED"
  /\ t.pc # "record" => t.amount = d.amount

\* What the document still stands for in totalWithdrawn.
StandsFor(refunding, d) ==
  IF d.status \in {"PENDING", "PROCESSING", "COMPLETED"} \/ refunding
  THEN d.amount ELSE 0
StillOut ==
  [r \in PlatformWithdrawals |->
     StandsFor(\E a \in Admins : AtStep(a, "refund") /\ On(a) = r, taken[r])]

OneAdminEach ==
  \A a, b \in Admins : On(a) = On(b) /\ On(a) # NoRequest => a = b
AllAligned ==
  \A a \in Admins : ~AtStep(a, "idle") => AlignedWith(inFlight[a], taken[On(a)])
StillOutAdds == totalWithdrawn = SumFunctionOnSet(StillOut, PlatformWithdrawals)

Undisturbed == disturbed = {} => OneAdminEach /\ AllAligned /\ StillOutAdds

PlatformInv == PlatformTyped /\ Undisturbed

LEMMA PlatformInit0 == PlatformInit => PlatformInv
<1> SUFFICES ASSUME PlatformInit PROVE PlatformInv
  OBVIOUS
<1>1. WalletInv  BY WalletInvInit DEF PlatformInit
<1>2. /\ platform = 0 /\ totalWithdrawn = 0 /\ disturbed = {}
      /\ taken = [r \in PlatformWithdrawals |-> [status |-> "none", amount |-> 0]]
      /\ inFlight = [a \in Admins |-> NoTask]
  BY DEF PlatformInit, WalletInit
<1>3. PlatformTyped
  <2>1. taken \in [PlatformWithdrawals -> PlatformDocument]
    BY <1>2 DEF PlatformDocument, Statuses
  <2>2. NoTask \in AdminTask  BY DEF NoTask, AdminTask, AdminPoints
  <2>3. inFlight \in [Admins -> AdminTask]  BY <1>2, <2>2
  <2>4. \A a \in Admins : On(a) = NoRequest /\ AtStep(a, "idle")
    BY <1>2 DEF On, AtStep, NoTask
  <2>5. NeverOverdrawn  BY <1>2 DEF NeverOverdrawn, availableBalance
  <2> QED  BY <1>1, <1>2, <2>1, <2>3, <2>4, <2>5 DEF PlatformTyped
<1>4. OneAdminEach /\ AllAligned
  BY <1>2 DEF OneAdminEach, AllAligned, On, AtStep, NoTask
<1>5. StillOutAdds
  <2>1. \A r \in PlatformWithdrawals : StillOut[r] = 0
    BY <1>2 DEF StillOut, StandsFor
  <2>2. SumFunctionOnSet(StillOut, PlatformWithdrawals) = 0
    BY <2>1, PlatformAssumption, SumZero
  <2> QED  BY <1>2, <2>2 DEF StillOutAdds
<1> QED  BY <1>3, <1>4, <1>5 DEF PlatformInv, Undisturbed

(* The wallets' movements only add to what was collected.                  *)
LEMMA CollectedGrows ==
  ASSUME WalletInv, WalletNext
  PROVE  platform' >= platform
<1>1. platform \in Nat  BY DEF WalletInv, WalletTypeOK
<1>2. PICK u \in Users, a \in Amounts :
        \/ Deposit(u, a) \/ DebitWallet(u, a) \/ PayPlatform(u, a)
        \/ LockFunds(u, a) \/ UnlockFunds(u, a) \/ ReleaseLockedWithdrawal(u, a)
        \/ \E f \in Users : ReleaseFromEscrow(u, f, a)
  BY DEF WalletNext
<1>3. a \in Nat /\ CalculatePlatformFee(a) \in Nat
  BY AmountsAssumption, FeeIsNat
<1>4. platform' \in {platform, platform + a, platform + CalculatePlatformFee(a)}
  BY <1>2 DEF Deposit, DebitWallet, PayPlatform, LockFunds, UnlockFunds,
              ReleaseLockedWithdrawal, ReleaseFromEscrow
<1> QED  BY <1>1, <1>3, <1>4

LEMMA CollectingKeeps ==
  ASSUME PlatformInv, WalletNext, UNCHANGED <<platformVars, inFlight>>
  PROVE  PlatformInv'
<1>1. WalletInv'
  BY WalletInvStep DEF PlatformInv, PlatformTyped
<1>2. UNCHANGED <<totalWithdrawn, taken, disturbed, inFlight>>
  BY DEF platformVars
<1>3. NeverOverdrawn'
  <2>1. platform' >= platform  BY CollectedGrows DEF PlatformInv, PlatformTyped
  <2>2. platform \in Nat /\ platform' \in Nat /\ totalWithdrawn \in Int
    BY <1>1 DEF PlatformInv, PlatformTyped, WalletInv, WalletTypeOK
  <2>3. platform - totalWithdrawn >= 0
    BY DEF PlatformInv, PlatformTyped, NeverOverdrawn, availableBalance
  <2>4. totalWithdrawn' = totalWithdrawn  BY <1>2
  <2>5. \A p, q \in Nat : \A w \in Int : q >= p /\ p - w >= 0 => q - w >= 0
    OBVIOUS
  <2>6. platform' - totalWithdrawn' >= 0
    BY <2>1, <2>2, <2>3, <2>4, <2>5, Zenon
  <2> QED  BY <2>6 DEF NeverOverdrawn, availableBalance
<1>4. PlatformTyped'
  BY <1>1, <1>2, <1>3 DEF PlatformInv, PlatformTyped, On, AtStep
<1>5. StillOut' = StillOut  BY <1>2 DEF StillOut, StandsFor, AtStep, On
<1>6. Undisturbed'
  BY <1>2, <1>5
  DEF PlatformInv, Undisturbed, OneAdminEach, AllAligned, StillOutAdds,
      AlignedWith, On, AtStep
<1> QED  BY <1>4, <1>6 DEF PlatformInv

LEMMA SumOverDocuments ==
  \A f, g : \A r \in PlatformWithdrawals :
    /\ \A s \in PlatformWithdrawals : f[s] \in Int
    /\ \A s \in PlatformWithdrawals : g[s] \in Int
    /\ \A s \in PlatformWithdrawals \ {r} : g[s] = f[s]
    => SumFunctionOnSet(g, PlatformWithdrawals)
         = SumFunctionOnSet(f, PlatformWithdrawals) + g[r] - f[r]
BY PlatformAssumption, SumChange

(* One admin's request moves to t and leaves document r as d.  What the    *)
(* move must keep is about r alone: nobody else works on it, t finds d as  *)
(* it expects, and totalWithdrawn changes by what d stands for.            *)
AdminMove(a, r, t, d) ==
  /\ inFlight' = [inFlight EXCEPT ![a] = t] /\ t \in AdminTask
  /\ taken' = [taken EXCEPT ![r] = d] /\ d \in PlatformDocument
  /\ On(a) \in {r, NoRequest} /\ t.on \in {r, NoRequest}
  /\ t.on = NoRequest <=> t.pc = "idle"
  /\ totalWithdrawn' \in Int /\ platform - totalWithdrawn' >= 0
  /\ disturbed \subseteq disturbed' /\ disturbed' \subseteq PlatformWithdrawals
  /\ UNCHANGED walletVars

AloneOn(a, r) == \A b \in Admins : On(b) = r => b = a

LEMMA AdminMoveKeeps ==
  ASSUME PlatformInv, NEW a \in Admins, NEW r \in PlatformWithdrawals,
         NEW t, NEW d, AdminMove(a, r, t, d),
         disturbed' = {} =>
           /\ AloneOn(a, r)
           /\ t.pc # "idle" => AlignedWith(t, d)
           /\ totalWithdrawn' - totalWithdrawn =
                StandsFor(t.pc = "refund", d)
                  - StandsFor(AtStep(a, "refund"), taken[r])
  PROVE  PlatformInv'
<1>1. /\ inFlight' = [inFlight EXCEPT ![a] = t]
      /\ taken' = [taken EXCEPT ![r] = d]
      /\ inFlight \in [Admins -> AdminTask] /\ t \in AdminTask
      /\ taken \in [PlatformWithdrawals -> PlatformDocument]
      /\ d \in PlatformDocument
      /\ On(a) \in {r, NoRequest} /\ t.on \in {r, NoRequest}
      /\ t.on = NoRequest <=> t.pc = "idle"
      /\ \A b \in Admins : On(b) = NoRequest <=> AtStep(b, "idle")
      /\ totalWithdrawn \in Int /\ totalWithdrawn' \in Int
  BY DEF PlatformInv, PlatformTyped, AdminMove
<1>2. /\ inFlight'[a] = t /\ \A b \in Admins \ {a} : inFlight'[b] = inFlight[b]
      /\ taken'[r] = d
      /\ \A s \in PlatformWithdrawals \ {r} : taken'[s] = taken[s]
      /\ inFlight' \in [Admins -> AdminTask]
      /\ taken' \in [PlatformWithdrawals -> PlatformDocument]
  BY <1>1
<1>3. PlatformTyped'
  <2>1. WalletInv' /\ platform' = platform
    BY WalletInvStep DEF PlatformInv, PlatformTyped, AdminMove, walletVars
  <2>2. NeverOverdrawn'
    BY <2>1 DEF AdminMove, NeverOverdrawn, availableBalance
  <2>3. \A b \in Admins : On(b)' = NoRequest <=> AtStep(b, "idle")'
    BY <1>1, <1>2 DEF On, AtStep
  <2>4. disturbed' \subseteq PlatformWithdrawals  BY DEF AdminMove
  <2> QED  BY <1>1, <1>2, <2>1, <2>2, <2>3, <2>4 DEF PlatformTyped
<1>4. ASSUME disturbed' = {}
      PROVE  OneAdminEach' /\ AllAligned' /\ StillOutAdds'
  <2>1. /\ OneAdminEach /\ AllAligned /\ StillOutAdds
    BY <1>4 DEF AdminMove, PlatformInv, Undisturbed
  <2>2. \A b \in Admins : On(b) = r => b = a  BY <1>4 DEF AloneOn
  <2>3. OneAdminEach'
    <3> SUFFICES ASSUME NEW b \in Admins, NEW c \in Admins,
                        inFlight'[b].on = inFlight'[c].on,
                        inFlight'[b].on # NoRequest
                 PROVE  b = c
      BY DEF OneAdminEach, On
    <3>1. CASE b = a \/ c = a
      BY <1>1, <1>2, <2>2, <3>1 DEF On
    <3>2. CASE b # a /\ c # a
      BY <1>2, <2>1, <3>2 DEF OneAdminEach, On
    <3> QED  BY <3>1, <3>2
  <2>4. AllAligned'
    <3> SUFFICES ASSUME NEW b \in Admins, inFlight'[b].pc # "idle"
                 PROVE  AlignedWith(inFlight'[b], taken'[inFlight'[b].on])
      BY DEF AllAligned, On, AtStep, AlignedWith
    <3>1. CASE b = a
      <4>1. inFlight'[b] = t /\ t.on = r  BY <1>1, <1>2, <3>1
      <4> QED  BY <1>2, <1>4, <4>1
    <3>2. CASE b # a
      <4>1. inFlight'[b] = inFlight[b] /\ ~AtStep(b, "idle") /\ On(b) # r
        BY <1>2, <2>2, <3>2 DEF AtStep
      <4>2. On(b) \in PlatformWithdrawals \ {r}
        BY <1>1, <4>1 DEF AdminTask, On
      <4>3. taken'[On(b)] = taken[On(b)]  BY <1>2, <4>2
      <4>4. AlignedWith(inFlight[b], taken[On(b)])  BY <2>1, <4>1 DEF AllAligned
      <4> QED  BY <4>1, <4>3, <4>4 DEF On
    <3> QED  BY <3>1, <3>2
  <2>5. StillOutAdds'
    <3>1. \A s \in PlatformWithdrawals \ {r} :
            (\E b \in Admins : AtStep(b, "refund")' /\ On(b)' = s)
              <=> (\E b \in Admins : AtStep(b, "refund") /\ On(b) = s)
      BY <1>1, <1>2, PlatformAssumption DEF On, AtStep
    <3>2. ASSUME NEW s \in PlatformWithdrawals \ {r}
          PROVE  StillOut'[s] = StillOut[s]
      BY <1>2, <3>1 DEF StillOut, StandsFor
    <3>3. (\E b \in Admins : AtStep(b, "refund") /\ On(b) = r)
            <=> AtStep(a, "refund")
      BY <1>1, <2>2 DEF AtStep
    <3>4. (\E b \in Admins : AtStep(b, "refund")' /\ On(b)' = r)
            <=> t.pc = "refund"
      BY <1>1, <1>2, <2>2 DEF AtStep, On
    <3>5. StillOut[r] = StandsFor(AtStep(a, "refund"), taken[r])
      BY <3>3 DEF StillOut, StandsFor
    <3>6. StillOut'[r] = StandsFor(t.pc = "refund", d)
      BY <1>2, <3>4 DEF StillOut, StandsFor
    <3>7. /\ \A s \in PlatformWithdrawals : StillOut[s] \in Int
          /\ \A s \in PlatformWithdrawals : StillOut'[s] \in Int
      BY <1>1, <1>2 DEF StillOut, StandsFor, PlatformDocument
    <3>8. SumFunctionOnSet(StillOut', PlatformWithdrawals)
            = SumFunctionOnSet(StillOut, PlatformWithdrawals)
                + StillOut'[r] - StillOut[r]
      BY <3>2, <3>7, SumOverDocuments, Zenon
    <3>9. SumFunctionOnSet(StillOut, PlatformWithdrawals) = totalWithdrawn
      BY <2>1 DEF StillOutAdds
    <3>10. totalWithdrawn' - totalWithdrawn = StillOut'[r] - StillOut[r]
      BY <1>4, <3>5, <3>6
    <3>11. totalWithdrawn' = SumFunctionOnSet(StillOut', PlatformWithdrawals)
      BY <1>1, <3>7, <3>8, <3>9, <3>10
    <3> QED  BY <3>11 DEF StillOutAdds
  <2> QED  BY <2>3, <2>4, <2>5
<1> QED  BY <1>3, <1>4 DEF PlatformInv, Undisturbed
-----------------------------------------------------------------------------
\* What an admin's request knows while nobody disturbs its document.
LEMMA AdminKnows ==
  ASSUME PlatformInv, NEW a \in Admins, ~AtStep(a, "idle")
  PROVE  /\ On(a) \in PlatformWithdrawals
         /\ inFlight[a] \in AdminTask /\ inFlight[a].on = On(a)
         /\ inFlight[a].amount \in Nat
         /\ taken[On(a)] \in PlatformDocument /\ taken[On(a)].amount \in Nat
         /\ disturbed = {} => AloneOn(a, On(a)) /\ AlignedWith(inFlight[a], taken[On(a)])
<1>1. /\ inFlight[a] \in AdminTask /\ On(a) \in PlatformWithdrawals
      /\ taken \in [PlatformWithdrawals -> PlatformDocument]
  BY DEF PlatformInv, PlatformTyped, AdminTask, On
<1>2. disturbed = {} => AloneOn(a, On(a)) /\ AlignedWith(inFlight[a], taken[On(a)])
  BY <1>1, PlatformAssumption
  DEF PlatformInv, Undisturbed, OneAdminEach, AllAligned, AloneOn
<1> QED  BY <1>1, <1>2 DEF AdminTask, PlatformDocument, On

\* Every amount is a natural number, and the balance covers what is out.
LEMMA PlatformNumbers ==
  ASSUME PlatformInv
  PROVE  /\ platform \in Nat /\ totalWithdrawn \in Int
         /\ platform - totalWithdrawn >= 0
         /\ disturbed \subseteq PlatformWithdrawals
         /\ \A r \in PlatformWithdrawals :
              /\ taken[r] \in PlatformDocument /\ taken[r].amount \in Nat
              /\ taken = [taken EXCEPT ![r] = taken[r]]
         /\ \A a \in Admins : inFlight[a] = [pc |-> inFlight[a].pc, on |-> On(a),
                                             amount |-> inFlight[a].amount]
         /\ \A a \in Admins : On(a) = NoRequest <=> AtStep(a, "idle")
<1>1. /\ platform \in Nat /\ totalWithdrawn \in Int
      /\ platform - totalWithdrawn >= 0
      /\ disturbed \subseteq PlatformWithdrawals
      /\ \A a \in Admins : On(a) = NoRequest <=> AtStep(a, "idle")
  BY DEF PlatformInv, PlatformTyped, WalletInv, WalletTypeOK, NeverOverdrawn,
         availableBalance
<1>2. /\ taken \in [PlatformWithdrawals -> PlatformDocument]
      /\ inFlight \in [Admins -> AdminTask]
  BY DEF PlatformInv, PlatformTyped
<1>3. \A r \in PlatformWithdrawals :
        /\ taken[r] \in PlatformDocument /\ taken[r].amount \in Nat
        /\ taken = [taken EXCEPT ![r] = taken[r]]
  BY <1>2 DEF PlatformDocument
<1>4. \A a \in Admins : inFlight[a] = [pc |-> inFlight[a].pc, on |-> On(a),
                                       amount |-> inFlight[a].amount]
  BY <1>2 DEF AdminTask, On
<1> QED  BY <1>1, <1>3, <1>4

\* A request that starts finds a document nobody works on, or disturbs it.
LEMMA StartKeeps ==
  ASSUME PlatformInv, NEW a \in Admins, NEW r \in PlatformWithdrawals,
         NEW pc \in {"record", "markProcessing", "cancel"}, NEW amount \in Nat,
         AtStep(a, "idle"), Start(a, r, pc, amount), UNCHANGED walletVars,
         AlignedWith([pc |-> pc, on |-> r, amount |-> amount], taken[r])
  PROVE  PlatformInv'
<1> DEFINE t == [pc |-> pc, on |-> r, amount |-> amount]
           d == taken[r]
<1>1. t \in AdminTask /\ t.on = r /\ t.pc # "idle" /\ t.pc # "refund"
  BY DEF AdminTask, AdminPoints
<1>2. /\ inFlight' = [inFlight EXCEPT ![a] = t]
      /\ disturbed' = IF \E b \in Admins : On(b) = r THEN disturbed \cup {r}
                      ELSE disturbed
      /\ totalWithdrawn' = totalWithdrawn /\ taken' = taken
  BY DEF Start
<1>3. AlignedWith(t, d)  OBVIOUS
<1> HIDE DEF t, d
<1>4. taken' = [taken EXCEPT ![r] = d] /\ d \in PlatformDocument
  BY <1>2, PlatformNumbers DEF d
<1>5. AdminMove(a, r, t, d)
  <2>1. On(a) = NoRequest  BY PlatformNumbers
  <2>2. /\ totalWithdrawn' \in Int /\ platform - totalWithdrawn' >= 0
        /\ disturbed \subseteq disturbed' /\ disturbed' \subseteq PlatformWithdrawals
    BY <1>2, PlatformNumbers
  <2> QED  BY <1>1, <1>2, <1>4, <2>1, <2>2, PlatformAssumption DEF AdminMove
<1>6. disturbed' = {} => AloneOn(a, r)
  BY <1>2 DEF AloneOn
<1>7. totalWithdrawn' - totalWithdrawn =
        StandsFor(t.pc = "refund", d) - StandsFor(AtStep(a, "refund"), taken[r])
  <2>1. d = taken[r] /\ taken[r].amount \in Nat  BY PlatformNumbers DEF d
  <2>2. totalWithdrawn' - totalWithdrawn = 0  BY <1>2, PlatformNumbers
  <2> QED  BY <1>1, <2>1, <2>2 DEF StandsFor, AtStep
<1> QED  BY <1>3, <1>5, <1>6, <1>7, AdminMoveKeeps

\* A request at work moves on to pc: its document becomes d, and both
\* totals follow what d stands for.
LEMMA WorkKeeps ==
  ASSUME PlatformInv, NEW a \in Admins, ~AtStep(a, "idle"),
         NEW t, NEW d, AdminMove(a, On(a), t, d), disturbed' = disturbed,
         disturbed = {} /\ AlignedWith(inFlight[a], taken[On(a)]) =>
           /\ t.pc # "idle" => AlignedWith(t, d)
           /\ totalWithdrawn' - totalWithdrawn =
                StandsFor(t.pc = "refund", d)
                  - StandsFor(AtStep(a, "refund"), taken[On(a)])
  PROVE  PlatformInv'
<1>1. On(a) \in PlatformWithdrawals  BY AdminKnows
<1>2. disturbed' = {} =>
        AloneOn(a, On(a)) /\ AlignedWith(inFlight[a], taken[On(a)])
  BY AdminKnows
<1>3. PICK r \in PlatformWithdrawals : r = On(a)  BY <1>1
<1>4. /\ AdminMove(a, r, t, d)
      /\ disturbed' = {} =>
           /\ AloneOn(a, r)
           /\ t.pc # "idle" => AlignedWith(t, d)
           /\ totalWithdrawn' - totalWithdrawn =
                StandsFor(t.pc = "refund", d)
                  - StandsFor(AtStep(a, "refund"), taken[r])
  BY <1>2, <1>3
<1> QED  BY <1>4, AdminMoveKeeps

\* Each of the admins' actions.
LEMMA AdminStarts ==
  ASSUME PlatformInv, UNCHANGED walletVars,
         NEW a \in Admins, NEW r \in PlatformWithdrawals,
         \/ Process(a, r) \/ Cancel(a, r)
         \/ \E amount \in Amounts : Create(a, r, amount)
  PROVE  PlatformInv'
<1>1. /\ taken[r].amount \in Nat /\ Amounts \subseteq Nat
  BY AmountsAssumption, PlatformNumbers
<1>2. CASE Process(a, r)
  BY <1>1, <1>2, StartKeeps DEF Process, AlignedWith
<1>3. CASE Cancel(a, r)
  BY <1>1, <1>3, StartKeeps DEF Cancel, AlignedWith
<1>4. ASSUME NEW amount \in Amounts, Create(a, r, amount)
      PROVE  PlatformInv'
  BY <1>1, <1>4, StartKeeps DEF Create, AlignedWith
<1> QED  BY <1>2, <1>3, <1>4

LEMMA RecordKeeps ==
  ASSUME PlatformInv, UNCHANGED walletVars, NEW a \in Admins, Record(a)
  PROVE  PlatformInv'
<1> DEFINE m == inFlight[a].amount
           d == IF CanRecord(m) THEN [status |-> "PENDING", amount |-> m]
                ELSE taken[On(a)]
<1>1. ~AtStep(a, "idle")  BY DEF Record, AtStep
<1>2. /\ On(a) \in PlatformWithdrawals /\ m \in Nat
      /\ taken[On(a)] \in PlatformDocument /\ taken[On(a)].amount \in Nat
  BY <1>1, AdminKnows
<1>3. /\ inFlight' = [inFlight EXCEPT ![a] = NoTask] /\ disturbed' = disturbed
      /\ taken' = [taken EXCEPT ![On(a)] = d]
      /\ totalWithdrawn' = IF CanRecord(m) THEN totalWithdrawn + m
                           ELSE totalWithdrawn
  BY <1>2, PlatformNumbers DEF Record, Finish
<1>4. d \in PlatformDocument  BY <1>2 DEF PlatformDocument, Statuses
<1>5. totalWithdrawn' \in Int /\ platform - totalWithdrawn' >= 0
  BY <1>2, <1>3, PlatformNumbers DEF CanRecord, availableBalance
<1>6. taken[On(a)].status = "none" =>
        totalWithdrawn' - totalWithdrawn =
          StandsFor(NoTask.pc = "refund", d)
            - StandsFor(AtStep(a, "refund"), taken[On(a)])
  BY <1>2, <1>3, PlatformNumbers DEF StandsFor, NoTask, AtStep, Record
<1> HIDE DEF m, d
<1>7. AdminMove(a, On(a), NoTask, d)
  <2>1. NoTask \in AdminTask /\ NoTask.on = NoRequest /\ NoTask.pc = "idle"
    BY DEF NoTask, AdminTask, AdminPoints
  <2> QED  BY <1>3, <1>4, <1>5, <2>1, PlatformNumbers DEF AdminMove
<1>8. AlignedWith(inFlight[a], taken[On(a)]) => taken[On(a)].status = "none"
  BY DEF AlignedWith, Record, AtStep
<1>9. NoTask.pc = "idle"  BY DEF NoTask
<1> QED  BY <1>1, <1>3, <1>6, <1>7, <1>8, <1>9, WorkKeeps

\* The steps that only change the status of the document, or nothing.
LEMMA StatusKeeps ==
  ASSUME PlatformInv, UNCHANGED walletVars, NEW a \in Admins,
         NEW pc \in AdminPoints \ {"record"}, NEW status \in Statuses,
         ~AtStep(a, "idle"), ~AtStep(a, "record"),
         \/ pc # "idle" /\ Go(a, pc)
         \/ pc = "idle" /\ Finish(a),
         taken' = [taken EXCEPT ![On(a)].status = status],
         UNCHANGED <<totalWithdrawn, disturbed>>,
         AlignedWith(inFlight[a], taken[On(a)]) =>
           /\ pc # "idle" =>
                AlignedWith([inFlight[a] EXCEPT !.pc = pc],
                            [taken[On(a)] EXCEPT !.status = status])
           /\ StandsFor(pc = "refund", [taken[On(a)] EXCEPT !.status = status])
                = StandsFor(AtStep(a, "refund"), taken[On(a)])
  PROVE  PlatformInv'
<1> DEFINE t == IF pc = "idle" THEN NoTask ELSE [inFlight[a] EXCEPT !.pc = pc]
           d == [taken[On(a)] EXCEPT !.status = status]
<1>1. /\ On(a) \in PlatformWithdrawals /\ inFlight[a] \in AdminTask
      /\ inFlight[a].on = On(a)
      /\ taken[On(a)] \in PlatformDocument /\ taken[On(a)].amount \in Nat
  BY AdminKnows
<1>2. /\ inFlight' = [inFlight EXCEPT ![a] = t]
      /\ taken' = [taken EXCEPT ![On(a)] = d]
  BY <1>1 DEF Go, Finish
<1>3. t \in AdminTask /\ d \in PlatformDocument
  BY <1>1 DEF AdminTask, NoTask, AdminPoints, PlatformDocument
<1>4. t.pc = pc /\ t.on \in {On(a), NoRequest} /\ (t.on = NoRequest <=> t.pc = "idle")
  BY <1>1, PlatformAssumption DEF AdminTask, NoTask
<1>5. AlignedWith(inFlight[a], taken[On(a)]) =>
        /\ t.pc # "idle" => AlignedWith(t, d)
        /\ StandsFor(t.pc = "refund", d) = StandsFor(AtStep(a, "refund"), taken[On(a)])
  BY <1>4
<1>6. StandsFor(AtStep(a, "refund"), taken[On(a)]) \in Int
  BY <1>1 DEF StandsFor
<1> HIDE DEF t, d
<1>7. AdminMove(a, On(a), t, d)
  BY <1>2, <1>3, <1>4, PlatformNumbers DEF AdminMove
<1>8. totalWithdrawn' - totalWithdrawn = 0  BY PlatformNumbers
<1>9. AlignedWith(inFlight[a], taken[On(a)]) =>
        totalWithdrawn' - totalWithdrawn =
          StandsFor(t.pc = "refund", d) - StandsFor(AtStep(a, "refund"), taken[On(a)])
  BY <1>5, <1>6, <1>8
<1> QED  BY <1>5, <1>7, <1>9, WorkKeeps

LEMMA WorkingSteps ==
  ASSUME PlatformInv, UNCHANGED walletVars, NEW a \in Admins,
         \/ MarkProcessing(a) \/ Transfer(a) \/ MarkCompleted(a) \/ MarkFailed(a)
  PROVE  PlatformInv'
<1>1. ~AtStep(a, "idle") /\ ~AtStep(a, "record")
  BY DEF MarkProcessing, Transfer, MarkCompleted, MarkFailed, AtStep
<1>2. /\ inFlight[a] \in AdminTask /\ On(a) \in PlatformWithdrawals
      /\ taken[On(a)] \in PlatformDocument
  BY <1>1, AdminKnows
<1>3. taken \in [PlatformWithdrawals -> PlatformDocument]
  BY DEF PlatformInv, PlatformTyped
<1>4. PICK t0 \in AdminTask, d0 \in PlatformDocument :
        t0 = inFlight[a] /\ d0 = taken[On(a)]
  BY <1>2
<1> DEFINE Moves(pc, status) ==
             /\ pc \in AdminPoints \ {"record"} /\ status \in Statuses
             /\ \/ pc # "idle" /\ Go(a, pc)
                \/ pc = "idle" /\ Finish(a)
             /\ taken' = [taken EXCEPT ![On(a)].status = status]
             /\ AlignedWith(t0, d0) =>
                  /\ pc # "idle" =>
                       AlignedWith([t0 EXCEPT !.pc = pc], [d0 EXCEPT !.status = status])
                  /\ StandsFor(pc = "refund", [d0 EXCEPT !.status = status])
                       = StandsFor(t0.pc = "refund", d0)
<1>5. UNCHANGED <<totalWithdrawn, disturbed>>
  BY DEF MarkProcessing, Transfer, MarkCompleted, MarkFailed, platformVars
<1>6. ASSUME NEW pc, NEW status, Moves(pc, status) PROVE PlatformInv'
  BY <1>1, <1>4, <1>5, <1>6, StatusKeeps DEF AtStep
<1>7. d0.status \in Statuses /\ taken = [taken EXCEPT ![On(a)].status = d0.status]
  BY <1>2, <1>3, <1>4 DEF PlatformDocument
<1>8. \A status \in Statuses :
        /\ [d0 EXCEPT !.status = status].status = status
        /\ [d0 EXCEPT !.status = status].amount = d0.amount
  BY DEF PlatformDocument
<1>9. \A pc \in AdminPoints :
        /\ [t0 EXCEPT !.pc = pc].pc = pc
        /\ [t0 EXCEPT !.pc = pc].amount = t0.amount
  BY DEF AdminTask
<1>10. CASE MarkProcessing(a)
  <2>1. t0.pc = "markProcessing"  BY <1>4, <1>10 DEF MarkProcessing, AtStep
  <2>2. Moves("transfer", "PROCESSING")
    BY <1>8, <1>9, <1>10, <2>1
    DEF MarkProcessing, SaveStatus, AlignedWith, StandsFor, AdminPoints, Statuses
  <2> QED  BY <1>6, <2>2
<1>11. CASE Transfer(a)
  <2>1. t0.pc = "transfer"  BY <1>4, <1>11 DEF Transfer, AtStep
  <2>2. taken' = [taken EXCEPT ![On(a)].status = d0.status]
    BY <1>7, <1>11 DEF Transfer, platformVars
  <2>3. PICK pc \in {"markCompleted", "markFailed"} : Go(a, pc)
    BY <1>11 DEF Transfer
  <2>4. Moves(pc, d0.status)
    BY <1>7, <1>8, <1>9, <2>1, <2>2, <2>3
    DEF AlignedWith, StandsFor, AdminPoints
  <2> QED  BY <1>6, <2>4
<1>12. CASE MarkCompleted(a)
  <2>1. t0.pc = "markCompleted"  BY <1>4, <1>12 DEF MarkCompleted, AtStep
  <2>2. CASE SaveStatus(On(a), "COMPLETED") /\ Finish(a)
    <3>1. Moves("idle", "COMPLETED")
      BY <1>8, <2>1, <2>2
      DEF SaveStatus, AlignedWith, StandsFor, AdminPoints, Statuses
    <3> QED  BY <1>6, <3>1
  <2>3. CASE Go(a, "markFailed") /\ UNCHANGED taken
    <3>1. Moves("markFailed", d0.status)
      BY <1>7, <1>8, <1>9, <2>1, <2>3
      DEF AlignedWith, StandsFor, AdminPoints
    <3> QED  BY <1>6, <3>1
  <2> QED  BY <1>12, <2>2, <2>3 DEF MarkCompleted
<1>13. CASE MarkFailed(a)
  <2>1. t0.pc = "markFailed"  BY <1>4, <1>13 DEF MarkFailed, AtStep
  <2>2. Moves("refund", "FAILED")
    BY <1>8, <1>9, <1>13, <2>1
    DEF MarkFailed, SaveStatus, AlignedWith, StandsFor, AdminPoints, Statuses
  <2> QED  BY <1>6, <2>2
<1> QED  BY <1>10, <1>11, <1>12, <1>13

LEMMA RefundKeeps ==
  ASSUME PlatformInv, UNCHANGED walletVars, NEW a \in Admins,
         Refund(a) \/ RefundCancelled(a)
  PROVE  PlatformInv'
<1> DEFINE d == IF AtStep(a, "refund") THEN taken[On(a)]
                ELSE [taken[On(a)] EXCEPT !.status = "CANCELLED"]
<1>1. ~AtStep(a, "idle")  BY DEF Refund, RefundCancelled, AtStep
<1>2. /\ On(a) \in PlatformWithdrawals /\ inFlight[a].amount \in Nat
      /\ taken[On(a)] \in PlatformDocument /\ taken[On(a)].amount \in Nat
      /\ taken = [taken EXCEPT ![On(a)] = taken[On(a)]]
  BY <1>1, AdminKnows, PlatformNumbers
<1>3. /\ inFlight' = [inFlight EXCEPT ![a] = NoTask] /\ disturbed' = disturbed
      /\ totalWithdrawn' = totalWithdrawn - inFlight[a].amount
      /\ taken' = [taken EXCEPT ![On(a)] = d]
  BY <1>2 DEF Refund, RefundCancelled, Finish, SaveStatus, AtStep
<1>4. d \in PlatformDocument  BY <1>2 DEF PlatformDocument, Statuses
<1>5. totalWithdrawn' \in Int /\ platform - totalWithdrawn' >= 0
  BY <1>2, <1>3, PlatformNumbers
<1>6. AlignedWith(inFlight[a], taken[On(a)]) =>
        totalWithdrawn' - totalWithdrawn =
          StandsFor(FALSE, d) - StandsFor(AtStep(a, "refund"), taken[On(a)])
  <2>1. totalWithdrawn' - totalWithdrawn = -inFlight[a].amount
    BY <1>2, <1>3, PlatformNumbers
  <2>2. CASE AtStep(a, "refund")
    BY <1>2, <2>1, <2>2 DEF AlignedWith, StandsFor, AtStep
  <2>3. CASE AtStep(a, "cancel")
    <3>1. d.status = "CANCELLED"
      BY <1>2, <2>3 DEF AtStep, PlatformDocument
    <3> HIDE DEF d
    <3> QED  BY <1>2, <2>1, <2>3, <3>1 DEF AlignedWith, StandsFor, AtStep
  <2> QED  BY <2>2, <2>3 DEF Refund, RefundCancelled
<1> HIDE DEF d
<1>7. NoTask.pc = "idle" /\ NoTask.on = NoRequest /\ NoTask \in AdminTask
  BY DEF NoTask, AdminTask, AdminPoints
<1>8. AdminMove(a, On(a), NoTask, d)
  BY <1>3, <1>4, <1>5, <1>7, PlatformNumbers DEF AdminMove
<1>9. StandsFor(NoTask.pc = "refund", d) = StandsFor(FALSE, d)
  BY <1>7 DEF StandsFor
<1> QED  BY <1>1, <1>3, <1>6, <1>7, <1>8, <1>9, WorkKeeps

LEMMA StopKeeps ==
  ASSUME PlatformInv, UNCHANGED walletVars, NEW a \in Admins, Stop(a)
  PROVE  PlatformInv'
<1>1. /\ On(a) \in PlatformWithdrawals /\ taken[On(a)] \in PlatformDocument
      /\ taken = [taken EXCEPT ![On(a)] = taken[On(a)]]
  BY AdminKnows, PlatformNumbers DEF Stop
<1>2. NoTask.pc = "idle" /\ NoTask.on = NoRequest /\ NoTask \in AdminTask
  BY DEF NoTask, AdminTask, AdminPoints
<1>3. PICK r \in PlatformWithdrawals, d \in PlatformDocument :
        r = On(a) /\ d = taken[On(a)]
  BY <1>1
<1>4. AdminMove(a, r, NoTask, d)
  BY <1>1, <1>2, <1>3, PlatformNumbers DEF AdminMove, Stop, Finish
<1>5. disturbed' # {}  BY DEF Stop
<1> QED  BY <1>4, <1>5, AdminMoveKeeps

LEMMA PlatformInvStep ==
  PlatformInv /\ [PlatformNext]_adminVars => PlatformInv'
<1> SUFFICES ASSUME PlatformInv, [PlatformNext]_adminVars PROVE PlatformInv'
  OBVIOUS
<1>1. CASE WalletNext /\ UNCHANGED <<platformVars, inFlight>>
  BY <1>1, CollectingKeeps
<1>2. ASSUME NEW a \in Admins, AdminStep(a), UNCHANGED walletVars
      PROVE  PlatformInv'
  BY <1>2, AdminStarts, RecordKeeps, WorkingSteps, RefundKeeps, StopKeeps
  DEF AdminStep
<1>3. CASE UNCHANGED adminVars
  <2>1. UNCHANGED <<wallet, paidOut, platform, totalWithdrawn, taken, disturbed,
                    inFlight>>
    BY <1>3 DEF adminVars, walletVars, platformVars
  <2>2. WalletInv'
    BY <2>1, WalletInvStep DEF PlatformInv, PlatformTyped, walletVars
  <2>3. PlatformTyped'
    BY <2>1, <2>2
    DEF PlatformInv, PlatformTyped, On, AtStep, NeverOverdrawn, availableBalance
  <2>4. StillOut' = StillOut  BY <2>1 DEF StillOut, StandsFor, AtStep, On
  <2>5. Undisturbed'
    BY <2>1, <2>4
    DEF PlatformInv, Undisturbed, OneAdminEach, AllAligned, StillOutAdds,
        AlignedWith, On, AtStep
  <2> QED  BY <2>3, <2>5 DEF PlatformInv
<1> QED  BY <1>1, <1>2, <1>3 DEF PlatformNext

LEMMA PlatformInvReconciles == PlatformInv => PlatformReconciles
<1> SUFFICES ASSUME PlatformInv, NoneInFlight, disturbed = {}
             PROVE  /\ totalWithdrawn = SumFunctionOnSet(TakenOf, PlatformWithdrawals)
                    /\ availableBalance >= 0
  BY DEF PlatformReconciles
<1>1. \A r \in PlatformWithdrawals : StillOut[r] = TakenOf[r]
  BY DEF StillOut, TakenOf, StandsFor, Outstanding, NoneInFlight, AtStep
<1>2. SumFunctionOnSet(StillOut, PlatformWithdrawals)
        = SumFunctionOnSet(TakenOf, PlatformWithdrawals)
  BY <1>1, PlatformAssumption, SumSame
<1> QED
  BY <1>2
  DEF PlatformInv, PlatformTyped, NeverOverdrawn, Undisturbed, StillOutAdds

(* What was taken out of the platform's wallet is what the documents say,  *)
(* for any number of admins, documents and movements of the wallets: the   *)
(* reads of createPlatformWithdrawal and processPlatformWithdrawal are     *)
(* stale when they are used, but only a second request on the same         *)
(* document, or one cut short, can make the two differ.                    *)
THEOREM PlatformBalanceIsExplained == PlatformSpec => []PlatformReconciles
<1> QED
  BY PlatformInit0, PlatformInvStep, PlatformInvReconciles, PTL DEF PlatformSpec

(* Even when requests are disturbed, totalWithdrawn never exceeds what was *)
(* collected: recordWithdrawal tests the balance in the filter of the      *)
(* update that adds to it.  (What the gateway paid out may exceed it, when *)
(* a document is cancelled after its transfer has begun.)                  *)
THEOREM PlatformIsNeverOverdrawn == PlatformSpec => []NeverOverdrawn
<1>1. PlatformInv => NeverOverdrawn  BY DEF PlatformInv, PlatformTyped
<1> QED  BY PlatformInit0, PlatformInvStep, <1>1, PTL DEF PlatformSpec
=============================================================================
