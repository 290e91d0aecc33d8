---------------------------- MODULE Subscription ----------------------------
(***************************************************************************)
(* Paid plans: src/modules/subscriptions/subscription.service.js,          *)
(* src/workers/subscriptionRenewal.worker.js, src/models/Subscription.js   *)
(* and the gateway callbacks that activate a plan.                         *)
(*                                                                         *)
(* A worker is an API request in flight and cron is the hourly renewal     *)
(* run, of which there is one.  An action is one awaited database call, or *)
(* one withTransaction, with the code up to the next; what the cron        *)
(* decides about a subscription it decides on the document it read.        *)
(*                                                                         *)
(* Left out: the billing cycle (it selects a price and a length), usage    *)
(* counters (module AiGateway), reminders, invoices and metrics.           *)
(***************************************************************************)
EXTENDS Wallet, FiniteSets, Sequences

CONSTANTS
  Workers,      \* API requests in flight at the same time
  Price,        \* what the plans cost; plan 1, 2, ... by tier
  MaxSubs,      \* bound on the documents ever created
  MaxTxns,      \* bound on the gateway payments ever started
  MaxCrashes,   \* bound on the times the server stops
  MaxRequests,  \* bound on the API requests ever made
  Operations    \* the requests that are made

Plans == DOMAIN Price
Free == 0
Subs == 1..MaxSubs
Txns == 1..MaxTxns
None == 0       \* no subscription, no transaction

ASSUME SubscriptionAssumption ==
  /\ Price \in Seq(Amounts) /\ Len(Price) > 0 /\ Users # {}
  /\ MaxSubs \in Nat /\ MaxTxns \in Nat /\ MaxCrashes \in Nat /\ MaxRequests \in Nat

VARIABLES
  sub,      \* the Subscription documents
  user,     \* user -> plan and subscriptionId of the User document
  txn,      \* the SUBSCRIPTION transactions paid through Safepay
  task,     \* worker -> the request it is executing
  cron,     \* the renewal run
  crashes,  \* how often the server has stopped
  requests  \* how many API requests were made

docVars == <<sub, user, txn>>
vars == <<walletVars, docVars, task, cron, crashes, requests>>

(* elapsed: currentPeriodEnd has passed; graceOver: so has gracePeriodEnd. *)
(* downgrade is scheduledDowngrade, {} when there is none.  renews is the  *)
(* subscription this one is the renewal of: a history, not a field.        *)
SubRecord ==
  [status : {"none", "active", "past_due", "expired"}, user : Users,
   plan : Plans, amount : Nat, elapsed : BOOLEAN, graceOver : BOOLEAN,
   cancel : BOOLEAN, downgrade : SUBSET (Plans \cup {Free}),
   renews : Subs \cup {None}, txn : Txns \cup {None}]
TxnRecord ==
  [status : {"none", "PENDING", "SUCCESS", "FAILED"}, user : Users,
   plan : Plans, charge : Nat, replaces : Subs \cup {None}]
Points == {"idle", "purchase", "upgrade", "insertTxn", "activate", "change",
           "createGranted", "setGranted"}
TaskRecord ==
  [op : Operations \cup {"none"}, pc : Points, user : Users, plan : Plans,
   sub : Subs \cup {None}, charge : Nat, txn : Txns \cup {None},
   to : SUBSET (Plans \cup {Free})]
Decision == [sub : Subs, do : {"expire", "downgrade", "renew", "grace"},
             plan : Plans \cup {Free}]
CronPoints == {"idle", "next", "readPastDue", "downgrade", "checkWallet",
               "savePastDue", "renew", "checkTopUp", "restore", "saveExpired",
               "setFree"}
CronRecord == [pc : CronPoints, left : SUBSET Decision, now : SUBSET Decision,
               graceRead : BOOLEAN]

AnyUser == CHOOSE u \in Users : TRUE
NoSub == [status |-> "none", user |-> AnyUser, plan |-> 1, amount |-> 0,
          elapsed |-> FALSE, graceOver |-> FALSE, cancel |-> FALSE,
          downgrade |-> {}, renews |-> None, txn |-> None]
NoTxn == [status |-> "none", user |-> AnyUser, plan |-> 1, charge |-> 0,
          replaces |-> None]
Idle == [op |-> "none", pc |-> "idle", user |-> AnyUser, plan |-> 1,
         sub |-> None, charge |-> 0, txn |-> None, to |-> {}]
CronIdle == [pc |-> "idle", left |-> {}, now |-> {}, graceRead |-> FALSE]

Init ==
  /\ WalletInit
  /\ sub = [s \in Subs |-> NoSub]
  /\ user = [u \in Users |-> [plan |-> Free, sub |-> None]]
  /\ txn = [t \in Txns |-> NoTxn]
  /\ task = [w \in Workers |-> Idle]
  /\ cron = CronIdle
  /\ crashes = 0 /\ requests = 0

TypeOK ==
  /\ WalletTypeOK
  /\ sub \in [Subs -> SubRecord]
  /\ user \in [Users -> [plan : Plans \cup {Free}, sub : Subs \cup {None}]]
  /\ txn \in [Txns -> TxnRecord]
  /\ task \in [Workers -> TaskRecord]
  /\ cron \in CronRecord /\ Cardinality(cron.now) <= 1
  /\ crashes \in 0..MaxCrashes /\ requests \in 0..MaxRequests
-----------------------------------------------------------------------------
At(w, pc) == task[w].pc = pc
May(w, op) == At(w, "idle") /\ op \in Operations
Done(w) == task' = [task EXCEPT ![w] = Idle]
Begin(w, op, pc, u, p) ==
  task' = [task EXCEPT ![w] = [Idle EXCEPT !.op = op, !.pc = pc, !.user = u, !.plan = p]]

Live(s) == sub[s].status \in {"active", "past_due"}
\* Subscription.getActiveSubscription finds one of these.
ActiveOf(u) == {s \in Subs : sub[s].status = "active" /\ sub[s].user = u}

\* Documents are created in the order of their identities.
Unused == {s \in Subs : sub[s].status = "none"}
NewSub == CHOOSE s \in Unused : \A r \in Unused : s <= r
(* The bound MaxSubs: nothing else takes the document that the renewal of  *)
(* an elapsed subscription will need.                                      *)
Renewable == {s \in Subs : Live(s) /\ sub[s].elapsed}
               \cup {d.sub : d \in cron.left \cup cron.now}
Room(n) == Cardinality(Unused) >= Cardinality(Renewable) + n

Subscribed(u, p, amount, renews, t) ==
  [NoSub EXCEPT !.status = "active", !.user = u, !.plan = p, !.amount = amount,
                !.renews = renews, !.txn = t]
Expired(s) == [sub[s] EXCEPT !.status = "expired", !.downgrade = {}]

\* Mutant: the balance that was read before is not tested again.
ChargeUnfiltered(u, a) ==
  /\ wallet' = [wallet EXCEPT ![u].available = @ - a]
  /\ paidOut' = [paidOut EXCEPT ![u] = @ + a]
  /\ platform' = platform + a
\* A plan that costs nothing moves no money.
ChargeWallet(u, a) == IF a = 0 THEN UNCHANGED walletVars ELSE PayPlatform(u, a)
-----------------------------------------------------------------------------
(* purchaseSubscription, and upgradeSubscription of a user who has none.   *)
Purchase(w, u, p) ==
  /\ May(w, "purchase")
  /\ ActiveOf(u) = {}
  /\ \E pc \in {"purchase", "insertTxn"} :
       task' = [task EXCEPT ![w] = [Idle EXCEPT !.op = "purchase", !.pc = pc,
                  !.user = u, !.plan = p, !.charge = Price[p]]]
  /\ UNCHANGED <<walletVars, docVars>>

\* _purchaseViaWallet: one transaction, which the balance may refuse.
PurchaseViaWallet(w) ==
  LET u == task[w].user p == task[w].plan
  IN  /\ At(w, "purchase")
      /\ \/ /\ Room(1)
            /\ ChargeWallet(u, task[w].charge)
            /\ sub' = [sub EXCEPT ![NewSub] = Subscribed(u, p, Price[p], None, None)]
            /\ user' = [user EXCEPT ![u] = [plan |-> p, sub |-> NewSub]]
            /\ UNCHANGED txn
         \/ wallet[u].available < task[w].charge /\ UNCHANGED <<walletVars, docVars>>
      /\ Done(w)

(* _calculateProration: the credit is the share of the amount that the     *)
(* rest of the period makes, none when the period is over.                 *)
Credits(s) == IF sub[s].elapsed THEN {0} ELSE 0..sub[s].amount
Upgrade(w, u, p) ==
  /\ May(w, "upgrade")
  /\ \E s \in ActiveOf(u) :
       /\ p > sub[s].plan
       /\ \E credit \in Credits(s) :
            LET charge == IF Price[p] > credit THEN Price[p] - credit ELSE 0
            IN  \E pc \in {"upgrade"} \cup (IF charge = 0 THEN {} ELSE {"insertTxn"}) :
                  task' = [task EXCEPT ![w] = [Idle EXCEPT !.op = "upgrade", !.pc = pc,
                             !.user = u, !.plan = p, !.sub = s, !.charge = charge]]
  /\ UNCHANGED <<walletVars, docVars>>

\* _upgradeViaWallet expires the document it read, whatever it has become.
UpgradeViaWallet(w) ==
  LET u == task[w].user p == task[w].plan s == task[w].sub
  IN  /\ At(w, "upgrade")
      /\ \/ /\ Room(1)
            /\ ChargeWallet(u, task[w].charge)
            /\ sub' = [sub EXCEPT ![s] = Expired(s),
                                  ![NewSub] = Subscribed(u, p, Price[p], None, None)]
            /\ user' = [user EXCEPT ![u] = [plan |-> p, sub |-> NewSub]]
            /\ UNCHANGED txn
         \/ wallet[u].available < task[w].charge /\ UNCHANGED <<walletVars, docVars>>
      /\ Done(w)

\* _purchaseViaSafepay, _upgradeViaSafepay.
InsertTxn(w) ==
  /\ At(w, "insertTxn")
  /\ \E t \in Txns :
       /\ txn[t].status = "none"
       /\ \A r \in Txns : r < t => txn[r].status # "none"
       /\ txn' = [txn EXCEPT ![t] =
            [status |-> "PENDING", user |-> task[w].user, plan |-> task[w].plan,
             charge |-> task[w].charge, replaces |-> task[w].sub]]
  /\ Done(w)
  /\ UNCHANGED <<walletVars, sub, user>>

(* The gateway says that a pending payment was made: the webhook, the      *)
(* callback or the verification cron claims the row and then activates it. *)
Claim(w, t) ==
  /\ May(w, "callback")
  /\ txn[t].status = "PENDING"
  /\ txn' = [txn EXCEPT ![t].status = "SUCCESS"]
  /\ task' = [task EXCEPT ![w] = [Idle EXCEPT !.op = "callback", !.pc = "activate",
                                              !.txn = t]]
  /\ UNCHANGED <<walletVars, sub, user>>
TimeOut(t) ==
  /\ txn[t].status = "PENDING" /\ "callback" \in Operations
  /\ txn' = [txn EXCEPT ![t].status = "FAILED"]
  /\ UNCHANGED <<walletVars, sub, user, task>>

\* Mutant: only a pending transaction is eligible for activation.
EligiblePending(t) ==
  /\ txn[t].status = "PENDING"
  /\ \A s \in Subs : sub[s].txn # t
\* What activateAfterPayment tests, before and inside its transaction.
Eligible(t) ==
  /\ txn[t].status \in {"PENDING", "SUCCESS"}
  /\ \A s \in Subs : sub[s].txn # t
ActivateAfterPayment(w) ==
  LET t == task[w].txn
      u == txn[t].user
      old == txn[t].replaces
      created == Subscribed(u, txn[t].plan, Price[txn[t].plan], None, t)
  IN  /\ At(w, "activate")
      /\ IF Eligible(t)
         THEN /\ Room(1)
              /\ sub' = [s \in Subs |-> CASE s = NewSub -> created
                                          [] s = old -> Expired(s)
                                          [] OTHER -> sub[s]]
              /\ user' = [user EXCEPT ![u] = [plan |-> txn[t].plan, sub |-> NewSub]]
              /\ txn' = [txn EXCEPT ![t].status = "SUCCESS"]
              /\ platform' = platform + txn[t].charge
              /\ UNCHANGED <<wallet, paidOut>>
         ELSE UNCHANGED <<walletVars, docVars>>
      /\ Done(w)

(* cancelSubscription, reactivateSubscription, scheduleDowngrade and       *)
(* cancelScheduledDowngrade read an active document and save what they     *)
(* change of it; to is the downgrade.                                      *)
Change(w, u) ==
  /\ \E s \in ActiveOf(u) :
       \E op \in {"cancel", "reactivate", "scheduleDowngrade", "cancelDowngrade"} :
         /\ May(w, op)
         /\ op = "reactivate" => sub[s].cancel
         /\ op = "cancelDowngrade" => sub[s].downgrade # {}
         /\ \E to \in IF op = "scheduleDowngrade"
                        THEN {{p} : p \in {q \in Plans \cup {Free} : q < sub[s].plan}}
                        ELSE {{}} :
              task' = [task EXCEPT ![w] = [Idle EXCEPT !.op = op, !.pc = "change",
                         !.user = u, !.sub = s, !.to = to]]
  /\ UNCHANGED <<walletVars, docVars>>
SaveChange(w) ==
  LET s == task[w].sub
  IN  /\ At(w, "change")
      /\ sub' = CASE task[w].op = "cancel" -> [sub EXCEPT ![s].cancel = TRUE]
                  [] task[w].op = "reactivate" -> [sub EXCEPT ![s].cancel = FALSE]
                  [] task[w].op = "scheduleDowngrade"
                       -> [sub EXCEPT ![s].downgrade = task[w].to, ![s].cancel = FALSE]
                  [] OTHER -> [sub EXCEPT ![s].downgrade = {}]
      /\ Done(w)
      /\ UNCHANGED <<walletVars, user, txn>>

\* adminGrantPlan: three updates in a row.
Grant(w, u, p) ==
  /\ May(w, "grant")
  /\ sub' = [s \in Subs |-> IF s \in ActiveOf(u) THEN [sub[s] EXCEPT !.status = "expired"]
                                                 ELSE sub[s]]
  /\ Begin(w, "grant", "createGranted", u, p)
  /\ UNCHANGED <<walletVars, user, txn>>
CreateGranted(w) ==
  /\ At(w, "createGranted") /\ Room(1)
  /\ sub' = [sub EXCEPT ![NewSub] = Subscribed(task[w].user, task[w].plan, 0, None, None)]
  /\ task' = [task EXCEPT ![w].pc = "setGranted", ![w].sub = NewSub]
  /\ UNCHANGED <<walletVars, user, txn>>
SetGranted(w) ==
  /\ At(w, "setGranted")
  /\ user' = [user EXCEPT ![task[w].user] = [plan |-> task[w].plan, sub |-> task[w].sub]]
  /\ Done(w)
  /\ UNCHANGED <<walletVars, sub, txn>>
-----------------------------------------------------------------------------
(* The hourly run.  now holds the document in hand, left the others of the *)
(* list being worked through.                                              *)
CronAt(pc) == cron.pc = pc /\ cron.now # {}
InHand == (CHOOSE d \in cron.now : TRUE).sub
Payer == sub[InHand].user
CronGo(pc) == cron' = [cron EXCEPT !.pc = pc]
NextOne == cron' = [cron EXCEPT !.pc = "next", !.now = {}]

Decide(s) == [sub |-> s, plan |-> IF sub[s].downgrade = {} THEN Free
                                  ELSE CHOOSE p \in sub[s].downgrade : TRUE,
              do |-> CASE sub[s].cancel -> "expire"
                       [] ~sub[s].cancel /\ sub[s].downgrade # {} -> "downgrade"
                       [] OTHER -> "renew"]

\* processExpiredSubscriptions
CronStart ==
  /\ cron.pc = "idle"
  /\ cron' = [cron EXCEPT !.pc = "next",
       !.left = {Decide(s) : s \in {r \in Subs : sub[r].status = "active" /\ sub[r].elapsed}}]
  /\ UNCHANGED <<walletVars, docVars>>
CronNext ==
  /\ cron.pc = "next"
  /\ \/ /\ cron.left = {}
        /\ IF cron.graceRead THEN cron' = CronIdle ELSE CronGo("readPastDue")
     \/ \E d \in cron.left :
          cron' = [cron EXCEPT !.left = @ \ {d}, !.now = {d},
            !.pc = CASE d.do = "expire" \/ (d.do = "downgrade" /\ d.plan = Free)
                          -> "saveExpired"
                     [] d.do = "downgrade" /\ d.plan # Free -> "downgrade"
                     [] d.do = "renew" -> "checkWallet"
                     [] OTHER -> "checkTopUp"]
  /\ UNCHANGED <<walletVars, docVars>>
\* processGracePeriodExpired
ReadPastDue ==
  /\ cron.pc = "readPastDue"
  /\ cron' = [cron EXCEPT !.pc = "next", !.graceRead = TRUE,
       !.left = {[sub |-> s, plan |-> Free, do |-> "grace"] :
                   s \in {r \in Subs : sub[r].status = "past_due" /\ sub[r].graceOver}}]
  /\ UNCHANGED <<walletVars, docVars>>

\* processDowngrade: one transaction; without the balance the plan ends.
ProcessDowngrade ==
  LET p == (CHOOSE d \in cron.now : TRUE).plan
  IN  /\ CronAt("downgrade")
      /\ \/ /\ Unused # {}
            /\ PayPlatform(Payer, Price[p])
            /\ sub' = [sub EXCEPT ![InHand] = Expired(InHand),
                                  ![NewSub] = Subscribed(Payer, p, Price[p], InHand, None)]
            /\ user' = [user EXCEPT ![Payer] = [plan |-> p, sub |-> NewSub]]
            /\ NextOne
         \/ /\ wallet[Payer].available < Price[p]
            /\ CronGo("saveExpired")
            /\ UNCHANGED <<walletVars, sub, user>>
      /\ UNCHANGED txn

\* Mutant: without the balance the subscription is left for the next hour.
CheckWalletOnly ==
  /\ CronAt("checkWallet")
  /\ IF wallet[Payer].available < Price[sub[InHand].plan] THEN NextOne ELSE CronGo("renew")
  /\ UNCHANGED <<walletVars, docVars>>
\* attemptRenewal
CheckWallet ==
  /\ CronAt("checkWallet")
  /\ CronGo(IF wallet[Payer].available < Price[sub[InHand].plan] THEN "savePastDue"
                                                                 ELSE "renew")
  /\ UNCHANGED <<walletVars, docVars>>
SavePastDue ==
  /\ CronAt("savePastDue")
  /\ sub' = [sub EXCEPT ![InHand].status = "past_due", ![InHand].graceOver = FALSE]
  /\ NextOne
  /\ UNCHANGED <<walletVars, user, txn>>
\* Mutant: the old subscription is not expired.
RenewKeepingTheOld ==
  LET p == sub[InHand].plan
  IN  /\ CronAt("renew")
      /\ \/ /\ Unused # {}
            /\ PayPlatform(Payer, Price[p])
            /\ sub' = [sub EXCEPT ![NewSub] = Subscribed(Payer, p, Price[p], InHand, None)]
            /\ user' = [user EXCEPT ![Payer].sub = NewSub]
         \/ /\ wallet[Payer].available < Price[p]
            /\ UNCHANGED <<walletVars, sub, user>>
      /\ NextOne
      /\ UNCHANGED txn
\* The transaction; atomicDebit throws when the balance is gone meanwhile.
Renew ==
  LET p == sub[InHand].plan
  IN  /\ CronAt("renew")
      /\ \/ /\ Unused # {}
            /\ PayPlatform(Payer, Price[p])
            /\ sub' = [sub EXCEPT ![InHand].status = "expired",
                                  ![NewSub] = Subscribed(Payer, p, Price[p], InHand, None)]
            /\ user' = [user EXCEPT ![Payer].sub = NewSub]
         \/ /\ wallet[Payer].available < Price[p]
            /\ UNCHANGED <<walletVars, sub, user>>
      /\ NextOne
      /\ UNCHANGED txn
\* The last attempt of processGracePeriodExpired.
CheckTopUp ==
  /\ CronAt("checkTopUp")
  /\ CronGo(IF wallet[Payer].available >= Price[sub[InHand].plan] THEN "restore"
                                                                  ELSE "saveExpired")
  /\ UNCHANGED <<walletVars, docVars>>
Restore ==
  /\ CronAt("restore")
  /\ sub' = [sub EXCEPT ![InHand].status = "active", ![InHand].graceOver = FALSE]
  /\ CronGo("checkWallet")
  /\ UNCHANGED <<walletVars, user, txn>>

\* Mutant: the subscription ends and the user keeps the plan.
SaveExpiredOnly ==
  /\ CronAt("saveExpired")
  /\ sub' = [sub EXCEPT ![InHand].status = "expired"]
  /\ NextOne
  /\ UNCHANGED <<walletVars, user, txn>>
\* expireSubscription: two updates in a row.
SaveExpired ==
  /\ CronAt("saveExpired")
  /\ sub' = [sub EXCEPT ![InHand].status = "expired"]
  /\ CronGo("setFree")
  /\ UNCHANGED <<walletVars, user, txn>>
SetFree ==
  /\ CronAt("setFree")
  /\ user' = [user EXCEPT ![Payer] = [plan |-> Free, sub |-> None]]
  /\ NextOne
  /\ UNCHANGED <<walletVars, sub, txn>>

CronStep == CronNext \/ ReadPastDue \/ ProcessDowngrade \/ CheckWallet \/ SavePastDue
            \/ Renew \/ CheckTopUp \/ Restore \/ SaveExpired \/ SetFree
-----------------------------------------------------------------------------
\* A period is longer than a request that is granting it.
PeriodEnds(s) ==
  /\ Live(s) /\ ~sub[s].elapsed
  /\ \A w \in Workers : task[w].sub = s => ~At(w, "setGranted")
  /\ Cardinality(Unused) > Cardinality(Renewable)
  /\ sub' = [sub EXCEPT ![s].elapsed = TRUE]
GraceEnds(s) ==
  /\ sub[s].status = "past_due" /\ ~sub[s].graceOver
  /\ sub' = [sub EXCEPT ![s].graceOver = TRUE]
TimePasses ==
  /\ \E s \in Subs : PeriodEnds(s) \/ GraceEnds(s)
  /\ UNCHANGED <<walletVars, user, txn, task, cron, crashes, requests>>
TopUp(u, a) ==
  /\ "deposit" \in Operations
  /\ Deposit(u, a)
  /\ UNCHANGED <<docVars, task, cron, crashes, requests>>
\* The server stops: every request in flight and the cron run are lost.
Crash ==
  /\ crashes < MaxCrashes
  /\ crashes' = crashes + 1
  /\ cron' = CronIdle
  /\ task' = [w \in Workers |-> Idle]
  /\ UNCHANGED <<walletVars, docVars, requests>>

Arrive(w) ==
  /\ requests < MaxRequests /\ requests' = requests + 1
  /\ \/ \E u \in Users, p \in Plans : Purchase(w, u, p) \/ Upgrade(w, u, p) \/ Grant(w, u, p)
     \/ \E t \in Txns : Claim(w, t)
     \/ \E u \in Users : Change(w, u)
Proceed(w) ==
  \/ PurchaseViaWallet(w) \/ UpgradeViaWallet(w) \/ InsertTxn(w)
  \/ ActivateAfterPayment(w) \/ SaveChange(w) \/ CreateGranted(w) \/ SetGranted(w)

Hourly == (CronStart \/ CronStep) /\ UNCHANGED <<task, crashes, requests>>

Next ==
  \/ \E w \in Workers : \/ Arrive(w) /\ UNCHANGED <<cron, crashes>>
                        \/ Proceed(w) /\ UNCHANGED <<cron, crashes, requests>>
  \/ (\E t \in Txns : TimeOut(t)) /\ UNCHANGED <<cron, crashes, requests>>
  \/ Hourly
  \/ TimePasses
  \/ \E u \in Users, a \in Amounts : TopUp(u, a)
  \/ Crash

(* The cron is started every hour and its awaits return; nothing is said   *)
(* of the requests.                                                        *)
Spec == Init /\ [][Next]_vars /\ WF_vars(Hourly)
-----------------------------------------------------------------------------
Quiet == cron.pc = "idle" /\ \A w \in Workers : At(w, "idle")

(* A period is renewed, and charged, at most once, even when the run stops *)
(* half-way or races with the user's own requests: the transaction that    *)
(* charges expires the subscription it renews (attemptRenewal,             *)
(* processDowngrade).                                                      *)
RenewedOnce ==
  \A r, s \in Subs : sub[r].renews = sub[s].renews /\ sub[r].renews # None => r = s

(* Nobody keeps a paid plan whose subscription has ended: between requests *)
(* and runs, a paid plan has a live subscription of that plan behind it.   *)
(* expireSubscription and adminGrantPlan write the two documents one after *)
(* the other, so a server that stopped in between is excepted.             *)
PlanIsBacked ==
  Quiet /\ crashes = 0 =>
    \A u \in Users : user[u].plan # Free =>
      \E s \in Subs : sub[s].user = u /\ sub[s].plan = user[u].plan /\ Live(s)

(* A payment the gateway confirmed has bought its subscription, unless the *)
(* server stopped between the claim and the activation.                    *)
PaidIsActivated ==
  Quiet /\ crashes = 0 =>
    \A t \in Txns : txn[t].status = "SUCCESS" => \E s \in Subs : sub[s].txn = t

(* A period that is over is dealt with: renewed, put in grace or expired   *)
(* (the hourly run), whatever failed before.                               *)
PeriodsEnd ==
  \A s \in Subs :
    (sub[s].status = "active" /\ sub[s].elapsed) ~> (sub[s].status # "active")
-----------------------------------------------------------------------------
(* Claims of the code that do not hold.                                    *)

(* Subscription.js: "only one can be active at a time". Refuted by a plan  *)
(* bought while another is past due, or while a gateway payment is open.   *)
OneActive == \A u \in Users : Cardinality(ActiveOf(u)) <= 1

(* A user whose subscription is active has a paid plan. Refuted when an    *)
(* older, past-due subscription expires: expireSubscription sets the user  *)
(* free without looking whether the subscription is still the user's.      *)
ActiveKeepsThePlan ==
  Quiet /\ crashes = 0 => \A u \in Users : ActiveOf(u) # {} => user[u].plan # Free
=============================================================================
