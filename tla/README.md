# Verification of the Skillup server

Skillup is a freelancing marketplace: clients post jobs and hire freelancers,
money is deposited into wallets, locked in escrows while work is done, released
to the freelancer less a platform fee, and withdrawn through payment gateways.
The server is an Express/Mongoose program (`src/src`).  Every request handler is
an `async` function, so requests interleave at every `await`; the database gives
atomicity to one `findOneAndUpdate` or to what runs in `session.withTransaction`,
and to nothing larger.  That is where the program is hard to get right and hard
to test, and it is what this project models.

All line numbers refer to files under `src/src`.

## 1. Inventory

| Component | State | Operations | Modules |
|---|---|---|---|
| Platform fee (`config/payment.config.js`) | none | percentage of an amount, with a minimum and a maximum | `Fees` |
| Wallets (`models/Wallet.js`, `PlatformWallet.js`, `modules/payments/wallet.service.js`) | available and locked balance, totals; platform fees | deposit, debit, lock, unlock, release of an escrow, release of a withdrawal, payment of a plan | `Wallet` |
| Escrows (`models/Escrow.js`, `modules/payments/escrow.service.js`) | status, amount, expiry, resolution; Transaction rows | create, fund, release, refund, freeze, admin release, resolve; TTL index | `Escrow` |
| Contract-level funding (`modules/contracts/contract.service.js`) | the same documents | hire from a proposal, start and approve milestone work | `Escrow` (in part) |
| Withdrawals (`models/WithdrawalRequest.js`, `withdrawal.service.js`) | status; Transaction row; locked balance | create, process, reject, cancel | `Withdrawal` |
| Deposits (`payment.service.js`, `payment.controller.js`, `safepay-verification.service.js`) | Transaction PENDING/SUCCESS/FAILED | initialise, verify, webhook, callback, cron, cancel, auto-fund | `Deposit` |
| Contracts and milestones (`modules/contracts/contract.service.js`, `models/Contract.js`) | contract status and payment status, milestone statuses, their escrows | hire, pay, accept or decline, start, submit, request changes, approve, complete, close, cancel; add, fund, start, submit, revise, approve a milestone | `Contract` |
| Disputes (`modules/disputes/dispute.service.js`) | dispute status; escrows frozen, contract disputed | open with freezing, resolve, reject, change the status | `Contract`; the payment in `Escrow` |
| Proposals and jobs (`modules/proposals/proposal.service.js`, `modules/jobs/job.service.js`, `models/Job.js`) | statuses, the job's counter of proposals | apply, edit, view, withdraw, accept, reject; post, view, update, change status, close, delete a job | `Hiring` |
| Moderation (`modules/admin/jobs/job-checker.service.js`, `modules/admin/users/user-management.service.js`) | users suspended or banned, proposals withdrawn by a suspension | approve, reject, flag, feature and delete a job; suspend, ban and activate a user | `Moderation` |
| Subscriptions and the renewal worker (`modules/subscriptions/subscription.service.js`, `workers/subscriptionRenewal.worker.js`) | subscriptions, the user's plan, gateway payments of plans | purchase, gateway callback, upgrade, downgrade, cancel, reactivate, grant; renew, downgrade, grace, expire | `Subscription` |
| Platform withdrawals (`modules/admin/payments/payment-management.controller.js`, `models/PlatformWithdrawal.js`) | status; platform wallet | create, process, cancel | `PlatformWithdrawal` |
| AI gateway (`services/ai/circuit-breaker.js`, `rate-limiter.service.js`, `core/middlewares/ai-rate-limit.middleware.js`, `subscription.middleware.js`) | circuit state and counters, hourly counters on Redis, the plan's quota | check, call, fall back, count, reset, expire | `Breaker`, `CircuitBreaker`, `AiGateway` |
| Authentication and sessions | one-time codes, refresh tokens | log in, refresh, log out | not modelled |
| Campaigns (`modules/admin/communication/communication.service.js`, `workers/email.worker.js`) | campaign status, a log per recipient, the queue's job | edit, test, send, cancel; process, retry | `Campaign` |
| Messages (`modules/messages/message.service.js`, `models/Conversation.js`, `models/Message.js`) | messages with who has read them, unread counter per participant | send, read, delete; the message of an accepted proposal | `Messaging` |
| Reviews (`modules/reviews/review.service.js`) | review of each party in the contract, rating of the user | submit, recompute; the review that comes with an approval | `Reviews` |
| Identity cards (`modules/cnic/cnic.service.cloudinary.js`, `workers/ocr.worker.js`) | the card in the User document, its stored images, the recognition's jobs | submit, approve, reject, request a new upload, recognise | `Identity` |
| Notifications, e-mail texts, users, settings, uploads, sockets, reports | single documents, presence | independent updates and output | not modelled |

**How they interact.**  Everything meets in the wallet: escrows, withdrawals,
deposits and plans are requests on one available and one locked balance per
user, and the locked balance is not labelled with what locked it.  A deposit may
start the funding of an escrow (`autoFund`), from a gateway callback, the
verification cron and the client's own request; a contract's requests create,
mark and release escrows; a dispute freezes them and an admin resolves it.  A
job's, a proposal's and a contract's requests change each other's statuses in
separate calls.  An admin who suspends a freelancer withdraws his proposals, and
brings them back when he activates him.  A plan is bought from the wallet or through a gateway, whose
callback claims the payment and activates it, while the hourly worker renews,
downgrades or expires.  The AI features are behind the plan's quota, two hourly
limits and one circuit breaker per process.  A campaign is sent by a job of a queue
that is tried again when it throws, or by the request itself when there is no
queue; a rating is recomputed from all contracts of its user, in which other
requests save reviews; a card's images are stored by another service, and the card
is saved after they were replaced or deleted there.

**What is hard.**

* A status is read into a Mongoose document, tested there, and saved after
  later awaits: another request may have saved its own in between.
  (`releaseEscrow`, `processWithdrawal`, `cancelWithdrawal`, `verifyDeposit`)
* A claim, a money movement and a save are three calls; the second may fail, and
  the server may stop, after the first.  (`fundEscrow`, `createWithdrawalRequest`)
* A movement is refused only by a balance; the balance may be another escrow's.
* Two documents that must agree (a proposal and its contract, a subscription and
  the user's plan, a job and its counter) are written by two calls.
* A limit is tested before a request and counted after its answer.
* An answer of the AI provider arrives after the circuit was opened or reset.
* A handler's failure branch throws into its own catch.  (`processWithdrawal`)
* MongoDB deletes documents whose `expiresAt` has passed, on its own schedule.
* A counter is derived from documents that others add to: unread messages, ratings.
* A mail is sent, or an image deleted, before the document that says so is saved.
* A fee with a minimum, and a split with a share of zero, meet their boundaries.

PROJECT.json lists each of them, at its line, with the property that covers it.

**What makes each component correct.**  Wallets: no balance is overdrawn, every
wallet reconciles, no money appears or disappears.  Escrows: funded once, paid
out once and to one side, and what is locked is what the escrows hold.
Withdrawals: paid once, from money that was locked for them, never paid and
returned, always closed.  Deposits: credited on a claim at most once, row and wallet agree,
none waits forever.
Contracts: no milestone is completed and no work begun unpaid, one milestone at
a time, a disputed contract stays so while a dispute is open.  Hiring: no live
proposal on a deleted job, a counter that agrees with the documents, whatever admins
moderate.
Subscriptions: a period is renewed once and does not stay over, a paid plan has a
subscription behind it.  AI gateway: no call while the circuit is open, limits
exceeded by no more than the requests in flight, counters that expire.
Campaigns: each recipient is mailed once, whatever is tried again, a cancelled
campaign stops, and it ends unless its request or its
job broke off for good.  Conversations: the badge agrees with the
messages.  Reviews: a rating agrees with the reviews received.  Identity cards: no
card refers to images that are gone, none is left over, no number is approved for
two users.

## 2. Modules

```
Fees --- Wallet --+-- Escrow ------ MCEscrow
                  +-- Withdrawal -- MCWithdrawal
                  +-- Deposit ----- MCDeposit
                  +-- PlatformWithdrawal -- MCWallet
                  +-- Subscription -- MCSubscription
Hiring --+-- Contract ---- MCContract -+-- MCHiringCards
         +-- Moderation ---------------+
                           Identity ---+
Campaign --+
Messaging -+-- MCServices
Reviews ---+
Breaker ~~~ CircuitBreaker --- AiGateway --- MCAiGateway

SumTheorems --- WalletProofs --+-- EscrowProofs (Escrow)
            |                  +-- WithdrawalProofs (MCWithdrawal)
            |                  +-- DepositProofs (Deposit)
            |                  +-- PlatformProofs (Subscription, PlatformWithdrawal)
            +-- ServicesProofs (Campaign, Messaging, Reviews, Identity, AiGateway)
ContractProofs (Contract, Moderation)
```

`SumTheorems` is about `SumFunctionOnSet` of the community modules.  A line is
EXTENDS, and a module of proofs extends those in parentheses too; `~~~` is the refinement `Circuit == INSTANCE Breaker WITH ...`
that `AiGateway` states.

`Wallet` is both a component and the abstract specification of the other three:
`WalletSpec` says that balances change by the wallet service's movements only,
each with its balance test, and every request of `Escrow`, `Withdrawal` and
`Deposit` is shown to implement it (the identity on the wallet's variables is
the refinement mapping, and every step of a request that moves no money is a
stutter).  What is proved of wallets is thereby true of everything that uses
them.

**The common form.**  A *worker* is a request in flight.  `task[w]` is what the
request remembers between two database calls: where it is (`pc`), and the fields
of the Mongoose document it read, which may be stale by the time it saves it.
One action is one awaited call with the code up to the next `await`; what runs
in `session.withTransaction` is one action.  `save()` writes the fields the
request changed and no others.  A request that throws before it has written is
not a step.  A worker that stops half-way is a request that threw there or a
server that stopped: no specification without fairness makes it go on.

| Module | Variables, and what they are in the code | Actions |
|---|---|---|
| `Fees` | none | `calculatePlatformFee`, `calculateFreelancerAmount` in whole rupees |
| `Wallet` | `wallet`: a Wallet document; `paidOut`: what has left the system; `platform`: the platform wallet | one per movement of `wallet.service.js`, with the balance test of the atomic update it ends in |
| `Escrow` | `escrow`: Escrow documents, `DELETED` when the TTL index has removed one; `rows`: totals of the Transaction rows that carry the escrow's id; `task` | `Create*`, `Hire*` (`createFromProposal`), `Fund*` (`fundEscrow`), `Mark*` (milestone start and `respondToContract`), `Release`, `Refund`, `Freeze`, `AdminRelease`, `ResolveDispute` with the calls they are made of; `ExpiryPasses`, `TTLDelete`, `Crash` |
| `Withdrawal` | `request`: WithdrawalRequest documents; `row`: the status of its Transaction row; `moved`, `sent`: what was locked, released, unlocked and sent for it | `Create*`, `Process*`, `Gateway`, `MarkFailed`, `RowFailed`, `Unlock`, `RejectRead`, `Cancel*`; the owner's deposits and escrows |
| `Deposit` | `status`: the status of the Transaction row; `tracker`: it has the gateway's reference; `stale`: older than the timeout; `paid`: paid at the gateway; `escrow`: whether the escrow it is for is funded; `credits`, `judged`: what was credited, and what `verifyDeposit` saved; `task`, whose `asked` is the deposit whose tracker a callback names | `InitializeInsert` .. `SaveTracker`, `WebhookRead`, `CallbackRead`, `VerifyRead`, `Batch*`, `GatewayVerify`, `VerifyPayment`, `Claim`, `TimeOut`, `CancelPending`, `Save*`, `Credit`, `CreditRefused`, `ReadEscrow` .. `Transfer`, `Revert`; payment, time and spending by the environment |
| `PlatformWithdrawal` | `totalWithdrawn` of the platform wallet, which is filled by the movements of `Wallet`; `taken`: PlatformWithdrawal documents; `disturbed` | `Create`, `Record`, `Process`, `MarkProcessing`, `Transfer`, `MarkCompleted`, `MarkFailed`, `Refund`, `Cancel`, `RefundCancelled`, `Stop` |
| `Hiring` | `job`, `proposal`: the documents; `contract`: what they read of a proposal's contract; `task` | `job.service.js` with the pre-save hook of `Job` (`Sweep`), `proposal.service.js` with the counter of the job and the index that allows one proposal per freelancer |
| `Moderation` | adds `inactive`: users with `isActive` false; `suspended`: proposals with `suspendedByAdmin` | `HiringRequest` (the requests of `Hiring`, by active users only), `ModerateJob`, `AdminDeleteJob`, `Suspend`, `WithdrawAll`, `Activate`, `BringBack` |
| `Contract` | adds `milestone`, `escrow` (a status for each milestone and for the contract's initial escrow), `paid`, `dispute` | `contract.service.js` and `dispute.service.js`; `SettleEscrow` is what `Escrow`'s other requests do to a status |
| `Subscription` | `sub`: Subscription documents; `user`: plan and subscription of the User document; `txn`: gateway payments; `cron`: the renewal run; `task` | purchase by wallet (`PayPlatform` of `Wallet`) or gateway, callback and time-out, upgrade, downgrade, cancel, reactivate, grant; the run takes one subscription after the other and each of its calls is an action |
| `Breaker` | the abstract circuit: `state`, the callers whose call is in flight, whether the recovery time has passed | `Admit`, `Succeed`, `Fail`, `Reset`, `Restart`, `Recover` |
| `CircuitBreaker` | `state`, `failureCount`, `totalRequests`, and what the two comparisons with the clock say | `Enter`, `Refuse`, `onSuccess`, `onFailure`, `reset`, the passing of time |
| `AiGateway` | `redis`: key -> count and whether it has a time to live; `quota`: a free user's use and window; `task` | `CheckPlanLimit`, `CheckGlobal`, `CheckUser`, `Execute`, `Answered`, `Incr`, `Expire`, `ReadWindow`, `AddUsage`; expiry, resets, `ResetFreeUserAI` of the worker, `Crash` |
| `Campaign` | `campaign`, `log`: EmailCampaign and EmailDeliveryLog documents; `asked`: requests of admins; `run`: the processing that a request started | `UpdateCampaign`, `SendCampaignTest`, `SendCampaign`, `CancelCampaign` and the calls they are made of, `RequestBreaksOff`; `Start`, `FindLogs`, `CheckStatus`, `SendMail`, `SaveLog`, `CountLogs`, `SaveEnd` of `processCampaign`; `Stop`, after which the queue tries again |
| `Messaging` | `message`: Message documents with their readers; `unread`: `Conversation.unreadCount`; `request` | `SendMessage`, `MarkAsRead` and their calls, `AcceptProposal`, `DeleteMessage`, `BreakOff` |
| `Reviews` | `status`, `review`: of each contract; `rating`: of each user; `submission`: requests | `SubmitReview`, `ApproveWork`, `RecalculateRating` and their calls; `ChangeStatus` by the contract's other requests |
| `Identity` | `card`: the `cnic` fields of User documents; `stored`: images at Cloudinary; `handler`: requests; `jobs` | `SubmitCNIC` with upload, roll-back, deletion and save; `ApproveCNIC`, `RejectCNIC`, `RequestReupload`, `RunOCRExtraction` with their calls; `OcrJob`, `BreakOffCard` |

`Contract` extends `Hiring` because their requests change each other's documents
(hiring accepts the proposal, closing closes it).  Its `escrow` has no amounts:
those are `Escrow`'s, on whose properties it relies (funded at most once, frozen
is not released).  `task[w].current` is Mongoose's version check: a save that sets
a field of a milestone is refused when the array was pushed to since the document
was read, a save of the contract's status alone never is.

`Circuit` maps the abstract `calling` to the workers between `Enter` and their
answer, and `recovered` to the comparison with `lastFailureTime`; counting, the
passing of the window and a refused call are stutters.

In `Campaign` nothing keeps two processings of one campaign apart: a second request
that reads `draft` starts another.  In `Reviews` and `Messaging` a request saves a
counter that it computed from what it read, so a property of the counter is stated
of the users whose last change no other request overlapped (`outdated`, `muddled`).
In `Identity` the properties of requests in turn are stated until two requests have
been in flight together (`overlapped`).  A save writes the fields that differ from what the request read
(`SaveEdit`), as Mongoose does, except a submission's, which assigns the whole card.

A suspended client's jobs stay open in `Moderation`: `closeJobsWithMiddleware` saves
`closeReason: 'admin_action'`, which is not in the enum of `Job.js`, so the first save
is refused and the request ends, after the user was saved.

`rows`, `moved`, `sent`, `credits`, `judged`, `disturbed`, `Contract`'s `paid`,
`outdated`, `muddled`, `abandoned`, `overlapped`, `revived` and the history of `Campaign` are history: no guard
reads them except to bound a run (`stops`, `begun`); `rows` is what the Transaction
collection says, the others are not stored.

Operators whose comment begins with *Mutant* are wrong on purpose.  Each is a
mapped definition with a plausible mistake (a filter left out, a total not
recorded), and PROJECT.json names the property of a run that it breaks: they
show that the property can fail.

## 3. Runs

| Run | Question | Instance | Result |
|---|---|---|---|
| `wallet` | Can any sequence of wallet movements overdraw a balance, unbalance a wallet or make money; does the platform's wallet agree with what its admins took? | 2 users, every movement; 2 admins, 2 platform withdrawals | holds |
| `escrow_funding` | May racing requests fund an escrow twice, or an escrow take money without being claimed? | 2 requests at a time; a milestone with 2 documents and a contract-level escrow; crashes, expiry, TTL | holds |
| `escrow_settlement` | Do racing settlements move money outside the wallet's movements, or lose track of what is locked? | 2 requests at a time, 2 escrows of one client; release, refund, freeze, admin release, resolve | holds |
| `escrow_sequential` | Do requests that do not overlap pay an escrow once, and respect a dispute? | 1 request at a time, 3 escrows | holds |
| `withdrawals` | Does money leave without the gateway having been paid; is a withdrawal always closed; after requests in turn, do document, row, wallet and gateway agree? | 2 requests at a time, 1 withdrawal, an escrow on the same wallet, refusing, throwing and silent gateways; or 1 request at a time, 3 withdrawals | holds |
| `deposit_confirmed` | May racing confirmations credit a deposit twice on a claim; may it wait forever; do row and wallet agree? | the scheduled verifier and 1 request, 2 deposits, 1 escrow | holds |
| `hiring_and_cards` | Do the counter, the hook and the tests of jobs and proposals keep them in agreement, also when admins moderate?  Does a card ever refer to images that are gone, are images left over, is a number approved twice? | 1 request at a time, 1 job, 3 proposals of 2 freelancers, one of whom may apply again, at most 2 at a time; without admins, or with them and without views and edits; or 2 requests at a time about one user's card and 2 uploads; or 1 request at a time about 2 users' cards and 3 uploads | holds |
| `engagement_sequential` | Do job, proposal, contract, milestones and disputes stay in agreement through any sequence of requests? | 1 request at a time, 2 milestones, 2 disputes, the hook failing | holds |
| `contract_concurrent` | Whatever races, is a milestone completed, or work begun, without payment? | 2 requests at a time, 1 milestone, 1 dispute; escrows settled by others, crashes | holds |
| `subscription` | Is a period charged once, does it always end, is a paid plan backed? | the hourly run and 1 request at a time, 3 requests in all, 2 plans, 3 subscriptions, 1 gateway payment, 1 crash | holds |
| `ai_gateway` | By how much are limits exceeded, do counters expire, is the provider called while the circuit is open? | 3 requests, 2 at a time, every limit 1, 1 crash | holds |
| `services` | Is each recipient of a campaign mailed once, do the mails stop when it is cancelled, does it end unless its request or its job broke off for good?  Does a conversation's badge agree with its messages, a rating with the reviews? | a campaign of 2 recipients with 2 admins and 1 processing that dies; or a conversation with 2 requests at a time and 2 messages; or 2 contracts that share a user, with 2 requests at a time | holds |

**Bounds.**  Amounts are whole rupees, from 1 to 5 with a minimum fee of 2 in the
escrow runs (1 to 3 and a fee of 1 in `wallet`), so that they lie at and above
the fee; the percentage itself stays under the minimum and the maximum is never
reached in the runs (the proofs are for every fee).  `MaxDeposited` bounds what comes in, and with it all balances: it allows
two escrows, or two withdrawals, of the largest amount.  Identities are finite:
a request for a new document needs an unused one.  Two workers make any race of
two requests; the races of the code are between one request's test and another
request's write, and a third request adds another such pair.  `Operations`
selects the requests of a run, so that the funding and the settlement of escrows
can each be exhausted.  In `subscription` and `ai_gateway` the number of requests
and of crashes is bounded (`MaxRequests`, `MaxCrashes`): three requests are one more
than limits of one and two in flight allow, and three subscriptions are a bought
one, its renewal and a third beside them.  In the runs of `Contract` requests
that only one of the runs needs are left to that run (`MCContractRequests`,
`MCMilestoneRequests`): escrows settled by others and an admin's edit of a
dispute are in `contract_concurrent`, the job's own requests in
`hiring_and_cards`.  `services`, `withdrawals` and
`hiring_and_cards` each choose at the start which of several systems moves, since
these share no state.  In `withdrawals` the workers race for the requests in `Raced`,
and the requests in turn meet a gateway that loses no answer.  In `services` the
bounds are who acts and how often: one admin sends and both edit, test and cancel
(`Senders`, `MaxEdits`), one processing dies (`MaxStops`; a job has 3 `Attempts` in
all, a `Batch` both recipients), one participant writes 2 messages and the other
reads (`Authors`, `Readers`, `MaxMessages`: the second message arrives while the
first is read), one rating is recomputed on request (`Repaired`).  Cards: two
submissions a day instead of three, and each upload is submitted once; requests
that overlap recognise no number, and of requests in turn only those about one of
the two users break off (`Racing`, `InTurn`).  Deadlock is not checked because the identities run out
and the deposits are bounded: the system is then rightly at rest.  Symmetry is
used in runs with safety properties only.

**Fairness.**  `Withdrawal!FairSpec` and `Deposit!FairSpec` assume, for every
worker, weak fairness of the steps of a request that has begun: every database
call and every gateway call returns or throws (gateway calls have a timeout), so
the `await` goes on.  Nothing is assumed of new requests.  In `Deposit` the
scheduled verifier is started again and again (`node-cron`,
`workers/safepayVerifier.worker.js`; it is skipped while the previous run is
active, which is why it is one worker), and time passes.  `Subscription` assumes weak fairness of the hourly run
alone (`workers/subscriptionRenewal.worker.js`, which `node-cron` starts again and
again, and which catches what a single renewal throws): `PeriodsEnd` rests on it.
`CampaignFairness` is weak fairness of the calls of requests that have begun and
of the processings: awaited calls are answered, and the queue's worker takes its
jobs (`workers/email.worker.js`), which `SendingEnds` rests on.  A request may break
off instead of any of its calls (`RequestBreaksOff`): fairness says only that it does
one or the other.
`AiGateway`, `Hiring`, `Contract`, `PlatformWithdrawal`, `Messaging`, `Reviews` and
`Identity` assume none.  No assumption
is made about the gateway: it may refuse forever, which is why `PendingEnds` needs the
time-out.

## 4. What is proved

The proofs hold for every set of users, escrows, withdrawals, deposits, plans,
images and workers, every amount and every fee that meets the modules' ASSUMEs: percentages
between 0 and 100, a minimum fee not above the maximum, amounts positive and
closed downwards (`AmountsAssumption`: a part of an amount is an amount).  Those of
the AI gateway hold for every finite number of requests in flight and any users,
limits and threshold (`GatewayAssumption`, `BreakerAssumption`); those of contracts
for any `HiringAssumption` and `ContractAssumption`, which are about sentinels and
which milestone is whose.  Where a property sums or counts, the set summed over is
finite: the users (`UsersAssumption`), the escrows (`EscrowAssumption`), the
withdrawals (`WithdrawalAssumption`), the platform's (`PlatformAssumption`), the
proposals (`HiringAssumption`), a campaign's recipients (`CampaignAssumption`).
There is a user, and plans cost amounts (`SubscriptionAssumption`).  A conversation has two participants
(`MessagingAssumption`), as `getOtherParticipant` takes it to have.

* `SumTheorems`.  What a sum over a finite set is when the set is empty, when every
  summand is zero and when one summand changes (`SumChange`).  The fold is a
  recursive function, and the library's induction takes an operator, so the
  induction is written out by a smallest counterexample: of the sets that break the
  equation the one with the fewest elements loses an element and still breaks it.
* `WalletProofs`.  `WalletInv` (types and `WalletBalanced`) is inductive: each
  movement is refused by the balance it lowers, and a release pays a net that
  `CanRelease` requires to be positive.  `MoneyConserved` is inductive with the
  types: each movement changes one user's part of both sums and the platform's
  balance by amounts that cancel.  `CreatableAmounts` is about the fee alone:
  `createEscrow` accepts an amount exactly when it covers the minimum fee.
* `EscrowProofs`.  `IInv` joins the types, `WalletBalanced` and `FundingInv`.
  The types need to know what each request remembers at each of its points
  (`TaskOK`), since an amount read earlier is what is moved later.  `FundingInv`
  is needed because the claim and the transfer are two steps: a request between
  them holds the escrow alone, the document is no longer CREATED, and nothing
  has been transferred.  `FundedAtMostOnce` follows for each step.
  `LockedIsExplained` needs only the types: what a step locks or unlocks it books on
  the rows of one escrow of that client (`Locks`), and every other step does neither.
  The three theorems of requests in turn assume `Sequential(w0)`: `w0` is the only
  worker, and `Operations` are those of clients and the expiry, without `crash`,
  which is the configuration of `escrow_sequential`.  Overlapping requests refute
  them (section 6).  `SequentialInv` says what the worker may find stored at each of
  its points (`ExpectedStatuses`), that whoever is about to pay carries the escrow's
  amount and nothing was paid before, and that an escrow neither settled nor
  about to be saved as such has paid nothing.
* `WithdrawalProofs`.  Types and the implementation of `Wallet`; a request is
  worked on only once it is stored.  `ReleasedWasSent` is not inductive: a worker
  the gateway has paid for has yet to release.  `ReleaseInv` counts those workers
  (`Carrying`): what was released and what each of them carries was sent.
  For requests in turn, `SettledOneByOne` assumes `InTurn(w)` of every step: only `w` is
  ever at work, the gateway's answer is not lost, and nothing else locks or
  overlaps; `RequestsSettleInTurn` applies it to `MCSpec`, so it states what the run
  checks.  `TurnInv` says what document, row, wallet and gateway say of the
  withdrawal in hand at each point (`PointEntry`), and of every other one
  (`SettledEntry`).  That a withdrawal whose release is refused cannot arise needs all
  withdrawals of its owner: the locked balance is the sum of what they hold
  (`AllHeld`), so it is never short of what the one in hand has locked.
* `DepositProofs`.  `CreditInv` joins the types, `ClaimInv` and `PaidInv`.
  `ClaimedOnce` alone is not inductive: between the claim and the credit nothing
  has been credited yet, so `ClaimInv` adds that the request there is alone, and
  that a deposit credited or being credited is not open, on which the filter
  `status: 'PENDING'` rests.  `PaidInv` is about the verifier alone:
  it adds to `VerifierCreditsPaid` that a batch past the gateway's answer
  (`PastGateway`) works on a deposit that was paid.  Of the other confirmations
  nothing of the kind is true (`CreditedWasPaid`, section 6).  `verifyDeposit`
  saves its status whatever the row is by then, but never PENDING, which is all
  that `ClaimInv` needs of it.  `RowAndWalletAgree` needs `AgreesInv`: a row that
  says SUCCESS is credited or has a request that is about to credit it, and only a
  deposit made for an escrow is reverted.
* `ServicesProofs`, in five parts that do not depend on each other.
  *Campaigns*: `CancelInv` says that once `cancelled` replaced `sending` the sole
  sender's processing is over or reads `cancelled` before its next mail; that there
  is one sender, and where he is, is `SendersInv`.  A request that breaks off leaves
  logs of which some are missing and a processing that never starts, of which neither
  asks more.  For `MailedOnce`, `SoleSender`
  relates the logs to the mails: `MailedBy` are the recipients whose mail a log
  accounts for, saved or about to be, and each mail beyond them was sent by a
  processing that stopped before it saved its log.
  *Messages*: neither half of `BadgeAgrees` is inductive, since a request writes a
  counter it computed from an earlier read.  `CountsBounded` adds that a sender who
  has yet to write has his message counted already; `WritersKnown` that a request
  that is `alone` is the only one for its counter, so that what it read still holds
  when it writes (`BadgeRight`, `ReadingRight`).
  *Reviews*: `ReviewsInv` argues the same way, and about any aggregate: the result
  a request alone holds is right, and the rating is unless one is about to compute it.
  *Identity cards*: `ImagesKept` alone is not inductive: that a request deletes
  nothing another card
  refers to needs `CardInv`, by which an upload is one request's until its document
  is saved (`UploadsOwned`), is complete by then (`UploadsStored`), and is never
  referred to by another user's card (`CardsOwned`, `HandlersOwned`).  The steps are
  of four kinds (`BeginningKeeps`, `MovingKeeps`, `SavingKeeps`, `EndingKeeps`).
  Until two requests have been in flight together, `NoImageIsLeftInTurn` and
  `OneUserPerCardInTurn` hold of any number of users and uploads, whatever breaks
  off or fails.  `TurnInv` adds what the request in flight has read that still holds
  when it saves (`SeenRight`: the images it replaces are the document's, the number
  it approves is on no other card), and that images are deleted or given up before
  a save drops them from the document (`StoredRight`, `Gone`).  A recognition's job
  may run in between: it changes neither images nor number.
  *AI gateway*: every step is first reduced to what it does to the counters
  (`RequestEffect`, `Stops`, `Lowers`).  `GatewayPoints` says what is known of a request
  at each point; with the types it is inductive.  `OveruseIsBounded` then counts
  the requests that are past a limit and not yet counted (`Toward`, `Drawing`):
  counter plus requests is at most the limit plus the requests in flight less
  one, since a step brings none of them, or brings one while the counter is
  below the limit, or adds to the counter and takes one away (`Moved`, `Tally`).
  The bare bound is not inductive: a counter at it may yet be incremented.
  `LimitsEnd` is inductive with `GatewayPoints`, by which a request whose keys are
  about to be incremented has none left to expire.  `BreakerImplemented` is the
  refinement `Spec => BreakerSpec`, action by action.
* `ContractProofs`.  `CompletedIsPaid` and `StartedIsFunded`, for any number of
  overlapping requests, proposals, milestones and disputes.  Neither is inductive:
  a request writes "completed" or starts work many calls after it read what
  justifies it.  `Inv` therefore adds what each request carries (`RequestInv`,
  `PointInv`: which operation can be where, and what it is about to save) and why
  that is still justified (`Justified`), by facts no step takes back (`Grows`): a
  funded contract stays funded, what is paid stays paid, a dispute stays on its
  contract.  `MoneyInv` and `WorkInv` say the same of the documents.  `Keeps`
  reduces a step to what its own request becomes; then one lemma per action.
  `OneInProgressInTurn`, `DisputedInTurn` and `DocumentsFollowInTurn` assume
  `Sequential(w)`: `w` is the only worker, requests are not cut short and no admin
  sets a dispute's status by hand.  The code does not guard against these: a request
  saves its documents one by one, and `updateDispute` saves only the dispute.  `TurnInv` has two parts: `Carries`, that
  what the request in turn has read is still what the documents say, and
  `EngagedInv`, that the documents agree but for what this request is about to
  write.  The first is lost as soon as a second request runs, which is why no
  property of documents that agree is proved of overlapping requests.
  Jobs, proposals and moderation: `NoOrphanProposal` and `CountIsLive` assume one worker
  and no failing sweep (`sweepFails`), as `hiring_and_cards` has them; in the proofs
  admins moderate while proposals are viewed and edited, which the run keeps apart.
  `ModerationInv` joins the types, what the request in flight still finds when it saves
  (`Finds`), and `BooksOK`: the job's counter is the number of its proposals that count,
  but for the step up or down that the request still owes (`Owed`).  What a suspension
  withdrew counts as well, since an activation brings it back (`BearingOn`, `HaltedOK`),
  and so its client cannot delete the job meanwhile.
* `PlatformProofs`, in two parts.  *Subscriptions*: `RenewedOnce`, `PaidIsActivated`
  and `PlanIsBacked`, for any number of users, plans, requests and crashes.  `Inv`
  says what the hourly run has on its list and in hand (`CronInv`), that what was
  renewed is expired and off the list (`RenewInv`), and that a claimed payment has its
  subscription or a request about to create it (`PaidInv`); it is kept because each
  step leaves a document as it was, ages it or creates it (`Evolves`).  `PlanIsBacked`
  needs `NoRace`: one request at a time beside the run, as in `subscription`, or no
  grants by an admin.  A grant expires the user's other plans before it names its
  own, so a grant that overlaps another request can expire what that one has just
  given him.  `BackedInv` then names who is about to write the user.
  *The platform's wallet*: `PlatformReconciles` adds up the documents.  `PlatformInv` says that
  `totalWithdrawn` is the sum of what the documents stand for (`StillOut`), counting those
  that a request is about to refund, as long as no document was disturbed: had two
  requests, or one that stopped.  `NeverOverdrawn` holds also then, since the filter
  of the update tests the balance; it is about `totalWithdrawn`, not about what the
  gateway has transferred (`CancelledIsNotProcessed`, section 6).
* `EscrowImplementsWallet`, `WithdrawalImplementsWallet` and
  `DepositImplementsWallet` state `Spec => WalletSpec`.

`FundingInv` (`ClaimsAreExclusive`), `VerifierCreditsPaid` (`VerifierCreditsOnlyPaid`), the types of `Escrow`,
`Withdrawal`, `Deposit`, `Subscription`, `AiGateway`, `Identity` and `Contract`, that
subscriptions keep wallets balanced, `NeverOverdrawn`, and the refinement of `Wallet`
by `Deposit` are proved and no run lists them.

The proofs found two mistakes in the model that the runs had not.  One TLC cannot
see: the alternatives of the
CASE in `EndStatus` of `Campaign` overlapped.  TLC takes the first that holds, as the
code's `if ... else if` does; in TLA+ the choice is arbitrary, and `MailedOnce`
did not follow.  Every CASE of the project now has disjoint guards.
The other: bulleted conjunctions before `=>` made `OneInProgress` claim that any two
milestones are of one proposal, which holds in a run of one proposal.  It and
`OneUnderWay` now say what they mean.

**Only model-checked.**  Liveness is out of the prover's reach (`ProcessingEnds`,
`PendingEnds`, `PeriodsEnd`, `SendingEnds`), as are ENABLED and RECURSIVE operators
(none is used).  Every other property of a run is stated by a theorem, under the
hypotheses given above.

## 5. What is left out

* Validation of input, authorisation, formatting, logs, notifications and the
  statistics that nothing reads back.
* In `Escrow`, reads of contracts and milestones: their outcome is
  nondeterministic where it decides which way a request goes.  `Contract` keeps
  the statuses.  Edits of a milestone's amount and of its data
  (`updateMilestone`) are out of scope.
* `Hiring`: searches, saved jobs, statistics, and `activeProposalsCount` of the
  user, which is only displayed; `completeJob` has no caller.
* `Subscription`: the billing cycle (it selects a price and a length), invoices,
  reminders and metrics.
* `AiGateway`: the limiter that counts in memory when Redis is not configured, the
  cache of answers, paid users' usage (it has no window), the prompts.
* `Campaign`: one campaign, whose audience is fixed and which starts as a draft;
  lists, previews and the texts.
* `Messaging`: one conversation; its last message, pins, mutes, archives and
  deletion, which change single fields, and the sockets, which repeat what was saved.
* `Reviews`: texts and flags.
* `Identity`: the fields of a card other than its number; what the recognition reads
  in an image is chosen freely.  When it reads a number, the job's update sets
  `cnic.ocrData` and a field below it, which MongoDB refuses.
* An admin release to a user other than the freelancer (`toUserId`), and the
  status field of wallets (a suspended wallet).
* `Withdrawal`: account details; the day of the daily limit is one day.
* `Deposit`: all deposits are Safepay's and of one owner; `cancelSafepayPending`
  takes any pending deposit rather than the most recent; the batch takes all
  pending deposits rather than the 50 oldest (which the next runs would reach,
  since the oldest are timed out first).
  A webhook is believed, since its signature is tested only when it has one and
  binds in production only.  A callback asks about the tracker in the request,
  which is the row's own when the row was found by it; found by its order id, the
  tracker may be that of a deposit that is no longer pending, or unknown.
  `verifyDeposit` answers by the data it is given, amount included.
  A verifier that read a row before its tracker was saved may be answered PAID
  when the client has paid by then; the code asks about the order id and is not.
  The mock gateway's callback exists in testing mode only.
* The gateways are external: their answers (success, refusal, exception, a lost
  answer) are chosen freely, except that a session that the server asks about
  is PAID only after the client has paid.
* Components that PROJECT.json lists as not modelled.

## 6. Where the code and its comments disagree

The code does not do what each of these definitions says.  They stand in the
modules, after the properties, with the comment or message they are taken from,
and no run lists them.  To see a counterexample, replace the properties of the
configuration by the definition, an INVARIANT unless it says otherwise, and
FairSpec by Spec where it says so.

| Definition | Configuration | What happens |
|---|---|---|
| `ReleasedOnce` | `EscrowSettlement.cfg` | Two releases that both read LOCKED both pay, the second with the money of the client's other escrow. |
| `PaidDisputeIsClosed` | `EscrowSettlement.cfg` | Resolving for the freelancer pays, then `Escrow.release()` throws on DISPUTED, so the dispute can be resolved and paid again. |
| `OnlyUnfundedIsCleanedUp` | `EscrowFunding.cfg` | The document is removed by the TTL index between the transfer and the save that clears `expiresAt`: its money stays locked. |
| `FundedHoldsItsAmount` | `EscrowSequential.cfg` | `fundEscrow` claims before it transfers; when the balance is short the escrow stays FUNDED and empty. |
| `OneEscrowPerMilestone` | `EscrowFunding.cfg` | `createEscrow` looks and then inserts, and no index is unique: two requests insert two. |
| `SplitPaysTheShare` (a PROPERTY) | `EscrowSettlement.cfg` | A share of 0% selects the whole amount (`partialAmount \|\| escrow.amount`). |
| `UnlockedIsNotPaid` | `Withdrawals.cfg` | A withdrawal is cancelled while the gateway pays it. |
| `PaidOnce` | `Withdrawals.cfg` | Two admins that both read REQUESTED both pay. |
| `PaidWasLocked` | `Withdrawals.cfg` | A document whose lock was refused is still REQUESTED and can be paid. |
| `WithinDailyLimit` | `Withdrawals.cfg`, `Raced = {1, 2}` | The day's total is read before the insert. |
| `CreditedWasPaid` | `DepositConfirmed.cfg` | Webhook and `verifyDeposit` believe what they are told, and a callback that names an order id may be answered for another session. |
| `CreditedOnceInAll` | `DepositConfirmed.cfg` | `verifyDeposit` saves without a claim: it credits a deposit that a webhook has credited meanwhile. |
| `FailedIsNotCredited` | `DepositConfirmed.cfg` | The reversal of a deposit whose escrow cannot be funded has a type the Transaction model refuses: the row is FAILED, the wallet stays credited. |
| `ActiveProposalsKeepTheJob` | `HiringCards.cfg`, `Workers = {w1, w2}` | A job is deleted while a proposal is sent; or one proposal withdrawn twice leaves the counter too low. |
| `ActiveProposalsKeepTheJobFromAdmins` | `HiringCards.cfg` | An admin's `deleteJob` counts and deletes proposals by a field they do not have: it removes any job and leaves its proposals. |
| `SuspendedClientHasNoOpenJob` | `HiringCards.cfg` | The cascade closes no job: its `closeReason` is not in the model's list and the save is refused. |
| `ClosedHasNoPending` | `HiringCards.cfg` | A proposal that a suspension withdrew comes back as pending on a job that was closed meanwhile. |
| `ActiveWasFunded` | `EngagementSequential.cfg` | A dispute on a pending contract, once closed, makes it active and unpaid. |
| `OneUnderWay` | `EngagementSequential.cfg` | A milestone whose revision was requested is submitted while another is in progress. |
| `CancelledIsNotProcessed` | `MCWallet.cfg` | A cancellation reads PENDING, another admin begins to process, both go through. |
| `OneActive` | `Subscription.cfg` | A plan is bought while another is past due, or while a gateway payment is open. |
| `ActiveKeepsThePlan` | `Subscription.cfg` | An older subscription expires and sets the user free, whatever is active. |
| `CountersAlwaysExpire` | `AiGateway.cfg` | The server stops between INCR and EXPIRE: the hour of that counter never ends. |
| `QuotaLastsTheWeek` (a PROPERTY) | `AiGateway.cfg` | `resetFreeUserAI` takes the start of the window for its end and resets at the next hour. |
| `SentOnce` | `Services.cfg`, `Senders = {a1, a2}` | Two admins that both read `draft` both send: each deletes the other's logs and starts a job. |
| `TestedIsSent` (a PROPERTY) | `Services.cfg` | Nothing resets `testSent`: the test of an earlier text allows a text that was edited since to be sent. |
| `EverySendingEnds` (a PROPERTY) | `Services.cfg` | The request throws, or the server stops, after 'sending' was saved and before the job was added; or the job uses up its tries. |
| `CancelledStays` (a PROPERTY) | `Services.cfg` | The processing ends and saves `sent` over `cancelled`. |
| `UnreadIsCounted` | `Services.cfg` | Two messages at once are counted once; the message of an accepted proposal is not counted. |
| `ReviewIsImmutable` (a PROPERTY) | `Services.cfg`, `client \|-> {4, 5}` in `MCRatings` | Two submissions of one party both find no review and both save theirs. |
| `ReviewsAreRated` | `Services.cfg` | The rating is recomputed before the contract with the approval's review is saved. |
| `DecisionStands` (a PROPERTY) | `HiringCards.cfg` | The recognition's job finishes after the admin has approved, and sets `ocr_failed`. |

Noticed while reading, and not stated as properties: the monthly reset of
subscriptions' usage never resets anything, because `usageResetAt` is never before
`currentPeriodStart`; a card with a status of the recognition's job, which the User
model does not list, fails the validation of every later save that leaves it; the cache key of AI answers keeps the first 50 characters of
an encoding, so different requests may share it; a fallback is cached, and counted
against the quota, like an answer; a Redis error lets a request through uncounted;
closing a job rejects its proposals without lowering the freelancers' counter of
active proposals.

`verifyDeposit` (`payment.service.js:162`) credits after a `save` that no filter
guards: a deposit can be credited by it and by a claim, and its FAILED can
overwrite a SUCCESS.  `ClaimedOnce` and `StatusAgrees` are therefore about claims,
and about deposits it has not touched; `credits[d].verified` counts the rest.

## 7. Not modelled, and what would come next

Authentication's questions are of secrecy and not of interleaving: each code or
token is used by its owner, in one request.  The rest of the repository - notifications, e-mail texts,
validation schemas, controllers that pass parameters on, user pages, uploads,
administration's lists and reports, the front of the payment gateways - updates
single documents or formats output, and has no state a model could relate to
another.  That, and the queries and texts inside the modelled services, is most
of the source lines, which is why the share of lines that are modelled stays
small although the state-changing requests of the components above are.

What could be proved further: `PlanIsBacked` with a grant that overlaps requests of
other users only, and the properties of requests in turn for requests about
different documents.
