# TLA+ models of the OberynHost storefront backend

OberynHost sells game servers. A customer opens a Stripe checkout, which reserves
a slot of a fixed inventory; Stripe's webhooks make the purchase paid; the
customer fills in a setup form; a worker creates the server on the Pelican panel;
an operator verifies the routing and releases the server; from then on Stripe's
billing events and a clock decide whether the service stays, is suspended or is
put up for removal.

All of this is one Node process (`src/apps/storefront/backend`) with one SQLite
connection. Nothing runs in parallel, but every `await` lets another handler run.

## Inventory

| Component | State | Operations | Hard because |
|---|---|---|---|
| Lifecycle derivation (`services/lifecycle.js`, `policyRules.js`) | none; projects a purchase row onto four status columns | `mergeLifecycleState` before every save | a derived column is written back and is an input of the next derivation |
| Checkout (`routes/api/checkout.js`) | `purchases`, `servers.status`, Stripe session | create, resume, clean up after failure | slot claim against Stripe call; clean-up after a rollback |
| Stripe handlers (`middleware/stripeWebhook.js`, `services/purchases.js`) | purchase runtime columns, slot | completed, expired, invoice paid / failed, subscription changed; success page and reconcile do the same | lost, repeated, reordered events; read, await, save without a transaction |
| Setup (`routes/api/setup.js`) | setup columns, staged password, host and user name claims, queue row | status, submit, recover a paid session | uniqueness of names; one submission |
| Fulfillment queue and worker (`services/fulfillmentQueue.js`, `workers/fulfillmentWorker.js`) | queue row, lease columns of the purchase, job in memory | enqueue, lease, retry, review, dead letter, complete | leases, crash, lost answers, retries |
| Pelican provisioner (`services/pelicanProvisioner.js`) | the panel | look up by external id, create user, choose allocation, create server | the create request is not idempotent by itself |
| Operator routes (`routes/api/admin.js`) | all of the above | requeue, reopen, verify, release, free edit, reconcile, links, buckets | recovery while a job runs |
| Lifecycle enforcement (`services/lifecycleEnforcement.js`) | clock stamps of a purchase | reminder, escalation, suspension, warnings, purge review | deadlines against late payments |
| E-mail outbox (`services/emailOutbox.js`, `emailProvider.js`) | outbox rows, provider | enqueue, lease, sent, failed, recover | one row per key, lost answers, no needless second copy |
| Service access links (`services/serviceAccessLinks.js`) | link rows | create when a mail is sent, renew with a period, rotate, revoke | mailed links against renewal, rotation, revocation |
| Pelican identities (`services/pelicanIdentities.js`, `hostnames.js`) | link of a customer to a panel user, names and host names of pending purchases, allocations | claim at setup, reuse or create at provisioning, record at completion | the panel decides late and under its own name |
| Shared connection (`db/index.js`, `db/transactions.js`) | one open transaction | begin, commit, roll back | modules without a common lock |
| Catalog (`services/catalog.js`, routes of `admin.js`) | plan, product, bucket, node group, target, slots | save a plan, change a bucket or a target, seed at start-up | six upserts without a transaction, counts that are old when used |
| Support tickets (`services/supportTickets.js`, `routes/api/support.js`, `adminSupport.js`) | tickets, snapshots, events, mails | open, answer, change status or classification | rows of other requests in the same transaction |
| Waitlist, sessions, rate limits, configuration | small tables and maps | mostly reads and validation | little |

The components meet in the tables `purchases` and `servers`. `purchases.status`
belongs to the Stripe handlers, the fulfillment columns to the worker,
`servers.status` to whoever holds the slot; the admin's free edit may write all
three. `PROJECT.json` lists the hazards at their lines.

## Modules

| Module | Models | Against the code |
|---|---|---|
| `LifecycleState` | status vocabulary, the derivation functions, policy deadlines | one operator per function; a time stamp only tested for presence is a Boolean |
| `FulfillmentQueue` | the provisioning pipeline: queue, leases, worker, panel, operator recovery, crash and restart | one action per transaction or Pelican request; variables are the columns named in its comments |
| `ProvisioningContract` | the promise of the pipeline, per purchase, without leases, lookups and crashes | the plan's minimal worker contract |
| `FulfillmentQueueProofs` | theorems about `FulfillmentQueue` | |
| `SlotInventory` | the claim on a slot: slot status, purchase status, subscription at Stripe, and the Stripe handlers step by step | one action per statement between awaits |
| `EmailOutbox` | outbox rows, their leases, the worker's e-mail lane, the provider | one action per statement, lease transaction or provider request |
| `DeliveryPromise` | what the outbox promises for a message, without leases and lost answers | the outcomes of `emailOutbox.js` |
| `EmailOutboxProofs` | theorems about `EmailOutbox` | |
| `LifecycleEnforcement` | the deadlines: clock, reminder, escalation, grace, suspension, warnings, purge review, hard flag, and the handlers that move the clocks | one action per stage of the lifecycle lane, per webhook event, per route |
| `ServiceAccessLinks` | the private links of a purchase: rows, mails that carry them, billing periods, rotation and revocation | one action per statement of the worker and of a webhook; a route is one step |
| `PanelIdentity` | who a customer is on the panel, and what a purchase claims: user name, host name, allocation | one action per handler and per request to the panel |
| `SharedConnection` | the one SQLite connection: its content, what a rollback would restore, whose transaction is open and whose statements are in it | `runQuery`, `rollbackTransaction`; the rules of SQLite are external |
| `BackOffice` | support desk, catalog and the creation of a checkout as requests on `SharedConnection` | one action per statement that writes, and per read that is used later |
| `SlotInventoryProofs`, `LifecycleEnforcementProofs`, `ServiceAccessLinksProofs`, `PanelIdentityProofs`, `BackOfficeProofs` | theorems about the module each is named after | |
| `ExtremaLemmas` | lemmas about least and greatest elements, for `ORDER BY .. LIMIT 1` | |
| `MCFulfillmentQueue`, `MCSlotInventory`, `MCEmailOutbox`, `MCLifecycleEnforcement`, `MCServiceAccessLinks`, `MCPanelIdentity`, `MCBackOffice` | symmetry and small constants for TLC | |

In `FulfillmentQueue` a purchase has its columns (`status`, `fulfillment`,
`lease`, ...), its queue row (`jobState`, `jobKey`, `attempts`, `due`), and the
panel the number of servers that carry its external id (`panel`). The setup is two
columns: `named`, the server name, by which the code tells whether there was a
submission and which the free edit may clear or fill, and `filled`, the rest, which only
a submission writes and only a reopening clears. The free edit writes status, slot and
name in one step, whatever the job is doing; a customer whose name was cleared may submit
again. A worker is a
run of `runFulfillmentWorkerIteration`; `pc` is what it does next. The process
runs one at a time, but the lease code is written for several, so the safety run
has two. Time is two actions, `LeaseRunsOut` and `RetryFallsDue`. `Restart` clears
the memory of the workers, leaves a request in flight behind (`inFlight`), and
derives the status columns again as `db/init.js` does. `pelicanRequest` sets no limit of
time and sends no key with a create request. When `fetch` gives up or a proxy answers 504, the
attempt has failed for the moment and is retried, and the panel may still make the server:
`CreateUnanswered` puts the request among those in flight and counts it (`unanswered`),
and `LateCreateLands` lets it take effect at any later time, or never.

In `SlotInventory` a handler has a program counter (`step`) and remembers the row
it has read (`job.seen`), so that lost updates happen as in the code. Stripe is
external: it changes its mind and sends events to `mail`. A webhook handler that
succeeds takes its event away; the redelivery of a handled event, reordering and
the rest are *kinds of trouble*, each counted in the variable `trouble`.

In `EmailOutbox` a message is an idempotency key and its row; `none` is the state
before the row exists. An iteration selects the expired leases (`BeginIteration`),
asks the provider about each (`Reconcile`), updates the row (`Recover`), leases
one message (`Lease`), sends it (`Send`) and marks the row (`MarkSent`,
`MarkFailed`). A lease key is a number that is never used twice, as the opaque
token of the code. `accepted` is the set of leases under which the provider took the
message; `orphan` are the leases whose request outlived its process. A provider's
error says nothing about whether the message arrived.

In `LifecycleEnforcement` the clock `now` counts days and stamps are days; the
periods are constants (7 and 30 days, 1 and 3 days, windows of 1, 2 and 3 days in the
code). `row` has the columns the lane reads; `reminded`, `warned`, `escalated` and
`reviewed` are the rows of the outbox and the audit log by which the worker knows what
it has done. `WorkerStep` is one iteration: five queries in the order of
`runLifecycleWorkerIteration`, each guarded by the earlier ones being empty. `truth` and
`unpaidSince` are Stripe's own knowledge, `mail` its events not yet handled. A new day
comes when the worker has caught up and the mail is empty; otherwise it is an *outage*,
one of the kinds of trouble. The slot is the purchase's own: competition for slots is
the subject of `SlotInventory`.

In `ServiceAccessLinks` a token is the place of its link in the table, and the clock
counts days. The worker reads the purchase (`period`), inserts the link (`link`) and
hands the mail over; a webhook saves the purchase and looks after the links in a second
step (`unsynced`). `inbox` is what the customer has received.

In `PanelIdentity` a panel user is named by the customer who owns it, so that
`account[p] # Owner[p]` would be somebody else's. `username` is the name the setup asked
for and later the panel's; `panelUser` is the panel's. The worker works with the purchase as
it was when the job was leased (`seen`) and collects the panel's answers in `result`;
handlers run between its requests. `allocation` is what a purchase records, `server`
what the panel has.

In `SharedConnection` a transaction belongs to the connection. `Writes(r, new)` is a part of
whatever is open, `Commits` and `RollsBack` end whatever is open, and `Begins` is enabled
only outside (`BeginFails`). `kept` is what a rollback brings back, and `writers` are the
requests whose statements it takes along. `BackOffice` is built on these operators:
`pc[r]` is the next statement of request `r`, `input[r]` what it asks for, `seen[r]` a count
it has read. A ticket's id is its place in the sequence, so an id that is rolled back
is given out again, as `AUTOINCREMENT` does; the foreign keys are `TicketExists`. A row is named by
the request it comes from.

## Runs

| Run | Shows | Bounds |
|---|---|---|
| `fulfillment_safety` | type correctness, exclusive leases, bounded retries, ready only when linked and verified | 2 purchases (one of a repeat customer), 1 slot, 2 workers, 1 retry, 1 recovery, 1 fault, no free edit, every request answered |
| `fulfillment_progress` | each server beyond the first is owed to a create request without an answer; linkage with the end of the job and without a staged password; a job keeps its setup; refinement of the contract; without a fault every job settles | 1 purchase, 1 slot, 2 workers, 1 retry, 1 recovery, 1 fault, 2 free edits, 2 unanswered requests |
| `fulfillment_crash` (violation) | one fault is enough for a job to stay leased for ever | 1 purchase |
| `fulfillment_cancelled` (violation) | a purchase cancelled during its attempt is activated all the same | 2 purchases, 1 slot |
| `inventory_safety` | no shared slot, no oversell, no leak, suspension agrees with the slot, purchase follows Stripe and moves forward only | 3 purchases, 1 slot, 2 handlers, 3 waiting events, one trouble of any kind |
| `inventory_redelivery` (violation) | one repeated event and two customers share a slot | 3 purchases, 1 handler |
| `email_safety` | bounded copies, one sender at a time, sent means accepted, a row closed by the recovery stays closed, refinement of the promise, every message is sent or uses up its attempts | 2 messages, 2 workers, 2 attempts, recovery of 1 row at a time, 1 fault |
| `lifecycle_safety` | nobody is suspended, reviewed or flagged too early; the unpaid are suspended; payment restores the service; warnings before review; reminder before escalation | 2 purchases, grace 1 day, retention 3, warnings 1 and 2 days before, delays 1 and 2, 2 changes at Stripe, 6 days, one trouble of any kind |
| `lifecycle_grace` (violation) | a failed retry of the invoice starts the grace period again | 1 purchase, retries as the only trouble |
| `links_safety` | a served customer ends with a link that works; dead links stay dead | 5 days with periods of 2, 3 links, one other mail, one trouble of any kind |
| `identity_safety` | own panel user, exclusive host names and allocations, one name per customer, the mailed name is the panel's | 3 purchases of 2 customers, 2 names, host names and allocations, two kinds of trouble |
| `backoffice_safety` | every transaction ends, answered requests are kept and refused ones leave nothing, the catalog agrees with the slots | any 3 of 2 tickets, an answer, a save, a bucket change, a target change and a checkout; 2 plans; one kind of trouble |

Why the bounds are enough. One slot makes every two customers competitors; a
third customer is needed for a slot to be sold, freed by mistake and sold again.
Two workers show every race on a lease; the code runs one iteration at a time, so two are more than it needs. `MaxAutoRetries` is 1 as in the code. One
fault reaches each crash point once; the theorems lift this bound. A purchase has at
most one worker at a time, so what unanswered requests, edits and recoveries do to it is
seen on one purchase (`fulfillment_progress`): two unanswered requests are one for each
attempt, or one on each side of a recovery or a crash, and two edits take the name away and
bring something back. The safety of leases and release is about several purchases
(`fulfillment_safety`). In
`SlotInventory` two handlers are the least that overlap, and three events are a
pair that Stripe sends at once on top of one left over (which is what *lag* means).
Reordering alone swaps the events of such a pair. In `EmailOutbox` two attempts,
the code's default (`emailOutbox.js:49`), tell a row with attempts left from one without,
a recovery limit of 1 makes two expired rows exceed it, and one fault is a crash
or a failing statement at any point; the theorems lift these bounds too. In
`LifecycleEnforcement` two purchases compete for an iteration and one may crowd the other out of the query
for warnings (`WarningLimit` 1 for the code's 25); six days are a sale, a failed
renewal, the grace period and the retention with a day to spare, and two changes are a
failure and what follows it. The windows lie within the retention and the order of the
delays is that of the code, which is all `EnforcementConstants` asks. In
`ServiceAccessLinks` two renewals fit into five days, so that a link, its successor and a mail
prepared for either can exist together; the stand-in period (3 days for the code's 30) is longer
than Stripe's (2), as it is for February. In `PanelIdentity` the customer with two purchases has one of the two
names already when the other customer asks for it, and two kinds of trouble are the least for a lost answer
*and* a reopened setup. In `BackOffice` three requests are a transaction, another request within it,
and a third that sees or suffers the result.

### What the slot properties withstand

Every property of `inventory_safety` says after which single trouble it still
holds (`OnlyOneOf`). TLC finds a counterexample for each kind not listed. No claim is made
for two kinds together: some pairs break what each alone does not. The theorems say more in some cases: `MovesForward` holds after any
mixture of the kinds listed, `FollowsStripe` after any mixture without lag (`FollowsAfterAll`), and the
properties in the two tables below again after any mixture.

| Property | Holds after one |
|---|---|
| `NoSharedSlot` | reorder, overlap, crash, visit |
| `EverySlotIsOwned` | anything but crash, failure, override |
| `HeldWhileSuspended` | reorder |
| `FollowsStripe` | lag, reorder, repeat, overlap, crash |
| `MovesForward` | anything but overlap (the free edit itself may do anything) |

`lifecycle_safety` does the same for trouble with the clocks. Again every kind not
listed breaks the property.

| Property | Holds after one |
|---|---|
| `NothingBeforeItsTime` | lag, retry, outage, crowd, visit, unpaid |
| `UnpaidIsSuspended` | crowd, edit |
| `PaymentRestores` | retry, outage, crowd |
| `DeletionIsAnnounced` | lag, repeat, retry, visit, unpaid |
| `EscalationFollowsReminder` | anything but outage |

What breaks them, in words. *repeat*: a redelivered `invoice.payment_failed` starts a
grace period for a customer who has paid since. *visit*: `markPurchasePaid` clears
delinquency and suspension whatever the subscription owes, and leaves the slot held.
*lag*: an `invoice.paid` that is handled after the next failure sees a past-due
subscription, clears the suspension and leaves the slot held. *outage*: the worker
takes only the most urgent warning and skips the reminder after the escalation delay.
*crowd*: the 25 longest suspended services fill the query for warnings even when they
have been warned. *unpaid*: it counts as terminal, so nothing suspends the service, and its slot
is freed. Warnings and reviews are remembered for a purchase and not for
a suspension, so the second suspension of a service is never put up for review
(`lifecycleEnforcement.js:240`).

The three newer modules do the same.

| Property | Holds after |
|---|---|
| `CustomerKeepsAccess` | rotate, late, failure of a mail that is sent again, close; not when the admin revokes a link by hand, a mail is given up, or its key of the day was used up |
| `DeadStaysDead` | anything |
| `OwnAccount` | any two kinds |
| `ClaimsAreExclusive` | any two kinds; for allocations, any but the edit |
| `OneNameOneCustomer` | lost, removed |
| `MailedLoginWorks` | anything but the edit, and lost together with reopen or ends |
| `EveryTransactionEnds` | anything |
| `AnsweredIsKept` | crash, double |
| `CatalogAgrees` | crash |

*used-up key*: the mails of a rotation have one key a day (`emailOutbox.js:65`), so a rotation
on the day of another link mail revokes the link and sends none. *lost and reopen or ends*: a server
that was made without an answer keeps the panel user of the customer's first setup, and when that
setup was given up (reopened, or its subscription ended) `LookupServer`
takes the name of the second for the panel's. That an ended subscription does it too, the run cannot
show: it takes a third kind of trouble (the server removed by the operator), and it was
the proof that asked for it. *mixed*: two requests meet in one
transaction. A checkout keeps its transaction open during the request to Stripe
(`checkout.js:433`). What other requests write meanwhile is answered with success and undone when
Stripe fails; a `BEGIN` meanwhile fails, and the `ROLLBACK` that follows it ends the
checkout's transaction. A ticket whose transaction is ended so can even
leave its snapshot under the id of the next ticket. *double*: `ensureServersForPlan` counts and
then inserts, so two saves of a plan make twice the slots. A crash amid a save leaves
the definition ahead of its product, which is why `CatalogAgrees` speaks of saves that were completed;
the restart repairs the launch plan only, and undoes what the admin changed of it.

## Fairness

Only `fulfillment_progress`, `fulfillment_crash` and `email_safety` assume fairness. `tick`
re-arms its timer in a `finally` block, so an iteration that can go on does
(`WF` of `WorkerStep`): the Pelican request either answers or fails, because
`fetch` of Node gives up on a silent connection by itself (the code sets no limit of
its own). Time passes (`WF` of `TimeStep`). Nothing is assumed of
customers, operators, Stripe or the panel. Without a crash a worker finishes what it
leased, and a retried job is due again after its delay. (The run has two workers for
the races; on one purchase only one of them is ever busy.) The e-mail lane needs less:
`MessageSettles` allows crashes and failing statements, because the recovery takes up
what they leave behind.

## Proofs

Every component has a module of theorems, and they hold for all values of the
constants: any number of purchases, customers, slots, handlers, workers and requests,
any periods, delays and limits. They assume what the modules state of their constants
(`ConstantsAssumption`, `EnforcementConstants`, `SlotConstants`): numbers are numbers, a missing value is
no value, the purchases of different customers are different, the sets of the requests of
`BackOffice` are disjoint and finite, and one checkout at a time is created, as the queue of
checkouts sees to. What a property withstands is stated in the property itself, by the set `trouble`.

`FulfillmentQueueProofs` proves:

- `TypeCorrect`, `LeaseIsExclusive`, `BoundedRetries`, `LinkageIsSound`: the safety properties of the pipeline;
- `ServersAreOwed`: a purchase has at most one server more than it has create requests
  that a live attempt gave up without an answer, with all the edits, recoveries, late
  requests and crashes there may be; `ProvisionedOnce` is the case in which every
  request is answered (`MaxUnanswered = 0`), in which the code by itself keeps the plan's
  "No purchase may provision twice";
- `ReadyIsEarned`: ready services are linked and verified, when the admin makes no
  free edit (`MaxOverrides = 0`; with one the statement is false, by design of the
  edit route);
- `JobsKeepTheirSetup`: a queued or leased job keeps its host name and the other
  columns of its setup, and a user or a password, whatever is reopened, submitted again
  or edited. Its server name it keeps only as long as there is no free edit: an edit may
  clear it (`admin.js:2056`), and the next attempt at the job then fails the contract check and goes
  to review;
- `Refinement`: `FulfillmentQueue` implements `ProvisioningContract`.

The theorems rest on `Invariance`, the inductive invariant `IndInv`. Why the properties alone are not inductive:

- *Servers are accounted for.* A worker sends the create request some steps after its
  lookup. `PanelAgrees` says that it is on that path only while the servers there are and the
  requests in flight are no more than the unanswered ones; `LateServersAreAccountedFor`
  counts requests in flight like servers. This holds against other workers because of
  `OneWorkerPerPurchase`, and against requests left over from a crash, which nobody has given up,
  because of `OrphanIsGuarded`: such a request belongs to a job that stays leased, and no
  iteration takes it up again. The very defect that `fulfillment_crash` shows, a job
  leased for ever, keeps crashes from making second servers; a fix that reclaims such leases has to
  wait for the request or make it idempotent.
- *Exclusive leases.* The lease query takes queued rows only, and neither requeue
  nor reopen touches a leased row; `LeaseIsHeld` and `OneWorkerPerPurchase` need each
  other.
- *Bounded retries.* `AttemptIsLeft`: a queued job has an attempt left.
- *Linkage.* A linked purchase can be reopened or requeued by no sequence of steps:
  `LinkedIsFilled`, `LinkedIsNotParked`. The free edit may
  take the name of a linked purchase too, and the customer submit again: the job is then done, and the
  customer's link makes a password unnecessary (`PasswordIsCleared`).

`EmailOutboxProofs` proves:

- `TypeCorrect`, `BoundedCopies`, `SingleSender`, `SentIsTrue`: the safety properties
  of the outbox;
- `ClosedForGood`: a row the recovery closed is never sent again;
- `Refinement`: `EmailOutbox` implements `DeliveryPromise`.

Again by `Invariance`. Why its `IndInv` is stronger than the properties:

- *Bounded copies.* Every request is made under a lease and every lease was an
  attempt: `LeasesAreAttempts` bounds what was accepted, and what may still be on
  its way, by the attempts of the row.
- *One sender.* An iteration whose lease has expired, or a request that outlived
  its process, may still reach the provider. `SenderOwnsOrSettled` says that its row
  is still leased or is never leased again, because an expired lease has only one
  way out: the recovery, which closes the row.
- *Sent is true.* `SuccessIsAccepted` carries the provider's word from the answer
  to the update, over whatever happens in between.

`SlotInventoryProofs` proves `TypeCorrect`, `PurchasesMoveForward`, `SlotsAreNotShared`,
`HeldIsSuspended`, `StripeIsFollowed` and `SlotsAreOwned`: all of the properties of the run.
`StripeIsFollowedAfterAll` says more than any run checks.

- *Types* need `Fits`: a handler is about a purchase that is there and about the slot of that
  purchase, and one crash puts at most one event more into a mailbox than Stripe would.
- *Moving forward.* A handler saves what it has read before an `await`. `Alone` says that without
  an overlap nobody else works on the purchase meanwhile, so that the row is still what was read.
- *No shared slot.* `releaseReservedServer` frees a slot by its id and asks for no owner.
  `NoSharedSlot` alone does not survive this: the slot may have been sold again between the
  save that ends a claim and the release. `Exclusive` therefore says of more than the claims that
  they exclude each other: a purchase *possesses* its slot (`Possesses`) while it has a claim on it
  and until the end of its subscription has been handled to the last step. That only one handler ever
  does this is `OneEnd`; that nothing else releases is `Course`, which says for every stage of a purchase's
  session and subscription which row it has (`Standing`), which events wait (`Waiting`) and what
  the handlers in hand may do (`Handling`). A redelivered event is what breaks `OneEnd`, and so
  `inventory_redelivery` ends in a violation.
- *Held while suspended* needs in addition that the row's debt and the slot tell the same
  (`SlotTells`), that a paid subscription is active (`PaidMeansActive`) and that the first payment is handled
  first (`FirstPaid`).
- *Following Stripe* speaks of the moments at which a mailbox is empty; the invariant speaks of all of them.
  `Told`: what rows, events and handlers say of a session or a subscription is or was so at Stripe, and is so
  now when Stripe waits to be heard (`Prompt`). `Pursued`: where row and subscription differ, an event that saves
  the difference is `Outstanding`, in the mailbox or in the hand of a handler before its save. The conjuncts
  are about the completed session (`Arrives`), any change (`Followed`), the end (`EndComes`), and, when
  Stripe does not wait, the order of what is in the mailbox (`InTurn`). A crash puts an event back, so it
  stays outstanding; a success-page visit does not come back, which is why a crash together with a visit is
  excluded (`Gentle`). Without lag the argument counts no kinds of trouble, and so
  `StripeIsFollowedAfterAll` allows reordering, repetition, overlaps and crashes together.
- *Every slot is owned.* `Owned`: a taken slot belongs to a purchase that has a claim on it (`Live`) or is leaving
  (`Leaving`): a handler is at the release, or the event of the end is still outstanding. That the end does come is
  `EndComes` again.

`LifecycleEnforcementProofs` proves `TypeCorrect` and all of the properties of the run:
`CustomerHearsFirst`, `ReviewsAreAnnounced`, `PaidServicesAreLive`, `DebtorsAreSuspended` and
`NobodyIsEarly`. Each conjunct of its `IndInv` holds without certain kinds of trouble only and is
stated so (`NoTroubleOf`).

- *Nothing too early.* The property counts from what Stripe knows (`unpaidSince`), the worker from the row.
  `DebtsAreReal` relates them: the row's stamps are not older than the debt, or an event that clears them waits.
  This is what a repeated failure breaks.
- *Paid services are live, debtors are suspended.* `StatusArrives`: the last event in the mailbox is the truth.
  `HeldMeansSuspended`, `EndsAreFinal` and `GraceStarts` carry the slot and the stamps over the steps of a day.
- *Announced, reminded.* `WarningsInTime`, `RemindersInTime`: what is due today is sent today. The window is
  a set of numbers and the worker takes the most urgent, so that the proof needs that windows do not come to
  an end twice on a day without the worker in between (no outage), and that nobody is crowded out (`NoCrowd`).

`ServiceAccessLinksProofs` proves `TypeCorrect`, `DeadLinksStayDead` and `AccessIsKept`.

- *Access is kept* speaks of the moments at which nothing is under way. `GoodLinkComes` says for every moment that
  a link good for the reported period is in the customer's hands or on its way: in a webhook's second step, in the
  queue, or in the worker's hand. A worker that has read an old period and a webhook that renews meanwhile are
  told apart by `NotBefore`, the order of periods including the stand-in of thirty days; `ReportedIsLatest`,
  `LinksLast` and `LinksArrive` say that the row is never behind a link, that only the stand-in is ever cut short, and
  that a link which is not revoked has arrived or is replaced by one that reaches as far.

`PanelIdentityProofs` proves `TypeCorrect`, `AccountsAreOwn`, `ExclusiveClaims`, `NamesAreUnique` and
`MailedNameIsThePanels`.

- The worker works with what it has read and been told (`seen`, `result`); `WorkerKnows` ties these to the owner of
  the task, `AccountsExist` the links and rows to users of the panel.
- *Exclusive claims.* A chosen allocation is free on the panel (`ServersAreApart`), but a row may record one whose server
  is gone; `AllocationsAreApart` says that the slot of an ended service is not held, and that recorded allocations
  are on no other server. Host names are claimed in one step (`HostsAreApart`).
- *Names.* `NamesAgree`: as long as no setup was given up, rows, links, worker and panel know one name per customer.
  `NamesAreThePanels`: without a lost answer the stored name came from the panel. `MailedLoginWorks` follows from
  one or the other, which is how the missing case came to light.

`BackOfficeProofs` proves `TypeCorrect`, `TransactionsEnd`, `AnswersAreKept` and `CatalogIsHonest`.

- *Every transaction ends* needs only that each kind of request has its own steps (`RequestsFit`).
- *Answered is kept.* `Progress` says for each request what there is of it in the tables at each of its steps;
  `OwnTransaction`, that only the opener is inside; `KeptIsOthers`, that a rollback brings back exactly what the others
  have and nothing of the opener. Both hold until statements are mixed, and mixing is what `checkout.js:433` invites.
- *The catalog* has an invariant of its own, `CatalogInv`, about the one request that works on a plan: what it
  has counted is still so when it inserts.

Only model-checked: liveness (`JobSettlesWithoutFault`, `MessageSettles`), which is out of the prover's reach. Every
invariant and every action property of a passing run is a theorem.

## What the models show of the code

Four runs end in a violation of a sentence of the plan, of the policies or of a test; `PROJECT.json`
("findings") quotes them: a job leased for ever after a fault; fulfilment of a
cancelled purchase; a repeated event that frees a slot sold again; a grace period that every failed retry
starts again.

No run is spent on these observations, made while modelling:

- "No purchase may provision twice" (`docs/OBERYNHOST_AUTOMATION_PLAN_FROZEN.md:183`) is not
  seen to by the code alone. A create request that gets no answer is retried
  (`fulfillmentWorker.js:243`), the lookup may come before the first request takes effect, and
  both are carried out: with `MaxUnanswered` above 0 `NeverProvisionedTwice` is false in the model, where
  the panel takes every request. It is true if the panel refuses an external id in use, of which
  `src/` says nothing. What the code does see to is `ServersAreAccountedFor`.
- A message the provider refused for good stays below its limit of attempts with
  `availableAt = now` and is sent again on the next tick, until its attempts are used up.
- A subscription that ends before the release puts the slot up for sale although its
  server exists (`purchases.js:511`).
- The bucket and target routes read a flag that is left out as `Number(x || 1)`: changing
  only the total or the name of a closed bucket or target opens it again (`admin.js:1459`, `:1533`).
- Saving a draft switches off the node group and target that all plans share
  (`catalog.js:408`); the target route does not reach the node group.
- A server that nobody recorded keeps its allocation on the panel, and the next job
  chooses the same one and is refused (`pelicanProvisioner.js:314`).

## Abstractions

- Outside `BackOffice` a transaction (`BEGIN` to `COMMIT`) is one step. On one shared
  connection this is an idealisation; `BackOffice` shows what it leaves out.
- A create request takes effect while its sender waits for the outcome, or at any
  time later, or never, once the sender has given it up or crashed. The panel makes as many servers
  with one external id as it is asked for; if it refuses an id in use, that is
  `PelicanFails`, and no second server comes about. Nothing in `src/` says which. The creation of a panel user is a request of `PanelIdentity` only, where it takes effect before its
  answer is lost or not at all.
- Verification and release compare the routing artifact with the purchase; the comparison can only
  refuse and is left out. So is the e-mail address, which the free edit may clear too: the next attempt
  fails the contract check, as it does without a name.
- The query for a slot or a job takes the first by id or time, the models any.
- The log provider's behaviour is contained in Postmark's. The outbox query takes the
  oldest row, the model any that is due.
- Texts and recipients of messages are left out of `EmailOutbox`; the link put into a message
  when it is sent is in `ServiceAccessLinks`, which in turn only sketches the delivery.
- `PanelIdentity` gives each purchase its own slot and its worker never dies; leases and
  crashes are in `FulfillmentQueue`, slots in `SlotInventory`.
- In `BackOffice` inputs are valid, the fields of a plan are one value, and `active`,
  `storefrontVisible` and `purchaseEnabled` are one flag, set together. Acknowledgement mails are switched on. A checkout's
  clean-up releases its own slot; that it does so by an id somebody else may have by then is in
  `SlotInventory`.
- `Provision` of `SlotInventory` is the whole attempt; what happens within one is in
  `FulfillmentQueue`. `Checkout` includes the Stripe call.
- In `LifecycleEnforcement` a handler is one step, and so are the query and the insert of
  a reminder or a warning: the lane runs alone and its keys are unique. Purchases have
  an e-mail address. Reopening a setup and the rest of the free edit are left out.
- After `canceled` a subscription sends nothing; `incomplete` and
  `incomplete_expired` are left out, as are price mismatches.
- Of the admin's edit its status, server status and access action are in; its
  free-text fields are left out, except the server name in `FulfillmentQueue` and
  `PanelIdentity`.

## Plan

1. `LifecycleState`, `FulfillmentQueue`, `ProvisioningContract`, proofs, `SlotInventory`: done.
2. `EmailOutbox`, `DeliveryPromise`, proofs: done. The code does not promise a single
   delivery: an error may hide an acceptance, and the next attempt makes another copy.
3. `LifecycleEnforcement`: done.
4. `ServiceAccessLinks`, `PanelIdentity`: done.
5. `SharedConnection`, `BackOffice`: done.
6. Proofs of the safety properties of every component: done.
7. The reuse of a pending checkout, which is looked up before the queue of checkouts and may see an
   uncommitted row (`checkout.js:97`), as a request of `BackOffice`.

## Not modelled

Sessions and rate limits (maps read and written by one synchronous function), the waitlist (one row
per address, read by nobody else), the Pelican reconcile (caches facts for display),
previews, support context and assistant (reads), the cool-down of the resent ready mail, configuration, HTML and
headers, operator scripts.
