------------------------ MODULE LifecycleEnforcement ------------------------
(***************************************************************************)
(* The deadlines of a purchase.  A customer who has paid is reminded of    *)
(* the setup and then reported to the operator; one who stops paying has a *)
(* grace period, is suspended, is warned three times that the server will  *)
(* be deleted, and is at last put up for a purge review.                   *)
(*                                                                         *)
(* Source: backend/services/lifecycleEnforcement.js, the lifecycle lane of *)
(* workers/fulfillmentWorker.js, and whatever moves the clocks: the Stripe *)
(* handlers of services/purchases.js and middleware/stripeWebhook.js and   *)
(* the suspension and hard-flag routes of routes/api/admin.js.             *)
(*                                                                         *)
(* A handler is one step; what happens between its statements is in        *)
(* SlotInventory.  Each purchase has a slot of its own.  The clock counts  *)
(* days, and 0 stands for a stamp that is NULL.                            *)
(*                                                                         *)
(* As in SlotInventory, trouble is the set of the kinds of trouble there   *)
(* have been, and every property says which kinds it withstands.           *)
(***************************************************************************)
EXTENDS LifecycleState, Sequences, FiniteSetsExt

CONSTANTS
    Purchase,                 \* purchases.id
    SubscriptionGracePeriod,  \* SUBSCRIPTION_GRACE_PERIOD_MS
    SuspensionRetention,      \* SUSPENSION_RETENTION_MS
    ReminderDelay,            \* PAID_SETUP_REMINDER_DELAY_MS
    EscalationDelay,          \* PAID_SETUP_ADMIN_ESCALATION_DELAY_MS
    WarningWindow,            \* SUSPENSION_DELETE_WARNING_WINDOWS: days before the deletion
    WarningLimit,             \* LIMIT of the query for candidates
    Trouble,                  \* the kinds of trouble that may happen
    Troubled,                 \* bound: the purchases that trouble may befall
    MaxKinds,                 \* bound: different kinds of trouble in a behaviour
    MaxMail,                  \* bound: events waiting for a purchase
    MaxChanges,               \* bound: changes of subscriptions at Stripe
    LastSale,                 \* bound: the last day on which a purchase is paid
    LastDay                   \* bound: the clock stops there

\* lag: Stripe moves on before its earlier events have been handled.
\* repeat: an event is delivered again although it was handled.
\* retry: Stripe tries to collect a failed payment again, and it fails again.
\* outage: a day passes although the worker or the webhook has work to do.
\* crowd: more services are suspended than the query for candidates takes.
\* visit: the success page or the Stripe reconcile confirms a session again.
\* edit: the admin suspends or reinstates a service.
\* unpaid: the Stripe account marks subscriptions unpaid instead of ending them.
TroubleKind ==
    {"lag", "repeat", "retry", "outage", "crowd", "visit", "edit", "unpaid"}

ASSUME EnforcementConstants ==
    /\ Purchase \subseteq Nat
    /\ IsFiniteSet(Purchase)
    /\ SubscriptionGracePeriod \in Nat \ {0}
    /\ SuspensionRetention \in Nat
    /\ ReminderDelay \in Nat
    /\ EscalationDelay \in Nat
    /\ ReminderDelay < EscalationDelay
    /\ WarningWindow \subseteq 1 .. SuspensionRetention - 1
    /\ WarningWindow # {}
    /\ WarningLimit \in Nat \ {0}
    /\ Trouble \subseteq TroubleKind
    /\ Troubled \subseteq Purchase
    /\ MaxKinds \in Nat
    /\ {MaxMail, MaxChanges, LastSale} \subseteq Nat
    /\ LastDay \in Nat \ {0}

VARIABLES
    now,
    row,          \* purchases
    slot,         \* servers.status of the purchase's slot
    reminded,     \* emailOutbox has a setup reminder
    warned,       \* emailOutbox: the windows whose deletion warning has a row
    escalated,    \* adminAuditLog has worker_escalate_paid_stall
    reviewed,     \* the day of worker_open_purge_review in adminAuditLog
    truth,        \* Stripe: the subscription's status
    unpaidSince,  \* Stripe: the day of the first failed payment that was not made good
    mail,         \* Stripe: events not yet handled, oldest first
    late,         \* Stripe: events it will deliver again
    changes,      \* bound: how often a subscription changed
    trouble

stripeVars == <<truth, unpaidSince, mail, late, changes>>
recordVars == <<reminded, warned, escalated, reviewed>>
vars == <<now, row, slot, recordVars, stripeVars, trouble>>

(***************************************************************************)
(* Data                                                                    *)
(***************************************************************************)

Subscription == {"none", "active", "past_due", "unpaid", "canceled"}

Day == 0 .. LastDay

\* named: serverName is set.
Row == [status : PurchaseStatus \cup {"none"}, named : BOOLEAN, sub : Subscription,
        paidAt : Day, delinquentAt : Day, suspendedAt : Day, risk : CustomerRiskStatus]

NoRow == [status |-> "none", named |-> FALSE, sub |-> "none", paidAt |-> 0,
          delinquentAt |-> 0, suspendedAt |-> 0, risk |-> "clear"]

\* invoice.paid, invoice.payment_failed and customer.subscription.*; the last
\* carries a snapshot.
Event(kind, sub) == [kind |-> kind, sub |-> sub]

Events == [kind : {"invoice_paid", "invoice_failed", "changed"}, sub : Subscription]

\* mergeLifecycleState: every save derives the customer's risk again.
Merged(r) == [r EXCEPT !.risk = DeriveRisk(@, r.suspendedAt > 0, r.delinquentAt > 0)]

Causes(kinds) ==
    /\ kinds \subseteq Trouble \ trouble
    /\ Cardinality(trouble \cup kinds) <= MaxKinds
    /\ trouble' = trouble \cup kinds

Befalls(p, kinds) == Causes(kinds) /\ (kinds # {} => p \in Troubled)

Init ==
    /\ now = 1
    /\ row = [p \in Purchase |-> NoRow]
    /\ slot = [p \in Purchase |-> "available"]
    /\ reminded = [p \in Purchase |-> FALSE]
    /\ warned = [p \in Purchase |-> {}]
    /\ escalated = [p \in Purchase |-> FALSE]
    /\ reviewed = [p \in Purchase |-> 0]
    /\ truth = [p \in Purchase |-> "none"]
    /\ unpaidSince = [p \in Purchase |-> 0]
    /\ mail = [p \in Purchase |-> <<>>]
    /\ late = [p \in Purchase |-> {}]
    /\ changes = 0
    /\ trouble = {}

(***************************************************************************)
(* The customer                                                            *)
(***************************************************************************)

\* Checkout and markPurchasePaid, the first time.
Pay(p) ==
    /\ now <= LastSale
    /\ row[p].status = "none"
    /\ row' = [row EXCEPT ![p] = [NoRow EXCEPT !.status = "paid", !.sub = "active",
                                               !.paidAt = now]]
    /\ slot' = [slot EXCEPT ![p] = "held"]
    /\ truth' = [truth EXCEPT ![p] = "active"]
    /\ UNCHANGED <<now, recordVars, unpaidSince, mail, late, changes, trouble>>

\* complete-setup
SubmitSetup(p) ==
    /\ row[p].status = "paid"
    /\ ~row[p].named
    /\ row' = [row EXCEPT ![p] = Merged([@ EXCEPT !.named = TRUE])]
    /\ UNCHANGED <<now, slot, recordVars, stripeVars, trouble>>

\* Provisioning and release, which FulfillmentQueue has in detail.
Fulfill(p) ==
    /\ row[p].status = "paid"
    /\ row[p].named
    /\ slot[p] = "held"
    /\ row' = [row EXCEPT ![p] = Merged([@ EXCEPT !.status = "completed"])]
    /\ slot' = [slot EXCEPT ![p] = "allocated"]
    /\ UNCHANGED <<now, recordVars, stripeVars, trouble>>

\* The session is confirmed again: markPurchasePaid clears both clocks and does
\* not look at the slot.
Confirm(p) ==
    /\ row[p].status \in {"paid", "completed"}
    /\ row' = [row EXCEPT ![p] = Merged([@ EXCEPT !.sub = truth[p], !.delinquentAt = 0,
                                                  !.suspendedAt = 0])]
    /\ Befalls(p, {"visit"})
    /\ UNCHANGED <<now, slot, recordVars, stripeVars>>

(***************************************************************************)
(* Stripe                                                                  *)
(***************************************************************************)

Sends(p, events, kinds) ==
    /\ changes < MaxChanges
    /\ changes' = changes + 1
    /\ Len(mail[p]) + Len(events) <= MaxMail
    /\ mail' = [mail EXCEPT ![p] = @ \o events]
    /\ Befalls(p, kinds \cup IF mail[p] # <<>> THEN {"lag"} ELSE {})
    /\ UNCHANGED <<now, row, slot, recordVars, late>>

RenewalFails(p) ==
    /\ truth[p] = "active"
    /\ truth' = [truth EXCEPT ![p] = "past_due"]
    /\ unpaidSince' = [unpaidSince EXCEPT ![p] = now]
    /\ Sends(p, <<Event("invoice_failed", "none"), Event("changed", "past_due")>>, {})

RetryFails(p) ==
    /\ truth[p] = "past_due"
    /\ Sends(p, <<Event("invoice_failed", "none")>>, {"retry"})
    /\ UNCHANGED <<truth, unpaidSince>>

RenewalSucceeds(p) ==
    /\ truth[p] \in {"past_due", "unpaid"}
    /\ truth' = [truth EXCEPT ![p] = "active"]
    /\ unpaidSince' = [unpaidSince EXCEPT ![p] = 0]
    /\ Sends(p, <<Event("invoice_paid", "none"), Event("changed", "active")>>, {})

Ends(p) ==
    /\ truth[p] \in {"active", "past_due", "unpaid"}
    /\ truth' = [truth EXCEPT ![p] = "canceled"]
    /\ unpaidSince' = [unpaidSince EXCEPT ![p] = 0]
    /\ Sends(p, <<Event("changed", "canceled")>>, {})

TurnsUnpaid(p) ==
    /\ truth[p] = "past_due"
    /\ truth' = [truth EXCEPT ![p] = "unpaid"]
    /\ Sends(p, <<Event("changed", "unpaid")>>, {"unpaid"})
    /\ UNCHANGED unpaidSince

(***************************************************************************)
(* The Stripe webhook                                                      *)
(***************************************************************************)

\* subscriptionDelinquentAt: every failed invoice starts the grace period anew,
\* a change of the subscription starts it only if it has not begun.
DelinquentAt(r, kind, sub) ==
    CASE kind = "invoice_failed" -> now
      [] kind = "invoice_paid" -> 0
      [] kind = "changed" /\ sub \notin DelinquentSubscription -> 0
      [] OTHER -> IF r.delinquentAt > 0 THEN r.delinquentAt ELSE now

SuspendedAt(r, kind, sub) ==
    IF kind = "invoice_paid" \/ sub \notin DelinquentSubscription THEN 0 ELSE r.suspendedAt

\* syncPurchaseSubscription, what it saves.
SyncedRow(r, kind, sub) ==
    Merged([r EXCEPT
        !.status = IF sub \in TerminalSubscription /\ @ = "paid" THEN "cancelled" ELSE @,
        !.sub = sub,
        !.delinquentAt = DelinquentAt(r, kind, sub),
        !.suspendedAt = SuspendedAt(r, kind, sub)])

\* Mutant of SyncedSlot: only the release of syncPurchaseSubscription is left.
SyncedSlotReleased(p, sub) ==
    IF sub \in TerminalSubscription THEN "available" ELSE slot[p]

\* ... and what becomes of the slot.
SyncedSlot(p, sub) ==
    IF sub \in TerminalSubscription THEN "available"
    ELSE IF /\ sub \notin DelinquentSubscription
            /\ row[p].status = "completed"
            /\ row[p].suspendedAt > 0
            /\ slot[p] = "held"
    THEN "allocated"
    ELSE slot[p]

\* An invoice event makes the handler ask Stripe for the subscription as it is
\* now, a subscription event carries it.
Sync(p, event) ==
    LET sub == IF event.kind = "changed" THEN event.sub ELSE truth[p]
    IN  /\ row' = [row EXCEPT ![p] = SyncedRow(@, event.kind, sub)]
        /\ slot' = [slot EXCEPT ![p] = SyncedSlot(p, sub)]

\* The oldest event is handled.  Its answer may be lost.
Handle(p, lost) ==
    /\ mail[p] # <<>>
    /\ Sync(p, Head(mail[p]))
    /\ mail' = [mail EXCEPT ![p] = Tail(@)]
    /\ late' = [late EXCEPT ![p] = IF lost THEN @ \cup {Head(mail[p])} ELSE @]
    /\ Befalls(p, IF lost THEN {"repeat"} ELSE {})
    /\ UNCHANGED <<now, recordVars, truth, unpaidSince, changes>>

\* Then Stripe sends the event again, perhaps days later.
HandleAgain(p, event) ==
    /\ event \in late[p]
    /\ Sync(p, event)
    /\ late' = [late EXCEPT ![p] = @ \ {event}]
    /\ UNCHANGED <<now, recordVars, truth, unpaidSince, mail, changes, trouble>>

(***************************************************************************)
(* The worker's lifecycle lane                                             *)
(***************************************************************************)

Age(stamp) == now - stamp

\* ORDER BY stamp ASC, p.id ASC
Before(p, q, stamp) == stamp[p] < stamp[q] \/ (stamp[p] = stamp[q] /\ p < q)

Earliest(S, stamp) == CHOOSE p \in S : \A q \in S \ {p} : Before(p, q, stamp)

PaidAt == [p \in Purchase |-> row[p].paidAt]

SuspensionStart == [p \in Purchase |-> row[p].suspendedAt]

Delinquency == [p \in Purchase |-> row[p].delinquentAt]

Stalled == {p \in Purchase : row[p].status = "paid" /\ ~row[p].named}

\* Mutant of ToRemind: the reminder of any purchase counts.
ToRemindOnce ==
    {p \in Stalled : /\ Age(row[p].paidAt) >= ReminderDelay
                     /\ Age(row[p].paidAt) < EscalationDelay
                     /\ \A q \in Purchase : ~reminded[q]}

ToRemind ==
    {p \in Stalled : /\ Age(row[p].paidAt) >= ReminderDelay
                     /\ Age(row[p].paidAt) < EscalationDelay
                     /\ ~reminded[p]}

ToEscalate == {p \in Stalled : Age(row[p].paidAt) >= EscalationDelay /\ ~escalated[p]}

Suspended == {p \in Purchase : row[p].status = "completed" /\ row[p].suspendedAt > 0}

\* The candidates for a warning, the longest suspended first and not more than
\* WarningLimit of them.
Candidates ==
    LET inReach == {p \in Suspended :
            /\ Age(row[p].suspendedAt) >= SuspensionRetention - Max(WarningWindow)
            /\ Age(row[p].suspendedAt) < SuspensionRetention}
    IN  {p \in inReach :
            Cardinality({q \in inReach : Before(q, p, SuspensionStart)}) < WarningLimit}

\* Mutant of Warning: the windows are tried in the other order.
WarningWidest(p) ==
    Max({w \in WarningWindow : row[p].suspendedAt + SuspensionRetention - now <= w})

\* The most urgent window that applies; those that were missed are skipped.
Warning(p) ==
    Min({w \in WarningWindow : row[p].suspendedAt + SuspensionRetention - now <= w})

ToWarn == {p \in Candidates : Warning(p) \notin warned[p]}

ToReview ==
    {p \in Suspended : PurgeRequired(row[p].suspendedAt, now, SuspensionRetention)
                       /\ reviewed[p] = 0}

\* Mutant of ToSuspend: the last day of grace is lost.
ToSuspendEarly ==
    {p \in Purchase : /\ row[p].status = "completed"
                      /\ slot[p] = "allocated"
                      /\ SuspensionRequired(row[p].sub, row[p].delinquentAt,
                            row[p].suspendedAt, now + 1, SubscriptionGracePeriod)}

\* Mutant of ToSuspend: the deadline itself still counts as grace.
ToSuspendLate ==
    {p \in Purchase : /\ row[p].status = "completed"
                      /\ slot[p] = "allocated"
                      /\ SuspensionRequired(row[p].sub, row[p].delinquentAt,
                            row[p].suspendedAt, now - 1, SubscriptionGracePeriod)}

ToSuspend ==
    {p \in Purchase : /\ row[p].status = "completed"
                      /\ slot[p] = "allocated"
                      /\ SuspensionRequired(row[p].sub, row[p].delinquentAt,
                            row[p].suspendedAt, now, SubscriptionGracePeriod)}

Remind ==
    /\ ToRemind # {}
    /\ reminded' = [reminded EXCEPT ![Earliest(ToRemind, PaidAt)] = TRUE]
    /\ UNCHANGED <<now, row, slot, warned, escalated, reviewed, stripeVars, trouble>>

Escalate ==
    /\ ToRemind = {}
    /\ ToEscalate # {}
    /\ escalated' = [escalated EXCEPT ![Earliest(ToEscalate, PaidAt)] = TRUE]
    /\ UNCHANGED <<now, row, slot, reminded, warned, reviewed, stripeVars, trouble>>

Warn ==
    /\ ToRemind \cup ToEscalate = {}
    /\ ToWarn # {}
    /\ LET p == Earliest(ToWarn, SuspensionStart)
       IN  warned' = [warned EXCEPT ![p] = @ \cup {Warning(p)}]
    /\ UNCHANGED <<now, row, slot, reminded, escalated, reviewed, stripeVars, trouble>>

OpenReview ==
    /\ ToRemind \cup ToEscalate \cup ToWarn = {}
    /\ ToReview # {}
    /\ reviewed' = [reviewed EXCEPT ![Earliest(ToReview, SuspensionStart)] = now]
    /\ UNCHANGED <<now, row, slot, reminded, warned, escalated, stripeVars, trouble>>

Suspend ==
    /\ ToRemind \cup ToEscalate \cup ToWarn \cup ToReview = {}
    /\ ToSuspend # {}
    /\ LET p == Earliest(ToSuspend, Delinquency)
       IN  /\ row' = [row EXCEPT ![p] = Merged([@ EXCEPT !.suspendedAt = now])]
           /\ slot' = [slot EXCEPT ![p] = "held"]
    /\ Causes(IF Cardinality(Suspended) >= WarningLimit THEN {"crowd"} ELSE {})
    /\ UNCHANGED <<now, recordVars, stripeVars>>

(***************************************************************************)
(* The operator                                                            *)
(***************************************************************************)

\* Mutant of AdminSuspend: the risk is not derived again.
AdminSuspendRaw(p) ==
    /\ row[p].status = "completed"
    /\ row' = [row EXCEPT ![p].suspendedAt = now]
    /\ slot' = [slot EXCEPT ![p] = "held"]
    /\ Befalls(p, {"edit"})
    /\ UNCHANGED <<now, recordVars, stripeVars>>

\* PATCH with serviceAccessAction suspend, also for a service that is already
\* suspended.
AdminSuspend(p) ==
    /\ row[p].status = "completed"
    /\ row' = [row EXCEPT ![p] = Merged([@ EXCEPT !.suspendedAt = now])]
    /\ slot' = [slot EXCEPT ![p] = "held"]
    /\ Befalls(p, {"edit"})
    /\ UNCHANGED <<now, recordVars, stripeVars>>

\* serviceAccessAction reinstate, which does not ask for a suspension.
AdminReinstate(p) ==
    /\ row[p].status = "completed"
    /\ row[p].sub \notin TerminalSubscription
    /\ row' = [row EXCEPT ![p] = Merged([@ EXCEPT !.suspendedAt = 0])]
    /\ slot' = [slot EXCEPT ![p] = "allocated"]
    /\ Befalls(p, {"edit"})
    /\ UNCHANGED <<now, recordVars, stripeVars>>

\* mark-hard-flag
MarkHardFlag(p) ==
    /\ PurgeRequired(row[p].suspendedAt, now, SuspensionRetention)
    /\ row[p].risk # "hard_flagged"
    /\ row' = [row EXCEPT ![p] = Merged([@ EXCEPT !.risk = "hard_flagged"])]
    /\ UNCHANGED <<now, slot, recordVars, stripeVars, trouble>>

(***************************************************************************)
(* Time                                                                    *)
(***************************************************************************)

\* The worker has nothing to do: its five queries come back empty.
CaughtUp == ToRemind \cup ToEscalate \cup ToWarn \cup ToReview \cup ToSuspend = {}

\* A day passes.  The worker runs every few seconds and events take no day,
\* unless there is an outage.
NewDay ==
    /\ now < LastDay
    /\ now' = now + 1
    /\ Causes(IF CaughtUp /\ \A p \in Purchase : mail[p] = <<>> THEN {} ELSE {"outage"})
    /\ UNCHANGED <<row, slot, recordVars, stripeVars>>

(***************************************************************************)
(* The specification                                                       *)
(***************************************************************************)

CustomerStep(p) == Pay(p) \/ SubmitSetup(p) \/ Fulfill(p) \/ Confirm(p)

StripeStep(p) ==
    RenewalFails(p) \/ RetryFails(p) \/ RenewalSucceeds(p) \/ Ends(p) \/ TurnsUnpaid(p)

WorkerStep == Remind \/ Escalate \/ Warn \/ OpenReview \/ Suspend

AdminStep(p) == AdminSuspend(p) \/ AdminReinstate(p) \/ MarkHardFlag(p)

Next ==
    \/ \E p \in Purchase :
            \/ CustomerStep(p)
            \/ StripeStep(p)
            \/ \E lost \in BOOLEAN : Handle(p, lost)
            \/ \E event \in late[p] : HandleAgain(p, event)
            \/ AdminStep(p)
    \/ WorkerStep
    \/ NewDay

Spec == Init /\ [][Next]_vars

(***************************************************************************)
(* Properties                                                              *)
(***************************************************************************)

\* Also: the risk column is the one mergeLifecycleState derives from the row.
TypeOK ==
    /\ now \in 1 .. LastDay
    /\ row \in [Purchase -> Row]
    /\ \A p \in Purchase : row[p] = Merged(row[p])
    /\ slot \in [Purchase -> ServerStatus]
    /\ reminded \in [Purchase -> BOOLEAN]
    /\ warned \in [Purchase -> SUBSET WarningWindow]
    /\ escalated \in [Purchase -> BOOLEAN]
    /\ reviewed \in [Purchase -> Day]
    /\ truth \in [Purchase -> Subscription]
    /\ unpaidSince \in [Purchase -> Day]
    /\ mail \in [Purchase -> Seq(Events)]
    /\ \A p \in Purchase : Len(mail[p]) <= MaxMail
    /\ late \in [Purchase -> SUBSET Events]
    /\ changes \in 0 .. MaxChanges
    /\ trouble \in SUBSET Trouble

\* There has been no trouble but one, and of one of these kinds.
OnlyOneOf(kinds) == trouble = {} \/ \E kind \in kinds : trouble = {kind}

\* All of Stripe's events have been handled.
Quiet(p) == mail[p] = <<>> /\ late[p] = {}

\* The customer has owed a payment for so many days, unless Stripe's news of
\* the payment is still on its way.
HasOwed(p, days) ==
    mail[p] # <<>> \/ (unpaidSince[p] > 0 /\ now >= unpaidSince[p] + days)

\* The operator is asked to purge the service, or flags its customer.
GoesForPurge(p) ==
    \/ reviewed'[p] # reviewed[p]
    \/ row'[p].risk = "hard_flagged" /\ row[p].risk # "hard_flagged"

\* Nobody is suspended before the grace period is over, and neither the purge
\* review nor the hard flag comes before the retention that follows, counted
\* from the first failed payment as Stripe knows it.
NothingBeforeItsTime ==
    [][OnlyOneOf({"lag", "retry", "outage", "crowd", "visit", "unpaid"})' =>
        \A p \in Purchase :
            /\ row[p].suspendedAt = 0 /\ row'[p].suspendedAt > 0 =>
                    HasOwed(p, SubscriptionGracePeriod)
            /\ GoesForPurge(p) =>
                    HasOwed(p, SubscriptionGracePeriod + SuspensionRetention)]_vars

\* "If payment is not received within that 7-day grace period, the server will
\* be suspended."
GraceEnds ==
    \A p \in Purchase :
        /\ row[p].status = "completed"
        /\ truth[p] = "past_due"
        /\ Quiet(p)
        /\ CaughtUp
        /\ now >= unpaidSince[p] + SubscriptionGracePeriod
        => row[p].suspendedAt > 0

\* "If payment is not received within that 7-day grace period, the server will be
\* suspended": without the troubles that move the clock or keep the worker away.
UnpaidIsSuspended == OnlyOneOf({"crowd", "edit"}) => GraceEnds

\* "Suspended services may remain recoverable ... until payment is received": when
\* Stripe's events have been handled, a service that is paid for is live on its slot.
PaymentRestores ==
    OnlyOneOf({"retry", "outage", "crowd"}) =>
        \A p \in Purchase :
            row[p].status = "completed" /\ truth[p] = "active" /\ Quiet(p) =>
                /\ row[p].delinquentAt = 0
                /\ row[p].suspendedAt = 0
                /\ slot[p] = "allocated"

\* A purge review is opened only for a service whose customer got every
\* deletion warning, even though the worker sends at most one mail at a time and the
\* reviews of other services compete with the warnings.
DeletionIsAnnounced ==
    OnlyOneOf({"lag", "repeat", "retry", "visit", "unpaid"}) =>
        \A p \in Purchase : reviewed[p] > 0 => warned[p] = WarningWindow

\* The operator hears of a stalled setup only after the customer.
EscalationFollowsReminder ==
    OnlyOneOf(TroubleKind \ {"outage"}) => \A p \in Purchase : escalated[p] => reminded[p]

=============================================================================
