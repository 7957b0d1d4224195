---------------------------- MODULE SlotInventory ----------------------------
(***************************************************************************)
(* Who owns a slot.  A customer's claim on a row of the servers table lives *)
(* in two places, the slot's status and the purchase's status, and in a    *)
(* third that the program does not own: the subscription at Stripe.  This  *)
(* module has every handler that moves one of them.                        *)
(*                                                                         *)
(* Source: backend/routes/api/checkout.js, middleware/stripeWebhook.js,    *)
(* services/purchases.js, services/lifecycleEnforcement.js and the         *)
(* override and release routes of routes/api/admin.js.                     *)
(*                                                                         *)
(* The Stripe handlers use no transaction: they read the row, save it and  *)
(* then update the slot, and anything may run between two of these steps.  *)
(* A handler with a BEGIN .. COMMIT is one step.                           *)
(*                                                                         *)
(* What the handlers do not promise to survive is counted: trouble is the  *)
(* set of the kinds of trouble there have been, and every property says    *)
(* which kinds it withstands.                                              *)
(***************************************************************************)
EXTENDS LifecycleState, FiniteSets, SequencesExt

CONSTANTS
    Purchase,      \* rows of the purchases table
    Slot,          \* rows of the servers table
    NoSlot,        \* serverId of a purchase that does not exist
    Handler,       \* requests that are being handled at the same time
    Trouble,       \* the kinds of trouble that may happen
    MaxKinds,      \* bound: different kinds of trouble in a behaviour
    MaxMail        \* bound: events waiting for a purchase

\* lag: Stripe moves on before its earlier events have been handled.
\* reorder: an event overtakes an earlier one.
\* repeat: an event is delivered again although it was handled.
\* overlap: a row is changed while a handler is working on it.
\* crash: a handler dies, or an error ends it, between two steps.
\* failure: opening a checkout fails after its transaction began.
\* override: the admin edits a purchase or its slot freely.
\* visit: the success page or the Stripe reconcile confirms a session again.
\* unpaid: the Stripe account marks subscriptions unpaid instead of ending them.
TroubleKind ==
    {"lag", "reorder", "repeat", "overlap", "crash", "failure", "override", "visit",
     "unpaid"}

ASSUME SlotConstants ==
    /\ NoSlot \notin Slot
    /\ Trouble \subseteq TroubleKind
    /\ MaxKinds \in Nat
    /\ MaxMail \in Nat

VARIABLES
    row,       \* purchases: the columns that the Stripe handlers save, and serverId
    linked,    \* purchases: pelicanServerId is stored
    slot,      \* servers.status
    session,   \* Stripe: the checkout session of the purchase
    truth,     \* Stripe: the subscription's status
    mail,      \* Stripe: events not yet handled, oldest first
    step,      \* what a handler does next
    job,       \* the event a handler works on, and what it remembers
    trouble

stripeVars == <<session, truth, mail>>
handlerVars == <<step, job>>
vars == <<row, linked, slot, stripeVars, handlerVars, trouble>>

(***************************************************************************)
(* Data                                                                    *)
(***************************************************************************)

\* stripeSubscriptionId is stored together with the status: "none" is NULL.
\* The two statuses of a subscription that never got going are left out.
Subscription == {"none", "active", "past_due", "unpaid", "canceled"}

\* pending: fulfillmentStatus is pending_activation.
Row == [status : PurchaseStatus \cup {"none"}, sub : Subscription, delinquent : BOOLEAN,
        suspended : BOOLEAN, pending : BOOLEAN, serverId : Slot \cup {NoSlot}]

NoRow == [status |-> "none", sub |-> "none", delinquent |-> FALSE, suspended |-> FALSE,
          pending |-> FALSE, serverId |-> NoSlot]

\* checkout.session.completed, checkout.session.expired, invoice.paid,
\* invoice.payment_failed and customer.subscription.*; the last carries a snapshot.
\* "abandoned" is no event but the clean-up after a checkout that failed.
EventKind == {"completed", "expired", "invoice_paid", "invoice_failed", "changed",
              "abandoned"}

Event(kind, sub) == [kind |-> kind, sub |-> sub]

Events == [kind : EventKind, sub : Subscription]

\* event: the event; mailed: Stripe waits for the answer to it; purchase and
\* slot: the rows it is about; sub: the subscription's status as the handler
\* got it; seen: the purchase row as the handler read it.
Job == [event : Events, mailed : BOOLEAN, purchase : Purchase, slot : Slot \cup {NoSlot},
        sub : Subscription, seen : Row]

(***************************************************************************)
(* Trouble                                                                 *)
(***************************************************************************)

Working(h) == step[h] # "idle"

Occupied(p) == \E h \in Handler : Working(h) /\ job[h].purchase = p

OverlapOn(p) == IF Occupied(p) THEN {"overlap"} ELSE {}

\* The step happens only where these kinds of trouble may, once each, and is
\* remembered.
Causes(kinds) ==
    /\ kinds \subseteq Trouble \ trouble
    /\ Cardinality(trouble \cup kinds) <= MaxKinds
    /\ trouble' = trouble \cup kinds

(***************************************************************************)
(* Checkout                                                                *)
(***************************************************************************)

Init ==
    /\ row = [p \in Purchase |-> NoRow]
    /\ linked = [p \in Purchase |-> FALSE]
    /\ slot = [s \in Slot |-> "available"]
    /\ session = [p \in Purchase |-> "none"]
    /\ truth = [p \in Purchase |-> "none"]
    /\ mail = [p \in Purchase |-> <<>>]
    /\ step = [h \in Handler |-> "idle"]
    /\ job = [h \in Handler |-> <<>>]
    /\ trouble = {}

\* Mutant of Checkout: the claim does not ask whether the slot is available.
CheckoutAnySlot(p, s) ==
    /\ row[p].status = "none"
    /\ row' = [row EXCEPT ![p] = [NoRow EXCEPT !.status = "checkout_pending",
                                               !.serverId = s]]
    /\ slot' = [slot EXCEPT ![s] = "held"]
    /\ session' = [session EXCEPT ![p] = "open"]
    /\ UNCHANGED <<linked, truth, mail, handlerVars, trouble>>

\* create-checkout succeeds.  The query takes the first available slot of the
\* product, the model takes any.
Checkout(p, s) ==
    /\ row[p].status = "none"
    /\ slot[s] = "available"
    /\ row' = [row EXCEPT ![p] = [NoRow EXCEPT !.status = "checkout_pending",
                                               !.serverId = s]]
    /\ slot' = [slot EXCEPT ![s] = "held"]
    /\ session' = [session EXCEPT ![p] = "open"]
    /\ UNCHANGED <<linked, truth, mail, handlerVars, trouble>>

\* It fails after the insert: the transaction is rolled back, so the next
\* checkout gets the same purchase id and may get the same slot, and then the
\* handler cancels the purchase and releases the slot that it remembers.
CheckoutFails(h, p, s) ==
    /\ ~Working(h)
    /\ row[p].status = "none"
    /\ slot[s] = "available"
    /\ Causes({"failure"})
    /\ step' = [step EXCEPT ![h] = "read"]
    /\ job' = [job EXCEPT ![h] =
            [event |-> Event("abandoned", "none"), mailed |-> FALSE, purchase |-> p,
             slot |-> s, sub |-> "none", seen |-> NoRow]]
    /\ UNCHANGED <<row, linked, slot, stripeVars>>

(***************************************************************************)
(* Stripe                                                                  *)
(***************************************************************************)

\* Stripe changes its mind about p and sends the events.
Sends(p, events) ==
    /\ Len(mail[p]) + Len(events) <= MaxMail
    /\ mail' = [mail EXCEPT ![p] = @ \o events]
    /\ Causes(IF mail[p] # <<>> \/ Occupied(p) THEN {"lag"} ELSE {})
    /\ UNCHANGED <<row, linked, slot, handlerVars>>

Pay(p) ==
    /\ session[p] = "open"
    /\ session' = [session EXCEPT ![p] = "complete"]
    /\ truth' = [truth EXCEPT ![p] = "active"]
    /\ Sends(p, <<Event("completed", "none"), Event("changed", "active")>>)

SessionExpires(p) ==
    /\ session[p] = "open"
    /\ session' = [session EXCEPT ![p] = "expired"]
    /\ Sends(p, <<Event("expired", "none")>>)
    /\ UNCHANGED truth

RenewalFails(p) ==
    /\ truth[p] = "active"
    /\ truth' = [truth EXCEPT ![p] = "past_due"]
    /\ Sends(p, <<Event("invoice_failed", "none"), Event("changed", "past_due")>>)
    /\ UNCHANGED session

RenewalSucceeds(p) ==
    /\ truth[p] \in {"past_due", "unpaid"}
    /\ truth' = [truth EXCEPT ![p] = "active"]
    /\ Sends(p, <<Event("invoice_paid", "none"), Event("changed", "active")>>)
    /\ UNCHANGED session

Ends(p) ==
    /\ truth[p] \in {"active", "past_due", "unpaid"}
    /\ truth' = [truth EXCEPT ![p] = "canceled"]
    /\ Sends(p, <<Event("changed", "canceled")>>)
    /\ UNCHANGED session

TurnsUnpaid(p) ==
    /\ truth[p] = "past_due"
    /\ truth' = [truth EXCEPT ![p] = "unpaid"]
    /\ Len(mail[p]) < MaxMail
    /\ mail' = [mail EXCEPT ![p] = Append(@, Event("changed", "unpaid"))]
    /\ Causes({"unpaid"} \cup IF mail[p] # <<>> \/ Occupied(p) THEN {"lag"} ELSE {})
    /\ UNCHANGED <<row, linked, slot, session, handlerVars>>

(***************************************************************************)
(* The handlers                                                            *)
(***************************************************************************)

\* A handler begins: it verifies the event and, for a session or an invoice,
\* asks Stripe for the subscription as it is now.
Begins(h, p, event, mailed) ==
    /\ ~Working(h)
    /\ step' = [step EXCEPT ![h] = "read"]
    /\ job' = [job EXCEPT ![h] =
            [event |-> event, mailed |-> mailed, purchase |-> p, slot |-> row[p].serverId,
             sub |-> IF event.kind = "changed" THEN event.sub ELSE truth[p],
             seen |-> NoRow]]

\* stripeWebhook receives the i-th of the waiting events.
Receive(h, p, i) ==
    /\ i \in 1 .. Len(mail[p])
    /\ Begins(h, p, mail[p][i], TRUE)
    /\ mail' = [mail EXCEPT ![p] = RemoveAt(@, i)]
    /\ Causes(OverlapOn(p) \cup IF i > 1 THEN {"reorder"} ELSE {})
    /\ UNCHANGED <<row, linked, slot, session, truth>>

\* recoverPurchaseFromSessionId, resolveExistingCheckout and reconcile-stripe:
\* a finished session is confirmed, an expired one expires the purchase.
Visit(h, p) ==
    /\ session[p] \in {"complete", "expired"}
    /\ Begins(h, p, Event(IF session[p] = "complete" THEN "completed" ELSE "expired", "none"),
              FALSE)
    /\ Causes({"visit"} \cup OverlapOn(p))
    /\ UNCHANGED <<row, linked, slot, stripeVars>>

\* The answer to a delivery is lost, and Stripe sends the event again.
Repeat(h) ==
    /\ Working(h)
    /\ job[h].mailed
    /\ LET p == job[h].purchase
       IN  /\ Len(mail[p]) < MaxMail
           /\ mail' = [mail EXCEPT ![p] = Append(@, job[h].event)]
    /\ Causes({"repeat"})
    /\ UNCHANGED <<row, linked, slot, session, truth, handlerVars>>

\* Mutant of Finish: the request object outlives the request.
FinishKeepingJob(h) == step' = [step EXCEPT ![h] = "idle"] /\ UNCHANGED job

Finish(h) == step' = [step EXCEPT ![h] = "idle"] /\ job' = [job EXCEPT ![h] = <<>>]

GoesOn(h, next) == step' = [step EXCEPT ![h] = next]

\* The early returns of markPurchasePaid, expirePurchase and
\* syncPurchaseSubscription, which finds its row by the subscription id.
Relevant(kind, r) ==
    CASE kind = "completed" -> r.status \notin {"none", "cancelled", "expired"}
      [] kind = "expired" -> r.status = "checkout_pending"
      [] OTHER -> r.sub # "none"

\* SELECT * FROM purchases.  The clean-up goes on to the slot in any case.
Read(h) ==
    /\ step[h] = "read"
    /\ LET r == row[job[h].purchase]
           kind == job[h].event.kind
       IN  IF kind = "abandoned"
           THEN /\ GoesOn(h, IF r.status = "checkout_pending" THEN "save" ELSE "release")
                /\ UNCHANGED job
           ELSE IF Relevant(kind, r)
           THEN GoesOn(h, "save") /\ job' = [job EXCEPT ![h].seen = r]
           ELSE Finish(h)
    /\ UNCHANGED <<row, linked, slot, stripeVars, trouble>>

\* Mutant of PaidRow: a fulfilled purchase is marked paid again.
PaidRowAgain(r, sub) ==
    [r EXCEPT !.status = "paid", !.sub = sub, !.delinquent = FALSE, !.suspended = FALSE]

\* Mutant of PaidRow: the subscription is not stored.
PaidRowUnbound(r, sub) ==
    [r EXCEPT !.status = IF @ = "checkout_pending" THEN "paid" ELSE @,
              !.delinquent = FALSE, !.suspended = FALSE]

\* markPurchasePaid: what it makes of the row it has read.
PaidRow(r, sub) ==
    [r EXCEPT !.status = IF @ = "checkout_pending" THEN "paid" ELSE @,
              !.sub = sub, !.delinquent = FALSE, !.suspended = FALSE]

\* syncPurchaseSubscription: likewise.
SyncedRow(r, kind, sub) ==
    [r EXCEPT !.status = IF sub \in TerminalSubscription /\ @ \in {"checkout_pending", "paid"}
                         THEN "cancelled" ELSE @,
              !.sub = sub,
              !.delinquent = CASE kind = "invoice_failed" -> TRUE
                               [] kind = "invoice_paid" -> FALSE
                               [] OTHER -> sub \in DelinquentSubscription,
              !.suspended = @ /\ kind # "invoice_paid" /\ sub \in DelinquentSubscription]

\* markPurchasePaid saves every column from the row it has read, not from the
\* row as it is.
SavePaid(h) ==
    /\ step[h] = "save"
    /\ job[h].event.kind = "completed"
    /\ row' = [row EXCEPT ![job[h].purchase] = PaidRow(job[h].seen, job[h].sub)]
    /\ Finish(h)
    /\ UNCHANGED <<linked, slot, stripeVars, trouble>>

\* So does syncPurchaseSubscription, and then it turns to the slot.
SaveSubscription(h) ==
    /\ step[h] = "save"
    /\ job[h].event.kind \in {"changed", "invoice_paid", "invoice_failed"}
    /\ LET seen == job[h].seen
           sub == job[h].sub
       IN  /\ row' = [row EXCEPT
                    ![job[h].purchase] = SyncedRow(seen, job[h].event.kind, sub)]
           /\ IF sub \in TerminalSubscription
              THEN GoesOn(h, "release") /\ UNCHANGED job
              ELSE IF /\ sub \notin DelinquentSubscription
                      /\ seen.status = "completed"
                      /\ seen.suspended
              THEN GoesOn(h, "reallocate") /\ UNCHANGED job
              ELSE Finish(h)
    /\ UNCHANGED <<linked, slot, stripeVars, trouble>>

\* Mutant of CloseIfPending: the slot of an expired checkout is forgotten.
CloseWithoutRelease(h) ==
    /\ step[h] = "save"
    /\ job[h].event.kind \in {"expired", "abandoned"}
    /\ row' = [row EXCEPT ![job[h].purchase].status =
            IF @ = "checkout_pending" THEN "expired" ELSE @]
    /\ Finish(h)
    /\ UNCHANGED <<linked, slot, stripeVars, trouble>>

\* updatePurchaseStatusIfCurrent: a pending purchase is closed, any other is
\* left alone.  expirePurchase stops there, the clean-up goes on.
CloseIfPending(h) ==
    /\ step[h] = "save"
    /\ job[h].event.kind \in {"expired", "abandoned"}
    /\ LET p == job[h].purchase
           pending == row[p].status = "checkout_pending"
           closed == IF job[h].event.kind = "expired" THEN "expired" ELSE "cancelled"
       IN  /\ row' = [row EXCEPT ![p].status = IF pending THEN closed ELSE @]
           /\ IF pending \/ job[h].event.kind = "abandoned"
              THEN GoesOn(h, "release") /\ UNCHANGED job
              ELSE Finish(h)
    /\ UNCHANGED <<linked, slot, stripeVars, trouble>>

\* releaseServerIfNeeded: nobody asks who owns the slot now.
Release(h) ==
    /\ step[h] = "release"
    /\ slot' = [slot EXCEPT ![job[h].slot] = "available"]
    /\ Finish(h)
    /\ UNCHANGED <<row, linked, stripeVars, trouble>>

\* Mutant of Reallocate: the slot stays held.
ReallocateNothing(h) ==
    /\ step[h] = "reallocate"
    /\ Finish(h)
    /\ UNCHANGED <<row, linked, slot, stripeVars, trouble>>

\* The last statement of syncPurchaseSubscription: a payment ends a suspension.
Reallocate(h) ==
    /\ step[h] = "reallocate"
    /\ slot' = [slot EXCEPT ![job[h].slot] = IF @ = "held" THEN "allocated" ELSE @]
    /\ Finish(h)
    /\ UNCHANGED <<row, linked, stripeVars, trouble>>

\* The process dies or a statement throws; without an answer Stripe sends the
\* event again.
Dies(h) ==
    /\ Working(h)
    /\ Causes({"crash"})
    /\ IF job[h].mailed
       THEN mail' = [mail EXCEPT ![job[h].purchase] = <<job[h].event>> \o @]
       ELSE UNCHANGED mail
    /\ Finish(h)
    /\ UNCHANGED <<row, linked, slot, session, truth>>

(***************************************************************************)
(* The worker and the operator: one transaction each                       *)
(***************************************************************************)

\* From the lease to completeLeasedProvisioningJob; what happens in between is
\* the subject of FulfillmentQueue.
Provision(p) ==
    /\ row[p].status = "paid"
    /\ ~linked[p]
    /\ slot[row[p].serverId] = "held"
    /\ linked' = [linked EXCEPT ![p] = TRUE]
    /\ row' = [row EXCEPT ![p].pending = TRUE]
    /\ slot' = [slot EXCEPT ![row[p].serverId] = "allocated"]
    /\ Causes(OverlapOn(p))
    /\ UNCHANGED <<stripeVars, handlerVars>>

\* POST /complete
ReleaseReady(p) ==
    /\ row[p].status = "paid"
    /\ row[p].pending
    /\ linked[p]
    /\ slot[row[p].serverId] = "allocated"
    /\ row' = [row EXCEPT ![p].status = "completed", ![p].pending = FALSE]
    /\ Causes(OverlapOn(p))
    /\ UNCHANGED <<linked, slot, stripeVars, handlerVars>>

\* suspendNextPurchasePastGrace; the grace period may be over at any time.
Suspend(p) ==
    /\ row[p].status = "completed"
    /\ slot[row[p].serverId] = "allocated"
    /\ row[p].delinquent
    /\ ~row[p].suspended
    /\ row[p].sub \notin TerminalSubscription
    /\ row' = [row EXCEPT ![p].suspended = TRUE]
    /\ slot' = [slot EXCEPT ![row[p].serverId] = "held"]
    /\ Causes(OverlapOn(p))
    /\ UNCHANGED <<linked, stripeVars, handlerVars>>

\* PATCH /admin/purchases/:id with a status, a server status and an access
\* action.  A field left out stands for one of the values tried here.
Override(p, newStatus, newSlot, access) ==
    /\ row[p].status # "none"
    /\ newStatus \in ClosedStatus => ~RequiresStripeCancellation(row[p].sub)
    /\ newSlot = "available" /\ newStatus = "completed" => row[p].sub \in TerminalSubscription
    /\ access = "suspend" => newStatus = "completed"
    /\ access = "reinstate" => row[p].sub \notin TerminalSubscription
    /\ row' = [row EXCEPT ![p].status = newStatus,
                          ![p].pending = @ /\ newStatus # "completed",
                          ![p].suspended = CASE access = "suspend" -> TRUE
                                             [] access = "reinstate" -> FALSE
                                             [] OTHER -> @]
    /\ slot' = [slot EXCEPT ![row[p].serverId] =
            IF access = "suspend" THEN "held"
            ELSE IF access = "reinstate" /\ newStatus = "completed" THEN "allocated"
            ELSE newSlot]
    /\ Causes({"override"} \cup OverlapOn(p))
    /\ UNCHANGED <<linked, stripeVars, handlerVars>>

(***************************************************************************)
(* The specification                                                       *)
(***************************************************************************)

StripeStep(p) ==
    \/ Pay(p)
    \/ SessionExpires(p)
    \/ RenewalFails(p)
    \/ RenewalSucceeds(p)
    \/ Ends(p)
    \/ TurnsUnpaid(p)

HandlerStep(h) ==
    \/ Read(h)
    \/ SavePaid(h)
    \/ SaveSubscription(h)
    \/ CloseIfPending(h)
    \/ Release(h)
    \/ Reallocate(h)

Next ==
    \/ \E p \in Purchase, s \in Slot :
            Checkout(p, s) \/ \E h \in Handler : CheckoutFails(h, p, s)
    \/ \E p \in Purchase :
            \/ StripeStep(p)
            \/ Provision(p)
            \/ ReleaseReady(p)
            \/ Suspend(p)
            \/ \E newStatus \in PurchaseStatus, newSlot \in ServerStatus,
                    access \in {"keep", "suspend", "reinstate"} :
                    Override(p, newStatus, newSlot, access)
    \/ \E h \in Handler, p \in Purchase :
            Visit(h, p) \/ \E i \in 1 .. MaxMail : Receive(h, p, i)
    \/ \E h \in Handler : HandlerStep(h) \/ Repeat(h) \/ Dies(h)

Spec == Init /\ [][Next]_vars

(***************************************************************************)
(* Safety                                                                  *)
(***************************************************************************)

TypeOK ==
    /\ row \in [Purchase -> Row]
    /\ \A p \in Purchase : row[p].serverId = NoSlot <=> row[p].status = "none"
    /\ linked \in [Purchase -> BOOLEAN]
    /\ slot \in [Slot -> ServerStatus]
    /\ session \in [Purchase -> {"none", "open", "complete", "expired"}]
    /\ truth \in [Purchase -> Subscription]
    /\ \A p \in Purchase : mail[p] \in Seq(Events) /\ Len(mail[p]) <= MaxMail + 1
    /\ step \in [Handler -> {"idle", "read", "save", "release", "reallocate"}]
    /\ \A h \in Handler : IF Working(h) THEN job[h] \in Job ELSE job[h] = <<>>
    /\ trouble \in SUBSET Trouble

\* The purchase has a claim on its slot.
Live(p) ==
    \/ row[p].status \in {"checkout_pending", "paid"}
    \/ row[p].status = "completed" /\ row[p].sub \notin TerminalSubscription

\* Nothing about p is under way.
Quiet(p) == ~Occupied(p) /\ mail[p] = <<>>

\* There has been no trouble but one, once, and of one of these kinds.
OnlyOneOf(kinds) == trouble = {} \/ \E kind \in kinds : trouble = {kind}

\* "No active purchases should share one server slot."
OneOwnerPerSlot ==
    \A p, q \in Purchase : p # q /\ Live(p) /\ Live(q) => row[p].serverId # row[q].serverId

\* The slot of a live purchase is not for sale.
LiveOwnerHasSlot == \A p \in Purchase : Live(p) => slot[row[p].serverId] # "available"

\* Two customers never have a claim on one slot, and the slot of a customer is not
\* for sale: whatever the order of events, and although the release looks at no
\* owner.  An event that is handled again does put it up for sale.
NoSharedSlot ==
    OnlyOneOf({"reorder", "overlap", "crash", "visit"}) =>
        OneOwnerPerSlot /\ LiveOwnerHasSlot

\* No slot leaks: one that is taken has an owner, or one that is about to let
\* it go.  A handler that dies between its two updates does leak one, and so may
\* the clean-up after a failed checkout.
EverySlotIsOwned ==
    OnlyOneOf(Trouble \ {"crash", "failure", "override"}) =>
        \A s \in Slot :
            slot[s] # "available" =>
                \E p \in Purchase : row[p].serverId = s /\ (Live(p) \/ ~Quiet(p))

\* A fulfilled service is suspended exactly while its slot is held.  Of all the
\* kinds of trouble only two events in the wrong order leave this as it is.
HeldWhileSuspended ==
    OnlyOneOf({"reorder"}) =>
        \A p \in Purchase :
            row[p].status = "completed" /\ Live(p) /\ ~Occupied(p) =>
                (row[p].suspended <=> slot[row[p].serverId] = "held")

\* When all events have been handled the purchase agrees with Stripe: a paying
\* customer has a purchase, and one whose subscription has ended has no claim.
FollowsStripe ==
    OnlyOneOf({"lag", "reorder", "repeat", "overlap", "crash"}) =>
        \A p \in Purchase :
            session[p] = "complete" /\ Quiet(p) =>
                /\ row[p].sub = truth[p]
                /\ row[p].delinquent <=> truth[p] \in DelinquentSubscription
                /\ truth[p] \notin TerminalSubscription =>
                        row[p].status \in {"paid", "completed"}
                /\ truth[p] \in TerminalSubscription => ~Live(p)

Lifecycle ==
    [none |-> {"checkout_pending"},
     checkout_pending |-> {"paid", "expired", "cancelled"},
     paid |-> {"completed", "cancelled"},
     completed |-> {}, expired |-> {}, cancelled |-> {}]

\* A purchase moves forward only: no late or repeated event revives one that is
\* closed or takes a fulfilled one back, and none makes one ready: "no Stripe
\* billing event alone may mark infrastructure as ready".  That goes for every
\* step but the admin's own edit, also for those that follow it.  A save from a
\* row that has changed in the meantime may break it.
MovesForward ==
    [][LET edited == "override" \in trouble' \ trouble
       IN  "overlap" \notin trouble' /\ ~edited =>
            \A p \in Purchase :
                \/ row'[p].status = row[p].status
                \/ /\ row'[p].status \in Lifecycle[row[p].status]
                   /\ row'[p].status = "completed" => row[p].pending /\ linked[p]]_vars

=============================================================================
