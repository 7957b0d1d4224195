------------------------------- MODULE BackOffice -------------------------------
(***************************************************************************)
(* The support desk and the catalog on the shared connection.              *)
(*                                                                         *)
(* Source: services/supportTickets.js, services/supportRules.js,           *)
(* routes/api/support.js, routes/api/adminSupport.js, services/catalog.js, *)
(* the plan, bucket and target routes of routes/api/admin.js, the creation *)
(* of a checkout in routes/api/checkout.js and the seeds of db/init.js.    *)
(*                                                                         *)
(* A request takes a step for every statement that writes and for every    *)
(* read it decides on later; all requests run at the same time.  Tickets,  *)
(* bucket changes and checkouts are transactions, the desk's answers and   *)
(* the saving of a plan are not.  Checkouts wait for one another, so there *)
(* is one here; SlotInventory lets several compete.                        *)
(***************************************************************************)
EXTENDS SharedConnection, Naturals, Sequences, FiniteSets, FiniteSetsExt

CONSTANTS
    Ticket,       \* requests of customers who open a ticket
    Desk,         \* requests of the admin about a ticket
    Save,         \* requests that save a plan
    Patch,        \* requests that change an inventory bucket
    Retarget,     \* requests that change the provisioning target
    Checkout,     \* the request that opens a checkout
    Category,     \* ticket categories a customer may choose
    Plan,         \* plan keys; all of them use the one provisioning target
    Launch,       \* LAUNCH_PLAN_TYPE
    LaunchSlots,  \* its launchSlotCount
    Orders,       \* bound: the plans, totals and flags an admin asks for
    Keep,         \* a field that the admin leaves out
    Seed,         \* the launch plan as the configuration has it
    MaxRequests,  \* bound: requests in a behaviour
    Trouble,      \* the kinds of trouble that may happen
    MaxKinds      \* bound: different kinds of trouble in a behaviour

\* A BEGIN meets an open transaction, or a ROLLBACK or a crash undoes statements
\* of others than its opener; a restart undoes no such statement; two requests
\* about the slots of one plan run at once.
TroubleKind == {"mixed", "crash", "double"}

ASSUME ConstantsAssumption ==
    /\ Request = Ticket \cup Desk \cup Save \cup Patch \cup Retarget \cup Checkout
    /\ Ticket \cap (Desk \cup Save \cup Patch \cup Retarget \cup Checkout) = {}
    /\ Desk \cap (Save \cup Patch \cup Retarget \cup Checkout) = {}
    /\ Save \cap (Patch \cup Retarget \cup Checkout) = {}
    /\ Patch \cap (Retarget \cup Checkout) = {}
    /\ Retarget \cap Checkout = {}
    /\ IsFiniteSet(Request) /\ Cardinality(Checkout) <= 1
    /\ Launch \in Plan /\ Nobody \notin Plan
    /\ LaunchSlots \in Nat /\ Keep \notin Nat
    /\ Orders \subseteq [plan : Plan, total : Nat \cup {Keep}, flag : BOOLEAN]
    /\ Seed \notin Request \cup {Nobody}
    /\ MaxRequests \in Nat /\ MaxKinds \in Nat
    /\ Trouble \subseteq TroubleKind

VARIABLES
    pc,       \* what a request does next
    input,    \* what it asks for
    ticketId, \* lastID of its INSERT, or the ticket it is about
    seen,     \* the count of slots it has read
    trouble

vars == <<connection, pc, input, ticketId, seen, trouble>>

(***************************************************************************)
(* The tables                                                              *)
(***************************************************************************)

SupportStatus == {"waiting_on_customer", "needs_admin", "admin_review", "replied",
                  "resolved", "closed_no_response"}

EventType == {"created", "auto_guidance_sent", "admin_reply", "internal_note", "changed"}

\* A ticket has the id of its place in the sequence: AUTOINCREMENT gives the id
\* of a row that is undone once more.  A snapshot, an event and a mail name the
\* ticket they are stored under and the request they come from.  The rows of a
\* plan name the save they come from.
Content == [
    ticket : Seq([by : Ticket, status : SupportStatus]),
    snapshot : SUBSET (Nat \X Ticket),
    event : SUBSET (Nat \X EventType \X Request),
    mail : SUBSET (Nat \X Request),
    definition : [Plan -> Save \cup {Seed, Nobody}],
    product : [Plan -> Save \cup {Seed, Nobody}],
    bucket : [Plan -> [total : Nat, open : BOOLEAN] \cup {Nobody}],
    group : BOOLEAN,
    target : BOOLEAN,
    free : [Plan -> Nat],
    held : [Plan -> SUBSET Checkout],
    purchase : SUBSET Checkout,
    audit : SUBSET Request]

Input == [plan : Plan \cup {Nobody}, total : Nat \cup {Keep}, flag : BOOLEAN,
          status : SupportStatus \cup {Keep}]

NoInput == [plan |-> Nobody, total |-> Keep, flag |-> FALSE, status |-> Keep]

\* seedLaunchCatalog and seedLaunchInventory: the launch plan is saved as the
\* configuration has it, whatever the admin has changed, and gets the slots that
\* it lacks.
Seeded(content) ==
    LET present == content.free[Launch] + Cardinality(content.held[Launch])
    IN  [content EXCEPT
            !.definition[Launch] = Seed,
            !.product[Launch] = Seed,
            !.bucket[Launch] = [total |-> LaunchSlots, open |-> TRUE],
            !.group = TRUE,
            !.target = TRUE,
            !.free[Launch] = IF present < LaunchSlots
                             THEN @ + (LaunchSlots - present) ELSE @]

Empty == [
    ticket |-> <<>>, snapshot |-> {}, event |-> {}, mail |-> {},
    definition |-> [p \in Plan |-> Nobody], product |-> [p \in Plan |-> Nobody],
    bucket |-> [p \in Plan |-> Nobody],
    group |-> FALSE, target |-> FALSE,
    free |-> [p \in Plan |-> 0], held |-> [p \in Plan |-> {}],
    purchase |-> {}, audit |-> {}]

Init ==
    /\ Connected(Seeded(Empty))
    /\ pc = [r \in Request |-> "new"]
    /\ input = [r \in Request |-> NoInput]
    /\ ticketId = [r \in Request |-> 0]
    /\ seen = [r \in Request |-> 0]
    /\ trouble = {}

Total(p) == db.free[p] + Cardinality(db.held[p])

\* The foreign keys are checked: no event without its ticket.
TicketExists(i) == i \in DOMAIN db.ticket

(***************************************************************************)
(* Requests                                                                *)
(***************************************************************************)

\* The step meets trouble of this kind.
Meets(kind) ==
    /\ kind \in Trouble
    /\ Cardinality(trouble \cup {kind}) <= MaxKinds
    /\ trouble' = trouble \cup {kind}

Running(r) == pc[r] \notin {"new", "done", "failed", "killed"}

Goes(r, step) == pc' = [pc EXCEPT ![r] = step]

\* A new request with this input goes to its first step.
Starts(r, step, what) ==
    /\ pc[r] = "new"
    /\ Cardinality({q \in Request : pc[q] # "new"}) < MaxRequests
    /\ input' = [input EXCEPT ![r] = what]
    /\ Goes(r, step)
    /\ UNCHANGED <<connection, seen>>

\* r writes the tables and goes on.
Does(r, new, step) ==
    /\ Writes(r, new)
    /\ Goes(r, step)
    /\ UNCHANGED <<input, ticketId, seen, trouble>>

\* r goes on without a write.
Skips(r, step) ==
    /\ Goes(r, step)
    /\ UNCHANGED <<connection, input, ticketId, seen, trouble>>

\* BEGIN.  When it fails, a ticket and a bucket change roll back; a checkout has
\* its BEGIN outside the block that does.
Begin(r) ==
    /\ pc[r] = "begin"
    /\ \/ /\ Begins(r)
          /\ Goes(r, CASE r \in Ticket -> "ticket"
                       [] r \in Patch -> "counts"
                       [] r \in Checkout -> "claim")
          /\ UNCHANGED trouble
       \/ /\ BeginFails
          /\ Goes(r, IF r \in Checkout THEN "failed" ELSE "rollback")
          /\ Meets("mixed")
    /\ UNCHANGED <<input, ticketId, seen>>

\* COMMIT.  When it fails the handler rolls back.
Commit(r) ==
    /\ pc[r] = "commit"
    /\ \/ /\ Commits
          /\ Goes(r, CASE r \in Ticket -> "mail"
                       [] r \in Patch -> "audit"
                       [] r \in Checkout -> "done")
       \/ CommitFails /\ Goes(r, "rollback")
    /\ UNCHANGED <<input, ticketId, seen, trouble>>

\* rollbackTransaction, on an error and on a refusal.  A checkout that met an
\* error cleans up after it.
Rollback(r) ==
    /\ pc[r] \in {"rollback", "refused"}
    /\ RollsBack
    /\ Goes(r, IF r \in Checkout /\ pc[r] = "rollback" THEN "clean" ELSE "failed")
    /\ IF HurtsOthers(r) THEN Meets("mixed") ELSE UNCHANGED trouble
    /\ UNCHANGED <<input, ticketId, seen>>

(***************************************************************************)
(* Tickets                                                                 *)
(***************************************************************************)

\* recommendSupportAction: the founder must look at the ticket.
HumanRequired(category, fulfillment) ==
    \/ category \in {"abuse_or_policy", "account_security", "node_or_platform_outage", "other"}
    \/ category = "service_not_ready" /\ fulfillment \in {"needs_admin_review", "dead_letter"}

\* POST /support/tickets of a verified customer, with a fulfillmentStatus that
\* matters to the rules or with another one.
OpenTicket(r, category, fulfillment) ==
    LET human == HumanRequired(category, fulfillment)
    IN  /\ Starts(r, "begin", [NoInput EXCEPT
                !.flag = human,
                !.status = IF human THEN "needs_admin" ELSE "waiting_on_customer"])
        /\ UNCHANGED <<ticketId, trouble>>

InsertTicket(r) ==
    /\ pc[r] = "ticket"
    /\ Writes(r, [db EXCEPT !.ticket = Append(@, [by |-> r, status |-> input[r].status])])
    /\ ticketId' = [ticketId EXCEPT ![r] = Len(db.ticket) + 1]
    /\ Goes(r, "snapshot")
    /\ UNCHANGED <<input, seen, trouble>>

\* r stores a row under its ticket, or the foreign key refuses it.
Attaches(r, new, step, error) ==
    IF TicketExists(ticketId[r]) THEN Does(r, new, step) ELSE Skips(r, error)

\* recordTicketEvent
WithEvent(r, type) == [db EXCEPT !.event = @ \cup {<<ticketId[r], type, r>>}]

\* Mutant of InsertSnapshot: the transaction ends before the events are recorded.
InsertSnapshotLast(r) ==
    /\ pc[r] = "snapshot"
    /\ Attaches(r, [db EXCEPT !.snapshot = @ \cup {<<ticketId[r], r>>}], "commit", "rollback")

InsertSnapshot(r) ==
    /\ pc[r] = "snapshot"
    /\ Attaches(r, [db EXCEPT !.snapshot = @ \cup {<<ticketId[r], r>>}], "created", "rollback")

RecordCreated(r) ==
    /\ pc[r] = "created"
    /\ Attaches(r, WithEvent(r, "created"),
                IF input[r].flag THEN "commit" ELSE "guidance", "rollback")

RecordGuidance(r) ==
    /\ pc[r] = "guidance"
    /\ Attaches(r, WithEvent(r, "auto_guidance_sent"), "commit", "rollback")

\* The mail about a ticket goes to the outbox, if there is a ticket to tell of.
QueueMail(r) ==
    /\ pc[r] = "mail"
    /\ Attaches(r, [db EXCEPT !.mail = @ \cup {<<ticketId[r], r>>}], "done", "failed")

(***************************************************************************)
(* The desk                                                                *)
(***************************************************************************)

\* A request about a ticket the admin sees, committed or not.
About(r, i, step, what) ==
    /\ TicketExists(i)
    /\ Starts(r, step, what)
    /\ ticketId' = [ticketId EXCEPT ![r] = i]
    /\ UNCHANGED trouble

\* POST events: a reply is mailed, a note is not.  PATCH status: two of the
\* statuses may be mailed.  PATCH classification.
StartDesk(r, i) ==
    \/ About(r, i, "reply", [NoInput EXCEPT !.flag = TRUE, !.status = "replied"])
    \/ About(r, i, "note", NoInput)
    \/ \E s \in {"resolved", "admin_review"}, mails \in BOOLEAN :
        /\ mails => s = "resolved"
        /\ About(r, i, "update", [NoInput EXCEPT !.flag = mails, !.status = s])
    \/ About(r, i, "update", NoInput)

RecordReply(r) ==
    /\ pc[r] = "reply"
    /\ Attaches(r, WithEvent(r, "admin_reply"), "update", "failed")

RecordNote(r) ==
    /\ pc[r] = "note"
    /\ Attaches(r, WithEvent(r, "internal_note"), "done", "failed")

\* The UPDATE of updateSupportTicketStatus and updateSupportTicketClassification;
\* no row is no error.
UpdateTicket(r) ==
    /\ pc[r] = "update"
    /\ Does(r, IF TicketExists(ticketId[r]) /\ input[r].status # Keep
               THEN [db EXCEPT !.ticket[ticketId[r]].status = input[r].status] ELSE db,
            "changed")

RecordChange(r) ==
    /\ pc[r] = "changed"
    /\ Attaches(r, WithEvent(r, "changed"), IF input[r].flag THEN "mail" ELSE "done", "failed")

(***************************************************************************)
(* The catalog                                                             *)
(***************************************************************************)

\* Another request about the slots of this plan runs.
Busy(r, p) ==
    \E q \in (Save \cup Patch) \ {r} : Running(q) /\ input[q].plan = p

StartsOn(r, p, step, what) ==
    /\ Starts(r, step, [what EXCEPT !.plan = p])
    /\ IF Busy(r, p) THEN Meets("double") ELSE UNCHANGED trouble
    /\ UNCHANGED ticketId

\* The plan builder wants an active provisioning profile for an active plan.
BuilderAllows(active) == active => db.group /\ db.target

\* POST /admin/plans with the builder's input; PATCH /admin/plans/:planKey of a plan
\* that exists sends a whole definition, which the builder does not see.
SavePlan(r, p, total, active) ==
    /\ BuilderAllows(active) \/ db.definition[p] # Nobody
    /\ StartsOn(r, p, "definition", [NoInput EXCEPT !.total = total, !.flag = active])

\* savePlanDefinition and projectPlanDefinition, one upsert after the other.
UpsertDefinition(r) ==
    /\ pc[r] = "definition"
    /\ Does(r, [db EXCEPT !.definition[input[r].plan] = r], "product")

UpsertProduct(r) ==
    /\ pc[r] = "product"
    /\ Does(r, [db EXCEPT !.product[input[r].plan] = r], "inventory")

\* The bucket refers to the product.
UpsertBucket(r) ==
    LET p == input[r].plan
    IN  /\ pc[r] = "inventory"
        /\ IF db.product[p] = Nobody
           THEN Skips(r, "failed")
           ELSE Does(r, [db EXCEPT !.bucket[p] =
                            [total |-> input[r].total, open |-> input[r].flag]], "group")

\* The node group and the target are those of every other plan, too.
UpsertGroup(r) ==
    /\ pc[r] = "group"
    /\ Does(r, [db EXCEPT !.group = input[r].flag], "target")

UpsertTarget(r) ==
    /\ pc[r] = "target"
    /\ Does(r, [db EXCEPT !.target = input[r].flag], "count")

\* Mutant of CountSlots: slots that are sold do not count.
CountFreeSlots(r) ==
    /\ pc[r] = "count"
    /\ seen' = [seen EXCEPT ![r] = db.free[input[r].plan]]
    /\ Goes(r, "slots")
    /\ UNCHANGED <<connection, input, ticketId, trouble>>

\* ensureServersForPlan: the count.
CountSlots(r) ==
    /\ pc[r] = "count"
    /\ seen' = [seen EXCEPT ![r] = Total(input[r].plan)]
    /\ Goes(r, "slots")
    /\ UNCHANGED <<connection, input, ticketId, trouble>>

\* An INSERT of a slot, up to the total, in ensureServersForPlan and in the
\* bucket route.
InsertSlot(r) ==
    /\ pc[r] \in {"slots", "resize"}
    /\ seen[r] < input[r].total
    /\ Writes(r, [db EXCEPT !.free[input[r].plan] = @ + 1])
    /\ seen' = [seen EXCEPT ![r] = @ + 1]
    /\ UNCHANGED <<pc, input, ticketId, trouble>>

EnoughSlots(r) ==
    /\ pc[r] \in {"slots", "resize"}
    /\ IF pc[r] = "slots" THEN seen[r] >= input[r].total ELSE seen[r] = input[r].total
    /\ Skips(r, IF pc[r] = "slots" THEN "audit" ELSE "capacity")

\* recordEntityAdminAction
RecordAction(r) ==
    /\ pc[r] = "audit"
    /\ Does(r, [db EXCEPT !.audit = @ \cup {r}], "done")

\* PATCH /admin/inventory-buckets/:bucketCode.  A flag that is left out counts
\* as set, even when it was not.
PatchBucket(r, p, total, open) ==
    StartsOn(r, p, "begin", [NoInput EXCEPT !.total = total, !.flag = open])

\* Mutant of ReadCounts: a refusal answers at once and leaves the transaction open.
ReadCountsAndAnswer(r) ==
    LET p == input[r].plan
        total == IF input[r].total = Keep THEN Total(p) ELSE input[r].total
    IN  /\ pc[r] = "counts"
        /\ Goes(r, IF db.bucket[p] = Nobody \/ total < Cardinality(db.held[p])
                   THEN "failed" ELSE "resize")
        /\ input' = [input EXCEPT ![r].total = total]
        /\ seen' = [seen EXCEPT ![r] = Total(p)]
        /\ UNCHANGED <<connection, ticketId, trouble>>

\* The bucket and its counts are read; no bucket and too small a total are
\* refused.
ReadCounts(r) ==
    LET p == input[r].plan
        total == IF input[r].total = Keep THEN Total(p) ELSE input[r].total
    IN  /\ pc[r] = "counts"
        /\ Goes(r, IF db.bucket[p] = Nobody \/ total < Cardinality(db.held[p])
                   THEN "rollback" ELSE "resize")
        /\ input' = [input EXCEPT ![r].total = total]
        /\ seen' = [seen EXCEPT ![r] = Total(p)]
        /\ UNCHANGED <<connection, ticketId, trouble>>

\* DELETE of as many available slots as were too many, or as there are by now.
DeleteSlots(r) ==
    LET p == input[r].plan
        surplus == seen[r] - input[r].total
    IN  /\ pc[r] = "resize"
        /\ seen[r] > input[r].total
        /\ Does(r, [db EXCEPT !.free[p] = IF @ < surplus THEN 0 ELSE @ - surplus], "capacity")

UpdateBucket(r) ==
    LET p == input[r].plan
        new == [total |-> input[r].total, open |-> input[r].flag]
    IN  /\ pc[r] = "capacity"
        /\ Does(r, IF db.bucket[p] = Nobody THEN db ELSE [db EXCEPT !.bucket[p] = new], "commit")

\* PATCH /admin/provisioning-targets/:targetCode; it does not reach the group.
PatchTarget(r, active) ==
    /\ Starts(r, "retarget", [NoInput EXCEPT !.flag = active])
    /\ UNCHANGED <<ticketId, trouble>>

UpdateTarget(r) ==
    /\ pc[r] = "retarget"
    /\ Does(r, [db EXCEPT !.target = input[r].flag], "audit")

(***************************************************************************)
(* Checkout                                                                *)
(***************************************************************************)

\* The plan as the request that saved it wants it: active and visible.
Visible(p) ==
    \/ db.definition[p] = Seed
    \/ \E r \in Save : db.definition[p] = r /\ input[r].flag

\* POST /create-checkout: resolveCheckoutPlan finds the plan.
OpenCheckout(r, p) ==
    /\ Visible(p)
    /\ db.bucket[p] # Nobody /\ db.bucket[p].open
    /\ db.target /\ db.group
    /\ Starts(r, "begin", [NoInput EXCEPT !.plan = p])
    /\ UNCHANGED <<ticketId, trouble>>

\* A slot is claimed, or there is none.
ClaimSlot(r) ==
    LET p == input[r].plan
    IN  /\ pc[r] = "claim"
        /\ IF db.free[p] = 0
           THEN Skips(r, "refused")
           ELSE Does(r, [db EXCEPT !.free[p] = @ - 1, !.held[p] = @ \cup {r}], "purchase")

InsertPurchase(r) ==
    /\ pc[r] = "purchase"
    /\ Does(r, [db EXCEPT !.purchase = @ \cup {r}], "stripe")

\* Stripe makes the session or fails, while the transaction is open.
AskStripe(r) ==
    /\ pc[r] = "stripe"
    /\ \E step \in {"link", "rollback"} : Skips(r, step)

\* The session is written to the purchase, which must be there.
LinkSession(r) ==
    /\ pc[r] = "link"
    /\ IF r \in db.purchase THEN Does(r, db, "commit") ELSE Skips(r, "rollback")

\* cancelPurchaseAndRelease, of what the failed checkout may have left.
CancelPurchase(r) ==
    /\ pc[r] = "clean"
    /\ Does(r, [db EXCEPT !.purchase = @ \ {r}], "release")

ReleaseSlot(r) ==
    LET p == input[r].plan
    IN  /\ pc[r] = "release"
        /\ Does(r, IF r \in db.held[p]
                   THEN [db EXCEPT !.held[p] = @ \ {r}, !.free[p] = @ + 1] ELSE db, "failed")

(***************************************************************************)
(* The process                                                             *)
(***************************************************************************)

\* The process dies, SQLite undoes the open transaction, and the next process
\* seeds the launch plan before it listens.
Restart ==
    /\ Meets(IF HurtsOthers(opener) THEN "mixed" ELSE "crash")
    /\ db' = Seeded(Undone)
    /\ Ends
    /\ pc' = [r \in Request |-> IF Running(r) THEN "killed" ELSE pc[r]]
    /\ UNCHANGED <<input, ticketId, seen>>

TicketStep(r) ==
    \/ \E c \in Category, f \in {"not_started", "dead_letter"} : OpenTicket(r, c, f)
    \/ InsertTicket(r) \/ InsertSnapshot(r) \/ RecordCreated(r) \/ RecordGuidance(r)

DeskStep(r) ==
    \/ \E i \in DOMAIN db.ticket : StartDesk(r, i)
    \/ RecordReply(r) \/ RecordNote(r) \/ UpdateTicket(r) \/ RecordChange(r)

SaveStep(r) ==
    \/ \E o \in Orders : o.total # Keep /\ SavePlan(r, o.plan, o.total, o.flag)
    \/ UpsertDefinition(r) \/ UpsertProduct(r) \/ UpsertBucket(r)
    \/ UpsertGroup(r) \/ UpsertTarget(r) \/ CountSlots(r)

PatchStep(r) ==
    \/ \E o \in Orders : PatchBucket(r, o.plan, o.total, o.flag)
    \/ ReadCounts(r) \/ DeleteSlots(r) \/ UpdateBucket(r)

RetargetStep(r) ==
    \/ \E active \in BOOLEAN : PatchTarget(r, active)
    \/ UpdateTarget(r)

CheckoutStep(r) ==
    \/ \E p \in Plan : OpenCheckout(r, p)
    \/ ClaimSlot(r) \/ InsertPurchase(r) \/ AskStripe(r) \/ LinkSession(r)
    \/ CancelPurchase(r) \/ ReleaseSlot(r)

Next ==
    \/ \E r \in Ticket : TicketStep(r)
    \/ \E r \in Desk : DeskStep(r)
    \/ \E r \in Save : SaveStep(r)
    \/ \E r \in Patch : PatchStep(r)
    \/ \E r \in Retarget : RetargetStep(r)
    \/ \E r \in Checkout : CheckoutStep(r)
    \/ \E r \in Request :
        \/ Begin(r) \/ Commit(r) \/ Rollback(r)
        \/ QueueMail(r) \/ RecordAction(r)
        \/ InsertSlot(r) \/ EnoughSlots(r)
    \/ Restart

Spec == Init /\ [][Next]_vars

(***************************************************************************)
(* Properties                                                              *)
(***************************************************************************)

\* The steps of a request between its BEGIN and its COMMIT or ROLLBACK.
InTransaction == {"ticket", "snapshot", "created", "guidance", "counts", "resize", "capacity",
                  "claim", "purchase", "stripe", "link", "commit", "rollback", "refused"}

Step == InTransaction \cup
    {"new", "begin", "mail", "reply", "note", "update", "changed", "definition", "product",
     "inventory", "group", "target", "count", "slots", "audit", "retarget", "clean", "release",
     "done", "failed", "killed"}

\* Every variable has its type, and a request that does nothing has no part in an
\* open transaction of its own.
TypeOK ==
    /\ ConnectionTypeOK(Content)
    /\ pc \in [Request -> Step]
    /\ input \in [Request -> Input]
    /\ ticketId \in [Request -> Nat]
    /\ seen \in [Request -> Nat]
    /\ trouble \subseteq Trouble

\* routes/api/admin.js:1363 and the other handlers with a BEGIN: each has a dozen
\* ways to return.  Whatever collides with whatever, an open transaction is that
\* of a request which runs and will end it, so the connection never stays in a
\* transaction that nobody commits and that a crash would undo.
EveryTransactionEnds == Open => pc[opener] \in InTransaction

\* The ticket of r, its creation snapshot and its first event are there, and
\* under its id there are those of nobody else.
TicketIsWhole(r) ==
    LET i == ticketId[r]
    IN  /\ TicketExists(i) /\ db.ticket[i].by = r
        /\ \A q \in Ticket :
            (<<i, q>> \in db.snapshot \/ <<i, "created", q>> \in db.event) <=> q = r
        /\ <<i, "auto_guidance_sent", r>> \in db.event <=> ~input[r].flag

\* Nothing of r is there.
NoTrace(r) ==
    /\ \A i \in DOMAIN db.ticket : db.ticket[i].by # r
    /\ \A x \in db.snapshot \cup db.mail : x[2] # r
    /\ \A x \in db.event : x[3] # r
    /\ r \notin db.purchase \cup UNION {db.held[p] : p \in Plan}

\* The slot and the purchase of r are there.
CheckoutIsWhole(r) == r \in db.purchase /\ r \in db.held[input[r].plan]

\* What the answer of r tells of is there.
Kept(r) ==
    CASE r \in Ticket -> TicketIsWhole(r) /\ <<ticketId[r], r>> \in db.mail
      [] r \in Desk ->
            /\ \E type \in {"internal_note", "changed"} : <<ticketId[r], type, r>> \in db.event
            /\ input[r].flag => <<ticketId[r], r>> \in db.mail
      [] r \in Checkout -> CheckoutIsWhole(r)
      [] OTHER -> r \in db.audit

\* docs/SUPPORT_FRAMEWORK_UPGRADE_PLAN.md:11 and
\* docs/OBERYNHOST_AUTOMATION_PLAN_FROZEN.md:87.  Unless transactions collide or
\* undo statements of others, a request that was answered with success has left
\* all its rows for good, through restarts and whatever the admin does to the
\* catalog, a ticket or checkout that was refused has left none, and one that a
\* crash cut off has left all or none.
AnsweredIsKept ==
    "mixed" \notin trouble =>
        /\ \A r \in Request : pc[r] = "done" => Kept(r)
        /\ \A r \in Ticket \cup Checkout :
            /\ pc[r] = "failed" => NoTrace(r)
            /\ pc[r] = "killed" =>
                    NoTrace(r) \/ (IF r \in Ticket THEN TicketIsWhole(r) ELSE CheckoutIsWhole(r))

\* The totals that were ever asked for.
Ordered(p) ==
    {IF p = Launch THEN LaunchSlots ELSE 0} \cup
        ({input[r].total : r \in {q \in Save \cup Patch : input[q].plan = p}} \ {Keep})

Saving(p) == \E r \in Save : pc[r] # "done" /\ input[r].plan = p

\* docs/OBERYNHOST_AUTOMATION_PLAN_FROZEN.md:87, docs/BUSINESS_POLICIES.md:60.
\* Unless two requests about one plan run at once or statements are undone, a
\* plan never has more slots than were asked for, and when no save of it is under
\* way or was cut off, its product is that of the plan's definition and its
\* bucket promises no more slots than there are.
CatalogAgrees ==
    trouble \cap {"mixed", "double"} = {} =>
        \A p \in Plan :
            /\ Total(p) <= Max(Ordered(p))
            /\ ~Saving(p) =>
                /\ db.definition[p] = db.product[p]
                /\ \/ db.bucket[p] = Nobody
                   \/ \E r \in Patch : Running(r) /\ input[r].plan = p
                   \/ db.bucket[p].total <= Total(p)

=============================================================================
