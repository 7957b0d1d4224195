---------------------------- MODULE PanelIdentity ----------------------------
(***************************************************************************)
(* Who a customer is on the Pelican panel, and what a purchase claims for  *)
(* itself: a host name, a panel user name, an allocation.                  *)
(*                                                                         *)
(* Source: POST /complete-setup of routes/api/setup.js,                    *)
(* services/pelicanIdentities.js, services/hostnames.js, the requests of   *)
(* services/pelicanProvisioner.js, the completion of                       *)
(* services/fulfillmentQueue.js and three admin routes of                  *)
(* routes/api/admin.js.                                                    *)
(*                                                                         *)
(* A handler is one transaction and one action here.  The worker takes a   *)
(* step for every request it sends to the panel, with the purchase row as  *)
(* it was when the job was leased; the handlers run between these steps.   *)
(* Leases, retries and crashes are the subject of FulfillmentQueue, the    *)
(* sharing of slots that of SlotInventory: a purchase has its own slot     *)
(* here and the worker never dies.                                         *)
(***************************************************************************)
EXTENDS LifecycleState, Naturals, FiniteSets, FiniteSetsExt

CONSTANTS
    Customer,    \* Stripe customers
    Purchase,    \* ids of purchases; a lower id was inserted earlier
    Owner,       \* Stripe customer of a purchase
    Name,        \* panel user names, up to the case of letters
    Host,        \* host names that validateCustomerHostnameSlug accepts
    Allocation,  \* allocationIds of the provisioning target, in their order
    None,        \* an empty column
    Trouble,     \* the kinds of trouble that may happen, once each
    MaxKinds     \* bound: different kinds of trouble in a behaviour

\* A request or its answer is lost, a subscription ends, the admin reopens a
\* setup or edits a purchase, the operator removes a server on the panel.
TroubleKind == {"lost", "ends", "reopen", "edit", "removed"}

ASSUME ConstantsAssumption ==
    /\ Purchase \subseteq Nat /\ IsFiniteSet(Purchase)
    /\ Allocation \subseteq Nat /\ IsFiniteSet(Allocation)
    /\ Owner \in [Purchase -> Customer]
    /\ None \notin Customer \cup Name \cup Host \cup Allocation \cup Purchase
    /\ None \notin [account : Customer, allocation : Allocation]
    /\ Trouble \subseteq TroubleKind
    /\ MaxKinds \in Nat

VARIABLES
    (* purchases *)
    status,       \* "none" before the row exists
    ended,        \* stripeSubscriptionStatus is terminal
    named,        \* serverName is not empty: setupStatus is setup_submitted
    host,         \* hostnameReservationKey
    username,     \* pelicanUsername
    account,      \* pelicanUserId: the customer whose panel user it is
    staged,       \* a first-time password is stored
    fulfillment,  \* fulfillmentStatus
    allocation,   \* pelicanAllocationId
    slot,         \* status of the row of servers the purchase points to
    job,          \* state of its row in fulfillmentQueue
    link,         \* customerPelicanLinks
    (* the panel *)
    panelUser,    \* user name of the panel user with the customer's external id
    server,       \* the server with the purchase's external id
    (* the worker *)
    pc,           \* what it does next
    task,         \* job.purchaseId
    seen,         \* user and name in the job object
    result,       \* what the panel answered so far
    (* bounds *)
    trouble

setupVars == <<named, host, username, account, staged>>
purchaseVars == <<status, ended, setupVars, fulfillment, allocation, slot>>
panelVars == <<panelUser, server>>
workerVars == <<pc, task, seen, result>>

vars == <<purchaseVars, job, link, panelVars, workerVars, trouble>>

Identity == [account : Customer \cup {None}, name : Name \cup {None}]

Nobody == [account |-> None, name |-> None]

JobState == {"none", "queued", "leased", "completed", "needs_admin_review", "dead_letter"}

Init ==
    /\ status = [p \in Purchase |-> "none"]
    /\ ended = [p \in Purchase |-> FALSE]
    /\ named = [p \in Purchase |-> FALSE]
    /\ host = [p \in Purchase |-> None]
    /\ username = [p \in Purchase |-> None]
    /\ account = [p \in Purchase |-> None]
    /\ staged = [p \in Purchase |-> FALSE]
    /\ fulfillment = [p \in Purchase |-> "not_started"]
    /\ allocation = [p \in Purchase |-> None]
    /\ slot = [p \in Purchase |-> "available"]
    /\ job = [p \in Purchase |-> "none"]
    /\ link = [c \in Customer |-> Nobody]
    /\ panelUser = [c \in Customer |-> None]
    /\ server = [p \in Purchase |-> None]
    /\ pc = "idle"
    /\ task = None
    /\ seen = Nobody
    /\ result = [account |-> None, name |-> None, allocation |-> None]
    /\ trouble = {}

\* The step meets trouble of this kind, for the first time.
Meets(kind) ==
    /\ kind \in Trouble \ trouble
    /\ Cardinality(trouble \cup {kind}) <= MaxKinds
    /\ trouble' = trouble \cup {kind}

\* mergeLifecycleState: fulfillmentStatus of p from the status, the fulfilment
\* and the server name that are to be saved.
Derived(p, newStatus, newFulfillment, newNamed) ==
    DeriveFulfillment(newStatus, newFulfillment, job[p] = "leased", newNamed)

(***************************************************************************)
(* What is claimed                                                         *)
(***************************************************************************)

\* The row claims its host name and its allocation.
Claims(p) == status[p] \notin ClosedStatus

\* The setup of p was submitted and p is neither closed nor still unpaid.
Pending(p) ==
    /\ named[p]
    /\ username[p] # None
    /\ status[p] \in {"paid", "completed"}

\* findCustomerPelicanLinkByStripeCustomerId
Linked(c) == link[c] # Nobody

\* Mutant of PendingName: the user name of the oldest pending purchase of anybody.
PendingNameOfAnybody(p) ==
    LET others == {q \in Purchase \ {p} : Pending(q)}
    IN  IF others = {} THEN None ELSE username[Min(others)]

\* findPendingPelicanIdentityByStripeCustomerId: the user name of the customer's
\* oldest other pending purchase.
PendingName(p) ==
    LET others == {q \in Purchase \ {p} : Owner[q] = Owner[p] /\ Pending(q)}
    IN  IF others = {} THEN None ELSE username[Min(others)]

\* findPelicanUsernameConflict: the link with that name, then the oldest other
\* pending purchase with it, are looked at; any other is not.
NameTaken(p, n) ==
    LET others == {q \in Purchase \ {p} : Pending(q) /\ username[q] = n}
    IN  \/ \E c \in Customer \ {Owner[p]} : link[c].name = n
        \/ others # {} /\ Owner[Min(others)] # Owner[p]

\* The lookup of the host name; hostnameReleasedAt is never set.
HostTaken(p, h) ==
    \E q \in Purchase \ {p} : host[q] = h /\ Claims(q)

\* Mutant of IndexAllows: the table has no such index.
NoIndex(p, newStatus) == p \in Purchase /\ newStatus \in PurchaseStatus

\* idx_purchases_active_hostname_slug lets the row of p take this status.
IndexAllows(p, newStatus) ==
    \/ host[p] = None
    \/ newStatus \in ClosedStatus
    \/ \A q \in Purchase \ {p} : Claims(q) => host[q] # host[p]

(***************************************************************************)
(* Setup                                                                   *)
(***************************************************************************)

\* Checkout and payment.
Buy(p) ==
    /\ status[p] = "none"
    /\ status' = [status EXCEPT ![p] = "paid"]
    /\ slot' = [slot EXCEPT ![p] = "held"]
    /\ UNCHANGED <<ended, setupVars, fulfillment, allocation, job, link, panelVars,
                   workerVars, trouble>>

\* The user and the name a setup gets: those of the link, whatever was
\* requested; else the name that is pending for the customer, unless another one
\* was requested; else the requested one, unless it is claimed.
Chosen(p, requested) ==
    LET pending == PendingName(p)
    IN  CASE Linked(Owner[p]) -> {link[Owner[p]]}
          [] ~Linked(Owner[p]) /\ pending # None ->
                {[account |-> None, name |-> n] :
                    n \in {m \in {pending} : requested \in {None, m}}}
          [] OTHER ->
                {[account |-> None, name |-> n] :
                    n \in {m \in {requested} \ {None} : ~NameTaken(p, m)}}

\* enqueueProvisioningJobForPurchase: a parked row starts again.
Enqueued(p) ==
    job' = [job EXCEPT ![p] =
        IF @ \in {"none", "needs_admin_review", "dead_letter"} THEN "queued" ELSE @]

\* POST /complete-setup.  A password comes with it whenever one is needed.
SubmitSetup(p, requested, h) ==
    /\ status[p] \in {"paid", "completed"}
    /\ ~named[p]
    /\ ~HostTaken(p, h)
    /\ \E who \in Chosen(p, requested) :
        /\ username' = [username EXCEPT ![p] = who.name]
        /\ account' = [account EXCEPT ![p] = who.account]
        /\ staged' = [staged EXCEPT ![p] = who.account = None]
    /\ named' = [named EXCEPT ![p] = TRUE]
    /\ host' = [host EXCEPT ![p] = h]
    /\ LET next == Derived(p, status[p], fulfillment[p], TRUE)
       IN  /\ fulfillment' = [fulfillment EXCEPT ![p] = next]
           /\ IF next = "queued" THEN Enqueued(p) ELSE UNCHANGED job
    /\ UNCHANGED <<status, ended, allocation, slot, link, panelVars, workerVars, trouble>>

(***************************************************************************)
(* The worker and the panel                                                *)
(***************************************************************************)

\* getProvisioningContractErrors is empty.
ContractOk(p) ==
    /\ status[p] = "paid"
    /\ slot[p] = "held"
    /\ named[p]
    /\ host[p] # None
    /\ username[p] # None
    /\ account[p] # None \/ staged[p]

\* leaseNextFulfillmentJob and the check of the contract.
Lease(p) ==
    /\ pc = "idle"
    /\ job[p] = "queued"
    /\ job' = [job EXCEPT ![p] = "leased"]
    /\ fulfillment' = [fulfillment EXCEPT
            ![p] = DeriveFulfillment(status[p], "provisioning", TRUE, named[p])]
    /\ pc' = IF ContractOk(p) THEN "lookup" ELSE "refused"
    /\ task' = p
    /\ seen' = [account |-> account[p], name |-> username[p]]
    /\ UNCHANGED <<status, ended, setupVars, allocation, slot, link, panelVars, result,
                   trouble>>

\* A step of the worker that changes nothing in the database.
OnlyPanel == UNCHANGED <<purchaseVars, job, link, task, seen>>

\* getServerByExternalId.  The name of a server that is there already is the
\* one in the job object, whoever the panel says the server belongs to.
LookupServer ==
    /\ pc = "lookup"
    /\ IF server[task] = None
       THEN pc' = "user" /\ UNCHANGED result
       ELSE /\ pc' = "finalize"
            /\ result' = [account |-> server[task].account, name |-> seen.name,
                           allocation |-> server[task].allocation]
    /\ OnlyPanel
    /\ UNCHANGED <<panelVars, trouble>>

\* The user is known, the server is not there yet.
Known(who) == [account |-> who.account, name |-> who.name, allocation |-> None]

\* Mutant of ReuseUser: a panel user with the name in the job is taken for the
\* customer's.
ReuseUserByName ==
    /\ pc = "user"
    /\ \/ seen.account # None /\ result' = Known(seen)
       \/ \E c \in Customer :
            /\ seen.account = None
            /\ panelUser[c] = seen.name
            /\ result' = Known([account |-> c, name |-> seen.name])
    /\ pc' = "create"
    /\ OnlyPanel
    /\ UNCHANGED <<panelVars, trouble>>

\* Mutant of ReuseUser: the name of the setup is kept.
ReuseUserAsNamed ==
    /\ pc = "user"
    /\ seen.account # None \/ panelUser[Owner[task]] # None
    /\ pc' = "create"
    /\ result' = Known([account |-> Owner[task], name |-> seen.name])
    /\ OnlyPanel
    /\ UNCHANGED <<panelVars, trouble>>

\* ensurePelicanUser without a request that creates: the user of the job, or
\* the one that has the customer's external id.
ReuseUser ==
    /\ pc = "user"
    /\ seen.account # None \/ panelUser[Owner[task]] # None
    /\ pc' = "create"
    /\ result' = Known(IF seen.account # None THEN seen
                       ELSE [account |-> Owner[task], name |-> panelUser[Owner[task]]])
    /\ OnlyPanel
    /\ UNCHANGED <<panelVars, trouble>>

\* ensurePelicanUser creates the user.  The panel refuses a name it has.
CreateUser ==
    /\ pc = "user"
    /\ seen.account = None
    /\ panelUser[Owner[task]] = None
    /\ IF \E c \in Customer : panelUser[c] = seen.name
       THEN pc' = "refused" /\ UNCHANGED <<panelVars, result, trouble>>
       ELSE /\ panelUser' = [panelUser EXCEPT ![Owner[task]] = seen.name]
            /\ \/ pc' = "create" /\ UNCHANGED trouble
               \/ pc' = "failed" /\ Meets("lost")
            /\ result' = Known([account |-> Owner[task], name |-> seen.name])
            /\ UNCHANGED server
    /\ OnlyPanel

\* The allocations selectAllocationId chooses from: no other row records them.
\* A server whose completion failed is in no row.
Unused(p) ==
    Allocation \ {allocation[q] : q \in {r \in Purchase \ {p} : Claims(r)}}

\* Allocations of servers of the panel.
Occupied == {server[q].allocation : q \in {r \in Purchase : server[r] # None}}

\* selectAllocationId and the POST of the server.  The panel refuses an
\* allocation that another server has.
CreateServer ==
    /\ pc = "create"
    /\ IF Unused(task) = {} \/ Min(Unused(task)) \in Occupied
       THEN pc' = "refused" /\ UNCHANGED <<server, result, trouble>>
       ELSE /\ server' = [server EXCEPT ![task] =
                    [account |-> result.account, allocation |-> Min(Unused(task))]]
            /\ result' = [result EXCEPT !.allocation = Min(Unused(task))]
            /\ \/ pc' = "finalize" /\ UNCHANGED trouble
               \/ pc' = "failed" /\ Meets("lost")
    /\ OnlyPanel
    /\ UNCHANGED panelUser

\* A request fails without an effect on the panel.
RequestFails ==
    /\ pc \in {"lookup", "user", "create"}
    /\ Meets("lost")
    /\ pc' = "failed"
    /\ OnlyPanel
    /\ UNCHANGED <<panelVars, result>>

\* Mutant of WorkerDone: the worker keeps the job in mind.
WorkerDoneHolding ==
    /\ pc' = "idle"
    /\ seen' = Nobody
    /\ result' = Known(Nobody)
    /\ UNCHANGED task

\* The worker lets go of its job.
WorkerDone ==
    /\ pc' = "idle"
    /\ task' = None
    /\ seen' = Nobody
    /\ result' = Known(Nobody)

\* The job and the purchase at the end of an attempt.
GiveBack(newJob, newFulfillment) ==
    /\ job' = [job EXCEPT ![task] = newJob]
    /\ fulfillment' = [fulfillment EXCEPT ![task] =
            DeriveFulfillment(status[task], newFulfillment, FALSE, named[task])]
    /\ WorkerDone

\* A refusal goes to the admin, a failure is tried once more or goes there too.
EndAttempt ==
    /\ \/ pc \in {"refused", "failed"} /\ GiveBack("needs_admin_review", "needs_admin_review")
       \/ pc = "failed" /\ GiveBack("queued", "retryable_failure")
    /\ UNCHANGED <<status, ended, setupVars, allocation, slot, link, panelVars, trouble>>

\* The slot is no longer held, or another customer's link has the name and its
\* index refuses the row: everything is rolled back, the server stays.
CompletionRefused ==
    \/ slot[task] # "held"
    \/ \E c \in Customer \ {Owner[task]} : link[c].name = result.name

\* completeLeasedProvisioningJob: the job, the purchase, the slot and the link.
Complete ==
    /\ pc = "finalize"
    /\ ~CompletionRefused
    /\ job' = [job EXCEPT ![task] = "completed"]
    /\ fulfillment' = [fulfillment EXCEPT ![task] =
            DeriveFulfillment(status[task], "pending_activation", FALSE, named[task])]
    /\ account' = [account EXCEPT ![task] = result.account]
    /\ username' = [username EXCEPT ![task] = result.name]
    /\ allocation' = [allocation EXCEPT ![task] = result.allocation]
    /\ staged' = [staged EXCEPT ![task] = FALSE]
    /\ slot' = [slot EXCEPT ![task] = "allocated"]
    /\ link' = [link EXCEPT ![Owner[task]] =
                    [account |-> result.account, name |-> result.name]]
    /\ WorkerDone
    /\ UNCHANGED <<status, ended, named, host, panelVars, trouble>>

\* The completion is refused and the job goes to the dead letters.
CompletionFails ==
    /\ pc = "finalize"
    /\ CompletionRefused
    /\ GiveBack("dead_letter", "dead_letter")
    /\ UNCHANGED <<status, ended, setupVars, allocation, slot, link, panelVars, trouble>>

(***************************************************************************)
(* Stripe, the admin and the operator                                      *)
(***************************************************************************)

\* syncPurchaseSubscription with a terminal status.
SubscriptionEnds(p) ==
    /\ status[p] \in {"paid", "completed"}
    /\ ~ended[p]
    /\ Meets("ends")
    /\ ended' = [ended EXCEPT ![p] = TRUE]
    /\ LET next == IF status[p] = "paid" THEN "cancelled" ELSE status[p]
       IN  /\ status' = [status EXCEPT ![p] = next]
           /\ fulfillment' = [fulfillment EXCEPT
                    ![p] = Derived(p, next, fulfillment[p], named[p])]
    /\ slot' = [slot EXCEPT ![p] = "available"]
    /\ UNCHANGED <<setupVars, allocation, job, link, panelVars, workerVars>>

\* POST /complete: getReadyReleaseErrors is empty and routing is verified.  The
\* ready mail tells the customer the user name of the row.
ReleaseReady(p) ==
    /\ status[p] = "paid"
    /\ fulfillment[p] = "pending_activation"
    /\ slot[p] = "allocated"
    /\ named[p] /\ host[p] # None
    /\ None \notin {account[p], username[p], allocation[p]}
    /\ status' = [status EXCEPT ![p] = "completed"]
    /\ fulfillment' = [fulfillment EXCEPT ![p] = "ready"]
    /\ UNCHANGED <<ended, setupVars, allocation, slot, job, link, panelVars, workerVars,
                   trouble>>

\* POST requeue-fulfillment
Requeue(p) ==
    /\ status[p] = "paid"
    /\ fulfillment[p] \in {"needs_admin_review", "dead_letter", "retryable_failure"}
    /\ ContractOk(p)
    /\ job[p] \notin {"queued", "leased"}
    /\ job' = [job EXCEPT ![p] = "queued"]
    /\ fulfillment' = [fulfillment EXCEPT ![p] = "queued"]
    /\ UNCHANGED <<status, ended, setupVars, allocation, slot, link, panelVars,
                   workerVars, trouble>>

\* POST reopen-setup: getSetupReopenErrors is empty.  The panel keeps what the
\* first setup has made there.
ReopenSetup(p) ==
    /\ status[p] = "paid"
    /\ slot[p] = "held"
    /\ fulfillment[p] \in {"not_started", "needs_admin_review", "dead_letter",
                           "retryable_failure"}
    /\ account[p] = None /\ allocation[p] = None
    /\ job[p] \notin {"queued", "leased", "completed"}
    /\ Meets("reopen")
    /\ named' = [named EXCEPT ![p] = FALSE]
    /\ host' = [host EXCEPT ![p] = None]
    /\ username' = [username EXCEPT ![p] = None]
    /\ staged' = [staged EXCEPT ![p] = FALSE]
    /\ fulfillment' = [fulfillment EXCEPT ![p] = "not_started"]
    /\ UNCHANGED <<status, ended, account, allocation, slot, job, link, panelVars,
                   workerVars>>

\* inferServerStatus
InferredSlot(p, newStatus) ==
    CASE newStatus = "completed" -> IF ended[p] THEN "available" ELSE "allocated"
      [] newStatus = "paid" ->
            IF fulfillment[p] = "pending_activation" THEN "allocated" ELSE "held"
      [] newStatus \in ClosedStatus -> "available"
      [] OTHER -> "held"

\* PATCH purchases/:purchaseId with any status and a server name that is kept,
\* set or cleared.  No other claim of the purchase is looked at, except by the
\* index.
Edit(p, newStatus, newNamed) ==
    /\ status[p] # "none"
    /\ newStatus \in ClosedStatus => ended[p]
    /\ IndexAllows(p, newStatus)
    /\ Meets("edit")
    /\ status' = [status EXCEPT ![p] = newStatus]
    /\ named' = [named EXCEPT ![p] = newNamed]
    /\ fulfillment' = [fulfillment EXCEPT
            ![p] = Derived(p, newStatus, fulfillment[p], newNamed)]
    /\ slot' = [slot EXCEPT ![p] = InferredSlot(p, newStatus)]
    /\ UNCHANGED <<ended, host, username, account, staged, allocation, job, link,
                   panelVars, workerVars>>

\* When a service is over, the operator removes its server on the panel; no row
\* is told.
RemoveServer(p) ==
    /\ ended[p]
    /\ server[p] # None
    /\ Meets("removed")
    /\ server' = [server EXCEPT ![p] = None]
    /\ UNCHANGED <<purchaseVars, job, link, panelUser, workerVars>>

Next ==
    \/ \E p \in Purchase :
        \/ Buy(p)
        \/ \E n \in Name \cup {None}, h \in Host : SubmitSetup(p, n, h)
        \/ Lease(p)
        \/ SubscriptionEnds(p)
        \/ ReleaseReady(p)
        \/ Requeue(p)
        \/ ReopenSetup(p)
        \/ \E s \in PurchaseStatus, n \in BOOLEAN : Edit(p, s, n)
        \/ RemoveServer(p)
    \/ LookupServer
    \/ ReuseUser
    \/ CreateUser
    \/ CreateServer
    \/ RequestFails
    \/ EndAttempt
    \/ Complete
    \/ CompletionFails

Spec == Init /\ [][Next]_vars

(***************************************************************************)
(* Properties                                                              *)
(***************************************************************************)

\* Every variable has its type; a staged password belongs to a setup without a
\* panel user, and the worker's job is the only one that is leased.
TypeOK ==
    /\ status \in [Purchase -> PurchaseStatus \cup {"none"}]
    /\ ended \in [Purchase -> BOOLEAN] /\ named \in [Purchase -> BOOLEAN]
    /\ host \in [Purchase -> Host \cup {None}]
    /\ username \in [Purchase -> Name \cup {None}]
    /\ account \in [Purchase -> Customer \cup {None}]
    /\ staged \in [Purchase -> BOOLEAN]
    /\ \A p \in Purchase : staged[p] => account[p] = None
    /\ fulfillment \in [Purchase -> FulfillmentStatus]
    /\ allocation \in [Purchase -> Allocation \cup {None}]
    /\ slot \in [Purchase -> ServerStatus]
    /\ job \in [Purchase -> JobState]
    /\ \A p \in Purchase : job[p] = "leased" <=> task = p
    /\ link \in [Customer -> Identity]
    /\ panelUser \in [Customer -> Name \cup {None}]
    /\ server \in [Purchase -> {None} \cup
                        [account : Customer, allocation : Allocation]]
    /\ pc \in {"idle", "lookup", "user", "create", "finalize", "failed", "refused"}
    /\ task \in Purchase \cup {None}
    /\ seen \in Identity
    /\ result \in [account : Customer \cup {None}, name : Name \cup {None},
                   allocation : Allocation \cup {None}]
    /\ trouble \in SUBSET Trouble

\* docs/OBERYNHOST_AUTOMATION_PLAN_FROZEN.md:193: no name that a customer enters
\* gives access to somebody else's panel user.  The link of a customer, the rows
\* of its purchases and their servers on the panel all carry its own user,
\* through reopened setups, lost answers and the admin's edits.
OwnAccount ==
    /\ \A c \in Customer : link[c].account \in {c, None}
    /\ \A p \in Purchase :
        /\ account[p] \in {Owner[p], None}
        /\ server[p] # None => server[p].account = Owner[p]

\* docs/OBERYNHOST_AUTOMATION_PLAN_FROZEN.md:110: two purchases that are neither
\* cancelled nor expired never hold the same host name, not even when an edit
\* brings a purchase back whose name was given away meanwhile.  Nor do they
\* record the same allocation, even when the operator has removed the server of a
\* service that ended and the panel would give its allocation out again; only an
\* edit may bring a purchase back whose allocation has another owner by then.
ClaimsAreExclusive ==
    \A p, q \in Purchase :
        p # q /\ Claims(p) /\ Claims(q) =>
            /\ host[p] # None => host[p] # host[q]
            /\ allocation[p] # None /\ "edit" \notin trouble =>
                    allocation[p] # allocation[q]

\* The names a customer is known under: its link's and those of its pending
\* purchases.
NamesOf(c) ==
    {username[p] : p \in {q \in Purchase : Owner[q] = c /\ Pending(q)}}
        \cup ({link[c].name} \ {None})

\* As long as no setup was given up, that is no purchase was cancelled, reopened
\* or edited, a customer has one panel name and shares it with nobody, although
\* names are claimed by setups, by the panel's answers and by links, each in a
\* table of its own.
OneNameOneCustomer ==
    trouble \cap {"ends", "reopen", "edit"} = {} =>
        \A c, d \in Customer :
            /\ Cardinality(NamesOf(c)) <= 1
            /\ c # d => NamesOf(c) \cap NamesOf(d) = {}

\* docs/OBERYNHOST_AUTOMATION_PLAN_FROZEN.md:113: the ready mail carries the panel
\* user name.  The name a provisioned purchase has for it is the one the customer
\* can log in with, also when the panel knew the customer under another name than
\* the setup asked for.  It need not be when the panel made the server of a
\* purchase and the answer was lost, while an earlier setup of the customer was
\* given up (reopened, or its subscription ended): LookupServer then takes the
\* name of the row for the panel's.
MailedLoginWorks ==
    /\ "edit" \notin trouble
    /\ "lost" \in trouble => trouble \cap {"reopen", "ends"} = {}
    =>
        \A p \in Purchase :
            allocation[p] # None => username[p] = panelUser[Owner[p]]

=============================================================================
