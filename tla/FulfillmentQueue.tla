-------------------------- MODULE FulfillmentQueue --------------------------
(***************************************************************************)
(* The provisioning pipeline: the fulfillmentQueue table, the purchase     *)
(* columns the worker owns, the worker's tick, and the handlers that touch *)
(* the same rows while a worker is waiting for Pelican.                    *)
(*                                                                         *)
(* Source: backend/services/fulfillmentQueue.js, workers/                  *)
(* fulfillmentWorker.js, services/pelicanProvisioner.js, and the parts of  *)
(* routes/api/setup.js, routes/api/admin.js, services/purchases.js and     *)
(* db/init.js that write these columns.                                    *)
(*                                                                         *)
(* One BEGIN IMMEDIATE .. COMMIT is one step.  Every await outside a       *)
(* transaction separates two steps, so the web handlers interleave with a  *)
(* job at each Pelican request and between a failure and its recovery.     *)
(*                                                                         *)
(* Time is abstracted to two facts that time alone makes true: a lease has *)
(* run out (LeaseRunsOut) and a retry delay is over (RetryFallsDue).       *)
(***************************************************************************)
EXTENDS LifecycleState

CONSTANTS
    Purchase,        \* rows of the purchases table
    Slot,            \* rows of the servers table
    NoSlot,          \* purchases.serverId before checkout
    NoPurchase,      \* what an idle worker works on
    Worker,          \* concurrent runs of runFulfillmentWorkerIteration
    Repeat,          \* purchases of customers whose Pelican user is linked
    MaxAutoRetries,  \* DEFAULT_PROVISIONING_MAX_AUTO_RETRIES
    MaxRecoveries,   \* bound: admin requeues and setup reopenings
    MaxOverrides,    \* bound: free edits by the admin
    MaxUnanswered,   \* bound: create requests of a purchase given up by a live attempt
    MaxFaults        \* bound: process crashes and failing transactions

ASSUME ConstantsAssumption ==
    /\ Repeat \subseteq Purchase
    /\ NoSlot \notin Slot
    /\ NoPurchase \notin Purchase
    /\ MaxAutoRetries \in Nat
    /\ MaxRecoveries \in Nat
    /\ MaxOverrides \in Nat
    /\ MaxUnanswered \in Nat
    /\ MaxFaults \in Nat

VARIABLES
    (* purchases *)
    status,       \* "none" before the row exists, then a PurchaseStatus
    serverId,     \* the slot row the purchase points to, never cleared
    named,        \* serverName is not empty
    filled,       \* the other columns of the setup (host name, version, user name)
    staged,       \* the encrypted one-time Pelican password is stored
    fulfillment,  \* fulfillmentStatus
    lease,        \* workerLeaseKey, 0 for NULL
    leaseLive,    \* workerLeaseExpiresAt is in the future
    linked,       \* pelicanServerId, allocation and routing artifact are stored
    verified,     \* routingVerifiedAt is set
    (* servers *)
    slot,
    (* fulfillmentQueue: at most one row for a purchase, by idempotencyKey *)
    jobState,     \* "none" before the row exists
    jobKey,       \* leaseKey, 0 for NULL
    attempts,
    due,          \* availableAt has passed
    (* the worker's job object, in memory *)
    pc,           \* what the iteration does next
    task,         \* job.purchaseId
    key,          \* job.leaseKey
    mayRetry,     \* shouldAutoRetryProvisioningFailure on the leased snapshot
    leases,       \* lease keys issued for a job; generateOpaqueToken never repeats one
    (* the Pelican panel *)
    panel,        \* how many servers carry the external id of the purchase
    inFlight,     \* create requests on their way whose answer nobody waits for
    unanswered,   \* create requests a live attempt gave up without an answer
    (* bounds *)
    recoveries,
    overrides,
    faults

purchaseVars == <<status, serverId, named, filled, staged, fulfillment, lease, leaseLive,
                  linked, verified>>
jobVars == <<jobState, jobKey, attempts, due>>
workerVars == <<pc, task, key, mayRetry, leases>>
panelVars == <<panel, inFlight, unanswered>>
boundVars == <<recoveries, overrides, faults>>

vars == <<purchaseVars, slot, jobVars, workerVars, panelVars, boundVars>>

JobState == {"queued", "leased", "completed", "needs_admin_review", "dead_letter"}

\* The purchase points to a slot row with the given status.
SlotIs(p, wanted) == serverId[p] # NoSlot /\ slot[serverId[p]] = wanted

\* purchase.pelicanUserId: copied from the customer link at setup submit for a
\* linked customer, written by finalization for everybody else.
HasPelicanUser(p) == linked[p] \/ (filled[p] /\ p \in Repeat)

\* getProvisioningContractErrors is empty.
ContractOk(p) ==
    /\ status[p] = "paid"
    /\ SlotIs(p, "held")
    /\ named[p]
    /\ filled[p]
    /\ HasPelicanUser(p) \/ staged[p]

Init ==
    /\ status = [p \in Purchase |-> "none"]
    /\ serverId = [p \in Purchase |-> NoSlot]
    /\ named = [p \in Purchase |-> FALSE]
    /\ filled = [p \in Purchase |-> FALSE]
    /\ staged = [p \in Purchase |-> FALSE]
    /\ fulfillment = [p \in Purchase |-> "not_started"]
    /\ lease = [p \in Purchase |-> 0]
    /\ leaseLive = [p \in Purchase |-> FALSE]
    /\ linked = [p \in Purchase |-> FALSE]
    /\ verified = [p \in Purchase |-> FALSE]
    /\ slot = [s \in Slot |-> "available"]
    /\ jobState = [p \in Purchase |-> "none"]
    /\ jobKey = [p \in Purchase |-> 0]
    /\ attempts = [p \in Purchase |-> 0]
    /\ due = [p \in Purchase |-> FALSE]
    /\ pc = [w \in Worker |-> "idle"]
    /\ task = [w \in Worker |-> NoPurchase]
    /\ key = [w \in Worker |-> 0]
    /\ mayRetry = [w \in Worker |-> FALSE]
    /\ leases = [p \in Purchase |-> 0]
    /\ panel = [p \in Purchase |-> 0]
    /\ inFlight = [p \in Purchase |-> 0]
    /\ unanswered = [p \in Purchase |-> 0]
    /\ recoveries = 0
    /\ overrides = 0
    /\ faults = 0

(***************************************************************************)
(* Checkout and Stripe.  Each action is a handler that runs without a      *)
(* second writer on its rows; the interleavings inside these handlers are  *)
(* the subject of SlotInventory.                                           *)
(***************************************************************************)

\* Mutant of Checkout: the row is inserted without its slot.
CheckoutWithoutSlot(p, s) ==
    /\ status[p] = "none"
    /\ slot[s] = "available"
    /\ status' = [status EXCEPT ![p] = "checkout_pending"]
    /\ slot' = [slot EXCEPT ![s] = "held"]
    /\ UNCHANGED <<serverId, named, filled, staged, fulfillment, lease, leaseLive,
                   linked, verified, jobVars, workerVars, panelVars, boundVars>>

\* create-checkout commits: the slot is held and the purchase row exists.
Checkout(p, s) ==
    /\ status[p] = "none"
    /\ slot[s] = "available"
    /\ status' = [status EXCEPT ![p] = "checkout_pending"]
    /\ serverId' = [serverId EXCEPT ![p] = s]
    /\ slot' = [slot EXCEPT ![s] = "held"]
    /\ UNCHANGED <<named, filled, staged, fulfillment, lease, leaseLive, linked,
                   verified, jobVars, workerVars, panelVars, boundVars>>

\* releaseServerIfNeeded: frees the row whoever holds it now.
ReleasedSlot(p) ==
    [slot EXCEPT ![serverId[p]] = IF @ \in {"held", "allocated"} THEN "available" ELSE @]

\* checkout.session.expired reaches expirePurchase.
CheckoutExpires(p) ==
    /\ status[p] = "checkout_pending"
    /\ status' = [status EXCEPT ![p] = "expired"]
    /\ fulfillment' = [fulfillment EXCEPT
            ![p] = DeriveFulfillment("expired", @, leaseLive[p], named[p])]
    /\ slot' = ReleasedSlot(p)
    /\ UNCHANGED <<serverId, named, filled, staged, lease, leaseLive, linked, verified,
                   jobVars, workerVars, panelVars, boundVars>>

\* markPurchasePaid, and syncPurchaseSubscription with a status that is not
\* terminal: a pending purchase is paid, any other keeps its status, and the
\* derived columns are written again.
StripeConfirms(p) ==
    /\ status[p] \in {"checkout_pending", "paid", "completed", "cancelled"}
    /\ LET next == IF status[p] = "checkout_pending" THEN "paid" ELSE status[p]
       IN  /\ status' = [status EXCEPT ![p] = next]
           /\ fulfillment' = [fulfillment EXCEPT
                    ![p] = DeriveFulfillment(next, @, leaseLive[p], named[p])]
    /\ UNCHANGED <<serverId, named, filled, staged, lease, leaseLive, linked, verified,
                   slot, jobVars, workerVars, panelVars, boundVars>>

\* syncPurchaseSubscription with a terminal status: a purchase that is not
\* fulfilled is cancelled, and the slot is released in every case.
SubscriptionEnds(p) ==
    /\ status[p] \in {"checkout_pending", "paid", "completed", "cancelled"}
    /\ LET next == IF status[p] \in {"checkout_pending", "paid"} THEN "cancelled"
                   ELSE status[p]
       IN  /\ status' = [status EXCEPT ![p] = next]
           /\ fulfillment' = [fulfillment EXCEPT
                    ![p] = DeriveFulfillment(next, @, leaseLive[p], named[p])]
    /\ slot' = ReleasedSlot(p)
    /\ UNCHANGED <<serverId, named, filled, staged, lease, leaseLive, linked, verified,
                   jobVars, workerVars, panelVars, boundVars>>

(***************************************************************************)
(* Setup                                                                   *)
(***************************************************************************)

\* enqueueProvisioningJobForPurchase: insert the row, or put a parked row back
\* to the start; a queued, leased or completed row stays as it is.
Enqueued(p) ==
    IF jobState[p] \in {"none", "needs_admin_review", "dead_letter"}
    THEN /\ jobState' = [jobState EXCEPT ![p] = "queued"]
         /\ jobKey' = [jobKey EXCEPT ![p] = 0]
         /\ attempts' = [attempts EXCEPT ![p] = 0]
         /\ due' = [due EXCEPT ![p] = TRUE]
    ELSE UNCHANGED jobVars

\* No effectivePelicanUserId: the customer has no link yet, neither from the start nor
\* from the completion of this purchase.
NeedsPassword(p) == p \notin Repeat /\ ~linked[p]

\* POST /complete-setup with valid input.  Only the server name tells that there was
\* a submission, so after a free edit has cleared it there is a second one, whatever
\* state the job is in.
SubmitSetup(p) ==
    /\ status[p] \in {"paid", "completed"}
    /\ ~named[p]
    /\ named' = [named EXCEPT ![p] = TRUE]
    /\ filled' = [filled EXCEPT ![p] = TRUE]
    /\ staged' = [staged EXCEPT ![p] = NeedsPassword(p)]
    /\ LET next == DeriveFulfillment(status[p], fulfillment[p], leaseLive[p], TRUE)
       IN  /\ fulfillment' = [fulfillment EXCEPT ![p] = next]
           /\ IF next = "queued" THEN Enqueued(p) ELSE UNCHANGED jobVars
    /\ UNCHANGED <<status, serverId, lease, leaseLive, linked, verified, slot,
                   workerVars, panelVars, boundVars>>

(***************************************************************************)
(* The worker                                                              *)
(***************************************************************************)

\* The WHERE clause of the lease query.
Leasable(p) ==
    /\ jobState[p] = "queued"
    /\ due[p]
    /\ lease[p] = 0 \/ ~leaseLive[p]

\* Mutant of RetryLeft: counts from zero, so that one more attempt is made.
RetryLeftFromZero(p) == attempts[p] <= MaxAutoRetries

\* shouldAutoRetryProvisioningFailure for the attempt that a lease begins.
RetryLeft(p) == attempts[p] + 1 <= MaxAutoRetries

\* leaseNextFulfillmentJob.  The query takes the oldest row that is queued,
\* due and of a purchase without a live lease; the model takes any of them.
\* The returned snapshot decides two things at once: whether the contract
\* check passes and, from the attempts before this one, whether a failure may
\* be retried without an operator.
Lease(w, p) ==
    /\ pc[w] = "idle"
    /\ Leasable(p)
    /\ leases' = [leases EXCEPT ![p] = @ + 1]
    /\ jobState' = [jobState EXCEPT ![p] = "leased"]
    /\ jobKey' = [jobKey EXCEPT ![p] = leases[p] + 1]
    /\ attempts' = [attempts EXCEPT ![p] = @ + 1]
    /\ lease' = [lease EXCEPT ![p] = leases[p] + 1]
    /\ leaseLive' = [leaseLive EXCEPT ![p] = TRUE]
    /\ fulfillment' = [fulfillment EXCEPT
            ![p] = DeriveFulfillment(status[p], "provisioning", TRUE, named[p])]
    /\ pc' = [pc EXCEPT ![w] = IF ContractOk(p) THEN "lookup" ELSE "failed"]
    /\ task' = [task EXCEPT ![w] = p]
    /\ key' = [key EXCEPT ![w] = leases[p] + 1]
    /\ mayRetry' = [mayRetry EXCEPT
            ![w] = ContractOk(p) /\ RetryLeft(p)]
    /\ UNCHANGED <<status, serverId, named, filled, staged, linked, verified, slot, due,
                   panelVars, boundVars>>

\* Mutant of LookupFinds: an answer without a server is taken for one.
LookupFindsAlways(w) ==
    /\ pc[w] = "lookup"
    /\ \E next \in {"finalize", "salvage"} : pc' = [pc EXCEPT ![w] = next]
    /\ UNCHANGED <<task, key, mayRetry, leases, purchaseVars, slot, jobVars, panelVars,
                   boundVars>>

\* getServerByExternalId finds a server.  Its attributes may lack an id, an
\* identifier or an allocation, and the job then goes to the dead letters.
LookupFinds(w) ==
    /\ pc[w] = "lookup"
    /\ panel[task[w]] > 0
    /\ \E next \in {"finalize", "salvage"} : pc' = [pc EXCEPT ![w] = next]
    /\ UNCHANGED <<task, key, mayRetry, leases, purchaseVars, slot, jobVars, panelVars,
                   boundVars>>

\* Mutant of LookupMisses: the create request is sent without a lookup.
LookupSkipped(w) ==
    /\ pc[w] = "lookup"
    /\ pc' = [pc EXCEPT ![w] = "prepare"]
    /\ UNCHANGED <<task, key, mayRetry, leases, purchaseVars, slot, jobVars, panelVars,
                   boundVars>>

\* HTTP 404: go on to the user, the allocation and the create request.
LookupMisses(w) ==
    /\ pc[w] = "lookup"
    /\ panel[task[w]] = 0
    /\ pc' = [pc EXCEPT ![w] = "prepare"]
    /\ UNCHANGED <<task, key, mayRetry, leases, purchaseVars, slot, jobVars, panelVars,
                   boundVars>>

\* ensurePelicanUser and selectAllocationId succeed; the POST is sent.
SendCreate(w) ==
    /\ pc[w] = "prepare"
    /\ pc' = [pc EXCEPT ![w] = "creating"]
    /\ UNCHANGED <<task, key, mayRetry, leases, purchaseVars, slot, jobVars, panelVars,
                   boundVars>>

\* The panel carries out the POST.  The answer is complete, or incomplete, or
\* lost (a broken connection or HTTP 5xx: a transient failure).  Nothing in the
\* code relies on the panel refusing an external id in use, so that a second
\* server may be made; where the panel does refuse, the outcome is PelicanFails.
PanelCreates(w) ==
    /\ pc[w] = "creating"
    /\ panel' = [panel EXCEPT ![task[w]] = @ + 1]
    /\ \E next \in {"finalize", "salvage", "failed"} : pc' = [pc EXCEPT ![w] = next]
    /\ UNCHANGED <<task, key, mayRetry, leases, purchaseVars, slot, jobVars, inFlight,
                   unanswered, boundVars>>

\* Any request fails without an effect on the servers of the panel, and with
\* none to come.  A refusal (HTTP 4xx or a ProvisioningBlockedError of another
\* class) is never retried.
PelicanFails(w) ==
    /\ pc[w] \in {"lookup", "prepare", "creating"}
    /\ pc' = [pc EXCEPT ![w] = "failed"]
    /\ \E retryable \in BOOLEAN :
            mayRetry' = [mayRetry EXCEPT ![w] = @ /\ retryable]
    /\ UNCHANGED <<task, key, leases, purchaseVars, slot, jobVars, panelVars,
                   boundVars>>

\* fetch gives up on the POST, or a proxy answers 504 for the panel: a transient
\* failure for the live attempt, while the request may still be carried out.
CreateUnanswered(w) ==
    /\ pc[w] = "creating"
    /\ unanswered[task[w]] < MaxUnanswered
    /\ pc' = [pc EXCEPT ![w] = "failed"]
    /\ inFlight' = [inFlight EXCEPT ![task[w]] = @ + 1]
    /\ unanswered' = [unanswered EXCEPT ![task[w]] = @ + 1]
    /\ UNCHANGED <<task, key, mayRetry, leases, purchaseVars, slot, jobVars, panel,
                   boundVars>>

\* The guard of every finalization: the purchase and the queue row still carry
\* the lease key of the job.
OwnsLease(w) ==
    /\ lease[task[w]] = key[w]
    /\ jobState[task[w]] = "leased"
    /\ jobKey[task[w]] = key[w]

WorkerDone(w) ==
    /\ pc' = [pc EXCEPT ![w] = "idle"]
    /\ task' = [task EXCEPT ![w] = NoPurchase]
    /\ key' = [key EXCEPT ![w] = 0]
    /\ mayRetry' = [mayRetry EXCEPT ![w] = FALSE]
    /\ UNCHANGED leases

\* Mutant of GiveBack: only the purchase is updated, the queue row stays leased.
GiveBackPurchaseOnly(p, newJobState, newFulfillment) ==
    /\ lease' = [lease EXCEPT ![p] = 0]
    /\ leaseLive' = [leaseLive EXCEPT ![p] = FALSE]
    /\ fulfillment' = [fulfillment EXCEPT
            ![p] = DeriveFulfillment(status[p], newFulfillment, FALSE, named[p])]
    /\ UNCHANGED <<jobState, jobKey, attempts>>

\* The common part of the three ways a leased job is given back: new states of
\* the queue row and of the purchase, and no lease on either.
GiveBack(p, newJobState, newFulfillment) ==
    /\ jobState' = [jobState EXCEPT ![p] = newJobState]
    /\ jobKey' = [jobKey EXCEPT ![p] = 0]
    /\ lease' = [lease EXCEPT ![p] = 0]
    /\ leaseLive' = [leaseLive EXCEPT ![p] = FALSE]
    /\ fulfillment' = [fulfillment EXCEPT
            ![p] = DeriveFulfillment(status[p], newFulfillment, FALSE, named[p])]
    /\ UNCHANGED attempts

\* retryLeasedProvisioningJob: back to the queue after a delay.
Retry(w) ==
    /\ pc[w] = "failed"
    /\ mayRetry[w]
    /\ IF OwnsLease(w)
       THEN /\ GiveBack(task[w], "queued", "retryable_failure")
            /\ due' = [due EXCEPT ![task[w]] = FALSE]
       ELSE UNCHANGED <<jobVars, lease, leaseLive, fulfillment>>
    /\ WorkerDone(w)
    /\ UNCHANGED <<status, serverId, named, filled, staged, linked, verified, slot,
                   panelVars, boundVars>>

\* moveLeasedJobToAdminReview
MoveToAdminReview(w) ==
    /\ pc[w] = "failed"
    /\ ~mayRetry[w]
    /\ IF OwnsLease(w)
       THEN GiveBack(task[w], "needs_admin_review", "needs_admin_review") /\ UNCHANGED due
       ELSE UNCHANGED <<jobVars, lease, leaseLive, fulfillment>>
    /\ WorkerDone(w)
    /\ UNCHANGED <<status, serverId, named, filled, staged, linked, verified, slot,
                   panelVars, boundVars>>

\* moveLeasedJobToDeadLetter
MoveToDeadLetter(w) ==
    /\ pc[w] = "salvage"
    /\ IF OwnsLease(w)
       THEN GiveBack(task[w], "dead_letter", "dead_letter") /\ UNCHANGED due
       ELSE UNCHANGED <<jobVars, lease, leaseLive, fulfillment>>
    /\ WorkerDone(w)
    /\ UNCHANGED <<status, serverId, named, filled, staged, linked, verified, slot,
                   panelVars, boundVars>>

\* completeLeasedProvisioningJob: linkage, artifact, queue row and slot in one
\* transaction.  It looks at the lease and at the slot, not at the purchase's
\* status.  When a guard fails the job is dead-lettered next.
CompletionAllowed(w) == OwnsLease(w) /\ SlotIs(task[w], "held")

Complete(w) ==
    /\ pc[w] = "finalize"
    /\ CompletionAllowed(w)
    /\ GiveBack(task[w], "completed", "pending_activation")
    /\ linked' = [linked EXCEPT ![task[w]] = TRUE]
    /\ staged' = [staged EXCEPT ![task[w]] = FALSE]
    /\ slot' = [slot EXCEPT ![serverId[task[w]]] = "allocated"]
    /\ WorkerDone(w)
    /\ UNCHANGED <<status, serverId, named, filled, verified, due, panelVars,
                   boundVars>>

\* Mutant of CompletionFails: the linkage was written outside the transaction.
CompletionHalfDone(w) ==
    /\ pc[w] = "finalize"
    /\ pc' = [pc EXCEPT ![w] = "salvage"]
    /\ linked' = [linked EXCEPT ![task[w]] = TRUE]
    /\ UNCHANGED <<task, key, mayRetry, leases, status, serverId, named, filled, staged,
                   fulfillment, lease, leaseLive, verified, slot, jobVars, panelVars,
                   boundVars>>

\* The transaction is refused by a guard, or it throws: a constraint on
\* customerPelicanLinks, a busy connection, an unreadable routing artifact.
CompletionFails(w) ==
    /\ pc[w] = "finalize"
    /\ pc' = [pc EXCEPT ![w] = "salvage"]
    /\ UNCHANGED <<task, key, mayRetry, leases, purchaseVars, slot, jobVars, panelVars,
                   boundVars>>

\* A retry, review or dead-letter transaction throws.  The error ends the
\* iteration in tick(), which only logs it: nobody works on the job any more.
RecoveryThrows(w) ==
    /\ faults < MaxFaults
    /\ pc[w] \in {"failed", "salvage"}
    /\ WorkerDone(w)
    /\ faults' = faults + 1
    /\ UNCHANGED <<purchaseVars, slot, jobVars, panelVars, recoveries, overrides>>

(***************************************************************************)
(* The operator                                                            *)
(***************************************************************************)

\* Mutant of Requeueable: the purchase is complete, nothing else is asked.
RequeueableAnyTime(p) == ContractOk(p)

\* getFulfillmentRequeueErrors is empty.
Requeueable(p) ==
    /\ ContractOk(p)
    /\ fulfillment[p] \in {"needs_admin_review", "dead_letter", "retryable_failure"}
    /\ jobState[p] \notin {"queued", "leased"}

\* POST /admin/purchases/:id/requeue-fulfillment
Requeue(p) ==
    /\ recoveries < MaxRecoveries
    /\ Requeueable(p)
    /\ jobState' = [jobState EXCEPT ![p] = "queued"]
    /\ jobKey' = [jobKey EXCEPT ![p] = 0]
    /\ attempts' = [attempts EXCEPT ![p] = 0]
    /\ due' = [due EXCEPT ![p] = TRUE]
    /\ lease' = [lease EXCEPT ![p] = 0]
    /\ leaseLive' = [leaseLive EXCEPT ![p] = FALSE]
    /\ fulfillment' = [fulfillment EXCEPT
            ![p] = DeriveFulfillment(status[p], "queued", FALSE, named[p])]
    /\ recoveries' = recoveries + 1
    /\ UNCHANGED <<status, serverId, named, filled, staged, linked, verified, slot,
                   workerVars, panelVars, overrides, faults>>

\* Mutant of Reopenable: the state of the queue row is not looked at.
ReopenableAnyJob(p) ==
    /\ status[p] = "paid"
    /\ SlotIs(p, "held")
    /\ fulfillment[p] \in
            {"not_started", "needs_admin_review", "dead_letter", "retryable_failure"}
    /\ ~HasPelicanUser(p)

\* getSetupReopenErrors is empty.
Reopenable(p) ==
    /\ status[p] = "paid"
    /\ SlotIs(p, "held")
    /\ fulfillment[p] \in
            {"not_started", "needs_admin_review", "dead_letter", "retryable_failure"}
    /\ ~HasPelicanUser(p)
    /\ jobState[p] \notin {"queued", "leased", "completed"}

\* POST /admin/purchases/:id/reopen-setup
ReopenSetup(p) ==
    /\ recoveries < MaxRecoveries
    /\ Reopenable(p)
    /\ named' = [named EXCEPT ![p] = FALSE]
    /\ filled' = [filled EXCEPT ![p] = FALSE]
    /\ staged' = [staged EXCEPT ![p] = FALSE]
    /\ lease' = [lease EXCEPT ![p] = 0]
    /\ leaseLive' = [leaseLive EXCEPT ![p] = FALSE]
    /\ fulfillment' = [fulfillment EXCEPT
            ![p] = DeriveFulfillment(status[p], "not_started", FALSE, FALSE)]
    /\ recoveries' = recoveries + 1
    /\ UNCHANGED <<status, serverId, linked, verified, slot, jobVars, workerVars,
                   panelVars, overrides, faults>>

\* POST /admin/purchases/:id/verify-routing.  The comparison of the artifact with
\* the purchase, which can only refuse, is left out here and in ReleaseReady.
VerifyRouting(p) ==
    /\ status[p] = "paid"
    /\ fulfillment[p] = "pending_activation"
    /\ SlotIs(p, "allocated")
    /\ filled[p]
    /\ linked[p]
    /\ ~verified[p]
    /\ verified' = [verified EXCEPT ![p] = TRUE]
    /\ UNCHANGED <<status, serverId, named, filled, staged, fulfillment, lease,
                   leaseLive, linked, slot, jobVars, workerVars, panelVars, boundVars>>

\* Mutant of ReleaseReady: nobody has to vouch for the routing.
ReleaseUnverified(p, attested) ==
    /\ status[p] = "paid"
    /\ fulfillment[p] = "pending_activation"
    /\ SlotIs(p, "allocated")
    /\ named[p]
    /\ filled[p]
    /\ linked[p]
    /\ status' = [status EXCEPT ![p] = "completed"]
    /\ fulfillment' = [fulfillment EXCEPT
            ![p] = DeriveFulfillment("completed", @, leaseLive[p], named[p])]
    /\ UNCHANGED <<serverId, named, filled, staged, lease, leaseLive, linked, verified,
                   slot, jobVars, workerVars, panelVars, boundVars>>

\* POST /complete: release to the customer.  The operator may attest the
\* routing in the same request instead of verifying it beforehand.
ReleaseReady(p, attested) ==
    /\ status[p] = "paid"
    /\ fulfillment[p] = "pending_activation"
    /\ SlotIs(p, "allocated")
    /\ named[p]
    /\ filled[p]
    /\ linked[p]
    /\ attested \/ verified[p]
    /\ status' = [status EXCEPT ![p] = "completed"]
    /\ verified' = [verified EXCEPT ![p] = TRUE]
    /\ fulfillment' = [fulfillment EXCEPT
            ![p] = DeriveFulfillment("completed", @, leaseLive[p], named[p])]
    /\ UNCHANGED <<serverId, named, filled, staged, lease, leaseLive, linked, slot,
                   jobVars, workerVars, panelVars, boundVars>>

\* PATCH /admin/purchases/:id: any status on the purchase and on its slot row, and
\* a server name or none, while the other columns of the setup and the job stay
\* as they are.  What the handler refuses depends on the subscription, which
\* this module leaves open; SlotInventory has the exact guards.
AdminOverride(p, newStatus, newSlot, newNamed) ==
    /\ overrides < MaxOverrides
    /\ status[p] # "none"
    /\ overrides' = overrides + 1
    /\ status' = [status EXCEPT ![p] = newStatus]
    /\ named' = [named EXCEPT ![p] = newNamed]
    /\ slot' = [slot EXCEPT ![serverId[p]] = newSlot]
    /\ fulfillment' = [fulfillment EXCEPT
            ![p] = DeriveFulfillment(newStatus, @, leaseLive[p], newNamed)]
    /\ UNCHANGED <<serverId, filled, staged, lease, leaseLive, linked, verified,
                   jobVars, workerVars, panelVars, recoveries, faults>>

(***************************************************************************)
(* Time, crashes and restarts                                              *)
(***************************************************************************)

LeaseRunsOut(p) ==
    /\ leaseLive[p]
    /\ leaseLive' = [leaseLive EXCEPT ![p] = FALSE]
    /\ UNCHANGED <<status, serverId, named, filled, staged, fulfillment, lease, linked,
                   verified, slot, jobVars, workerVars, panelVars, boundVars>>

RetryFallsDue(p) ==
    /\ jobState[p] = "queued"
    /\ ~due[p]
    /\ due' = [due EXCEPT ![p] = TRUE]
    /\ UNCHANGED <<jobState, jobKey, attempts, purchaseVars, slot, workerVars,
                   panelVars, boundVars>>

\* The process dies and starts again.  Every iteration in memory is gone, a
\* create request may still be on its way to the panel, and db/init.js derives
\* the status columns of every purchase again (backfillLifecycleFields).
Restart ==
    /\ faults < MaxFaults
    /\ faults' = faults + 1
    /\ pc' = [w \in Worker |-> "idle"]
    /\ task' = [w \in Worker |-> NoPurchase]
    /\ key' = [w \in Worker |-> 0]
    /\ mayRetry' = [w \in Worker |-> FALSE]
    /\ inFlight' = [p \in Purchase |->
            IF \E w \in Worker : pc[w] = "creating" /\ task[w] = p
            THEN inFlight[p] + 1 ELSE inFlight[p]]
    /\ fulfillment' = [p \in Purchase |->
            DeriveFulfillment(status[p], fulfillment[p], leaseLive[p], named[p])]
    /\ UNCHANGED <<status, serverId, named, filled, staged, lease, leaseLive, linked,
                   verified, slot, jobVars, leases, panel, unanswered, recoveries,
                   overrides>>

\* The panel carries out a request whose sender has given up or is gone.
LateCreateLands(p) ==
    /\ inFlight[p] > 0
    /\ inFlight' = [inFlight EXCEPT ![p] = @ - 1]
    /\ panel' = [panel EXCEPT ![p] = @ + 1]
    /\ UNCHANGED <<purchaseVars, slot, jobVars, workerVars, unanswered, boundVars>>

(***************************************************************************)
(* The specification                                                       *)
(***************************************************************************)

WorkerStep(w) ==
    \/ \E p \in Purchase : Lease(w, p)
    \/ LookupFinds(w)
    \/ LookupMisses(w)
    \/ SendCreate(w)
    \/ PanelCreates(w)
    \/ PelicanFails(w)
    \/ CreateUnanswered(w)
    \/ Retry(w)
    \/ MoveToAdminReview(w)
    \/ MoveToDeadLetter(w)
    \/ Complete(w)
    \/ CompletionFails(w)

StripeStep(p) ==
    \/ \E s \in Slot : Checkout(p, s)
    \/ CheckoutExpires(p)
    \/ StripeConfirms(p)
    \/ SubscriptionEnds(p)

OperatorStep(p) ==
    \/ Requeue(p)
    \/ ReopenSetup(p)
    \/ VerifyRouting(p)
    \/ \E attested \in BOOLEAN : ReleaseReady(p, attested)
    \/ \E newStatus \in PurchaseStatus, newSlot \in ServerStatus, newNamed \in BOOLEAN :
            AdminOverride(p, newStatus, newSlot, newNamed)

TimeStep(p) == LeaseRunsOut(p) \/ RetryFallsDue(p)

Next ==
    \/ \E w \in Worker : WorkerStep(w) \/ RecoveryThrows(w)
    \/ \E p \in Purchase :
            StripeStep(p) \/ SubmitSetup(p) \/ OperatorStep(p) \/ TimeStep(p)
                \/ LateCreateLands(p)
    \/ Restart

Spec == Init /\ [][Next]_vars

\* startFulfillmentWorker re-arms its timer after every iteration, so a worker
\* that can step does; and time passes.
Fairness ==
    /\ \A w \in Worker : WF_vars(WorkerStep(w))
    /\ \A p \in Purchase : WF_vars(TimeStep(p))

FairSpec == Spec /\ Fairness

(***************************************************************************)
(* Safety                                                                  *)
(***************************************************************************)

TypeOK ==
    /\ status \in [Purchase -> PurchaseStatus \cup {"none"}]
    /\ serverId \in [Purchase -> Slot \cup {NoSlot}]
    /\ \A p \in Purchase : serverId[p] = NoSlot <=> status[p] = "none"
    /\ named \in [Purchase -> BOOLEAN]
    /\ filled \in [Purchase -> BOOLEAN]
    /\ staged \in [Purchase -> BOOLEAN]
    /\ fulfillment \in [Purchase -> FulfillmentStatus]
    /\ lease \in [Purchase -> Nat]
    /\ leaseLive \in [Purchase -> BOOLEAN]
    /\ linked \in [Purchase -> BOOLEAN]
    /\ verified \in [Purchase -> BOOLEAN]
    /\ slot \in [Slot -> ServerStatus]
    /\ jobState \in [Purchase -> JobState \cup {"none"}]
    /\ jobKey \in [Purchase -> Nat]
    /\ attempts \in [Purchase -> Nat]
    /\ due \in [Purchase -> BOOLEAN]
    /\ pc \in [Worker -> {"idle", "lookup", "prepare", "creating", "failed", "finalize",
                          "salvage"}]
    /\ task \in [Worker -> Purchase \cup {NoPurchase}]
    /\ \A w \in Worker : task[w] = NoPurchase <=> pc[w] = "idle"
    /\ key \in [Worker -> Nat]
    /\ mayRetry \in [Worker -> BOOLEAN]
    /\ leases \in [Purchase -> Nat]
    /\ panel \in [Purchase -> Nat]
    /\ inFlight \in [Purchase -> Nat]
    /\ unanswered \in [Purchase -> Nat]
    /\ recoveries \in Nat
    /\ overrides \in Nat
    /\ faults \in Nat

Busy(w) == pc[w] # "idle"

\* A worker keeps the lease of its job until it gives the job back itself, however
\* long Pelican takes and whatever the operator, Stripe or a second worker do
\* meanwhile: the outcome of an attempt is never discarded by the lease
\* guards, although the lease may have expired long ago.
LeaseIsHeld == \A w \in Worker : Busy(w) => OwnsLease(w)

\* Two concurrent iterations never work on the same purchase.
OneWorkerPerPurchase ==
    \A v, w \in Worker : v # w /\ Busy(v) => task[v] # task[w]

\* "No purchase may provision twice": at most one server carries the purchase's
\* external id.  The code does not see to it: see ServersAreAccountedFor.
NeverProvisionedTwice == \A p \in Purchase : panel[p] <= 1

\* Every server of a purchase but one is owed to a create request that a live
\* attempt gave up without an answer.  Lost answers, retries, requeues, reopened
\* setups and requests that land after a crash make no second server; without an
\* unanswered request a purchase has at most one.
ServersAreAccountedFor == \A p \in Purchase : panel[p] <= 1 + unanswered[p]

\* One automatic retry: between two interventions of the operator a job is
\* attempted at most once more than the configured number of retries.
RetriesAreBounded == \A p \in Purchase : attempts[p] <= MaxAutoRetries + 1

\* Local linkage and the end of the job are stored together or not at all, and
\* only for a server that exists on the panel.
LinkageEndsTheJob ==
    \A p \in Purchase :
        /\ linked[p] <=> jobState[p] = "completed"
        /\ linked[p] => panel[p] > 0

\* Staged Pelican passwords are gone once provisioning has succeeded, also when
\* an edit clears the server name and the setup is submitted again, during the
\* attempt or after it.
PasswordIsCleared == \A p \in Purchase : linked[p] => ~staged[p]

\* Linkage, the end of the job, the server and the password agree, over failing
\* transactions, retries, crashes, edits and second submissions.
LinkageIsBacked == LinkageEndsTheJob /\ PasswordIsCleared

Active(p) == jobState[p] \in {"queued", "leased"}

\* A queued or leased job keeps the setup it was queued for: its host name and the
\* other columns, and a user or a password for one.  A second submission, a
\* requeue and a free edit do not take them away, and no setup is reopened under
\* a job.  Only the server name may go, and only by a free edit.
JobKeepsItsSetup ==
    \A p \in Purchase :
        Active(p) => /\ filled[p]
                     /\ HasPelicanUser(p) \/ staged[p]
                     /\ overrides = 0 => named[p]

\* Ready services have Pelican linkage and verified routing.  (The admin's
\* free status edit is the one way around it: see MaxOverrides.)
ReadyIsLinkedAndVerified ==
    \A p \in Purchase :
        status[p] = "completed" \/ fulfillment[p] = "ready" => linked[p] /\ verified[p]

(***************************************************************************)
(* The inductive invariant: what makes the safety properties hold.         *)
(***************************************************************************)

\* A worker is on its way to a create request only while what exists, and what may
\* still come, is accounted for, and finalizes only a server that exists.
PanelAgrees ==
    \A w \in Worker :
        /\ pc[w] \in {"prepare", "creating"} =>
                panel[task[w]] + inFlight[task[w]] <= unanswered[task[w]]
        /\ pc[w] = "finalize" => panel[task[w]] > 0

\* Requests on their way are counted like servers.
LateServersAreAccountedFor ==
    \A p \in Purchase : panel[p] + inFlight[p] <= 1 + unanswered[p]

\* A create request left over from a crash, which nobody has given up, belongs to a
\* job that stays leased to a dead iteration: nobody leases it again and looks for
\* a server that is not there yet.
OrphanIsGuarded ==
    \A p \in Purchase :
        inFlight[p] > unanswered[p] => /\ jobState[p] = "leased"
                                       /\ \A w \in Worker : task[w] # p

\* A job in the queue has an attempt left, and so has one that may be retried.
AttemptIsLeft ==
    /\ \A p \in Purchase : jobState[p] = "queued" => attempts[p] <= MaxAutoRetries
    /\ \A w \in Worker :
            Busy(w) /\ mayRetry[w] => attempts[task[w]] <= MaxAutoRetries

\* Linkage rests on a submitted setup, which can then not be reopened.
LinkedIsFilled == \A p \in Purchase : linked[p] => filled[p]

\* The statuses from which the operator may requeue a purchase.
Parked == {"needs_admin_review", "dead_letter", "retryable_failure"}

\* A linked purchase never goes back to one of them, so it is never requeued.
LinkedIsNotParked == \A p \in Purchase : linked[p] => fulfillment[p] \notin Parked

IndInv ==
    /\ TypeOK
    /\ LeaseIsHeld
    /\ OneWorkerPerPurchase
    /\ ServersAreAccountedFor
    /\ RetriesAreBounded
    /\ LinkageEndsTheJob
    /\ PasswordIsCleared
    /\ JobKeepsItsSetup
    /\ PanelAgrees
    /\ LateServersAreAccountedFor
    /\ OrphanIsGuarded
    /\ AttemptIsLeft
    /\ LinkedIsFilled
    /\ LinkedIsNotParked

(***************************************************************************)
(* Refinement                                                              *)
(***************************************************************************)

Phase(state) ==
    CASE state = "none" -> "idle"
      [] state = "queued" -> "queued"
      [] state = "leased" -> "working"
      [] state = "completed" -> "done"
      [] OTHER -> "parked"

Contract == INSTANCE ProvisioningContract WITH
    phase <- [p \in Purchase |-> Phase(jobState[p])],
    tries <- attempts,
    servers <- panel,
    lost <- unanswered

\* The pipeline keeps the provisioning contract, step by step.
KeepsContract == Contract!Spec

(***************************************************************************)
(* Liveness                                                                *)
(***************************************************************************)

\* A job ends in activation or in one of the precise failure states.
JobSettles == \A p \in Purchase : Active(p) ~> ~Active(p)

\* It does as long as no process dies and no recovery transaction throws, whatever
\* answers are lost or late and whatever the admin edits or the customer submits
\* again meanwhile.
JobSettlesWithoutFault == \A p \in Purchase : Active(p) ~> (~Active(p) \/ faults > 0)

(***************************************************************************)
(* What the plan says of cancelled purchases                               *)
(***************************************************************************)

\* "cancellation ... blocks fulfillment": a purchase that is cancelled is not
\* moved on to activation.
CancellationBlocksFulfillment ==
    [][\A p \in Purchase :
            status[p] = "cancelled" /\ ~linked[p] => ~linked'[p]]_vars

=============================================================================
