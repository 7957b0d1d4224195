----------------------- MODULE FulfillmentQueueProofs -----------------------
(***************************************************************************)
(* Proofs about FulfillmentQueue, for every value of its constants.        *)
(*                                                                         *)
(* Typing is proved first, action by action.  The inductive invariant      *)
(* IndInv is then preserved by every action; its conjuncts support each    *)
(* other, so the proof of a step uses several of them.                     *)
(***************************************************************************)
EXTENDS FulfillmentQueue, TLAPS

(***************************************************************************)
(* Typing                                                                  *)
(***************************************************************************)

\* The derived fulfilment status is one of the nine constants of status.js.
LEMMA DeriveFulfillmentType ==
    ASSUME NEW st, NEW ff \in FulfillmentStatus, NEW live, NEW nm
    PROVE  DeriveFulfillment(st, ff, live, nm) \in FulfillmentStatus
BY DEF DeriveFulfillment, FulfillmentStatus

\* Giving a job back leaves the columns it writes in their types.
LEMMA GiveBackType ==
    ASSUME TypeOK, NEW p \in Purchase, NEW job \in JobState, NEW ff \in FulfillmentStatus,
           GiveBack(p, job, ff)
    PROVE  /\ jobState' \in [Purchase -> JobState \cup {"none"}]
           /\ jobKey' \in [Purchase -> Nat]
           /\ attempts' \in [Purchase -> Nat]
           /\ lease' \in [Purchase -> Nat]
           /\ leaseLive' \in [Purchase -> BOOLEAN]
           /\ fulfillment' \in [Purchase -> FulfillmentStatus]
<1>1. DeriveFulfillment(status[p], ff, FALSE, named[p]) \in FulfillmentStatus
    BY DEF DeriveFulfillment, FulfillmentStatus
<1>2. fulfillment' \in [Purchase -> FulfillmentStatus]
    BY <1>1 DEF GiveBack, TypeOK
<1>3. QED
    BY <1>2 DEF GiveBack, TypeOK

\* So does forgetting the job.
LEMMA WorkerDoneType ==
    ASSUME TypeOK, NEW w \in Worker, WorkerDone(w)
    PROVE  /\ pc' \in [Worker -> {"idle", "lookup", "prepare", "creating", "failed",
                                  "finalize", "salvage"}]
           /\ task' \in [Worker -> Purchase \cup {NoPurchase}]
           /\ \A v \in Worker : task'[v] = NoPurchase <=> pc'[v] = "idle"
           /\ key' \in [Worker -> Nat]
           /\ mayRetry' \in [Worker -> BOOLEAN]
           /\ leases' \in [Purchase -> Nat]
BY DEF WorkerDone, TypeOK

\* Every action keeps every variable in its type.
LEMMA TypeStep == TypeOK /\ [Next]_vars => TypeOK'
<1> SUFFICES ASSUME TypeOK, [Next]_vars PROVE TypeOK'
    OBVIOUS
<1> USE ConstantsAssumption, DeriveFulfillmentType
<1>1. ASSUME NEW w \in Worker, NEW p \in Purchase, Lease(w, p) PROVE TypeOK'
    <2>1. DeriveFulfillment(status[p], "provisioning", TRUE, named[p]) \in FulfillmentStatus
        BY DEF DeriveFulfillment, FulfillmentStatus
    <2>2. fulfillment' \in [Purchase -> FulfillmentStatus]
        BY <1>1, <2>1 DEF Lease, TypeOK
    <2>3. /\ jobState' \in [Purchase -> JobState \cup {"none"}]
          /\ jobKey' \in [Purchase -> Nat]
          /\ attempts' \in [Purchase -> Nat]
          /\ lease' \in [Purchase -> Nat]
          /\ leaseLive' \in [Purchase -> BOOLEAN]
          /\ leases' \in [Purchase -> Nat]
        BY <1>1 DEF Lease, TypeOK, JobState
    <2>4. /\ pc' \in [Worker -> {"idle", "lookup", "prepare", "creating", "failed",
                                 "finalize", "salvage"}]
          /\ task' \in [Worker -> Purchase \cup {NoPurchase}]
          /\ \A v \in Worker : task'[v] = NoPurchase <=> pc'[v] = "idle"
          /\ key' \in [Worker -> Nat]
        BY <1>1 DEF Lease, TypeOK
    <2>5. mayRetry' \in [Worker -> BOOLEAN]
        BY <1>1 DEF Lease, TypeOK
    <2>6. QED
        BY <1>1, <2>2, <2>3, <2>4, <2>5 DEF Lease, TypeOK, panelVars, boundVars
<1>2. ASSUME NEW w \in Worker, LookupFinds(w) PROVE TypeOK'
    BY <1>2 DEF LookupFinds, TypeOK, purchaseVars, jobVars, panelVars, boundVars
<1>3. ASSUME NEW w \in Worker, LookupMisses(w) PROVE TypeOK'
    BY <1>3 DEF LookupMisses, TypeOK, purchaseVars, jobVars, panelVars, boundVars
<1>4. ASSUME NEW w \in Worker, SendCreate(w) PROVE TypeOK'
    BY <1>4 DEF SendCreate, TypeOK, purchaseVars, jobVars, panelVars, boundVars
<1>5. ASSUME NEW w \in Worker, PanelCreates(w) PROVE TypeOK'
    BY <1>5 DEF PanelCreates, TypeOK, purchaseVars, jobVars, panelVars, boundVars
<1>6. ASSUME NEW w \in Worker, PelicanFails(w) PROVE TypeOK'
    BY <1>6 DEF PelicanFails, TypeOK, purchaseVars, jobVars, panelVars, boundVars
<1>61. ASSUME NEW w \in Worker, CreateUnanswered(w) PROVE TypeOK'
    BY <1>61 DEF CreateUnanswered, TypeOK, purchaseVars, jobVars, boundVars
<1>7. ASSUME NEW w \in Worker, Retry(w) PROVE TypeOK'
    <2>1. task[w] \in Purchase
        BY <1>7 DEF Retry, TypeOK
    <2>2. "queued" \in JobState /\ "retryable_failure" \in FulfillmentStatus
        BY DEF JobState, FulfillmentStatus
    <2>3. WorkerDone(w)
        BY <1>7 DEF Retry
    <2>4. CASE OwnsLease(w)
        <3>1. GiveBack(task[w], "queued", "retryable_failure")
            BY <1>7, <2>4 DEF Retry
        <3>2. due' \in [Purchase -> BOOLEAN]
            BY <1>7, <2>4 DEF Retry, TypeOK
        <3>3. QED
            BY <1>7, <2>1, <2>2, <2>3, <3>1, <3>2, GiveBackType, WorkerDoneType
            DEF Retry, TypeOK, panelVars, boundVars
    <2>5. CASE ~OwnsLease(w)
        BY <1>7, <2>3, <2>5, WorkerDoneType DEF Retry, TypeOK, jobVars, panelVars, boundVars
    <2>6. QED
        BY <2>4, <2>5
<1>8. ASSUME NEW w \in Worker, MoveToAdminReview(w) PROVE TypeOK'
    <2>1. task[w] \in Purchase
        BY <1>8 DEF MoveToAdminReview, TypeOK
    <2>2. "needs_admin_review" \in JobState /\ "needs_admin_review" \in FulfillmentStatus
        BY DEF JobState, FulfillmentStatus
    <2>3. WorkerDone(w)
        BY <1>8 DEF MoveToAdminReview
    <2>4. CASE OwnsLease(w)
        <3>1. GiveBack(task[w], "needs_admin_review", "needs_admin_review")
            BY <1>8, <2>4 DEF MoveToAdminReview
        <3>2. due' \in [Purchase -> BOOLEAN]
            BY <1>8, <2>4 DEF MoveToAdminReview, TypeOK
        <3>3. QED
            BY <1>8, <2>1, <2>2, <2>3, <3>1, <3>2, GiveBackType, WorkerDoneType
            DEF MoveToAdminReview, TypeOK, panelVars, boundVars
    <2>5. CASE ~OwnsLease(w)
        BY <1>8, <2>3, <2>5, WorkerDoneType DEF MoveToAdminReview, TypeOK, jobVars,
            panelVars, boundVars
    <2>6. QED
        BY <2>4, <2>5
<1>9. ASSUME NEW w \in Worker, MoveToDeadLetter(w) PROVE TypeOK'
    <2>1. task[w] \in Purchase
        BY <1>9 DEF MoveToDeadLetter, TypeOK
    <2>2. "dead_letter" \in JobState /\ "dead_letter" \in FulfillmentStatus
        BY DEF JobState, FulfillmentStatus
    <2>3. WorkerDone(w)
        BY <1>9 DEF MoveToDeadLetter
    <2>4. CASE OwnsLease(w)
        <3>1. GiveBack(task[w], "dead_letter", "dead_letter")
            BY <1>9, <2>4 DEF MoveToDeadLetter
        <3>2. due' \in [Purchase -> BOOLEAN]
            BY <1>9, <2>4 DEF MoveToDeadLetter, TypeOK
        <3>3. QED
            BY <1>9, <2>1, <2>2, <2>3, <3>1, <3>2, GiveBackType, WorkerDoneType
            DEF MoveToDeadLetter, TypeOK, panelVars, boundVars
    <2>5. CASE ~OwnsLease(w)
        BY <1>9, <2>3, <2>5, WorkerDoneType DEF MoveToDeadLetter, TypeOK, jobVars,
            panelVars, boundVars
    <2>6. QED
        BY <2>4, <2>5
<1>10. ASSUME NEW w \in Worker, Complete(w) PROVE TypeOK'
    <2>1. task[w] \in Purchase
        BY <1>10 DEF Complete, TypeOK
    <2>2. "completed" \in JobState /\ "pending_activation" \in FulfillmentStatus
        BY DEF JobState, FulfillmentStatus
    <2>3. GiveBack(task[w], "completed", "pending_activation") /\ WorkerDone(w)
        BY <1>10 DEF Complete
    <2>4. /\ linked' \in [Purchase -> BOOLEAN]
          /\ staged' \in [Purchase -> BOOLEAN]
          /\ slot' \in [Slot -> ServerStatus]
        BY <1>10 DEF Complete, TypeOK, ServerStatus
    <2>5. QED
        BY <1>10, <2>1, <2>2, <2>3, <2>4, GiveBackType, WorkerDoneType
        DEF Complete, TypeOK, panelVars, boundVars
<1>11. ASSUME NEW w \in Worker, CompletionFails(w) PROVE TypeOK'
    BY <1>11 DEF CompletionFails, TypeOK, purchaseVars, jobVars, panelVars, boundVars
<1>12. ASSUME NEW w \in Worker, RecoveryThrows(w) PROVE TypeOK'
    BY <1>12 DEF RecoveryThrows, WorkerDone, TypeOK, purchaseVars, jobVars, panelVars
<1>13. ASSUME NEW p \in Purchase, NEW s \in Slot, Checkout(p, s) PROVE TypeOK'
    BY <1>13 DEF Checkout, TypeOK, PurchaseStatus, ServerStatus, jobVars, workerVars,
                 panelVars, boundVars
<1>14. ASSUME NEW p \in Purchase, CheckoutExpires(p) PROVE TypeOK'
    BY <1>14 DEF CheckoutExpires, ReleasedSlot, TypeOK, PurchaseStatus, ServerStatus,
                 jobVars, workerVars, panelVars, boundVars
<1>15. ASSUME NEW p \in Purchase, StripeConfirms(p) PROVE TypeOK'
    BY <1>15 DEF StripeConfirms, TypeOK, PurchaseStatus, jobVars, workerVars, panelVars,
                 boundVars
<1>16. ASSUME NEW p \in Purchase, SubscriptionEnds(p) PROVE TypeOK'
    BY <1>16 DEF SubscriptionEnds, ReleasedSlot, TypeOK, PurchaseStatus, ServerStatus,
                 jobVars, workerVars, panelVars, boundVars
<1>17. ASSUME NEW p \in Purchase, SubmitSetup(p) PROVE TypeOK'
    <2>1. /\ named' \in [Purchase -> BOOLEAN]
          /\ filled' \in [Purchase -> BOOLEAN]
          /\ staged' \in [Purchase -> BOOLEAN]
        BY <1>17 DEF SubmitSetup, NeedsPassword, TypeOK
    <2>2. fulfillment' \in [Purchase -> FulfillmentStatus]
        <3>1. fulfillment[p] \in FulfillmentStatus
            BY DEF TypeOK
        <3>2. DeriveFulfillment(status[p], fulfillment[p], leaseLive[p], TRUE)
                \in FulfillmentStatus
            BY <3>1 DEF DeriveFulfillment, FulfillmentStatus
        <3>3. QED
            BY <1>17, <3>2 DEF SubmitSetup, TypeOK
    <2>3. Enqueued(p) \/ UNCHANGED jobVars
        BY <1>17 DEF SubmitSetup
    <2>4. jobState' \in [Purchase -> JobState \cup {"none"}]
        BY <2>3 DEF Enqueued, TypeOK, JobState, jobVars
    <2>5. jobKey' \in [Purchase -> Nat] /\ attempts' \in [Purchase -> Nat]
        BY <2>3 DEF Enqueued, TypeOK, jobVars
    <2>6. due' \in [Purchase -> BOOLEAN]
        BY <2>3 DEF Enqueued, TypeOK, jobVars
    <2>7. QED
        BY <1>17, <2>1, <2>2, <2>4, <2>5, <2>6 DEF SubmitSetup, TypeOK, workerVars,
            panelVars, boundVars
<1>18. ASSUME NEW p \in Purchase, Requeue(p) PROVE TypeOK'
    <2>1. DeriveFulfillment(status[p], "queued", FALSE, named[p]) \in FulfillmentStatus
        BY DEF DeriveFulfillment, FulfillmentStatus
    <2>2. fulfillment' \in [Purchase -> FulfillmentStatus]
        BY <1>18, <2>1 DEF Requeue, TypeOK
    <2>3. /\ jobState' \in [Purchase -> JobState \cup {"none"}]
          /\ jobKey' \in [Purchase -> Nat]
          /\ attempts' \in [Purchase -> Nat]
          /\ due' \in [Purchase -> BOOLEAN]
        BY <1>18 DEF Requeue, TypeOK, JobState
    <2>4. /\ lease' \in [Purchase -> Nat]
          /\ leaseLive' \in [Purchase -> BOOLEAN]
          /\ recoveries' \in Nat
        BY <1>18 DEF Requeue, TypeOK
    <2>5. QED
        BY <1>18, <2>2, <2>3, <2>4 DEF Requeue, TypeOK, workerVars, panelVars
<1>19. ASSUME NEW p \in Purchase, ReopenSetup(p) PROVE TypeOK'
    <2>1. DeriveFulfillment(status[p], "not_started", FALSE, FALSE) \in FulfillmentStatus
        BY DEF DeriveFulfillment, FulfillmentStatus
    <2>2. fulfillment' \in [Purchase -> FulfillmentStatus]
        BY <1>19, <2>1 DEF ReopenSetup, TypeOK
    <2>3. /\ named' \in [Purchase -> BOOLEAN]
          /\ filled' \in [Purchase -> BOOLEAN]
          /\ staged' \in [Purchase -> BOOLEAN]
          /\ lease' \in [Purchase -> Nat]
          /\ leaseLive' \in [Purchase -> BOOLEAN]
          /\ recoveries' \in Nat
        BY <1>19 DEF ReopenSetup, TypeOK
    <2>4. QED
        BY <1>19, <2>2, <2>3 DEF ReopenSetup, TypeOK, jobVars, workerVars, panelVars
<1>20. ASSUME NEW p \in Purchase, VerifyRouting(p) PROVE TypeOK'
    BY <1>20 DEF VerifyRouting, TypeOK, jobVars, workerVars, panelVars, boundVars
<1>21. ASSUME NEW p \in Purchase, NEW attested \in BOOLEAN, ReleaseReady(p, attested)
       PROVE  TypeOK'
    BY <1>21 DEF ReleaseReady, TypeOK, PurchaseStatus, jobVars, workerVars, panelVars,
                 boundVars
<1>22. ASSUME NEW p \in Purchase, NEW st \in PurchaseStatus, NEW sl \in ServerStatus,
              NEW nm \in BOOLEAN, AdminOverride(p, st, sl, nm)
       PROVE  TypeOK'
    BY <1>22 DEF AdminOverride, TypeOK, PurchaseStatus, jobVars, workerVars, panelVars
<1>23. ASSUME NEW p \in Purchase, TimeStep(p) PROVE TypeOK'
    BY <1>23 DEF TimeStep, LeaseRunsOut, RetryFallsDue, TypeOK, purchaseVars, jobVars,
                 workerVars, panelVars, boundVars
<1>24. ASSUME NEW p \in Purchase, LateCreateLands(p) PROVE TypeOK'
    BY <1>24 DEF LateCreateLands, TypeOK, purchaseVars, jobVars, workerVars, boundVars
<1>25. CASE Restart
    BY <1>25 DEF Restart, TypeOK, jobVars
<1>26. CASE UNCHANGED vars
    BY <1>26 DEF TypeOK, vars, purchaseVars, jobVars, workerVars, panelVars, boundVars
<1>27. QED
    BY <1>1, <1>2, <1>3, <1>4, <1>5, <1>6, <1>61, <1>7, <1>8, <1>9, <1>10, <1>11, <1>12,
       <1>13, <1>14, <1>15, <1>16, <1>17, <1>18, <1>19, <1>20, <1>21, <1>22, <1>23, <1>24,
       <1>25, <1>26
    DEF Next, WorkerStep, StripeStep, OperatorStep

(***************************************************************************)
(* The inductive invariant                                                 *)
(***************************************************************************)

\* The variables that IndInv speaks of, apart from typing and the server name.
core == <<pc, task, key, mayRetry, lease, jobState, jobKey, attempts, linked, staged,
          filled, panel, inFlight, unanswered>>

\* A server name that is there is taken away by a free edit only.
NameIsKept == overrides' = 0 => overrides = 0 /\ UNCHANGED named

\* Four groups of conjuncts of IndInv; the others are TypeOK and LinkedIsNotParked.
LeasePart == LeaseIsHeld /\ OneWorkerPerPurchase
PanelPart ==
    /\ ServersAreAccountedFor
    /\ LateServersAreAccountedFor
    /\ PanelAgrees
    /\ OrphanIsGuarded
AttemptPart == RetriesAreBounded /\ AttemptIsLeft
LinkPart == LinkageEndsTheJob /\ PasswordIsCleared /\ LinkedIsFilled /\ JobKeepsItsSetup

\* IndInv is its typing, its four parts and LinkedIsNotParked.
LEMMA IndInvParts ==
    IndInv <=> /\ TypeOK /\ LeasePart /\ PanelPart
               /\ AttemptPart /\ LinkPart /\ LinkedIsNotParked
BY DEF IndInv, LeasePart, PanelPart, AttemptPart, LinkPart

\* IndInv holds before the first checkout.
LEMMA InitIndInv == Init => IndInv
<1> SUFFICES ASSUME Init PROVE IndInv
    OBVIOUS
<1> USE ConstantsAssumption DEF Init
<1>1. TypeOK
    BY DEF TypeOK, FulfillmentStatus, ServerStatus
<1>2. LeasePart
    BY DEF LeasePart, LeaseIsHeld, OneWorkerPerPurchase, Busy
<1>3. PanelPart
    BY DEF PanelPart, ServersAreAccountedFor, LateServersAreAccountedFor, PanelAgrees,
        OrphanIsGuarded
<1>4. AttemptPart
    BY DEF AttemptPart, RetriesAreBounded, AttemptIsLeft, Busy
<1>5. LinkPart
    BY DEF LinkPart, LinkageEndsTheJob, PasswordIsCleared, LinkedIsFilled,
        JobKeepsItsSetup, Active, HasPelicanUser
<1>6. LinkedIsNotParked
    BY DEF LinkedIsNotParked
<1>7. QED
    BY <1>1, <1>2, <1>3, <1>4, <1>5, <1>6, IndInvParts

\* A busy worker has a purchase of its own, and the lease on it.
LEMMA BusyWorker ==
    ASSUME IndInv, NEW w \in Worker, Busy(w)
    PROVE  /\ task[w] \in Purchase
           /\ OwnsLease(w)
           /\ \A v \in Worker \ {w} : task[v] # task[w]
BY DEF IndInv, TypeOK, LeaseIsHeld, OneWorkerPerPurchase, Busy

\* A purchase whose job is not leased has no worker, and no create request on its
\* way but those that were given up.
LEMMA UnleasedJob ==
    ASSUME IndInv, NEW p \in Purchase, jobState[p] # "leased"
    PROVE  /\ \A w \in Worker : task[w] # p
           /\ inFlight[p] <= unanswered[p]
<1>1. ASSUME NEW w \in Worker PROVE task[w] # p
    BY <1>1, ConstantsAssumption DEF IndInv, TypeOK, LeaseIsHeld, OwnsLease, Busy
<1>2. QED
    BY <1>1 DEF IndInv, OrphanIsGuarded, TypeOK

\* IndInv holds, apart from LinkedIsNotParked, as long as its variables keep their values.
LEMMA CoreUnchanged ==
    ASSUME IndInv, UNCHANGED core, NameIsKept
    PROVE  LeasePart' /\ PanelPart' /\ AttemptPart' /\ LinkPart'
<1> USE DEF core, NameIsKept, IndInv
<1>1. LeasePart'
    BY DEF LeasePart, LeaseIsHeld, OneWorkerPerPurchase, Busy, OwnsLease
<1>2. PanelPart'
    BY DEF PanelPart, ServersAreAccountedFor, LateServersAreAccountedFor, PanelAgrees,
        OrphanIsGuarded
<1>3. AttemptPart'
    BY DEF AttemptPart, RetriesAreBounded, AttemptIsLeft, Busy
<1>4. LinkPart'
    BY DEF LinkPart, LinkageEndsTheJob, PasswordIsCleared, LinkedIsFilled,
        JobKeepsItsSetup, Active, HasPelicanUser
<1>5. QED
    BY <1>1, <1>2, <1>3, <1>4

\* The core of IndInv is kept when a lookup finds a server.
LEMMA LookupFindsStep ==
    ASSUME IndInv, NEW w \in Worker, LookupFinds(w)
    PROVE  LeasePart' /\ PanelPart' /\ AttemptPart' /\ LinkPart'
<1> USE DEF IndInv, TypeOK
<1>1. Busy(w)
    BY DEF LookupFinds, Busy
<1>2. /\ task[w] \in Purchase
      /\ OwnsLease(w)
      /\ \A v \in Worker \ {w} : task[v] # task[w]
    BY <1>1, BusyWorker
<1>3. LeasePart'
    BY <1>1, <1>2, ConstantsAssumption DEF LookupFinds, purchaseVars, jobVars,
        panelVars, LeasePart, LeaseIsHeld, OneWorkerPerPurchase, Busy, OwnsLease
<1>4. PanelPart'
    BY <1>1, <1>2, ConstantsAssumption DEF LookupFinds, purchaseVars, jobVars,
        panelVars, PanelPart, ServersAreAccountedFor, LateServersAreAccountedFor,
        PanelAgrees, OrphanIsGuarded
<1>5. AttemptPart'
    BY <1>1, <1>2, ConstantsAssumption DEF LookupFinds, purchaseVars, jobVars,
        panelVars, AttemptPart, RetriesAreBounded, AttemptIsLeft, Busy
<1>6. LinkPart'
    BY <1>1, <1>2, ConstantsAssumption DEF LookupFinds, purchaseVars, jobVars,
        panelVars, LinkPart, LinkageEndsTheJob, PasswordIsCleared, LinkedIsFilled,
        JobKeepsItsSetup, Active, HasPelicanUser, boundVars
<1>7. QED
    BY <1>3, <1>4, <1>5, <1>6

\* The core of IndInv is kept when a lookup finds none.
LEMMA LookupMissesStep ==
    ASSUME IndInv, NEW w \in Worker, LookupMisses(w)
    PROVE  LeasePart' /\ PanelPart' /\ AttemptPart' /\ LinkPart'
<1> USE DEF IndInv, TypeOK
<1>1. Busy(w)
    BY DEF LookupMisses, Busy
<1>2. /\ task[w] \in Purchase
      /\ OwnsLease(w)
      /\ \A v \in Worker \ {w} : task[v] # task[w]
    BY <1>1, BusyWorker
<1>3. LeasePart'
    BY <1>1, <1>2, ConstantsAssumption DEF LookupMisses, purchaseVars, jobVars,
        panelVars, LeasePart, LeaseIsHeld, OneWorkerPerPurchase, Busy, OwnsLease
<1>4. PanelPart'
    BY <1>1, <1>2, ConstantsAssumption DEF LookupMisses, purchaseVars, jobVars,
        panelVars, PanelPart, ServersAreAccountedFor, LateServersAreAccountedFor,
        PanelAgrees, OrphanIsGuarded
<1>5. AttemptPart'
    BY <1>1, <1>2, ConstantsAssumption DEF LookupMisses, purchaseVars, jobVars,
        panelVars, AttemptPart, RetriesAreBounded, AttemptIsLeft, Busy
<1>6. LinkPart'
    BY <1>1, <1>2, ConstantsAssumption DEF LookupMisses, purchaseVars, jobVars,
        panelVars, LinkPart, LinkageEndsTheJob, PasswordIsCleared, LinkedIsFilled,
        JobKeepsItsSetup, Active, HasPelicanUser, boundVars
<1>7. QED
    BY <1>3, <1>4, <1>5, <1>6

\* The core of IndInv is kept when the create request is sent.
LEMMA SendCreateStep ==
    ASSUME IndInv, NEW w \in Worker, SendCreate(w)
    PROVE  LeasePart' /\ PanelPart' /\ AttemptPart' /\ LinkPart'
<1> USE DEF IndInv, TypeOK
<1>1. Busy(w)
    BY DEF SendCreate, Busy
<1>2. /\ task[w] \in Purchase
      /\ OwnsLease(w)
      /\ \A v \in Worker \ {w} : task[v] # task[w]
    BY <1>1, BusyWorker
<1>3. LeasePart'
    BY <1>1, <1>2, ConstantsAssumption DEF SendCreate, purchaseVars, jobVars, panelVars,
        LeasePart, LeaseIsHeld, OneWorkerPerPurchase, Busy, OwnsLease
<1>4. PanelPart'
    BY <1>1, <1>2, ConstantsAssumption DEF SendCreate, purchaseVars, jobVars,
        panelVars, PanelPart, ServersAreAccountedFor, LateServersAreAccountedFor,
        PanelAgrees, OrphanIsGuarded
<1>5. AttemptPart'
    BY <1>1, <1>2, ConstantsAssumption DEF SendCreate, purchaseVars, jobVars, panelVars,
        AttemptPart, RetriesAreBounded, AttemptIsLeft, Busy
<1>6. LinkPart'
    BY <1>1, <1>2, ConstantsAssumption DEF SendCreate, purchaseVars, jobVars,
        panelVars, LinkPart, LinkageEndsTheJob, PasswordIsCleared, LinkedIsFilled,
        JobKeepsItsSetup, Active, HasPelicanUser, boundVars
<1>7. QED
    BY <1>3, <1>4, <1>5, <1>6

\* The core of IndInv is kept when the panel makes the server.
LEMMA PanelCreatesStep ==
    ASSUME IndInv, NEW w \in Worker, PanelCreates(w)
    PROVE  LeasePart' /\ PanelPart' /\ AttemptPart' /\ LinkPart'
<1> USE DEF IndInv, TypeOK
<1>1. Busy(w)
    BY DEF PanelCreates, Busy
<1>2. /\ task[w] \in Purchase
      /\ OwnsLease(w)
      /\ \A v \in Worker \ {w} : task[v] # task[w]
    BY <1>1, BusyWorker
<1>3. LeasePart'
    BY <1>1, <1>2, ConstantsAssumption DEF PanelCreates, purchaseVars, jobVars,
        panelVars, LeasePart, LeaseIsHeld, OneWorkerPerPurchase, Busy, OwnsLease
<1>4. PanelPart'
    BY <1>1, <1>2, ConstantsAssumption DEF PanelCreates, purchaseVars, jobVars,
        panelVars, PanelPart, ServersAreAccountedFor, LateServersAreAccountedFor,
        PanelAgrees, OrphanIsGuarded
<1>5. AttemptPart'
    BY <1>1, <1>2, ConstantsAssumption DEF PanelCreates, purchaseVars, jobVars,
        panelVars, AttemptPart, RetriesAreBounded, AttemptIsLeft, Busy
<1>6. LinkPart'
    <2>1. LinkageEndsTheJob'
        BY <1>1, <1>2, ConstantsAssumption DEF PanelCreates, purchaseVars, jobVars,
            panelVars, LinkageEndsTheJob, PanelAgrees, ServersAreAccountedFor,
            LateServersAreAccountedFor, OrphanIsGuarded, OwnsLease
    <2>2. PasswordIsCleared'
        BY <1>1, <1>2, ConstantsAssumption DEF PanelCreates, purchaseVars, jobVars,
            panelVars, PasswordIsCleared, LinkageEndsTheJob, OwnsLease
    <2>3. LinkedIsFilled'
        BY <1>1, <1>2, ConstantsAssumption DEF PanelCreates, purchaseVars, jobVars,
            panelVars, LinkedIsFilled, JobKeepsItsSetup, Active, HasPelicanUser,
            OwnsLease, boundVars
    <2>4. JobKeepsItsSetup'
        BY <1>1, <1>2, ConstantsAssumption DEF PanelCreates, purchaseVars, jobVars,
            panelVars, JobKeepsItsSetup, Active, HasPelicanUser, OwnsLease, boundVars
    <2>5. QED
        BY <2>1, <2>2, <2>3, <2>4 DEF LinkPart
<1>7. QED
    BY <1>3, <1>4, <1>5, <1>6

\* The core of IndInv is kept when a request fails.
LEMMA PelicanFailsStep ==
    ASSUME IndInv, NEW w \in Worker, PelicanFails(w)
    PROVE  LeasePart' /\ PanelPart' /\ AttemptPart' /\ LinkPart'
<1> USE DEF IndInv, TypeOK
<1>1. Busy(w)
    BY DEF PelicanFails, Busy
<1>2. /\ task[w] \in Purchase
      /\ OwnsLease(w)
      /\ \A v \in Worker \ {w} : task[v] # task[w]
    BY <1>1, BusyWorker
<1>3. LeasePart'
    BY <1>1, <1>2, ConstantsAssumption DEF PelicanFails, purchaseVars, jobVars,
        panelVars, LeasePart, LeaseIsHeld, OneWorkerPerPurchase, Busy, OwnsLease
<1>4. PanelPart'
    BY <1>1, <1>2, ConstantsAssumption DEF PelicanFails, purchaseVars, jobVars,
        panelVars, PanelPart, ServersAreAccountedFor, LateServersAreAccountedFor,
        PanelAgrees, OrphanIsGuarded
<1>5. AttemptPart'
    BY <1>1, <1>2, ConstantsAssumption DEF PelicanFails, purchaseVars, jobVars,
        panelVars, AttemptPart, RetriesAreBounded, AttemptIsLeft, Busy
<1>6. LinkPart'
    BY <1>1, <1>2, ConstantsAssumption DEF PelicanFails, purchaseVars, jobVars,
        panelVars, LinkPart, LinkageEndsTheJob, PasswordIsCleared, LinkedIsFilled,
        JobKeepsItsSetup, Active, HasPelicanUser, boundVars
<1>7. QED
    BY <1>3, <1>4, <1>5, <1>6

\* The core of IndInv is kept when an attempt gives up its create request.
LEMMA CreateUnansweredStep ==
    ASSUME IndInv, NEW w \in Worker, CreateUnanswered(w)
    PROVE  LeasePart' /\ PanelPart' /\ AttemptPart' /\ LinkPart'
<1> USE DEF IndInv, TypeOK
<1>1. Busy(w)
    BY DEF CreateUnanswered, Busy
<1>2. /\ task[w] \in Purchase
      /\ OwnsLease(w)
      /\ \A v \in Worker \ {w} : task[v] # task[w]
    BY <1>1, BusyWorker
<1>3. LeasePart'
    BY <1>1, <1>2, ConstantsAssumption DEF CreateUnanswered, purchaseVars, jobVars,
        LeasePart, LeaseIsHeld, OneWorkerPerPurchase, Busy, OwnsLease
<1>4. PanelPart'
    BY <1>1, <1>2, ConstantsAssumption DEF CreateUnanswered, purchaseVars, jobVars,
        PanelPart, ServersAreAccountedFor, LateServersAreAccountedFor,
        PanelAgrees, OrphanIsGuarded
<1>5. AttemptPart'
    BY <1>1, <1>2, ConstantsAssumption DEF CreateUnanswered, purchaseVars, jobVars,
        AttemptPart, RetriesAreBounded, AttemptIsLeft, Busy
<1>6. LinkPart'
    BY <1>1, <1>2, ConstantsAssumption DEF CreateUnanswered, purchaseVars, jobVars,
        LinkPart, LinkageEndsTheJob, PasswordIsCleared, LinkedIsFilled,
        JobKeepsItsSetup, Active, HasPelicanUser, boundVars
<1>7. QED
    BY <1>3, <1>4, <1>5, <1>6

\* The core of IndInv is kept when the job goes back to the queue.
LEMMA RetryStep ==
    ASSUME IndInv, NEW w \in Worker, Retry(w)
    PROVE  LeasePart' /\ PanelPart' /\ AttemptPart' /\ LinkPart'
<1> USE DEF IndInv, TypeOK
<1>1. Busy(w)
    BY DEF Retry, Busy
<1>2. /\ task[w] \in Purchase
      /\ OwnsLease(w)
      /\ \A v \in Worker \ {w} : task[v] # task[w]
    BY <1>1, BusyWorker
<1>3. LeasePart'
    BY <1>1, <1>2, ConstantsAssumption DEF Retry, GiveBack, WorkerDone, panelVars,
        LeasePart, LeaseIsHeld, OneWorkerPerPurchase, Busy, OwnsLease
<1>4. PanelPart'
    BY <1>1, <1>2, ConstantsAssumption DEF Retry, GiveBack, WorkerDone, panelVars,
        PanelPart, ServersAreAccountedFor, LateServersAreAccountedFor, PanelAgrees,
        OrphanIsGuarded
<1>5. AttemptPart'
    BY <1>1, <1>2, ConstantsAssumption DEF Retry, GiveBack, WorkerDone, panelVars,
        AttemptPart, RetriesAreBounded, AttemptIsLeft, Busy
<1>6. LinkPart'
    <2>1. LinkageEndsTheJob'
        BY <1>1, <1>2, ConstantsAssumption DEF Retry, GiveBack, WorkerDone, panelVars,
            LinkageEndsTheJob, PanelAgrees, ServersAreAccountedFor,
            LateServersAreAccountedFor, OrphanIsGuarded, OwnsLease
    <2>2. PasswordIsCleared'
        BY <1>1, <1>2, ConstantsAssumption DEF Retry, GiveBack, WorkerDone, panelVars,
            PasswordIsCleared, LinkageEndsTheJob, OwnsLease
    <2>3. LinkedIsFilled'
        BY <1>1, <1>2, ConstantsAssumption DEF Retry, GiveBack, WorkerDone, panelVars,
            LinkedIsFilled, JobKeepsItsSetup, Active, HasPelicanUser, OwnsLease,
            boundVars
    <2>4. JobKeepsItsSetup'
        BY <1>1, <1>2, ConstantsAssumption DEF Retry, GiveBack, WorkerDone, panelVars,
            JobKeepsItsSetup, Active, HasPelicanUser, OwnsLease, boundVars
    <2>5. QED
        BY <2>1, <2>2, <2>3, <2>4 DEF LinkPart
<1>7. QED
    BY <1>3, <1>4, <1>5, <1>6

\* The core of IndInv is kept when the job is parked for review.
LEMMA MoveToAdminReviewStep ==
    ASSUME IndInv, NEW w \in Worker, MoveToAdminReview(w)
    PROVE  LeasePart' /\ PanelPart' /\ AttemptPart' /\ LinkPart'
<1> USE DEF IndInv, TypeOK
<1>1. Busy(w)
    BY DEF MoveToAdminReview, Busy
<1>2. /\ task[w] \in Purchase
      /\ OwnsLease(w)
      /\ \A v \in Worker \ {w} : task[v] # task[w]
    BY <1>1, BusyWorker
<1>3. LeasePart'
    BY <1>1, <1>2, ConstantsAssumption DEF MoveToAdminReview, GiveBack, WorkerDone,
        panelVars, LeasePart, LeaseIsHeld, OneWorkerPerPurchase, Busy, OwnsLease
<1>4. PanelPart'
    BY <1>1, <1>2, ConstantsAssumption DEF MoveToAdminReview, GiveBack, WorkerDone,
        panelVars, PanelPart, ServersAreAccountedFor, LateServersAreAccountedFor,
        PanelAgrees, OrphanIsGuarded
<1>5. AttemptPart'
    BY <1>1, <1>2, ConstantsAssumption DEF MoveToAdminReview, GiveBack, WorkerDone,
        panelVars, AttemptPart, RetriesAreBounded, AttemptIsLeft, Busy
<1>6. LinkPart'
    <2>1. LinkageEndsTheJob'
        BY <1>1, <1>2, ConstantsAssumption DEF MoveToAdminReview, GiveBack, WorkerDone,
            panelVars, LinkageEndsTheJob, PanelAgrees, ServersAreAccountedFor,
            LateServersAreAccountedFor, OrphanIsGuarded, OwnsLease
    <2>2. PasswordIsCleared'
        BY <1>1, <1>2, ConstantsAssumption DEF MoveToAdminReview, GiveBack, WorkerDone,
            panelVars, PasswordIsCleared, LinkageEndsTheJob, OwnsLease
    <2>3. LinkedIsFilled'
        BY <1>1, <1>2, ConstantsAssumption DEF MoveToAdminReview, GiveBack, WorkerDone,
            panelVars, LinkedIsFilled, JobKeepsItsSetup, Active, HasPelicanUser,
            OwnsLease, boundVars
    <2>4. JobKeepsItsSetup'
        BY <1>1, <1>2, ConstantsAssumption DEF MoveToAdminReview, GiveBack, WorkerDone,
            panelVars, JobKeepsItsSetup, Active, HasPelicanUser, OwnsLease, boundVars
    <2>5. QED
        BY <2>1, <2>2, <2>3, <2>4 DEF LinkPart
<1>7. QED
    BY <1>3, <1>4, <1>5, <1>6

\* The core of IndInv is kept when the job is parked as a dead letter.
LEMMA MoveToDeadLetterStep ==
    ASSUME IndInv, NEW w \in Worker, MoveToDeadLetter(w)
    PROVE  LeasePart' /\ PanelPart' /\ AttemptPart' /\ LinkPart'
<1> USE DEF IndInv, TypeOK
<1>1. Busy(w)
    BY DEF MoveToDeadLetter, Busy
<1>2. /\ task[w] \in Purchase
      /\ OwnsLease(w)
      /\ \A v \in Worker \ {w} : task[v] # task[w]
    BY <1>1, BusyWorker
<1>3. LeasePart'
    BY <1>1, <1>2, ConstantsAssumption DEF MoveToDeadLetter, GiveBack, WorkerDone,
        panelVars, LeasePart, LeaseIsHeld, OneWorkerPerPurchase, Busy, OwnsLease
<1>4. PanelPart'
    BY <1>1, <1>2, ConstantsAssumption DEF MoveToDeadLetter, GiveBack, WorkerDone,
        panelVars, PanelPart, ServersAreAccountedFor, LateServersAreAccountedFor,
        PanelAgrees, OrphanIsGuarded
<1>5. AttemptPart'
    BY <1>1, <1>2, ConstantsAssumption DEF MoveToDeadLetter, GiveBack, WorkerDone,
        panelVars, AttemptPart, RetriesAreBounded, AttemptIsLeft, Busy
<1>6. LinkPart'
    <2>1. LinkageEndsTheJob'
        BY <1>1, <1>2, ConstantsAssumption DEF MoveToDeadLetter, GiveBack, WorkerDone,
            panelVars, LinkageEndsTheJob, PanelAgrees, ServersAreAccountedFor,
            LateServersAreAccountedFor, OrphanIsGuarded, OwnsLease
    <2>2. PasswordIsCleared'
        BY <1>1, <1>2, ConstantsAssumption DEF MoveToDeadLetter, GiveBack, WorkerDone,
            panelVars, PasswordIsCleared, LinkageEndsTheJob, OwnsLease
    <2>3. LinkedIsFilled'
        BY <1>1, <1>2, ConstantsAssumption DEF MoveToDeadLetter, GiveBack, WorkerDone,
            panelVars, LinkedIsFilled, JobKeepsItsSetup, Active, HasPelicanUser,
            OwnsLease, boundVars
    <2>4. JobKeepsItsSetup'
        BY <1>1, <1>2, ConstantsAssumption DEF MoveToDeadLetter, GiveBack, WorkerDone,
            panelVars, JobKeepsItsSetup, Active, HasPelicanUser, OwnsLease, boundVars
    <2>5. QED
        BY <2>1, <2>2, <2>3, <2>4 DEF LinkPart
<1>7. QED
    BY <1>3, <1>4, <1>5, <1>6

\* The core of IndInv is kept when the job is done.
LEMMA CompleteStep ==
    ASSUME IndInv, NEW w \in Worker, Complete(w)
    PROVE  LeasePart' /\ PanelPart' /\ AttemptPart' /\ LinkPart'
<1> USE DEF IndInv, TypeOK
<1>1. Busy(w)
    BY DEF Complete, Busy
<1>2. /\ task[w] \in Purchase
      /\ OwnsLease(w)
      /\ \A v \in Worker \ {w} : task[v] # task[w]
    BY <1>1, BusyWorker
<1>3. LeasePart'
    BY <1>1, <1>2, ConstantsAssumption DEF Complete, GiveBack, WorkerDone, panelVars,
        LeasePart, LeaseIsHeld, OneWorkerPerPurchase, Busy, OwnsLease
<1>4. PanelPart'
    BY <1>1, <1>2, ConstantsAssumption DEF Complete, GiveBack, WorkerDone, panelVars,
        PanelPart, ServersAreAccountedFor, LateServersAreAccountedFor, PanelAgrees,
        OrphanIsGuarded
<1>5. AttemptPart'
    BY <1>1, <1>2, ConstantsAssumption DEF Complete, GiveBack, WorkerDone, panelVars,
        AttemptPart, RetriesAreBounded, AttemptIsLeft, Busy
<1>6. LinkPart'
    <2>1. LinkageEndsTheJob'
        BY <1>1, <1>2, ConstantsAssumption DEF Complete, GiveBack, WorkerDone,
            panelVars, LinkageEndsTheJob, PanelAgrees, ServersAreAccountedFor,
            LateServersAreAccountedFor, OrphanIsGuarded, OwnsLease
    <2>2. PasswordIsCleared'
        BY <1>1, <1>2, ConstantsAssumption DEF Complete, GiveBack, WorkerDone,
            panelVars, PasswordIsCleared, LinkageEndsTheJob, OwnsLease
    <2>3. LinkedIsFilled'
        BY <1>1, <1>2, ConstantsAssumption DEF Complete, GiveBack, WorkerDone,
            panelVars, LinkedIsFilled, JobKeepsItsSetup, Active, HasPelicanUser,
            OwnsLease, boundVars
    <2>4. JobKeepsItsSetup'
        BY <1>1, <1>2, ConstantsAssumption DEF Complete, GiveBack, WorkerDone,
            panelVars, JobKeepsItsSetup, Active, HasPelicanUser, OwnsLease, boundVars
    <2>5. QED
        BY <2>1, <2>2, <2>3, <2>4 DEF LinkPart
<1>7. QED
    BY <1>3, <1>4, <1>5, <1>6

\* The core of IndInv is kept when the finalizing transaction does nothing.
LEMMA CompletionFailsStep ==
    ASSUME IndInv, NEW w \in Worker, CompletionFails(w)
    PROVE  LeasePart' /\ PanelPart' /\ AttemptPart' /\ LinkPart'
<1> USE DEF IndInv, TypeOK
<1>1. Busy(w)
    BY DEF CompletionFails, Busy
<1>2. /\ task[w] \in Purchase
      /\ OwnsLease(w)
      /\ \A v \in Worker \ {w} : task[v] # task[w]
    BY <1>1, BusyWorker
<1>3. LeasePart'
    BY <1>1, <1>2, ConstantsAssumption DEF CompletionFails, purchaseVars, jobVars,
        panelVars, LeasePart, LeaseIsHeld, OneWorkerPerPurchase, Busy, OwnsLease
<1>4. PanelPart'
    BY <1>1, <1>2, ConstantsAssumption DEF CompletionFails, purchaseVars, jobVars,
        panelVars, PanelPart, ServersAreAccountedFor, LateServersAreAccountedFor,
        PanelAgrees, OrphanIsGuarded
<1>5. AttemptPart'
    BY <1>1, <1>2, ConstantsAssumption DEF CompletionFails, purchaseVars, jobVars,
        panelVars, AttemptPart, RetriesAreBounded, AttemptIsLeft, Busy
<1>6. LinkPart'
    BY <1>1, <1>2, ConstantsAssumption DEF CompletionFails, purchaseVars, jobVars,
        panelVars, LinkPart, LinkageEndsTheJob, PasswordIsCleared, LinkedIsFilled,
        JobKeepsItsSetup, Active, HasPelicanUser, boundVars
<1>7. QED
    BY <1>3, <1>4, <1>5, <1>6

\* The core of IndInv is kept when the worker forgets the job.
LEMMA RecoveryThrowsStep ==
    ASSUME IndInv, NEW w \in Worker, RecoveryThrows(w)
    PROVE  LeasePart' /\ PanelPart' /\ AttemptPart' /\ LinkPart'
<1> USE DEF IndInv, TypeOK
<1>1. Busy(w)
    BY DEF RecoveryThrows, Busy
<1>2. /\ task[w] \in Purchase
      /\ OwnsLease(w)
      /\ \A v \in Worker \ {w} : task[v] # task[w]
    BY <1>1, BusyWorker
<1>3. LeasePart'
    BY <1>1, <1>2, ConstantsAssumption DEF RecoveryThrows, WorkerDone, purchaseVars,
        jobVars, panelVars, LeasePart, LeaseIsHeld, OneWorkerPerPurchase, Busy,
        OwnsLease
<1>4. PanelPart'
    BY <1>1, <1>2, ConstantsAssumption DEF RecoveryThrows, WorkerDone, purchaseVars,
        jobVars, panelVars, PanelPart, ServersAreAccountedFor,
        LateServersAreAccountedFor, PanelAgrees, OrphanIsGuarded
<1>5. AttemptPart'
    BY <1>1, <1>2, ConstantsAssumption DEF RecoveryThrows, WorkerDone, purchaseVars,
        jobVars, panelVars, AttemptPart, RetriesAreBounded, AttemptIsLeft, Busy
<1>6. LinkPart'
    BY <1>1, <1>2, ConstantsAssumption DEF RecoveryThrows, WorkerDone, purchaseVars,
        jobVars, panelVars, LinkPart, LinkageEndsTheJob, PasswordIsCleared,
        LinkedIsFilled, JobKeepsItsSetup, Active, HasPelicanUser, boundVars
<1>7. QED
    BY <1>3, <1>4, <1>5, <1>6

\* The core of IndInv is kept when a job is leased.
LEMMA LeaseStep ==
    ASSUME IndInv, NEW w \in Worker, NEW p \in Purchase, Lease(w, p)
    PROVE  LeasePart' /\ PanelPart' /\ AttemptPart' /\ LinkPart'
<1> USE DEF IndInv, TypeOK
<1>1. jobState[p] # "leased" /\ (\A v \in Worker : task[v] # p)
        /\ inFlight[p] <= unanswered[p]
    BY UnleasedJob DEF Lease, Leasable
<1>2. LeasePart'
    BY <1>1, ConstantsAssumption DEF Lease, Leasable, panelVars, LeasePart, LeaseIsHeld,
        OneWorkerPerPurchase, Busy, OwnsLease
<1>3. PanelPart'
    BY <1>1, ConstantsAssumption DEF Lease, Leasable, panelVars, PanelPart,
        ServersAreAccountedFor, LateServersAreAccountedFor, PanelAgrees,
        OrphanIsGuarded
<1>4. AttemptPart'
    <2>1. attempts' = [attempts EXCEPT ![p] = @ + 1] /\ attempts[p] <= MaxAutoRetries
        BY DEF Lease, Leasable, AttemptIsLeft
    <2>2. /\ jobState' = [jobState EXCEPT ![p] = "leased"]
          /\ pc[w] = "idle" /\ task' = [task EXCEPT ![w] = p]
          /\ \A v \in Worker \ {w} : UNCHANGED <<pc[v], task[v], mayRetry[v]>>
        BY DEF Lease
    <2>3. mayRetry'[w] => attempts[p] + 1 <= MaxAutoRetries
        BY DEF Lease, RetryLeft
    <2>4. RetriesAreBounded'
        BY <2>1, ConstantsAssumption DEF RetriesAreBounded
    <2>5. ASSUME NEW q \in Purchase, jobState'[q] = "queued"
          PROVE  attempts'[q] <= MaxAutoRetries
        BY <2>1, <2>2, <2>5 DEF AttemptIsLeft
    <2>6. ASSUME NEW v \in Worker, Busy(v)', mayRetry'[v]
          PROVE  attempts'[task'[v]] <= MaxAutoRetries
        BY <1>1, <2>1, <2>2, <2>3, <2>6, ConstantsAssumption DEF AttemptIsLeft, Busy
    <2>7. QED
        BY <2>4, <2>5, <2>6 DEF AttemptPart, AttemptIsLeft
<1>5. LinkPart'
    <2>1. UNCHANGED <<named, filled, staged, linked, panel, overrides>>
        BY DEF Lease, panelVars, boundVars
    <2>2. jobState' = [jobState EXCEPT ![p] = "leased"] /\ jobState[p] = "queued"
        BY DEF Lease, Leasable
    <2>3. LinkageEndsTheJob' /\ PasswordIsCleared' /\ LinkedIsFilled'
        BY <2>1, <2>2 DEF LinkageEndsTheJob, PasswordIsCleared, LinkedIsFilled
    <2>4. JobKeepsItsSetup'
        BY <2>1, <2>2 DEF JobKeepsItsSetup, Active, HasPelicanUser
    <2>5. QED
        BY <2>3, <2>4 DEF LinkPart
<1>6. QED
    BY <1>2, <1>3, <1>4, <1>5

\* The core of IndInv is kept when the operator requeues a parked job.
LEMMA RequeueStep ==
    ASSUME IndInv, NEW p \in Purchase, Requeue(p)
    PROVE  LeasePart' /\ PanelPart' /\ AttemptPart' /\ LinkPart'
<1> USE DEF IndInv, TypeOK
<1>1. jobState[p] # "leased" /\ (\A v \in Worker : task[v] # p)
        /\ inFlight[p] <= unanswered[p]
    BY UnleasedJob DEF Requeue, Requeueable
<1>2. LeasePart'
    BY <1>1, ConstantsAssumption DEF Requeue, Requeueable, workerVars, panelVars, LeasePart,
        LeaseIsHeld, OneWorkerPerPurchase, Busy, OwnsLease
<1>3. PanelPart'
    BY <1>1, ConstantsAssumption DEF Requeue, Requeueable, workerVars, panelVars,
        PanelPart, ServersAreAccountedFor, LateServersAreAccountedFor, PanelAgrees,
        OrphanIsGuarded
<1>4. AttemptPart'
    BY <1>1, ConstantsAssumption DEF Requeue, Requeueable, workerVars, panelVars,
        AttemptPart, RetriesAreBounded, AttemptIsLeft, Busy
<1>5. LinkPart'
    <2>1. LinkageEndsTheJob'
        BY <1>1, ConstantsAssumption DEF Requeue, Requeueable, workerVars, panelVars,
            LinkageEndsTheJob, PanelAgrees, ServersAreAccountedFor,
            LateServersAreAccountedFor, OrphanIsGuarded, OwnsLease, ContractOk,
            LinkedIsNotParked, Parked
    <2>2. PasswordIsCleared'
        BY <1>1, ConstantsAssumption DEF Requeue, Requeueable, workerVars, panelVars,
            PasswordIsCleared, LinkageEndsTheJob, OwnsLease, ContractOk,
            LinkedIsNotParked, Parked
    <2>3. LinkedIsFilled'
        BY <1>1, ConstantsAssumption DEF Requeue, Requeueable, workerVars, panelVars,
            LinkedIsFilled, JobKeepsItsSetup, Active, HasPelicanUser, OwnsLease,
            ContractOk, LinkedIsNotParked, Parked, boundVars
    <2>4. JobKeepsItsSetup'
        BY <1>1, ConstantsAssumption DEF Requeue, Requeueable, workerVars, panelVars,
            JobKeepsItsSetup, Active, HasPelicanUser, OwnsLease, ContractOk,
            LinkedIsNotParked, Parked, boundVars
    <2>5. QED
        BY <2>1, <2>2, <2>3, <2>4 DEF LinkPart
<1>6. QED
    BY <1>2, <1>3, <1>4, <1>5

\* The core of IndInv is kept when the operator reopens a setup.
LEMMA ReopenSetupStep ==
    ASSUME IndInv, NEW p \in Purchase, ReopenSetup(p)
    PROVE  LeasePart' /\ PanelPart' /\ AttemptPart' /\ LinkPart'
<1> USE DEF IndInv, TypeOK
<1>1. jobState[p] # "leased" /\ (\A v \in Worker : task[v] # p)
        /\ inFlight[p] <= unanswered[p]
    BY UnleasedJob DEF ReopenSetup, Reopenable
<1>2. LeasePart'
    BY <1>1, ConstantsAssumption DEF ReopenSetup, Reopenable, HasPelicanUser, jobVars,
        workerVars, panelVars, LeasePart, LeaseIsHeld, OneWorkerPerPurchase, Busy, OwnsLease
<1>3. PanelPart'
    BY <1>1, ConstantsAssumption DEF ReopenSetup, Reopenable, HasPelicanUser, jobVars,
        workerVars, panelVars, PanelPart, ServersAreAccountedFor,
        LateServersAreAccountedFor, PanelAgrees, OrphanIsGuarded
<1>4. AttemptPart'
    BY <1>1, ConstantsAssumption DEF ReopenSetup, Reopenable, HasPelicanUser, jobVars,
        workerVars, panelVars, AttemptPart, RetriesAreBounded, AttemptIsLeft, Busy
<1>5. LinkPart'
    BY <1>1, ConstantsAssumption DEF ReopenSetup, Reopenable, HasPelicanUser, jobVars,
        workerVars, panelVars, LinkPart, LinkageEndsTheJob, PasswordIsCleared,
        LinkedIsFilled, JobKeepsItsSetup, Active, boundVars
<1>6. QED
    BY <1>2, <1>3, <1>4, <1>5

\* The core of IndInv is kept when a create request lands that nobody waits for any more.
LEMMA LateCreateLandsStep ==
    ASSUME IndInv, NEW p \in Purchase, LateCreateLands(p)
    PROVE  LeasePart' /\ PanelPart' /\ AttemptPart' /\ LinkPart'
<1> USE DEF IndInv, TypeOK
<1>1. LeasePart'
    BY ConstantsAssumption DEF LateCreateLands, purchaseVars, jobVars, workerVars,
        LeasePart, LeaseIsHeld, OneWorkerPerPurchase, Busy, OwnsLease
<1>2. PanelPart'
    BY ConstantsAssumption DEF LateCreateLands, purchaseVars, jobVars, workerVars,
        PanelPart, ServersAreAccountedFor, LateServersAreAccountedFor, PanelAgrees,
        OrphanIsGuarded
<1>3. AttemptPart'
    BY ConstantsAssumption DEF LateCreateLands, purchaseVars, jobVars, workerVars,
        AttemptPart, RetriesAreBounded, AttemptIsLeft, Busy
<1>4. LinkPart'
    <2>1. LinkageEndsTheJob'
        BY ConstantsAssumption DEF LateCreateLands, purchaseVars, jobVars, workerVars,
            LinkageEndsTheJob, PanelAgrees, ServersAreAccountedFor,
            LateServersAreAccountedFor, OrphanIsGuarded, OwnsLease
    <2>2. PasswordIsCleared'
        BY ConstantsAssumption DEF LateCreateLands, purchaseVars, jobVars, workerVars,
            PasswordIsCleared, LinkageEndsTheJob, OwnsLease
    <2>3. LinkedIsFilled'
        BY ConstantsAssumption DEF LateCreateLands, purchaseVars, jobVars, workerVars,
            LinkedIsFilled, JobKeepsItsSetup, Active, HasPelicanUser, OwnsLease,
            boundVars
    <2>4. JobKeepsItsSetup'
        BY ConstantsAssumption DEF LateCreateLands, purchaseVars, jobVars, workerVars,
            JobKeepsItsSetup, Active, HasPelicanUser, OwnsLease, boundVars
    <2>5. QED
        BY <2>1, <2>2, <2>3, <2>4 DEF LinkPart
<1>5. QED
    BY <1>1, <1>2, <1>3, <1>4

\* The core of IndInv is kept when the process starts again.
LEMMA RestartStep ==
    ASSUME IndInv, Restart
    PROVE  LeasePart' /\ PanelPart' /\ AttemptPart' /\ LinkPart'
<1> USE DEF IndInv, TypeOK
<1>1. LeasePart'
    BY ConstantsAssumption DEF Restart, jobVars, LeasePart, LeaseIsHeld,
        OneWorkerPerPurchase, Busy, OwnsLease
<1>2. PanelPart'
    <2>1. ServersAreAccountedFor' /\ PanelAgrees'
        BY DEF Restart, ServersAreAccountedFor, PanelAgrees
    <2>2. ASSUME NEW p \in Purchase
          PROVE  \/ inFlight'[p] = inFlight[p]
                 \/ /\ inFlight'[p] = inFlight[p] + 1
                    /\ jobState[p] = "leased"
                    /\ panel[p] + inFlight[p] <= unanswered[p]
        <3>1. CASE \E w \in Worker : pc[w] = "creating" /\ task[w] = p
            BY <3>1 DEF Restart, PanelAgrees, LeaseIsHeld, OwnsLease, Busy
        <3>2. CASE ~\E w \in Worker : pc[w] = "creating" /\ task[w] = p
            BY <3>2 DEF Restart
        <3>3. QED
            BY <3>1, <3>2
    <2>3. LateServersAreAccountedFor'
        BY <2>2 DEF Restart, LateServersAreAccountedFor
    <2>4. OrphanIsGuarded'
        BY <2>2, ConstantsAssumption DEF Restart, OrphanIsGuarded, jobVars
    <2>5. QED
        BY <2>1, <2>3, <2>4 DEF PanelPart
<1>3. AttemptPart'
    BY ConstantsAssumption DEF Restart, jobVars, AttemptPart, RetriesAreBounded,
        AttemptIsLeft, Busy
<1>4. LinkPart'
    BY ConstantsAssumption DEF Restart, jobVars, LinkPart, LinkageEndsTheJob,
        PasswordIsCleared, LinkedIsFilled, JobKeepsItsSetup, Active, HasPelicanUser,
        boundVars
<1>5. QED
    BY <1>1, <1>2, <1>3, <1>4

\* The core of IndInv is kept when the customer submits the setup.
LEMMA SubmitSetupStep ==
    ASSUME IndInv, NEW p \in Purchase, SubmitSetup(p)
    PROVE  LeasePart' /\ PanelPart' /\ AttemptPart' /\ LinkPart'
<1> USE DEF IndInv, TypeOK
<1> DEFINE Fresh == jobState[p] \in {"none", "needs_admin_review", "dead_letter"}
<1>1. linked[p] => ~staged'[p]
    BY DEF SubmitSetup, NeedsPassword
<1>2. filled'[p] /\ named'[p] /\ (HasPelicanUser(p)' \/ staged'[p])
    BY DEF SubmitSetup, NeedsPassword, HasPelicanUser
<1>3. \A q \in Purchase \ {p} : UNCHANGED <<filled[q], named[q], staged[q]>>
    BY DEF SubmitSetup
<1>4. UNCHANGED <<lease, linked, workerVars, panelVars, overrides>>
    BY DEF SubmitSetup, boundVars
<1>5. CASE Fresh /\ Enqueued(p)
    <2>1. (\A v \in Worker : task[v] # p) /\ inFlight[p] <= unanswered[p] /\ ~linked[p]
        BY <1>5, UnleasedJob DEF LinkageEndsTheJob
    <2>2. LeasePart'
        BY <1>4, <1>5, <2>1, ConstantsAssumption DEF Enqueued, workerVars, LeasePart,
            LeaseIsHeld, OneWorkerPerPurchase, Busy, OwnsLease
    <2>3. PanelPart'
        BY <1>4, <1>5, <2>1, ConstantsAssumption DEF Enqueued, workerVars, panelVars,
            PanelPart, ServersAreAccountedFor, LateServersAreAccountedFor, PanelAgrees,
            OrphanIsGuarded
    <2>4. AttemptPart'
        BY <1>4, <1>5, <2>1, ConstantsAssumption DEF Enqueued, workerVars, AttemptPart,
            RetriesAreBounded, AttemptIsLeft, Busy
    <2>5. LinkPart'
        <3>1. jobState' = [jobState EXCEPT ![p] = "queued"]
            BY <1>5 DEF Enqueued
        <3>2. LinkageEndsTheJob'
            BY <1>4, <2>1, <3>1 DEF panelVars, LinkageEndsTheJob
        <3>3. PasswordIsCleared' /\ LinkedIsFilled'
            BY <1>1, <1>2, <1>3, <1>4 DEF PasswordIsCleared, LinkedIsFilled
        <3>4. JobKeepsItsSetup'
            BY <1>2, <1>3, <1>4, <3>1 DEF JobKeepsItsSetup, Active, HasPelicanUser
        <3>5. QED
            BY <3>2, <3>3, <3>4 DEF LinkPart
    <2>6. QED
        BY <2>2, <2>3, <2>4, <2>5
<1>6. CASE UNCHANGED jobVars
    <2>1. LeasePart'
        BY <1>4, <1>6 DEF jobVars, workerVars, LeasePart, LeaseIsHeld,
            OneWorkerPerPurchase, Busy, OwnsLease
    <2>2. PanelPart'
        BY <1>4, <1>6 DEF jobVars, workerVars, panelVars, PanelPart,
            ServersAreAccountedFor, LateServersAreAccountedFor, PanelAgrees,
            OrphanIsGuarded
    <2>3. AttemptPart'
        BY <1>4, <1>6 DEF jobVars, workerVars, AttemptPart, RetriesAreBounded,
            AttemptIsLeft, Busy
    <2>4. LinkPart'
        <3>1. LinkageEndsTheJob'
            BY <1>4, <1>6 DEF jobVars, panelVars, LinkageEndsTheJob
        <3>2. PasswordIsCleared' /\ LinkedIsFilled'
            BY <1>1, <1>2, <1>3, <1>4 DEF PasswordIsCleared, LinkedIsFilled
        <3>3. JobKeepsItsSetup'
            BY <1>2, <1>3, <1>4, <1>6 DEF jobVars, JobKeepsItsSetup, Active,
                HasPelicanUser
        <3>4. QED
            BY <3>1, <3>2, <3>3 DEF LinkPart
    <2>5. QED
        BY <2>1, <2>2, <2>3, <2>4
<1>7. QED
    BY <1>5, <1>6 DEF SubmitSetup, Enqueued

\* The handlers that leave the job, the lease and the panel alone.
LEMMA QuietStep ==
    ASSUME TypeOK,
           NEW p \in Purchase,
           \/ \E s \in Slot : Checkout(p, s)
           \/ CheckoutExpires(p)
           \/ StripeConfirms(p)
           \/ SubscriptionEnds(p)
           \/ VerifyRouting(p)
           \/ \E attested \in BOOLEAN : ReleaseReady(p, attested)
           \/ \E st \in PurchaseStatus, sl \in ServerStatus, nm \in BOOLEAN :
                    AdminOverride(p, st, sl, nm)
           \/ TimeStep(p)
    PROVE  UNCHANGED core /\ NameIsKept
BY DEF Checkout, CheckoutExpires, StripeConfirms, SubscriptionEnds, VerifyRouting,
    ReleaseReady, AdminOverride, TimeStep, LeaseRunsOut, RetryFallsDue, core, NameIsKept,
    TypeOK, purchaseVars, jobVars, workerVars, panelVars, boundVars

\* Deriving the status of a purchase that is not parked does not park it.
LEMMA DeriveDoesNotPark ==
    ASSUME NEW st, NEW ff, NEW live, NEW nm, ff \notin Parked
    PROVE  DeriveFulfillment(st, ff, live, nm) \notin Parked
BY DEF DeriveFulfillment, Parked

\* No step parks a purchase that is linked.
LEMMA NotParkedStep == IndInv /\ [Next]_vars => LinkedIsNotParked'
<1> SUFFICES ASSUME IndInv, [Next]_vars, NEW q \in Purchase, linked'[q]
             PROVE  fulfillment'[q] \notin Parked
    BY DEF LinkedIsNotParked
<1> USE DEF IndInv, TypeOK
<1>1. ASSUME NEW w \in Worker, NEW p \in Purchase, Lease(w, p)
      PROVE  fulfillment'[q] \notin Parked
    <2>1. DeriveFulfillment(status[p], "provisioning", TRUE, named[p]) \notin Parked
        BY DEF DeriveFulfillment, Parked
    <2>2. QED
        BY <1>1, <2>1 DEF Lease, LinkedIsNotParked
<1>2. ASSUME NEW w \in Worker, Retry(w) \/ MoveToAdminReview(w) \/ MoveToDeadLetter(w)
      PROVE  fulfillment'[q] \notin Parked
    <2>1. Busy(w)
        BY <1>2 DEF Retry, MoveToAdminReview, MoveToDeadLetter, Busy
    <2>2. jobState[task[w]] = "leased"
        BY <2>1 DEF LeaseIsHeld, OwnsLease
    <2>3. linked' = linked /\ q # task[w]
        BY <1>2, <2>2 DEF Retry, MoveToAdminReview, MoveToDeadLetter, LinkageEndsTheJob
    <2>4. fulfillment'[q] = fulfillment[q]
        BY <1>2, <2>3 DEF Retry, MoveToAdminReview, MoveToDeadLetter, GiveBack
    <2>5. QED
        BY <2>3, <2>4 DEF LinkedIsNotParked
<1>3. ASSUME NEW w \in Worker, Complete(w) PROVE fulfillment'[q] \notin Parked
    <2>1. DeriveFulfillment(status[task[w]], "pending_activation", FALSE, named[task[w]])
            \notin Parked
        BY DEF DeriveFulfillment, Parked
    <2>2. CASE q = task[w]
        BY <1>3, <2>1, <2>2 DEF Complete, GiveBack
    <2>3. CASE q # task[w]
        BY <1>3, <2>3 DEF Complete, GiveBack, LinkedIsNotParked
    <2>4. QED
        BY <2>2, <2>3
<1>4. ASSUME NEW w \in Worker,
             \/ LookupFinds(w) \/ LookupMisses(w) \/ SendCreate(w) \/ PanelCreates(w)
             \/ PelicanFails(w) \/ CreateUnanswered(w) \/ CompletionFails(w)
             \/ RecoveryThrows(w)
      PROVE  fulfillment'[q] \notin Parked
    BY <1>4 DEF LookupFinds, LookupMisses, SendCreate, PanelCreates, PelicanFails,
                CreateUnanswered, CompletionFails, RecoveryThrows, LinkedIsNotParked,
                purchaseVars
<1>5. ASSUME NEW p \in Purchase, StripeStep(p) PROVE fulfillment'[q] \notin Parked
    BY <1>5, DeriveDoesNotPark
    DEF StripeStep, Checkout, CheckoutExpires, StripeConfirms, SubscriptionEnds,
        LinkedIsNotParked
<1>6. ASSUME NEW p \in Purchase, SubmitSetup(p) PROVE fulfillment'[q] \notin Parked
    BY <1>6, DeriveDoesNotPark DEF SubmitSetup, LinkedIsNotParked
<1>7. ASSUME NEW p \in Purchase, Requeue(p) PROVE fulfillment'[q] \notin Parked
    BY <1>7 DEF Requeue, Requeueable, LinkedIsNotParked, Parked
<1>8. ASSUME NEW p \in Purchase, ReopenSetup(p) PROVE fulfillment'[q] \notin Parked
    BY <1>8 DEF ReopenSetup, Reopenable, HasPelicanUser, LinkedIsNotParked
<1>9. ASSUME NEW p \in Purchase, VerifyRouting(p) \/ TimeStep(p) \/ LateCreateLands(p)
      PROVE  fulfillment'[q] \notin Parked
    BY <1>9 DEF VerifyRouting, TimeStep, LeaseRunsOut, RetryFallsDue, LateCreateLands,
                LinkedIsNotParked, purchaseVars
<1>10. ASSUME NEW p \in Purchase, NEW attested \in BOOLEAN, ReleaseReady(p, attested)
       PROVE  fulfillment'[q] \notin Parked
    BY <1>10, DeriveDoesNotPark DEF ReleaseReady, LinkedIsNotParked
<1>11. ASSUME NEW p \in Purchase, NEW st \in PurchaseStatus, NEW sl \in ServerStatus,
              NEW nm \in BOOLEAN, AdminOverride(p, st, sl, nm)
       PROVE  fulfillment'[q] \notin Parked
    BY <1>11, DeriveDoesNotPark DEF AdminOverride, LinkedIsNotParked
<1>12. CASE Restart
    BY <1>12, DeriveDoesNotPark DEF Restart, LinkedIsNotParked
<1>13. CASE UNCHANGED vars
    BY <1>13 DEF vars, purchaseVars, LinkedIsNotParked
<1>14. QED
    BY <1>1, <1>2, <1>3, <1>4, <1>5, <1>6, <1>7, <1>8, <1>9, <1>10, <1>11, <1>12, <1>13
    DEF Next, WorkerStep, OperatorStep

\* IndInv is inductive.
LEMMA IndInvStep == IndInv /\ [Next]_vars => IndInv'
<1> SUFFICES ASSUME IndInv, [Next]_vars PROVE IndInv'
    OBVIOUS
<1>1. TypeOK'
    BY TypeStep DEF IndInv
<1>2. LeasePart' /\ PanelPart' /\ AttemptPart' /\ LinkPart'
    <2>1. CASE UNCHANGED vars
        <3>1. UNCHANGED core /\ NameIsKept
            BY <2>1 DEF vars, core, NameIsKept, purchaseVars, jobVars, workerVars,
                panelVars, boundVars
        <3>2. QED
            BY <3>1, CoreUnchanged
    <2>2. ASSUME NEW w \in Worker, WorkerStep(w) \/ RecoveryThrows(w)
          PROVE  LeasePart' /\ PanelPart' /\ AttemptPart' /\ LinkPart'
        BY <2>2, LeaseStep, LookupFindsStep, LookupMissesStep, SendCreateStep,
           PanelCreatesStep, PelicanFailsStep, CreateUnansweredStep, RetryStep,
           MoveToAdminReviewStep, MoveToDeadLetterStep, CompleteStep, CompletionFailsStep,
           RecoveryThrowsStep
        DEF WorkerStep
    <2>3. ASSUME NEW p \in Purchase,
                 StripeStep(p) \/ SubmitSetup(p) \/ OperatorStep(p) \/ TimeStep(p)
                    \/ LateCreateLands(p)
          PROVE  LeasePart' /\ PanelPart' /\ AttemptPart' /\ LinkPart'
        BY <2>3, QuietStep, CoreUnchanged, SubmitSetupStep, RequeueStep, ReopenSetupStep,
           LateCreateLandsStep
        DEF StripeStep, OperatorStep, IndInv
    <2>4. CASE Restart
        BY <2>4, RestartStep
    <2>5. QED
        BY <2>1, <2>2, <2>3, <2>4 DEF Next
<1>3. LinkedIsNotParked'
    BY NotParkedStep
<1>4. QED
    BY <1>1, <1>2, <1>3
    DEF IndInv, LeasePart, PanelPart, AttemptPart, LinkPart

(***************************************************************************)
(* Safety                                                                  *)
(***************************************************************************)

\* The strengthened invariant holds in every reachable state.
THEOREM Invariance == Spec => []IndInv
<1>1. Init => IndInv
    BY InitIndInv
<1>2. IndInv /\ [Next]_vars => IndInv'
    BY IndInvStep
<1>3. QED
    BY <1>1, <1>2, PTL DEF Spec

\* Every column and every worker variable keeps its type.
THEOREM TypeCorrect == Spec => []TypeOK
<1>1. IndInv => TypeOK
    BY DEF IndInv
<1>2. QED
    BY <1>1, Invariance, PTL

\* However many workers run, retries and recoveries happen and crashes strike, a
\* purchase has no more servers on the panel than one and one for each create
\* request that a live attempt gave up without an answer.
THEOREM ServersAreOwed == Spec => []ServersAreAccountedFor
<1>1. IndInv => ServersAreAccountedFor
    BY DEF IndInv
<1>2. QED
    BY <1>1, Invariance, PTL

\* Where no live attempt ever gives up a create request without an answer, no
\* purchase has two servers, although answers are lost and requests land after a
\* crash.  This is the condition under which the code keeps the plan's word.
THEOREM ProvisionedOnce ==
    ASSUME MaxUnanswered = 0
    PROVE  Spec => []NeverProvisionedTwice
<1> DEFINE AllAnswered == \A p \in Purchase : unanswered[p] = 0
<1>1. Init => AllAnswered
    BY DEF Init
<1>2. IndInv /\ AllAnswered /\ [Next]_vars => AllAnswered'
    <2> SUFFICES ASSUME IndInv, AllAnswered, [Next]_vars PROVE unanswered' = unanswered
        OBVIOUS
    <2> USE DEF panelVars
    <2>1. ASSUME NEW w \in Worker, WorkerStep(w) \/ RecoveryThrows(w)
          PROVE  unanswered' = unanswered
        <3>1. ~CreateUnanswered(w)
            BY DEF CreateUnanswered, IndInv, TypeOK
        <3>2. QED
            BY <2>1, <3>1 DEF WorkerStep, Lease, LookupFinds, LookupMisses, SendCreate,
                PanelCreates, PelicanFails, Retry, MoveToAdminReview, MoveToDeadLetter,
                Complete, CompletionFails, RecoveryThrows
    <2>2. ASSUME NEW p \in Purchase,
                 StripeStep(p) \/ SubmitSetup(p) \/ OperatorStep(p) \/ TimeStep(p)
                    \/ LateCreateLands(p)
          PROVE  unanswered' = unanswered
        BY <2>2 DEF StripeStep, Checkout, CheckoutExpires, StripeConfirms,
            SubscriptionEnds, SubmitSetup, OperatorStep, Requeue, ReopenSetup,
            VerifyRouting, ReleaseReady, AdminOverride, TimeStep, LeaseRunsOut,
            RetryFallsDue, LateCreateLands
    <2>3. QED
        BY <2>1, <2>2 DEF Next, Restart, vars
<1>3. IndInv /\ AllAnswered => NeverProvisionedTwice
    BY DEF IndInv, TypeOK, ServersAreAccountedFor, NeverProvisionedTwice
<1>4. QED
    BY <1>1, <1>2, <1>3, Invariance, PTL DEF Spec

\* The finalization guards on the lease never turn a live worker away, and no two
\* workers share a purchase.
THEOREM LeaseIsExclusive == Spec => [](LeaseIsHeld /\ OneWorkerPerPurchase)
<1>1. IndInv => LeaseIsHeld /\ OneWorkerPerPurchase
    BY DEF IndInv
<1>2. QED
    BY <1>1, Invariance, PTL

\* The automatic retries stay within the configured number.
THEOREM BoundedRetries == Spec => []RetriesAreBounded
<1>1. IndInv => RetriesAreBounded
    BY DEF IndInv
<1>2. QED
    BY <1>1, Invariance, PTL

\* Linkage is stored for finished jobs and existing servers only, and staged passwords
\* are gone with it: a second submission stages none.
THEOREM LinkageIsSound == Spec => []LinkageIsBacked
<1>1. IndInv => LinkageIsBacked
    BY DEF IndInv, LinkageIsBacked
<1>2. QED
    BY <1>1, Invariance, PTL

\* No reopening, second submission, requeue or free edit takes the setup, or the
\* user or password for it, away from a job that waits or runs; the server name
\* goes only by a free edit.
THEOREM JobsKeepTheirSetup == Spec => []JobKeepsItsSetup
<1>1. IndInv => JobKeepsItsSetup
    BY DEF IndInv
<1>2. QED
    BY <1>1, Invariance, PTL

(***************************************************************************)
(* Release                                                                 *)
(***************************************************************************)

\* Without free status edits no step makes a purchase ready that is not linked
\* and verified.
LEMMA ReadyStep ==
    ASSUME MaxOverrides = 0
    PROVE  IndInv /\ ReadyIsLinkedAndVerified /\ [Next]_vars => ReadyIsLinkedAndVerified'
<1> SUFFICES ASSUME IndInv, ReadyIsLinkedAndVerified, [Next]_vars, NEW q \in Purchase,
                    status'[q] = "completed" \/ fulfillment'[q] = "ready"
             PROVE  linked'[q] /\ verified'[q]
    BY DEF ReadyIsLinkedAndVerified
<1> USE DEF IndInv, TypeOK
<1> DEFINE WasReady == status[q] = "completed" \/ fulfillment[q] = "ready"
           Kept == (linked[q] => linked'[q]) /\ (verified[q] => verified'[q])
<1>1. WasReady /\ Kept => linked'[q] /\ verified'[q]
    BY DEF ReadyIsLinkedAndVerified
<1> HIDE DEF WasReady, Kept
<1>2. ASSUME NEW st, NEW ff, NEW live, NEW nm, DeriveFulfillment(st, ff, live, nm) = "ready"
      PROVE  st = "completed"
    BY <1>2 DEF DeriveFulfillment, StickyFulfillment
<1>3. ASSUME NEW w \in Worker, NEW p \in Purchase, Lease(w, p) PROVE WasReady /\ Kept
    <2>1. DeriveFulfillment(status[p], "provisioning", TRUE, named[p]) = "ready"
            => status[p] = "completed"
        BY DEF DeriveFulfillment, StickyFulfillment
    <2>2. QED
        BY <1>3, <2>1 DEF Lease, WasReady, Kept
<1>4. ASSUME NEW w \in Worker, NEW job, NEW ff, GiveBack(task[w], job, ff), ff # "ready",
             status' = status, linked[q] => linked'[q], verified' = verified
      PROVE  WasReady /\ Kept
    <2>1. DeriveFulfillment(status[task[w]], ff, FALSE, named[task[w]]) = "ready"
            => status[task[w]] = "completed"
        BY <1>4 DEF DeriveFulfillment, StickyFulfillment
    <2>2. QED
        BY <1>4, <2>1 DEF GiveBack, WasReady, Kept
<1>5. ASSUME NEW w \in Worker,
             \/ Retry(w) \/ MoveToAdminReview(w) \/ MoveToDeadLetter(w)
      PROVE  WasReady /\ Kept
    <2>1. CASE OwnsLease(w)
        BY <1>4, <1>5, <2>1 DEF Retry, MoveToAdminReview, MoveToDeadLetter
    <2>2. CASE ~OwnsLease(w)
        BY <1>5, <2>2 DEF Retry, MoveToAdminReview, MoveToDeadLetter, WasReady, Kept
    <2>3. QED
        BY <2>1, <2>2
<1>6. ASSUME NEW w \in Worker, Complete(w) PROVE WasReady /\ Kept
    <2>1. linked[q] => linked'[q]
        BY <1>6 DEF Complete
    <2>2. QED
        BY <1>4, <1>6, <2>1 DEF Complete
<1>7. ASSUME NEW w \in Worker,
             \/ LookupFinds(w) \/ LookupMisses(w) \/ SendCreate(w) \/ PanelCreates(w)
             \/ PelicanFails(w) \/ CreateUnanswered(w) \/ CompletionFails(w)
             \/ RecoveryThrows(w)
      PROVE  WasReady /\ Kept
    BY <1>7 DEF LookupFinds, LookupMisses, SendCreate, PanelCreates, PelicanFails,
                CreateUnanswered, CompletionFails, RecoveryThrows, purchaseVars,
                WasReady, Kept
<1>8. ASSUME NEW p \in Purchase, StripeStep(p) PROVE WasReady /\ Kept
    BY <1>2, <1>8
    DEF StripeStep, Checkout, CheckoutExpires, StripeConfirms, SubscriptionEnds, WasReady,
        Kept
<1>9. ASSUME NEW p \in Purchase, SubmitSetup(p) PROVE WasReady /\ Kept
    <2>1. DeriveFulfillment(status[p], fulfillment[p], leaseLive[p], TRUE) = "ready"
            => status[p] = "completed"
        BY DEF DeriveFulfillment, StickyFulfillment
    <2>2. QED
        BY <1>9, <2>1 DEF SubmitSetup, WasReady, Kept
<1>10. ASSUME NEW p \in Purchase, Requeue(p) \/ ReopenSetup(p) PROVE WasReady /\ Kept
    <2>1. /\ DeriveFulfillment(status[p], "queued", FALSE, named[p]) = "ready"
                => status[p] = "completed"
          /\ DeriveFulfillment(status[p], "not_started", FALSE, FALSE) = "ready"
                => status[p] = "completed"
        BY DEF DeriveFulfillment, StickyFulfillment
    <2>2. QED
        BY <1>10, <2>1 DEF Requeue, ReopenSetup, WasReady, Kept
<1>11. ASSUME NEW p \in Purchase, VerifyRouting(p) \/ TimeStep(p) \/ LateCreateLands(p)
       PROVE  WasReady /\ Kept
    BY <1>11 DEF VerifyRouting, TimeStep, LeaseRunsOut, RetryFallsDue, LateCreateLands,
                 purchaseVars, WasReady, Kept
<1>12. ASSUME NEW p \in Purchase, NEW attested \in BOOLEAN, ReleaseReady(p, attested)
       PROVE  (WasReady /\ Kept) \/ (linked'[q] /\ verified'[q])
    BY <1>12 DEF ReleaseReady, WasReady, Kept
<1>13. CASE Restart
    <2>1. DeriveFulfillment(status[q], fulfillment[q], leaseLive[q], named[q]) = "ready"
            => status[q] = "completed"
        BY DEF DeriveFulfillment, StickyFulfillment
    <2>2. QED
        BY <1>1, <1>13, <2>1 DEF Restart, WasReady, Kept
<1>14. CASE UNCHANGED vars
    <2>1. UNCHANGED <<status, fulfillment, linked, verified>>
        BY <1>14 DEF vars, purchaseVars
    <2>2. QED
        BY <1>1, <2>1 DEF WasReady, Kept
<1>15. \A p \in Purchase, st \in PurchaseStatus, sl \in ServerStatus, nm \in BOOLEAN :
            ~AdminOverride(p, st, sl, nm)
    BY DEF AdminOverride
<1>16. QED
    BY <1>1, <1>3, <1>5, <1>6, <1>7, <1>8, <1>9, <1>10, <1>11, <1>12, <1>13, <1>14, <1>15
    DEF Next, WorkerStep, OperatorStep

\* As long as the admin does not edit statuses by hand, a purchase is ready only
\* with linkage and verified routing: no Stripe event, retry, recovery or
\* restart takes it there.
THEOREM ReadyIsEarned ==
    ASSUME MaxOverrides = 0
    PROVE  Spec => []ReadyIsLinkedAndVerified
<1>1. Init => ReadyIsLinkedAndVerified
    BY DEF Init, ReadyIsLinkedAndVerified
<1>2. IndInv /\ ReadyIsLinkedAndVerified /\ [Next]_vars => ReadyIsLinkedAndVerified'
    BY ReadyStep
<1>3. QED
    BY <1>1, <1>2, Invariance, PTL DEF Spec

(***************************************************************************)
(* Refinement                                                              *)
(***************************************************************************)

\* A step that leaves the queue rows and the panel alone is a stutter.
LEMMA ContractStutter ==
    ASSUME jobState' = jobState, attempts' = attempts, panel' = panel,
           unanswered' = unanswered
    PROVE  UNCHANGED Contract!vars
BY DEF Contract!vars, Phase

\* Every step of the pipeline is a step of the contract or none.
LEMMA ContractStep == IndInv /\ [Next]_vars => [Contract!Next]_Contract!vars
<1> SUFFICES ASSUME IndInv, [Next]_vars PROVE [Contract!Next]_Contract!vars
    OBVIOUS
<1> USE DEF IndInv, TypeOK
<1> DEFINE phase == [p \in Purchase |-> Phase(jobState[p])]
<1>1. ASSUME NEW w \in Worker, NEW p \in Purchase, Lease(w, p)
      PROVE  Contract!Attempt(p)
    <2>1. phase[p] = "queued" /\ attempts[p] <= MaxAutoRetries
        BY <1>1 DEF Lease, Leasable, Phase, AttemptIsLeft
    <2>2. phase' = [phase EXCEPT ![p] = "working"]
        BY <1>1 DEF Lease, Phase
    <2>3. QED
        BY <1>1, <2>1, <2>2 DEF Lease, panelVars, Contract!Attempt
<1>2. ASSUME NEW w \in Worker, NEW job \in JobState, NEW ff, Busy(w),
             GiveBack(task[w], job, ff)
      PROVE  /\ task[w] \in Purchase
             /\ phase[task[w]] = "working"
             /\ phase' = [phase EXCEPT ![task[w]] = Phase(job)]
             /\ attempts' = attempts
    <2>1. task[w] \in Purchase /\ jobState[task[w]] = "leased"
        BY <1>2 DEF Busy, LeaseIsHeld, OwnsLease
    <2>2. phase' = [phase EXCEPT ![task[w]] = Phase(job)]
        BY <1>2, <2>1 DEF GiveBack, Phase
    <2>3. QED
        BY <1>2, <2>1, <2>2 DEF GiveBack, Phase
<1>3. ASSUME NEW w \in Worker, Retry(w) PROVE Contract!TryAgain(task[w])
    <2>1. Busy(w) /\ mayRetry[w] /\ OwnsLease(w)
        BY <1>3 DEF Retry, Busy, LeaseIsHeld
    <2>2. GiveBack(task[w], "queued", "retryable_failure") /\ UNCHANGED panelVars
        BY <1>3, <2>1 DEF Retry
    <2>3. attempts[task[w]] <= MaxAutoRetries
        BY <2>1 DEF AttemptIsLeft
    <2>4. QED
        BY <1>2, <2>1, <2>2, <2>3 DEF Contract!TryAgain, Phase, JobState, panelVars
<1>4. ASSUME NEW w \in Worker, MoveToAdminReview(w) \/ MoveToDeadLetter(w)
      PROVE  Contract!Park(task[w])
    <2>1. Busy(w) /\ OwnsLease(w)
        BY <1>4 DEF MoveToAdminReview, MoveToDeadLetter, Busy, LeaseIsHeld
    <2>2. /\ \/ GiveBack(task[w], "needs_admin_review", "needs_admin_review")
             \/ GiveBack(task[w], "dead_letter", "dead_letter")
          /\ UNCHANGED panelVars
        BY <1>4, <2>1 DEF MoveToAdminReview, MoveToDeadLetter
    <2>3. QED
        BY <1>2, <2>1, <2>2 DEF Contract!Park, Phase, JobState, panelVars
<1>5. ASSUME NEW w \in Worker, Complete(w) PROVE Contract!Finish(task[w])
    <2>1. Busy(w) /\ panel[task[w]] > 0
        BY <1>5 DEF Complete, Busy, PanelAgrees
    <2>2. GiveBack(task[w], "completed", "pending_activation") /\ UNCHANGED panelVars
        BY <1>5 DEF Complete
    <2>3. QED
        BY <1>2, <2>1, <2>2 DEF Contract!Finish, Phase, JobState, panelVars
<1>6. ASSUME NEW w \in Worker, PanelCreates(w) \/ CreateUnanswered(w)
      PROVE  Contract!Provision(task[w]) \/ Contract!LoseRequest(task[w])
    <2>1. Busy(w) /\ pc[w] = "creating"
        BY <1>6 DEF PanelCreates, CreateUnanswered, Busy
    <2>2. task[w] \in Purchase /\ phase[task[w]] = "working"
        BY <2>1 DEF Busy, LeaseIsHeld, OwnsLease, Phase
    <2>3. panel[task[w]] <= unanswered[task[w]]
        BY <2>1, <2>2 DEF PanelAgrees
    <2>4. CASE PanelCreates(w)
        BY <2>2, <2>3, <2>4 DEF PanelCreates, jobVars, Contract!Provision
    <2>5. CASE CreateUnanswered(w)
        BY <2>2, <2>5 DEF CreateUnanswered, jobVars, Contract!LoseRequest
    <2>6. QED
        BY <1>6, <2>4, <2>5
<1>7. ASSUME NEW w \in Worker,
             \/ LookupFinds(w) \/ LookupMisses(w) \/ SendCreate(w) \/ PelicanFails(w)
             \/ CompletionFails(w) \/ RecoveryThrows(w)
      PROVE  UNCHANGED Contract!vars
    BY <1>7, ContractStutter
    DEF LookupFinds, LookupMisses, SendCreate, PelicanFails, CompletionFails,
        RecoveryThrows, jobVars, panelVars
<1>8. ASSUME NEW p \in Purchase, LateCreateLands(p) PROVE Contract!Provision(p)
    <2>1. panel[p] <= unanswered[p]
        BY <1>8 DEF LateCreateLands, LateServersAreAccountedFor
    <2>2. phase[p] = "working" \/ unanswered[p] > 0
        BY <1>8 DEF LateCreateLands, OrphanIsGuarded, Phase
    <2>3. QED
        BY <1>8, <2>1, <2>2 DEF LateCreateLands, jobVars, Contract!Provision
<1>9. ASSUME NEW p \in Purchase,
             jobState[p] \in {"none", "needs_admin_review", "dead_letter"},
             jobState' = [jobState EXCEPT ![p] = "queued"],
             attempts' = [attempts EXCEPT ![p] = 0], UNCHANGED panelVars
      PROVE  Contract!Submit(p)
    <2>1. phase[p] \in {"idle", "parked"}
        BY <1>9 DEF Phase
    <2>2. phase' = [phase EXCEPT ![p] = "queued"]
        BY <1>9 DEF Phase
    <2>3. QED
        BY <1>9, <2>1, <2>2 DEF Contract!Submit, panelVars
<1>10. ASSUME NEW p \in Purchase, SubmitSetup(p)
       PROVE  Contract!Submit(p) \/ UNCHANGED Contract!vars
    <2>1. UNCHANGED panelVars /\ (Enqueued(p) \/ UNCHANGED jobVars)
        BY <1>10 DEF SubmitSetup
    <2>2. QED
        BY <1>9, <2>1, ContractStutter DEF Enqueued, jobVars, panelVars
<1>11. ASSUME NEW p \in Purchase, Requeue(p) PROVE Contract!Submit(p)
    <2>1. jobState[p] # "completed"
        BY <1>11 DEF Requeue, Requeueable, LinkageEndsTheJob, LinkedIsNotParked, Parked
    <2>2. jobState[p] \in {"none", "needs_admin_review", "dead_letter"}
        BY <1>11, <2>1 DEF Requeue, Requeueable, JobState
    <2>3. QED
        BY <1>9, <1>11, <2>2 DEF Requeue
<1>12. ASSUME NEW p \in Purchase,
              \/ StripeStep(p) \/ ReopenSetup(p) \/ VerifyRouting(p) \/ TimeStep(p)
              \/ \E attested \in BOOLEAN : ReleaseReady(p, attested)
              \/ \E st \in PurchaseStatus, sl \in ServerStatus, nm \in BOOLEAN :
                        AdminOverride(p, st, sl, nm)
       PROVE  UNCHANGED Contract!vars
    BY <1>12, ContractStutter
    DEF StripeStep, Checkout, CheckoutExpires, StripeConfirms, SubscriptionEnds,
        ReopenSetup, VerifyRouting, TimeStep, LeaseRunsOut, RetryFallsDue, ReleaseReady,
        AdminOverride, jobVars, panelVars
<1>13. CASE Restart
    BY <1>13, ContractStutter DEF Restart, jobVars
<1>14. CASE UNCHANGED vars
    BY <1>14, ContractStutter DEF vars, jobVars, panelVars
<1>15. QED
    <2>1. ASSUME NEW w \in Worker, WorkerStep(w) \/ RecoveryThrows(w)
          PROVE  [Contract!Next]_Contract!vars
        <3>1. task[w] \in Purchase \/ \E p \in Purchase : Lease(w, p)
            BY <2>1 DEF WorkerStep, LookupFinds, LookupMisses, SendCreate, PanelCreates,
                        PelicanFails, CreateUnanswered, Retry, MoveToAdminReview,
                        MoveToDeadLetter, Complete, CompletionFails, RecoveryThrows
        <3>2. QED
            BY <2>1, <3>1, <1>1, <1>3, <1>4, <1>5, <1>6, <1>7 DEF WorkerStep, Contract!Next
    <2>2. QED
        BY <2>1, <1>8, <1>10, <1>11, <1>12, <1>13, <1>14
        DEF Next, OperatorStep, Contract!Next

\* The provisioning pipeline implements the provisioning contract.
THEOREM Refinement == Spec => KeepsContract
<1>1. Init => Contract!Init
    BY DEF Init, Contract!Init, Phase
<1>2. IndInv /\ [Next]_vars => [Contract!Next]_Contract!vars
    BY ContractStep
<1>3. QED
    BY <1>1, <1>2, Invariance, PTL DEF Spec, KeepsContract, Contract!Spec

=============================================================================
