--------------------------- MODULE LifecycleState ---------------------------
(***************************************************************************)
(* The status vocabulary of a purchase and the pure functions that project *)
(* a purchase row onto its four derived status columns.                    *)
(*                                                                         *)
(* Source: backend/constants/status.js, backend/services/lifecycle.js and  *)
(* backend/services/policyRules.js.  Every handler that saves a purchase   *)
(* runs the row through mergeLifecycleState first, so the derivations are  *)
(* part of the actions of the modules that extend this one.                *)
(*                                                                         *)
(* A timestamp column that the code only tests for "set" is a Boolean; one *)
(* it compares with the clock is a natural number of days, 0 standing for  *)
(* NULL (asTimestamp in policyRules.js maps 0 to null as well).            *)
(***************************************************************************)
EXTENDS Naturals

(***************************************************************************)
(* Status constants                                                        *)
(***************************************************************************)

PurchaseStatus == {"checkout_pending", "paid", "completed", "expired", "cancelled"}

ServerStatus == {"available", "held", "allocated"}

SetupStatus == {"not_started", "setup_pending", "setup_submitted"}

FulfillmentStatus ==
    {"not_started", "queued", "provisioning", "pending_activation",
     "retryable_failure", "ready", "needs_admin_review", "dead_letter", "deleted"}

ServiceStatus ==
    {"inactive", "active", "cancel_scheduled", "grace_live",
     "suspended_final_recovery", "deleted"}

CustomerRiskStatus == {"clear", "purchase_blocked_delinquent", "hard_flagged"}

\* Statuses that the uniqueness queries call "not live": the row no longer
\* claims its hostname, its username or its allocation.
ClosedStatus == {"cancelled", "expired"}

(***************************************************************************)
(* Stripe subscription statuses                                            *)
(***************************************************************************)

TerminalSubscription == {"canceled", "unpaid", "incomplete_expired"}

LiveSubscription == {"active", "trialing", "past_due"}

\* "unpaid" is both delinquent and terminal.
DelinquentSubscription == {"past_due", "unpaid"}

(***************************************************************************)
(* deriveLifecycleState                                                    *)
(***************************************************************************)

DeriveSetup(status, named) ==
    IF named THEN "setup_submitted"
    ELSE IF status \in {"paid", "completed"} THEN "setup_pending"
    ELSE "not_started"

\* Fulfilment statuses that survive every re-derivation of a purchase that is
\* not completed.
StickyFulfillment ==
    {"needs_admin_review", "dead_letter", "pending_activation", "retryable_failure"}

DeriveFulfillment(status, fulfillment, leaseLive, named) ==
    IF status = "completed" THEN "ready"
    ELSE IF fulfillment \in StickyFulfillment THEN fulfillment
    ELSE IF leaseLive THEN "provisioning"
    ELSE IF named /\ status = "paid" THEN "queued"
    ELSE "not_started"

DeriveService(status, subscription, suspended, delinquent, cancelAtPeriodEnd) ==
    IF status # "completed" THEN "inactive"
    ELSE IF subscription \in TerminalSubscription THEN "deleted"
    ELSE IF suspended THEN "suspended_final_recovery"
    ELSE IF delinquent THEN "grace_live"
    ELSE IF cancelAtPeriodEnd THEN "cancel_scheduled"
    ELSE "active"

DeriveRisk(risk, suspended, delinquent) ==
    IF risk = "hard_flagged" THEN "hard_flagged"
    ELSE IF delinquent \/ suspended THEN "purchase_blocked_delinquent"
    ELSE "clear"

(***************************************************************************)
(* getPurchasePolicyState: the deadlines.  The periods are parameters.     *)
(***************************************************************************)

SuspensionRequired(subscription, delinquentAt, suspendedAt, now, grace) ==
    /\ delinquentAt > 0
    /\ suspendedAt = 0
    /\ now >= delinquentAt + grace
    /\ subscription \notin TerminalSubscription

PurgeRequired(suspendedAt, now, retention) ==
    /\ suspendedAt > 0
    /\ now >= suspendedAt + retention

\* The admin override refuses to cancel a purchase whose subscription is live.
RequiresStripeCancellation(subscription) ==
    subscription \in LiveSubscription \ TerminalSubscription

=============================================================================
