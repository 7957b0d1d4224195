------------------------- MODULE ServiceAccessLinks -------------------------
(***************************************************************************)
(* The private service access links of one purchase: the table             *)
(* serviceAccessLinks, the mails that carry the links, Stripe's billing    *)
(* periods and the admin's rotation and revocation.                        *)
(*                                                                         *)
(* Source: backend/services/serviceAccessLinks.js, its callers in          *)
(* services/purchases.js and routes/api/admin.js, and the mails of         *)
(* services/emailOutbox.js that hold the placeholder of a link.            *)
(*                                                                         *)
(* A link is made when a mail is sent, not when the mail is queued.  The   *)
(* worker reads the purchase, inserts the link and hands the mail over in  *)
(* three steps; a webhook saves the purchase and looks after its links in  *)
(* two.  Any of them may fall between any two of the others.               *)
(*                                                                         *)
(* The clock counts days; the purchase is paid on day 0.  A token is the   *)
(* place of its link in the table.  The delivery of mails is only sketched *)
(* here, module EmailOutbox has its leases and retries.                    *)
(***************************************************************************)
EXTENDS Naturals, FiniteSets, Sequences, SequencesExt

CONSTANTS
    Period,         \* days of a billing period of Stripe
    DefaultPeriod,  \* DEFAULT_PERIOD_MS, in days
    Overlap,        \* getOverlapMs(), in days
    OtherMail,      \* keys of the other mails that carry a link: ready, reminder, support
    NoMail,         \* what an idle worker works on
    MaxLinks,       \* bound: links made for the purchase
    Trouble,        \* the kinds of trouble that may happen, once each
    MaxKinds,       \* bound: different kinds of trouble in a behaviour
    LastDay         \* bound: the clock

\* The admin rotates the links or revokes one of them, a delivery fails, an event
\* of the period before arrives late, the service comes to its end.
TroubleKind == {"rotate", "revoke", "failure", "late", "close"}

ASSUME ConstantsAssumption ==
    /\ Period \in Nat \ {0} /\ DefaultPeriod \in Nat \ {0} /\ Overlap \in Nat
    /\ LastDay \in Nat /\ MaxLinks \in Nat /\ MaxKinds \in Nat
    /\ Trouble \subseteq TroubleKind
    /\ NoMail \notin OtherMail
    /\ OtherMail \cap Nat = {} /\ NoMail \notin Nat

VARIABLES
    now,        \* today
    cycle,      \* first day of the period the subscription is in, at Stripe
    (* purchases *)
    reported,   \* the period of the purchase row, NoPeriod for NULL columns
    paid,       \* Stripe's first event was handled
    open,       \* the purchase is one verifyServiceAccessToken accepts
    unsynced,   \* a webhook has saved the row and not yet looked after the links
    (* serviceAccessLinks *)
    links,      \* its rows in the order of their ids
    (* emailOutbox *)
    mail,       \* state of the mails that carry a link, by key
    (* the worker *)
    task,       \* the mail it sends
    period,     \* the period it read
    link,       \* the link it inserted, 0 before
    (* the customer *)
    inbox,      \* links received, in order
    (* history and bounds *)
    swallowed,  \* a request for a mail met a row that was already taken up
    trouble     \* the kinds of trouble there have been

workerVars == <<task, period, link>>
purchaseVars == <<reported, paid, open, unsynced>>

vars == <<now, cycle, purchaseVars, links, mail, workerVars, inbox,
          swallowed, trouble>>

Day == 0 .. LastDay

\* The mails of kind service_access_link have one key for each day.
MailKey == Day \cup OtherMail

MailState == {"none", "queued", "sending", "sent", "failed"}

NoPeriod == [start |-> 0, end |-> 0]

\* Stripe's periods follow one another.
StripePeriod(first) == [start |-> first, end |-> first + Period]

\* getPurchasePeriodBounds: until Stripe has reported a period, thirty days
\* from the payment stand in for it.
Bounds(p) ==
    IF p = NoPeriod THEN [start |-> 0, end |-> DefaultPeriod] ELSE p

Init ==
    /\ now = 0
    /\ cycle = 0
    /\ reported = NoPeriod
    /\ paid = FALSE
    /\ open = TRUE
    /\ unsynced = FALSE
    /\ links = <<>>
    /\ mail = [m \in MailKey |-> "none"]
    /\ task = NoMail
    /\ period = NoPeriod
    /\ link = 0
    /\ inbox = <<>>
    /\ swallowed = FALSE
    /\ trouble = {}

\* The step meets trouble of this kind, for the first time.
Meets(kind) ==
    /\ kind \in Trouble \ trouble
    /\ Cardinality(trouble \cup {kind}) <= MaxKinds
    /\ trouble' = trouble \cup {kind}

(***************************************************************************)
(* Links                                                                   *)
(***************************************************************************)

Live(l) == ~l.revoked /\ now <= l.expires

\* getCurrentServiceAccessLink: the live link of the latest period, 0 for none.
Current ==
    LET live == {i \in DOMAIN links : Live(links[i])}
        latest(i) == \A j \in live :
            \/ links[j].start < links[i].start
            \/ links[j].start = links[i].start /\ j <= i
    IN  IF live = {} THEN 0 ELSE CHOOSE i \in live : latest(i)

\* createServiceAccessLinkForPurchase
NewLink(bounds) ==
    [start |-> bounds.start, end |-> bounds.end,
     expires |-> bounds.end + Overlap, revoked |-> FALSE]

\* verifyServiceAccessToken: the link and the purchase behind it.
Verifies(i) == Live(links[i]) /\ open

\* A revoked link also ends now.
Revoked(l) == [l EXCEPT !.revoked = TRUE, !.expires = IF @ > now THEN now ELSE @]

\* Mutant of Shortened: the end of the overlap is set, not only brought forward.
Prolonged(l, bounds) ==
    IF ~l.revoked /\ l.start < bounds.start
    THEN [l EXCEPT !.expires = bounds.start + Overlap]
    ELSE l

\* The links of earlier periods end with the overlap.
Shortened(l, bounds) ==
    IF ~l.revoked /\ l.start < bounds.start /\ l.expires > bounds.start + Overlap
    THEN [l EXCEPT !.expires = bounds.start + Overlap]
    ELSE l

(***************************************************************************)
(* Mails                                                                   *)
(***************************************************************************)

\* INSERT .. ON CONFLICT(idempotencyKey) DO NOTHING: the request is lost on a
\* row that has been taken up before.
EnqueueLinkMail(key) ==
    /\ mail' = [mail EXCEPT ![key] = IF @ = "none" THEN "queued" ELSE @]
    /\ swallowed' = (swallowed \/ mail[key] \notin {"none", "queued"})

\* Any other mail with the placeholder: the ready mail and its resend, the
\* setup reminder, the receipt of a support ticket.
EnqueueOtherMail(m) ==
    /\ paid
    /\ mail[m] = "none"
    /\ mail' = [mail EXCEPT ![m] = "queued"]
    /\ UNCHANGED <<now, cycle, purchaseVars, links, workerVars, inbox,
                   swallowed, trouble>>

(***************************************************************************)
(* Stripe and its webhooks                                                 *)
(***************************************************************************)

\* The clock and, at the end of a period, the subscription's next one.
NextDay ==
    /\ paid
    /\ now < LastDay
    /\ now' = now + 1
    /\ cycle' = IF now + 1 = cycle + Period THEN now + 1 ELSE cycle
    /\ UNCHANGED <<purchaseVars, links, mail, workerVars, inbox, swallowed, trouble>>

\* A webhook saves what Stripe says: the period the subscription is in, the one
\* of an event that comes late, or no period at all, which keeps the row's.
SaveSubscription ==
    /\ ~unsynced
    /\ open
    /\ \/ UNCHANGED <<reported, trouble>>
       \/ reported' = StripePeriod(cycle) /\ UNCHANGED trouble
       \/ cycle > 0 /\ reported' = StripePeriod(cycle - Period) /\ Meets("late")
    /\ paid' = TRUE
    /\ unsynced' = TRUE
    /\ UNCHANGED <<now, cycle, open, links, mail, workerVars, inbox, swallowed>>

\* syncServiceAccessLinkForBillingPeriod and the mail its caller queues.  A
\* current link of the same period settles it, whether or not a customer ever
\* received that link.
SyncLinks ==
    LET bounds == Bounds(reported)
        settled == /\ Current # 0
                   /\ links[Current].start = bounds.start
                   /\ links[Current].end = bounds.end
    IN  /\ unsynced
        /\ unsynced' = FALSE
        /\ \/ /\ settled
              /\ UNCHANGED <<mail, links, swallowed>>
           \/ /\ ~settled
              /\ EnqueueLinkMail(now)
              /\ links' = IF Current = 0 THEN links
                          ELSE [i \in DOMAIN links |-> Shortened(links[i], bounds)]
        /\ UNCHANGED <<now, cycle, reported, paid, open, workerVars, inbox, trouble>>

\* A terminal subscription, a deleted service or a hard flag: no link is
\* touched, verification looks at the purchase.
Close ==
    /\ paid /\ open /\ ~unsynced /\ Meets("close")
    /\ open' = FALSE
    /\ UNCHANGED <<now, cycle, reported, paid, unsynced, links, mail, workerVars,
                   inbox, swallowed>>

(***************************************************************************)
(* The admin                                                               *)
(***************************************************************************)

\* Mutant of Rotate: no replacement is asked for.
RotateOnly ==
    /\ paid /\ Meets("rotate")
    /\ links' = [i \in DOMAIN links |->
                    IF links[i].revoked THEN links[i] ELSE Revoked(links[i])]
    /\ UNCHANGED <<now, cycle, purchaseVars, mail, workerVars, inbox, swallowed>>

\* POST service-access-links/rotate, one transaction: every link that was not
\* revoked is, and a mail is to bring the next one.
Rotate ==
    /\ paid /\ Meets("rotate")
    /\ links' = [i \in DOMAIN links |->
                    IF links[i].revoked THEN links[i] ELSE Revoked(links[i])]
    /\ EnqueueLinkMail(now)
    /\ UNCHANGED <<now, cycle, purchaseVars, workerVars, inbox>>

\* POST service-access-links/:linkId/revoke takes any link of the table, and
\* nothing replaces it.
Revoke(i) ==
    /\ i \in DOMAIN links /\ Meets("revoke")
    /\ links' = [links EXCEPT ![i] = Revoked(@)]
    /\ UNCHANGED <<now, cycle, purchaseVars, mail, workerVars, inbox, swallowed>>

(***************************************************************************)
(* The worker                                                              *)
(***************************************************************************)

\* A mail is leased and materializeServiceAccessLinkForEmail reads the purchase.
ReadPurchase(m) ==
    /\ task = NoMail
    /\ mail[m] = "queued"
    /\ Len(links) < MaxLinks
    /\ mail' = [mail EXCEPT ![m] = "sending"]
    /\ task' = m
    /\ period' = Bounds(reported)
    /\ link' = 0
    /\ UNCHANGED <<now, cycle, purchaseVars, links, inbox, swallowed, trouble>>

\* The link of the mail is inserted; reuseExisting is never asked for.
InsertLink ==
    /\ task # NoMail
    /\ link = 0
    /\ links' = Append(links, NewLink(period))
    /\ link' = Len(links) + 1
    /\ UNCHANGED <<now, cycle, purchaseVars, mail, task, period, inbox, swallowed,
                   trouble>>

\* Mutant of EndAttempt: the worker does not let go of the mail.
EndAttemptHolding(newState) ==
    /\ mail' = [mail EXCEPT ![task] = newState]
    /\ period' = NoPeriod
    /\ link' = 0
    /\ UNCHANGED <<now, cycle, purchaseVars, links, task, swallowed>>

\* The mail's row at the end of an attempt; the worker is free again.
EndAttempt(newState) ==
    /\ mail' = [mail EXCEPT ![task] = newState]
    /\ task' = NoMail
    /\ period' = NoPeriod
    /\ link' = 0
    /\ UNCHANGED <<now, cycle, purchaseVars, links, swallowed>>

Deliver ==
    /\ link # 0
    /\ inbox' = Append(inbox, link)
    /\ EndAttempt("sent")
    /\ UNCHANGED trouble

\* The provider refuses the mail; it is tried once more or given up.
DeliveryFails ==
    /\ link # 0
    /\ Meets("failure")
    /\ EndAttempt("queued") \/ EndAttempt("failed")
    /\ UNCHANGED inbox

Next ==
    \/ NextDay
    \/ SaveSubscription
    \/ SyncLinks
    \/ Close
    \/ Rotate
    \/ \E i \in 1 .. MaxLinks : Revoke(i)
    \/ \E m \in OtherMail : EnqueueOtherMail(m)
    \/ \E m \in MailKey : ReadPurchase(m)
    \/ InsertLink
    \/ Deliver
    \/ DeliveryFails

Spec == Init /\ [][Next]_vars

(***************************************************************************)
(* Properties                                                              *)
(***************************************************************************)

Link == [start : Nat, end : Nat, expires : Nat, revoked : BOOLEAN]

\* Every variable has its type; the link of an attempt exists, and a mail is
\* being sent exactly while the worker holds it.
TypeOK ==
    /\ now \in Day /\ cycle \in Day /\ cycle <= now /\ now < cycle + Period
    /\ reported \in [start : Nat, end : Nat]
    /\ paid \in BOOLEAN /\ open \in BOOLEAN /\ unsynced \in BOOLEAN
    /\ links \in Seq(Link)
    /\ mail \in [MailKey -> MailState]
    /\ task \in MailKey \cup {NoMail}
    /\ period \in [start : Nat, end : Nat]
    /\ link \in 0 .. Len(links)
    /\ \A m \in MailKey : mail[m] = "sending" <=> task = m
    /\ inbox \in Seq(1 .. Len(links))
    /\ swallowed \in BOOLEAN /\ trouble \in SUBSET Trouble

\* A link that was revoked or has run out never opens the service again:
\* neither a renewal that moves the end of the earlier links, nor a late event,
\* nor a rotation on top of a revocation brings it back.
DeadStaysDead ==
    [][\A i \in DOMAIN links : ~Live(links[i]) => ~Live(links[i])']_vars

\* Nothing is on its way to the customer.
Quiet ==
    /\ ~unsynced
    /\ \A m \in MailKey : mail[m] \notin {"queued", "sending"}

\* The subscription is served and the period the purchase row knows, with its
\* overlap, is not over.
Served == paid /\ open /\ now <= Bounds(reported).end + Overlap

\* No mail was given up, none was asked for under a key that was used up, the
\* admin revoked no link by hand, and no event came late on top of a failed
\* delivery: the link of a mail that never arrived then counts as current.
NothingLost ==
    /\ \A m \in MailKey : mail[m] # "failed"
    /\ ~swallowed
    /\ "revoke" \notin trouble
    /\ ~({"late", "failure"} \subseteq trouble)

\* When all mails have arrived, a customer of a served purchase holds a link
\* that opens the service: through renewals, events that come late or without
\* a period, mails that were prepared before a renewal or a rotation, and the
\* admin's rotations.
CustomerKeepsAccess ==
    Quiet /\ Served /\ NothingLost => \E k \in DOMAIN inbox : Verifies(inbox[k])

=============================================================================
