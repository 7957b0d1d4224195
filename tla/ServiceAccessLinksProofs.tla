---------------------- MODULE ServiceAccessLinksProofs ----------------------
(***************************************************************************)
(* Proofs about ServiceAccessLinks, for every value of its constants.      *)
(***************************************************************************)
EXTENDS ServiceAccessLinks, SequenceTheorems, ExtremaLemmas, TLAPS

(***************************************************************************)
(* Typing                                                                  *)
(***************************************************************************)

\* A period the subscription has left behind can be reported late: it began on
\* a day of the calendar.
Typing == TypeOK /\ (cycle > 0 => cycle >= Period)

\* Bounds are days, also where they stand in for a period that is not known.
LEMMA BoundsType ==
    ASSUME NEW p \in [start : Nat, end : Nat]
    PROVE  Bounds(p) \in [start : Nat, end : Nat]
BY ConstantsAssumption DEF Bounds

\* Changing the links of a table one by one makes a table of the same length.
LEMMA MapLinks ==
    ASSUME NEW ls \in Seq(Link), NEW new,
           new = [i \in DOMAIN ls |-> new[i]],
           \A i \in DOMAIN ls : new[i] \in Link
    PROVE  new \in Seq(Link) /\ Len(new) = Len(ls)
<1>1. Len(ls) \in Nat /\ DOMAIN ls = 1 .. Len(ls)
    OBVIOUS
<1>2. new \in [1 .. Len(ls) -> Link]
    BY <1>1
<1>3. QED
    BY <1>1, <1>2

\* A revoked link is a link,
LEMMA RevokedType ==
    ASSUME NEW l \in Link, now \in Nat
    PROVE  Revoked(l) \in Link
BY DEF Revoked, Link

\* and so is one that was cut short.
LEMMA ShortenedType ==
    ASSUME NEW l \in Link, NEW b \in [start : Nat, end : Nat]
    PROVE  Shortened(l, b) \in Link
BY ConstantsAssumption DEF Shortened, Link

\* Queueing a mail leaves every mail in one of its states.
LEMMA EnqueueType ==
    ASSUME TypeOK, NEW key \in MailKey, EnqueueLinkMail(key), task' = task
    PROVE  /\ mail' \in [MailKey -> MailState]
           /\ swallowed' \in BOOLEAN
           /\ \A m \in MailKey : mail'[m] = "sending" <=> task' = m
BY DEF EnqueueLinkMail, TypeOK, MailState

\* The same when an attempt ends.
LEMMA EndAttemptType ==
    ASSUME TypeOK, NEW state \in {"sent", "queued", "failed"}, EndAttempt(state)
    PROVE  /\ mail' \in [MailKey -> MailState]
           /\ \A m \in MailKey : mail'[m] = "sending" <=> task' = m
           /\ task' = NoMail /\ period' \in [start : Nat, end : Nat]
           /\ link' = 0 /\ UNCHANGED links /\ link' \in 0 .. Len(links')
<1>1. NoMail \notin MailKey
    BY ConstantsAssumption DEF MailKey, Day
<1>2. link' = 0 /\ UNCHANGED links /\ link' \in 0 .. Len(links')
    BY DEF EndAttempt, TypeOK
<1>3. mail' \in [MailKey -> MailState]
    BY DEF EndAttempt, TypeOK, MailState
<1>4. \A m \in MailKey : mail'[m] = "sending" <=> task' = m
    BY <1>1 DEF EndAttempt, TypeOK
<1>5. QED
    BY <1>2, <1>3, <1>4 DEF EndAttempt, NoPeriod

\* The types are right at the start,
LEMMA TypingInit == Init => Typing
BY ConstantsAssumption DEF Init, Typing, TypeOK, Day, NoPeriod, MailState, MailKey

\* and after every step.
LEMMA TypingStep == Typing /\ [Next]_vars => Typing'
<1> SUFFICES ASSUME Typing, [Next]_vars PROVE Typing'
    OBVIOUS
<1> USE ConstantsAssumption
<1>0. TypeOK /\ now \in MailKey /\ now \in Nat /\ cycle \in Nat /\ NoMail \notin MailKey
    BY DEF Typing, TypeOK, MailKey, Day
<1>1. CASE NextDay
    BY <1>1 DEF NextDay, Typing, TypeOK, Day, purchaseVars, workerVars
<1>2. CASE SaveSubscription
    <2>1. reported' \in [start : Nat, end : Nat]
        BY <1>0, <1>2 DEF SaveSubscription, StripePeriod, Typing, TypeOK
    <2>2. trouble' \in SUBSET Trouble
        BY <1>0, <1>2 DEF SaveSubscription, Meets, TypeOK
    <2>3. QED
        BY <1>2, <2>1, <2>2 DEF SaveSubscription, Typing, TypeOK, workerVars
<1>3. CASE SyncLinks
    <2>1. Bounds(reported) \in [start : Nat, end : Nat]
        BY BoundsType DEF Typing, TypeOK
    <2>2. links' \in Seq(Link) /\ Len(links') = Len(links)
        <3>1. CASE UNCHANGED links
            BY <1>0, <3>1 DEF TypeOK
        <3>2. CASE links' = [i \in DOMAIN links |-> Shortened(links[i], Bounds(reported))]
            <4>1. \A i \in DOMAIN links : Shortened(links[i], Bounds(reported)) \in Link
                BY <1>0, <2>1, ShortenedType DEF TypeOK
            <4>2. QED
                BY <1>0, <3>2, <4>1, MapLinks DEF TypeOK
        <3>3. QED
            BY <1>3, <3>1, <3>2 DEF SyncLinks
    <2>3. /\ mail' \in [MailKey -> MailState]
          /\ swallowed' \in BOOLEAN
          /\ \A m \in MailKey : mail'[m] = "sending" <=> task' = m
        BY <1>0, <1>3, EnqueueType DEF SyncLinks, TypeOK, workerVars
    <2>4. QED
        BY <1>3, <2>2, <2>3 DEF SyncLinks, Typing, TypeOK, workerVars
<1>4. CASE Close
    BY <1>4 DEF Close, Typing, TypeOK, Meets, workerVars
<1>5. CASE Rotate
    <2>1. links' \in Seq(Link) /\ Len(links') = Len(links)
        <3>1. \A i \in DOMAIN links : links[i] \in Link /\ Revoked(links[i]) \in Link
            BY <1>0, RevokedType DEF TypeOK
        <3>2. QED
            BY <1>0, <1>5, <3>1, MapLinks DEF TypeOK, Rotate
    <2>2. trouble' \in SUBSET Trouble
        BY <1>0, <1>5 DEF Rotate, Meets, TypeOK
    <2>3. QED
        BY <1>0, <1>5, <2>1, <2>2, EnqueueType DEF Rotate, Typing, TypeOK, purchaseVars, workerVars
<1>6. ASSUME NEW i \in 1 .. MaxLinks, Revoke(i) PROVE Typing'
    <2>1. i \in 1 .. Len(links) /\ Revoked(links[i]) \in Link
        BY <1>0, <1>6, RevokedType DEF Revoke, TypeOK
    <2>2. links' \in Seq(Link) /\ Len(links') = Len(links)
        BY <1>0, <1>6, <2>1, ExceptSeq DEF Revoke, TypeOK
    <2>3. trouble' \in SUBSET Trouble
        BY <1>0, <1>6 DEF Revoke, Meets, TypeOK
    <2>4. QED
        BY <1>6, <2>2, <2>3 DEF Revoke, Typing, TypeOK, purchaseVars, workerVars
<1>7. ASSUME NEW m \in OtherMail, EnqueueOtherMail(m) PROVE Typing'
    BY <1>7 DEF EnqueueOtherMail, Typing, TypeOK, purchaseVars, workerVars, MailState, MailKey
<1>8. ASSUME NEW m \in MailKey, ReadPurchase(m) PROVE Typing'
    <2>1. period' \in [start : Nat, end : Nat]
        BY <1>0, <1>8, BoundsType DEF ReadPurchase, TypeOK
    <2>2. QED
        BY <1>0, <1>8, <2>1 DEF ReadPurchase, Typing, TypeOK, purchaseVars, MailState
<1>9. CASE InsertLink
    <2>1. NewLink(period) \in Link
        BY <1>0 DEF NewLink, Link, TypeOK
    <2>2. links' \in Seq(Link) /\ Len(links') = Len(links) + 1
        BY <1>0, <1>9, <2>1 DEF InsertLink, TypeOK
    <2>3. inbox' \in Seq(1 .. Len(links'))
        BY <1>0, <1>9, <2>2, SeqMonotonic DEF InsertLink, TypeOK
    <2>4. QED
        BY <1>9, <2>2, <2>3 DEF InsertLink, Typing, TypeOK, purchaseVars
<1>10. CASE Deliver
    <2>1. inbox' \in Seq(1 .. Len(links))
        BY <1>0, <1>10 DEF Deliver, TypeOK
    <2>2. /\ mail' \in [MailKey -> MailState]
          /\ \A m \in MailKey : mail'[m] = "sending" <=> task' = m
          /\ task' = NoMail /\ period' \in [start : Nat, end : Nat]
          /\ link' = 0 /\ UNCHANGED links /\ link' \in 0 .. Len(links')
        BY <1>0, <1>10, EndAttemptType DEF Deliver
    <2>3. QED
        BY <1>10, <2>1, <2>2 DEF Deliver, EndAttempt, Typing, TypeOK, purchaseVars
<1>11. CASE DeliveryFails
    <2>1. /\ mail' \in [MailKey -> MailState]
          /\ \A m \in MailKey : mail'[m] = "sending" <=> task' = m
          /\ task' = NoMail /\ period' \in [start : Nat, end : Nat]
          /\ link' = 0 /\ UNCHANGED links /\ link' \in 0 .. Len(links')
        BY <1>0, <1>11, EndAttemptType DEF DeliveryFails
    <2>2. UNCHANGED <<now, cycle, purchaseVars, swallowed, inbox>>
        BY <1>11 DEF DeliveryFails, EndAttempt
    <2>3. trouble' \in SUBSET Trouble
        BY <1>0, <1>11 DEF DeliveryFails, Meets, TypeOK
    <2>4. QED
        BY <2>1, <2>2, <2>3 DEF Typing, TypeOK, purchaseVars
<1>12. CASE UNCHANGED vars
    BY <1>12 DEF vars, purchaseVars, workerVars, Typing, TypeOK
<1>13. QED
    BY <1>1, <1>2, <1>3, <1>4, <1>5, <1>6, <1>7, <1>8, <1>9, <1>10, <1>11, <1>12 DEF Next

(***************************************************************************)
(* The inductive invariant                                                 *)
(***************************************************************************)

\* The first days of Stripe's periods.
Starts == {a \in Nat : \E k \in Nat : a = k * Period}

\* The bounds of a period of Stripe or the thirty days that stand in for one.
IsPeriod(b) ==
    /\ b.start \in Starts
    /\ b.end = b.start + Period \/ (b.start = 0 /\ b.end = DefaultPeriod)

\* a is the period of b or one that Stripe reports later.
NotBefore(a, b) ==
    \/ a.start > b.start
    \/ a.start = b.start /\ (a.end = b.end \/ (a.end = Period /\ b.end = DefaultPeriod))

\* Periods are Stripe's.
CycleIsPeriod ==
    /\ cycle \in Starts
    /\ reported # NoPeriod =>
            /\ reported.start \in Starts /\ reported.start <= cycle
            /\ reported.end = reported.start + Period
    /\ task # NoMail => IsPeriod(period)
    /\ task = NoMail => link = 0

\* Only the stand-in period is ever cut short, and only when Stripe has
\* reported one.
LinksLast ==
    \A i \in DOMAIN links :
        /\ IsPeriod(links[i])
        /\ \/ links[i].revoked
           \/ links[i].expires = links[i].end + Overlap
           \/ links[i].end # links[i].start + Period /\ reported # NoPeriod

\* Without a late event the purchase row is never behind a link.
ReportedIsLatest ==
    "late" \notin trouble =>
        /\ \A i \in DOMAIN links : NotBefore(Bounds(reported), links[i])
        /\ task # NoMail => NotBefore(Bounds(reported), period)

\* The customer has received the link or is about to.
Placed(i) == (\E k \in DOMAIN inbox : inbox[k] = i) \/ (task # NoMail /\ link = i)

\* Another link takes its place.
Replaced(i) ==
    \/ task # NoMail /\ link = 0 /\ NotBefore(period, links[i])
    \/ \E j \in DOMAIN links :
            Placed(j) /\ ~links[j].revoked /\ NotBefore(links[j], links[i])

Queued == \E m \in MailKey : mail[m] = "queued"

\* A link is lost only in a failed delivery, and as long as that is the only
\* trouble of its kind the mail is sent again.
LinksArrive ==
    \A i \in DOMAIN links :
        \/ links[i].revoked
        \/ Placed(i)
        \/ /\ "failure" \in trouble
           /\ NothingLost => Queued \/ Replaced(i)

\* The link opens the service as long as the subscription is served.
Good(l) == ~l.revoked /\ l.expires >= Bounds(reported).end + Overlap

\* Such a link is on its way.
Coming ==
    \/ unsynced
    \/ Queued
    \/ task # NoMail /\ link = 0 /\ period.end >= Bounds(reported).end
    \/ task # NoMail /\ link # 0 /\ Good(links[link])

GoodLinkComes ==
    paid /\ open /\ NothingLost => Coming \/ \E k \in DOMAIN inbox : Good(links[inbox[k]])

IndInv ==
    Typing /\ CycleIsPeriod /\ LinksLast /\ ReportedIsLatest /\ LinksArrive /\ GoodLinkComes

(***************************************************************************)
(* Periods                                                                 *)
(***************************************************************************)

\* Between the starts of two periods there is a whole period.
LEMMA StartsAreApart ==
    ASSUME NEW a \in Starts, NEW b \in Starts, a < b
    PROVE  a + Period <= b
<1>1. PICK k \in Nat : a = k * Period
    BY DEF Starts
<1>2. PICK l \in Nat : b = l * Period
    BY DEF Starts
<1>3. Period \in Nat \ {0}
    BY ConstantsAssumption
<1>4. k < l
    <2>1. SUFFICES ASSUME l <= k PROVE FALSE
        OBVIOUS
    <2>2. l * Period <= k * Period
        BY <1>3, <2>1
    <2>3. QED
        BY <1>1, <1>2, <1>3, <2>2
<1>5. (k + 1) * Period <= l * Period
    BY <1>3, <1>4
<1>6. (k + 1) * Period = k * Period + Period
    BY <1>3
<1>7. QED
    BY <1>1, <1>2, <1>3, <1>5, <1>6

\* The first period starts on day zero,
LEMMA ZeroStarts == 0 \in Starts
<1>1. 0 = 0 * Period
    BY ConstantsAssumption
<1>2. QED
    BY <1>1 DEF Starts

\* the next one when it ends,
LEMMA NextStarts ==
    ASSUME NEW a \in Starts
    PROVE  a + Period \in Starts
<1>1. PICK k \in Nat : a = k * Period
    BY DEF Starts
<1>2. a + Period = (k + 1) * Period /\ k + 1 \in Nat /\ a + Period \in Nat
    BY <1>1, ConstantsAssumption DEF Starts
<1>3. QED
    BY <1>2 DEF Starts

\* and it follows the last one.
LEMMA LastStarts ==
    ASSUME NEW a \in Starts, a > 0
    PROVE  a - Period \in Starts
<1>1. PICK k \in Nat : a = k * Period
    BY DEF Starts
<1>2. k # 0
    BY <1>1, ConstantsAssumption
<1>3. a - Period = (k - 1) * Period /\ k - 1 \in Nat
    BY <1>1, <1>2, ConstantsAssumption
<1>4. 0 + Period <= a /\ a \in Nat
    BY ZeroStarts, StartsAreApart DEF Starts
<1>5. a - Period \in Nat
    BY <1>4, ConstantsAssumption
<1>6. QED
    BY <1>3, <1>5 DEF Starts

\* A period that Stripe reports is one, and needs no stand-in.
LEMMA StripePeriodIsPeriod ==
    ASSUME NEW a \in Starts
    PROVE  /\ IsPeriod(StripePeriod(a))
           /\ StripePeriod(a) # NoPeriod
           /\ Bounds(StripePeriod(a)) = StripePeriod(a)
BY ConstantsAssumption DEF IsPeriod, StripePeriod, NoPeriod, Bounds, Starts

\* The bounds of the row are a period or its stand-in.
LEMMA BoundsIsPeriod ==
    ASSUME Typing, CycleIsPeriod
    PROVE  /\ IsPeriod(Bounds(reported))
           /\ Bounds(reported) \in [start : Nat, end : Nat]
           /\ reported # NoPeriod => Bounds(reported).end = Bounds(reported).start + Period
<1>1. Bounds(reported) \in [start : Nat, end : Nat]
    BY BoundsType DEF Typing, TypeOK
<1>2. CASE reported = NoPeriod
    BY <1>1, <1>2, ZeroStarts DEF Bounds, IsPeriod
<1>3. CASE reported # NoPeriod
    BY <1>1, <1>3 DEF Bounds, IsPeriod, CycleIsPeriod
<1>4. QED
    BY <1>2, <1>3

\* No period of Stripe is reported before its time, and an older one only late.
LEMMA SaveReports ==
    ASSUME Typing, CycleIsPeriod, SaveSubscription, reported' # reported
    PROVE  \E a \in Starts : /\ a <= cycle /\ reported' = StripePeriod(a)
                             /\ a = cycle \/ "late" \in trouble'
<1>1. CASE reported' = StripePeriod(cycle)
    BY <1>1 DEF CycleIsPeriod, Typing, TypeOK, Day
<1>2. CASE cycle > 0 /\ reported' = StripePeriod(cycle - Period) /\ Meets("late")
    <2>1. cycle - Period \in Starts
        BY <1>2, LastStarts DEF CycleIsPeriod
    <2>2. cycle - Period <= cycle
        BY ConstantsAssumption DEF Typing, TypeOK, Day
    <2>3. QED
        BY <1>2, <2>1, <2>2 DEF Meets
<1>3. QED
    BY <1>1, <1>2 DEF SaveSubscription

(***************************************************************************)
(* The parts of the invariant                                              *)
(***************************************************************************)

\* Every step keeps CycleIsPeriod.
LEMMA CycleStep == IndInv /\ [Next]_vars => CycleIsPeriod'
<1> SUFFICES ASSUME IndInv, [Next]_vars PROVE CycleIsPeriod'
    OBVIOUS
<1> USE ConstantsAssumption
<1>0. Typing /\ TypeOK /\ CycleIsPeriod /\ now \in Nat /\ cycle \in Nat
    BY DEF IndInv, Typing, TypeOK, Day
<1>1. CASE NextDay
    <2>1. now + 1 = cycle + Period => now + 1 \in Starts
        BY <1>0, NextStarts DEF CycleIsPeriod
    <2>2. cycle' \in Starts /\ cycle <= cycle'
        BY <1>0, <1>1, <2>1 DEF NextDay, CycleIsPeriod, TypeOK
    <2>3. reported # NoPeriod => reported.start \in Nat
        BY <1>0 DEF CycleIsPeriod, Starts
    <2>4. UNCHANGED <<reported, task, period, link>>
        BY <1>1 DEF NextDay, purchaseVars, workerVars
    <2>5. QED
        BY <1>0, <2>2, <2>3, <2>4 DEF CycleIsPeriod
<1>2. CASE SaveSubscription
    <2>1. UNCHANGED <<cycle, task, period, link>>
        BY <1>2 DEF SaveSubscription, workerVars
    <2>2. CASE reported' = reported
        BY <1>0, <2>1, <2>2 DEF CycleIsPeriod
    <2>3. CASE reported' # reported
        <3>1. PICK a \in Starts : a <= cycle /\ reported' = StripePeriod(a)
            BY <1>0, <1>2, <2>3, SaveReports
        <3>2. QED
            BY <1>0, <2>1, <3>1 DEF CycleIsPeriod, StripePeriod
    <2>4. QED
        BY <2>2, <2>3
<1>3. CASE SyncLinks
    BY <1>0, <1>3 DEF SyncLinks, CycleIsPeriod, workerVars
<1>4. CASE Close
    BY <1>0, <1>4 DEF Close, CycleIsPeriod, workerVars
<1>5. CASE Rotate
    BY <1>0, <1>5 DEF Rotate, CycleIsPeriod, workerVars, purchaseVars
<1>6. ASSUME NEW i \in 1 .. MaxLinks, Revoke(i) PROVE CycleIsPeriod'
    BY <1>0, <1>6 DEF Revoke, CycleIsPeriod, workerVars, purchaseVars
<1>7. ASSUME NEW m \in OtherMail, EnqueueOtherMail(m) PROVE CycleIsPeriod'
    BY <1>0, <1>7 DEF EnqueueOtherMail, CycleIsPeriod, workerVars, purchaseVars
<1>8. ASSUME NEW m \in MailKey, ReadPurchase(m) PROVE CycleIsPeriod'
    <2>1. IsPeriod(period') /\ task' = m /\ m # NoMail
        BY <1>0, <1>8, BoundsIsPeriod DEF ReadPurchase, MailKey, Day
    <2>2. QED
        BY <1>0, <1>8, <2>1 DEF ReadPurchase, CycleIsPeriod, purchaseVars
<1>9. CASE InsertLink
    BY <1>0, <1>9 DEF InsertLink, CycleIsPeriod, purchaseVars
<1>10. CASE Deliver \/ DeliveryFails
    BY <1>0, <1>10 DEF Deliver, DeliveryFails, EndAttempt, CycleIsPeriod, purchaseVars
<1>11. CASE UNCHANGED vars
    BY <1>0, <1>11 DEF vars, CycleIsPeriod, purchaseVars, workerVars
<1>12. QED
    BY <1>1, <1>2, <1>3, <1>4, <1>5, <1>6, <1>7, <1>8, <1>9, <1>10, <1>11 DEF Next

\* A link that is cut short is one of the stand-in period.
LEMMA ShortenedForm ==
    ASSUME Typing, CycleIsPeriod, NEW l \in Link, IsPeriod(l),
           l.revoked \/ l.expires = l.end + Overlap
                     \/ (l.end # l.start + Period /\ reported # NoPeriod)
    PROVE  LET new == Shortened(l, Bounds(reported))
           IN  /\ new.start = l.start /\ new.end = l.end /\ new.revoked = l.revoked
               /\ \/ new.revoked
                  \/ new.expires = new.end + Overlap
                  \/ new.end # new.start + Period /\ reported # NoPeriod
<1> DEFINE new == Shortened(l, Bounds(reported))
<1>1. new.start = l.start /\ new.end = l.end /\ new.revoked = l.revoked
    BY DEF Shortened, Link
<1>2. CASE new = l
    BY <1>1, <1>2
<1>3. CASE new # l
    <2> DEFINE b == Bounds(reported)
    <2>1. l.start < b.start /\ l.expires > b.start + Overlap /\ ~l.revoked
        BY <1>3 DEF Shortened
    <2>2. b.start \in Starts /\ l.start \in Starts
        BY BoundsIsPeriod DEF IsPeriod
    <2>3. l.start + Period <= b.start
        BY <2>1, <2>2, StartsAreApart
    <2>4. l.start \in Nat /\ l.end \in Nat /\ l.expires \in Nat /\ b.start \in Nat
        BY BoundsIsPeriod DEF Link
    <2>5. reported # NoPeriod
        BY <2>1, <2>4 DEF Bounds
    <2>6. l.end # l.start + Period
        BY <2>1, <2>3, <2>4, ConstantsAssumption
    <2>7. QED
        BY <1>1, <2>5, <2>6
<1>4. QED
    BY <1>1, <1>2, <1>3

\* Every step keeps LinksLast: only a rotation or a later period shortens a link.
LEMMA LinksStep == IndInv /\ [Next]_vars => LinksLast'
<1> SUFFICES ASSUME IndInv, [Next]_vars PROVE LinksLast'
    OBVIOUS
<1> USE ConstantsAssumption
<1>0. Typing /\ TypeOK /\ CycleIsPeriod /\ LinksLast /\ now \in Nat /\ cycle \in Nat
    BY DEF IndInv, Typing, TypeOK, Day
<1>01. \A i \in DOMAIN links : links[i] \in Link
    BY <1>0 DEF TypeOK
<1>1. CASE UNCHANGED <<links, reported>>
    BY <1>0, <1>1 DEF LinksLast
<1>2. CASE SaveSubscription
    <2>1. UNCHANGED links
        BY <1>2 DEF SaveSubscription
    <2>2. reported # NoPeriod => reported' # NoPeriod
        BY <1>0, <1>2, SaveReports, StripePeriodIsPeriod
    <2>3. QED
        BY <1>0, <2>1, <2>2 DEF LinksLast
<1>3. CASE SyncLinks
    <2>1. CASE UNCHANGED links
        BY <1>1, <1>3, <2>1 DEF SyncLinks
    <2>2. CASE links' = [i \in DOMAIN links |-> Shortened(links[i], Bounds(reported))]
        <3>1. SUFFICES ASSUME NEW i \in DOMAIN links
                       PROVE  LinksLast!(i)'
            BY <2>2 DEF LinksLast
        <3>2. QED
            BY <1>0, <1>01, <1>3, <2>2, ShortenedForm DEF LinksLast, IsPeriod, SyncLinks
    <2>3. QED
        BY <1>3, <2>1, <2>2 DEF SyncLinks
<1>4. CASE Rotate
    <2>1. \A i \in DOMAIN links : links'[i].revoked /\ links'[i].start = links[i].start
                                                 /\ links'[i].end = links[i].end
        BY <1>01, <1>4 DEF Rotate, Revoked, Link
    <2>2. DOMAIN links' = DOMAIN links
        BY <1>4 DEF Rotate
    <2>3. QED
        BY <1>0, <2>1, <2>2 DEF LinksLast, IsPeriod
<1>5. ASSUME NEW i \in 1 .. MaxLinks, Revoke(i) PROVE LinksLast'
    <2>1. links' = [links EXCEPT ![i] = Revoked(links[i])] /\ i \in DOMAIN links
        BY <1>5 DEF Revoke
    <2>2. Revoked(links[i]).revoked /\ Revoked(links[i]).start = links[i].start
                                    /\ Revoked(links[i]).end = links[i].end
        BY <1>01, <2>1 DEF Revoked, Link
    <2>3. UNCHANGED reported
        BY <1>5 DEF Revoke, purchaseVars
    <2>4. QED
        BY <1>0, <2>1, <2>2, <2>3 DEF LinksLast, IsPeriod
<1>6. CASE InsertLink
    <2>1. links' = Append(links, NewLink(period)) /\ UNCHANGED reported /\ task # NoMail
        BY <1>6 DEF InsertLink, purchaseVars
    <2>2. IsPeriod(NewLink(period)) /\ NewLink(period).expires = NewLink(period).end + Overlap
        BY <1>0, <2>1 DEF CycleIsPeriod, IsPeriod, NewLink
    <2>3. DOMAIN links' = 1 .. Len(links) + 1 /\ DOMAIN links = 1 .. Len(links)
        BY <1>0, <2>1 DEF TypeOK
    <2>4. \A i \in 1 .. Len(links) + 1 :
                links'[i] = IF i = Len(links) + 1 THEN NewLink(period) ELSE links[i]
        BY <1>0, <2>1 DEF TypeOK
    <2>5. QED
        BY <1>0, <2>1, <2>2, <2>3, <2>4 DEF LinksLast
<1>7. QED
    BY <1>1, <1>2, <1>3, <1>4, <1>5, <1>6 DEF Next, NextDay, Close, EnqueueOtherMail,
        ReadPurchase, Deliver, DeliveryFails, EndAttempt, purchaseVars, vars

\* NotBefore is reflexive.
LEMMA NotBeforeItself == \A b : NotBefore(b, b)
BY DEF NotBefore

\* Whatever the row holds, the period the subscription is in comes after it.
LEMMA CycleIsLatest ==
    ASSUME cycle \in Nat, NEW b, IsPeriod(b), b.start <= cycle
    PROVE  NotBefore(StripePeriod(cycle), b)
BY ConstantsAssumption DEF IsPeriod, NotBefore, StripePeriod, Starts

\* The row knows no period that has not begun.
LEMMA BoundsStart ==
    ASSUME Typing, CycleIsPeriod
    PROVE  Bounds(reported).start <= cycle
BY DEF Bounds, CycleIsPeriod, Typing, TypeOK, Day

\* Every step keeps ReportedIsLatest: without a late event the row has the last
\* period.
LEMMA ReportedStep == IndInv /\ [Next]_vars => ReportedIsLatest'
<1> SUFFICES ASSUME IndInv, [Next]_vars, "late" \notin trouble'
             PROVE  /\ \A i \in DOMAIN links' : NotBefore(Bounds(reported'), links'[i])
                    /\ task' # NoMail => NotBefore(Bounds(reported'), period')
    BY DEF ReportedIsLatest
<1> USE ConstantsAssumption
<1>0. /\ Typing /\ TypeOK /\ CycleIsPeriod /\ LinksLast
      /\ now \in Nat /\ cycle \in Nat /\ NoMail \notin MailKey
      /\ \A i \in DOMAIN links : links[i] \in Link
    BY DEF IndInv, Typing, TypeOK, Day, MailKey
<1>00. "late" \notin trouble
    BY DEF Next, NextDay, SaveSubscription, SyncLinks, Close, Rotate, Revoke, EnqueueOtherMail,
        ReadPurchase, InsertLink, Deliver, DeliveryFails, Meets, vars
<1>01. /\ \A i \in DOMAIN links : NotBefore(Bounds(reported), links[i])
       /\ task # NoMail => NotBefore(Bounds(reported), period)
    BY <1>00 DEF IndInv, ReportedIsLatest
<1>1. CASE UNCHANGED <<links, reported>> /\ (task' # NoMail => task # NoMail /\ period' = period)
    BY <1>01, <1>1
<1>2. CASE SaveSubscription
    <2>1. UNCHANGED <<links, task, period>>
        BY <1>2 DEF SaveSubscription, workerVars
    <2>2. CASE reported' = reported
        BY <1>1, <2>1, <2>2
    <2>3. CASE reported' # reported
        <3>1. reported' = StripePeriod(cycle)
            BY <1>0, <1>2, <2>3, SaveReports
        <3>2. Bounds(reported') = StripePeriod(cycle)
            BY <1>0, <3>1, StripePeriodIsPeriod DEF CycleIsPeriod
        <3>3. Bounds(reported).start \in Nat /\ Bounds(reported).start <= cycle
            BY <1>0, BoundsStart, BoundsIsPeriod
        <3>4. ASSUME NEW i \in DOMAIN links PROVE NotBefore(StripePeriod(cycle), links[i])
            <4>1. IsPeriod(links[i]) /\ links[i].start \in Nat
                BY <1>0 DEF LinksLast, Link
            <4>2. links[i].start <= cycle
                BY <1>0, <1>01, <3>3, <4>1 DEF NotBefore
            <4>3. QED
                BY <1>0, <4>1, <4>2, CycleIsLatest
        <3>5. ASSUME task # NoMail PROVE NotBefore(StripePeriod(cycle), period)
            <4>1. IsPeriod(period) /\ period.start \in Nat
                BY <1>0, <3>5 DEF CycleIsPeriod, TypeOK
            <4>2. period.start <= cycle
                BY <1>0, <1>01, <3>3, <3>5, <4>1 DEF NotBefore
            <4>3. QED
                BY <1>0, <4>1, <4>2, CycleIsLatest
        <3>6. QED
            BY <2>1, <3>2, <3>4, <3>5
    <2>4. QED
        BY <2>2, <2>3
<1>3. CASE SyncLinks
    <2>1. UNCHANGED <<reported, task, period>>
        BY <1>3 DEF SyncLinks, workerVars
    <2>2. DOMAIN links' = DOMAIN links /\ \A i \in DOMAIN links :
            links'[i].start = links[i].start /\ links'[i].end = links[i].end
        BY <1>0, <1>3 DEF SyncLinks, Shortened, Link
    <2>3. QED
        BY <1>01, <2>1, <2>2 DEF NotBefore
<1>4. CASE Rotate
    <2>1. UNCHANGED <<reported, task, period>>
        BY <1>4 DEF Rotate, workerVars, purchaseVars
    <2>2. DOMAIN links' = DOMAIN links /\ \A i \in DOMAIN links :
            links'[i].start = links[i].start /\ links'[i].end = links[i].end
        BY <1>0, <1>4 DEF Rotate, Revoked, Link
    <2>3. QED
        BY <1>01, <2>1, <2>2 DEF NotBefore
<1>5. ASSUME NEW j \in 1 .. MaxLinks, Revoke(j)
      PROVE  /\ \A i \in DOMAIN links' : NotBefore(Bounds(reported'), links'[i])
             /\ task' # NoMail => NotBefore(Bounds(reported'), period')
    <2>1. UNCHANGED <<reported, task, period>>
        BY <1>5 DEF Revoke, workerVars, purchaseVars
    <2>2. DOMAIN links' = DOMAIN links /\ \A i \in DOMAIN links :
            links'[i].start = links[i].start /\ links'[i].end = links[i].end
        BY <1>0, <1>5 DEF Revoke, Revoked, Link
    <2>3. QED
        BY <1>01, <2>1, <2>2 DEF NotBefore
<1>6. ASSUME NEW m \in MailKey, ReadPurchase(m)
      PROVE  /\ \A i \in DOMAIN links' : NotBefore(Bounds(reported'), links'[i])
             /\ task' # NoMail => NotBefore(Bounds(reported'), period')
    BY <1>01, <1>6, NotBeforeItself DEF ReadPurchase, purchaseVars
<1>7. CASE InsertLink
    <2>1. /\ links' = Append(links, NewLink(period)) /\ task # NoMail
          /\ UNCHANGED <<reported, task, period>>
        BY <1>7 DEF InsertLink, purchaseVars
    <2>2. NotBefore(Bounds(reported), NewLink(period))
        BY <1>01, <2>1 DEF NotBefore, NewLink
    <2>3. \A i \in DOMAIN links' :
                \/ links'[i] = NewLink(period)
                \/ i \in DOMAIN links /\ links'[i] = links[i]
        BY <1>0, <2>1 DEF TypeOK
    <2>4. QED
        BY <1>01, <2>1, <2>2, <2>3
<1>8. QED
    BY <1>1, <1>2, <1>3, <1>4, <1>5, <1>6, <1>7 DEF Next, NextDay, Close, EnqueueOtherMail,
        Deliver, DeliveryFails, EndAttempt, purchaseVars, workerVars, vars

\* What was lost stays lost.
LEMMA LostStaysLost ==
    ASSUME TypeOK, [Next]_vars, NothingLost'
    PROVE  NothingLost
<1> USE ConstantsAssumption
<1>1. trouble \subseteq trouble'
    BY DEF Next, NextDay, SaveSubscription, SyncLinks, Close, Rotate, Revoke, EnqueueOtherMail,
        ReadPurchase, InsertLink, Deliver, DeliveryFails, Meets, vars
<1>2. swallowed => swallowed'
    <2>1. UNCHANGED swallowed \/ EnqueueLinkMail(now)
        BY DEF Next, NextDay, SaveSubscription, SyncLinks, Close, Rotate, Revoke,
            EnqueueOtherMail, ReadPurchase, InsertLink, Deliver, DeliveryFails, EndAttempt, vars
    <2>2. EnqueueLinkMail(now) => (swallowed => swallowed')
        BY Zenon DEF EnqueueLinkMail
    <2>3. QED
        BY <2>1, <2>2
<1>3. \A m \in MailKey : mail[m] = "failed" => mail'[m] = "failed"
    <2>1. \A m \in MailKey : mail[m] = "failed" => task # m
        BY DEF TypeOK
    <2>2. QED
        BY <2>1 DEF TypeOK, Next, NextDay, SaveSubscription, SyncLinks, Close, Rotate, Revoke,
            EnqueueOtherMail, ReadPurchase, InsertLink, Deliver, DeliveryFails, EnqueueLinkMail,
            EndAttempt, vars
<1>4. QED
    BY <1>1, <1>2, <1>3 DEF NothingLost

(***************************************************************************)
(* The current link                                                        *)
(***************************************************************************)

\* The ORDER BY of getCurrentServiceAccessLink has a first row: of the links
\* with the greatest start the last one.
LEMMA LatestExists ==
    ASSUME links \in Seq(Link), NEW live \in SUBSET DOMAIN links, live # {}
    PROVE  \E i \in live : \A j \in live :
                \/ links[j].start < links[i].start
                \/ links[j].start = links[i].start /\ j <= i
<1>0. /\ DOMAIN links = 1 .. Len(links) /\ Len(links) \in Nat
      /\ \A i \in DOMAIN links : links[i].start \in Nat
    <2>1. \A i \in DOMAIN links : links[i] \in Link
        OBVIOUS
    <2>2. QED
        BY <2>1 DEF Link
<1>1. IsFiniteSet(live) /\ live \subseteq Nat
    <2>1. IsFiniteSet(1 .. Len(links))
        BY <1>0, FS_Interval
    <2>2. QED
        BY <1>0, <2>1, FS_Subset
<1> DEFINE starts == {links[i].start : i \in live}
<1>2. IsFiniteSet(starts)
    <2> DEFINE f == [i \in live |-> links[i].start]
    <2>1. f \in Surjection(live, starts)
        BY DEF Surjection
    <2>2. QED
        BY <1>1, <2>1, FS_Surjection
<1>3. PICK a \in starts : \A b \in starts : b <= a
    <2>1. starts \in SUBSET Nat /\ starts # {}
        BY <1>0
    <2>2. QED
        BY <1>2, <2>1, GreatestExists
<1> DEFINE latest == {i \in live : links[i].start = a}
<1>4. PICK i \in latest : \A j \in latest : j <= i
    <2>1. latest \in SUBSET Nat /\ latest # {} /\ latest \in SUBSET live
        BY <1>1, <1>3
    <2>2. IsFiniteSet(latest)
        BY <1>1, <2>1, FS_Subset
    <2>3. QED
        BY <2>1, <2>2, GreatestExists
<1>5. ASSUME NEW j \in live
      PROVE  \/ links[j].start < links[i].start
             \/ links[j].start = links[i].start /\ j <= i
    <2>1. links[j].start <= a /\ links[i].start = a /\ links[j].start \in Nat /\ a \in Nat
        BY <1>0, <1>3, <1>4, <1>5
    <2>2. links[j].start = a => j <= i
        BY <1>4, <1>5
    <2>3. QED
        BY <2>1, <2>2
<1>6. QED
    BY <1>4, <1>5

\* The current link is a link of the table, and it is live.
LEMMA CurrentIsLive ==
    ASSUME links \in Seq(Link), Current # 0
    PROVE  Current \in DOMAIN links /\ Live(links[Current])
<1> DEFINE live == {i \in DOMAIN links : Live(links[i])}
           latest(i) == \A j \in live :
                \/ links[j].start < links[i].start
                \/ links[j].start = links[i].start /\ j <= i
<1>1. live # {}
    BY DEF Current
<1>2. live \in SUBSET DOMAIN links
    OBVIOUS
<1>3. \E i \in live : latest(i)
    <2> HIDE DEF live
    <2>1. QED
        BY <1>1, <1>2, LatestExists
<1>4. Current = CHOOSE i \in live : latest(i)
    BY <1>1 DEF Current
<1>5. Current \in live
    <2> HIDE DEF live, latest
    <2>1. QED
        BY <1>3, <1>4
<1>6. QED
    BY <1>5

(***************************************************************************)
(* Links and where they are                                                *)
(***************************************************************************)

\* A step that leaves the worker and the inbox alone and only revokes links or
\* cuts them short.
LEMMA ArriveUnlessWorker ==
    ASSUME IndInv, [Next]_vars, UNCHANGED <<task, link, period, inbox>>,
           DOMAIN links' = DOMAIN links,
           \A i \in DOMAIN links :
                /\ links'[i].start = links[i].start /\ links'[i].end = links[i].end
                /\ links[i].revoked => links'[i].revoked,
           (\E i \in DOMAIN links : ~links[i].revoked /\ links'[i].revoked) =>
                ~NothingLost' \/ \A i \in DOMAIN links : links'[i].revoked,
           Queued => Queued'
    PROVE  LinksArrive'
<1> SUFFICES ASSUME NEW i \in DOMAIN links, ~links'[i].revoked
             PROVE  \/ Placed(i)'
                    \/ /\ "failure" \in trouble'
                       /\ NothingLost' => Queued' \/ Replaced(i)'
    BY DEF LinksArrive
<1>1. trouble \subseteq trouble'
    BY DEF Next, NextDay, SaveSubscription, SyncLinks, Close, Rotate, Revoke, EnqueueOtherMail,
        ReadPurchase, InsertLink, Deliver, DeliveryFails, Meets, vars
<1>2. ~links[i].revoked
    OBVIOUS
<1>3. CASE Placed(i)
    BY <1>3 DEF Placed
<1>4. CASE ~Placed(i)
    <2>1. "failure" \in trouble /\ (NothingLost => Queued \/ Replaced(i))
        BY <1>2, <1>4 DEF IndInv, LinksArrive
    <2>2. SUFFICES ASSUME NothingLost' PROVE Queued' \/ Replaced(i)'
        BY <1>1, <2>1
    <2>3. Queued \/ Replaced(i)
        BY <2>1, <2>2, LostStaysLost DEF IndInv, Typing
    <2>4. \A j \in DOMAIN links : ~links[j].revoked => ~links'[j].revoked
        BY <2>2
    <2>5. Replaced(i) => Replaced(i)'
        BY <2>4 DEF Replaced, Placed, NotBefore
    <2>6. QED
        BY <2>3, <2>5
<1>5. QED
    BY <1>3, <1>4

\* Every step keeps LinksArrive: a link is mailed, or its mail is sent again, or
\* another takes its place.
LEMMA ArriveStep == IndInv /\ [Next]_vars => LinksArrive'
<1> SUFFICES ASSUME IndInv, [Next]_vars PROVE LinksArrive'
    OBVIOUS
<1> USE ConstantsAssumption
<1>0. /\ Typing /\ TypeOK /\ CycleIsPeriod /\ LinksLast /\ LinksArrive
      /\ NoMail \notin MailKey /\ now \in MailKey
      /\ \A i \in DOMAIN links : links[i] \in Link
    BY DEF IndInv, Typing, TypeOK, Day, MailKey
<1>1. CASE NextDay \/ SaveSubscription \/ Close \/ UNCHANGED vars
           \/ \E m \in OtherMail : EnqueueOtherMail(m)
    <2>1. UNCHANGED <<task, link, period, inbox, links>>
        BY <1>1 DEF NextDay, SaveSubscription, Close, EnqueueOtherMail, workerVars, vars
    <2>2. Queued => Queued'
        BY <1>0, <1>1 DEF NextDay, SaveSubscription, Close, EnqueueOtherMail, vars, Queued, TypeOK
    <2>3. QED
        BY <2>1, <2>2, ArriveUnlessWorker
<1>2. CASE SyncLinks
    <2>1. UNCHANGED <<task, link, period, inbox>>
        BY <1>2 DEF SyncLinks, workerVars
    <2>2. Queued => Queued'
        BY <1>0, <1>2 DEF SyncLinks, EnqueueLinkMail, Queued, TypeOK
    <2>3. DOMAIN links' = DOMAIN links /\ \A i \in DOMAIN links :
            /\ links'[i].start = links[i].start /\ links'[i].end = links[i].end
            /\ links'[i].revoked = links[i].revoked
        BY <1>0, <1>2 DEF SyncLinks, Shortened, Link
    <2>4. QED
        BY <2>1, <2>2, <2>3, ArriveUnlessWorker
<1>3. CASE Rotate
    <2>1. UNCHANGED <<task, link, period, inbox>>
        BY <1>3 DEF Rotate, workerVars
    <2>2. Queued => Queued'
        BY <1>0, <1>3 DEF Rotate, EnqueueLinkMail, Queued, TypeOK
    <2>3. DOMAIN links' = DOMAIN links /\ \A i \in DOMAIN links :
            /\ links'[i].start = links[i].start /\ links'[i].end = links[i].end
            /\ links'[i].revoked
        BY <1>0, <1>3 DEF Rotate, Revoked, Link
    <2>4. QED
        BY <2>1, <2>2, <2>3, ArriveUnlessWorker
<1>4. ASSUME NEW l \in 1 .. MaxLinks, Revoke(l) PROVE LinksArrive'
    <2>1. UNCHANGED <<task, link, period, inbox, mail>>
        BY <1>4 DEF Revoke, workerVars
    <2>2. ~NothingLost'
        BY <1>4 DEF Revoke, Meets, NothingLost
    <2>3. DOMAIN links' = DOMAIN links /\ \A i \in DOMAIN links :
            /\ links'[i].start = links[i].start /\ links'[i].end = links[i].end
            /\ links[i].revoked => links'[i].revoked
        BY <1>0, <1>4 DEF Revoke, Revoked, Link
    <2>4. QED
        BY <2>1, <2>2, <2>3, ArriveUnlessWorker DEF Queued
<1>5. ASSUME NEW m \in MailKey, ReadPurchase(m) PROVE LinksArrive'
    <2>1. /\ UNCHANGED <<links, inbox, trouble>> /\ task' = m /\ link' = 0
          /\ task = NoMail /\ period' = Bounds(reported)
        BY <1>5 DEF ReadPurchase
    <2>2. SUFFICES ASSUME NEW i \in DOMAIN links, ~links[i].revoked
                   PROVE  \/ Placed(i)'
                          \/ /\ "failure" \in trouble
                             /\ NothingLost' => Replaced(i)'
        BY <2>1 DEF LinksArrive
    <2>3. CASE Placed(i)
        BY <2>1, <2>3 DEF Placed
    <2>4. CASE ~Placed(i)
        <3>1. "failure" \in trouble
            BY <1>0, <2>2, <2>4 DEF LinksArrive
        <3>2. ASSUME NothingLost' PROVE Replaced(i)'
            <4>1. "late" \notin trouble
                BY <2>1, <3>1, <3>2 DEF NothingLost
            <4>2. NotBefore(Bounds(reported), links[i])
                BY <4>1 DEF IndInv, ReportedIsLatest
            <4>3. QED
                BY <1>0, <2>1, <4>2 DEF Replaced
        <3>3. QED
            BY <3>1, <3>2
    <2>5. QED
        BY <2>3, <2>4
<1>6. CASE InsertLink
    <2>0. PICK new \in Nat : new = Len(links) + 1
        BY <1>0 DEF TypeOK
    <2>1. /\ UNCHANGED <<inbox, trouble, task, period, mail>> /\ task # NoMail /\ link = 0
          /\ link' = new /\ links' = Append(links, NewLink(period))
        BY <1>6, <2>0 DEF InsertLink
    <2>2. /\ DOMAIN links = 1 .. Len(links) /\ DOMAIN links' = 1 .. new
          /\ new \in DOMAIN links' /\ Len(links) \in Nat
          /\ links'[new] = NewLink(period)
          /\ \A i \in DOMAIN links : i \in DOMAIN links' /\ links'[i] = links[i]
        BY <1>0, <2>0, <2>1 DEF TypeOK
    <2>3. Placed(new)' /\ ~links'[new].revoked
        <3>1. ~links'[new].revoked
            BY <2>2 DEF NewLink
        <3>2. task' # NoMail /\ link' = new
            BY <2>1
        <3>3. QED
            BY <3>1, <3>2 DEF Placed
    <2>4. ASSUME NEW i \in DOMAIN links, ~links[i].revoked
          PROVE  \/ Placed(i)'
                 \/ /\ "failure" \in trouble'
                    /\ NothingLost' => Queued' \/ Replaced(i)'
        <3>1. i # 0
            BY <2>2
        <3>2. CASE Placed(i)
            BY <2>1, <3>1, <3>2 DEF Placed
        <3>3. CASE ~Placed(i)
            <4>1. "failure" \in trouble /\ (NothingLost => Queued \/ Replaced(i))
                BY <1>0, <2>4, <3>3 DEF LinksArrive
            <4>2. SUFFICES ASSUME NothingLost' PROVE Queued' \/ Replaced(i)'
                BY <2>1, <4>1
            <4>3. Queued \/ Replaced(i)
                BY <1>0, <4>1, <4>2, LostStaysLost
            <4>4. CASE Queued
                BY <2>1, <4>4 DEF Queued
            <4>5. CASE NotBefore(period, links[i])
                <5>1. NotBefore(links'[new], links'[i])
                    BY <2>2, <4>5 DEF NotBefore, NewLink
                <5>2. QED
                    BY <2>2, <2>3, <5>1 DEF Replaced
            <4>6. ASSUME NEW j \in DOMAIN links,
                         Placed(j), ~links[j].revoked, NotBefore(links[j], links[i])
                  PROVE  Replaced(i)'
                <5>1. Placed(j)'
                    <6>1. j # 0
                        BY <2>2
                    <6>2. QED
                        BY <2>1, <4>6, <6>1 DEF Placed
                <5>2. QED
                    BY <2>2, <4>6, <5>1 DEF Replaced
            <4>7. QED
                BY <4>3, <4>4, <4>5, <4>6 DEF Replaced
        <3>4. QED
            BY <3>2, <3>3
    <2>5. \A i \in DOMAIN links' : i = new \/ i \in DOMAIN links
        BY <2>0, <2>2
    <2>6. QED
        BY <2>2, <2>3, <2>4, <2>5 DEF LinksArrive
<1>7. CASE Deliver
    <2>1. /\ UNCHANGED <<links, trouble>> /\ inbox' = Append(inbox, link) /\ link # 0
          /\ task # NoMail /\ mail' = [mail EXCEPT ![task] = "sent"]
        BY <1>0, <1>7 DEF Deliver, EndAttempt, CycleIsPeriod
    <2>2. \A i \in DOMAIN links : Placed(i) => Placed(i)'
        <3>1. /\ \A k \in DOMAIN inbox : k \in DOMAIN inbox' /\ inbox'[k] = inbox[k]
              /\ Len(inbox) + 1 \in DOMAIN inbox' /\ inbox'[Len(inbox) + 1] = link
            BY <1>0, <2>1 DEF TypeOK
        <3>2. QED
            BY <3>1 DEF Placed
    <2>3. Queued => Queued'
        <3>1. mail[task] = "sending" /\ task \in MailKey
            BY <1>0, <2>1 DEF TypeOK
        <3>2. QED
            BY <1>0, <2>1, <3>1 DEF Queued, TypeOK
    <2>4. \A i \in DOMAIN links : Replaced(i) => Replaced(i)'
        BY <2>1, <2>2 DEF Replaced
    <2>5. NothingLost' => NothingLost
        BY <1>0, LostStaysLost
    <2>6. SUFFICES ASSUME NEW i \in DOMAIN links, ~links[i].revoked
                   PROVE  \/ Placed(i)'
                          \/ /\ "failure" \in trouble
                             /\ NothingLost' => Queued' \/ Replaced(i)'
        BY <2>1 DEF LinksArrive
    <2>7. \/ Placed(i)
          \/ "failure" \in trouble /\ (NothingLost => Queued \/ Replaced(i))
        BY <1>0, <2>6 DEF LinksArrive
    <2>8. QED
        BY <2>2, <2>3, <2>4, <2>5, <2>6, <2>7
<1>8. CASE DeliveryFails
    <2>1. UNCHANGED links /\ "failure" \in trouble' /\ task \in MailKey
        BY <1>0, <1>8 DEF DeliveryFails, EndAttempt, Meets, CycleIsPeriod, TypeOK
    <2>2. mail'[task] \in {"queued", "failed"}
        BY <1>0, <1>8, <2>1 DEF DeliveryFails, EndAttempt, TypeOK
    <2>3. NothingLost' => Queued'
        BY <2>1, <2>2 DEF NothingLost, Queued
    <2>4. QED
        BY <2>1, <2>3 DEF LinksArrive
<1>9. QED
    BY <1>1, <1>2, <1>3, <1>4, <1>5, <1>6, <1>7, <1>8 DEF Next

(***************************************************************************)
(* A link that opens the service is on its way                             *)
(***************************************************************************)

\* A request for a mail leaves the mail queued, or it is lost.
LEMMA RequestQueues ==
    ASSUME TypeOK, NEW key \in MailKey, EnqueueLinkMail(key), NothingLost'
    PROVE  Queued'
<1>1. ~swallowed'
    BY DEF NothingLost
<1>2. mail[key] \in {"none", "queued"}
    BY <1>1, Zenon DEF EnqueueLinkMail
<1>3. mail'[key] = "queued"
    BY <1>2 DEF EnqueueLinkMail, TypeOK
<1>4. QED
    BY <1>3 DEF Queued

\* A link of the row's period is good: its expiry was never brought forward.
LEMMA SamePeriodIsGood ==
    ASSUME IndInv, NEW i \in DOMAIN links, ~links[i].revoked,
           links[i].start = Bounds(reported).start, links[i].end = Bounds(reported).end
    PROVE  Good(links[i])
<1>1. links[i].expires = Bounds(reported).end + Overlap
    BY BoundsIsPeriod DEF IndInv, LinksLast
<1>2. Bounds(reported).end + Overlap \in Nat
    BY BoundsIsPeriod, ConstantsAssumption DEF IndInv
<1>3. QED
    BY <1>1, <1>2 DEF Good

\* Two periods neither of which is before the other are the same.
LEMMA NotBeforeBothWays ==
    ASSUME NEW a, NEW b, a.start \in Nat, b.start \in Nat,
           NotBefore(a, b), NotBefore(b, a)
    PROVE  a.start = b.start /\ a.end = b.end
BY DEF NotBefore

\* A webhook that leaves the links alone found a current link of the row's
\* period: the customer has it, or the mail that carries it or one that takes
\* its place is still to come.
LEMMA SettledIsGood ==
    ASSUME IndInv, NothingLost, NEW c \in DOMAIN links, ~links[c].revoked,
           links[c].start = Bounds(reported).start, links[c].end = Bounds(reported).end
    PROVE  \/ Queued
           \/ task # NoMail /\ link = 0 /\ period.end >= Bounds(reported).end
           \/ task # NoMail /\ link # 0 /\ Good(links[link])
           \/ \E k \in DOMAIN inbox : Good(links[inbox[k]])
<1> DEFINE Goal == \/ Queued
                   \/ task # NoMail /\ link = 0 /\ period.end >= Bounds(reported).end
                   \/ task # NoMail /\ link # 0 /\ Good(links[link])
                   \/ \E k \in DOMAIN inbox : Good(links[inbox[k]])
<1>0. /\ Bounds(reported).start \in Nat /\ Bounds(reported).end \in Nat
      /\ period.start \in Nat /\ 0 \notin DOMAIN links
      /\ \A i \in DOMAIN links : links[i].start \in Nat
    <2>1. \A i \in DOMAIN links : links[i] \in Link
        BY DEF IndInv, Typing, TypeOK
    <2>2. QED
        BY <2>1, BoundsIsPeriod DEF IndInv, Typing, TypeOK, Link
<1>1. ASSUME NEW i \in DOMAIN links, Placed(i), Good(links[i]) PROVE Goal
    BY <1>0, <1>1 DEF Placed
<1>2. Good(links[c])
    BY SamePeriodIsGood
<1>3. CASE Placed(c)
    BY <1>1, <1>2, <1>3
<1>4. CASE "failure" \in trouble /\ (Queued \/ Replaced(c))
    <2>1. /\ \A i \in DOMAIN links : NotBefore(Bounds(reported), links[i])
          /\ task # NoMail => NotBefore(Bounds(reported), period)
        BY <1>4 DEF NothingLost, IndInv, ReportedIsLatest
    <2>2. CASE task # NoMail /\ link = 0 /\ NotBefore(period, links[c])
        <3>1. NotBefore(period, Bounds(reported))
            BY <2>2 DEF NotBefore
        <3>2. period.end = Bounds(reported).end
            BY <1>0, <2>1, <2>2, <3>1, NotBeforeBothWays
        <3>3. QED
            BY <1>0, <2>2, <3>2
    <2>3. ASSUME NEW j \in DOMAIN links,
                 Placed(j), ~links[j].revoked, NotBefore(links[j], links[c])
          PROVE  Goal
        <3>1. NotBefore(links[j], Bounds(reported))
            BY <2>3 DEF NotBefore
        <3>2. links[j].start = Bounds(reported).start /\ links[j].end = Bounds(reported).end
            BY <1>0, <2>1, <3>1, NotBeforeBothWays
        <3>3. Good(links[j])
            BY <2>3, <3>2, SamePeriodIsGood
        <3>4. QED
            BY <1>1, <2>3, <3>3
    <2>4. QED
        BY <1>4, <2>2, <2>3 DEF Replaced
<1>5. QED
    BY <1>3, <1>4 DEF IndInv, LinksArrive

\* Every step keeps GoodLinkComes: a renewal either extends the link or queues
\* another.
LEMMA GoodStep == IndInv /\ [Next]_vars => GoodLinkComes'
<1> SUFFICES ASSUME IndInv, [Next]_vars, paid', open', NothingLost'
             PROVE  Coming' \/ \E k \in DOMAIN inbox' : Good(links[inbox[k]])'
    BY DEF GoodLinkComes
<1> USE ConstantsAssumption
<1>0. /\ Typing /\ TypeOK /\ CycleIsPeriod /\ NothingLost /\ now \in MailKey
      /\ Len(inbox) \in Nat /\ DOMAIN inbox = 1 .. Len(inbox)
      /\ Len(links) \in Nat /\ DOMAIN links = 1 .. Len(links)
      /\ \A k \in DOMAIN inbox : inbox[k] \in DOMAIN links
    BY LostStaysLost DEF IndInv, Typing, TypeOK, Day, MailKey
<1>1. paid /\ open => Coming \/ \E k \in DOMAIN inbox : Good(links[inbox[k]])
    BY <1>0 DEF IndInv, GoodLinkComes
<1>2. CASE \/ NextDay \/ Close \/ UNCHANGED vars
           \/ \E m \in OtherMail : EnqueueOtherMail(m)
    <2>1. /\ UNCHANGED <<reported, unsynced, task, link, period, inbox, links>>
          /\ paid /\ open
        BY <1>2 DEF NextDay, Close, EnqueueOtherMail, purchaseVars, workerVars, vars
    <2>2. Queued => Queued'
        BY <1>0, <1>2 DEF NextDay, Close, EnqueueOtherMail, vars, Queued, TypeOK
    <2>3. QED
        BY <1>1, <2>1, <2>2 DEF Coming, Good
<1>3. CASE SaveSubscription
    BY <1>3 DEF SaveSubscription, Coming
<1>4. CASE SyncLinks
    <2>1. CASE EnqueueLinkMail(now)
        BY <1>0, <2>1, RequestQueues DEF Coming
    <2>2. CASE UNCHANGED <<mail, links>> /\ Current # 0
               /\ links[Current].start = Bounds(reported).start
               /\ links[Current].end = Bounds(reported).end
        <3>1. Current \in DOMAIN links /\ ~links[Current].revoked
            BY <1>0, <2>2, CurrentIsLive DEF TypeOK, Live
        <3>2. \/ Queued
              \/ task # NoMail /\ link = 0 /\ period.end >= Bounds(reported).end
              \/ task # NoMail /\ link # 0 /\ Good(links[link])
              \/ \E k \in DOMAIN inbox : Good(links[inbox[k]])
            BY <1>0, <2>2, <3>1, SettledIsGood
        <3>3. UNCHANGED <<reported, task, link, period, inbox>>
            BY <1>4 DEF SyncLinks, workerVars
        <3>4. QED
            BY <2>2, <3>2, <3>3 DEF Coming, Good, Queued
    <2>3. QED
        BY <1>4, <2>1, <2>2 DEF SyncLinks
<1>5. CASE Rotate
    BY <1>0, <1>5, RequestQueues DEF Rotate, Coming
<1>6. ASSUME NEW l \in 1 .. MaxLinks, Revoke(l) PROVE FALSE
    BY <1>6 DEF Revoke, Meets, NothingLost
<1>7. ASSUME NEW m \in MailKey, ReadPurchase(m) PROVE Coming'
    <2>1. task' # NoMail /\ link' = 0
        BY <1>7 DEF ReadPurchase, MailKey, Day
    <2>2. period' = Bounds(reported') /\ Bounds(reported').end \in Nat
        BY <1>0, <1>7, BoundsIsPeriod DEF ReadPurchase, purchaseVars
    <2>3. QED
        BY <2>1, <2>2 DEF Coming
<1>8. CASE InsertLink
    <2>1. /\ UNCHANGED <<paid, open, reported, unsynced, mail, task, period, inbox>>
          /\ task # NoMail /\ link = 0
          /\ link' = Len(links) + 1 /\ links' = Append(links, NewLink(period))
        BY <1>8 DEF InsertLink, purchaseVars
    <2>2. /\ links'[Len(links) + 1] = NewLink(period)
          /\ \A i \in DOMAIN links : links'[i] = links[i]
        BY <1>0, <2>1 DEF TypeOK
    <2>3. Queued => Queued'
        BY <2>1 DEF Queued
    <2>4. ASSUME period.end >= Bounds(reported).end
          PROVE  task' # NoMail /\ link' # 0 /\ Good(links[link])'
        <3>1. period.end \in Nat /\ Bounds(reported).end \in Nat
            BY <1>0, BoundsIsPeriod DEF TypeOK
        <3>2. links'[link'] = NewLink(period)
            BY <2>1, <2>2
        <3>3. QED
            BY <1>0, <2>1, <2>4, <3>1, <3>2 DEF Good, NewLink
    <2>5. ASSUME NEW k \in DOMAIN inbox, Good(links[inbox[k]])
          PROVE  k \in DOMAIN inbox' /\ Good(links[inbox[k]])'
        <3>1. links'[inbox'[k]] = links[inbox[k]]
            BY <1>0, <2>1, <2>2
        <3>2. QED
            BY <2>1, <2>5, <3>1 DEF Good
    <2>6. QED
        BY <1>1, <2>1, <2>3, <2>4, <2>5 DEF Coming
<1>9. CASE Deliver
    <2>1. /\ UNCHANGED <<links, trouble, paid, open, reported, unsynced>>
          /\ inbox' = Append(inbox, link) /\ link # 0
          /\ task # NoMail /\ mail' = [mail EXCEPT ![task] = "sent"]
        BY <1>0, <1>9 DEF Deliver, EndAttempt, CycleIsPeriod, purchaseVars
    <2>2. /\ \A k \in DOMAIN inbox : k \in DOMAIN inbox' /\ inbox'[k] = inbox[k]
          /\ Len(inbox) + 1 \in DOMAIN inbox' /\ inbox'[Len(inbox) + 1] = link
        BY <1>0, <2>1 DEF TypeOK
    <2>3. Queued => Queued'
        <3>1. mail[task] = "sending" /\ task \in MailKey
            BY <1>0, <2>1 DEF TypeOK
        <3>2. QED
            BY <1>0, <2>1, <3>1 DEF Queued, TypeOK
    <2>4. \A l : Good(l) => Good(l)'
        BY <2>1 DEF Good
    <2>5. QED
        BY <1>1, <2>1, <2>2, <2>3, <2>4 DEF Coming, Good
<1>10. CASE DeliveryFails
    <2>1. task \in MailKey /\ (EndAttempt("queued") \/ EndAttempt("failed"))
        BY <1>0, <1>10 DEF DeliveryFails, CycleIsPeriod, TypeOK
    <2>2. mail'[task] # "failed"
        BY <2>1 DEF NothingLost
    <2>3. mail'[task] = "queued"
        BY <1>0, <2>1, <2>2 DEF EndAttempt, TypeOK
    <2>4. QED
        BY <2>1, <2>3 DEF Coming, Queued
<1>11. QED
    BY <1>2, <1>3, <1>4, <1>5, <1>6, <1>7, <1>8, <1>9, <1>10 DEF Next

(***************************************************************************)
(* Theorems                                                                *)
(***************************************************************************)

\* The invariant holds at the start.
LEMMA IndInvInit == Init => IndInv
<1> SUFFICES ASSUME Init PROVE IndInv
    OBVIOUS
<1>1. Typing
    BY TypingInit
<1>2. CycleIsPeriod
    BY ZeroStarts DEF Init, CycleIsPeriod
<1>3. LinksLast /\ LinksArrive
    BY DEF Init, LinksLast, LinksArrive
<1>4. ReportedIsLatest /\ GoodLinkComes
    BY DEF Init, ReportedIsLatest, GoodLinkComes
<1>5. QED
    BY <1>1, <1>2, <1>3, <1>4 DEF IndInv

\* The invariant is inductive: every step of the webhooks, the admin, the mail
\* worker and the clock keeps it.
THEOREM Invariance == Spec => []IndInv
<1>1. IndInv /\ [Next]_vars => IndInv'
    <2>1. IndInv /\ [Next]_vars => Typing'
        BY TypingStep DEF IndInv
    <2>2. QED
        BY <2>1, CycleStep, LinksStep, ReportedStep, ArriveStep, GoodStep DEF IndInv
<1>2. QED
    BY IndInvInit, <1>1, PTL DEF Spec

\* Every variable keeps its type, the link of an attempt exists, and a mail is
\* being sent exactly while the worker holds it.
THEOREM TypeCorrect == Spec => []TypeOK
<1>1. IndInv => TypeOK
    BY DEF IndInv, Typing
<1>2. QED
    BY <1>1, Invariance, PTL

\* A link that was revoked or has run out never opens the service again,
\* whatever the webhooks, the admin and the worker do to the table.
THEOREM DeadLinksStayDead == Spec => DeadStaysDead
<1>1. ASSUME IndInv, Next, NEW i \in DOMAIN links, ~Live(links[i])
      PROVE  ~Live(links[i])'
    <2>0. /\ TypeOK /\ links[i] \in Link /\ now \in Nat /\ DOMAIN links = 1 .. Len(links)
          /\ Len(links) \in Nat
        BY <1>1, ConstantsAssumption DEF IndInv, Typing, TypeOK, Day
    <2>1. now' \in Nat /\ now <= now'
        BY <1>1, <2>0 DEF Next, NextDay, SaveSubscription, SyncLinks, Close, Rotate, Revoke,
            EnqueueOtherMail, ReadPurchase, InsertLink, Deliver, DeliveryFails, EndAttempt
    <2>2. \/ links'[i] = links[i]
          \/ \E b \in [start : Nat, end : Nat] : links'[i] = Shortened(links[i], b)
          \/ links'[i] = Revoked(links[i])
        <3>1. CASE SyncLinks
            <4>1. Bounds(reported) \in [start : Nat, end : Nat]
                BY <1>1, BoundsIsPeriod DEF IndInv
            <4>2. QED
                BY <2>0, <3>1, <4>1 DEF SyncLinks
        <3>2. CASE Rotate
            BY <2>0, <3>2 DEF Rotate
        <3>3. ASSUME NEW l \in 1 .. MaxLinks, Revoke(l)
              PROVE  links'[i] = links[i] \/ links'[i] = Revoked(links[i])
            BY <2>0, <3>3 DEF Revoke
        <3>4. CASE InsertLink
            BY <2>0, <3>4 DEF InsertLink, TypeOK
        <3>5. QED
            BY <1>1, <3>1, <3>2, <3>3, <3>4 DEF Next, NextDay, SaveSubscription, Close,
                EnqueueOtherMail, ReadPurchase, Deliver, DeliveryFails, EndAttempt
    <2>3. /\ links[i].revoked \/ links[i].expires < now
          /\ links[i].expires \in Nat /\ links[i].revoked \in BOOLEAN
        BY <1>1, <2>0 DEF Live, Link
    <2>4. CASE links'[i] = links[i]
        BY <2>0, <2>1, <2>3, <2>4 DEF Live
    <2>5. ASSUME NEW b \in [start : Nat, end : Nat], links'[i] = Shortened(links[i], b)
          PROVE  ~Live(links[i])'
        <3>1. b.start + Overlap \in Nat
            BY ConstantsAssumption
        <3>2. links'[i].revoked = links[i].revoked /\ links'[i].expires \in Nat
              /\ links'[i].expires <= links[i].expires
            BY <2>0, <2>3, <2>5, <3>1 DEF Shortened, Link
        <3>3. QED
            BY <2>1, <2>3, <2>0, <3>2 DEF Live
    <2>6. CASE links'[i] = Revoked(links[i])
        <3>1. links'[i].revoked
            BY <2>0, <2>6 DEF Revoked, Link
        <3>2. QED
            BY <3>1 DEF Live
    <2>7. QED
        BY <2>2, <2>4, <2>5, <2>6
<1>2. IndInv /\ [Next]_vars =>
            [\A i \in DOMAIN links : ~Live(links[i]) => ~Live(links[i])']_vars
    BY <1>1
<1>3. QED
    BY Invariance, <1>2, PTL DEF Spec, DeadStaysDead

\* When every mail has arrived and none was lost, a customer of a served
\* purchase holds a link that opens the service, whatever the lengths of the
\* periods and of the overlap and however the webhooks, the admin's rotations
\* and the worker's mails fall between one another.
THEOREM AccessIsKept == Spec => []CustomerKeepsAccess
<1>1. IndInv => CustomerKeepsAccess
    <2> SUFFICES ASSUME IndInv, Quiet, Served, NothingLost
                 PROVE  \E k \in DOMAIN inbox : Verifies(inbox[k])
        BY DEF CustomerKeepsAccess
    <2>1. TypeOK
        BY DEF IndInv, Typing
    <2>2. ~Coming
        BY <2>1 DEF Quiet, Coming, Queued, TypeOK
    <2>3. PICK k \in DOMAIN inbox : Good(links[inbox[k]])
        BY <2>2 DEF IndInv, GoodLinkComes, Served
    <2>4. inbox[k] \in 1 .. Len(links) /\ links[inbox[k]] \in Link
        BY <2>1 DEF TypeOK
    <2>5. Bounds(reported).end + Overlap \in Nat /\ now \in Nat
        BY <2>1, BoundsIsPeriod, ConstantsAssumption DEF IndInv, TypeOK, Day
    <2>6. QED
        BY <2>3, <2>4, <2>5 DEF Good, Served, Verifies, Live, Link
<1>2. QED
    BY <1>1, Invariance, PTL

=============================================================================
