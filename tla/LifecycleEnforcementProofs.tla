--------------------- MODULE LifecycleEnforcementProofs ---------------------
(***************************************************************************)
(* Proofs about LifecycleEnforcement, for every value of its constants.    *)
(***************************************************************************)
EXTENDS LifecycleEnforcement, SequenceTheorems, FiniteSetTheorems, ExtremaLemmas, TLAPS

(***************************************************************************)
(* The inductive invariant                                                 *)
(***************************************************************************)

\* The events that wait for a purchase, and the one that Stripe sent last.
Waiting(p) == {mail[p][i] : i \in 1 .. Len(mail[p])}

Newest(p) == mail[p][Len(mail[p])]

\* Events that end a debt, whatever the row says.
Clears(event) ==
    \/ event.kind = "invoice_paid"
    \/ event.kind = "changed" /\ event.sub \notin DelinquentSubscription

NoTroubleOf(kinds) == trouble \cap kinds = {}

\* Stripe knows of nothing before the payment, and of a debt as long as it has one.
\* Only a completed purchase is suspended.
Basics ==
    \A p \in Purchase :
        /\ row[p].status = "none" =>
                truth[p] = "none" /\ mail[p] = <<>> /\ late[p] = {}
        /\ unpaidSince[p] <= now
        /\ truth[p] \in {"past_due", "unpaid"} <=> unpaidSince[p] > 0
        /\ row[p].suspendedAt > 0 => row[p].status = "completed"
        /\ late[p] # {} => "repeat" \in trouble

\* The row's debt is not older than the one Stripe knows.
NotOlder(p) ==
    /\ row[p].delinquentAt > 0 => row[p].delinquentAt >= unpaidSince[p]
    /\ row[p].suspendedAt > 0 =>
            row[p].suspendedAt >= unpaidSince[p] + SubscriptionGracePeriod

\* Without a repeated event or an edit, what the row has against a customer who owes
\* nothing or owes for less long is about to be cleared.
DebtsAreReal ==
    NoTroubleOf({"repeat", "edit"}) => \A p \in Purchase :
        /\ unpaidSince[p] = 0 /\ mail[p] = <<>> =>
                row[p].delinquentAt = 0 /\ row[p].suspendedAt = 0
        /\ unpaidSince[p] = 0 /\ mail[p] # <<>> => Clears(Newest(p))
        /\ unpaidSince[p] > 0 =>
                NotOlder(p) \/ \E event \in Waiting(p) : Clears(event)

\* Without unpaid subscriptions only the end of a subscription frees a slot.
Terminates(event) == event.kind = "changed" /\ event.sub \in TerminalSubscription

EndsAreFinal ==
    NoTroubleOf({"unpaid"}) => \A p \in Purchase :
        /\ truth[p] # "unpaid"
        /\ \A event \in Waiting(p) \cup late[p] : Terminates(event) => truth[p] = "canceled"
        /\ slot[p] = "available" /\ row[p].status # "none" => truth[p] = "canceled"

\* When events are handled in step with Stripe, a completed purchase whose slot is
\* held is a suspended one.
HeldMeansSuspended ==
    NoTroubleOf({"lag", "repeat", "visit"}) => \A p \in Purchase :
        /\ row[p].status = "completed" /\ slot[p] = "held" => row[p].suspendedAt > 0
        /\ \A event \in Waiting(p) : event.kind = "invoice_paid" => truth[p] = "active"

\* The row has the subscription's status, or will have it from the last event.
StatusArrives ==
    NoTroubleOf({"repeat"}) => \A p \in Purchase :
        /\ mail[p] = <<>> => row[p].sub = truth[p]
        /\ mail[p] # <<>> /\ Newest(p).kind = "changed" => Newest(p).sub = truth[p]

\* The grace period starts on the day of the first failed payment.
GraceStarts ==
    NoTroubleOf({"lag", "repeat", "retry", "outage", "visit", "unpaid"}) =>
        \A p \in Purchase : truth[p] = "past_due" =>
            /\ \A event \in Waiting(p) : ~Clears(event)
            /\ mail[p] # <<>> => unpaidSince[p] = now
            /\ \/ \E event \in Waiting(p) : event.kind = "invoice_failed"
               \/ row[p].delinquentAt > 0 /\ row[p].delinquentAt <= unpaidSince[p]

\* The customer is reminded on the day it is due.
RemindersInTime ==
    NoTroubleOf({"outage"}) => \A p \in Purchase :
        /\ escalated[p] => reminded[p]
        /\ p \in Stalled /\ Age(row[p].paidAt) > ReminderDelay => reminded[p]

\* The query for candidates takes every suspended service.
NoCrowd ==
    NoTroubleOf({"crowd", "edit"}) => Cardinality(Suspended) <= WarningLimit

\* Every warning is sent on the day it is due, and so before the review.
WarningsInTime ==
    NoTroubleOf({"outage", "crowd", "edit"}) => \A p \in Purchase :
        /\ reviewed[p] > 0 => warned[p] = WarningWindow
        /\ row[p].suspendedAt > 0 => \A w \in WarningWindow :
                now + w > row[p].suspendedAt + SuspensionRetention => w \in warned[p]

IndInv ==
    /\ TypeOK /\ Basics /\ DebtsAreReal /\ EndsAreFinal /\ HeldMeansSuspended
    /\ StatusArrives /\ GraceStarts /\ RemindersInTime /\ NoCrowd /\ WarningsInTime

(***************************************************************************)
(* What is derived, chosen and sent                                        *)
(***************************************************************************)

\* A window is a positive number of days, and less than the retention.
LEMMA WindowsAre ==
    /\ WarningWindow \in SUBSET Nat /\ SuspensionRetention \in Nat
    /\ \A w \in WarningWindow : w \in Nat /\ w >= 1 /\ w < SuspensionRetention
<1>1. SuspensionRetention \in Nat
    BY EnforcementConstants
<1>2. ASSUME NEW w \in WarningWindow
      PROVE  w \in Nat /\ w >= 1 /\ w < SuspensionRetention
    <2>1. w \in 1 .. SuspensionRetention - 1
        BY EnforcementConstants
    <2>2. QED
        BY <1>1, <2>1
<1>3. QED
    BY <1>1, <1>2

\* Merging a row changes its risk only, and merging it again changes nothing.
LEMMA MergedIs ==
    ASSUME NEW r \in Row
    PROVE  /\ Merged(r) \in Row
           /\ Merged(Merged(r)) = Merged(r)
           /\ Merged(r).status = r.status /\ Merged(r).named = r.named
           /\ Merged(r).sub = r.sub /\ Merged(r).paidAt = r.paidAt
           /\ Merged(r).delinquentAt = r.delinquentAt
           /\ Merged(r).suspendedAt = r.suspendedAt
           /\ Merged(r).risk = "hard_flagged" <=> r.risk = "hard_flagged"
<1>1. DeriveRisk(r.risk, r.suspendedAt > 0, r.delinquentAt > 0) \in CustomerRiskStatus
    BY DEF DeriveRisk, CustomerRiskStatus
<1>2. QED
    BY <1>1 DEF Merged, Row, DeriveRisk

\* A merged row is derived from itself.
LEMMA NoRowIsMerged == NoRow \in Row /\ Merged(NoRow) = NoRow
BY EnforcementConstants
   DEF NoRow, Row, Merged, DeriveRisk, Day, Subscription, PurchaseStatus, CustomerRiskStatus

\* The query with ORDER BY stamp, id has a first row.
LEMMA EarliestExists ==
    ASSUME NEW S \in SUBSET Purchase, S # {}, NEW stamp \in [Purchase -> Nat]
    PROVE  Earliest(S, stamp) \in S
<1> DEFINE Stamps == {stamp[p] : p \in S}
<1>1. Stamps \in SUBSET Nat /\ Stamps # {}
    OBVIOUS
<1>2. PICK s \in Stamps : \A t \in Stamps : s <= t
    BY <1>1, LeastExists
<1> DEFINE Firsts == {p \in S : stamp[p] = s}
<1>3. Firsts \in SUBSET Nat /\ Firsts # {}
    BY <1>2, EnforcementConstants
<1>4. PICK p \in Firsts : \A q \in Firsts : p <= q
    BY <1>3, LeastExists
<1>5. \A q \in S \ {p} : Before(p, q, stamp)
    <2>1. SUFFICES ASSUME NEW q \in S \ {p} PROVE Before(p, q, stamp)
        OBVIOUS
    <2>2. s <= stamp[q] /\ stamp[p] = s /\ stamp[q] \in Nat /\ s \in Nat
        BY <1>1, <1>2, <1>4, <2>1
    <2>3. CASE stamp[q] = s
        BY <1>3, <1>4, <2>1, <2>2, <2>3 DEF Before
    <2>4. CASE stamp[q] # s
        BY <2>2, <2>4 DEF Before
    <2>5. QED
        BY <2>3, <2>4
<1>6. QED
    BY <1>4, <1>5 DEF Earliest

\* The most urgent window, when one applies.
LEMMA WarningIs ==
    ASSUME NEW p \in Purchase,
           NEW v \in WarningWindow, row[p].suspendedAt + SuspensionRetention - now <= v
    PROVE  /\ Warning(p) \in WarningWindow
           /\ row[p].suspendedAt + SuspensionRetention - now <= Warning(p)
           /\ Warning(p) <= v
<1> DEFINE W == {w \in WarningWindow : row[p].suspendedAt + SuspensionRetention - now <= w}
<1>1. W \in SUBSET Nat /\ v \in W
    BY WindowsAre
<1>2. Min(W) \in W /\ \A w \in W : Min(W) <= w
    BY <1>1, MinIsLeast
<1>3. QED
    BY <1>1, <1>2 DEF Warning

\* The first event of a queue is taken off.
LEMMA Taken ==
    ASSUME NEW p \in Purchase, mail[p] \in Seq(Events), mail[p] # <<>>,
           mail'[p] = Tail(mail[p])
    PROVE  /\ Head(mail[p]) \in Waiting(p)
           /\ Head(mail[p]) \in Events
           /\ mail'[p] \in Seq(Events) /\ Len(mail'[p]) = Len(mail[p]) - 1
           /\ Waiting(p) = (Waiting(p))' \cup {Head(mail[p])}
           /\ mail'[p] = <<>> => Newest(p) = Head(mail[p])
           /\ mail'[p] # <<>> => (Newest(p))' = Newest(p)
<1>1. /\ Len(mail[p]) \in Nat \ {0}
      /\ Head(mail[p]) = mail[p][1] /\ Head(mail[p]) \in Events
    BY EmptySeq, HeadTailProperties
<1>2. /\ mail'[p] \in Seq(Events)
      /\ Len(mail'[p]) = Len(mail[p]) - 1
      /\ \A i \in 1 .. Len(mail[p]) - 1 : mail'[p][i] = mail[p][i + 1]
    BY HeadTailProperties
<1>3. Waiting(p) = (Waiting(p))' \cup {Head(mail[p])}
    <2>1. ASSUME NEW i \in 1 .. Len(mail[p])
          PROVE  mail[p][i] \in (Waiting(p))' \cup {Head(mail[p])}
        <3>1. CASE i = 1
            BY <1>1, <3>1
        <3>2. CASE i # 1
            <4>1. i - 1 \in 1 .. Len(mail'[p]) /\ mail'[p][i - 1] = mail[p][i]
                BY <1>1, <1>2, <2>1, <3>2
            <4>2. QED
                BY <4>1 DEF Waiting
        <3>3. QED
            BY <3>1, <3>2
    <2>2. ASSUME NEW i \in 1 .. Len(mail'[p])
          PROVE  mail'[p][i] \in Waiting(p)
        <3>1. i + 1 \in 1 .. Len(mail[p]) /\ mail'[p][i] = mail[p][i + 1]
            BY <1>1, <1>2, <2>2
        <3>2. QED
            BY <3>1 DEF Waiting
    <2>3. Head(mail[p]) \in Waiting(p)
        BY <1>1 DEF Waiting
    <2>4. QED
        BY <2>1, <2>2, <2>3 DEF Waiting
<1>4. ASSUME mail'[p] = <<>> PROVE Newest(p) = Head(mail[p])
    <2>1. Len(mail'[p]) = 0
        <3>1. Len(<<>>) = 0
            BY EmptySeq, Zenon
        <3>2. QED
            BY <1>4, <3>1, Zenon
    <2>2. Len(mail[p]) = 1
        <3>1. PICK n \in Nat : Len(mail[p]) = n
            BY <1>1
        <3>2. n - 1 = 0
            BY <1>2, <2>1, <3>1
        <3>3. QED
            BY <3>1, <3>2
    <2>3. QED
        BY <1>1, <2>2 DEF Newest
<1>5. ASSUME mail'[p] # <<>> PROVE (Newest(p))' = Newest(p)
    <2>1. Len(mail'[p]) \in Nat \ {0}
        BY <1>2, <1>5, EmptySeq
    <2>2. Len(mail'[p]) \in 1 .. Len(mail[p]) - 1
        <3>1. PICK n \in Nat : Len(mail[p]) = n
            BY <1>1
        <3>2. PICK m \in Nat \ {0} : Len(mail'[p]) = m
            BY <2>1
        <3>3. m = n - 1
            BY <1>2, <3>1, <3>2
        <3>4. m \in 1 .. n - 1
            BY <3>3
        <3>5. QED
            BY <3>1, <3>2, <3>4
    <2>3. Len(mail'[p]) + 1 = Len(mail[p])
        BY <1>1, <1>2
    <2>4. QED
        BY <1>2, <2>2, <2>3 DEF Newest
<1>6. QED
    BY <1>1, <1>2, <1>3, <1>4, <1>5

\* Events are added behind those that wait.
LEMMA Sent ==
    ASSUME NEW p \in Purchase, mail[p] \in Seq(Events),
           NEW new \in Seq(Events), new # <<>>, mail'[p] = mail[p] \o new
    PROVE  /\ mail'[p] \in Seq(Events) /\ Len(mail'[p]) = Len(mail[p]) + Len(new)
           /\ mail'[p] # <<>>
           /\ (Waiting(p))' = Waiting(p) \cup {new[i] : i \in 1 .. Len(new)}
           /\ (Newest(p))' = new[Len(new)]
<1>1. Len(mail[p]) \in Nat /\ Len(new) \in Nat \ {0}
    BY EmptySeq, LenProperties
<1>2. /\ mail'[p] \in Seq(Events) /\ Len(mail'[p]) = Len(mail[p]) + Len(new)
      /\ \A i \in 1 .. Len(mail[p]) + Len(new) :
            mail'[p][i] = IF i <= Len(mail[p]) THEN mail[p][i] ELSE new[i - Len(mail[p])]
    BY ConcatProperties
<1>3. mail'[p] # <<>>
    BY <1>1, <1>2, EmptySeq
<1>4. (Newest(p))' = new[Len(new)]
    <2>1. /\ Len(mail[p]) + Len(new) \in 1 .. Len(mail[p]) + Len(new)
          /\ ~(Len(mail[p]) + Len(new) <= Len(mail[p]))
          /\ Len(mail[p]) + Len(new) - Len(mail[p]) = Len(new)
        BY <1>1
    <2>2. QED
        BY <1>2, <2>1 DEF Newest
<1>5. (Waiting(p))' \subseteq Waiting(p) \cup {new[i] : i \in 1 .. Len(new)}
    <2>1. SUFFICES ASSUME NEW i \in 1 .. Len(mail'[p])
                   PROVE  mail'[p][i] \in Waiting(p) \cup {new[j] : j \in 1 .. Len(new)}
        BY DEF Waiting
    <2>2. CASE i <= Len(mail[p])
        BY <1>1, <1>2, <2>1, <2>2 DEF Waiting
    <2>3. CASE ~(i <= Len(mail[p]))
        <3>1. i - Len(mail[p]) \in 1 .. Len(new) /\ mail'[p][i] = new[i - Len(mail[p])]
            BY <1>1, <1>2, <2>1, <2>3
        <3>2. QED
            BY <3>1
    <2>4. QED
        BY <2>2, <2>3
<1>6. Waiting(p) \subseteq (Waiting(p))'
    <2>1. SUFFICES ASSUME NEW i \in 1 .. Len(mail[p]) PROVE mail[p][i] \in (Waiting(p))'
        BY DEF Waiting
    <2>2. i \in 1 .. Len(mail'[p]) /\ mail'[p][i] = mail[p][i]
        BY <1>1, <1>2, <2>1
    <2>3. QED
        BY <2>2 DEF Waiting
<1>7. ASSUME NEW j \in 1 .. Len(new) PROVE new[j] \in (Waiting(p))'
    <2>1. /\ j + Len(mail[p]) \in 1 .. Len(mail'[p])
          /\ ~(j + Len(mail[p]) <= Len(mail[p])) /\ j + Len(mail[p]) - Len(mail[p]) = j
        BY <1>1, <1>2, <1>7
    <2>2. mail'[p][j + Len(mail[p])] = new[j]
        BY <1>2, <2>1
    <2>3. QED
        BY <2>1, <2>2 DEF Waiting
<1>8. QED
    BY <1>2, <1>3, <1>4, <1>5, <1>6, <1>7

(***************************************************************************)
(* Types                                                                   *)
(***************************************************************************)

\* An event has the kind and the status it was made with.
LEMMA EventIs ==
    ASSUME NEW kind \in {"invoice_paid", "invoice_failed", "changed"}, NEW sub \in Subscription
    PROVE  /\ Event(kind, sub) \in Events
           /\ Event(kind, sub).kind = kind /\ Event(kind, sub).sub = sub
BY DEF Event, Events

\* Trouble is added to what there has been.
LEMMA TroubleTyped ==
    ASSUME TypeOK, NEW kinds, Causes(kinds)
    PROVE  trouble' \in SUBSET Trouble /\ trouble \subseteq trouble' /\ kinds \subseteq trouble'
BY DEF TypeOK, Causes

\* A row of a purchase is merged before it is saved.
LEMMA SavedRowTyped ==
    ASSUME TypeOK, NEW p \in Purchase, NEW r \in Row, row' = [row EXCEPT ![p] = Merged(r)]
    PROVE  /\ row' \in [Purchase -> Row]
           /\ \A q \in Purchase : row'[q] = Merged(row'[q])
           /\ row'[p] = Merged(r) /\ \A q \in Purchase \ {p} : row'[q] = row[q]
           /\ row'[p].status = r.status /\ row'[p].named = r.named /\ row'[p].sub = r.sub
           /\ row'[p].paidAt = r.paidAt /\ row'[p].delinquentAt = r.delinquentAt
           /\ row'[p].suspendedAt = r.suspendedAt
           /\ row'[p].risk = "hard_flagged" <=> r.risk = "hard_flagged"
<1>1. Merged(r) \in Row /\ Merged(Merged(r)) = Merged(r)
    BY MergedIs
<1>2. /\ row' \in [Purchase -> Row]
      /\ row'[p] = Merged(r) /\ \A q \in Purchase \ {p} : row'[q] = row[q]
    BY <1>1 DEF TypeOK
<1>3. \A q \in Purchase : row'[q] = Merged(row'[q])
    <2>1. SUFFICES ASSUME NEW q \in Purchase PROVE row'[q] = Merged(row'[q])
        OBVIOUS
    <2>2. CASE q = p
        BY <1>1, <1>2, <2>2
    <2>3. CASE q # p
        BY <1>2, <2>1, <2>3 DEF TypeOK
    <2>4. QED
        BY <2>2, <2>3
<1>4. QED
    BY <1>2, <1>3, MergedIs

\* What an event leaves of a row.
LEMMA SyncedRowIs ==
    ASSUME TypeOK, NEW p \in Purchase, NEW kind, NEW sub \in Subscription
    PROVE  \E r \in Row :
        /\ SyncedRow(row[p], kind, sub) = Merged(r)
        /\ r.status = IF sub \in TerminalSubscription /\ row[p].status = "paid"
                      THEN "cancelled" ELSE row[p].status
        /\ r.sub = sub /\ r.named = row[p].named /\ r.paidAt = row[p].paidAt
        /\ r.delinquentAt = DelinquentAt(row[p], kind, sub)
        /\ r.suspendedAt = SuspendedAt(row[p], kind, sub)
        /\ r.risk = row[p].risk
<1>1. row[p] \in Row /\ now \in Day
    BY EnforcementConstants DEF TypeOK, Day
<1>2. DelinquentAt(row[p], kind, sub) \in Day /\ SuspendedAt(row[p], kind, sub) \in Day
    <2>1. row[p].delinquentAt \in Day /\ row[p].suspendedAt \in Day /\ 0 \in Day
        BY <1>1, EnforcementConstants DEF Row, Day
    <2>2. DelinquentAt(row[p], kind, sub) \in {now, 0, row[p].delinquentAt}
        BY Zenon DEF DelinquentAt
    <2>3. QED
        BY <1>1, <2>1, <2>2 DEF SuspendedAt
<1> DEFINE r == [row[p] EXCEPT
        !.status = IF sub \in TerminalSubscription /\ @ = "paid" THEN "cancelled" ELSE @,
        !.sub = sub,
        !.delinquentAt = DelinquentAt(row[p], kind, sub),
        !.suspendedAt = SuspendedAt(row[p], kind, sub)]
<1>3. r \in Row
    BY <1>1, <1>2 DEF Row, PurchaseStatus
<1>4. SyncedRow(row[p], kind, sub) = Merged(r)
    BY DEF SyncedRow
<1>5. QED
    BY <1>1, <1>3, <1>4 DEF Row

\* Stripe sends events.
LEMMA SendsIs ==
    ASSUME TypeOK, NEW p \in Purchase, NEW new \in Seq(Events), new # <<>>, NEW kinds,
           Sends(p, new, kinds)
    PROVE  /\ mail' \in [Purchase -> Seq(Events)]
           /\ \A q \in Purchase : Len(mail'[q]) <= MaxMail
           /\ \A q \in Purchase \ {p} : mail'[q] = mail[q]
           /\ mail'[p] = mail[p] \o new
           /\ changes' \in 0 .. MaxChanges
           /\ trouble' \in SUBSET Trouble /\ trouble \subseteq trouble'
           /\ kinds \subseteq trouble'
           /\ mail[p] # <<>> => "lag" \in trouble'
           /\ UNCHANGED <<now, row, slot, recordVars, late>>
<1>1. mail[p] \o new \in Seq(Events) /\ Len(mail[p] \o new) = Len(mail[p]) + Len(new)
    BY ConcatProperties DEF TypeOK
<1>2. /\ mail' \in [Purchase -> Seq(Events)]
      /\ \A q \in Purchase : Len(mail'[q]) <= MaxMail
      /\ \A q \in Purchase \ {p} : mail'[q] = mail[q]
      /\ mail'[p] = mail[p] \o new
    BY <1>1 DEF Sends, TypeOK
<1>3. changes' \in 0 .. MaxChanges
    BY EnforcementConstants DEF Sends, TypeOK
<1>4. Causes(kinds \cup IF mail[p] # <<>> THEN {"lag"} ELSE {})
    BY DEF Sends, Befalls
<1>5. /\ trouble' \in SUBSET Trouble /\ trouble \subseteq trouble'
      /\ kinds \subseteq trouble'
      /\ mail[p] # <<>> => "lag" \in trouble'
    BY <1>4, TroubleTyped
<1>6. QED
    BY <1>2, <1>3, <1>5 DEF Sends

\* An event is handled for the first time.
LEMMA HandleIs ==
    ASSUME TypeOK, NEW p \in Purchase, NEW lost \in BOOLEAN, Handle(p, lost)
    PROVE  /\ mail[p] # <<>> /\ Head(mail[p]) \in Events
           /\ mail' \in [Purchase -> Seq(Events)]
           /\ \A q \in Purchase : Len(mail'[q]) <= MaxMail
           /\ \A q \in Purchase \ {p} : mail'[q] = mail[q] /\ late'[q] = late[q]
           /\ mail'[p] = Tail(mail[p])
           /\ late' \in [Purchase -> SUBSET Events]
           /\ late'[p] = IF lost THEN late[p] \cup {Head(mail[p])} ELSE late[p]
           /\ trouble' \in SUBSET Trouble /\ trouble \subseteq trouble'
           /\ lost => "repeat" \in trouble'
           /\ UNCHANGED <<now, recordVars, truth, unpaidSince, changes>>
<1>1. /\ mail[p] \in Seq(Events) /\ mail[p] # <<>>
      /\ mail' = [mail EXCEPT ![p] = Tail(@)]
    BY DEF Handle, TypeOK
<1>2. /\ Head(mail[p]) \in Events /\ Tail(mail[p]) \in Seq(Events)
      /\ Len(mail[p]) \in Nat /\ Len(Tail(mail[p])) = Len(mail[p]) - 1
    BY <1>1, HeadTailProperties, LenProperties
<1>3. /\ mail' \in [Purchase -> Seq(Events)]
      /\ \A q \in Purchase : Len(mail'[q]) <= MaxMail
      /\ \A q \in Purchase \ {p} : mail'[q] = mail[q]
      /\ mail'[p] = Tail(mail[p])
    BY <1>1, <1>2, EnforcementConstants DEF TypeOK
<1>4. /\ late' \in [Purchase -> SUBSET Events]
      /\ \A q \in Purchase \ {p} : late'[q] = late[q]
      /\ late'[p] = IF lost THEN late[p] \cup {Head(mail[p])} ELSE late[p]
    BY <1>2 DEF Handle, TypeOK
<1>5. Causes(IF lost THEN {"repeat"} ELSE {})
    BY DEF Handle, Befalls
<1>6. /\ trouble' \in SUBSET Trouble /\ trouble \subseteq trouble'
      /\ lost => "repeat" \in trouble'
    BY <1>5, TroubleTyped
<1>7. QED
    BY <1>1, <1>2, <1>3, <1>4, <1>6 DEF Handle

\* What the handler of an event does to the row and the slot.
LEMMA SyncIs ==
    ASSUME TypeOK, NEW p \in Purchase, NEW event \in Events, Sync(p, event)
    PROVE  \E sub \in Subscription :
        /\ sub = IF event.kind = "changed" THEN event.sub ELSE truth[p]
        /\ row' \in [Purchase -> Row]
        /\ \A q \in Purchase : row'[q] = Merged(row'[q])
        /\ \A q \in Purchase \ {p} : row'[q] = row[q] /\ slot'[q] = slot[q]
        /\ row'[p].status = IF sub \in TerminalSubscription /\ row[p].status = "paid"
                            THEN "cancelled" ELSE row[p].status
        /\ row'[p].sub = sub /\ row'[p].named = row[p].named
        /\ row'[p].paidAt = row[p].paidAt
        /\ row'[p].delinquentAt = DelinquentAt(row[p], event.kind, sub)
        /\ row'[p].suspendedAt = SuspendedAt(row[p], event.kind, sub)
        /\ row'[p].risk = "hard_flagged" <=> row[p].risk = "hard_flagged"
        /\ slot' \in [Purchase -> ServerStatus] /\ slot'[p] = SyncedSlot(p, sub)
<1> DEFINE sub == IF event.kind = "changed" THEN event.sub ELSE truth[p]
<1>1. sub \in Subscription
    BY DEF TypeOK, Events
<1>2. /\ row' = [row EXCEPT ![p] = SyncedRow(@, event.kind, sub)]
      /\ slot' = [slot EXCEPT ![p] = SyncedSlot(p, sub)]
    BY DEF Sync
<1> HIDE DEF sub
<1>3. PICK r \in Row :
        /\ SyncedRow(row[p], event.kind, sub) = Merged(r)
        /\ r.status = IF sub \in TerminalSubscription /\ row[p].status = "paid"
                      THEN "cancelled" ELSE row[p].status
        /\ r.sub = sub /\ r.named = row[p].named /\ r.paidAt = row[p].paidAt
        /\ r.delinquentAt = DelinquentAt(row[p], event.kind, sub)
        /\ r.suspendedAt = SuspendedAt(row[p], event.kind, sub)
        /\ r.risk = row[p].risk
    BY <1>1, SyncedRowIs
<1>4. row' = [row EXCEPT ![p] = Merged(r)]
    BY <1>2, <1>3
<1>5. /\ row' \in [Purchase -> Row]
      /\ \A q \in Purchase : row'[q] = Merged(row'[q])
      /\ row'[p] = Merged(r) /\ \A q \in Purchase \ {p} : row'[q] = row[q]
    BY <1>4, SavedRowTyped
<1>6. SyncedSlot(p, sub) \in ServerStatus
    BY DEF TypeOK, SyncedSlot, ServerStatus
<1>7. /\ slot' \in [Purchase -> ServerStatus] /\ slot'[p] = SyncedSlot(p, sub)
      /\ \A q \in Purchase \ {p} : slot'[q] = slot[q]
    BY <1>2, <1>6 DEF TypeOK
<1>8. /\ Merged(r).status = r.status /\ Merged(r).named = r.named
      /\ Merged(r).sub = r.sub /\ Merged(r).paidAt = r.paidAt
      /\ Merged(r).delinquentAt = r.delinquentAt
      /\ Merged(r).suspendedAt = r.suspendedAt
      /\ Merged(r).risk = "hard_flagged" <=> r.risk = "hard_flagged"
    BY MergedIs
<1>9. QED
    BY <1>1, <1>3, <1>5, <1>7, <1>8 DEF sub

\* The actions that save a row and do nothing at Stripe.
LEMMA SubmitSetupIs ==
    ASSUME TypeOK, NEW p \in Purchase, SubmitSetup(p)
    PROVE  /\ row[p].status = "paid"
           /\ row' \in [Purchase -> Row]
           /\ \A q \in Purchase : row'[q] = Merged(row'[q])
           /\ \A q \in Purchase \ {p} : row'[q] = row[q]
           /\ row'[p].status = row[p].status /\ row'[p].sub = row[p].sub
           /\ row'[p].named /\ row'[p].paidAt = row[p].paidAt
           /\ row'[p].delinquentAt = row[p].delinquentAt
           /\ row'[p].suspendedAt = row[p].suspendedAt
<1>1. row[p] \in Row /\ 0 \in Day /\ now \in Day /\ truth[p] \in Subscription
    BY EnforcementConstants DEF TypeOK, Day
<1>2. PICK r : r = [row[p] EXCEPT !.named = TRUE]
    OBVIOUS
<1>3. /\ r \in Row
      /\ r.status = row[p].status /\ r.named = TRUE /\ r.sub = row[p].sub
      /\ r.paidAt = row[p].paidAt
      /\ r.delinquentAt = row[p].delinquentAt
      /\ r.suspendedAt = row[p].suspendedAt
    BY <1>1, <1>2 DEF Row
<1>4. row' = [row EXCEPT ![p] = Merged(r)]
    BY <1>2 DEF SubmitSetup
<1>5. /\ row' \in [Purchase -> Row]
      /\ \A q \in Purchase : row'[q] = Merged(row'[q])
      /\ \A q \in Purchase \ {p} : row'[q] = row[q]
      /\ row'[p].status = r.status /\ row'[p].named = r.named /\ row'[p].sub = r.sub
      /\ row'[p].paidAt = r.paidAt /\ row'[p].delinquentAt = r.delinquentAt
      /\ row'[p].suspendedAt = r.suspendedAt
    BY <1>3, <1>4, SavedRowTyped
<1>6. QED
    BY <1>3, <1>5 DEF SubmitSetup

\* Release of a server: the row is completed, the slot allocated, the clocks
\* unchanged.
LEMMA FulfillIs ==
    ASSUME TypeOK, NEW p \in Purchase, Fulfill(p)
    PROVE  /\ row[p].status = "paid"
           /\ row' \in [Purchase -> Row]
           /\ \A q \in Purchase : row'[q] = Merged(row'[q])
           /\ \A q \in Purchase \ {p} : row'[q] = row[q] /\ slot'[q] = slot[q]
           /\ row'[p].status = "completed" /\ row'[p].sub = row[p].sub
           /\ row'[p].delinquentAt = row[p].delinquentAt
           /\ row'[p].suspendedAt = row[p].suspendedAt
           /\ slot' \in [Purchase -> ServerStatus] /\ slot'[p] = "allocated"
<1>1. row[p] \in Row /\ 0 \in Day /\ now \in Day /\ truth[p] \in Subscription
    BY EnforcementConstants DEF TypeOK, Day
<1>2. PICK r : r = [row[p] EXCEPT !.status = "completed"]
    OBVIOUS
<1>3. /\ r \in Row
      /\ r.status = "completed" /\ r.named = row[p].named /\ r.sub = row[p].sub
      /\ r.paidAt = row[p].paidAt
      /\ r.delinquentAt = row[p].delinquentAt
      /\ r.suspendedAt = row[p].suspendedAt
    BY <1>1, <1>2 DEF Row, PurchaseStatus
<1>4. /\ row' = [row EXCEPT ![p] = Merged(r)]
      /\ slot' = [slot EXCEPT ![p] = "allocated"]
    BY <1>2 DEF Fulfill
<1>5. /\ slot' \in [Purchase -> ServerStatus] /\ slot'[p] = "allocated"
      /\ \A q \in Purchase \ {p} : slot'[q] = slot[q]
    BY <1>4 DEF TypeOK, ServerStatus
<1>6. /\ row' \in [Purchase -> Row]
      /\ \A q \in Purchase : row'[q] = Merged(row'[q])
      /\ \A q \in Purchase \ {p} : row'[q] = row[q]
      /\ row'[p].status = r.status /\ row'[p].named = r.named /\ row'[p].sub = r.sub
      /\ row'[p].paidAt = r.paidAt /\ row'[p].delinquentAt = r.delinquentAt
      /\ row'[p].suspendedAt = r.suspendedAt
    BY <1>3, <1>4, SavedRowTyped
<1>7. QED
    BY <1>3, <1>5, <1>6 DEF Fulfill

\* Confirming a payment again: the row takes the status of Stripe and loses its debt.
LEMMA ConfirmIs ==
    ASSUME TypeOK, NEW p \in Purchase, Confirm(p)
    PROVE  /\ row[p].status \in {"paid", "completed"}
           /\ row' \in [Purchase -> Row]
           /\ \A q \in Purchase : row'[q] = Merged(row'[q])
           /\ \A q \in Purchase \ {p} : row'[q] = row[q]
           /\ row'[p].status = row[p].status /\ row'[p].sub = truth[p]
           /\ row'[p].named = row[p].named /\ row'[p].paidAt = row[p].paidAt
           /\ row'[p].delinquentAt = 0 /\ row'[p].suspendedAt = 0
           /\ trouble' \in SUBSET Trouble /\ trouble \subseteq trouble'
           /\ "visit" \in trouble'
<1>1. row[p] \in Row /\ 0 \in Day /\ now \in Day /\ truth[p] \in Subscription
    BY EnforcementConstants DEF TypeOK, Day
<1>2. PICK r : r = [row[p] EXCEPT !.sub = truth[p], !.delinquentAt = 0, !.suspendedAt = 0]
    OBVIOUS
<1>3. /\ r \in Row
      /\ r.status = row[p].status /\ r.named = row[p].named /\ r.sub = truth[p]
      /\ r.paidAt = row[p].paidAt
      /\ r.delinquentAt = 0
      /\ r.suspendedAt = 0
    BY <1>1, <1>2 DEF Row
<1>4. row' = [row EXCEPT ![p] = Merged(r)]
    BY <1>2 DEF Confirm
<1>5. /\ trouble' \in SUBSET Trouble /\ trouble \subseteq trouble'
      /\ "visit" \in trouble'
    BY TroubleTyped DEF Confirm, Befalls
<1>6. /\ row' \in [Purchase -> Row]
      /\ \A q \in Purchase : row'[q] = Merged(row'[q])
      /\ \A q \in Purchase \ {p} : row'[q] = row[q]
      /\ row'[p].status = r.status /\ row'[p].named = r.named /\ row'[p].sub = r.sub
      /\ row'[p].paidAt = r.paidAt /\ row'[p].delinquentAt = r.delinquentAt
      /\ row'[p].suspendedAt = r.suspendedAt
    BY <1>3, <1>4, SavedRowTyped
<1>7. QED
    BY <1>3, <1>5, <1>6 DEF Confirm

\* The purchase whose grace period has been over for longest is suspended.
LEMMA SuspendIs ==
    ASSUME TypeOK, Suspend
    PROVE  \E p \in ToSuspend :
        /\ row' \in [Purchase -> Row]
        /\ \A q \in Purchase : row'[q] = Merged(row'[q])
        /\ \A q \in Purchase \ {p} : row'[q] = row[q] /\ slot'[q] = slot[q]
        /\ row'[p].status = row[p].status /\ row'[p].sub = row[p].sub
        /\ row'[p].named = row[p].named /\ row'[p].paidAt = row[p].paidAt
        /\ row'[p].delinquentAt = row[p].delinquentAt
        /\ row'[p].suspendedAt = now
        /\ slot' \in [Purchase -> ServerStatus] /\ slot'[p] = "held"
        /\ trouble' \in SUBSET Trouble /\ trouble \subseteq trouble'
        /\ Cardinality(Suspended) >= WarningLimit => "crowd" \in trouble'
<1>1. PICK p : p = Earliest(ToSuspend, Delinquency)
    OBVIOUS
<1>2. p \in ToSuspend /\ p \in Purchase
    <2>1. ToSuspend \in SUBSET Purchase /\ ToSuspend # {}
        BY DEF Suspend, ToSuspend
    <2>2. Delinquency \in [Purchase -> Nat]
        BY DEF Delinquency, TypeOK, Row, Day
    <2>3. QED
        BY <1>1, <2>1, <2>2, EarliestExists
<1>3. row[p] \in Row /\ now \in Day
    BY <1>2 DEF TypeOK, Day
<1>4. PICK r : r = [row[p] EXCEPT !.suspendedAt = now]
    OBVIOUS
<1>5. /\ r \in Row
      /\ r.status = row[p].status /\ r.named = row[p].named /\ r.sub = row[p].sub
      /\ r.paidAt = row[p].paidAt
      /\ r.delinquentAt = row[p].delinquentAt
      /\ r.suspendedAt = now
    BY <1>3, <1>4 DEF Row
<1>6. /\ row' = [row EXCEPT ![p] = Merged(r)]
      /\ slot' = [slot EXCEPT ![p] = "held"]
    BY <1>1, <1>4 DEF Suspend
<1>7. /\ slot' \in [Purchase -> ServerStatus] /\ slot'[p] = "held"
      /\ \A q \in Purchase \ {p} : slot'[q] = slot[q]
    BY <1>2, <1>6 DEF TypeOK, ServerStatus
<1>8. /\ trouble' \in SUBSET Trouble /\ trouble \subseteq trouble'
      /\ Cardinality(Suspended) >= WarningLimit => "crowd" \in trouble'
    BY TroubleTyped DEF Suspend
<1>9. /\ row' \in [Purchase -> Row]
      /\ \A q \in Purchase : row'[q] = Merged(row'[q])
      /\ \A q \in Purchase \ {p} : row'[q] = row[q]
      /\ row'[p].status = r.status /\ row'[p].named = r.named /\ row'[p].sub = r.sub
      /\ row'[p].paidAt = r.paidAt /\ row'[p].delinquentAt = r.delinquentAt
      /\ row'[p].suspendedAt = r.suspendedAt
    BY <1>2, <1>5, <1>6, SavedRowTyped
<1>10. QED
    BY <1>2, <1>5, <1>7, <1>8, <1>9

\* Suspension by the admin: the clock is set and the slot is held.
LEMMA AdminSuspendIs ==
    ASSUME TypeOK, NEW p \in Purchase, AdminSuspend(p)
    PROVE  /\ row[p].status = "completed"
           /\ row' \in [Purchase -> Row]
           /\ \A q \in Purchase : row'[q] = Merged(row'[q])
           /\ \A q \in Purchase \ {p} : row'[q] = row[q] /\ slot'[q] = slot[q]
           /\ row'[p].status = row[p].status /\ row'[p].sub = row[p].sub
           /\ row'[p].delinquentAt = row[p].delinquentAt
           /\ row'[p].suspendedAt = now
           /\ slot' \in [Purchase -> ServerStatus] /\ slot'[p] = "held"
           /\ trouble' \in SUBSET Trouble /\ trouble \subseteq trouble'
           /\ "edit" \in trouble'
<1>1. row[p] \in Row /\ 0 \in Day /\ now \in Day /\ truth[p] \in Subscription
    BY EnforcementConstants DEF TypeOK, Day
<1>2. PICK r : r = [row[p] EXCEPT !.suspendedAt = now]
    OBVIOUS
<1>3. /\ r \in Row
      /\ r.status = row[p].status /\ r.named = row[p].named /\ r.sub = row[p].sub
      /\ r.paidAt = row[p].paidAt
      /\ r.delinquentAt = row[p].delinquentAt
      /\ r.suspendedAt = now
    BY <1>1, <1>2 DEF Row
<1>4. /\ row' = [row EXCEPT ![p] = Merged(r)]
      /\ slot' = [slot EXCEPT ![p] = "held"]
    BY <1>2 DEF AdminSuspend
<1>5. /\ slot' \in [Purchase -> ServerStatus] /\ slot'[p] = "held"
      /\ \A q \in Purchase \ {p} : slot'[q] = slot[q]
    BY <1>4 DEF TypeOK, ServerStatus
<1>6. /\ trouble' \in SUBSET Trouble /\ trouble \subseteq trouble'
      /\ "edit" \in trouble'
    BY TroubleTyped DEF AdminSuspend, Befalls
<1>7. /\ row' \in [Purchase -> Row]
      /\ \A q \in Purchase : row'[q] = Merged(row'[q])
      /\ \A q \in Purchase \ {p} : row'[q] = row[q]
      /\ row'[p].status = r.status /\ row'[p].named = r.named /\ row'[p].sub = r.sub
      /\ row'[p].paidAt = r.paidAt /\ row'[p].delinquentAt = r.delinquentAt
      /\ row'[p].suspendedAt = r.suspendedAt
    BY <1>3, <1>4, SavedRowTyped
<1>8. QED
    BY <1>3, <1>5, <1>6, <1>7 DEF AdminSuspend

\* Its reversal: the clocks are cleared and the slot is allocated.
LEMMA AdminReinstateIs ==
    ASSUME TypeOK, NEW p \in Purchase, AdminReinstate(p)
    PROVE  /\ row[p].status = "completed"
           /\ row' \in [Purchase -> Row]
           /\ \A q \in Purchase : row'[q] = Merged(row'[q])
           /\ \A q \in Purchase \ {p} : row'[q] = row[q] /\ slot'[q] = slot[q]
           /\ row'[p].status = row[p].status /\ row'[p].sub = row[p].sub
           /\ row'[p].delinquentAt = row[p].delinquentAt
           /\ row'[p].suspendedAt = 0
           /\ slot' \in [Purchase -> ServerStatus] /\ slot'[p] = "allocated"
           /\ trouble' \in SUBSET Trouble /\ trouble \subseteq trouble'
           /\ "edit" \in trouble'
<1>1. row[p] \in Row /\ 0 \in Day /\ now \in Day /\ truth[p] \in Subscription
    BY EnforcementConstants DEF TypeOK, Day
<1>2. PICK r : r = [row[p] EXCEPT !.suspendedAt = 0]
    OBVIOUS
<1>3. /\ r \in Row
      /\ r.status = row[p].status /\ r.named = row[p].named /\ r.sub = row[p].sub
      /\ r.paidAt = row[p].paidAt
      /\ r.delinquentAt = row[p].delinquentAt
      /\ r.suspendedAt = 0
    BY <1>1, <1>2 DEF Row
<1>4. /\ row' = [row EXCEPT ![p] = Merged(r)]
      /\ slot' = [slot EXCEPT ![p] = "allocated"]
    BY <1>2 DEF AdminReinstate
<1>5. /\ slot' \in [Purchase -> ServerStatus] /\ slot'[p] = "allocated"
      /\ \A q \in Purchase \ {p} : slot'[q] = slot[q]
    BY <1>4 DEF TypeOK, ServerStatus
<1>6. /\ trouble' \in SUBSET Trouble /\ trouble \subseteq trouble'
      /\ "edit" \in trouble'
    BY TroubleTyped DEF AdminReinstate, Befalls
<1>7. /\ row' \in [Purchase -> Row]
      /\ \A q \in Purchase : row'[q] = Merged(row'[q])
      /\ \A q \in Purchase \ {p} : row'[q] = row[q]
      /\ row'[p].status = r.status /\ row'[p].named = r.named /\ row'[p].sub = r.sub
      /\ row'[p].paidAt = r.paidAt /\ row'[p].delinquentAt = r.delinquentAt
      /\ row'[p].suspendedAt = r.suspendedAt
    BY <1>3, <1>4, SavedRowTyped
<1>8. QED
    BY <1>3, <1>5, <1>6, <1>7 DEF AdminReinstate

\* The hard flag: one row whose debt is old enough gets another risk.
LEMMA MarkHardFlagIs ==
    ASSUME TypeOK, NEW p \in Purchase, MarkHardFlag(p)
    PROVE  /\ row[p].suspendedAt > 0 /\ now >= row[p].suspendedAt + SuspensionRetention
           /\ row' \in [Purchase -> Row]
           /\ \A q \in Purchase : row'[q] = Merged(row'[q])
           /\ \A q \in Purchase \ {p} : row'[q] = row[q]
           /\ row'[p].status = row[p].status /\ row'[p].sub = row[p].sub
           /\ row'[p].named = row[p].named /\ row'[p].paidAt = row[p].paidAt
           /\ row'[p].delinquentAt = row[p].delinquentAt
           /\ row'[p].suspendedAt = row[p].suspendedAt
<1>1. row[p] \in Row /\ 0 \in Day /\ now \in Day /\ truth[p] \in Subscription
    BY EnforcementConstants DEF TypeOK, Day
<1>2. PICK r : r = [row[p] EXCEPT !.risk = "hard_flagged"]
    OBVIOUS
<1>3. /\ r \in Row
      /\ r.status = row[p].status /\ r.named = row[p].named /\ r.sub = row[p].sub
      /\ r.paidAt = row[p].paidAt
      /\ r.delinquentAt = row[p].delinquentAt
      /\ r.suspendedAt = row[p].suspendedAt
    BY <1>1, <1>2 DEF Row, CustomerRiskStatus
<1>4. row' = [row EXCEPT ![p] = Merged(r)]
    BY <1>2 DEF MarkHardFlag
<1>5. /\ row' \in [Purchase -> Row]
      /\ \A q \in Purchase : row'[q] = Merged(row'[q])
      /\ \A q \in Purchase \ {p} : row'[q] = row[q]
      /\ row'[p].status = r.status /\ row'[p].named = r.named /\ row'[p].sub = r.sub
      /\ row'[p].paidAt = r.paidAt /\ row'[p].delinquentAt = r.delinquentAt
      /\ row'[p].suspendedAt = r.suspendedAt
    BY <1>3, <1>4, SavedRowTyped
<1>6. QED
    BY <1>3, <1>5 DEF MarkHardFlag, PurgeRequired

\* The steps of the worker that record what it did.
LEMMA RemindIs ==
    ASSUME TypeOK, Remind
    PROVE  \E p \in ToRemind : reminded' = [reminded EXCEPT ![p] = TRUE]
<1>1. ToRemind \in SUBSET Purchase /\ ToRemind # {}
    BY DEF Remind, ToRemind, Stalled
<1>2. PaidAt \in [Purchase -> Nat]
    BY DEF PaidAt, TypeOK, Row, Day
<1>3. QED
    BY <1>1, <1>2, EarliestExists DEF Remind

\* An escalation marks one stalled purchase,
LEMMA EscalateIs ==
    ASSUME TypeOK, Escalate
    PROVE  \E p \in ToEscalate : escalated' = [escalated EXCEPT ![p] = TRUE]
<1>1. ToEscalate \in SUBSET Purchase /\ ToEscalate # {}
    BY DEF Escalate, ToEscalate, Stalled
<1>2. PaidAt \in [Purchase -> Nat]
    BY DEF PaidAt, TypeOK, Row, Day
<1>3. QED
    BY <1>1, <1>2, EarliestExists DEF Escalate

\* a warning one suspended service,
LEMMA WarnIs ==
    ASSUME TypeOK, Warn
    PROVE  \E p \in ToWarn : warned' = [warned EXCEPT ![p] = @ \cup {Warning(p)}]
<1>1. ToWarn \in SUBSET Purchase /\ ToWarn # {}
    BY DEF Warn, ToWarn, Candidates, Suspended
<1>2. SuspensionStart \in [Purchase -> Nat]
    BY DEF SuspensionStart, TypeOK, Row, Day
<1>3. QED
    BY <1>1, <1>2, EarliestExists DEF Warn

\* and a review one whose retention is over.
LEMMA OpenReviewIs ==
    ASSUME TypeOK, OpenReview
    PROVE  \E p \in ToReview : reviewed' = [reviewed EXCEPT ![p] = now]
<1>1. ToReview \in SUBSET Purchase /\ ToReview # {}
    BY DEF OpenReview, ToReview, Suspended
<1>2. SuspensionStart \in [Purchase -> Nat]
    BY DEF SuspensionStart, TypeOK, Row, Day
<1>3. QED
    BY <1>1, <1>2, EarliestExists DEF OpenReview

\* The widest window is a bound of the others.
LEMMA WidestIs ==
    Max(WarningWindow) \in WarningWindow /\ \A w \in WarningWindow : w <= Max(WarningWindow)
<1>1. WarningWindow \in SUBSET Nat
    BY WindowsAre
<1>2. IsFiniteSet(1 .. SuspensionRetention - 1)
    BY EnforcementConstants, FS_Interval
<1>3. IsFiniteSet(WarningWindow)
    BY <1>2, EnforcementConstants, FS_Subset
<1>4. QED
    BY <1>1, <1>3, EnforcementConstants, MaxIsGreatest

\* A payment makes a new row and a subscription that owes nothing.
LEMMA PayIs ==
    ASSUME TypeOK, NEW p \in Purchase, Pay(p)
    PROVE  /\ row[p].status = "none"
           /\ row' \in [Purchase -> Row]
           /\ \A q \in Purchase : row'[q] = Merged(row'[q])
           /\ \A q \in Purchase \ {p} : /\ row'[q] = row[q] /\ slot'[q] = slot[q]
                                        /\ truth'[q] = truth[q]
           /\ row'[p].status = "paid" /\ row'[p].sub = "active" /\ row'[p].paidAt = now
           /\ row'[p].delinquentAt = 0 /\ row'[p].suspendedAt = 0
           /\ slot' \in [Purchase -> ServerStatus] /\ slot'[p] = "held"
           /\ truth' \in [Purchase -> Subscription] /\ truth'[p] = "active"
<1>1. PICK r : r = [NoRow EXCEPT !.status = "paid", !.sub = "active", !.paidAt = now]
    OBVIOUS
<1>2. now \in Day
    BY DEF TypeOK, Day
<1>3. /\ r \in Row
      /\ r.status = "paid" /\ r.sub = "active" /\ r.paidAt = now
      /\ r.delinquentAt = 0 /\ r.suspendedAt = 0 /\ r.risk = "clear"
    BY <1>1, <1>2, NoRowIsMerged DEF Row, NoRow, Subscription, PurchaseStatus
<1>4. Merged(r) = r
    BY <1>3 DEF Merged, DeriveRisk, Row
<1>5. /\ row' = [row EXCEPT ![p] = Merged(r)]
      /\ slot' = [slot EXCEPT ![p] = "held"]
      /\ truth' = [truth EXCEPT ![p] = "active"]
    BY <1>1, <1>4 DEF Pay
<1>6. /\ row' \in [Purchase -> Row]
      /\ \A q \in Purchase : row'[q] = Merged(row'[q])
      /\ \A q \in Purchase \ {p} : row'[q] = row[q]
      /\ row'[p] = r
    BY <1>3, <1>4, <1>5, SavedRowTyped
<1>7. /\ slot' \in [Purchase -> ServerStatus] /\ slot'[p] = "held"
      /\ truth' \in [Purchase -> Subscription] /\ truth'[p] = "active"
      /\ \A q \in Purchase \ {p} : slot'[q] = slot[q] /\ truth'[q] = truth[q]
    BY <1>5 DEF TypeOK, ServerStatus, Subscription
<1>8. QED
    BY <1>3, <1>6, <1>7 DEF Pay

\* A new day comes when the worker has caught up, or there is an outage.
LEMMA NewDayIs ==
    ASSUME TypeOK, NewDay
    PROVE  /\ now' = now + 1 /\ now' \in 1 .. LastDay
           /\ trouble' \in SUBSET Trouble /\ trouble \subseteq trouble'
           /\ "outage" \notin trouble' => CaughtUp /\ \A p \in Purchase : mail[p] = <<>>
<1>1. Causes(IF CaughtUp /\ \A p \in Purchase : mail[p] = <<>> THEN {} ELSE {"outage"})
    BY DEF NewDay
<1>2. /\ trouble' \in SUBSET Trouble /\ trouble \subseteq trouble'
      /\ "outage" \notin trouble' => CaughtUp /\ \A p \in Purchase : mail[p] = <<>>
    BY <1>1, TroubleTyped
<1>3. QED
    BY <1>2, EnforcementConstants DEF NewDay, TypeOK

\* What Stripe sends with each of its changes.
LEMMA MailIs ==
    /\ <<Event("invoice_failed", "none"), Event("changed", "past_due")>> \in Seq(Events)
    /\ <<Event("invoice_failed", "none")>> \in Seq(Events)
    /\ <<Event("invoice_paid", "none"), Event("changed", "active")>> \in Seq(Events)
    /\ <<Event("changed", "canceled")>> \in Seq(Events)
    /\ <<Event("changed", "unpaid")>> \in Seq(Events)
BY EventIs DEF Subscription

\* The types after each of Stripe's changes, and what was sent.
LEMMA StripeIs ==
    ASSUME TypeOK, NEW p \in Purchase, StripeStep(p)
    PROVE  \E new \in Seq(Events), kinds \in {{}, {"retry"}, {"unpaid"}} :
        /\ new # <<>> /\ Sends(p, new, kinds)
        /\ truth' \in [Purchase -> Subscription] /\ unpaidSince' \in [Purchase -> Day]
        /\ \A q \in Purchase \ {p} : truth'[q] = truth[q] /\ unpaidSince'[q] = unpaidSince[q]
<1>1. now \in Day /\ 0 \in Day
    BY EnforcementConstants DEF TypeOK, Day
<1>2. CASE RenewalFails(p)
    <2>1. /\ truth' \in [Purchase -> Subscription] /\ unpaidSince' \in [Purchase -> Day]
          /\ \A q \in Purchase \ {p} :
                truth'[q] = truth[q] /\ unpaidSince'[q] = unpaidSince[q]
        BY <1>1, <1>2 DEF RenewalFails, TypeOK, Subscription
    <2>2. Sends(p, <<Event("invoice_failed", "none"), Event("changed", "past_due")>>, {})
        BY <1>2 DEF RenewalFails
    <2>3. QED
        BY <2>1, <2>2, MailIs
<1>3. CASE RetryFails(p)
    BY <1>1, <1>3, MailIs DEF RetryFails, TypeOK, Subscription
<1>4. CASE RenewalSucceeds(p)
    <2>1. /\ truth' \in [Purchase -> Subscription] /\ unpaidSince' \in [Purchase -> Day]
          /\ \A q \in Purchase \ {p} :
                truth'[q] = truth[q] /\ unpaidSince'[q] = unpaidSince[q]
        BY <1>1, <1>4 DEF RenewalSucceeds, TypeOK, Subscription
    <2>2. Sends(p, <<Event("invoice_paid", "none"), Event("changed", "active")>>, {})
        BY <1>4 DEF RenewalSucceeds
    <2>3. QED
        BY <2>1, <2>2, MailIs
<1>5. CASE Ends(p)
    <2>1. /\ truth' \in [Purchase -> Subscription] /\ unpaidSince' \in [Purchase -> Day]
          /\ \A q \in Purchase \ {p} :
                truth'[q] = truth[q] /\ unpaidSince'[q] = unpaidSince[q]
        BY <1>1, <1>5 DEF Ends, TypeOK, Subscription
    <2>2. Sends(p, <<Event("changed", "canceled")>>, {})
        BY <1>5 DEF Ends
    <2>3. QED
        BY <2>1, <2>2, MailIs
<1>6. CASE TurnsUnpaid(p)
    BY <1>1, <1>6, MailIs DEF TurnsUnpaid, TypeOK, Subscription
<1>7. QED
    BY <1>2, <1>3, <1>4, <1>5, <1>6 DEF StripeStep

\* Every step of the lane, of the handlers and of Stripe keeps the types.
THEOREM TypeKept ==
    ASSUME TypeOK, [Next]_vars
    PROVE  TypeOK'
<1> USE DEF recordVars, stripeVars
<1>1. ASSUME NEW p \in Purchase, Pay(p) PROVE TypeOK'
    BY <1>1, PayIs DEF Pay, TypeOK
<1>2. ASSUME NEW p \in Purchase, SubmitSetup(p) PROVE TypeOK'
    BY <1>2, SubmitSetupIs DEF SubmitSetup, TypeOK
<1>3. ASSUME NEW p \in Purchase, Fulfill(p) PROVE TypeOK'
    BY <1>3, FulfillIs DEF Fulfill, TypeOK
<1>4. ASSUME NEW p \in Purchase, Confirm(p) PROVE TypeOK'
    BY <1>4, ConfirmIs DEF Confirm, TypeOK
<1>5. ASSUME NEW p \in Purchase, StripeStep(p) PROVE TypeOK'
    BY <1>5, StripeIs, SendsIs DEF TypeOK
<1>6. ASSUME NEW p \in Purchase, NEW lost \in BOOLEAN, Handle(p, lost) PROVE TypeOK'
    <2>1. Head(mail[p]) \in Events /\ Sync(p, Head(mail[p]))
        BY <1>6, HandleIs DEF Handle
    <2>2. /\ row' \in [Purchase -> Row] /\ slot' \in [Purchase -> ServerStatus]
          /\ \A q \in Purchase : row'[q] = Merged(row'[q])
        BY <2>1, SyncIs
    <2>3. QED
        BY <1>6, <2>2, HandleIs DEF TypeOK
<1>7. ASSUME NEW p \in Purchase, NEW event \in late[p], HandleAgain(p, event) PROVE TypeOK'
    <2>1. event \in Events /\ Sync(p, event)
        BY <1>7 DEF HandleAgain, TypeOK
    <2>2. /\ row' \in [Purchase -> Row] /\ slot' \in [Purchase -> ServerStatus]
          /\ \A q \in Purchase : row'[q] = Merged(row'[q])
        BY <2>1, SyncIs
    <2>3. late' \in [Purchase -> SUBSET Events]
        BY <1>7 DEF HandleAgain, TypeOK
    <2>4. QED
        BY <1>7, <2>2, <2>3 DEF HandleAgain, TypeOK
<1>8. ASSUME NEW p \in Purchase, AdminSuspend(p) PROVE TypeOK'
    BY <1>8, AdminSuspendIs DEF AdminSuspend, TypeOK
<1>9. ASSUME NEW p \in Purchase, AdminReinstate(p) PROVE TypeOK'
    BY <1>9, AdminReinstateIs DEF AdminReinstate, TypeOK
<1>10. ASSUME NEW p \in Purchase, MarkHardFlag(p) PROVE TypeOK'
    BY <1>10, MarkHardFlagIs DEF MarkHardFlag, TypeOK
<1>11. CASE Remind
    BY <1>11, RemindIs DEF Remind, TypeOK
<1>12. CASE Escalate
    BY <1>12, EscalateIs DEF Escalate, TypeOK
<1>13. CASE Warn
    <2>1. PICK p \in ToWarn : warned' = [warned EXCEPT ![p] = @ \cup {Warning(p)}]
        BY <1>13, WarnIs
    <2>2. p \in Purchase /\ row[p] \in Row /\ now \in Nat
        BY <2>1 DEF ToWarn, Candidates, Suspended, TypeOK
    <2>3. Warning(p) \in WarningWindow
        <3>1. Age(row[p].suspendedAt) >= SuspensionRetention - Max(WarningWindow)
            BY <2>1 DEF ToWarn, Candidates
        <3>2. row[p].suspendedAt + SuspensionRetention - now <= Max(WarningWindow)
            <4>1. PICK m \in Nat : m = Max(WarningWindow)
                BY WidestIs, WindowsAre
            <4>2. PICK s \in Nat : s = row[p].suspendedAt
                BY <2>2 DEF Row, Day
            <4>3. now - s >= SuspensionRetention - m
                BY <3>1, <4>1, <4>2 DEF Age
            <4>4. s + SuspensionRetention - now <= m
                BY <2>2, <4>3, EnforcementConstants
            <4>5. QED
                BY <4>1, <4>2, <4>4
        <3>3. QED
            BY <2>2, <3>2, WidestIs, WarningIs
    <2>4. warned' \in [Purchase -> SUBSET WarningWindow]
        BY <2>1, <2>3 DEF TypeOK
    <2>5. QED
        BY <1>13, <2>4 DEF Warn, TypeOK
<1>14. CASE OpenReview
    <2>1. now \in Day
        BY DEF TypeOK, Day
    <2>2. reviewed' \in [Purchase -> Day]
        BY <1>14, <2>1, OpenReviewIs DEF TypeOK
    <2>3. QED
        BY <1>14, <2>2 DEF OpenReview, TypeOK
<1>15. CASE Suspend
    BY <1>15, SuspendIs DEF Suspend, TypeOK
<1>16. CASE NewDay
    BY <1>16, NewDayIs DEF NewDay, TypeOK
<1>17. CASE UNCHANGED vars
    BY <1>17 DEF vars, TypeOK
<1>18. QED
    BY <1>1, <1>2, <1>3, <1>4, <1>5, <1>6, <1>7, <1>8, <1>9, <1>10, <1>11, <1>12, <1>13,
       <1>14, <1>15, <1>16, <1>17 DEF Next, CustomerStep, AdminStep, WorkerStep

(***************************************************************************)
(* What a step does to the queues and the clocks                           *)
(***************************************************************************)

\* Nothing moves but what the worker records, a name or a risk.
Records ==
    \/ \E p \in Purchase : SubmitSetup(p) \/ MarkHardFlag(p)
    \/ Remind \/ Escalate \/ Warn \/ OpenReview
    \/ UNCHANGED vars

\* Steps that only write what the worker has done.
LEMMA RecordsAre ==
    ASSUME TypeOK, Records
    PROVE  /\ UNCHANGED <<now, slot, stripeVars, trouble>>
           /\ \A p \in Purchase :
                /\ row'[p].status = row[p].status /\ row'[p].sub = row[p].sub
                /\ row'[p].paidAt = row[p].paidAt
                /\ row'[p].delinquentAt = row[p].delinquentAt
                /\ row'[p].suspendedAt = row[p].suspendedAt
<1>1. ASSUME NEW p \in Purchase, SubmitSetup(p)
      PROVE  /\ UNCHANGED <<now, slot, stripeVars, trouble>>
             /\ \A q \in Purchase :
                    /\ row'[q].status = row[q].status /\ row'[q].sub = row[q].sub
                    /\ row'[q].paidAt = row[q].paidAt
                    /\ row'[q].delinquentAt = row[q].delinquentAt
                    /\ row'[q].suspendedAt = row[q].suspendedAt
    <2>1. UNCHANGED <<now, slot, stripeVars, trouble>>
        BY <1>1 DEF SubmitSetup, stripeVars
    <2>2. QED
        BY <1>1, <2>1, SubmitSetupIs
<1>2. ASSUME NEW p \in Purchase, MarkHardFlag(p)
      PROVE  /\ UNCHANGED <<now, slot, stripeVars, trouble>>
             /\ \A q \in Purchase :
                    /\ row'[q].status = row[q].status /\ row'[q].sub = row[q].sub
                    /\ row'[q].paidAt = row[q].paidAt
                    /\ row'[q].delinquentAt = row[q].delinquentAt
                    /\ row'[q].suspendedAt = row[q].suspendedAt
    <2>1. UNCHANGED <<now, slot, stripeVars, trouble>>
        BY <1>2 DEF MarkHardFlag, stripeVars
    <2>2. QED
        BY <1>2, <2>1, MarkHardFlagIs
<1>3. CASE Remind \/ Escalate \/ Warn \/ OpenReview \/ UNCHANGED vars
    <2>1. UNCHANGED <<now, row, slot, stripeVars, trouble>>
        BY <1>3 DEF Remind, Escalate, Warn, OpenReview, vars, recordVars, stripeVars
    <2>2. QED
        BY <2>1
<1>4. QED
    BY <1>1, <1>2, <1>3 DEF Records

\* Every step is one of these.
LEMMA Steps ==
    ASSUME [Next]_vars
    PROVE  \/ Records \/ Suspend \/ NewDay
           \/ \E p \in Purchase :
                \/ Pay(p) \/ Fulfill(p) \/ Confirm(p) \/ StripeStep(p)
                \/ \E lost \in BOOLEAN : Handle(p, lost)
                \/ \E event \in late[p] : HandleAgain(p, event)
                \/ AdminSuspend(p) \/ AdminReinstate(p)
BY DEF Next, CustomerStep, AdminStep, WorkerStep, Records

\* No step forgets a trouble,
LEMMA TroubleStays ==
    ASSUME TypeOK, [Next]_vars
    PROVE  trouble \subseteq trouble'
<1>1. CASE Records
    BY <1>1, RecordsAre
<1>2. CASE Suspend
    BY <1>2, SuspendIs
<1>3. CASE NewDay
    BY <1>3, NewDayIs
<1>4. ASSUME NEW p \in Purchase,
             \/ Pay(p) \/ Fulfill(p) \/ Confirm(p) \/ StripeStep(p)
             \/ \E lost \in BOOLEAN : Handle(p, lost)
             \/ \E event \in late[p] : HandleAgain(p, event)
             \/ AdminSuspend(p) \/ AdminReinstate(p)
      PROVE  trouble \subseteq trouble'
    <2>1. CASE Pay(p) \/ Fulfill(p) \/ \E event \in late[p] : HandleAgain(p, event)
        BY <2>1 DEF Pay, Fulfill, HandleAgain
    <2>2. CASE Confirm(p)
        BY <1>4, <2>2, ConfirmIs
    <2>3. CASE StripeStep(p)
        BY <1>4, <2>3, StripeIs, SendsIs
    <2>4. CASE \E lost \in BOOLEAN : Handle(p, lost)
        BY <1>4, <2>4, HandleIs
    <2>5. CASE AdminSuspend(p)
        BY <1>4, <2>5, AdminSuspendIs
    <2>6. CASE AdminReinstate(p)
        BY <1>4, <2>6, AdminReinstateIs
    <2>7. QED
        BY <1>4, <2>1, <2>2, <2>3, <2>4, <2>5, <2>6
<1>5. QED
    BY <1>1, <1>2, <1>3, <1>4, Steps

\* so what there has been no trouble of, there was none of before.
LEMMA NoTroubleBefore ==
    ASSUME TypeOK, [Next]_vars, NEW kinds, NoTroubleOf(kinds)'
    PROVE  NoTroubleOf(kinds)
BY TroubleStays DEF NoTroubleOf

\* One or two events are added, and the others stay.
LEMMA SentOne ==
    ASSUME TypeOK, NEW p \in Purchase, NEW e \in Events, mail'[p] = mail[p] \o <<e>>
    PROVE  /\ mail'[p] # <<>> /\ (Waiting(p))' = Waiting(p) \cup {e} /\ (Newest(p))' = e
<1>1. <<e>> \in Seq(Events) /\ <<e>> # <<>> /\ Len(<<e>>) = 1 /\ <<e>>[1] = e
    OBVIOUS
<1>2. mail[p] \in Seq(Events)
    BY DEF TypeOK
<1>3. {<<e>>[i] : i \in 1 .. 1} = {e}
    OBVIOUS
<1>4. PICK new \in Seq(Events) : new = <<e>>
    BY <1>1
<1>5. /\ mail'[p] # <<>>
      /\ (Waiting(p))' = Waiting(p) \cup {new[i] : i \in 1 .. Len(new)}
      /\ (Newest(p))' = new[Len(new)]
    BY <1>1, <1>2, <1>4, Sent
<1>6. QED
    BY <1>1, <1>3, <1>4, <1>5

\* Two events are added, and the others stay.
LEMMA SentTwo ==
    ASSUME TypeOK, NEW p \in Purchase, NEW d \in Events, NEW e \in Events,
           mail'[p] = mail[p] \o <<d, e>>
    PROVE  /\ mail'[p] # <<>> /\ (Waiting(p))' = Waiting(p) \cup {d, e}
           /\ (Newest(p))' = e
<1>1. /\ <<d, e>> \in Seq(Events) /\ <<d, e>> # <<>> /\ Len(<<d, e>>) = 2
      /\ <<d, e>>[1] = d /\ <<d, e>>[2] = e
    OBVIOUS
<1>2. mail[p] \in Seq(Events)
    BY DEF TypeOK
<1>3. {<<d, e>>[i] : i \in 1 .. 2} = {d, e}
    <2>1. 1 .. 2 = {1, 2}
        OBVIOUS
    <2>2. QED
        BY <1>1, <2>1
<1>4. PICK new \in Seq(Events) : new = <<d, e>>
    BY <1>1
<1>5. /\ mail'[p] # <<>>
      /\ (Waiting(p))' = Waiting(p) \cup {new[i] : i \in 1 .. Len(new)}
      /\ (Newest(p))' = new[Len(new)]
    BY <1>1, <1>2, <1>4, Sent
<1>6. QED
    BY <1>1, <1>3, <1>4, <1>5

\* Stripe's changes, seen from the purchase.
Fails(p) ==
    /\ truth[p] = "active" /\ truth'[p] = "past_due" /\ unpaidSince'[p] = now
    /\ (Waiting(p))' = Waiting(p) \cup {Event("invoice_failed", "none"),
                                        Event("changed", "past_due")}
    /\ (Newest(p))' = Event("changed", "past_due")

FailsAgain(p) ==
    /\ truth[p] = "past_due" /\ truth'[p] = truth[p] /\ unpaidSince'[p] = unpaidSince[p]
    /\ "retry" \in trouble'
    /\ (Waiting(p))' = Waiting(p) \cup {Event("invoice_failed", "none")}
    /\ (Newest(p))' = Event("invoice_failed", "none")

Succeeds(p) ==
    /\ truth[p] \in {"past_due", "unpaid"} /\ truth'[p] = "active" /\ unpaidSince'[p] = 0
    /\ (Waiting(p))' = Waiting(p) \cup {Event("invoice_paid", "none"),
                                        Event("changed", "active")}
    /\ (Newest(p))' = Event("changed", "active")

Stops(p) ==
    /\ truth[p] \in {"active", "past_due", "unpaid"}
    /\ truth'[p] = "canceled" /\ unpaidSince'[p] = 0
    /\ (Waiting(p))' = Waiting(p) \cup {Event("changed", "canceled")}
    /\ (Newest(p))' = Event("changed", "canceled")

GivesUp(p) ==
    /\ truth[p] = "past_due" /\ truth'[p] = "unpaid" /\ unpaidSince'[p] = unpaidSince[p]
    /\ "unpaid" \in trouble'
    /\ (Waiting(p))' = Waiting(p) \cup {Event("changed", "unpaid")}
    /\ (Newest(p))' = Event("changed", "unpaid")

\* What Stripe does to one purchase is one of five changes; it sends events about no
\* other.
LEMMA StripeSends ==
    ASSUME TypeOK, NEW p \in Purchase, StripeStep(p)
    PROVE  /\ Fails(p) \/ FailsAgain(p) \/ Succeeds(p) \/ Stops(p) \/ GivesUp(p)
           /\ mail'[p] # <<>>
           /\ mail[p] # <<>> => "lag" \in trouble'
           /\ \A q \in Purchase \ {p} :
                mail'[q] = mail[q] /\ truth'[q] = truth[q] /\ unpaidSince'[q] = unpaidSince[q]
           /\ UNCHANGED <<now, row, slot, recordVars, late>>
<1>1. PICK new \in Seq(Events), kinds \in {{}, {"retry"}, {"unpaid"}} :
        /\ new # <<>> /\ Sends(p, new, kinds)
        /\ truth' \in [Purchase -> Subscription] /\ unpaidSince' \in [Purchase -> Day]
        /\ \A q \in Purchase \ {p} : truth'[q] = truth[q] /\ unpaidSince'[q] = unpaidSince[q]
    BY StripeIs
<1>2. /\ \A q \in Purchase \ {p} : mail'[q] = mail[q]
      /\ mail[p] # <<>> => "lag" \in trouble'
      /\ UNCHANGED <<now, row, slot, recordVars, late>>
    <2>1. Sends(p, new, kinds)
        BY <1>1
    <2>2. UNCHANGED <<now, row, slot, recordVars, late>>
        BY <2>1 DEF Sends
    <2>3. \A q \in Purchase \ {p} : mail'[q] = mail[q]
        BY <2>1 DEF Sends, TypeOK
    <2>4. mail[p] # <<>> => "lag" \in trouble'
        BY <2>1 DEF Sends, Befalls, Causes
    <2>5. QED
        BY <2>2, <2>3, <2>4
<1>3. /\ Event("invoice_failed", "none") \in Events /\ Event("invoice_paid", "none") \in Events
      /\ Event("changed", "past_due") \in Events /\ Event("changed", "active") \in Events
      /\ Event("changed", "canceled") \in Events /\ Event("changed", "unpaid") \in Events
    BY EventIs DEF Subscription
<1>4. CASE RenewalFails(p)
    <2>1. /\ truth[p] = "active" /\ truth'[p] = "past_due" /\ unpaidSince'[p] = now
          /\ Sends(p, <<Event("invoice_failed", "none"), Event("changed", "past_due")>>, {})
        BY <1>4 DEF RenewalFails, TypeOK
    <2>2. mail'[p] = mail[p] \o <<Event("invoice_failed", "none"), Event("changed", "past_due")>>
        BY <2>1 DEF Sends, TypeOK
    <2>3. QED
        BY <1>1, <1>2, <1>3, <2>1, <2>2, SentTwo DEF Fails
<1>5. CASE RetryFails(p)
    <2>1. /\ truth[p] = "past_due" /\ truth'[p] = truth[p] /\ unpaidSince'[p] = unpaidSince[p]
          /\ Sends(p, <<Event("invoice_failed", "none")>>, {"retry"})
        BY <1>5 DEF RetryFails
    <2>2. mail'[p] = mail[p] \o <<Event("invoice_failed", "none")>>
        BY <2>1 DEF Sends, TypeOK
    <2>3. "retry" \in trouble'
        BY <2>1 DEF Sends, Befalls, Causes
    <2>4. QED
        BY <1>1, <1>2, <1>3, <2>1, <2>2, <2>3, SentOne DEF FailsAgain
<1>6. CASE RenewalSucceeds(p)
    <2>1. /\ truth[p] \in {"past_due", "unpaid"}
          /\ truth'[p] = "active" /\ unpaidSince'[p] = 0
          /\ Sends(p, <<Event("invoice_paid", "none"), Event("changed", "active")>>, {})
        BY <1>6 DEF RenewalSucceeds, TypeOK
    <2>2. mail'[p] = mail[p] \o <<Event("invoice_paid", "none"), Event("changed", "active")>>
        BY <2>1 DEF Sends, TypeOK
    <2>3. QED
        BY <1>1, <1>2, <1>3, <2>1, <2>2, SentTwo DEF Succeeds
<1>7. CASE Ends(p)
    <2>1. /\ truth[p] \in {"active", "past_due", "unpaid"}
          /\ truth'[p] = "canceled" /\ unpaidSince'[p] = 0
          /\ Sends(p, <<Event("changed", "canceled")>>, {})
        BY <1>7 DEF Ends, TypeOK
    <2>2. mail'[p] = mail[p] \o <<Event("changed", "canceled")>>
        BY <2>1 DEF Sends, TypeOK
    <2>3. QED
        BY <1>1, <1>2, <1>3, <2>1, <2>2, SentOne DEF Stops
<1>8. CASE TurnsUnpaid(p)
    <2>1. /\ truth[p] = "past_due" /\ truth'[p] = "unpaid"
          /\ unpaidSince'[p] = unpaidSince[p]
          /\ Sends(p, <<Event("changed", "unpaid")>>, {"unpaid"})
        BY <1>8 DEF TurnsUnpaid, TypeOK
    <2>2. mail'[p] = mail[p] \o <<Event("changed", "unpaid")>>
        BY <2>1 DEF Sends, TypeOK
    <2>3. "unpaid" \in trouble'
        BY <2>1 DEF Sends, Befalls, Causes
    <2>4. QED
        BY <1>1, <1>2, <1>3, <2>1, <2>2, <2>3, SentOne DEF GivesUp
<1>9. QED
    BY <1>4, <1>5, <1>6, <1>7, <1>8 DEF StripeStep

\* An event is handled: what is left of the queue.
LEMMA HandledIs ==
    ASSUME TypeOK, NEW p \in Purchase, NEW lost \in BOOLEAN, Handle(p, lost)
    PROVE  \E event \in Events :
        /\ Sync(p, event)
        /\ mail[p] # <<>>
        /\ Waiting(p) = (Waiting(p))' \cup {event}
        /\ mail'[p] = <<>> => Newest(p) = event
        /\ mail'[p] # <<>> => (Newest(p))' = Newest(p)
        /\ late'[p] = IF lost THEN late[p] \cup {event} ELSE late[p]
        /\ \A q \in Purchase \ {p} : mail'[q] = mail[q] /\ late'[q] = late[q]
        /\ lost => "repeat" \in trouble'
        /\ UNCHANGED <<now, recordVars, truth, unpaidSince>>
<1>1. /\ mail[p] # <<>> /\ mail[p] \in Seq(Events) /\ mail'[p] = Tail(mail[p])
      /\ Head(mail[p]) \in Events /\ Sync(p, Head(mail[p]))
    BY HandleIs DEF Handle, TypeOK
<1>2. /\ Waiting(p) = (Waiting(p))' \cup {Head(mail[p])}
      /\ mail'[p] = <<>> => Newest(p) = Head(mail[p])
      /\ mail'[p] # <<>> => (Newest(p))' = Newest(p)
    BY <1>1, Taken
<1>3. QED
    BY <1>1, <1>2, HandleIs

\* The queues of the other purchases stay as they are.
LEMMA SameQueue ==
    ASSUME NEW q \in Purchase, mail'[q] = mail[q]
    PROVE  (Waiting(q))' = Waiting(q) /\ (Newest(q))' = Newest(q)
BY DEF Waiting, Newest

\* An event that waits is one of Stripe's, and so is the newest.
LEMMA QueueTyped ==
    ASSUME TypeOK, NEW p \in Purchase
    PROVE  /\ Waiting(p) \subseteq Events
           /\ mail[p] = <<>> => Waiting(p) = {}
           /\ mail[p] # <<>> => Newest(p) \in Waiting(p)
<1>1. mail[p] \in Seq(Events)
    BY DEF TypeOK
<1>2. Waiting(p) \subseteq Events
    BY <1>1, ElementOfSeq DEF Waiting
<1>3. ASSUME mail[p] = <<>> PROVE Waiting(p) = {}
    <2>1. Len(mail[p]) = 0
        <3>1. Len(<<>>) = 0
            BY EmptySeq, Zenon
        <3>2. QED
            BY <1>3, <3>1, Zenon
    <2>2. QED
        BY <2>1 DEF Waiting
<1>4. ASSUME mail[p] # <<>> PROVE Newest(p) \in Waiting(p)
    <2>1. Len(mail[p]) \in Nat \ {0}
        BY <1>1, <1>4, EmptySeq
    <2>2. QED
        BY <2>1 DEF Waiting, Newest
<1>5. QED
    BY <1>2, <1>3, <1>4

\* Stamps and days are numbers.
LEMMA NumbersAre ==
    ASSUME TypeOK
    PROVE  /\ now \in Nat \ {0}
           /\ \A p \in Purchase :
                /\ row[p].paidAt \in Nat /\ row[p].delinquentAt \in Nat
                /\ row[p].suspendedAt \in Nat /\ unpaidSince[p] \in Nat
                /\ reviewed[p] \in Nat
BY DEF TypeOK, Row, Day

(***************************************************************************)
(* The parts of the invariant                                              *)
(***************************************************************************)

\* Every step keeps Basics,
LEMMA BasicsKept ==
    ASSUME TypeOK, Basics, [Next]_vars
    PROVE  Basics'
<1> DEFINE Basic(q) ==
        /\ row[q].status = "none" => truth[q] = "none" /\ mail[q] = <<>> /\ late[q] = {}
        /\ unpaidSince[q] <= now
        /\ truth[q] \in {"past_due", "unpaid"} <=> unpaidSince[q] > 0
        /\ row[q].suspendedAt > 0 => row[q].status = "completed"
        /\ late[q] # {} => "repeat" \in trouble
<1>1. SUFFICES ASSUME NEW q \in Purchase PROVE Basic(q)'
    BY DEF Basics
<1>2. /\ row[q].status = "none" => truth[q] = "none" /\ mail[q] = <<>> /\ late[q] = {}
      /\ unpaidSince[q] <= now
      /\ truth[q] \in {"past_due", "unpaid"} <=> unpaidSince[q] > 0
      /\ row[q].suspendedAt > 0 => row[q].status = "completed"
      /\ late[q] # {} => "repeat" \in trouble
    BY <1>1 DEF Basics
<1>3. /\ now \in Nat \ {0} /\ row[q].suspendedAt \in Nat /\ unpaidSince[q] \in Nat
      /\ trouble \subseteq trouble'
    BY <1>1, NumbersAre, TroubleStays
<1>4. CASE Records
    BY <1>1, <1>2, <1>4, RecordsAre DEF stripeVars
<1>5. CASE Suspend
    <2>1. PICK p \in ToSuspend :
            /\ row'[p].status = row[p].status /\ row'[p].suspendedAt = now
            /\ \A r \in Purchase \ {p} : row'[r] = row[r]
        BY <1>5, SuspendIs
    <2>2. row[p].status = "completed"
        BY <2>1 DEF ToSuspend
    <2>3. UNCHANGED <<now, stripeVars>>
        BY <1>5 DEF Suspend
    <2>4. QED
        BY <1>1, <1>2, <1>3, <2>1, <2>2, <2>3 DEF stripeVars
<1>6. CASE NewDay
    <2>1. UNCHANGED <<row, stripeVars>> /\ now' = now + 1
        BY <1>6 DEF NewDay
    <2>2. QED
        BY <1>2, <1>3, <2>1 DEF stripeVars
<1>7. ASSUME NEW p \in Purchase, Pay(p) PROVE Basic(q)'
    <2>1. UNCHANGED <<now, unpaidSince, mail, late>>
        BY <1>7 DEF Pay
    <2>2. row[p].status = "none" /\ unpaidSince[p] = 0
        <3>1. row[p].status = "none"
            BY <1>7 DEF Pay
        <3>2. truth[p] = "none"
            BY <1>7, <3>1 DEF Basics
        <3>3. ~(unpaidSince[p] > 0) /\ unpaidSince[p] \in Nat
            BY <1>7, <3>2, NumbersAre DEF Basics
        <3>4. QED
            BY <3>1, <3>3
    <2>3. QED
        BY <1>1, <1>2, <1>3, <1>7, <2>1, <2>2, PayIs
<1>8. ASSUME NEW p \in Purchase, Fulfill(p) PROVE Basic(q)'
    <2>1. UNCHANGED <<now, stripeVars>>
        BY <1>8 DEF Fulfill
    <2>2. QED
        BY <1>1, <1>2, <1>3, <1>8, <2>1, FulfillIs DEF stripeVars
<1>9. ASSUME NEW p \in Purchase, Confirm(p) PROVE Basic(q)'
    <2>1. UNCHANGED <<now, stripeVars>>
        BY <1>9 DEF Confirm
    <2>2. QED
        BY <1>1, <1>2, <1>3, <1>9, <2>1, ConfirmIs DEF stripeVars
<1>10. ASSUME NEW p \in Purchase, StripeStep(p) PROVE Basic(q)'
    <2>1. /\ Fails(p) \/ FailsAgain(p) \/ Succeeds(p) \/ Stops(p) \/ GivesUp(p)
          /\ \A r \in Purchase \ {p} :
                mail'[r] = mail[r] /\ truth'[r] = truth[r] /\ unpaidSince'[r] = unpaidSince[r]
          /\ UNCHANGED <<now, row, late>>
        BY <1>10, StripeSends
    <2>2. CASE q # p
        BY <1>1, <1>2, <1>3, <2>1, <2>2
    <2>3. CASE q = p
        BY <1>2, <1>3, <2>1, <2>3 DEF Fails, FailsAgain, Succeeds, Stops, GivesUp
    <2>4. QED
        BY <2>2, <2>3
<1>11. ASSUME NEW p \in Purchase, NEW lost \in BOOLEAN, Handle(p, lost) PROVE Basic(q)'
    <2>1. PICK event \in Events :
            /\ Sync(p, event) /\ mail[p] # <<>>
            /\ late'[p] = IF lost THEN late[p] \cup {event} ELSE late[p]
            /\ \A r \in Purchase \ {p} : mail'[r] = mail[r] /\ late'[r] = late[r]
            /\ lost => "repeat" \in trouble'
            /\ UNCHANGED <<now, truth, unpaidSince>>
        BY <1>11, HandledIs
    <2>2. PICK sub \in Subscription :
            /\ \A r \in Purchase \ {p} : row'[r] = row[r]
            /\ row'[p].status = IF sub \in TerminalSubscription /\ row[p].status = "paid"
                                THEN "cancelled" ELSE row[p].status
            /\ row'[p].suspendedAt = SuspendedAt(row[p], event.kind, sub)
        BY <1>11, <2>1, SyncIs
    <2>3. row'[p].suspendedAt \in {0, row[p].suspendedAt}
        BY <2>2 DEF SuspendedAt
    <2>4. CASE q # p
        BY <1>1, <1>2, <1>3, <2>1, <2>2, <2>4
    <2>5. CASE q = p
        BY <1>2, <1>3, <2>1, <2>2, <2>3, <2>5
    <2>6. QED
        BY <2>4, <2>5
<1>12. ASSUME NEW p \in Purchase, NEW event \in late[p], HandleAgain(p, event)
       PROVE  Basic(q)'
    <2>1. /\ event \in Events /\ Sync(p, event)
          /\ late'[p] \subseteq late[p] /\ \A r \in Purchase \ {p} : late'[r] = late[r]
          /\ UNCHANGED <<now, truth, unpaidSince, mail, trouble>>
        BY <1>12 DEF HandleAgain, TypeOK
    <2>2. PICK sub \in Subscription :
            /\ \A r \in Purchase \ {p} : row'[r] = row[r]
            /\ row'[p].status = IF sub \in TerminalSubscription /\ row[p].status = "paid"
                                THEN "cancelled" ELSE row[p].status
            /\ row'[p].suspendedAt = SuspendedAt(row[p], event.kind, sub)
        BY <1>12, <2>1, SyncIs
    <2>3. row'[p].suspendedAt \in {0, row[p].suspendedAt}
        BY <2>2 DEF SuspendedAt
    <2>4. CASE q # p
        BY <1>1, <1>2, <1>3, <2>1, <2>2, <2>4
    <2>5. CASE q = p
        BY <1>2, <1>3, <1>12, <2>1, <2>2, <2>3, <2>5
    <2>6. QED
        BY <2>4, <2>5
<1>13. ASSUME NEW p \in Purchase, AdminSuspend(p) PROVE Basic(q)'
    <2>1. UNCHANGED <<now, stripeVars>>
        BY <1>13 DEF AdminSuspend
    <2>2. QED
        BY <1>1, <1>2, <1>3, <1>13, <2>1, AdminSuspendIs DEF stripeVars
<1>14. ASSUME NEW p \in Purchase, AdminReinstate(p) PROVE Basic(q)'
    <2>1. UNCHANGED <<now, stripeVars>>
        BY <1>14 DEF AdminReinstate
    <2>2. QED
        BY <1>1, <1>2, <1>3, <1>14, <2>1, AdminReinstateIs DEF stripeVars
<1>15. QED
    BY <1>4, <1>5, <1>6, <1>7, <1>8, <1>9, <1>10, <1>11, <1>12, <1>13, <1>14, Steps

\* every step keeps DebtsAreReal: an event that would start a debt is followed by its
\* end,
LEMMA DebtsKept ==
    ASSUME TypeOK, Basics, DebtsAreReal, [Next]_vars
    PROVE  DebtsAreReal'
<1> DEFINE Real(q) ==
        /\ unpaidSince[q] = 0 /\ mail[q] = <<>> =>
                row[q].delinquentAt = 0 /\ row[q].suspendedAt = 0
        /\ unpaidSince[q] = 0 /\ mail[q] # <<>> => Clears(Newest(q))
        /\ unpaidSince[q] > 0 =>
                NotOlder(q) \/ \E event \in Waiting(q) : Clears(event)
<1>1. SUFFICES ASSUME NoTroubleOf({"repeat", "edit"})', NEW q \in Purchase PROVE Real(q)'
    BY DEF DebtsAreReal
<1>2. /\ unpaidSince[q] = 0 /\ mail[q] = <<>> =>
            row[q].delinquentAt = 0 /\ row[q].suspendedAt = 0
      /\ unpaidSince[q] = 0 /\ mail[q] # <<>> => Clears(Newest(q))
      /\ unpaidSince[q] > 0 => NotOlder(q) \/ \E event \in Waiting(q) : Clears(event)
    BY <1>1, NoTroubleBefore DEF DebtsAreReal
<1>3. /\ now \in Nat \ {0} /\ row[q].suspendedAt \in Nat /\ row[q].delinquentAt \in Nat
      /\ unpaidSince[q] \in Nat /\ unpaidSince[q] <= now
      /\ "repeat" \notin trouble' /\ "edit" \notin trouble'
      /\ truth[q] \in {"past_due", "unpaid"} <=> unpaidSince[q] > 0
      /\ SubscriptionGracePeriod \in Nat
    BY <1>1, NumbersAre, EnforcementConstants DEF Basics, NoTroubleOf
<1>4. ASSUME mail'[q] = mail[q], unpaidSince'[q] = unpaidSince[q],
             row'[q].delinquentAt = row[q].delinquentAt,
             row'[q].suspendedAt = row[q].suspendedAt
      PROVE  Real(q)'
    BY <1>1, <1>2, <1>4, SameQueue DEF NotOlder
<1>5. ASSUME row'[q].delinquentAt = 0, row'[q].suspendedAt = 0, mail'[q] = mail[q],
             unpaidSince'[q] = unpaidSince[q]
      PROVE  Real(q)'
    BY <1>1, <1>2, <1>5, SameQueue DEF NotOlder
<1>6. CASE Records
    BY <1>1, <1>4, <1>6, RecordsAre DEF stripeVars
<1>7. CASE Suspend
    <2>1. PICK p \in ToSuspend :
            /\ row'[p].delinquentAt = row[p].delinquentAt /\ row'[p].suspendedAt = now
            /\ \A r \in Purchase \ {p} : row'[r] = row[r]
        BY <1>7, SuspendIs
    <2>2. /\ row[p].delinquentAt > 0
          /\ now >= row[p].delinquentAt + SubscriptionGracePeriod
        BY <2>1 DEF ToSuspend, SuspensionRequired
    <2>3. UNCHANGED <<mail, unpaidSince>>
        BY <1>7 DEF Suspend, stripeVars
    <2>4. CASE q # p
        BY <1>1, <1>4, <2>1, <2>3, <2>4
    <2>5. CASE q = p
        <3>1. unpaidSince[q] = 0 => mail[q] # <<>>
            BY <1>2, <2>2, <2>5
        <3>2. NotOlder(q) => NotOlder(q)'
            BY <1>3, <2>1, <2>2, <2>3, <2>5 DEF NotOlder
        <3>3. (Waiting(q))' = Waiting(q) /\ (Newest(q))' = Newest(q)
            BY <1>1, <2>3, SameQueue
        <3>4. QED
            BY <1>2, <2>3, <3>1, <3>2, <3>3
    <2>6. QED
        BY <2>4, <2>5
<1>8. CASE NewDay
    BY <1>4, <1>8 DEF NewDay, stripeVars
<1>9. ASSUME NEW p \in Purchase, Pay(p) PROVE Real(q)'
    <2>1. UNCHANGED <<mail, unpaidSince>>
        BY <1>9 DEF Pay
    <2>2. CASE q # p
        BY <1>1, <1>4, <1>9, <2>1, <2>2, PayIs
    <2>3. CASE q = p
        BY <1>5, <1>9, <2>1, <2>3, PayIs
    <2>4. QED
        BY <2>2, <2>3
<1>10. ASSUME NEW p \in Purchase, Fulfill(p) PROVE Real(q)'
    <2>1. UNCHANGED <<mail, unpaidSince>>
        BY <1>10 DEF Fulfill, stripeVars
    <2>2. QED
        BY <1>1, <1>4, <1>10, <2>1, FulfillIs
<1>11. ASSUME NEW p \in Purchase, Confirm(p) PROVE Real(q)'
    <2>1. UNCHANGED <<mail, unpaidSince>>
        BY <1>11 DEF Confirm, stripeVars
    <2>2. CASE q # p
        BY <1>1, <1>4, <1>11, <2>1, <2>2, ConfirmIs
    <2>3. CASE q = p
        BY <1>5, <1>11, <2>1, <2>3, ConfirmIs
    <2>4. QED
        BY <2>2, <2>3
<1>12. ASSUME NEW p \in Purchase, StripeStep(p) PROVE Real(q)'
    <2>1. /\ Fails(p) \/ FailsAgain(p) \/ Succeeds(p) \/ Stops(p) \/ GivesUp(p)
          /\ mail'[p] # <<>>
          /\ \A r \in Purchase \ {p} : mail'[r] = mail[r] /\ unpaidSince'[r] = unpaidSince[r]
          /\ UNCHANGED row
        BY <1>12, StripeSends
    <2>2. CASE q # p
        BY <1>1, <1>4, <2>1, <2>2
    <2>3. CASE q = p /\ Fails(p)
        <3>1. /\ unpaidSince[q] = 0 /\ unpaidSince'[q] = now
              /\ Waiting(q) \subseteq (Waiting(q))'
            BY <1>3, <2>3 DEF Fails
        <3>2. CASE mail[q] = <<>>
            BY <1>2, <1>3, <2>1, <3>1, <3>2 DEF NotOlder
        <3>3. CASE mail[q] # <<>>
            <4>1. Newest(q) \in Waiting(q) /\ Clears(Newest(q))
                BY <1>1, <1>2, <3>1, <3>3, QueueTyped
            <4>2. \E event \in (Waiting(q))' : Clears(event)
                BY <3>1, <4>1
            <4>3. QED
                BY <1>3, <3>1, <4>2
        <3>4. QED
            BY <3>2, <3>3
    <2>4. CASE q = p /\ (FailsAgain(p) \/ GivesUp(p))
        <3>1. /\ unpaidSince[q] > 0 /\ unpaidSince'[q] = unpaidSince[q]
              /\ Waiting(q) \subseteq (Waiting(q))'
            BY <1>3, <2>4 DEF FailsAgain, GivesUp
        <3>2. NotOlder(q) => NotOlder(q)'
            BY <2>1, <3>1 DEF NotOlder
        <3>3. QED
            BY <1>2, <1>3, <3>1, <3>2
    <2>5. CASE q = p /\ (Succeeds(p) \/ Stops(p))
        <3>1. /\ unpaidSince'[q] = 0 /\ mail'[q] # <<>>
              /\ (Newest(q))' \in {Event("changed", "active"), Event("changed", "canceled")}
            BY <2>1, <2>5 DEF Succeeds, Stops
        <3>2. Clears(Newest(q))'
            BY <3>1 DEF Clears, Event, DelinquentSubscription
        <3>3. QED
            BY <3>1, <3>2
    <2>6. QED
        BY <2>1, <2>2, <2>3, <2>4, <2>5
<1>13. ASSUME NEW p \in Purchase, NEW lost \in BOOLEAN, Handle(p, lost) PROVE Real(q)'
    <2>1. PICK event \in Events :
            /\ Sync(p, event) /\ mail[p] # <<>>
            /\ Waiting(p) = (Waiting(p))' \cup {event}
            /\ mail'[p] = <<>> => Newest(p) = event
            /\ mail'[p] # <<>> => (Newest(p))' = Newest(p)
            /\ \A r \in Purchase \ {p} : mail'[r] = mail[r]
            /\ UNCHANGED unpaidSince
        BY <1>13, HandledIs
    <2>2. PICK sub \in Subscription :
            /\ sub = IF event.kind = "changed" THEN event.sub ELSE truth[p]
            /\ \A r \in Purchase \ {p} : row'[r] = row[r]
            /\ row'[p].delinquentAt = DelinquentAt(row[p], event.kind, sub)
            /\ row'[p].suspendedAt = SuspendedAt(row[p], event.kind, sub)
        BY <1>13, <2>1, SyncIs
    <2>3. CASE q # p
        BY <1>1, <1>4, <2>1, <2>2, <2>3
    <2>4. CASE q = p /\ Clears(event)
        <3>1. row'[q].delinquentAt = 0 /\ row'[q].suspendedAt = 0
            BY <2>2, <2>4 DEF Clears, DelinquentAt, SuspendedAt
        <3>2. NotOlder(q)'
            BY <3>1 DEF NotOlder
        <3>3. QED
            BY <1>2, <2>1, <2>4, <3>1, <3>2
    <2>5. CASE q = p /\ ~Clears(event)
        <3>1. /\ row'[q].delinquentAt \in {now, row[q].delinquentAt}
              /\ row'[q].suspendedAt \in {0, row[q].suspendedAt}
            <4>1. event.kind # "invoice_paid"
                BY <2>5 DEF Clears
            <4>2. event.kind = "changed" => sub \in DelinquentSubscription
                BY <2>2, <2>5 DEF Clears
            <4>3. QED
                BY <2>2, <2>5, <4>1, <4>2 DEF DelinquentAt, SuspendedAt
        <3>2. NotOlder(q) => NotOlder(q)'
            BY <1>3, <2>1, <3>1 DEF NotOlder
        <3>3. mail'[q] # <<>> \/ unpaidSince[q] > 0
            BY <1>2, <1>3, <2>1, <2>5
        <3>4. (\E e \in Waiting(q) : Clears(e)) => \E e \in (Waiting(q))' : Clears(e)
            BY <2>1, <2>5
        <3>5. QED
            BY <1>2, <1>3, <2>1, <2>5, <3>2, <3>3, <3>4
    <2>6. QED
        BY <2>3, <2>4, <2>5
<1>14. ASSUME NEW p \in Purchase, NEW event \in late[p], HandleAgain(p, event)
       PROVE  FALSE
    BY <1>3, <1>14 DEF HandleAgain, Basics
<1>15. ASSUME NEW p \in Purchase, AdminSuspend(p) \/ AdminReinstate(p) PROVE FALSE
    BY <1>3, <1>15, AdminSuspendIs, AdminReinstateIs
<1>16. QED
    BY <1>6, <1>7, <1>8, <1>9, <1>10, <1>11, <1>12, <1>13, <1>14, <1>15, Steps

\* EndsAreFinal: nothing brings a subscription back,
LEMMA EndsKept ==
    ASSUME TypeOK, Basics, EndsAreFinal, [Next]_vars
    PROVE  EndsAreFinal'
<1> DEFINE Final(q) ==
        /\ truth[q] # "unpaid"
        /\ \A event \in Waiting(q) \cup late[q] : Terminates(event) => truth[q] = "canceled"
        /\ slot[q] = "available" /\ row[q].status # "none" => truth[q] = "canceled"
<1>1. SUFFICES ASSUME NoTroubleOf({"unpaid"})', NEW q \in Purchase PROVE Final(q)'
    BY DEF EndsAreFinal
<1>2. /\ truth[q] # "unpaid"
      /\ \A event \in Waiting(q) \cup late[q] : Terminates(event) => truth[q] = "canceled"
      /\ slot[q] = "available" /\ row[q].status # "none" => truth[q] = "canceled"
    BY <1>1, NoTroubleBefore DEF EndsAreFinal
<1>3. /\ "unpaid" \notin trouble' /\ truth[q] \in Subscription /\ slot[q] \in ServerStatus
      /\ row[q].status = "none" => truth[q] = "none" /\ mail[q] = <<>> /\ late[q] = {}
      /\ Waiting(q) \subseteq Events
    BY <1>1, QueueTyped DEF Basics, NoTroubleOf, TypeOK
<1>4. ASSUME mail'[q] = mail[q], late'[q] = late[q], truth'[q] = truth[q],
             slot'[q] = slot[q] \/ slot'[q] # "available",
             row'[q].status = row[q].status \/ slot'[q] # "available"
      PROVE  Final(q)'
    <2>1. (Waiting(q))' = Waiting(q)
        BY <1>1, <1>4, SameQueue
    <2>2. QED
        BY <1>2, <1>4, <2>1
<1>5. CASE Records
    BY <1>1, <1>4, <1>5, RecordsAre DEF stripeVars
<1>6. CASE Suspend
    <2>1. UNCHANGED <<mail, late, truth>>
        BY <1>6 DEF Suspend, stripeVars
    <2>2. \/ slot'[q] = slot[q] /\ row'[q].status = row[q].status
          \/ slot'[q] # "available"
        BY <1>1, <1>6, SuspendIs
    <2>3. QED
        BY <1>4, <2>1, <2>2
<1>7. CASE NewDay
    BY <1>4, <1>7 DEF NewDay, stripeVars
<1>8. ASSUME NEW p \in Purchase, Pay(p) PROVE Final(q)'
    <2>1. UNCHANGED <<mail, late>> /\ row[p].status = "none"
        BY <1>8 DEF Pay
    <2>2. CASE q # p
        BY <1>1, <1>4, <1>8, <2>1, <2>2, PayIs
    <2>3. CASE q = p
        <3>1. (Waiting(q))' = {} /\ late'[q] = {}
            BY <1>1, <1>3, <2>1, <2>3, SameQueue, QueueTyped
        <3>2. truth'[q] = "active" /\ slot'[q] = "held"
            BY <1>8, <2>3, PayIs
        <3>3. QED
            BY <3>1, <3>2
    <2>4. QED
        BY <2>2, <2>3
<1>9. ASSUME NEW p \in Purchase, Fulfill(p) PROVE Final(q)'
    <2>1. UNCHANGED <<mail, late, truth>>
        BY <1>9 DEF Fulfill, stripeVars
    <2>2. \/ slot'[q] = slot[q] /\ row'[q].status = row[q].status
          \/ slot'[q] # "available"
        BY <1>1, <1>9, FulfillIs
    <2>3. QED
        BY <1>4, <2>1, <2>2
<1>10. ASSUME NEW p \in Purchase, Confirm(p) PROVE Final(q)'
    <2>1. UNCHANGED <<mail, late, truth, slot>>
        BY <1>10 DEF Confirm, stripeVars
    <2>2. row'[q].status = row[q].status
        BY <1>1, <1>10, ConfirmIs
    <2>3. QED
        BY <1>4, <2>1, <2>2
<1>11. ASSUME NEW p \in Purchase, StripeStep(p) PROVE Final(q)'
    <2>1. /\ Fails(p) \/ FailsAgain(p) \/ Succeeds(p) \/ Stops(p) \/ GivesUp(p)
          /\ \A r \in Purchase \ {p} : mail'[r] = mail[r] /\ truth'[r] = truth[r]
          /\ UNCHANGED <<row, slot, late>>
        BY <1>11, StripeSends
    <2>2. CASE q # p
        BY <1>1, <1>4, <2>1, <2>2
    <2>3. CASE q = p /\ Stops(p)
        BY <2>3 DEF Stops
    <2>4. CASE q = p /\ (Fails(p) \/ FailsAgain(p) \/ Succeeds(p))
        <3>1. /\ truth[q] # "canceled" /\ truth'[q] # "unpaid"
              /\ \A event \in (Waiting(q))' :
                    event \in Waiting(q) \/ event.kind # "changed"
                        \/ event.sub \in {"active", "past_due"}
            BY <2>4 DEF Fails, FailsAgain, Succeeds, Event
        <3>2. \A event \in (Waiting(q))' \cup late'[q] : ~Terminates(event)
            BY <1>2, <2>1, <3>1 DEF Terminates, TerminalSubscription
        <3>3. QED
            BY <1>2, <2>1, <3>1, <3>2
    <2>5. ~GivesUp(p)
        BY <1>3 DEF GivesUp
    <2>6. QED
        BY <2>1, <2>2, <2>3, <2>4, <2>5
<1>12. ASSUME NEW p \in Purchase, NEW event \in Events, NEW sub \in Subscription,
              q = p, event \in Waiting(p) \cup late[p], truth'[p] = truth[p],
              (Waiting(p))' \cup late'[p] \subseteq Waiting(p) \cup late[p],
              sub = IF event.kind = "changed" THEN event.sub ELSE truth[p],
              row'[p].status = IF sub \in TerminalSubscription /\ row[p].status = "paid"
                               THEN "cancelled" ELSE row[p].status,
              slot'[p] = SyncedSlot(p, sub)
       PROVE  Final(q)'
    <2>1. sub \in TerminalSubscription => truth[q] = "canceled"
        <3>1. CASE event.kind = "changed"
            BY <1>2, <1>12, <3>1 DEF Terminates
        <3>2. CASE event.kind # "changed"
            BY <1>2, <1>3, <1>12, <3>2 DEF TerminalSubscription, Subscription
        <3>3. QED
            BY <3>1, <3>2
    <2>2. row[p].status # "none"
        <3>1. row[p].status = "none" => Waiting(p) = {} /\ late[p] = {}
            BY <1>3, <1>12, QueueTyped
        <3>2. QED
            BY <1>12, <3>1
    <2>3. slot'[q] = "available" => truth[q] = "canceled"
        BY <1>2, <1>12, <2>1, <2>2 DEF SyncedSlot
    <2>4. QED
        BY <1>2, <1>12, <2>3
<1>13. ASSUME NEW p \in Purchase, NEW lost \in BOOLEAN, Handle(p, lost) PROVE Final(q)'
    <2>1. PICK event \in Events :
            /\ Sync(p, event)
            /\ Waiting(p) = (Waiting(p))' \cup {event}
            /\ late'[p] = IF lost THEN late[p] \cup {event} ELSE late[p]
            /\ \A r \in Purchase \ {p} : mail'[r] = mail[r] /\ late'[r] = late[r]
            /\ UNCHANGED truth
        BY <1>13, HandledIs
    <2>2. PICK sub \in Subscription :
            /\ sub = IF event.kind = "changed" THEN event.sub ELSE truth[p]
            /\ \A r \in Purchase \ {p} : row'[r] = row[r] /\ slot'[r] = slot[r]
            /\ row'[p].status = IF sub \in TerminalSubscription /\ row[p].status = "paid"
                                THEN "cancelled" ELSE row[p].status
            /\ slot'[p] = SyncedSlot(p, sub)
        BY <1>13, <2>1, SyncIs
    <2>3. CASE q # p
        BY <1>1, <1>4, <2>1, <2>2, <2>3
    <2>4. CASE q = p
        BY <1>12, <1>13, <2>1, <2>2, <2>4
    <2>5. QED
        BY <2>3, <2>4
<1>14. ASSUME NEW p \in Purchase, NEW event \in late[p], HandleAgain(p, event)
       PROVE  Final(q)'
    <2>1. /\ event \in Events /\ Sync(p, event) /\ mail' = mail /\ truth' = truth
          /\ late'[p] \subseteq late[p] /\ \A r \in Purchase \ {p} : late'[r] = late[r]
        BY <1>14 DEF HandleAgain, TypeOK
    <2>2. PICK sub \in Subscription :
            /\ sub = IF event.kind = "changed" THEN event.sub ELSE truth[p]
            /\ \A r \in Purchase \ {p} : row'[r] = row[r] /\ slot'[r] = slot[r]
            /\ row'[p].status = IF sub \in TerminalSubscription /\ row[p].status = "paid"
                                THEN "cancelled" ELSE row[p].status
            /\ slot'[p] = SyncedSlot(p, sub)
        BY <1>14, <2>1, SyncIs
    <2>3. CASE q # p
        BY <1>1, <1>4, <2>1, <2>2, <2>3
    <2>4. CASE q = p
        <3>1. (Waiting(p))' = Waiting(p)
            BY <1>14, <2>1, SameQueue
        <3>2. QED
            BY <1>12, <1>14, <2>1, <2>2, <2>4, <3>1
    <2>5. QED
        BY <2>3, <2>4
<1>15. ASSUME NEW p \in Purchase, AdminSuspend(p) \/ AdminReinstate(p) PROVE Final(q)'
    <2>1. UNCHANGED <<mail, late, truth>>
        BY <1>15 DEF AdminSuspend, AdminReinstate, stripeVars
    <2>2. \/ slot'[q] = slot[q] /\ row'[q].status = row[q].status
          \/ slot'[q] # "available"
        BY <1>1, <1>15, AdminSuspendIs, AdminReinstateIs
    <2>3. QED
        BY <1>4, <2>1, <2>2
<1>16. QED
    BY <1>5, <1>6, <1>7, <1>8, <1>9, <1>10, <1>11, <1>13, <1>14, <1>15, Steps

\* HeldMeansSuspended: what clears the suspension allocates the slot,
LEMMA HeldKept ==
    ASSUME TypeOK, Basics, HeldMeansSuspended, [Next]_vars
    PROVE  HeldMeansSuspended'
<1> DEFINE Held(q) ==
        /\ row[q].status = "completed" /\ slot[q] = "held" => row[q].suspendedAt > 0
        /\ \A event \in Waiting(q) : event.kind = "invoice_paid" => truth[q] = "active"
<1>1. SUFFICES ASSUME NoTroubleOf({"lag", "repeat", "visit"})', NEW q \in Purchase
               PROVE  Held(q)'
    BY DEF HeldMeansSuspended
<1>2. /\ row[q].status = "completed" /\ slot[q] = "held" => row[q].suspendedAt > 0
      /\ \A event \in Waiting(q) : event.kind = "invoice_paid" => truth[q] = "active"
    BY <1>1, NoTroubleBefore DEF HeldMeansSuspended
<1>3. /\ now \in Nat \ {0}
      /\ "lag" \notin trouble' /\ "repeat" \notin trouble' /\ "visit" \notin trouble'
    BY <1>1, NumbersAre DEF NoTroubleOf
<1>4. ASSUME mail'[q] = mail[q], truth'[q] = truth[q],
             \/ /\ slot'[q] = slot[q] /\ row'[q].status = row[q].status
                /\ row'[q].suspendedAt = row[q].suspendedAt
             \/ row'[q].suspendedAt > 0 \/ slot'[q] # "held"
      PROVE  Held(q)'
    <2>1. (Waiting(q))' = Waiting(q)
        BY <1>1, <1>4, SameQueue
    <2>2. QED
        BY <1>2, <1>4, <2>1
<1>5. CASE Records
    BY <1>1, <1>4, <1>5, RecordsAre DEF stripeVars
<1>6. CASE Suspend
    <2>1. UNCHANGED <<mail, truth>>
        BY <1>6 DEF Suspend, stripeVars
    <2>2. row'[q].suspendedAt > 0 \/ (row'[q] = row[q] /\ slot'[q] = slot[q])
        BY <1>1, <1>3, <1>6, SuspendIs
    <2>3. QED
        BY <1>4, <2>1, <2>2
<1>7. CASE NewDay
    BY <1>4, <1>7 DEF NewDay, stripeVars
<1>8. ASSUME NEW p \in Purchase, Pay(p) PROVE Held(q)'
    <2>1. mail' = mail /\ row[p].status = "none"
        BY <1>8 DEF Pay
    <2>2. CASE q # p
        BY <1>1, <1>4, <1>8, <2>1, <2>2, PayIs
    <2>3. CASE q = p
        <3>1. row'[q].status = "paid" /\ truth'[q] = "active"
            BY <1>8, <2>3, PayIs
        <3>2. QED
            BY <3>1
    <2>4. QED
        BY <2>2, <2>3
<1>9. ASSUME NEW p \in Purchase, Fulfill(p) PROVE Held(q)'
    <2>1. UNCHANGED <<mail, truth>>
        BY <1>9 DEF Fulfill, stripeVars
    <2>2. slot'[q] # "held" \/ (row'[q] = row[q] /\ slot'[q] = slot[q])
        BY <1>1, <1>9, FulfillIs
    <2>3. QED
        BY <1>4, <2>1, <2>2
<1>10. ASSUME NEW p \in Purchase, Confirm(p) PROVE FALSE
    BY <1>3, <1>10, ConfirmIs
<1>11. ASSUME NEW p \in Purchase, StripeStep(p) PROVE Held(q)'
    <2>1. /\ Fails(p) \/ FailsAgain(p) \/ Succeeds(p) \/ Stops(p) \/ GivesUp(p)
          /\ mail[p] # <<>> => "lag" \in trouble'
          /\ \A r \in Purchase \ {p} : mail'[r] = mail[r] /\ truth'[r] = truth[r]
          /\ UNCHANGED <<row, slot>>
        BY <1>11, StripeSends
    <2>2. CASE q # p
        BY <1>1, <1>4, <2>1, <2>2
    <2>3. CASE q = p
        <3>1. Waiting(q) = {}
            BY <1>1, <1>3, <2>1, <2>3, QueueTyped
        <3>2. \A event \in (Waiting(q))' : event.kind = "invoice_paid" => truth'[q] = "active"
            BY <2>1, <2>3, <3>1 DEF Fails, FailsAgain, Succeeds, Stops, GivesUp, Event
        <3>3. QED
            BY <1>2, <2>1, <3>2
    <2>4. QED
        BY <2>2, <2>3
<1>12. ASSUME NEW p \in Purchase, NEW lost \in BOOLEAN, Handle(p, lost) PROVE Held(q)'
    <2>1. PICK event \in Events :
            /\ Sync(p, event)
            /\ Waiting(p) = (Waiting(p))' \cup {event}
            /\ \A r \in Purchase \ {p} : mail'[r] = mail[r]
            /\ UNCHANGED truth
        BY <1>12, HandledIs
    <2>2. PICK sub \in Subscription :
            /\ sub = IF event.kind = "changed" THEN event.sub ELSE truth[p]
            /\ \A r \in Purchase \ {p} : row'[r] = row[r] /\ slot'[r] = slot[r]
            /\ row'[p].status = IF sub \in TerminalSubscription /\ row[p].status = "paid"
                                THEN "cancelled" ELSE row[p].status
            /\ row'[p].suspendedAt = SuspendedAt(row[p], event.kind, sub)
            /\ slot'[p] = SyncedSlot(p, sub)
        BY <1>12, <2>1, SyncIs
    <2>3. CASE q # p
        BY <1>1, <1>4, <2>1, <2>2, <2>3
    <2>4. CASE q = p
        <3>1. SUFFICES ASSUME row'[q].status = "completed", slot'[q] = "held"
                       PROVE  row'[q].suspendedAt > 0
            BY <1>2, <2>1, <2>4
        <3>2. row[q].status = "completed"
            BY <2>2, <2>4, <3>1
        <3>3. /\ sub \notin TerminalSubscription /\ slot[q] = "held"
              /\ ~(sub \notin DelinquentSubscription /\ row[q].suspendedAt > 0)
            BY <2>2, <2>4, <3>1, <3>2 DEF SyncedSlot
        <3>4. row[q].suspendedAt > 0 /\ sub \in DelinquentSubscription
            BY <1>2, <3>2, <3>3
        <3>5. event.kind # "invoice_paid"
            <4>1. SUFFICES ASSUME event.kind = "invoice_paid" PROVE FALSE
                OBVIOUS
            <4>2. truth[q] = "active" /\ sub = truth[q]
                BY <1>2, <2>1, <2>2, <2>4, <4>1
            <4>3. QED
                BY <3>4, <4>2 DEF DelinquentSubscription
        <3>6. QED
            BY <2>2, <2>4, <3>4, <3>5 DEF SuspendedAt
    <2>5. QED
        BY <2>3, <2>4
<1>13. ASSUME NEW p \in Purchase, NEW event \in late[p], HandleAgain(p, event)
       PROVE  FALSE
    BY <1>3, <1>13 DEF HandleAgain, Basics
<1>14. ASSUME NEW p \in Purchase, AdminSuspend(p) \/ AdminReinstate(p) PROVE Held(q)'
    <2>1. UNCHANGED <<mail, truth>>
        BY <1>14 DEF AdminSuspend, AdminReinstate, stripeVars
    <2>2. \/ row'[q].suspendedAt > 0 \/ slot'[q] # "held"
          \/ row'[q] = row[q] /\ slot'[q] = slot[q]
        BY <1>1, <1>3, <1>14, AdminSuspendIs, AdminReinstateIs
    <2>3. QED
        BY <1>4, <2>1, <2>2
<1>15. QED
    BY <1>5, <1>6, <1>7, <1>8, <1>9, <1>10, <1>11, <1>12, <1>13, <1>14, Steps

\* StatusArrives: the last event of the mail has the last word,
LEMMA StatusKept ==
    ASSUME TypeOK, Basics, StatusArrives, [Next]_vars
    PROVE  StatusArrives'
<1> DEFINE Arrives(q) ==
        /\ mail[q] = <<>> => row[q].sub = truth[q]
        /\ mail[q] # <<>> /\ Newest(q).kind = "changed" => Newest(q).sub = truth[q]
<1>1. SUFFICES ASSUME NoTroubleOf({"repeat"})', NEW q \in Purchase PROVE Arrives(q)'
    BY DEF StatusArrives
<1>2. /\ mail[q] = <<>> => row[q].sub = truth[q]
      /\ mail[q] # <<>> /\ Newest(q).kind = "changed" => Newest(q).sub = truth[q]
    BY <1>1, NoTroubleBefore DEF StatusArrives
<1>3. "repeat" \notin trouble'
    BY <1>1 DEF NoTroubleOf
<1>4. ASSUME mail'[q] = mail[q], truth'[q] = truth[q], row'[q].sub \in {row[q].sub, truth[q]}
      PROVE  Arrives(q)'
    BY <1>1, <1>2, <1>4, SameQueue
<1>5. CASE Records
    BY <1>1, <1>4, <1>5, RecordsAre DEF stripeVars
<1>6. CASE Suspend
    <2>1. UNCHANGED <<mail, truth>>
        BY <1>6 DEF Suspend, stripeVars
    <2>2. row'[q].sub = row[q].sub
        BY <1>1, <1>6, SuspendIs
    <2>3. QED
        BY <1>4, <2>1, <2>2
<1>7. CASE NewDay
    BY <1>4, <1>7 DEF NewDay, stripeVars
<1>8. ASSUME NEW p \in Purchase, Pay(p) PROVE Arrives(q)'
    <2>1. mail' = mail /\ row[p].status = "none"
        BY <1>8 DEF Pay
    <2>2. CASE q # p
        BY <1>1, <1>4, <1>8, <2>1, <2>2, PayIs
    <2>3. CASE q = p
        <3>1. row'[q].sub = "active" /\ truth'[q] = "active" /\ mail'[q] = <<>>
            BY <1>8, <2>1, <2>3, PayIs DEF Basics
        <3>2. QED
            BY <3>1
    <2>4. QED
        BY <2>2, <2>3
<1>9. ASSUME NEW p \in Purchase, Fulfill(p) PROVE Arrives(q)'
    <2>1. UNCHANGED <<mail, truth>>
        BY <1>9 DEF Fulfill, stripeVars
    <2>2. row'[q].sub = row[q].sub
        BY <1>1, <1>9, FulfillIs
    <2>3. QED
        BY <1>4, <2>1, <2>2
<1>10. ASSUME NEW p \in Purchase, Confirm(p) PROVE Arrives(q)'
    <2>1. UNCHANGED <<mail, truth>>
        BY <1>10 DEF Confirm, stripeVars
    <2>2. row'[q].sub \in {row[q].sub, truth[q]}
        BY <1>1, <1>10, ConfirmIs
    <2>3. QED
        BY <1>4, <2>1, <2>2
<1>11. ASSUME NEW p \in Purchase, StripeStep(p) PROVE Arrives(q)'
    <2>1. /\ Fails(p) \/ FailsAgain(p) \/ Succeeds(p) \/ Stops(p) \/ GivesUp(p)
          /\ mail'[p] # <<>>
          /\ \A r \in Purchase \ {p} : mail'[r] = mail[r] /\ truth'[r] = truth[r]
          /\ UNCHANGED row
        BY <1>11, StripeSends
    <2>2. CASE q # p
        BY <1>1, <1>4, <2>1, <2>2
    <2>3. CASE q = p
        <3>1. (Newest(q))'.kind = "changed" => (Newest(q))'.sub = truth'[q]
            BY <2>1, <2>3 DEF Fails, FailsAgain, Succeeds, Stops, GivesUp, Event
        <3>2. QED
            BY <2>1, <2>3, <3>1
    <2>4. QED
        BY <2>2, <2>3
<1>12. ASSUME NEW p \in Purchase, NEW lost \in BOOLEAN, Handle(p, lost) PROVE Arrives(q)'
    <2>1. PICK event \in Events :
            /\ Sync(p, event) /\ mail[p] # <<>>
            /\ mail'[p] = <<>> => Newest(p) = event
            /\ mail'[p] # <<>> => (Newest(p))' = Newest(p)
            /\ \A r \in Purchase \ {p} : mail'[r] = mail[r]
            /\ UNCHANGED truth
        BY <1>12, HandledIs
    <2>2. PICK sub \in Subscription :
            /\ sub = IF event.kind = "changed" THEN event.sub ELSE truth[p]
            /\ \A r \in Purchase \ {p} : row'[r] = row[r]
            /\ row'[p].sub = sub
        BY <1>12, <2>1, SyncIs
    <2>3. CASE q # p
        BY <1>1, <1>4, <2>1, <2>2, <2>3
    <2>4. CASE q = p
        BY <1>2, <2>1, <2>2, <2>4
    <2>5. QED
        BY <2>3, <2>4
<1>13. ASSUME NEW p \in Purchase, NEW event \in late[p], HandleAgain(p, event)
       PROVE  FALSE
    BY <1>3, <1>13 DEF HandleAgain, Basics
<1>14. ASSUME NEW p \in Purchase, AdminSuspend(p) \/ AdminReinstate(p)
       PROVE  Arrives(q)'
    <2>1. UNCHANGED <<mail, truth>>
        BY <1>14 DEF AdminSuspend, AdminReinstate, stripeVars
    <2>2. row'[q].sub = row[q].sub
        BY <1>1, <1>14, AdminSuspendIs, AdminReinstateIs
    <2>3. QED
        BY <1>4, <2>1, <2>2
<1>15. QED
    BY <1>5, <1>6, <1>7, <1>8, <1>9, <1>10, <1>11, <1>12, <1>13, <1>14, Steps

\* GraceStarts: the failure is handled on its own day,
LEMMA GraceKept ==
    ASSUME TypeOK, Basics, GraceStarts, [Next]_vars
    PROVE  GraceStarts'
<1> DEFINE Starts(q) == truth[q] = "past_due" =>
        /\ \A event \in Waiting(q) : ~Clears(event)
        /\ mail[q] # <<>> => unpaidSince[q] = now
        /\ \/ \E event \in Waiting(q) : event.kind = "invoice_failed"
           \/ row[q].delinquentAt > 0 /\ row[q].delinquentAt <= unpaidSince[q]
<1>1. SUFFICES ASSUME NoTroubleOf({"lag", "repeat", "retry", "outage", "visit", "unpaid"})',
                      NEW q \in Purchase
               PROVE  Starts(q)'
    BY DEF GraceStarts
<1>2. truth[q] = "past_due" =>
        /\ \A event \in Waiting(q) : ~Clears(event)
        /\ mail[q] # <<>> => unpaidSince[q] = now
        /\ \/ \E event \in Waiting(q) : event.kind = "invoice_failed"
           \/ row[q].delinquentAt > 0 /\ row[q].delinquentAt <= unpaidSince[q]
    BY <1>1, NoTroubleBefore DEF GraceStarts
<1>3. /\ now \in Nat \ {0} /\ unpaidSince[q] \in Nat
      /\ "lag" \notin trouble' /\ "repeat" \notin trouble' /\ "retry" \notin trouble'
      /\ "outage" \notin trouble' /\ "visit" \notin trouble'
    BY <1>1, NumbersAre DEF NoTroubleOf
<1>4. ASSUME mail'[q] = mail[q], truth'[q] = truth[q], unpaidSince'[q] = unpaidSince[q],
             row'[q].delinquentAt = row[q].delinquentAt, now' = now \/ mail[q] = <<>>
      PROVE  Starts(q)'
    BY <1>1, <1>2, <1>4, SameQueue
<1>5. CASE Records
    BY <1>1, <1>4, <1>5, RecordsAre DEF stripeVars
<1>6. CASE Suspend
    <2>1. UNCHANGED <<now, mail, truth, unpaidSince>>
        BY <1>6 DEF Suspend, stripeVars
    <2>2. row'[q].delinquentAt = row[q].delinquentAt
        BY <1>1, <1>6, SuspendIs
    <2>3. QED
        BY <1>4, <2>1, <2>2
<1>7. CASE NewDay
    <2>1. UNCHANGED <<row, mail, truth, unpaidSince>>
        BY <1>7 DEF NewDay, stripeVars
    <2>2. mail[q] = <<>>
        BY <1>1, <1>3, <1>7, NewDayIs
    <2>3. QED
        BY <1>4, <2>1, <2>2
<1>8. ASSUME NEW p \in Purchase, Pay(p) PROVE Starts(q)'
    <2>1. UNCHANGED <<now, mail, unpaidSince>>
        BY <1>8 DEF Pay
    <2>2. CASE q # p
        BY <1>1, <1>4, <1>8, <2>1, <2>2, PayIs
    <2>3. CASE q = p
        BY <1>8, <2>3, PayIs
    <2>4. QED
        BY <2>2, <2>3
<1>9. ASSUME NEW p \in Purchase, Fulfill(p) PROVE Starts(q)'
    <2>1. UNCHANGED <<now, mail, truth, unpaidSince>>
        BY <1>9 DEF Fulfill, stripeVars
    <2>2. row'[q].delinquentAt = row[q].delinquentAt
        BY <1>1, <1>9, FulfillIs
    <2>3. QED
        BY <1>4, <2>1, <2>2
<1>10. ASSUME NEW p \in Purchase, Confirm(p) PROVE FALSE
    BY <1>3, <1>10, ConfirmIs
<1>11. ASSUME NEW p \in Purchase, StripeStep(p) PROVE Starts(q)'
    <2>1. /\ Fails(p) \/ FailsAgain(p) \/ Succeeds(p) \/ Stops(p) \/ GivesUp(p)
          /\ mail[p] # <<>> => "lag" \in trouble'
          /\ \A r \in Purchase \ {p} :
                mail'[r] = mail[r] /\ truth'[r] = truth[r] /\ unpaidSince'[r] = unpaidSince[r]
          /\ UNCHANGED <<now, row>>
        BY <1>11, StripeSends
    <2>2. CASE q # p
        BY <1>1, <1>4, <2>1, <2>2
    <2>3. CASE q = p /\ Fails(p)
        <3>1. Waiting(q) = {}
            BY <1>1, <1>3, <2>1, <2>3, QueueTyped
        <3>2. /\ unpaidSince'[q] = now
              /\ (Waiting(q))' = {Event("invoice_failed", "none"), Event("changed", "past_due")}
            BY <2>3, <3>1 DEF Fails
        <3>3. \A event \in (Waiting(q))' : ~Clears(event)
            BY <3>2 DEF Clears, Event, DelinquentSubscription
        <3>4. \E event \in (Waiting(q))' : event.kind = "invoice_failed"
            BY <3>2 DEF Event
        <3>5. QED
            BY <2>1, <3>2, <3>3, <3>4
    <2>4. CASE q = p /\ ~Fails(p)
        BY <1>3, <2>1, <2>4 DEF FailsAgain, Succeeds, Stops, GivesUp
    <2>5. QED
        BY <2>2, <2>3, <2>4
<1>12. ASSUME NEW p \in Purchase, NEW lost \in BOOLEAN, Handle(p, lost) PROVE Starts(q)'
    <2>1. PICK event \in Events :
            /\ Sync(p, event) /\ mail[p] # <<>>
            /\ Waiting(p) = (Waiting(p))' \cup {event}
            /\ \A r \in Purchase \ {p} : mail'[r] = mail[r]
            /\ UNCHANGED <<now, truth, unpaidSince>>
        BY <1>12, HandledIs
    <2>2. PICK sub \in Subscription :
            /\ sub = IF event.kind = "changed" THEN event.sub ELSE truth[p]
            /\ \A r \in Purchase \ {p} : row'[r] = row[r]
            /\ row'[p].delinquentAt = DelinquentAt(row[p], event.kind, sub)
        BY <1>12, <2>1, SyncIs
    <2>3. CASE q # p
        BY <1>1, <1>4, <2>1, <2>2, <2>3
    <2>4. CASE q = p
        <3>1. SUFFICES ASSUME truth[q] = "past_due"
                       PROVE  \/ \E e \in (Waiting(q))' : e.kind = "invoice_failed"
                              \/ /\ row'[q].delinquentAt > 0
                                 /\ row'[q].delinquentAt <= unpaidSince[q]
            BY <1>2, <2>1, <2>4
        <3>2. unpaidSince[q] = now /\ ~Clears(event)
            BY <1>2, <2>1, <2>4, <3>1
        <3>3. CASE event.kind = "invoice_failed"
            BY <1>3, <2>2, <2>4, <3>2, <3>3 DEF DelinquentAt
        <3>4. CASE event.kind # "invoice_failed"
            <4>1. event.kind = "changed" /\ sub \in DelinquentSubscription
                BY <2>2, <3>2, <3>4 DEF Events, Clears
            <4>2. row'[q].delinquentAt =
                    IF row[q].delinquentAt > 0 THEN row[q].delinquentAt ELSE now
                BY <2>2, <2>4, <4>1 DEF DelinquentAt
            <4>3. QED
                BY <1>2, <2>1, <2>4, <3>1, <3>4, <4>2
        <3>5. QED
            BY <3>3, <3>4
    <2>5. QED
        BY <2>3, <2>4
<1>13. ASSUME NEW p \in Purchase, NEW event \in late[p], HandleAgain(p, event)
       PROVE  FALSE
    BY <1>3, <1>13 DEF HandleAgain, Basics
<1>14. ASSUME NEW p \in Purchase, AdminSuspend(p) \/ AdminReinstate(p)
       PROVE  Starts(q)'
    <2>1. UNCHANGED <<now, mail, truth, unpaidSince>>
        BY <1>14 DEF AdminSuspend, AdminReinstate, stripeVars
    <2>2. row'[q].delinquentAt = row[q].delinquentAt
        BY <1>1, <1>14, AdminSuspendIs, AdminReinstateIs
    <2>3. QED
        BY <1>4, <2>1, <2>2
<1>15. QED
    BY <1>5, <1>6, <1>7, <1>8, <1>9, <1>10, <1>11, <1>12, <1>13, <1>14, Steps

\* Only a payment stalls a purchase, and then its age is nothing.
LEMMA StalledIs ==
    ASSUME TypeOK, [Next]_vars, NEW q \in Purchase, (q \in Stalled)'
    PROVE  \/ q \in Stalled /\ row'[q].paidAt = row[q].paidAt
           \/ row'[q].paidAt = now /\ now' = now
<1>1. row'[q].status = "paid" /\ ~row'[q].named
    BY DEF Stalled
<1>2. ASSUME row'[q] = row[q] PROVE q \in Stalled /\ row'[q].paidAt = row[q].paidAt
    BY <1>1, <1>2 DEF Stalled
<1>3. ASSUME row'[q].status = row[q].status, row'[q].named = row[q].named,
             row'[q].paidAt = row[q].paidAt
      PROVE  q \in Stalled /\ row'[q].paidAt = row[q].paidAt
    BY <1>1, <1>3 DEF Stalled
<1>4. CASE Remind \/ Escalate \/ Warn \/ OpenReview \/ NewDay \/ UNCHANGED vars
    BY <1>2, <1>4 DEF Remind, Escalate, Warn, OpenReview, NewDay, vars
<1>5. CASE Suspend
    BY <1>2, <1>3, <1>5, SuspendIs
<1>6. ASSUME NEW p \in Purchase, Pay(p)
      PROVE  \/ q \in Stalled /\ row'[q].paidAt = row[q].paidAt
             \/ row'[q].paidAt = now /\ now' = now
    <2>1. now' = now
        BY <1>6 DEF Pay
    <2>2. QED
        BY <1>2, <1>6, <2>1, PayIs
<1>7. ASSUME NEW p \in Purchase, SubmitSetup(p)
      PROVE  q \in Stalled /\ row'[q].paidAt = row[q].paidAt
    BY <1>1, <1>2, <1>7, SubmitSetupIs
<1>8. ASSUME NEW p \in Purchase, Fulfill(p)
      PROVE  q \in Stalled /\ row'[q].paidAt = row[q].paidAt
    BY <1>1, <1>2, <1>8, FulfillIs
<1>9. ASSUME NEW p \in Purchase, Confirm(p)
      PROVE  q \in Stalled /\ row'[q].paidAt = row[q].paidAt
    BY <1>2, <1>3, <1>9, ConfirmIs
<1>10. ASSUME NEW p \in Purchase, StripeStep(p)
       PROVE  q \in Stalled /\ row'[q].paidAt = row[q].paidAt
    BY <1>2, <1>10, StripeSends
<1>11. ASSUME NEW p \in Purchase, NEW event \in Events, Sync(p, event)
       PROVE  q \in Stalled /\ row'[q].paidAt = row[q].paidAt
    <2>1. PICK sub \in Subscription :
            /\ \A r \in Purchase \ {p} : row'[r] = row[r]
            /\ row'[p].status = IF sub \in TerminalSubscription /\ row[p].status = "paid"
                                THEN "cancelled" ELSE row[p].status
            /\ row'[p].named = row[p].named /\ row'[p].paidAt = row[p].paidAt
        BY <1>11, SyncIs
    <2>2. CASE q # p
        BY <1>2, <2>1, <2>2
    <2>3. CASE q = p
        BY <1>1, <1>3, <2>1, <2>3
    <2>4. QED
        BY <2>2, <2>3
<1>12. ASSUME NEW p \in Purchase, AdminSuspend(p) \/ AdminReinstate(p)
       PROVE  q \in Stalled /\ row'[q].paidAt = row[q].paidAt
    BY <1>1, <1>2, <1>12, AdminSuspendIs, AdminReinstateIs
<1>13. ASSUME NEW p \in Purchase, MarkHardFlag(p)
       PROVE  q \in Stalled /\ row'[q].paidAt = row[q].paidAt
    BY <1>2, <1>3, <1>13, MarkHardFlagIs
<1>14. ASSUME NEW p \in Purchase, NEW lost \in BOOLEAN, Handle(p, lost)
       PROVE  q \in Stalled /\ row'[q].paidAt = row[q].paidAt
    BY <1>11, <1>14, HandledIs
<1>15. ASSUME NEW p \in Purchase, NEW event \in late[p], HandleAgain(p, event)
       PROVE  q \in Stalled /\ row'[q].paidAt = row[q].paidAt
    BY <1>11, <1>15 DEF HandleAgain, TypeOK
<1>16. QED
    BY <1>4, <1>5, <1>6, <1>7, <1>8, <1>9, <1>10, <1>12, <1>13, <1>14, <1>15
       DEF Next, CustomerStep, AdminStep, WorkerStep

\* RemindersInTime: the reminder is due before the escalation, and the lane takes it
\* first,
LEMMA RemindersKept ==
    ASSUME TypeOK, RemindersInTime, [Next]_vars
    PROVE  RemindersInTime'
<1>1. SUFFICES ASSUME NoTroubleOf({"outage"})', NEW q \in Purchase
               PROVE  /\ escalated'[q] => reminded'[q]
                      /\ (q \in Stalled)' /\ now' - row'[q].paidAt > ReminderDelay =>
                            reminded'[q]
    BY DEF RemindersInTime, Age
<1>2. /\ escalated[q] => reminded[q]
      /\ q \in Stalled /\ now - row[q].paidAt > ReminderDelay => reminded[q]
    BY <1>1, NoTroubleBefore DEF RemindersInTime, Age
<1>3. /\ "outage" \notin trouble' /\ now \in Nat /\ row[q].paidAt \in Nat
      /\ ReminderDelay \in Nat /\ EscalationDelay \in Nat /\ ReminderDelay < EscalationDelay
    BY <1>1, NumbersAre, EnforcementConstants DEF NoTroubleOf
<1>4. reminded[q] => reminded'[q]
    <2>1. CASE Remind
        BY <1>1, <2>1, RemindIs DEF TypeOK
    <2>2. CASE ~Remind
        BY <2>2 DEF Next, CustomerStep, StripeStep, AdminStep, WorkerStep, Pay, SubmitSetup,
            Fulfill, Confirm, RenewalFails, RetryFails, RenewalSucceeds, Ends, TurnsUnpaid,
            Sends, Handle, HandleAgain, AdminSuspend, AdminReinstate, MarkHardFlag, Escalate,
            Warn, OpenReview, Suspend, NewDay, vars, recordVars
    <2>3. QED
        BY <2>1, <2>2
<1>5. escalated'[q] => reminded'[q]
    <2>1. CASE Escalate
        <3>1. PICK p \in ToEscalate : escalated' = [escalated EXCEPT ![p] = TRUE]
            BY <2>1, EscalateIs
        <3>2. p \in Stalled /\ now - row[p].paidAt >= EscalationDelay
            BY <3>1 DEF ToEscalate, Age
        <3>3. CASE q = p
            <4>1. now - row[q].paidAt > ReminderDelay
                BY <1>3, <3>2, <3>3
            <4>2. QED
                BY <1>2, <1>4, <3>2, <3>3, <4>1
        <3>4. CASE q # p
            <4>1. escalated'[q] = escalated[q]
                BY <1>1, <3>1, <3>4 DEF TypeOK
            <4>2. QED
                BY <1>2, <1>4, <4>1
        <3>5. QED
            BY <3>3, <3>4
    <2>2. CASE ~Escalate
        <3>1. escalated' = escalated
            BY <2>2 DEF Next, CustomerStep, StripeStep, AdminStep, WorkerStep, Pay,
                SubmitSetup, Fulfill, Confirm, RenewalFails, RetryFails, RenewalSucceeds,
                Ends, TurnsUnpaid, Sends, Handle, HandleAgain, AdminSuspend, AdminReinstate,
                MarkHardFlag, Remind, Warn, OpenReview, Suspend, NewDay, vars, recordVars
        <3>2. QED
            BY <1>2, <1>4, <3>1
    <2>3. QED
        BY <2>1, <2>2
<1>6. ASSUME (q \in Stalled)', now' - row'[q].paidAt > ReminderDelay
      PROVE  reminded'[q]
    <2>1. CASE row'[q].paidAt = now /\ now' = now
        BY <1>3, <1>6, <2>1
    <2>2. CASE q \in Stalled /\ row'[q].paidAt = row[q].paidAt
        <3>1. CASE NewDay
            <4>1. CaughtUp /\ now' = now + 1
                BY <1>3, <3>1, NewDayIs
            <4>2. q \notin ToRemind
                BY <4>1 DEF CaughtUp
            <4>3. CASE now - row[q].paidAt > ReminderDelay
                BY <1>2, <1>4, <2>2, <4>3
            <4>4. CASE ~(now - row[q].paidAt > ReminderDelay)
                <5>1. /\ now - row[q].paidAt >= ReminderDelay
                      /\ now - row[q].paidAt < EscalationDelay
                    BY <1>3, <1>6, <2>2, <4>1, <4>4
                <5>2. reminded[q]
                    BY <1>1, <2>2, <4>2, <5>1 DEF ToRemind, Age
                <5>3. QED
                    BY <1>4, <5>2
            <4>5. QED
                BY <4>3, <4>4
        <3>2. CASE ~NewDay
            <4>1. now' = now
                BY <3>2 DEF Next, CustomerStep, StripeStep, AdminStep, WorkerStep, Pay,
                    SubmitSetup, Fulfill, Confirm, RenewalFails, RetryFails, RenewalSucceeds,
                    Ends, TurnsUnpaid, Sends, Handle, HandleAgain, AdminSuspend,
                    AdminReinstate, MarkHardFlag, Remind, Escalate, Warn, OpenReview,
                    Suspend, vars
            <4>2. QED
                BY <1>2, <1>4, <1>6, <2>2, <4>1
        <3>3. QED
            BY <3>1, <3>2
    <2>3. QED
        BY <1>1, <1>6, <2>1, <2>2, StalledIs
<1>7. QED
    BY <1>5, <1>6

\* A suspension stays as it is, ends, or starts now by the worker or an edit.
LEMMA SuspensionIs ==
    ASSUME TypeOK, Basics, [Next]_vars, NEW q \in Purchase, row'[q].suspendedAt > 0
    PROVE  \/ /\ row'[q].suspendedAt = row[q].suspendedAt
              /\ row'[q].status = row[q].status
           \/ "edit" \in trouble'
           \/ /\ Suspend /\ row'[q].suspendedAt = now /\ now' = now
<1> DEFINE Claim == \/ /\ row'[q].suspendedAt = row[q].suspendedAt
                       /\ row'[q].status = row[q].status
                    \/ "edit" \in trouble'
                    \/ /\ Suspend /\ row'[q].suspendedAt = now /\ now' = now
<1>1. CASE Records
    BY <1>1, RecordsAre
<1>2. CASE Suspend
    <2>1. now' = now
        BY <1>2 DEF Suspend
    <2>2. QED
        BY <1>2, <2>1, SuspendIs
<1>3. CASE NewDay
    BY <1>3 DEF NewDay
<1>4. ASSUME NEW p \in Purchase, Pay(p) PROVE Claim
    BY <1>4, PayIs
<1>5. ASSUME NEW p \in Purchase, Fulfill(p) PROVE Claim
    <2>1. row[p].status = "paid" /\ ~(row[p].suspendedAt > 0)
        BY <1>5 DEF Fulfill, Basics
    <2>2. QED
        BY <1>5, <2>1, FulfillIs
<1>6. ASSUME NEW p \in Purchase, Confirm(p) PROVE Claim
    BY <1>6, ConfirmIs
<1>7. ASSUME NEW p \in Purchase, StripeStep(p) PROVE Claim
    BY <1>7, StripeSends
<1>8. ASSUME NEW p \in Purchase, NEW event \in Events, Sync(p, event) PROVE Claim
    <2>1. PICK sub \in Subscription :
            /\ \A r \in Purchase \ {p} : row'[r] = row[r]
            /\ row'[p].status = IF sub \in TerminalSubscription /\ row[p].status = "paid"
                                THEN "cancelled" ELSE row[p].status
            /\ row'[p].suspendedAt = SuspendedAt(row[p], event.kind, sub)
        BY <1>8, SyncIs
    <2>2. row'[p].suspendedAt \in {0, row[p].suspendedAt}
        BY <2>1 DEF SuspendedAt
    <2>3. row[p].suspendedAt > 0 => row[p].status # "paid"
        BY <1>8 DEF Basics
    <2>4. QED
        BY <2>1, <2>2, <2>3
<1>9. ASSUME NEW p \in Purchase, NEW lost \in BOOLEAN, Handle(p, lost) PROVE Claim
    BY <1>8, <1>9, HandledIs
<1>10. ASSUME NEW p \in Purchase, NEW event \in late[p], HandleAgain(p, event) PROVE Claim
    BY <1>8, <1>10 DEF HandleAgain, TypeOK
<1>11. ASSUME NEW p \in Purchase, AdminSuspend(p) \/ AdminReinstate(p) PROVE Claim
    BY <1>11, AdminSuspendIs, AdminReinstateIs
<1>12. QED
    BY <1>1, <1>2, <1>3, <1>4, <1>5, <1>6, <1>7, <1>9, <1>10, <1>11, Steps

\* NoCrowd: without a crowd the suspended fit into the query,
LEMMA CrowdKept ==
    ASSUME TypeOK, Basics, NoCrowd, [Next]_vars
    PROVE  NoCrowd'
<1>1. SUFFICES ASSUME NoTroubleOf({"crowd", "edit"})'
               PROVE  Cardinality(Suspended') <= WarningLimit
    BY DEF NoCrowd
<1>2. Cardinality(Suspended) <= WarningLimit
    BY <1>1, NoTroubleBefore DEF NoCrowd
<1>3. /\ IsFiniteSet(Suspended) /\ Cardinality(Suspended) \in Nat
      /\ "crowd" \notin trouble' /\ "edit" \notin trouble' /\ WarningLimit \in Nat
    <2>1. Suspended \in SUBSET Purchase
        BY DEF Suspended
    <2>2. IsFiniteSet(Suspended)
        BY <2>1, EnforcementConstants, FS_Subset
    <2>3. QED
        BY <1>1, <2>2, EnforcementConstants, FS_CardinalityType DEF NoTroubleOf
<1>4. CASE Suspend
    <2>1. PICK p \in ToSuspend :
            /\ \A q \in Purchase \ {p} : row'[q] = row[q]
            /\ Cardinality(Suspended) >= WarningLimit => "crowd" \in trouble'
        BY <1>4, SuspendIs
    <2>2. Suspended' \in SUBSET (Suspended \cup {p})
        BY <2>1 DEF Suspended
    <2>3. /\ IsFiniteSet(Suspended \cup {p})
          /\ Cardinality(Suspended \cup {p}) =
                IF p \in Suspended THEN Cardinality(Suspended) ELSE Cardinality(Suspended) + 1
        BY <1>3, FS_AddElement
    <2>4. IsFiniteSet(Suspended') /\ Cardinality(Suspended') <= Cardinality(Suspended \cup {p})
        BY <2>2, <2>3, FS_Subset
    <2>5. Cardinality(Suspended') \in Nat
        BY <2>4, FS_CardinalityType
    <2>6. QED
        BY <1>3, <2>1, <2>3, <2>4, <2>5
<1>5. CASE ~Suspend
    <2>1. Suspended' \in SUBSET Suspended
        <3>1. SUFFICES ASSUME NEW q \in Purchase, row'[q].status = "completed",
                              row'[q].suspendedAt > 0
                       PROVE  row[q].status = "completed" /\ row[q].suspendedAt > 0
            BY DEF Suspended
        <3>2. row'[q].suspendedAt = row[q].suspendedAt /\ row'[q].status = row[q].status
            BY <1>3, <1>5, <3>1, SuspensionIs
        <3>3. QED
            BY <3>1, <3>2
    <2>2. Cardinality(Suspended') <= Cardinality(Suspended) /\ Cardinality(Suspended') \in Nat
        BY <1>3, <2>1, FS_Subset, FS_CardinalityType
    <2>3. QED
        BY <1>2, <1>3, <2>2
<1>6. QED
    BY <1>4, <1>5

\* Whoever is caught up has sent every warning that was due by today.
LEMMA WarnedByNow ==
    ASSUME TypeOK, Basics, WarningsInTime, NoCrowd,
           NoTroubleOf({"outage", "crowd", "edit"}), CaughtUp,
           NEW q \in Purchase, row[q].suspendedAt > 0, NEW w \in WarningWindow,
           now + w = row[q].suspendedAt + SuspensionRetention
    PROVE  w \in warned[q]
<1>1. PICK n \in Nat, s \in Nat, R \in Nat, m \in Nat :
        /\ n = now /\ s = row[q].suspendedAt /\ R = SuspensionRetention
        /\ m = Max(WarningWindow)
    <2>1. now \in Nat /\ row[q].suspendedAt \in Nat
        BY NumbersAre
    <2>2. Max(WarningWindow) \in Nat /\ SuspensionRetention \in Nat
        BY WidestIs, WindowsAre
    <2>3. QED
        BY <2>1, <2>2
<1>2. /\ w \in Nat /\ w >= 1 /\ w < R /\ w <= m /\ n + w = s + R
    BY <1>1, WidestIs, WindowsAre
<1>3. q \in Suspended
    BY DEF Suspended, Basics
<1>4. n - s >= R - m /\ n - s < R
    BY <1>2
<1> DEFINE inReach == {p \in Suspended :
            /\ Age(row[p].suspendedAt) >= SuspensionRetention - Max(WarningWindow)
            /\ Age(row[p].suspendedAt) < SuspensionRetention}
           earlier == {p \in inReach : Before(p, q, SuspensionStart)}
<1>5. q \in inReach
    BY <1>1, <1>3, <1>4 DEF Age
<1>6. Cardinality(earlier) < WarningLimit
    <2>1. Suspended \in SUBSET Purchase
        BY DEF Suspended
    <2>2. IsFiniteSet(Suspended) /\ Cardinality(Suspended) \in Nat
        BY <2>1, EnforcementConstants, FS_Subset, FS_CardinalityType
    <2>3. ~Before(q, q, SuspensionStart)
        BY <1>1, EnforcementConstants DEF Before, SuspensionStart
    <2>4. earlier \in SUBSET (Suspended \ {q})
        BY <2>3
    <2>5. /\ IsFiniteSet(Suspended \ {q})
          /\ Cardinality(Suspended \ {q}) = Cardinality(Suspended) - 1
        BY <1>3, <2>2, FS_RemoveElement
    <2>6. IsFiniteSet(earlier) /\ Cardinality(earlier) <= Cardinality(Suspended) - 1
        BY <2>4, <2>5, FS_Subset
    <2>7. Cardinality(earlier) \in Nat /\ WarningLimit \in Nat
        BY <2>6, EnforcementConstants, FS_CardinalityType
    <2>8. Cardinality(Suspended) <= WarningLimit
        BY DEF NoCrowd, NoTroubleOf
    <2>9. QED
        BY <2>2, <2>6, <2>7, <2>8
<1>7. q \in Candidates
    BY <1>5, <1>6 DEF Candidates
<1>8. Warning(q) \in warned[q]
    BY <1>7 DEF CaughtUp, ToWarn
<1>9. Warning(q) = w
    <2>1. s + R - n <= w
        BY <1>2
    <2>2. /\ Warning(q) \in WarningWindow
          /\ s + R - n <= Warning(q) /\ Warning(q) <= w
        BY <1>1, <2>1, WarningIs
    <2>3. Warning(q) \in Nat
        BY <2>2, WindowsAre
    <2>4. QED
        BY <1>2, <2>2, <2>3
<1>10. QED
    BY <1>8, <1>9

\* WarningsInTime: no day ends with a warning that is due.
LEMMA WarningsKept ==
    ASSUME TypeOK, Basics, WarningsInTime, NoCrowd, [Next]_vars
    PROVE  WarningsInTime'
<1>1. SUFFICES ASSUME NoTroubleOf({"outage", "crowd", "edit"})', NEW q \in Purchase
               PROVE  /\ reviewed'[q] > 0 => warned'[q] = WarningWindow
                      /\ row'[q].suspendedAt > 0 => \A w \in WarningWindow :
                            now' + w > row'[q].suspendedAt + SuspensionRetention =>
                                w \in warned'[q]
    BY DEF WarningsInTime
<1>2. /\ NoTroubleOf({"outage", "crowd", "edit"})
      /\ reviewed[q] > 0 => warned[q] = WarningWindow
      /\ row[q].suspendedAt > 0 => \A w \in WarningWindow :
            now + w > row[q].suspendedAt + SuspensionRetention => w \in warned[q]
    BY <1>1, NoTroubleBefore DEF WarningsInTime
<1>3. /\ "outage" \notin trouble' /\ "edit" \notin trouble'
      /\ now \in Nat /\ row[q].suspendedAt \in Nat /\ SuspensionRetention \in Nat
      /\ \A w \in WarningWindow : w \in Nat /\ w >= 1 /\ w < SuspensionRetention
    BY <1>1, NumbersAre, WindowsAre DEF NoTroubleOf
<1>4. warned[q] \subseteq warned'[q] /\ warned'[q] \subseteq WarningWindow
    <2>1. CASE Warn
        <3>1. PICK p \in ToWarn : warned' = [warned EXCEPT ![p] = @ \cup {Warning(p)}]
            BY <2>1, WarnIs
        <3>2. warned[q] \subseteq warned'[q]
            BY <1>1, <3>1 DEF TypeOK
        <3>3. TypeOK'
            BY TypeKept
        <3>4. QED
            BY <1>1, <3>2, <3>3 DEF TypeOK
    <2>2. CASE ~Warn
        <3>1. warned' = warned
            BY <2>2 DEF Next, CustomerStep, StripeStep, AdminStep, WorkerStep, Pay,
                SubmitSetup, Fulfill, Confirm, RenewalFails, RetryFails, RenewalSucceeds,
                Ends, TurnsUnpaid, Sends, Handle, HandleAgain, AdminSuspend, AdminReinstate,
                MarkHardFlag, Remind, Escalate, OpenReview, Suspend, NewDay, vars, recordVars
        <3>2. QED
            BY <1>1, <3>1 DEF TypeOK
    <2>3. QED
        BY <2>1, <2>2
<1>5. reviewed'[q] > 0 => warned'[q] = WarningWindow
    <2>1. CASE OpenReview
        <3>1. PICK p \in ToReview : reviewed' = [reviewed EXCEPT ![p] = now]
            BY <2>1, OpenReviewIs
        <3>2. CASE q = p
            <4>1. /\ row[q].suspendedAt > 0
                  /\ now >= row[q].suspendedAt + SuspensionRetention
                BY <3>1, <3>2 DEF ToReview, PurgeRequired
            <4>2. \A w \in WarningWindow : now + w > row[q].suspendedAt + SuspensionRetention
                BY <1>3, <4>1
            <4>3. WarningWindow \subseteq warned[q]
                BY <1>2, <4>1, <4>2
            <4>4. QED
                BY <1>4, <4>3
        <3>3. CASE q # p
            <4>1. reviewed'[q] = reviewed[q]
                BY <1>1, <3>1, <3>3 DEF TypeOK
            <4>2. QED
                BY <1>2, <1>4, <4>1
        <3>4. QED
            BY <3>2, <3>3
    <2>2. CASE ~OpenReview
        <3>1. reviewed' = reviewed
            BY <2>2 DEF Next, CustomerStep, StripeStep, AdminStep, WorkerStep, Pay,
                SubmitSetup, Fulfill, Confirm, RenewalFails, RetryFails, RenewalSucceeds,
                Ends, TurnsUnpaid, Sends, Handle, HandleAgain, AdminSuspend, AdminReinstate,
                MarkHardFlag, Remind, Escalate, Warn, Suspend, NewDay, vars, recordVars
        <3>2. QED
            BY <1>2, <1>4, <3>1
    <2>3. QED
        BY <2>1, <2>2
<1>6. ASSUME row'[q].suspendedAt > 0, NEW w \in WarningWindow,
             now' + w > row'[q].suspendedAt + SuspensionRetention
      PROVE  w \in warned'[q]
    <2>1. CASE row'[q].suspendedAt = now /\ now' = now
        BY <1>3, <1>6, <2>1
    <2>2. CASE row'[q].suspendedAt = row[q].suspendedAt
        <3>1. CASE NewDay
            <4>1. CaughtUp /\ now' = now + 1
                BY <1>3, <3>1, NewDayIs
            <4>2. \/ now + w > row[q].suspendedAt + SuspensionRetention
                  \/ now + w = row[q].suspendedAt + SuspensionRetention
                BY <1>3, <1>6, <2>2, <4>1
            <4>3. w \in warned[q]
                BY <1>1, <1>2, <1>6, <2>2, <4>1, <4>2, WarnedByNow
            <4>4. QED
                BY <1>4, <4>3
        <3>2. CASE ~NewDay
            <4>1. now' = now
                BY <3>2 DEF Next, CustomerStep, StripeStep, AdminStep, WorkerStep, Pay,
                    SubmitSetup, Fulfill, Confirm, RenewalFails, RetryFails, RenewalSucceeds,
                    Ends, TurnsUnpaid, Sends, Handle, HandleAgain, AdminSuspend,
                    AdminReinstate, MarkHardFlag, Remind, Escalate, Warn, OpenReview,
                    Suspend, vars
            <4>2. QED
                BY <1>2, <1>4, <1>6, <2>2, <4>1
        <3>3. QED
            BY <3>1, <3>2
    <2>3. QED
        BY <1>1, <1>3, <1>6, <2>1, <2>2, SuspensionIs
<1>7. QED
    BY <1>5, <1>6

(***************************************************************************)
(* The theorems                                                            *)
(***************************************************************************)

\* The invariant holds before the first sale.
THEOREM InitHolds == Init => IndInv
<1>1. SUFFICES ASSUME Init PROVE IndInv
    OBVIOUS
<1>2. /\ now = 1
      /\ \A p \in Purchase :
            /\ row[p] = NoRow /\ slot[p] = "available" /\ ~reminded[p] /\ ~escalated[p]
            /\ warned[p] = {} /\ reviewed[p] = 0 /\ truth[p] = "none"
            /\ unpaidSince[p] = 0 /\ mail[p] = <<>> /\ late[p] = {}
    BY <1>1 DEF Init
<1>3. TypeOK
    <2>1. row \in [Purchase -> Row] /\ \A p \in Purchase : row[p] = Merged(row[p])
        BY <1>1, <1>2, NoRowIsMerged DEF Init
    <2>2. mail \in [Purchase -> Seq(Events)] /\ \A p \in Purchase : Len(mail[p]) <= MaxMail
        <3>1. <<>> \in Seq(Events)
            BY EmptySeq
        <3>2. Len(<<>>) = 0
            BY EmptySeq, Zenon
        <3>3. QED
            BY <1>1, <1>2, <3>1, <3>2, EnforcementConstants DEF Init
    <2>3. now \in 1 .. LastDay
        BY <1>1, EnforcementConstants DEF Init
    <2>4. QED
        BY <1>1, <2>1, <2>2, <2>3, EnforcementConstants
           DEF Init, TypeOK, ServerStatus, Day, Subscription
<1>4. \A p \in Purchase :
        /\ row[p].status = "none" /\ row[p].sub = "none"
        /\ row[p].delinquentAt = 0 /\ row[p].suspendedAt = 0
    BY <1>2 DEF NoRow
<1>5. \A p \in Purchase : Waiting(p) = {}
    BY <1>2, <1>3, QueueTyped
<1>6. Suspended = {} /\ Stalled = {}
    BY <1>4 DEF Suspended, Stalled
<1>7. Basics /\ DebtsAreReal /\ EndsAreFinal /\ HeldMeansSuspended
    BY <1>2, <1>4, <1>5 DEF Basics, DebtsAreReal, EndsAreFinal, HeldMeansSuspended
<1>8. StatusArrives /\ GraceStarts /\ RemindersInTime /\ WarningsInTime
    BY <1>2, <1>4, <1>6 DEF StatusArrives, GraceStarts, RemindersInTime, WarningsInTime
<1>9. NoCrowd
    <2>1. Cardinality(Suspended) = 0
        BY <1>6, FS_EmptySet
    <2>2. QED
        BY <2>1, EnforcementConstants DEF NoCrowd
<1>10. QED
    BY <1>3, <1>7, <1>8, <1>9 DEF IndInv

\* The invariant is inductive: every step of customers, Stripe, admin, worker and
\* clock keeps it.
THEOREM Invariance == Spec => []IndInv
<1>1. IndInv /\ [Next]_vars => IndInv'
    BY TypeKept, BasicsKept, DebtsKept, EndsKept, HeldKept, StatusKept, GraceKept,
       RemindersKept, CrowdKept, WarningsKept DEF IndInv
<1>2. QED
    BY <1>1, InitHolds, PTL DEF Spec

\* Every variable has its type, and the stored risk of every purchase is the one
\* mergeLifecycleState derives from the row.
THEOREM TypeCorrect == Spec => []TypeOK
<1>1. IndInv => TypeOK
    BY DEF IndInv
<1>2. QED
    BY <1>1, Invariance, PTL

\* Where only some trouble has been, there has been none of another kind.
LEMMA OnlyOneExcludes ==
    ASSUME NEW kinds, NEW others, kinds \cap others = {}, OnlyOneOf(kinds)
    PROVE  NoTroubleOf(others)
BY DEF OnlyOneOf, NoTroubleOf

\* Without an outage the operator hears of a stalled setup only after its customer.
THEOREM CustomerHearsFirst == Spec => []EscalationFollowsReminder
<1>1. IndInv => EscalationFollowsReminder
    <2>1. SUFFICES ASSUME IndInv, OnlyOneOf(TroubleKind \ {"outage"})
                   PROVE  \A p \in Purchase : escalated[p] => reminded[p]
        BY DEF EscalationFollowsReminder
    <2>2. NoTroubleOf({"outage"})
        BY <2>1, OnlyOneExcludes
    <2>3. QED
        BY <2>1, <2>2 DEF IndInv, RemindersInTime
<1>2. QED
    BY <1>1, Invariance, PTL

\* A purge review comes after every deletion warning, whatever else the worker has to
\* do, as long as there is no outage, no crowd and no edit.
THEOREM ReviewsAreAnnounced == Spec => []DeletionIsAnnounced
<1>1. IndInv => DeletionIsAnnounced
    <2>1. SUFFICES ASSUME IndInv, OnlyOneOf({"lag", "repeat", "retry", "visit", "unpaid"}),
                          NEW p \in Purchase, reviewed[p] > 0
                   PROVE  warned[p] = WarningWindow
        BY DEF DeletionIsAnnounced
    <2>2. NoTroubleOf({"outage", "crowd", "edit"})
        BY <2>1, OnlyOneExcludes
    <2>3. QED
        BY <2>1, <2>2 DEF IndInv, WarningsInTime
<1>2. QED
    BY <1>1, Invariance, PTL

\* Once Stripe's events are handled, a paid service has no debt and its slot is live.
THEOREM PaidServicesAreLive == Spec => []PaymentRestores
<1>1. IndInv => PaymentRestores
    <2>1. SUFFICES ASSUME IndInv, OnlyOneOf({"retry", "outage", "crowd"}), NEW p \in Purchase,
                          row[p].status = "completed", truth[p] = "active", Quiet(p)
                   PROVE  /\ row[p].delinquentAt = 0 /\ row[p].suspendedAt = 0
                          /\ slot[p] = "allocated"
        BY DEF PaymentRestores
    <2>2. NoTroubleOf({"repeat", "edit"}) /\ NoTroubleOf({"unpaid"})
          /\ NoTroubleOf({"lag", "repeat", "visit"})
        BY <2>1, OnlyOneExcludes
    <2>3. unpaidSince[p] = 0 /\ mail[p] = <<>>
        BY <2>1, NumbersAre DEF IndInv, Basics, Quiet
    <2>4. row[p].delinquentAt = 0 /\ row[p].suspendedAt = 0
        BY <2>1, <2>2, <2>3 DEF IndInv, DebtsAreReal
    <2>5. slot[p] # "available"
        BY <2>1, <2>2 DEF IndInv, EndsAreFinal
    <2>6. slot[p] # "held"
        BY <2>1, <2>2, <2>4 DEF IndInv, HeldMeansSuspended
    <2>7. slot[p] \in {"available", "held", "allocated"}
        BY <2>1 DEF IndInv, TypeOK, ServerStatus
    <2>8. QED
        BY <2>4, <2>5, <2>6, <2>7
<1>2. QED
    BY <1>1, Invariance, PTL

\* When the grace period is over and the worker has nothing left to do, the service
\* of a customer who has not paid is suspended.
THEOREM DebtorsAreSuspended == Spec => []UnpaidIsSuspended
<1>1. IndInv => UnpaidIsSuspended
    <2>1. SUFFICES ASSUME IndInv, OnlyOneOf({"crowd", "edit"}), NEW p \in Purchase,
                          row[p].status = "completed", truth[p] = "past_due", Quiet(p),
                          CaughtUp, now >= unpaidSince[p] + SubscriptionGracePeriod,
                          ~(row[p].suspendedAt > 0)
                   PROVE  FALSE
        BY DEF UnpaidIsSuspended, GraceEnds
    <2>2. /\ NoTroubleOf({"unpaid"}) /\ NoTroubleOf({"repeat"})
          /\ NoTroubleOf({"lag", "repeat", "visit"})
          /\ NoTroubleOf({"lag", "repeat", "retry", "outage", "visit", "unpaid"})
        BY <2>1, OnlyOneExcludes
    <2>3. mail[p] = <<>> /\ Waiting(p) = {}
        BY <2>1, QueueTyped DEF IndInv, Quiet
    <2>4. row[p].delinquentAt > 0 /\ row[p].delinquentAt <= unpaidSince[p]
        BY <2>1, <2>2, <2>3 DEF IndInv, GraceStarts
    <2>5. row[p].sub \notin TerminalSubscription
        BY <2>1, <2>2, <2>3 DEF IndInv, StatusArrives, TerminalSubscription
    <2>6. slot[p] = "allocated"
        <3>1. slot[p] # "available"
            BY <2>1, <2>2 DEF IndInv, EndsAreFinal
        <3>2. slot[p] # "held"
            BY <2>1, <2>2 DEF IndInv, HeldMeansSuspended
        <3>3. QED
            BY <2>1, <3>1, <3>2 DEF IndInv, TypeOK, ServerStatus
    <2>7. /\ row[p].suspendedAt = 0
          /\ now >= row[p].delinquentAt + SubscriptionGracePeriod
        <3>1. /\ now \in Nat /\ row[p].suspendedAt \in Nat /\ row[p].delinquentAt \in Nat
              /\ unpaidSince[p] \in Nat /\ SubscriptionGracePeriod \in Nat
            BY <2>1, NumbersAre, EnforcementConstants DEF IndInv
        <3>2. QED
            BY <2>1, <2>4, <3>1
    <2>8. p \in ToSuspend
        BY <2>1, <2>4, <2>5, <2>6, <2>7 DEF ToSuspend, SuspensionRequired
    <2>9. QED
        BY <2>1, <2>8 DEF CaughtUp
<1>2. QED
    BY <1>1, Invariance, PTL

\* Only the operator flags a customer.
LEMMA FlagIs ==
    ASSUME TypeOK, [Next]_vars, NEW q \in Purchase,
           row'[q].risk = "hard_flagged", row[q].risk # "hard_flagged"
    PROVE  MarkHardFlag(q)
<1>1. ASSUME NEW p \in Purchase, NEW r \in Row, row' = [row EXCEPT ![p] = Merged(r)],
             r.risk = row[p].risk
      PROVE  FALSE
    <2>1. /\ row'[p].risk = "hard_flagged" <=> row[p].risk = "hard_flagged"
          /\ \A s \in Purchase \ {p} : row'[s] = row[s]
        BY <1>1, SavedRowTyped
    <2>2. QED
        BY <2>1
<1>2. ASSUME NEW p \in Purchase PROVE row[p] \in Row /\ now \in Day /\ 0 \in Day
    BY EnforcementConstants DEF TypeOK, Day
<1>3. row' # row
    OBVIOUS
<1>4. ASSUME NEW p \in Purchase, Pay(p) PROVE FALSE
    <2>1. PICK r : r = [NoRow EXCEPT !.status = "paid", !.sub = "active", !.paidAt = now]
        OBVIOUS
    <2>2. row' = [row EXCEPT ![p] = r] /\ r.risk = "clear"
        BY <1>4, <2>1 DEF Pay, NoRow
    <2>3. row'[p] = r /\ \A s \in Purchase \ {p} : row'[s] = row[s]
        BY <1>4, <2>2 DEF TypeOK
    <2>4. QED
        BY <2>2, <2>3
<1>5. ASSUME NEW p \in Purchase, SubmitSetup(p) PROVE FALSE
    <2>1. PICK r : r = [row[p] EXCEPT !.named = TRUE]
        OBVIOUS
    <2>2. r \in Row /\ r.risk = row[p].risk
        BY <1>2, <1>5, <2>1 DEF Row
    <2>3. row' = [row EXCEPT ![p] = Merged(r)]
        BY <1>5, <2>1 DEF SubmitSetup
    <2>4. QED
        BY <1>1, <1>5, <2>2, <2>3
<1>6. ASSUME NEW p \in Purchase, Fulfill(p) PROVE FALSE
    <2>1. PICK r : r = [row[p] EXCEPT !.status = "completed"]
        OBVIOUS
    <2>2. r \in Row /\ r.risk = row[p].risk
        BY <1>2, <1>6, <2>1 DEF Row, PurchaseStatus
    <2>3. row' = [row EXCEPT ![p] = Merged(r)]
        BY <1>6, <2>1 DEF Fulfill
    <2>4. QED
        BY <1>1, <1>6, <2>2, <2>3
<1>7. ASSUME NEW p \in Purchase, Confirm(p) PROVE FALSE
    <2>1. PICK r : r = [row[p] EXCEPT !.sub = truth[p], !.delinquentAt = 0, !.suspendedAt = 0]
        OBVIOUS
    <2>2. truth[p] \in Subscription
        BY <1>7 DEF TypeOK
    <2>3. r \in Row /\ r.risk = row[p].risk
        BY <1>2, <1>7, <2>1, <2>2 DEF Row
    <2>4. row' = [row EXCEPT ![p] = Merged(r)]
        BY <1>7, <2>1 DEF Confirm
    <2>5. QED
        BY <1>1, <1>7, <2>3, <2>4
<1>8. ASSUME NEW p \in Purchase, NEW event \in Events, Sync(p, event) PROVE FALSE
    <2>1. /\ row'[p].risk = "hard_flagged" <=> row[p].risk = "hard_flagged"
          /\ \A s \in Purchase \ {p} : row'[s] = row[s]
        BY <1>8, SyncIs
    <2>2. QED
        BY <2>1
<1>9. ASSUME NEW p \in Purchase, NEW stamp \in {0, now},
             row' = [row EXCEPT ![p] = Merged([@ EXCEPT !.suspendedAt = stamp])]
      PROVE  FALSE
    <2>1. PICK r : r = [row[p] EXCEPT !.suspendedAt = stamp]
        OBVIOUS
    <2>2. r \in Row /\ r.risk = row[p].risk
        BY <1>2, <1>9, <2>1 DEF Row
    <2>3. row' = [row EXCEPT ![p] = Merged(r)]
        BY <1>9, <2>1
    <2>4. QED
        BY <1>1, <1>9, <2>2, <2>3
<1>10. ASSUME Suspend PROVE FALSE
    <2>1. PICK p : p = Earliest(ToSuspend, Delinquency)
        OBVIOUS
    <2>2. row' = [row EXCEPT ![p] = Merged([@ EXCEPT !.suspendedAt = now])]
        BY <1>10, <2>1 DEF Suspend
    <2>3. p \in Purchase
        <3>1. ToSuspend \in SUBSET Purchase /\ ToSuspend # {}
            BY <1>10 DEF Suspend, ToSuspend
        <3>2. Delinquency \in [Purchase -> Nat]
            BY DEF Delinquency, TypeOK, Row, Day
        <3>3. QED
            BY <2>1, <3>1, <3>2, EarliestExists
    <2>4. QED
        BY <1>9, <2>2, <2>3
<1>11. ASSUME NEW p \in Purchase, AdminSuspend(p) PROVE FALSE
    BY <1>9, <1>11 DEF AdminSuspend
<1>12. ASSUME NEW p \in Purchase, AdminReinstate(p) PROVE FALSE
    BY <1>9, <1>12 DEF AdminReinstate
<1>13. ASSUME NEW p \in Purchase, StripeStep(p) PROVE FALSE
    BY <1>3, <1>13, StripeSends
<1>14. ASSUME NEW p \in Purchase, NEW lost \in BOOLEAN, Handle(p, lost) PROVE FALSE
    BY <1>8, <1>14, HandledIs
<1>15. ASSUME NEW p \in Purchase, NEW event \in late[p], HandleAgain(p, event) PROVE FALSE
    BY <1>8, <1>15 DEF HandleAgain, TypeOK
<1>16. ~(Remind \/ Escalate \/ Warn \/ OpenReview \/ NewDay \/ UNCHANGED vars)
    BY <1>3 DEF Remind, Escalate, Warn, OpenReview, NewDay, vars
<1>17. ASSUME NEW p \in Purchase, MarkHardFlag(p) PROVE p = q
    BY <1>17, MarkHardFlagIs
<1>18. QED
    BY <1>4, <1>5, <1>6, <1>7, <1>10, <1>11, <1>12, <1>13, <1>14, <1>15, <1>16, <1>17
       DEF Next, CustomerStep, AdminStep, WorkerStep

\* Nobody is suspended before the grace period is over, and no service is put up for
\* the purge before the retention that follows, both counted from the first failed
\* payment as Stripe knows it; events that come late or together, failed retries,
\* outages and visits of the success page do not change that.
THEOREM NobodyIsEarly == Spec => NothingBeforeItsTime
<1>1. ASSUME IndInv, Next,
             OnlyOneOf({"lag", "retry", "outage", "crowd", "visit", "unpaid"})',
             NEW p \in Purchase
      PROVE  /\ row[p].suspendedAt = 0 /\ row'[p].suspendedAt > 0 =>
                    HasOwed(p, SubscriptionGracePeriod)
             /\ GoesForPurge(p) =>
                    HasOwed(p, SubscriptionGracePeriod + SuspensionRetention)
    <2>1. NoTroubleOf({"repeat", "edit"})'
        BY <1>1 DEF OnlyOneOf, NoTroubleOf
    <2>2. /\ NoTroubleOf({"repeat", "edit"})
          /\ "edit" \notin trouble'
        BY <1>1, <2>1, NoTroubleBefore DEF IndInv, NoTroubleOf
    <2>3. /\ now \in Nat \ {0} /\ row[p].suspendedAt \in Nat /\ row[p].delinquentAt \in Nat
          /\ unpaidSince[p] \in Nat
          /\ SubscriptionGracePeriod \in Nat /\ SuspensionRetention \in Nat
        BY <1>1, NumbersAre, EnforcementConstants DEF IndInv
    <2>4. mail[p] = <<>> =>
            /\ unpaidSince[p] = 0 => row[p].delinquentAt = 0 /\ row[p].suspendedAt = 0
            /\ unpaidSince[p] > 0 => NotOlder(p)
        BY <1>1, <2>2, QueueTyped DEF IndInv, DebtsAreReal
    <2>5. ASSUME row[p].suspendedAt = 0, row'[p].suspendedAt > 0
          PROVE  HasOwed(p, SubscriptionGracePeriod)
        <3>1. Suspend
            <4>1. TypeOK /\ Basics
                BY <1>1 DEF IndInv
            <4>2. QED
                BY <1>1, <2>2, <2>5, <4>1, SuspensionIs
        <3>2. PICK q \in ToSuspend : \A r \in Purchase \ {q} : row'[r] = row[r]
            BY <1>1, <3>1, SuspendIs DEF IndInv
        <3>3. q = p
            BY <2>5, <3>2
        <3>4. /\ row[p].delinquentAt > 0
              /\ now >= row[p].delinquentAt + SubscriptionGracePeriod
            BY <3>2, <3>3 DEF ToSuspend, SuspensionRequired
        <3>5. CASE mail[p] # <<>>
            BY <3>5 DEF HasOwed
        <3>6. CASE mail[p] = <<>>
            <4>1. unpaidSince[p] > 0 /\ row[p].delinquentAt >= unpaidSince[p]
                BY <2>3, <2>4, <3>4, <3>6 DEF NotOlder
            <4>2. now >= unpaidSince[p] + SubscriptionGracePeriod
                BY <2>3, <3>4, <4>1
            <4>3. QED
                BY <4>1, <4>2 DEF HasOwed
        <3>7. QED
            BY <3>5, <3>6
    <2>6. ASSUME GoesForPurge(p)
          PROVE  HasOwed(p, SubscriptionGracePeriod + SuspensionRetention)
        <3>1. PurgeRequired(row[p].suspendedAt, now, SuspensionRetention)
            <4>1. CASE reviewed'[p] # reviewed[p]
                <5>1. OpenReview
                    BY <1>1, <4>1 DEF Next, CustomerStep, StripeStep, AdminStep, WorkerStep,
                        Pay, SubmitSetup, Fulfill, Confirm, RenewalFails, RetryFails,
                        RenewalSucceeds, Ends, TurnsUnpaid, Sends, Handle, HandleAgain,
                        AdminSuspend, AdminReinstate, MarkHardFlag, Remind, Escalate, Warn,
                        Suspend, NewDay, recordVars
                <5>2. PICK q \in ToReview : reviewed' = [reviewed EXCEPT ![q] = now]
                    BY <1>1, <5>1, OpenReviewIs DEF IndInv
                <5>3. q = p
                    BY <1>1, <4>1, <5>2 DEF IndInv, TypeOK
                <5>4. QED
                    BY <5>2, <5>3 DEF ToReview
            <4>2. CASE row'[p].risk = "hard_flagged" /\ row[p].risk # "hard_flagged"
                <5>1. MarkHardFlag(p)
                    BY <1>1, <4>2, FlagIs DEF IndInv
                <5>2. QED
                    BY <5>1 DEF MarkHardFlag
            <4>3. QED
                BY <2>6, <4>1, <4>2 DEF GoesForPurge
        <3>2. row[p].suspendedAt > 0 /\ now >= row[p].suspendedAt + SuspensionRetention
            BY <3>1 DEF PurgeRequired
        <3>3. CASE mail[p] # <<>>
            BY <3>3 DEF HasOwed
        <3>4. CASE mail[p] = <<>>
            <4>1. /\ unpaidSince[p] > 0
                  /\ row[p].suspendedAt >= unpaidSince[p] + SubscriptionGracePeriod
                BY <2>3, <2>4, <3>2, <3>4 DEF NotOlder
            <4>2. now >= unpaidSince[p] + (SubscriptionGracePeriod + SuspensionRetention)
                BY <2>3, <3>2, <4>1
            <4>3. QED
                BY <4>1, <4>2 DEF HasOwed
        <3>5. QED
            BY <3>3, <3>4
    <2>7. QED
        BY <2>5, <2>6
<1>2. IndInv /\ [Next]_vars =>
        [OnlyOneOf({"lag", "retry", "outage", "crowd", "visit", "unpaid"})' =>
            \A p \in Purchase :
                /\ row[p].suspendedAt = 0 /\ row'[p].suspendedAt > 0 =>
                        HasOwed(p, SubscriptionGracePeriod)
                /\ GoesForPurge(p) =>
                        HasOwed(p, SubscriptionGracePeriod + SuspensionRetention)]_vars
    BY <1>1
<1>3. QED
    BY Invariance, <1>2, PTL DEF Spec, NothingBeforeItsTime
=============================================================================
