------------------------- MODULE SlotInventoryProofs -------------------------
(***************************************************************************)
(* Proofs about SlotInventory, for every value of its constants.           *)
(***************************************************************************)
EXTENDS SlotInventory, SequenceTheorems, TLAPS

(***************************************************************************)
(* The types                                                               *)
(***************************************************************************)

\* The events whose handlers save the row as they have read it.
Saving == {"completed", "changed", "invoice_paid", "invoice_failed"}

WorksOn(h, p) == Working(h) /\ job[h].purchase = p

\* One crash puts at most one event more into a mailbox than Stripe would.
MailFits ==
    /\ mail \in [Purchase -> Seq(Events)]
    /\ \A p \in Purchase :
        /\ Len(mail[p]) <= MaxMail + IF "crash" \in trouble THEN 1 ELSE 0
        /\ \A i \in DOMAIN mail[p] : mail[p][i].kind # "abandoned"

\* Nothing is known of a purchase before its checkout, at Stripe or here.
RowFits(p) ==
    /\ row[p].status = "none" => row[p] = NoRow /\ session[p] = "none" /\ mail[p] = <<>>
    /\ session[p] = "none" => row[p].status = "none"
    /\ truth[p] = "none" <=> session[p] # "complete"

\* A handler is about a purchase that is there and about its slot, except for the
\* clean-up of a checkout, and has the steps of its event only.
JobFits(h) ==
    LET p == job[h].purchase
        kind == job[h].event.kind
    IN  /\ kind = "abandoned" => ~job[h].mailed /\ job[h].slot \in Slot /\ "failure" \in trouble
        /\ kind # "abandoned" => row[p].status # "none" /\ job[h].slot = row[p].serverId
        /\ kind \in {"abandoned", "expired"} => step[h] # "reallocate"
        /\ kind = "completed" => step[h] \in {"read", "save"}
        /\ step[h] = "save" /\ kind \in Saving =>
                job[h].seen.status # "none" /\ job[h].seen.serverId = job[h].slot

Fits ==
    /\ TypeOK
    /\ MailFits
    /\ job = [h \in Handler |-> job[h]]
    /\ \A p \in Purchase : RowFits(p)
    /\ \A h \in Handler : Working(h) => JobFits(h)

(***************************************************************************)
(* Mailboxes                                                               *)
(***************************************************************************)

\* An event of s \o t is one of s or of t.
LEMMA ConcatIs ==
    ASSUME NEW s \in Seq(Events), NEW t \in Seq(Events)
    PROVE  /\ s \o t \in Seq(Events) /\ Len(s \o t) = Len(s) + Len(t)
           /\ \A i \in DOMAIN (s \o t) :
                \/ i \in DOMAIN s /\ (s \o t)[i] = s[i]
                \/ i - Len(s) \in DOMAIN t /\ (s \o t)[i] = t[i - Len(s)]
<1>1. /\ s \o t \in Seq(Events) /\ Len(s \o t) = Len(s) + Len(t)
      /\ \A i \in 1 .. Len(s) + Len(t) : (s \o t)[i] = IF i <= Len(s) THEN s[i] ELSE t[i - Len(s)]
    BY ConcatProperties
<1>2. /\ DOMAIN s = 1 .. Len(s) /\ DOMAIN t = 1 .. Len(t) /\ DOMAIN (s \o t) = 1 .. Len(s \o t)
      /\ Len(s) \in Nat /\ Len(t) \in Nat
    BY <1>1, LenProperties
<1>3. QED
    BY <1>1, <1>2

\* Without its i-th event a mailbox has the others, each once.
LEMMA RemoveAtIs ==
    ASSUME NEW s \in Seq(Events), NEW i \in 1 .. Len(s)
    PROVE  /\ RemoveAt(s, i) \in Seq(Events) /\ Len(RemoveAt(s, i)) = Len(s) - 1
           /\ DOMAIN RemoveAt(s, i) = 1 .. Len(s) - 1
           /\ \A j \in 1 .. Len(s) - 1 :
                RemoveAt(s, i)[j] = s[IF j < i THEN j ELSE j + 1]
<1>1. Len(s) \in Nat /\ \A j \in 1 .. Len(s) : s[j] \in Events
    BY LenProperties
<1>2. PICK front : front = SubSeq(s, 1, i - 1)
    OBVIOUS
<1>3. PICK back : back = SubSeq(s, i + 1, Len(s))
    OBVIOUS
<1>4. /\ front \in Seq(Events) /\ Len(front) = i - 1
      /\ \A j \in 1 .. i - 1 : front[j] = s[j]
    <2>1. \A j \in 1 .. i - 1 : s[j] \in Events
        BY <1>1
    <2>2. 1 \in Int /\ i - 1 \in Int
        BY <1>1
    <2>3. /\ front \in Seq(Events) /\ Len(front) = IF 1 <= i - 1 THEN i - 1 - 1 + 1 ELSE 0
          /\ \A j \in 1 .. i - 1 - 1 + 1 : front[j] = s[1 + j - 1]
        BY <1>2, <2>1, <2>2, SubSeqProperties
    <2>4. QED
        BY <1>1, <2>3
<1>5. /\ back \in Seq(Events) /\ Len(back) = Len(s) - i
      /\ \A j \in 1 .. Len(s) - i : back[j] = s[i + j]
    <2>1. \A j \in i + 1 .. Len(s) : s[j] \in Events
        BY <1>1
    <2>2. i + 1 \in Int /\ Len(s) \in Int
        BY <1>1
    <2>3. /\ back \in Seq(Events)
          /\ Len(back) = IF i + 1 <= Len(s) THEN Len(s) - (i + 1) + 1 ELSE 0
          /\ \A j \in 1 .. Len(s) - (i + 1) + 1 : back[j] = s[i + 1 + j - 1]
        BY <1>3, <2>1, <2>2, SubSeqProperties
    <2>4. QED
        BY <1>1, <2>3
<1>6. RemoveAt(s, i) = front \o back
    BY <1>2, <1>3 DEF RemoveAt
<1>7. /\ front \o back \in Seq(Events) /\ Len(front \o back) = Len(front) + Len(back)
      /\ \A j \in 1 .. Len(front) + Len(back) :
            (front \o back)[j] = IF j <= Len(front) THEN front[j] ELSE back[j - Len(front)]
    BY <1>4, <1>5, ConcatProperties
<1>8. DOMAIN (front \o back) = 1 .. Len(front \o back)
    BY <1>7, LenProperties
<1>9. Len(front) + Len(back) = Len(s) - 1
    BY <1>1, <1>4, <1>5
<1>10. ASSUME NEW j \in 1 .. Len(s) - 1
       PROVE  (front \o back)[j] = s[IF j < i THEN j ELSE j + 1]
    <2>1. CASE j < i
        BY <1>1, <1>4, <1>7, <1>9, <2>1
    <2>2. CASE ~(j < i)
        <3>1. j - (i - 1) \in 1 .. Len(s) - i
            BY <1>1, <2>2
        <3>2. (front \o back)[j] = back[j - (i - 1)]
            BY <1>1, <1>4, <1>7, <1>9, <2>2
        <3>3. QED
            BY <1>1, <1>5, <2>2, <3>1, <3>2
    <2>3. QED
        BY <2>1, <2>2
<1>11. QED
    BY <1>1, <1>6, <1>7, <1>8, <1>9, <1>10

\* An event at the end or at the front.
LEMMA OneMore ==
    ASSUME NEW s \in Seq(Events), NEW e \in Events
    PROVE  /\ Append(s, e) = s \o <<e>>
           /\ <<e>> \in Seq(Events) /\ Len(<<e>>) = 1
           /\ DOMAIN <<e>> = {1} /\ <<e>>[1] = e
<1>1. <<e>> \in Seq(Events) /\ Len(<<e>>) = 1 /\ <<e>>[1] = e
    OBVIOUS
<1>2. DOMAIN <<e>> = {1}
    BY <1>1, LenProperties
<1>3. QED
    BY <1>1, <1>2, AppendIsConcat

(***************************************************************************)
(* What a step leaves alone                                                *)
(***************************************************************************)

\* A step is about p.
About(p) ==
    \A q \in Purchase \ {p} :
        /\ row'[q] = row[q] /\ session'[q] = session[q]
        /\ truth'[q] = truth[q] /\ mail'[q] = mail[q]

\* Of the handlers only h moves.
Only(h) == \A k \in Handler \ {h} : step'[k] = step[k] /\ job'[k] = job[k]

\* A purchase stays, with its slot.
Lasts(p) ==
    row[p].status # "none" =>
        row'[p].status # "none" /\ row'[p].serverId = row[p].serverId

\* What a handler has in hand is of its type.
LEMMA HandlerIs ==
    ASSUME Fits, NEW h \in Handler, Working(h)
    PROVE  /\ job[h] \in Job /\ JobFits(h)
           /\ job[h].purchase \in Purchase /\ job[h].event \in Events
           /\ job[h].slot \in Slot \cup {NoSlot} /\ job[h].seen \in Row
           /\ job[h].sub \in Subscription /\ job[h].mailed \in BOOLEAN
           /\ row[job[h].purchase] \in Row
<1>1. job[h] \in Job /\ JobFits(h)
    BY DEF Fits, TypeOK
<1>2. QED
    BY <1>1 DEF Job, Fits, TypeOK

\* A purchase that is there has a slot.
LEMMA RowIs ==
    ASSUME Fits, NEW p \in Purchase
    PROVE  /\ row[p] \in Row /\ RowFits(p)
           /\ row[p].serverId \in Slot \cup {NoSlot}
           /\ row[p].status # "none" => row[p].serverId \in Slot
           /\ row[p].status \in PurchaseStatus \cup {"none"} /\ row[p].sub \in Subscription
           /\ row[p].delinquent \in BOOLEAN /\ row[p].suspended \in BOOLEAN
           /\ row[p].pending \in BOOLEAN
           /\ mail[p] \in Seq(Events) /\ Len(mail[p]) \in Nat
           /\ session[p] \in {"none", "open", "complete", "expired"}
           /\ truth[p] \in Subscription
<1>1. row[p] \in Row /\ RowFits(p) /\ (row[p].serverId = NoSlot <=> row[p].status = "none")
    BY DEF Fits, TypeOK
<1>2. mail[p] \in Seq(Events)
    BY DEF Fits, MailFits
<1>3. Len(mail[p]) \in Nat
    BY <1>2, LenProperties
<1>4. QED
    BY <1>1, <1>2, <1>3 DEF Row, Fits, TypeOK

\* A step about p that leaves p, its mailbox and the jobs in hand well typed leaves
\* everything so.
LEMMA FitsMove ==
    ASSUME Fits, NEW p \in Purchase, About(p), Lasts(p),
           row' \in [Purchase -> Row], row'[p].serverId = NoSlot <=> row'[p].status = "none",
           linked' \in [Purchase -> BOOLEAN], slot' \in [Slot -> ServerStatus],
           session' \in [Purchase -> {"none", "open", "complete", "expired"}],
           truth' \in [Purchase -> Subscription],
           mail' \in [Purchase -> Seq(Events)],
           Len(mail'[p]) <= MaxMail + IF "crash" \in trouble' THEN 1 ELSE 0,
           \A i \in DOMAIN mail'[p] : mail'[p][i].kind # "abandoned",
           RowFits(p)',
           step' \in [Handler -> {"idle", "read", "save", "release", "reallocate"}],
           job' = [h \in Handler |-> job'[h]],
           \A h \in Handler :
                \/ step'[h] = step[h] /\ job'[h] = job[h]
                \/ step'[h] = "idle" /\ job'[h] = <<>>
                \/ Working(h)' /\ job'[h] \in Job /\ JobFits(h)',
           trouble \subseteq trouble', trouble' \subseteq Trouble
    PROVE  Fits'
<1>1. \A q \in Purchase : Lasts(q)
    BY DEF About, Lasts
<1>2. ASSUME NEW h \in Handler
      PROVE  /\ IF Working(h)' THEN job'[h] \in Job ELSE job'[h] = <<>>
             /\ Working(h)' => JobFits(h)'
    <2>1. CASE step'[h] = step[h] /\ job'[h] = job[h]
        <3>1. CASE Working(h)
            <4>1. job[h] \in Job /\ JobFits(h) /\ job[h].purchase \in Purchase
                BY <3>1, HandlerIs
            <4>2. JobFits(h)'
                BY <1>1, <2>1, <4>1 DEF JobFits, Lasts
            <4>3. QED
                BY <2>1, <3>1, <4>1, <4>2 DEF Working
        <3>2. CASE ~Working(h)
            BY <2>1, <3>2 DEF Working, Fits, TypeOK
        <3>3. QED
            BY <3>1, <3>2
    <2>2. CASE step'[h] = "idle" /\ job'[h] = <<>>
        BY <2>2 DEF Working
    <2>3. CASE Working(h)' /\ job'[h] \in Job /\ JobFits(h)'
        BY <2>3
    <2>4. QED
        BY <2>1, <2>2, <2>3
<1>3. ASSUME NEW q \in Purchase
      PROVE  /\ row'[q].serverId = NoSlot <=> row'[q].status = "none"
             /\ RowFits(q)'
             /\ Len(mail'[q]) <= MaxMail + IF "crash" \in trouble' THEN 1 ELSE 0
             /\ \A i \in DOMAIN mail'[q] : mail'[q][i].kind # "abandoned"
    <2>1. CASE q = p
        BY <2>1
    <2>2. CASE q # p
        <3>1. /\ row'[q] = row[q] /\ session'[q] = session[q]
              /\ truth'[q] = truth[q] /\ mail'[q] = mail[q]
            BY <2>2 DEF About
        <3>2. Len(mail[q]) <= MaxMail + IF "crash" \in trouble' THEN 1 ELSE 0
            <4>1. Len(mail[q]) <= MaxMail + IF "crash" \in trouble THEN 1 ELSE 0
                BY DEF Fits, MailFits
            <4>2. QED
                BY <4>1, RowIs, SlotConstants
        <3>3. QED
            BY <3>1, <3>2 DEF Fits, TypeOK, RowFits, MailFits
    <2>3. QED
        BY <2>1, <2>2
<1>4. MailFits'
    BY <1>3 DEF MailFits
<1>5. \A q \in Purchase : Len(mail'[q]) <= MaxMail + 1 /\ mail'[q] \in Seq(Events)
    <2>1. \A q \in Purchase : Len(mail'[q]) \in Nat
        BY LenProperties
    <2>2. QED
        BY <1>3, <2>1, SlotConstants
<1>6. TypeOK'
    BY <1>2, <1>3, <1>5 DEF TypeOK
<1>7. QED
    BY <1>2, <1>3, <1>4, <1>6 DEF Fits

(***************************************************************************)
(* Every step keeps the types                                              *)
(***************************************************************************)

\* Trouble is never forgotten.
LEMMA CausesMore ==
    ASSUME Fits, NEW kinds, Causes(kinds)
    PROVE  trouble \subseteq trouble' /\ trouble' \subseteq Trouble /\ kinds \subseteq trouble'
BY DEF Causes, Fits, TypeOK

\* Stripe sends events about a purchase that has a session.
LEMMA SendsFits ==
    ASSUME Fits, NEW p \in Purchase, NEW events \in Seq(Events), Sends(p, events),
           \A i \in DOMAIN events : events[i].kind # "abandoned",
           NEW s \in {"open", "complete", "expired"}, session' = [session EXCEPT ![p] = s],
           NEW t \in Subscription, truth' = [truth EXCEPT ![p] = t],
           session[p] # "none", t = "none" <=> s # "complete"
    PROVE  Fits'
<1>1. /\ mail' = [mail EXCEPT ![p] = @ \o events]
      /\ row' = row /\ linked' = linked /\ slot' = slot /\ step' = step /\ job' = job
      /\ Len(mail[p]) + Len(events) <= MaxMail
    BY DEF Sends, handlerVars
<1>2. trouble \subseteq trouble' /\ trouble' \subseteq Trouble
    BY CausesMore DEF Sends
<1>3. /\ mail[p] \o events \in Seq(Events)
      /\ Len(mail[p] \o events) = Len(mail[p]) + Len(events)
      /\ \A i \in DOMAIN (mail[p] \o events) :
            \/ i \in DOMAIN mail[p] /\ (mail[p] \o events)[i] = mail[p][i]
            \/ i - Len(mail[p]) \in DOMAIN events
               /\ (mail[p] \o events)[i] = events[i - Len(mail[p])]
    BY RowIs, ConcatIs
<1>4. /\ mail' \in [Purchase -> Seq(Events)] /\ mail'[p] = mail[p] \o events
      /\ \A q \in Purchase \ {p} : mail'[q] = mail[q]
    BY <1>1, <1>3 DEF Fits, MailFits
<1>5. /\ session' \in [Purchase -> {"none", "open", "complete", "expired"}]
      /\ truth' \in [Purchase -> Subscription]
      /\ session'[p] = s /\ truth'[p] = t
      /\ \A q \in Purchase \ {p} : session'[q] = session[q] /\ truth'[q] = truth[q]
    BY DEF Fits, TypeOK
<1>6. Len(mail'[p]) <= MaxMail + IF "crash" \in trouble' THEN 1 ELSE 0
    <2>1. Len(mail'[p]) \in Nat
        BY <1>3, <1>4, LenProperties
    <2>2. QED
        BY <1>1, <1>3, <1>4, <2>1, SlotConstants
<1>7. \A i \in DOMAIN mail'[p] : mail'[p][i].kind # "abandoned"
    BY <1>3, <1>4 DEF Fits, MailFits
<1>8. About(p) /\ Lasts(p)
    BY <1>1, <1>4, <1>5 DEF About, Lasts
<1>9. RowFits(p)'
    <2>1. row[p].status # "none"
        BY RowIs DEF RowFits
    <2>2. QED
        BY <1>1, <1>5, <2>1 DEF RowFits
<1>10. \A h \in Handler : step'[h] = step[h] /\ job'[h] = job[h]
    BY <1>1
<1>11. job' = [h \in Handler |-> job'[h]]
    BY <1>1 DEF Fits
<1>12. /\ row' \in [Purchase -> Row] /\ linked' \in [Purchase -> BOOLEAN]
       /\ slot' \in [Slot -> ServerStatus]
       /\ row'[p].serverId = NoSlot <=> row'[p].status = "none"
       /\ step' \in [Handler -> {"idle", "read", "save", "release", "reallocate"}]
    BY <1>1 DEF Fits, TypeOK
<1>13. QED
    BY <1>2, <1>4, <1>5, <1>6, <1>7, <1>8, <1>9, <1>10, <1>11, <1>12, FitsMove

\* One event or two.
LEMMA EventsAre ==
    ASSUME NEW e \in Events, NEW f \in Events
    PROVE  /\ <<e>> \in Seq(Events) /\ Len(<<e>>) = 1 /\ DOMAIN <<e>> = {1} /\ <<e>>[1] = e
           /\ <<e, f>> \in Seq(Events) /\ Len(<<e, f>>) = 2 /\ DOMAIN <<e, f>> = {1, 2}
           /\ <<e, f>>[1] = e /\ <<e, f>>[2] = f
<1>1. /\ <<e, f>> \in Seq(Events) /\ Len(<<e, f>>) = 2
      /\ <<e, f>>[1] = e /\ <<e, f>>[2] = f
    OBVIOUS
<1>2. DOMAIN <<e, f>> = 1 .. 2
    BY <1>1, LenProperties
<1>3. QED
    BY <1>1, <1>2, OneMore

\* The steps of Stripe but TurnsUnpaid are sendings.
LEMMA StripeFits ==
    ASSUME Fits, NEW p \in Purchase,
           Pay(p) \/ SessionExpires(p) \/ RenewalFails(p) \/ RenewalSucceeds(p) \/ Ends(p)
    PROVE  Fits'
<1>1. /\ session[p] \in {"none", "open", "complete", "expired"} /\ truth[p] \in Subscription
      /\ truth[p] = "none" <=> session[p] # "complete"
    BY RowIs DEF RowFits
<1>2. \A f \in {session, truth} : f = [f EXCEPT ![p] = f[p]]
    BY DEF Fits, TypeOK
<1>3. CASE Pay(p)
    <2>1. /\ session[p] = "open" /\ session' = [session EXCEPT ![p] = "complete"]
          /\ truth' = [truth EXCEPT ![p] = "active"]
          /\ Sends(p, <<Event("completed", "none"), Event("changed", "active")>>)
        BY <1>3 DEF Pay
    <2>2. /\ Event("completed", "none") \in Events /\ Event("changed", "active") \in Events
          /\ Event("completed", "none").kind = "completed"
          /\ Event("changed", "active").kind = "changed"
        BY DEF Event, Events, EventKind, Subscription
    <2>3. PICK e \in Events : e = Event("completed", "none")
        BY <2>2
    <2>4. PICK f \in Events : f = Event("changed", "active")
        BY <2>2
    <2>5. \A i \in DOMAIN <<e, f>> : <<e, f>>[i].kind # "abandoned"
        BY <2>2, <2>3, <2>4, EventsAre
    <2>6. "complete" \in {"open", "complete", "expired"} /\ "active" \in Subscription
        BY DEF Subscription
    <2>7. Sends(p, <<e, f>>)
        BY <2>1, <2>3, <2>4
    <2>8. QED
        BY <2>1, <2>5, <2>6, <2>7, EventsAre, SendsFits
<1>4. CASE SessionExpires(p)
    <2>1. /\ session[p] = "open" /\ session' = [session EXCEPT ![p] = "expired"]
          /\ truth' = [truth EXCEPT ![p] = "none"]
          /\ Sends(p, <<Event("expired", "none")>>)
        BY <1>1, <1>2, <1>4 DEF SessionExpires
    <2>2. Event("expired", "none") \in Events /\ Event("expired", "none").kind = "expired"
        BY DEF Event, Events, EventKind, Subscription
    <2>3. PICK e \in Events : e = Event("expired", "none")
        BY <2>2
    <2>5. \A i \in DOMAIN <<e>> : <<e>>[i].kind # "abandoned"
        BY <2>2, <2>3, EventsAre
    <2>6. "expired" \in {"open", "complete", "expired"} /\ "none" \in Subscription
        BY DEF Subscription
    <2>7. Sends(p, <<e>>)
        BY <2>1, <2>3
    <2>8. QED
        BY <2>1, <2>5, <2>6, <2>7, EventsAre, SendsFits
<1>5. CASE RenewalFails(p)
    <2>1. /\ session[p] = "complete" /\ session' = [session EXCEPT ![p] = "complete"]
          /\ truth' = [truth EXCEPT ![p] = "past_due"]
          /\ Sends(p, <<Event("invoice_failed", "none"), Event("changed", "past_due")>>)
        BY <1>1, <1>2, <1>5 DEF RenewalFails
    <2>2. /\ Event("invoice_failed", "none") \in Events /\ Event("changed", "past_due") \in Events
          /\ Event("invoice_failed", "none").kind = "invoice_failed"
          /\ Event("changed", "past_due").kind = "changed"
        BY DEF Event, Events, EventKind, Subscription
    <2>3. PICK e \in Events : e = Event("invoice_failed", "none")
        BY <2>2
    <2>4. PICK f \in Events : f = Event("changed", "past_due")
        BY <2>2
    <2>5. \A i \in DOMAIN <<e, f>> : <<e, f>>[i].kind # "abandoned"
        BY <2>2, <2>3, <2>4, EventsAre
    <2>6. "complete" \in {"open", "complete", "expired"} /\ "past_due" \in Subscription
        BY DEF Subscription
    <2>7. Sends(p, <<e, f>>)
        BY <2>1, <2>3, <2>4
    <2>8. QED
        BY <2>1, <2>5, <2>6, <2>7, EventsAre, SendsFits
<1>6. CASE RenewalSucceeds(p)
    <2>1. /\ session[p] = "complete" /\ session' = [session EXCEPT ![p] = "complete"]
          /\ truth' = [truth EXCEPT ![p] = "active"]
          /\ Sends(p, <<Event("invoice_paid", "none"), Event("changed", "active")>>)
        BY <1>1, <1>2, <1>6 DEF RenewalSucceeds
    <2>2. /\ Event("invoice_paid", "none") \in Events /\ Event("changed", "active") \in Events
          /\ Event("invoice_paid", "none").kind = "invoice_paid"
          /\ Event("changed", "active").kind = "changed"
        BY DEF Event, Events, EventKind, Subscription
    <2>3. PICK e \in Events : e = Event("invoice_paid", "none")
        BY <2>2
    <2>4. PICK f \in Events : f = Event("changed", "active")
        BY <2>2
    <2>5. \A i \in DOMAIN <<e, f>> : <<e, f>>[i].kind # "abandoned"
        BY <2>2, <2>3, <2>4, EventsAre
    <2>6. "complete" \in {"open", "complete", "expired"} /\ "active" \in Subscription
        BY DEF Subscription
    <2>7. Sends(p, <<e, f>>)
        BY <2>1, <2>3, <2>4
    <2>8. QED
        BY <2>1, <2>5, <2>6, <2>7, EventsAre, SendsFits
<1>7. CASE Ends(p)
    <2>1. /\ session[p] = "complete" /\ session' = [session EXCEPT ![p] = "complete"]
          /\ truth' = [truth EXCEPT ![p] = "canceled"]
          /\ Sends(p, <<Event("changed", "canceled")>>)
        BY <1>1, <1>2, <1>7 DEF Ends
    <2>2. Event("changed", "canceled") \in Events /\ Event("changed", "canceled").kind = "changed"
        BY DEF Event, Events, EventKind, Subscription
    <2>3. PICK e \in Events : e = Event("changed", "canceled")
        BY <2>2
    <2>5. \A i \in DOMAIN <<e>> : <<e>>[i].kind # "abandoned"
        BY <2>2, <2>3, EventsAre
    <2>6. "complete" \in {"open", "complete", "expired"} /\ "canceled" \in Subscription
        BY DEF Subscription
    <2>7. Sends(p, <<e>>)
        BY <2>1, <2>3
    <2>8. QED
        BY <2>1, <2>5, <2>6, <2>7, EventsAre, SendsFits
<1>8. QED
    BY <1>3, <1>4, <1>5, <1>6, <1>7

\* A step of ours: Stripe stands still, and p keeps its slot.
LEMMA OursFits ==
    ASSUME Fits, NEW p \in Purchase, NEW r \in Row, row' = [row EXCEPT ![p] = r],
           \/ r = row[p]
           \/ row[p].status # "none" /\ r.status # "none" /\ r.serverId = row[p].serverId,
           linked' \in [Purchase -> BOOLEAN], slot' \in [Slot -> ServerStatus],
           session' = session, truth' = truth, mail' = mail,
           step' \in [Handler -> {"idle", "read", "save", "release", "reallocate"}],
           job' = [h \in Handler |-> job'[h]],
           \A h \in Handler :
                \/ step'[h] = step[h] /\ job'[h] = job[h]
                \/ step'[h] = "idle" /\ job'[h] = <<>>
                \/ Working(h)' /\ job'[h] \in Job /\ JobFits(h)',
           trouble \subseteq trouble', trouble' \subseteq Trouble
    PROVE  Fits'
<1>1. /\ row' \in [Purchase -> Row] /\ row'[p] = r
      /\ \A q \in Purchase \ {p} : row'[q] = row[q]
    BY DEF Fits, TypeOK
<1>2. About(p) /\ Lasts(p)
    BY <1>1 DEF About, Lasts
<1>3. row'[p].serverId = NoSlot <=> row'[p].status = "none"
    BY <1>1 DEF Fits, TypeOK
<1>4. RowFits(p)'
    BY <1>1, RowIs DEF RowFits
<1>5. /\ session' \in [Purchase -> {"none", "open", "complete", "expired"}]
      /\ truth' \in [Purchase -> Subscription] /\ mail' \in [Purchase -> Seq(Events)]
    BY DEF Fits, TypeOK, MailFits
<1>6. Len(mail'[p]) <= MaxMail + IF "crash" \in trouble' THEN 1 ELSE 0
    <2>1. Len(mail[p]) <= MaxMail + IF "crash" \in trouble THEN 1 ELSE 0
        BY DEF Fits, MailFits
    <2>2. QED
        BY <2>1, RowIs, SlotConstants
<1>7. \A i \in DOMAIN mail'[p] : mail'[p][i].kind # "abandoned"
    BY DEF Fits, MailFits
<1>8. QED
    BY <1>1, <1>2, <1>3, <1>4, <1>5, <1>6, <1>7, FitsMove

\* A step that changes a mailbox, and the handler of one of its events at most.
LEMMA MailboxFits ==
    ASSUME Fits, NEW p \in Purchase, NEW m \in Seq(Events), mail' = [mail EXCEPT ![p] = m],
           row[p].status = "none" => m = <<>>,
           Len(m) <= MaxMail + IF "crash" \in trouble' THEN 1 ELSE 0,
           \A i \in DOMAIN m : m[i].kind # "abandoned",
           row' = row, linked' = linked, slot' = slot, session' = session, truth' = truth,
           step' \in [Handler -> {"idle", "read", "save", "release", "reallocate"}],
           job' = [h \in Handler |-> job'[h]],
           \A h \in Handler :
                \/ step'[h] = step[h] /\ job'[h] = job[h]
                \/ step'[h] = "idle" /\ job'[h] = <<>>
                \/ Working(h)' /\ job'[h] \in Job /\ JobFits(h)',
           trouble \subseteq trouble', trouble' \subseteq Trouble
    PROVE  Fits'
<1>1. /\ mail' \in [Purchase -> Seq(Events)] /\ mail'[p] = m
      /\ \A q \in Purchase \ {p} : mail'[q] = mail[q]
    BY DEF Fits, MailFits
<1>2. About(p) /\ Lasts(p)
    BY <1>1 DEF About, Lasts
<1>3. /\ row' \in [Purchase -> Row] /\ linked' \in [Purchase -> BOOLEAN]
      /\ slot' \in [Slot -> ServerStatus] /\ truth' \in [Purchase -> Subscription]
      /\ session' \in [Purchase -> {"none", "open", "complete", "expired"}]
      /\ row'[p].serverId = NoSlot <=> row'[p].status = "none"
    BY DEF Fits, TypeOK
<1>4. RowFits(p)'
    BY <1>1, RowIs DEF RowFits
<1>5. /\ Len(mail'[p]) <= MaxMail + IF "crash" \in trouble' THEN 1 ELSE 0
      /\ \A i \in DOMAIN mail'[p] : mail'[p][i].kind # "abandoned"
    BY <1>1
<1>6. QED
    BY <1>1, <1>2, <1>3, <1>4, <1>5, FitsMove

\* TurnsUnpaid
LEMMA UnpaidFits ==
    ASSUME Fits, NEW p \in Purchase, TurnsUnpaid(p)
    PROVE  Fits'
<1>1. /\ truth[p] = "past_due" /\ truth' = [truth EXCEPT ![p] = "unpaid"]
      /\ mail' = [mail EXCEPT ![p] = Append(@, Event("changed", "unpaid"))]
      /\ Len(mail[p]) < MaxMail
      /\ row' = row /\ linked' = linked /\ slot' = slot /\ session' = session
      /\ step' = step /\ job' = job
      /\ trouble \subseteq trouble' /\ trouble' \subseteq Trouble
    BY CausesMore DEF TurnsUnpaid, handlerVars
<1>2. PICK e \in Events : e = Event("changed", "unpaid") /\ e.kind = "changed"
    <2>1. Event("changed", "unpaid") \in Events /\ Event("changed", "unpaid").kind = "changed"
        BY DEF Event, Events, EventKind, Subscription
    <2>2. QED
        BY <2>1
<1>3. PICK m \in Seq(Events) :
        /\ m = Append(mail[p], e) /\ Len(m) = Len(mail[p]) + 1
        /\ \A i \in DOMAIN m : m[i].kind # "abandoned"
    <2>1. /\ mail[p] \in Seq(Events) /\ Append(mail[p], e) = mail[p] \o <<e>>
          /\ <<e>> \in Seq(Events) /\ Len(<<e>>) = 1 /\ DOMAIN <<e>> = {1} /\ <<e>>[1] = e
        BY RowIs, OneMore
    <2>2. /\ mail[p] \o <<e>> \in Seq(Events) /\ Len(mail[p] \o <<e>>) = Len(mail[p]) + 1
          /\ \A i \in DOMAIN (mail[p] \o <<e>>) :
                \/ i \in DOMAIN mail[p] /\ (mail[p] \o <<e>>)[i] = mail[p][i]
                \/ i - Len(mail[p]) \in DOMAIN <<e>>
                   /\ (mail[p] \o <<e>>)[i] = <<e>>[i - Len(mail[p])]
        BY <2>1, ConcatIs
    <2>3. \A i \in DOMAIN (mail[p] \o <<e>>) : (mail[p] \o <<e>>)[i].kind # "abandoned"
        BY <1>2, <2>1, <2>2 DEF Fits, MailFits
    <2>4. QED
        BY <2>1, <2>2, <2>3
<1>4. /\ mail' \in [Purchase -> Seq(Events)] /\ mail'[p] = m
      /\ \A q \in Purchase \ {p} : mail'[q] = mail[q]
    BY <1>1, <1>2, <1>3 DEF Fits, MailFits
<1>5. /\ truth' \in [Purchase -> Subscription] /\ truth'[p] = "unpaid"
      /\ \A q \in Purchase \ {p} : truth'[q] = truth[q]
    BY <1>1 DEF Fits, TypeOK, Subscription
<1>6. Len(mail'[p]) <= MaxMail + IF "crash" \in trouble' THEN 1 ELSE 0
    BY <1>1, <1>3, <1>4, RowIs, SlotConstants
<1>7. About(p) /\ Lasts(p)
    BY <1>1, <1>4, <1>5 DEF About, Lasts
<1>8. session[p] = "complete" /\ row[p].status # "none"
    BY <1>1, RowIs DEF RowFits
<1>9. RowFits(p)'
    BY <1>1, <1>5, <1>8 DEF RowFits
<1>10. \A h \in Handler : step'[h] = step[h] /\ job'[h] = job[h]
    BY <1>1
<1>11. job' = [h \in Handler |-> job'[h]]
    BY <1>1 DEF Fits
<1>12. /\ row' \in [Purchase -> Row] /\ linked' \in [Purchase -> BOOLEAN]
       /\ slot' \in [Slot -> ServerStatus]
       /\ row'[p].serverId = NoSlot <=> row'[p].status = "none"
       /\ step' \in [Handler -> {"idle", "read", "save", "release", "reallocate"}]
       /\ session' \in [Purchase -> {"none", "open", "complete", "expired"}]
    BY <1>1 DEF Fits, TypeOK
<1>13. \A i \in DOMAIN mail'[p] : mail'[p][i].kind # "abandoned"
    BY <1>3, <1>4
<1>14. QED
    BY <1>1, <1>4, <1>5, <1>6, <1>7, <1>9, <1>10, <1>11, <1>12, <1>13, FitsMove

(***************************************************************************)
(* The handlers                                                            *)
(***************************************************************************)

\* Of the handlers only h moves, to a step with a job.
LEMMA Moves ==
    ASSUME Fits, NEW h \in Handler, NEW next, NEW j, step' = [step EXCEPT ![h] = next],
           next \in {"idle", "read", "save", "release", "reallocate"},
           job' = [job EXCEPT ![h] = j]
    PROVE  /\ step' \in [Handler -> {"idle", "read", "save", "release", "reallocate"}]
           /\ job' = [k \in Handler |-> job'[k]] /\ Only(h)
           /\ step'[h] = next /\ job'[h] = j
<1>1. /\ step' \in [Handler -> {"idle", "read", "save", "release", "reallocate"}]
      /\ step'[h] = next /\ \A k \in Handler \ {h} : step'[k] = step[k]
    BY DEF Fits, TypeOK
<1>2. job' = [k \in Handler |-> IF k = h THEN j ELSE job[k]]
    BY DEF Fits
<1>3. QED
    BY <1>1, <1>2 DEF Only

\* Finish
LEMMA Finishes ==
    ASSUME Fits, NEW h \in Handler, Finish(h)
    PROVE  /\ step' \in [Handler -> {"idle", "read", "save", "release", "reallocate"}]
           /\ job' = [k \in Handler |-> job'[k]] /\ Only(h)
           /\ step'[h] = "idle" /\ job'[h] = <<>>
<1>1. /\ step' = [step EXCEPT ![h] = "idle"] /\ job' = [job EXCEPT ![h] = <<>>]
      /\ "idle" \in {"idle", "read", "save", "release", "reallocate"}
    BY DEF Finish
<1>2. PICK j : j = <<>>
    OBVIOUS
<1>3. job' = [job EXCEPT ![h] = j]
    BY <1>1, <1>2
<1>4. QED
    BY <1>1, <1>2, <1>3, Moves

\* GoesOn
LEMMA Continues ==
    ASSUME Fits, NEW h \in Handler, NEW next \in {"read", "save", "release", "reallocate"},
           GoesOn(h, next), job' = job
    PROVE  /\ step' \in [Handler -> {"idle", "read", "save", "release", "reallocate"}]
           /\ job' = [k \in Handler |-> job'[k]] /\ Only(h)
           /\ step'[h] = next /\ job'[h] = job[h]
<1>1. step' = [step EXCEPT ![h] = next]
    BY DEF GoesOn
<1>2. PICK j : j = job[h]
    OBVIOUS
<1>3. job' = [job EXCEPT ![h] = j]
    BY <1>2 DEF Fits
<1>4. next \in {"idle", "read", "save", "release", "reallocate"}
    OBVIOUS
<1>5. QED
    BY <1>1, <1>2, <1>3, <1>4, Moves

\* A handler that begins has a job that fits.
LEMMA BeginsIs ==
    ASSUME Fits, NEW h \in Handler, NEW p \in Purchase, NEW event \in Events,
           NEW mailed \in BOOLEAN, Begins(h, p, event, mailed), row' = row,
           event.kind # "abandoned", row[p].status # "none"
    PROVE  /\ step' \in [Handler -> {"idle", "read", "save", "release", "reallocate"}]
           /\ job' = [k \in Handler |-> job'[k]] /\ Only(h)
           /\ ~Working(h) /\ Working(h)' /\ job'[h] \in Job /\ JobFits(h)'
           /\ step'[h] = "read" /\ job'[h].purchase = p /\ job'[h].event = event
           /\ job'[h].mailed = mailed /\ job'[h].slot = row[p].serverId
           /\ job'[h].sub = IF event.kind = "changed" THEN event.sub ELSE truth[p]
<1>1. PICK j : j = [event |-> event, mailed |-> mailed, purchase |-> p,
                    slot |-> row[p].serverId,
                    sub |-> IF event.kind = "changed" THEN event.sub ELSE truth[p],
                    seen |-> NoRow]
    OBVIOUS
<1>2. /\ j.event = event /\ j.mailed = mailed /\ j.purchase = p /\ j.slot = row[p].serverId
      /\ j.sub = IF event.kind = "changed" THEN event.sub ELSE truth[p]
    BY <1>1
<1>3. j \in Job
    <2>1. row[p].serverId \in Slot \cup {NoSlot} /\ truth[p] \in Subscription
        BY RowIs
    <2>2. (IF event.kind = "changed" THEN event.sub ELSE truth[p]) \in Subscription
        BY <2>1 DEF Events
    <2>3. NoRow \in Row
        BY DEF NoRow, Row, PurchaseStatus, Subscription
    <2>4. QED
        BY <1>1, <2>1, <2>2, <2>3 DEF Job
<1>4. /\ step' = [step EXCEPT ![h] = "read"] /\ job' = [job EXCEPT ![h] = j]
      /\ ~Working(h)
    BY <1>1 DEF Begins
<1>5. /\ step' \in [Handler -> {"idle", "read", "save", "release", "reallocate"}]
      /\ job' = [k \in Handler |-> job'[k]] /\ Only(h)
      /\ step'[h] = "read" /\ job'[h] = j
    BY <1>4, Moves
<1>6. JobFits(h)'
    BY <1>2, <1>5 DEF JobFits
<1>7. QED
    BY <1>2, <1>3, <1>4, <1>5, <1>6 DEF Working

\* Receive
LEMMA ReceiveFits ==
    ASSUME Fits, NEW h \in Handler, NEW p \in Purchase, NEW i, Receive(h, p, i)
    PROVE  /\ Fits' /\ ~Working(h) /\ Working(h)' /\ Only(h)
           /\ step'[h] = "read" /\ job'[h].purchase = p /\ job'[h].event = mail[p][i]
           /\ i \in 1 .. Len(mail[p]) /\ i \in DOMAIN mail[p]
           /\ job'[h].slot = row[p].serverId /\ mail[p][i] \in Events
           /\ job'[h].sub = IF mail[p][i].kind = "changed" THEN mail[p][i].sub ELSE truth[p]
           /\ row[p].status # "none"
<1>1. /\ i \in 1 .. Len(mail[p]) /\ Begins(h, p, mail[p][i], TRUE)
      /\ mail' = [mail EXCEPT ![p] = RemoveAt(@, i)]
      /\ row' = row /\ linked' = linked /\ slot' = slot /\ session' = session /\ truth' = truth
      /\ trouble \subseteq trouble' /\ trouble' \subseteq Trouble
    BY CausesMore DEF Receive
<1>2. mail[p] \in Seq(Events) /\ Len(mail[p]) \in Nat /\ DOMAIN mail[p] = 1 .. Len(mail[p])
    BY RowIs, LenProperties
<1>3. mail[p][i] \in Events /\ mail[p][i].kind # "abandoned"
    <2>1. mail[p][i] \in Events
        BY <1>1, <1>2, ElementOfSeq
    <2>2. QED
        BY <1>1, <1>2, <2>1 DEF Fits, MailFits
<1>4. row[p].status # "none"
    <2>1. row[p].status = "none" => mail[p] = <<>>
        BY RowIs DEF RowFits
    <2>2. SUFFICES ASSUME mail[p] = <<>> PROVE FALSE
        BY <2>1
    <2>3. Len(mail[p]) = 0
        BY <2>2, EmptySeq, Zenon
    <2>4. QED
        BY <1>1, <2>3
<1>5. PICK m \in Seq(Events) :
        /\ m = RemoveAt(mail[p], i) /\ Len(m) = Len(mail[p]) - 1
        /\ DOMAIN m = 1 .. Len(mail[p]) - 1
        /\ \A j \in 1 .. Len(mail[p]) - 1 : m[j] = mail[p][IF j < i THEN j ELSE j + 1]
    BY <1>1, <1>2, RemoveAtIs
<1>6. \A j \in DOMAIN m : m[j].kind # "abandoned"
    <2>1. ASSUME NEW j \in DOMAIN m
          PROVE  m[j].kind # "abandoned"
        <3>1. PICK k \in DOMAIN mail[p] : m[j] = mail[p][k]
            <4>1. (IF j < i THEN j ELSE j + 1) \in DOMAIN mail[p]
                BY <1>1, <1>2, <1>5
            <4>2. QED
                BY <1>5, <4>1
        <3>2. QED
            BY <3>1 DEF Fits, MailFits
    <2>2. QED
        BY <2>1
<1>7. Len(m) <= MaxMail + IF "crash" \in trouble' THEN 1 ELSE 0
    <2>1. Len(mail[p]) <= MaxMail + IF "crash" \in trouble THEN 1 ELSE 0
        BY DEF Fits, MailFits
    <2>2. QED
        BY <1>1, <1>2, <1>5, <2>1, SlotConstants
<1>8. /\ step' \in [Handler -> {"idle", "read", "save", "release", "reallocate"}]
      /\ job' = [k \in Handler |-> job'[k]] /\ Only(h)
      /\ ~Working(h) /\ Working(h)' /\ job'[h] \in Job /\ JobFits(h)'
      /\ step'[h] = "read" /\ job'[h].purchase = p /\ job'[h].event = mail[p][i]
      /\ job'[h].slot = row[p].serverId
      /\ job'[h].sub = IF mail[p][i].kind = "changed" THEN mail[p][i].sub ELSE truth[p]
    <2>1. PICK mailed \in BOOLEAN : mailed = TRUE
        BY Zenon
    <2>2. Begins(h, p, mail[p][i], mailed)
        BY <1>1, <2>1, Zenon
    <2>3. PICK event \in Events : event = mail[p][i]
        BY <1>3
    <2>4. Begins(h, p, event, mailed) /\ event.kind # "abandoned"
        BY <1>3, <2>2, <2>3
    <2>5. QED
        BY <1>1, <1>4, <2>3, <2>4, BeginsIs
<1>9. mail' = [mail EXCEPT ![p] = m]
    BY <1>1, <1>5
<1>10. \A k \in Handler :
            \/ step'[k] = step[k] /\ job'[k] = job[k]
            \/ step'[k] = "idle" /\ job'[k] = <<>>
            \/ Working(k)' /\ job'[k] \in Job /\ JobFits(k)'
    BY <1>8 DEF Only
<1>11. Fits'
    BY <1>1, <1>4, <1>6, <1>7, <1>8, <1>9, <1>10, MailboxFits
<1>12. QED
    BY <1>1, <1>2, <1>3, <1>4, <1>8, <1>11

\* Visit
LEMMA VisitFits ==
    ASSUME Fits, NEW h \in Handler, NEW p \in Purchase, Visit(h, p)
    PROVE  /\ Fits' /\ ~Working(h) /\ Working(h)' /\ Only(h)
           /\ step'[h] = "read" /\ job'[h].purchase = p /\ job'[h].slot = row[p].serverId
           /\ job'[h].event.kind = IF session[p] = "complete" THEN "completed" ELSE "expired"
           /\ job'[h].sub = truth[p] /\ session[p] \in {"complete", "expired"}
           /\ "visit" \in trouble' \ trouble /\ row[p].status # "none"
<1>1. PICK event : event = Event(IF session[p] = "complete" THEN "completed" ELSE "expired", "none")
    OBVIOUS
<1>2. /\ session[p] \in {"complete", "expired"} /\ Begins(h, p, event, FALSE)
      /\ row' = row /\ linked' = linked /\ slot' = slot /\ session' = session
      /\ truth' = truth /\ mail' = mail
      /\ Causes({"visit"} \cup OverlapOn(p))
    BY <1>1 DEF Visit, stripeVars
<1>3. /\ trouble \subseteq trouble' /\ trouble' \subseteq Trouble
      /\ "visit" \in trouble' \ trouble
    <2>1. {"visit"} \cup OverlapOn(p) \subseteq Trouble \ trouble
        BY <1>2 DEF Causes
    <2>2. QED
        BY <1>2, <2>1, CausesMore
<1>4. event \in Events /\ event.kind = IF session[p] = "complete" THEN "completed" ELSE "expired"
    <2>1. PICK kind \in EventKind : kind = IF session[p] = "complete" THEN "completed" ELSE "expired"
        BY DEF EventKind
    <2>2. event = [kind |-> kind, sub |-> "none"] /\ "none" \in Subscription
        BY <1>1, <2>1 DEF Event, Subscription
    <2>3. QED
        BY <2>1, <2>2 DEF Events
<1>5. row[p].status # "none"
    BY <1>2, RowIs DEF RowFits
<1>6. /\ step' \in [Handler -> {"idle", "read", "save", "release", "reallocate"}]
      /\ job' = [k \in Handler |-> job'[k]] /\ Only(h)
      /\ ~Working(h) /\ Working(h)' /\ job'[h] \in Job /\ JobFits(h)'
      /\ step'[h] = "read" /\ job'[h].purchase = p /\ job'[h].event = event
      /\ job'[h].slot = row[p].serverId
      /\ job'[h].sub = IF event.kind = "changed" THEN event.sub ELSE truth[p]
    <2>1. PICK mailed \in BOOLEAN : mailed = FALSE
        BY Zenon
    <2>2. Begins(h, p, event, mailed)
        BY <1>2, <2>1, Zenon
    <2>3. event.kind # "abandoned"
        BY <1>4
    <2>4. QED
        BY <1>2, <1>4, <1>5, <2>2, <2>3, BeginsIs
<1>7. \A k \in Handler :
            \/ step'[k] = step[k] /\ job'[k] = job[k]
            \/ step'[k] = "idle" /\ job'[k] = <<>>
            \/ Working(k)' /\ job'[k] \in Job /\ JobFits(k)'
    BY <1>6 DEF Only
<1>8. PICK r \in Row : r = row[p]
    BY RowIs
<1>9. /\ row' = [row EXCEPT ![p] = r]
      /\ linked' \in [Purchase -> BOOLEAN] /\ slot' \in [Slot -> ServerStatus]
    BY <1>2, <1>8 DEF Fits, TypeOK
<1>10. Fits'
    <2>1. \/ r = row[p]
          \/ row[p].status # "none" /\ r.status # "none" /\ r.serverId = row[p].serverId
        BY <1>8
    <2>2. QED
        BY <1>2, <1>3, <1>6, <1>7, <1>8, <1>9, <2>1, OursFits
<1>11. QED
    BY <1>2, <1>3, <1>4, <1>5, <1>6, <1>10

\* CheckoutFails
LEMMA FailureFits ==
    ASSUME Fits, NEW h \in Handler, NEW p \in Purchase, NEW s \in Slot, CheckoutFails(h, p, s)
    PROVE  Fits' /\ Only(h) /\ "failure" \in trouble' /\ row[p].status = "none"
<1>1. PICK j : j = [event |-> Event("abandoned", "none"), mailed |-> FALSE, purchase |-> p,
                    slot |-> s, sub |-> "none", seen |-> NoRow]
    OBVIOUS
<1>2. /\ step' = [step EXCEPT ![h] = "read"] /\ job' = [job EXCEPT ![h] = j]
      /\ row' = row /\ linked' = linked /\ slot' = slot /\ session' = session
      /\ truth' = truth /\ mail' = mail
      /\ trouble \subseteq trouble' /\ trouble' \subseteq Trouble /\ "failure" \in trouble'
      /\ row[p].status = "none"
    BY <1>1, CausesMore DEF CheckoutFails, stripeVars
<1>3. /\ step' \in [Handler -> {"idle", "read", "save", "release", "reallocate"}]
      /\ job' = [k \in Handler |-> job'[k]] /\ Only(h)
      /\ step'[h] = "read" /\ job'[h] = j
    BY <1>2, Moves
<1>4. /\ j \in Job /\ j.event.kind = "abandoned" /\ ~j.mailed /\ j.slot \in Slot
    <2>1. Event("abandoned", "none") \in Events /\ Event("abandoned", "none").kind = "abandoned"
        BY DEF Event, Events, EventKind, Subscription
    <2>2. NoRow \in Row /\ "none" \in Subscription
        BY DEF NoRow, Row, PurchaseStatus, Subscription
    <2>3. QED
        BY <1>1, <2>1, <2>2 DEF Job
<1>5. JobFits(h)' /\ Working(h)'
    BY <1>2, <1>3, <1>4 DEF JobFits, Saving, Working
<1>6. \A k \in Handler :
            \/ step'[k] = step[k] /\ job'[k] = job[k]
            \/ step'[k] = "idle" /\ job'[k] = <<>>
            \/ Working(k)' /\ job'[k] \in Job /\ JobFits(k)'
    BY <1>3, <1>4, <1>5 DEF Only
<1>7. PICK r \in Row : r = row[p]
    BY RowIs
<1>8. /\ row' = [row EXCEPT ![p] = r]
      /\ linked' \in [Purchase -> BOOLEAN] /\ slot' \in [Slot -> ServerStatus]
    BY <1>2, <1>7 DEF Fits, TypeOK
<1>9. Fits'
    <2>1. \/ r = row[p]
          \/ row[p].status # "none" /\ r.status # "none" /\ r.serverId = row[p].serverId
        BY <1>7
    <2>2. QED
        BY <1>2, <1>3, <1>6, <1>7, <1>8, <2>1, OursFits
<1>10. QED
    BY <1>2, <1>3, <1>9

\* Read: an irrelevant event is dropped, the clean-up goes on in any case.
LEMMA ReadFits ==
    ASSUME Fits, NEW h \in Handler, Read(h), NEW p, p = job[h].purchase
    PROVE  /\ Fits' /\ Working(h) /\ step[h] = "read" /\ Only(h) /\ p \in Purchase
           /\ row' = row /\ linked' = linked /\ slot' = slot /\ session' = session
           /\ truth' = truth /\ mail' = mail /\ trouble' = trouble
           /\ \/ step'[h] = "idle" /\ job'[h] = <<>>
              \/ /\ job[h].event.kind = "abandoned" /\ job'[h] = job[h]
                 /\ step'[h] \in {"save", "release"}
              \/ /\ job[h].event.kind # "abandoned" /\ step'[h] = "save"
                 /\ Relevant(job[h].event.kind, row[p])
                 /\ job'[h].event = job[h].event /\ job'[h].purchase = p
                 /\ job'[h].sub = job[h].sub /\ job'[h].slot = job[h].slot
                 /\ job'[h].mailed = job[h].mailed /\ job'[h].seen = row[p]
<1>1. /\ step[h] = "read" /\ Working(h)
      /\ row' = row /\ linked' = linked /\ slot' = slot /\ session' = session
      /\ truth' = truth /\ mail' = mail /\ trouble' = trouble
    BY DEF Read, Working, stripeVars
<1>2. /\ job[h] \in Job /\ JobFits(h) /\ p \in Purchase /\ row[p] \in Row
    BY <1>1, HandlerIs
<1>3. \/ /\ job[h].event.kind = "abandoned" /\ job' = job
         /\ GoesOn(h, "save") \/ GoesOn(h, "release")
      \/ /\ job[h].event.kind # "abandoned" /\ Relevant(job[h].event.kind, row[p])
         /\ GoesOn(h, "save") /\ job' = [job EXCEPT ![h].seen = row[p]]
      \/ Finish(h)
    BY DEF Read
<1>4. SUFFICES
        /\ Only(h)
        /\ step' \in [Handler -> {"idle", "read", "save", "release", "reallocate"}]
        /\ job' = [k \in Handler |-> job'[k]]
        /\ \/ step'[h] = "idle" /\ job'[h] = <<>>
           \/ Working(h)' /\ job'[h] \in Job /\ JobFits(h)'
        /\ \/ step'[h] = "idle" /\ job'[h] = <<>>
           \/ /\ job[h].event.kind = "abandoned" /\ job'[h] = job[h]
              /\ step'[h] \in {"save", "release"}
           \/ /\ job[h].event.kind # "abandoned" /\ step'[h] = "save"
              /\ Relevant(job[h].event.kind, row[p])
              /\ job'[h].event = job[h].event /\ job'[h].purchase = p
              /\ job'[h].sub = job[h].sub /\ job'[h].slot = job[h].slot
              /\ job'[h].mailed = job[h].mailed /\ job'[h].seen = row[p]
    <2>1. \A k \in Handler :
            \/ step'[k] = step[k] /\ job'[k] = job[k]
            \/ step'[k] = "idle" /\ job'[k] = <<>>
            \/ Working(k)' /\ job'[k] \in Job /\ JobFits(k)'
        BY <1>4 DEF Only
    <2>2. PICK r \in Row : r = row[p]
        BY <1>2
    <2>3. /\ row' = [row EXCEPT ![p] = r] /\ trouble \subseteq trouble' /\ trouble' \subseteq Trouble
          /\ linked' \in [Purchase -> BOOLEAN] /\ slot' \in [Slot -> ServerStatus]
        BY <1>1, <2>2 DEF Fits, TypeOK
    <2>4. Fits'
        BY <1>1, <1>2, <1>4, <2>1, <2>2, <2>3, OursFits
    <2>5. QED
        BY <1>1, <1>2, <1>4, <2>4
<1>5. CASE Finish(h)
    BY <1>5, Finishes
<1>6. CASE /\ job[h].event.kind = "abandoned" /\ job' = job
           /\ GoesOn(h, "save") \/ GoesOn(h, "release")
    <2>1. PICK next \in {"save", "release"} : GoesOn(h, next)
        BY <1>6
    <2>2. next \in {"read", "save", "release", "reallocate"}
        OBVIOUS
    <2>3. /\ step' \in [Handler -> {"idle", "read", "save", "release", "reallocate"}]
          /\ job' = [k \in Handler |-> job'[k]] /\ Only(h)
          /\ step'[h] = next /\ job'[h] = job[h]
        BY <1>6, <2>1, <2>2, Continues
    <2>4. JobFits(h)'
        BY <1>1, <1>2, <1>6, <2>1, <2>3 DEF JobFits, Saving
    <2>5. QED
        BY <1>2, <1>6, <2>1, <2>3, <2>4 DEF Working
<1>7. CASE /\ job[h].event.kind # "abandoned" /\ Relevant(job[h].event.kind, row[p])
           /\ GoesOn(h, "save") /\ job' = [job EXCEPT ![h].seen = row[p]]
    <2>1. PICK j : j = [job[h] EXCEPT !.seen = row[p]]
        OBVIOUS
    <2>2. /\ j \in Job /\ j.event = job[h].event /\ j.purchase = p /\ j.sub = job[h].sub
          /\ j.slot = job[h].slot /\ j.mailed = job[h].mailed /\ j.seen = row[p]
        BY <1>2, <2>1 DEF Job
    <2>3. /\ step' = [step EXCEPT ![h] = "save"] /\ job' = [job EXCEPT ![h] = j]
        BY <1>7, <2>1 DEF GoesOn
    <2>4. /\ step' \in [Handler -> {"idle", "read", "save", "release", "reallocate"}]
          /\ job' = [k \in Handler |-> job'[k]] /\ Only(h)
          /\ step'[h] = "save" /\ job'[h] = j
        BY <2>3, Moves
    <2>5. row[p].status # "none" /\ row[p].serverId = job[h].slot
        BY <1>2, <1>7 DEF JobFits
    <2>6. JobFits(h)'
        BY <1>1, <1>2, <1>7, <2>2, <2>4, <2>5 DEF JobFits
    <2>7. QED
        BY <1>7, <2>2, <2>4, <2>6 DEF Working
<1>8. QED
    BY <1>3, <1>5, <1>6, <1>7

\* What the two saving handlers make of a row is a row, with the same slot.
LEMMA SavedIs ==
    ASSUME NEW r \in Row, r.status # "none", NEW sub \in Subscription, NEW kind
    PROVE  /\ PaidRow(r, sub) \in Row /\ SyncedRow(r, kind, sub) \in Row
           /\ PaidRow(r, sub).status # "none" /\ SyncedRow(r, kind, sub).status # "none"
           /\ PaidRow(r, sub).serverId = r.serverId
           /\ SyncedRow(r, kind, sub).serverId = r.serverId
<1>1. PICK paid \in PurchaseStatus :
        paid = IF r.status = "checkout_pending" THEN "paid" ELSE r.status
    BY DEF Row, PurchaseStatus
<1>2. PICK ended \in PurchaseStatus :
        ended = IF sub \in TerminalSubscription /\ r.status \in {"checkout_pending", "paid"}
                THEN "cancelled" ELSE r.status
    BY DEF Row, PurchaseStatus
<1>3. PICK d \in BOOLEAN : d = CASE kind = "invoice_failed" -> TRUE
                                 [] kind = "invoice_paid" -> FALSE
                                 [] OTHER -> sub \in DelinquentSubscription
    <2>1. (CASE kind = "invoice_failed" -> TRUE
             [] kind = "invoice_paid" -> FALSE
             [] OTHER -> sub \in DelinquentSubscription) \in BOOLEAN
        <3>1. CASE kind = "invoice_failed"
            BY <3>1
        <3>2. CASE kind # "invoice_failed" /\ kind = "invoice_paid"
            BY <3>2
        <3>3. CASE kind # "invoice_failed" /\ kind # "invoice_paid"
            BY <3>3
        <3>4. QED
            BY <3>1, <3>2, <3>3
    <2>2. QED
        BY <2>1, Zenon
<1>4. PICK s \in BOOLEAN :
        s = (r.suspended /\ kind # "invoice_paid" /\ sub \in DelinquentSubscription)
    OBVIOUS
<1>5. PaidRow(r, sub) = [r EXCEPT !.status = paid, !.sub = sub, !.delinquent = FALSE,
                                  !.suspended = FALSE]
    BY <1>1 DEF PaidRow, Row
<1>6. SyncedRow(r, kind, sub) = [r EXCEPT !.status = ended, !.sub = sub, !.delinquent = d,
                                          !.suspended = s]
    BY <1>2, <1>3, <1>4 DEF SyncedRow, Row
<1>7. PICK f \in BOOLEAN : f = FALSE
    BY Zenon
<1>8. paid # "none" /\ ended # "none"
    BY DEF PurchaseStatus
<1>9. PaidRow(r, sub) = [r EXCEPT !.status = paid, !.sub = sub, !.delinquent = f,
                                  !.suspended = f]
    BY <1>5, <1>7, Zenon
<1>10. /\ PaidRow(r, sub) \in Row /\ PaidRow(r, sub).status = paid
       /\ PaidRow(r, sub).serverId = r.serverId
    BY <1>9 DEF Row
<1>11. /\ SyncedRow(r, kind, sub) \in Row /\ SyncedRow(r, kind, sub).status = ended
       /\ SyncedRow(r, kind, sub).serverId = r.serverId
    BY <1>6 DEF Row
<1>12. QED
    BY <1>8, <1>10, <1>11

\* SavePaid
LEMMA SavePaidFits ==
    ASSUME Fits, NEW h \in Handler, SavePaid(h), NEW p, p = job[h].purchase
    PROVE  /\ Fits' /\ Working(h) /\ step[h] = "save" /\ Only(h) /\ p \in Purchase
           /\ job[h].event.kind = "completed" /\ job[h].seen \in Row
           /\ job[h].seen.status # "none" /\ job[h].seen.serverId = row[p].serverId
           /\ linked' = linked /\ slot' = slot /\ session' = session
           /\ truth' = truth /\ mail' = mail /\ trouble' = trouble
           /\ step'[h] = "idle" /\ job'[h] = <<>>
           /\ row'[p] = PaidRow(job[h].seen, job[h].sub)
           /\ \A q \in Purchase \ {p} : row'[q] = row[q]
           /\ row[p].status # "none" /\ job[h].sub \in Subscription
<1>1. /\ step[h] = "save" /\ Working(h) /\ job[h].event.kind = "completed"
      /\ linked' = linked /\ slot' = slot /\ session' = session
      /\ truth' = truth /\ mail' = mail /\ trouble' = trouble
      /\ row' = [row EXCEPT ![p] = PaidRow(job[h].seen, job[h].sub)]
    BY DEF SavePaid, Working, stripeVars
<1>2. Finish(h)
    BY DEF SavePaid
<1>3. /\ step' \in [Handler -> {"idle", "read", "save", "release", "reallocate"}]
      /\ job' = [k \in Handler |-> job'[k]] /\ Only(h)
      /\ step'[h] = "idle" /\ job'[h] = <<>>
    BY <1>2, Finishes
<1>4. /\ JobFits(h) /\ p \in Purchase /\ job[h].seen \in Row /\ job[h].sub \in Subscription
    BY <1>1, HandlerIs
<1>5. /\ row[p].status # "none" /\ job[h].seen.status # "none"
      /\ job[h].seen.serverId = row[p].serverId
    BY <1>1, <1>4 DEF JobFits, Saving
<1>6. PICK r \in Row : r = PaidRow(job[h].seen, job[h].sub) /\ r.status # "none"
                       /\ r.serverId = row[p].serverId
    BY <1>4, <1>5, SavedIs
<1>7. /\ row' = [row EXCEPT ![p] = r] /\ trouble \subseteq trouble' /\ trouble' \subseteq Trouble
      /\ linked' \in [Purchase -> BOOLEAN] /\ slot' \in [Slot -> ServerStatus]
    BY <1>1, <1>6 DEF Fits, TypeOK
<1>8. \A k \in Handler :
            \/ step'[k] = step[k] /\ job'[k] = job[k]
            \/ step'[k] = "idle" /\ job'[k] = <<>>
            \/ Working(k)' /\ job'[k] \in Job /\ JobFits(k)'
    BY <1>3 DEF Only
<1>9. Fits'
    BY <1>1, <1>3, <1>4, <1>5, <1>6, <1>7, <1>8, OursFits
<1>10. row'[p] = r /\ \A q \in Purchase \ {p} : row'[q] = row[q]
    BY <1>4, <1>7 DEF Fits, TypeOK
<1>11. QED
    BY <1>1, <1>3, <1>4, <1>5, <1>6, <1>9, <1>10

\* SaveSubscription: then it lets the slot go, or allocates it again, or ends.
LEMMA SaveSubscriptionFits ==
    ASSUME Fits, NEW h \in Handler, SaveSubscription(h), NEW p, p = job[h].purchase
    PROVE  /\ Fits' /\ Working(h) /\ step[h] = "save" /\ Only(h) /\ p \in Purchase
           /\ job[h].event.kind \in {"changed", "invoice_paid", "invoice_failed"}
           /\ job[h].seen \in Row
           /\ job[h].seen.status # "none" /\ job[h].seen.serverId = row[p].serverId
           /\ linked' = linked /\ slot' = slot /\ session' = session
           /\ truth' = truth /\ mail' = mail /\ trouble' = trouble
           /\ row'[p] = SyncedRow(job[h].seen, job[h].event.kind, job[h].sub)
           /\ \A q \in Purchase \ {p} : row'[q] = row[q]
           /\ row[p].status # "none" /\ job[h].sub \in Subscription
           /\ \/ /\ job[h].sub \in TerminalSubscription
                 /\ step'[h] = "release" /\ job'[h] = job[h]
              \/ /\ job[h].sub \notin TerminalSubscription \cup DelinquentSubscription
                 /\ job[h].seen.status = "completed" /\ job[h].seen.suspended
                 /\ step'[h] = "reallocate" /\ job'[h] = job[h]
              \/ /\ job[h].sub \notin TerminalSubscription
                 /\ ~(/\ job[h].sub \notin DelinquentSubscription
                      /\ job[h].seen.status = "completed"
                      /\ job[h].seen.suspended)
                 /\ step'[h] = "idle" /\ job'[h] = <<>>
<1>1. /\ step[h] = "save" /\ Working(h)
      /\ job[h].event.kind \in {"changed", "invoice_paid", "invoice_failed"}
      /\ linked' = linked /\ slot' = slot /\ session' = session
      /\ truth' = truth /\ mail' = mail /\ trouble' = trouble
      /\ row' = [row EXCEPT ![p] = SyncedRow(job[h].seen, job[h].event.kind, job[h].sub)]
    BY DEF SaveSubscription, Working, stripeVars
<1>2. \/ job[h].sub \in TerminalSubscription /\ GoesOn(h, "release") /\ job' = job
      \/ /\ job[h].sub \notin TerminalSubscription \cup DelinquentSubscription
         /\ job[h].seen.status = "completed" /\ job[h].seen.suspended
         /\ GoesOn(h, "reallocate") /\ job' = job
      \/ /\ job[h].sub \notin TerminalSubscription
         /\ ~(/\ job[h].sub \notin DelinquentSubscription
              /\ job[h].seen.status = "completed"
              /\ job[h].seen.suspended)
         /\ Finish(h)
    BY DEF SaveSubscription
<1>3. /\ JobFits(h) /\ p \in Purchase /\ job[h].seen \in Row /\ job[h].sub \in Subscription
      /\ job[h] \in Job
    BY <1>1, HandlerIs
<1>4. /\ row[p].status # "none" /\ job[h].seen.status # "none"
      /\ job[h].seen.serverId = row[p].serverId /\ job[h].slot = row[p].serverId
    BY <1>1, <1>3 DEF JobFits, Saving
<1>5. PICK r \in Row : r = SyncedRow(job[h].seen, job[h].event.kind, job[h].sub)
                       /\ r.status # "none" /\ r.serverId = row[p].serverId
    BY <1>3, <1>4, SavedIs
<1>6. /\ row' = [row EXCEPT ![p] = r] /\ trouble \subseteq trouble' /\ trouble' \subseteq Trouble
      /\ linked' \in [Purchase -> BOOLEAN] /\ slot' \in [Slot -> ServerStatus]
    BY <1>1, <1>5 DEF Fits, TypeOK
<1>7. row'[p] = r /\ \A q \in Purchase \ {p} : row'[q] = row[q]
    BY <1>3, <1>6 DEF Fits, TypeOK
<1>8. /\ step' \in [Handler -> {"idle", "read", "save", "release", "reallocate"}]
      /\ job' = [k \in Handler |-> job'[k]] /\ Only(h)
      /\ \/ /\ job[h].sub \in TerminalSubscription
            /\ step'[h] = "release" /\ job'[h] = job[h]
         \/ /\ job[h].sub \notin TerminalSubscription \cup DelinquentSubscription
            /\ job[h].seen.status = "completed" /\ job[h].seen.suspended
            /\ step'[h] = "reallocate" /\ job'[h] = job[h]
         \/ /\ job[h].sub \notin TerminalSubscription
            /\ ~(/\ job[h].sub \notin DelinquentSubscription
                 /\ job[h].seen.status = "completed"
                 /\ job[h].seen.suspended)
            /\ step'[h] = "idle" /\ job'[h] = <<>>
    <2>1. CASE job[h].sub \in TerminalSubscription /\ GoesOn(h, "release") /\ job' = job
        <3>1. "release" \in {"read", "save", "release", "reallocate"}
            OBVIOUS
        <3>2. QED
            BY <2>1, <3>1, Continues
    <2>2. CASE /\ job[h].sub \notin TerminalSubscription \cup DelinquentSubscription
               /\ job[h].seen.status = "completed" /\ job[h].seen.suspended
               /\ GoesOn(h, "reallocate") /\ job' = job
        <3>1. "reallocate" \in {"read", "save", "release", "reallocate"}
            OBVIOUS
        <3>2. QED
            BY <2>2, <3>1, Continues
    <2>3. CASE /\ job[h].sub \notin TerminalSubscription
               /\ ~(/\ job[h].sub \notin DelinquentSubscription
                    /\ job[h].seen.status = "completed"
                    /\ job[h].seen.suspended)
               /\ Finish(h)
        BY <2>3, Finishes
    <2>4. QED
        BY <1>2, <2>1, <2>2, <2>3
<1>9. \/ step'[h] = "idle" /\ job'[h] = <<>>
      \/ Working(h)' /\ job'[h] \in Job /\ JobFits(h)'
    <2>1. SUFFICES ASSUME job'[h] = job[h], step'[h] \in {"release", "reallocate"}
                   PROVE  Working(h)' /\ JobFits(h)'
        BY <1>3, <1>8
    <2>2. JobFits(h)'
        BY <1>1, <1>3, <1>4, <1>5, <1>7, <2>1 DEF JobFits
    <2>3. QED
        BY <2>1, <2>2 DEF Working
<1>10. \A k \in Handler :
            \/ step'[k] = step[k] /\ job'[k] = job[k]
            \/ step'[k] = "idle" /\ job'[k] = <<>>
            \/ Working(k)' /\ job'[k] \in Job /\ JobFits(k)'
    BY <1>8, <1>9 DEF Only
<1>11. Fits'
    BY <1>1, <1>3, <1>4, <1>5, <1>6, <1>8, <1>10, OursFits
<1>12. QED
    BY <1>1, <1>3, <1>4, <1>5, <1>7, <1>8, <1>11

\* CloseIfPending: only a pending purchase is closed.
LEMMA CloseFits ==
    ASSUME Fits, NEW h \in Handler, CloseIfPending(h), NEW p, p = job[h].purchase
    PROVE  /\ Fits' /\ Working(h) /\ step[h] = "save" /\ Only(h) /\ p \in Purchase
           /\ job[h].event.kind \in {"expired", "abandoned"}
           /\ linked' = linked /\ slot' = slot /\ session' = session
           /\ truth' = truth /\ mail' = mail /\ trouble' = trouble
           /\ \A q \in Purchase \ {p} : row'[q] = row[q]
           /\ IF row[p].status = "checkout_pending"
              THEN /\ row'[p].status = IF job[h].event.kind = "expired" THEN "expired"
                                       ELSE "cancelled"
                   /\ row'[p].sub = row[p].sub /\ row'[p].serverId = row[p].serverId
                   /\ row'[p].suspended = row[p].suspended
                   /\ row'[p].delinquent = row[p].delinquent
              ELSE row'[p] = row[p]
           /\ IF row[p].status = "checkout_pending" \/ job[h].event.kind = "abandoned"
              THEN step'[h] = "release" /\ job'[h] = job[h]
              ELSE step'[h] = "idle" /\ job'[h] = <<>>
<1>1. PICK closed : closed = IF job[h].event.kind = "expired" THEN "expired" ELSE "cancelled"
    OBVIOUS
<1>2. /\ step[h] = "save" /\ Working(h) /\ job[h].event.kind \in {"expired", "abandoned"}
      /\ linked' = linked /\ slot' = slot /\ session' = session
      /\ truth' = truth /\ mail' = mail /\ trouble' = trouble
      /\ row' = [row EXCEPT ![p].status =
                    IF row[p].status = "checkout_pending" THEN closed ELSE @]
    BY <1>1 DEF CloseIfPending, Working, stripeVars
<1>3. IF row[p].status = "checkout_pending" \/ job[h].event.kind = "abandoned"
      THEN GoesOn(h, "release") /\ job' = job
      ELSE Finish(h)
    BY DEF CloseIfPending
<1>4. /\ JobFits(h) /\ p \in Purchase /\ job[h] \in Job /\ row[p] \in Row
    BY <1>2, HandlerIs
<1>5. closed \in PurchaseStatus
    BY <1>1 DEF PurchaseStatus
<1>6. PICK r \in Row :
        /\ row' = [row EXCEPT ![p] = r]
        /\ IF row[p].status = "checkout_pending"
           THEN /\ r.status = closed /\ r.sub = row[p].sub /\ r.serverId = row[p].serverId
                /\ r.suspended = row[p].suspended /\ r.delinquent = row[p].delinquent
           ELSE r = row[p]
    <2>1. CASE row[p].status = "checkout_pending"
        <3>1. PICK r : r = [row[p] EXCEPT !.status = closed]
            OBVIOUS
        <3>2. row' = [row EXCEPT ![p] = r]
            BY <1>2, <2>1, <3>1
        <3>3. /\ r \in Row /\ r.status = closed /\ r.sub = row[p].sub
              /\ r.serverId = row[p].serverId
              /\ r.suspended = row[p].suspended /\ r.delinquent = row[p].delinquent
            BY <1>4, <1>5, <3>1 DEF Row
        <3>4. QED
            BY <2>1, <3>2, <3>3
    <2>2. CASE row[p].status # "checkout_pending"
        <3>1. row' = [row EXCEPT ![p] = [row[p] EXCEPT !.status = row[p].status]]
            BY <1>2, <2>2
        <3>2. [row[p] EXCEPT !.status = row[p].status] = row[p]
            BY <1>4 DEF Row
        <3>3. QED
            BY <1>4, <2>2, <3>1, <3>2
    <2>3. QED
        BY <2>1, <2>2
<1>7. /\ row'[p] = r /\ \A q \in Purchase \ {p} : row'[q] = row[q]
      /\ \/ r = row[p]
         \/ row[p].status # "none" /\ r.status # "none" /\ r.serverId = row[p].serverId
    BY <1>1, <1>4, <1>6 DEF Fits, TypeOK
<1>8. /\ step' \in [Handler -> {"idle", "read", "save", "release", "reallocate"}]
      /\ job' = [k \in Handler |-> job'[k]] /\ Only(h)
      /\ IF row[p].status = "checkout_pending" \/ job[h].event.kind = "abandoned"
         THEN step'[h] = "release" /\ job'[h] = job[h]
         ELSE step'[h] = "idle" /\ job'[h] = <<>>
    <2>1. CASE row[p].status = "checkout_pending" \/ job[h].event.kind = "abandoned"
        <3>1. "release" \in {"read", "save", "release", "reallocate"}
            OBVIOUS
        <3>2. QED
            BY <1>3, <2>1, <3>1, Continues
    <2>2. CASE ~(row[p].status = "checkout_pending" \/ job[h].event.kind = "abandoned")
        BY <1>3, <2>2, Finishes
    <2>3. QED
        BY <2>1, <2>2
<1>9. \/ step'[h] = "idle" /\ job'[h] = <<>>
      \/ Working(h)' /\ job'[h] \in Job /\ JobFits(h)'
    <2>1. SUFFICES ASSUME job'[h] = job[h], step'[h] = "release"
                   PROVE  Working(h)' /\ JobFits(h)'
        BY <1>4, <1>8
    <2>2. JobFits(h)'
        BY <1>2, <1>4, <1>7, <2>1 DEF JobFits, Saving
    <2>3. QED
        BY <2>1, <2>2 DEF Working
<1>10. \A k \in Handler :
            \/ step'[k] = step[k] /\ job'[k] = job[k]
            \/ step'[k] = "idle" /\ job'[k] = <<>>
            \/ Working(k)' /\ job'[k] \in Job /\ JobFits(k)'
    BY <1>8, <1>9 DEF Only
<1>11. /\ trouble \subseteq trouble' /\ trouble' \subseteq Trouble
       /\ linked' \in [Purchase -> BOOLEAN] /\ slot' \in [Slot -> ServerStatus]
    BY <1>2 DEF Fits, TypeOK
<1>12. Fits'
    <2>1. row' = [row EXCEPT ![p] = r]
        BY <1>6
    <2>2. /\ session' = session /\ truth' = truth /\ mail' = mail /\ p \in Purchase
          /\ step' \in [Handler -> {"idle", "read", "save", "release", "reallocate"}]
          /\ job' = [k \in Handler |-> job'[k]]
        BY <1>2, <1>4, <1>8
    <2>3. QED
        BY <1>7, <1>10, <1>11, <2>1, <2>2, OursFits
<1>13. QED
    BY <1>1, <1>2, <1>4, <1>6, <1>7, <1>8, <1>12

\* Release and Reallocate: the slot the handler remembers, whoever owns it now.
LEMMA SlotStepFits ==
    ASSUME Fits, NEW h \in Handler, Release(h) \/ Reallocate(h)
    PROVE  /\ Fits' /\ Working(h) /\ Only(h) /\ job[h].purchase \in Purchase
           /\ job[h].slot \in Slot
           /\ \/ step[h] = "release" /\ slot'[job[h].slot] = "available"
              \/ /\ step[h] = "reallocate"
                 /\ slot'[job[h].slot] = IF slot[job[h].slot] = "held" THEN "allocated"
                                         ELSE slot[job[h].slot]
           /\ \A s \in Slot \ {job[h].slot} : slot'[s] = slot[s]
           /\ row' = row /\ linked' = linked /\ session' = session
           /\ truth' = truth /\ mail' = mail /\ trouble' = trouble
           /\ step'[h] = "idle" /\ job'[h] = <<>>
<1>1. /\ Working(h) /\ Finish(h)
      /\ row' = row /\ linked' = linked /\ session' = session
      /\ truth' = truth /\ mail' = mail /\ trouble' = trouble
    BY DEF Release, Reallocate, Working, stripeVars
<1>2. /\ JobFits(h) /\ job[h].purchase \in Purchase
      /\ row[job[h].purchase] \in Row
    BY <1>1, HandlerIs
<1>3. job[h].slot \in Slot
    BY <1>2, RowIs DEF JobFits
<1>4. /\ slot' \in [Slot -> ServerStatus]
      /\ \A s \in Slot \ {job[h].slot} : slot'[s] = slot[s]
      /\ \/ step[h] = "release" /\ slot'[job[h].slot] = "available"
         \/ /\ step[h] = "reallocate"
            /\ slot'[job[h].slot] = IF slot[job[h].slot] = "held" THEN "allocated"
                                    ELSE slot[job[h].slot]
    <2>1. slot \in [Slot -> ServerStatus]
        BY DEF Fits, TypeOK
    <2>2. PICK v \in ServerStatus :
            /\ slot' = [slot EXCEPT ![job[h].slot] = v]
            /\ \/ step[h] = "release" /\ v = "available"
               \/ /\ step[h] = "reallocate"
                  /\ v = IF slot[job[h].slot] = "held" THEN "allocated" ELSE slot[job[h].slot]
        <3>1. CASE Release(h)
            BY <3>1 DEF Release, ServerStatus
        <3>2. CASE Reallocate(h)
            BY <1>3, <2>1, <3>2 DEF Reallocate, ServerStatus
        <3>3. QED
            BY <3>1, <3>2
    <2>3. QED
        BY <1>3, <2>1, <2>2
<1>5. /\ step' \in [Handler -> {"idle", "read", "save", "release", "reallocate"}]
      /\ job' = [k \in Handler |-> job'[k]] /\ Only(h)
      /\ step'[h] = "idle" /\ job'[h] = <<>>
    BY <1>1, Finishes
<1>6. PICK r \in Row : r = row[job[h].purchase]
    BY <1>2
<1>7. /\ row' = [row EXCEPT ![job[h].purchase] = r]
      /\ trouble \subseteq trouble' /\ trouble' \subseteq Trouble
      /\ linked' \in [Purchase -> BOOLEAN]
    BY <1>1, <1>6 DEF Fits, TypeOK
<1>8. \A k \in Handler :
            \/ step'[k] = step[k] /\ job'[k] = job[k]
            \/ step'[k] = "idle" /\ job'[k] = <<>>
            \/ Working(k)' /\ job'[k] \in Job /\ JobFits(k)'
    BY <1>5 DEF Only
<1>9. Fits'
    BY <1>1, <1>2, <1>4, <1>5, <1>6, <1>7, <1>8, OursFits
<1>10. QED
    BY <1>1, <1>2, <1>3, <1>4, <1>5, <1>9

\* Dies: the event comes back to the front.
LEMMA DiesFits ==
    ASSUME Fits, NEW h \in Handler, Dies(h), NEW p, p = job[h].purchase
    PROVE  /\ Fits' /\ Working(h) /\ Only(h) /\ p \in Purchase
           /\ row' = row /\ linked' = linked /\ slot' = slot /\ session' = session
           /\ truth' = truth /\ "crash" \in trouble' \ trouble /\ trouble \subseteq trouble'
           /\ step'[h] = "idle" /\ job'[h] = <<>>
           /\ \A q \in Purchase \ {p} : mail'[q] = mail[q]
           /\ IF job[h].mailed
              THEN /\ job[h].event \in Events /\ mail'[p] = <<job[h].event>> \o mail[p]
                   /\ <<job[h].event>> \in Seq(Events) /\ Len(<<job[h].event>>) = 1
                   /\ DOMAIN <<job[h].event>> = {1} /\ <<job[h].event>>[1] = job[h].event
                   /\ row[p].status # "none" /\ job[h].event.kind # "abandoned"
              ELSE mail'[p] = mail[p]
<1>1. /\ Working(h) /\ Causes({"crash"}) /\ Finish(h)
      /\ row' = row /\ linked' = linked /\ slot' = slot /\ session' = session
      /\ truth' = truth
      /\ IF job[h].mailed THEN mail' = [mail EXCEPT ![p] = <<job[h].event>> \o @]
         ELSE mail' = mail
    BY DEF Dies
<1>2. /\ "crash" \in trouble' \ trouble /\ trouble \subseteq trouble' /\ trouble' \subseteq Trouble
    <2>1. {"crash"} \subseteq Trouble \ trouble
        BY <1>1 DEF Causes
    <2>2. QED
        BY <1>1, <2>1, CausesMore
<1>3. /\ JobFits(h) /\ p \in Purchase /\ job[h].event \in Events /\ row[p] \in Row
      /\ mail[p] \in Seq(Events)
    BY <1>1, HandlerIs, RowIs
<1>4. /\ step' \in [Handler -> {"idle", "read", "save", "release", "reallocate"}]
      /\ job' = [k \in Handler |-> job'[k]] /\ Only(h)
      /\ step'[h] = "idle" /\ job'[h] = <<>>
    BY <1>1, Finishes
<1>5. \A k \in Handler :
            \/ step'[k] = step[k] /\ job'[k] = job[k]
            \/ step'[k] = "idle" /\ job'[k] = <<>>
            \/ Working(k)' /\ job'[k] \in Job /\ JobFits(k)'
    BY <1>4 DEF Only
<1>6. PICK e \in Events : e = job[h].event
    BY <1>3
<1>7. /\ <<e>> \in Seq(Events) /\ Len(<<e>>) = 1 /\ DOMAIN <<e>> = {1} /\ <<e>>[1] = e
    BY OneMore
<1>8. PICK m \in Seq(Events) :
        /\ mail' = [mail EXCEPT ![p] = m]
        /\ m = IF job[h].mailed THEN <<e>> \o mail[p] ELSE mail[p]
        /\ Len(m) <= MaxMail + 1
        /\ \A i \in DOMAIN m : m[i].kind # "abandoned"
        /\ row[p].status = "none" => m = <<>>
    <2>1. Len(mail[p]) <= MaxMail /\ \A i \in DOMAIN mail[p] : mail[p][i].kind # "abandoned"
        BY <1>2, <1>3, SlotConstants DEF Fits, MailFits
    <2>2. row[p].status = "none" => mail[p] = <<>>
        BY <1>3, RowIs DEF RowFits
    <2>3. CASE job[h].mailed
        <3>1. e.kind # "abandoned" /\ row[p].status # "none"
            BY <1>3, <1>6, <2>3 DEF JobFits
        <3>2. /\ <<e>> \o mail[p] \in Seq(Events)
              /\ Len(<<e>> \o mail[p]) = Len(<<e>>) + Len(mail[p])
              /\ \A i \in DOMAIN (<<e>> \o mail[p]) :
                    \/ i \in DOMAIN <<e>> /\ (<<e>> \o mail[p])[i] = <<e>>[i]
                    \/ i - Len(<<e>>) \in DOMAIN mail[p]
                       /\ (<<e>> \o mail[p])[i] = mail[p][i - Len(<<e>>)]
            BY <1>3, <1>7, ConcatIs
        <3>3. Len(mail[p]) \in Nat
            BY <1>3, RowIs
        <3>4. Len(<<e>> \o mail[p]) <= MaxMail + 1
            BY <1>7, <2>1, <3>2, <3>3, SlotConstants
        <3>5. \A i \in DOMAIN (<<e>> \o mail[p]) : (<<e>> \o mail[p])[i].kind # "abandoned"
            BY <1>7, <2>1, <3>1, <3>2
        <3>6. mail' = [mail EXCEPT ![p] = <<e>> \o mail[p]]
            BY <1>1, <1>6, <2>3
        <3>7. QED
            BY <2>3, <3>1, <3>2, <3>4, <3>5, <3>6
    <2>4. CASE ~job[h].mailed
        <3>1. mail' = [mail EXCEPT ![p] = mail[p]]
            BY <1>1, <2>4 DEF Fits, MailFits
        <3>2. Len(mail[p]) <= MaxMail + 1
            BY <1>3, <2>1, RowIs, SlotConstants
        <3>3. QED
            BY <1>3, <2>1, <2>2, <2>4, <3>1, <3>2
    <2>5. QED
        BY <2>3, <2>4
<1>9. Len(m) <= MaxMail + IF "crash" \in trouble' THEN 1 ELSE 0
    BY <1>2, <1>8
<1>10. Fits'
    BY <1>1, <1>2, <1>3, <1>4, <1>5, <1>8, <1>9, MailboxFits
<1>11. mail'[p] = m /\ \A q \in Purchase \ {p} : mail'[q] = mail[q]
    BY <1>3, <1>8 DEF Fits, MailFits
<1>12. job[h].mailed => row[p].status # "none" /\ e.kind # "abandoned"
    BY <1>3, <1>6 DEF JobFits
<1>13. QED
    BY <1>1, <1>2, <1>3, <1>4, <1>6, <1>7, <1>8, <1>10, <1>11, <1>12

\* Repeat
LEMMA RepeatFits ==
    ASSUME Fits, NEW h \in Handler, Repeat(h)
    PROVE  /\ Fits' /\ "repeat" \in trouble'
           /\ row' = row /\ linked' = linked /\ slot' = slot /\ session' = session
           /\ truth' = truth /\ step' = step /\ job' = job
<1>1. PICK p \in Purchase : p = job[h].purchase
    BY HandlerIs DEF Repeat
<1>2. /\ Working(h) /\ job[h].mailed /\ Causes({"repeat"}) /\ Len(mail[p]) < MaxMail
      /\ mail' = [mail EXCEPT ![p] = Append(@, job[h].event)]
      /\ row' = row /\ linked' = linked /\ slot' = slot /\ session' = session
      /\ truth' = truth /\ step' = step /\ job' = job
    BY <1>1 DEF Repeat, handlerVars
<1>3. "repeat" \in trouble' /\ trouble \subseteq trouble' /\ trouble' \subseteq Trouble
    BY <1>2, CausesMore
<1>4. /\ JobFits(h) /\ job[h].event \in Events /\ mail[p] \in Seq(Events)
    BY <1>1, <1>2, HandlerIs, RowIs
<1>5. PICK e \in Events : e = job[h].event
    BY <1>4
<1>6. e.kind # "abandoned" /\ row[p].status # "none"
    BY <1>1, <1>2, <1>4, <1>5 DEF JobFits
<1>7. PICK m \in Seq(Events) :
        /\ m = Append(mail[p], e) /\ Len(m) = Len(mail[p]) + 1
        /\ \A i \in DOMAIN m : m[i].kind # "abandoned"
    <2>1. /\ mail[p] \in Seq(Events) /\ Append(mail[p], e) = mail[p] \o <<e>>
          /\ <<e>> \in Seq(Events) /\ Len(<<e>>) = 1 /\ DOMAIN <<e>> = {1} /\ <<e>>[1] = e
        BY <1>4, OneMore
    <2>2. /\ mail[p] \o <<e>> \in Seq(Events) /\ Len(mail[p] \o <<e>>) = Len(mail[p]) + 1
          /\ \A i \in DOMAIN (mail[p] \o <<e>>) :
                \/ i \in DOMAIN mail[p] /\ (mail[p] \o <<e>>)[i] = mail[p][i]
                \/ i - Len(mail[p]) \in DOMAIN <<e>>
                   /\ (mail[p] \o <<e>>)[i] = <<e>>[i - Len(mail[p])]
        BY <2>1, ConcatIs
    <2>3. \A i \in DOMAIN (mail[p] \o <<e>>) : (mail[p] \o <<e>>)[i].kind # "abandoned"
        BY <1>6, <2>1, <2>2 DEF Fits, MailFits
    <2>4. QED
        BY <2>1, <2>2, <2>3
<1>8. mail' = [mail EXCEPT ![p] = m]
    BY <1>2, <1>5, <1>7
<1>9. Len(m) <= MaxMail + IF "crash" \in trouble' THEN 1 ELSE 0
    BY <1>2, <1>7, RowIs, SlotConstants
<1>10. \A k \in Handler : step'[k] = step[k] /\ job'[k] = job[k]
    BY <1>2
<1>11. /\ job' = [k \in Handler |-> job'[k]]
       /\ step' \in [Handler -> {"idle", "read", "save", "release", "reallocate"}]
    BY <1>2 DEF Fits, TypeOK
<1>12. Fits'
    BY <1>2, <1>3, <1>6, <1>7, <1>8, <1>9, <1>10, <1>11, MailboxFits
<1>13. QED
    BY <1>2, <1>3, <1>12

(***************************************************************************)
(* The worker, the operator and the checkout                               *)
(***************************************************************************)

\* A transaction about p moves its row and its slot only.
LEMMA DeskFits ==
    ASSUME Fits, NEW p \in Purchase, NEW r \in Row, row' = [row EXCEPT ![p] = r],
           row[p].status # "none", r.status # "none", r.serverId = row[p].serverId,
           linked' \in [Purchase -> BOOLEAN],
           NEW v \in ServerStatus, slot' = [slot EXCEPT ![row[p].serverId] = v],
           NEW kinds, Causes(kinds), UNCHANGED <<stripeVars, handlerVars>>
    PROVE  /\ Fits' /\ row'[p] = r /\ \A q \in Purchase \ {p} : row'[q] = row[q]
           /\ row[p].serverId \in Slot /\ slot'[row[p].serverId] = v
           /\ \A s \in Slot \ {row[p].serverId} : slot'[s] = slot[s]
           /\ session' = session /\ truth' = truth /\ mail' = mail
           /\ step' = step /\ job' = job /\ trouble \subseteq trouble'
<1>1. /\ session' = session /\ truth' = truth /\ mail' = mail /\ step' = step /\ job' = job
    BY DEF stripeVars, handlerVars
<1>2. trouble \subseteq trouble' /\ trouble' \subseteq Trouble
    BY CausesMore
<1>3. /\ row'[p] = r /\ \A q \in Purchase \ {p} : row'[q] = row[q]
      /\ slot' \in [Slot -> ServerStatus]
    BY DEF Fits, TypeOK
<1>4. /\ row[p].serverId \in Slot /\ slot'[row[p].serverId] = v
      /\ \A s \in Slot \ {row[p].serverId} : slot'[s] = slot[s]
    BY RowIs DEF Fits, TypeOK
<1>5. \A k \in Handler : step'[k] = step[k] /\ job'[k] = job[k]
    BY <1>1
<1>6. /\ job' = [k \in Handler |-> job'[k]]
      /\ step' \in [Handler -> {"idle", "read", "save", "release", "reallocate"}]
    BY <1>1 DEF Fits, TypeOK
<1>7. Fits'
    BY <1>1, <1>2, <1>3, <1>5, <1>6, OursFits
<1>8. QED
    BY <1>1, <1>2, <1>3, <1>4, <1>7

\* Provision
LEMMA ProvisionFits ==
    ASSUME Fits, NEW p \in Purchase, Provision(p)
    PROVE  /\ Fits' /\ row[p].serverId \in Slot
           /\ row[p].status = "paid" /\ slot[row[p].serverId] = "held"
           /\ row'[p] = [row[p] EXCEPT !.pending = TRUE]
           /\ row'[p].status = "paid" /\ row'[p].sub = row[p].sub
           /\ row'[p].serverId = row[p].serverId /\ row'[p].suspended = row[p].suspended
           /\ \A q \in Purchase \ {p} : row'[q] = row[q]
           /\ slot'[row[p].serverId] = "allocated"
           /\ \A s \in Slot \ {row[p].serverId} : slot'[s] = slot[s]
           /\ session' = session /\ truth' = truth /\ mail' = mail
           /\ step' = step /\ job' = job /\ trouble \subseteq trouble'
           /\ OverlapOn(p) \subseteq trouble'
<1>1. PICK r : r = [row[p] EXCEPT !.pending = TRUE]
    OBVIOUS
<1>2. /\ r \in Row /\ r.status = row[p].status /\ r.sub = row[p].sub
      /\ r.serverId = row[p].serverId /\ r.suspended = row[p].suspended
    BY <1>1, RowIs DEF Row
<1>3. /\ row[p].status = "paid" /\ slot[row[p].serverId] = "held"
      /\ row' = [row EXCEPT ![p] = r] /\ slot' = [slot EXCEPT ![row[p].serverId] = "allocated"]
      /\ linked' = [linked EXCEPT ![p] = TRUE] /\ Causes(OverlapOn(p))
      /\ UNCHANGED <<stripeVars, handlerVars>>
    BY <1>1 DEF Provision
<1>4. linked' \in [Purchase -> BOOLEAN] /\ "allocated" \in ServerStatus
    BY <1>3 DEF Fits, TypeOK, ServerStatus
<1>5. /\ Fits' /\ row'[p] = r /\ \A q \in Purchase \ {p} : row'[q] = row[q]
      /\ row[p].serverId \in Slot /\ slot'[row[p].serverId] = "allocated"
      /\ \A s \in Slot \ {row[p].serverId} : slot'[s] = slot[s]
      /\ session' = session /\ truth' = truth /\ mail' = mail
      /\ step' = step /\ job' = job /\ trouble \subseteq trouble'
    BY <1>2, <1>3, <1>4, DeskFits
<1>6. OverlapOn(p) \subseteq trouble'
    BY <1>3, CausesMore
<1>7. QED
    BY <1>1, <1>2, <1>3, <1>5, <1>6

\* ReleaseReady
LEMMA ReadyFits ==
    ASSUME Fits, NEW p \in Purchase, ReleaseReady(p)
    PROVE  /\ Fits' /\ row[p].serverId \in Slot
           /\ row[p].status = "paid" /\ row[p].pending /\ linked[p]
           /\ slot[row[p].serverId] = "allocated"
           /\ row'[p].status = "completed" /\ row'[p].sub = row[p].sub
           /\ row'[p].serverId = row[p].serverId /\ row'[p].suspended = row[p].suspended
           /\ row'[p].delinquent = row[p].delinquent
           /\ \A q \in Purchase \ {p} : row'[q] = row[q]
           /\ slot' = slot
           /\ session' = session /\ truth' = truth /\ mail' = mail
           /\ step' = step /\ job' = job /\ trouble \subseteq trouble'
           /\ OverlapOn(p) \subseteq trouble'
<1>1. PICK r : r = [row[p] EXCEPT !.status = "completed", !.pending = FALSE]
    OBVIOUS
<1>2. /\ r \in Row /\ r.status = "completed" /\ r.sub = row[p].sub
      /\ r.serverId = row[p].serverId /\ r.suspended = row[p].suspended
      /\ r.delinquent = row[p].delinquent
    BY <1>1, RowIs DEF Row, PurchaseStatus
<1>3. /\ row[p].status = "paid" /\ row[p].pending /\ linked[p]
      /\ slot[row[p].serverId] = "allocated"
      /\ row' = [row EXCEPT ![p] = r] /\ slot' = slot /\ linked' = linked
      /\ Causes(OverlapOn(p)) /\ UNCHANGED <<stripeVars, handlerVars>>
    BY <1>1 DEF ReleaseReady
<1>4. PICK v \in ServerStatus : slot' = [slot EXCEPT ![row[p].serverId] = v] /\ v = "allocated"
    BY <1>3 DEF Fits, TypeOK, ServerStatus
<1>5. linked' \in [Purchase -> BOOLEAN]
    BY <1>3 DEF Fits, TypeOK
<1>6. /\ Fits' /\ row'[p] = r /\ \A q \in Purchase \ {p} : row'[q] = row[q]
      /\ row[p].serverId \in Slot
      /\ session' = session /\ truth' = truth /\ mail' = mail
      /\ step' = step /\ job' = job /\ trouble \subseteq trouble'
    <2>1. row[p].status # "none" /\ r.status # "none" /\ r.serverId = row[p].serverId
        BY <1>2, <1>3
    <2>2. /\ row' = [row EXCEPT ![p] = r] /\ slot' = [slot EXCEPT ![row[p].serverId] = v]
          /\ Causes(OverlapOn(p)) /\ UNCHANGED <<stripeVars, handlerVars>>
        BY <1>3, <1>4
    <2>3. QED
        BY <1>2, <1>5, <2>1, <2>2, DeskFits
<1>7. OverlapOn(p) \subseteq trouble'
    BY <1>3, CausesMore
<1>8. QED
    BY <1>2, <1>3, <1>6, <1>7

\* Suspend
LEMMA SuspendFits ==
    ASSUME Fits, NEW p \in Purchase, Suspend(p)
    PROVE  /\ Fits' /\ row[p].serverId \in Slot
           /\ row[p].status = "completed" /\ slot[row[p].serverId] = "allocated"
           /\ row[p].sub \notin TerminalSubscription /\ row[p].delinquent
           /\ row'[p].status = "completed" /\ row'[p].sub = row[p].sub
           /\ row'[p].serverId = row[p].serverId /\ row'[p].suspended
           /\ row'[p].delinquent = row[p].delinquent
           /\ \A q \in Purchase \ {p} : row'[q] = row[q]
           /\ slot'[row[p].serverId] = "held"
           /\ \A s \in Slot \ {row[p].serverId} : slot'[s] = slot[s]
           /\ session' = session /\ truth' = truth /\ mail' = mail
           /\ step' = step /\ job' = job /\ trouble \subseteq trouble'
           /\ OverlapOn(p) \subseteq trouble'
<1>1. PICK r : r = [row[p] EXCEPT !.suspended = TRUE]
    OBVIOUS
<1>2. /\ r \in Row /\ r.status = row[p].status /\ r.sub = row[p].sub
      /\ r.serverId = row[p].serverId /\ r.delinquent = row[p].delinquent
    BY <1>1, RowIs DEF Row
<1>3. r.suspended
    BY <1>1, RowIs DEF Row
<1>4. /\ row[p].status = "completed" /\ slot[row[p].serverId] = "allocated"
      /\ row[p].sub \notin TerminalSubscription /\ row[p].delinquent
      /\ row' = [row EXCEPT ![p] = r] /\ slot' = [slot EXCEPT ![row[p].serverId] = "held"]
      /\ linked' = linked /\ Causes(OverlapOn(p)) /\ UNCHANGED <<stripeVars, handlerVars>>
    BY <1>1 DEF Suspend
<1>5. linked' \in [Purchase -> BOOLEAN] /\ "held" \in ServerStatus
    BY <1>4 DEF Fits, TypeOK, ServerStatus
<1>6. /\ Fits' /\ row'[p] = r /\ \A q \in Purchase \ {p} : row'[q] = row[q]
      /\ row[p].serverId \in Slot /\ slot'[row[p].serverId] = "held"
      /\ \A s \in Slot \ {row[p].serverId} : slot'[s] = slot[s]
      /\ session' = session /\ truth' = truth /\ mail' = mail
      /\ step' = step /\ job' = job /\ trouble \subseteq trouble'
    BY <1>2, <1>4, <1>5, DeskFits
<1>7. OverlapOn(p) \subseteq trouble'
    BY <1>4, CausesMore
<1>8. QED
    BY <1>2, <1>3, <1>4, <1>6, <1>7

\* Override
LEMMA OverrideFits ==
    ASSUME Fits, NEW p \in Purchase, NEW newStatus \in PurchaseStatus,
           NEW newSlot \in ServerStatus, NEW access, Override(p, newStatus, newSlot, access)
    PROVE  /\ Fits' /\ "override" \in trouble' \ trouble /\ job' = job /\ step' = step
           /\ OverlapOn(p) \subseteq trouble'
           /\ \A q \in Purchase \ {p} : row'[q] = row[q]
<1>1. PICK pending \in BOOLEAN : pending = (row[p].pending /\ newStatus # "completed")
    BY Zenon
<1>2. PICK suspended \in BOOLEAN :
        suspended = CASE access = "suspend" -> TRUE
                      [] access = "reinstate" -> FALSE
                      [] OTHER -> row[p].suspended
    <2>1. (CASE access = "suspend" -> TRUE
             [] access = "reinstate" -> FALSE
             [] OTHER -> row[p].suspended) \in BOOLEAN
        <3>1. CASE access = "suspend"
            BY <3>1
        <3>2. CASE access # "suspend" /\ access = "reinstate"
            BY <3>2
        <3>3. CASE access # "suspend" /\ access # "reinstate"
            BY <3>3, RowIs
        <3>4. QED
            BY <3>1, <3>2, <3>3
    <2>2. QED
        BY <2>1, Zenon
<1>3. PICK v : v = IF access = "suspend" THEN "held"
                   ELSE IF access = "reinstate" /\ newStatus = "completed" THEN "allocated"
                   ELSE newSlot
    OBVIOUS
<1>4. v \in ServerStatus
    BY <1>3 DEF ServerStatus
<1>5. PICK r : r = [row[p] EXCEPT !.status = newStatus, !.pending = pending,
                                  !.suspended = suspended]
    OBVIOUS
<1>6. r \in Row /\ r.status = newStatus /\ r.serverId = row[p].serverId
    BY <1>5, RowIs DEF Row
<1>7. row' = [row EXCEPT ![p] = r]
    <2>1. row' = [row EXCEPT ![p] =
                    [row[p] EXCEPT !.status = newStatus,
                                   !.pending = row[p].pending /\ newStatus # "completed",
                                   !.suspended = CASE access = "suspend" -> TRUE
                                                   [] access = "reinstate" -> FALSE
                                                   [] OTHER -> row[p].suspended]]
        BY RowIs DEF Override, Row, Fits, TypeOK
    <2>2. QED
        BY <1>1, <1>2, <1>5, <2>1, Zenon
<1>8. /\ row[p].status # "none" /\ slot' = [slot EXCEPT ![row[p].serverId] = v]
      /\ linked' = linked /\ Causes({"override"} \cup OverlapOn(p))
      /\ UNCHANGED <<stripeVars, handlerVars>>
    BY <1>3 DEF Override
<1>9. linked' \in [Purchase -> BOOLEAN] /\ newStatus # "none"
    BY <1>8 DEF Fits, TypeOK, PurchaseStatus
<1>10. Fits' /\ job' = job /\ step' = step /\ \A q \in Purchase \ {p} : row'[q] = row[q]
    BY <1>4, <1>6, <1>7, <1>8, <1>9, DeskFits
<1>11. {"override"} \cup OverlapOn(p) \subseteq trouble' \ trouble
    BY <1>8 DEF Causes
<1>12. QED
    BY <1>10, <1>11

\* Checkout: the purchase gets the slot and a session.
LEMMA CheckoutFits ==
    ASSUME Fits, NEW p \in Purchase, NEW s \in Slot, Checkout(p, s)
    PROVE  /\ Fits' /\ row[p] = NoRow /\ session[p] = "none" /\ truth[p] = "none"
           /\ mail[p] = <<>> /\ slot[s] = "available"
           /\ row'[p].status = "checkout_pending" /\ row'[p].sub = "none"
           /\ row'[p].serverId = s /\ ~row'[p].suspended /\ ~row'[p].delinquent
           /\ \A q \in Purchase \ {p} : row'[q] = row[q] /\ session'[q] = session[q]
           /\ slot'[s] = "held" /\ \A t \in Slot \ {s} : slot'[t] = slot[t]
           /\ session'[p] = "open"
           /\ truth' = truth /\ mail' = mail /\ step' = step /\ job' = job /\ trouble' = trouble
<1>1. PICK r : r = [NoRow EXCEPT !.status = "checkout_pending", !.serverId = s]
    OBVIOUS
<1>2. /\ r \in Row /\ r.status = "checkout_pending" /\ r.sub = "none" /\ r.serverId = s
      /\ r.serverId # NoSlot
    BY <1>1, SlotConstants DEF NoRow, Row, PurchaseStatus, Subscription
<1>3. ~r.suspended /\ ~r.delinquent
    BY <1>1 DEF NoRow
<1>4. /\ row[p].status = "none" /\ slot[s] = "available"
      /\ row' = [row EXCEPT ![p] = r] /\ slot' = [slot EXCEPT ![s] = "held"]
      /\ session' = [session EXCEPT ![p] = "open"]
      /\ linked' = linked /\ truth' = truth /\ mail' = mail
      /\ step' = step /\ job' = job /\ trouble' = trouble
    BY <1>1 DEF Checkout, handlerVars
<1>5. /\ row[p] = NoRow /\ session[p] = "none" /\ truth[p] = "none" /\ mail[p] = <<>>
    BY <1>4, RowIs DEF RowFits
<1>6. /\ row' \in [Purchase -> Row] /\ row'[p] = r
      /\ slot' \in [Slot -> ServerStatus] /\ slot'[s] = "held"
      /\ session' \in [Purchase -> {"none", "open", "complete", "expired"}]
      /\ session'[p] = "open"
      /\ \A q \in Purchase \ {p} : row'[q] = row[q] /\ session'[q] = session[q]
      /\ \A t \in Slot \ {s} : slot'[t] = slot[t]
    BY <1>2, <1>4 DEF Fits, TypeOK, ServerStatus
<1>7. /\ truth' \in [Purchase -> Subscription] /\ mail' \in [Purchase -> Seq(Events)]
      /\ linked' \in [Purchase -> BOOLEAN]
      /\ Len(mail'[p]) <= MaxMail + IF "crash" \in trouble' THEN 1 ELSE 0
      /\ \A i \in DOMAIN mail'[p] : mail'[p][i].kind # "abandoned"
      /\ step' \in [Handler -> {"idle", "read", "save", "release", "reallocate"}]
      /\ job' = [h \in Handler |-> job'[h]]
      /\ trouble \subseteq trouble' /\ trouble' \subseteq Trouble
    BY <1>4 DEF Fits, TypeOK, MailFits
<1>8. About(p) /\ Lasts(p)
    BY <1>4, <1>6 DEF About, Lasts
<1>9. RowFits(p)'
    BY <1>2, <1>4, <1>5, <1>6 DEF RowFits
<1>10. \A h \in Handler : step'[h] = step[h] /\ job'[h] = job[h]
    BY <1>4
<1>11. row'[p].serverId = NoSlot <=> row'[p].status = "none"
    BY <1>2, <1>6
<1>12. Fits'
    BY <1>6, <1>7, <1>8, <1>9, <1>10, <1>11, FitsMove
<1>13. QED
    BY <1>2, <1>3, <1>4, <1>5, <1>6, <1>12

\* Every step keeps the types.
LEMMA NextFits ==
    ASSUME Fits, Next
    PROVE  Fits'
<1>1. CASE \E p \in Purchase, s \in Slot :
                Checkout(p, s) \/ \E h \in Handler : CheckoutFails(h, p, s)
    BY <1>1, CheckoutFits, FailureFits
<1>2. CASE \E p \in Purchase : StripeStep(p)
    BY <1>2, StripeFits, UnpaidFits DEF StripeStep
<1>3. CASE \E p \in Purchase : Provision(p) \/ ReleaseReady(p) \/ Suspend(p)
    BY <1>3, ProvisionFits, ReadyFits, SuspendFits
<1>4. CASE \E p \in Purchase, newStatus \in PurchaseStatus, newSlot \in ServerStatus,
                access \in {"keep", "suspend", "reinstate"} :
                Override(p, newStatus, newSlot, access)
    BY <1>4, OverrideFits
<1>5. CASE \E h \in Handler, p \in Purchase :
                Visit(h, p) \/ \E i \in 1 .. MaxMail : Receive(h, p, i)
    BY <1>5, VisitFits, ReceiveFits
<1>6. CASE \E h \in Handler : Read(h) \/ SavePaid(h) \/ SaveSubscription(h) \/ CloseIfPending(h)
    BY <1>6, ReadFits, SavePaidFits, SaveSubscriptionFits, CloseFits
<1>7. CASE \E h \in Handler : Release(h) \/ Reallocate(h) \/ Repeat(h) \/ Dies(h)
    BY <1>7, SlotStepFits, RepeatFits, DiesFits
<1>8. QED
    BY <1>1, <1>2, <1>3, <1>4, <1>5, <1>6, <1>7 DEF Next, HandlerStep

\* No step forgets a trouble.
LEMMA MoreTrouble ==
    ASSUME Fits, Next
    PROVE  trouble \subseteq trouble'
<1>1. CASE \E p \in Purchase, s \in Slot :
                Checkout(p, s) \/ \E h \in Handler : CheckoutFails(h, p, s)
    BY <1>1, CausesMore DEF Checkout, CheckoutFails
<1>2. ASSUME NEW p \in Purchase, StripeStep(p)
      PROVE  trouble \subseteq trouble'
    <2>1. CASE Pay(p) \/ SessionExpires(p)
        BY <2>1, CausesMore DEF Pay, SessionExpires, Sends
    <2>2. CASE RenewalFails(p) \/ RenewalSucceeds(p)
        BY <2>2, CausesMore DEF RenewalFails, RenewalSucceeds, Sends
    <2>3. CASE Ends(p) \/ TurnsUnpaid(p)
        BY <2>3, CausesMore DEF Ends, TurnsUnpaid, Sends
    <2>4. QED
        BY <1>2, <2>1, <2>2, <2>3 DEF StripeStep
<1>3. CASE \E p \in Purchase : Provision(p) \/ ReleaseReady(p) \/ Suspend(p)
    BY <1>3, CausesMore DEF Provision, ReleaseReady, Suspend
<1>4. CASE \E p \in Purchase, newStatus \in PurchaseStatus, newSlot \in ServerStatus,
                access \in {"keep", "suspend", "reinstate"} :
                Override(p, newStatus, newSlot, access)
    BY <1>4, CausesMore DEF Override
<1>5. ASSUME NEW h \in Handler, NEW p \in Purchase,
             Visit(h, p) \/ \E i \in 1 .. MaxMail : Receive(h, p, i)
      PROVE  trouble \subseteq trouble'
    <2>1. CASE Visit(h, p)
        BY <2>1, CausesMore DEF Visit
    <2>2. ASSUME NEW i \in 1 .. MaxMail, Receive(h, p, i)
          PROVE  trouble \subseteq trouble'
        BY <2>2, CausesMore DEF Receive
    <2>3. QED
        BY <1>5, <2>1, <2>2
<1>6. CASE \E h \in Handler : Read(h) \/ SavePaid(h) \/ SaveSubscription(h) \/ CloseIfPending(h)
    BY <1>6 DEF Read, SavePaid, SaveSubscription, CloseIfPending, CloseWithoutRelease
<1>7. ASSUME NEW h \in Handler, Release(h) \/ Reallocate(h) \/ Repeat(h) \/ Dies(h)
      PROVE  trouble \subseteq trouble'
    BY <1>7, CausesMore DEF Release, Reallocate, ReallocateNothing, Repeat, Dies
<1>8. QED
    BY <1>1, <1>2, <1>3, <1>4, <1>5, <1>6, <1>7 DEF Next, HandlerStep

\* Nothing has happened yet.
LEMMA InitFits == Init => Fits
<1>1. SUFFICES ASSUME Init PROVE Fits
    OBVIOUS
<1>2. PICK e : e = <<>>
    OBVIOUS
<1>3. e \in Seq(Events) /\ Len(e) = 0
    BY <1>2, EmptySeq, Zenon
<1>4. DOMAIN e = {}
    BY <1>3, LenProperties
<1>5. mail = [p \in Purchase |-> e] /\ job = [h \in Handler |-> e]
    BY <1>1, <1>2, Zenon DEF Init
<1>6. mail \in [Purchase -> Seq(Events)] /\ \A p \in Purchase : mail[p] = e
    BY <1>3, <1>5
<1>7. MailFits
    BY <1>3, <1>4, <1>6, SlotConstants DEF MailFits
<1>8. job = [h \in Handler |-> job[h]] /\ \A h \in Handler : job[h] = e
    BY <1>5
<1>9. PICK r : r = NoRow
    OBVIOUS
<1>10. r \in Row /\ r.status = "none" /\ r.serverId = NoSlot
    BY <1>9 DEF NoRow, Row, Subscription
<1>11. row = [p \in Purchase |-> r]
    BY <1>1, <1>9, Zenon DEF Init
<1>12. /\ linked = [p \in Purchase |-> FALSE] /\ slot = [s \in Slot |-> "available"]
       /\ session = [p \in Purchase |-> "none"] /\ truth = [p \in Purchase |-> "none"]
       /\ step = [h \in Handler |-> "idle"] /\ trouble = {}
    BY <1>1, Zenon DEF Init
<1>13. row \in [Purchase -> Row] /\ \A p \in Purchase : row[p] = r
    BY <1>10, <1>11
<1>14. /\ linked \in [Purchase -> BOOLEAN] /\ slot \in [Slot -> ServerStatus]
       /\ session \in [Purchase -> {"none", "open", "complete", "expired"}]
       /\ truth \in [Purchase -> Subscription]
       /\ step \in [Handler -> {"idle", "read", "save", "release", "reallocate"}]
       /\ trouble \in SUBSET Trouble
    BY <1>12 DEF ServerStatus, Subscription
<1>15. /\ \A p \in Purchase : session[p] = "none" /\ truth[p] = "none"
       /\ \A h \in Handler : ~Working(h)
    BY <1>12 DEF Working
<1>16. \A p \in Purchase : RowFits(p)
    BY <1>2, <1>6, <1>9, <1>10, <1>13, <1>15 DEF RowFits
<1>17. TypeOK
    <2>1. \A p \in Purchase : row[p].serverId = NoSlot <=> row[p].status = "none"
        BY <1>10, <1>13
    <2>2. \A p \in Purchase : mail[p] \in Seq(Events) /\ Len(mail[p]) <= MaxMail + 1
        BY <1>3, <1>6, SlotConstants
    <2>3. \A h \in Handler : IF Working(h) THEN job[h] \in Job ELSE job[h] = <<>>
        BY <1>2, <1>8, <1>15, Zenon
    <2>4. QED
        BY <1>13, <1>14, <2>1, <2>2, <2>3 DEF TypeOK
<1>18. QED
    BY <1>7, <1>8, <1>15, <1>16, <1>17 DEF Fits

\* A step that changes no variable keeps the types.
LEMMA StutterFits == Fits /\ UNCHANGED vars => Fits'
<1>1. SUFFICES ASSUME Fits, UNCHANGED vars PROVE Fits'
    OBVIOUS
<1>2. /\ row' = row /\ linked' = linked /\ slot' = slot /\ session' = session /\ truth' = truth
      /\ mail' = mail /\ step' = step /\ job' = job /\ trouble' = trouble
    BY <1>1 DEF vars, stripeVars, handlerVars
<1>3. TypeOK'
    BY <1>1, <1>2 DEF Fits, TypeOK, Working
<1>4. MailFits'
    BY <1>1, <1>2 DEF Fits, MailFits
<1>5. job' = [h \in Handler |-> job'[h]]
    BY <1>1, <1>2 DEF Fits
<1>6. \A p \in Purchase : RowFits(p)'
    BY <1>1, <1>2 DEF Fits, RowFits
<1>7. \A h \in Handler : Working(h)' => JobFits(h)'
    BY <1>1, <1>2 DEF Fits, JobFits, Working
<1>8. QED
    BY <1>3, <1>4, <1>5, <1>6, <1>7 DEF Fits

\* Every row, every event and every job in hand is always of its type, and a handler
\* is always about a purchase that is there and the slot of that purchase.
THEOREM FitsAlways == Spec => []Fits
<1>1. Fits /\ [Next]_vars => Fits'
    BY NextFits, StutterFits
<1>2. QED
    BY <1>1, InitFits, PTL DEF Spec

\* The type invariant.
THEOREM TypeCorrect == Spec => []TypeOK
<1>1. Fits => TypeOK
    BY DEF Fits
<1>2. QED
    BY <1>1, FitsAlways, PTL

(***************************************************************************)
(* Without overlap a handler is alone with its purchase                    *)
(***************************************************************************)

\* Without overlap no two handlers work on one purchase, and the row that a handler
\* is about to save is the row it has read.
Alone ==
    "overlap" \notin trouble =>
        /\ \A h, k \in Handler :
                Working(h) /\ Working(k) /\ job[h].purchase = job[k].purchase => h = k
        /\ \A h \in Handler :
                step[h] = "save" /\ job[h].event.kind \in Saving =>
                    job[h].seen = row[job[h].purchase]

\* A step of h about p, where no other handler works on p.
LEMMA AloneMove ==
    ASSUME Fits, Alone, NEW h \in Handler, NEW p \in Purchase, Only(h),
           trouble \subseteq trouble', \A q \in Purchase \ {p} : row'[q] = row[q],
           step'[h] = "idle" \/ job'[h].purchase = p,
           "overlap" \notin trouble' => \A k \in Handler \ {h} : ~WorksOn(k, p),
           step'[h] = "save" /\ job'[h].event.kind \in Saving => job'[h].seen = row'[p]
    PROVE  Alone'
<1>1. SUFFICES ASSUME "overlap" \notin trouble'
               PROVE  /\ \A k, l \in Handler :
                            /\ Working(k)' /\ Working(l)'
                            /\ job'[k].purchase = job'[l].purchase
                            => k = l
                      /\ \A k \in Handler :
                            step'[k] = "save" /\ job'[k].event.kind \in Saving =>
                                job'[k].seen = row'[job'[k].purchase]
    BY DEF Alone
<1>2. \A k \in Handler \ {h} : step'[k] = step[k] /\ job'[k] = job[k]
    BY DEF Only
<1>3. "overlap" \notin trouble /\ \A k \in Handler \ {h} : ~WorksOn(k, p)
    BY <1>1
<1>4. ASSUME NEW k \in Handler, NEW l \in Handler, Working(k)', Working(l)',
             job'[k].purchase = job'[l].purchase
      PROVE  k = l
    <2>1. CASE k # h /\ l # h
        BY <1>2, <1>3, <1>4, <2>1 DEF Alone, Working
    <2>2. CASE k = h /\ l # h
        BY <1>2, <1>3, <1>4, <2>2 DEF Working, WorksOn
    <2>3. CASE k # h /\ l = h
        BY <1>2, <1>3, <1>4, <2>3 DEF Working, WorksOn
    <2>4. QED
        BY <2>1, <2>2, <2>3
<1>5. ASSUME NEW k \in Handler, step'[k] = "save", job'[k].event.kind \in Saving
      PROVE  job'[k].seen = row'[job'[k].purchase]
    <2>1. CASE k = h
        BY <1>5, <2>1
    <2>2. CASE k # h
        <3>1. /\ step[k] = "save" /\ job'[k] = job[k] /\ Working(k)
              /\ job[k].purchase \in Purchase \ {p}
            BY <1>2, <1>3, <1>5, <2>2, HandlerIs DEF Working, WorksOn
        <3>2. QED
            BY <1>3, <1>5, <3>1 DEF Alone
    <2>3. QED
        BY <2>1, <2>2
<1>6. QED
    BY <1>4, <1>5

\* A step of no handler about p, where a handler works on p only for the clean-up.
LEMMA AloneStay ==
    ASSUME Fits, Alone, NEW p \in Purchase, step' = step, job' = job,
           trouble \subseteq trouble', \A q \in Purchase \ {p} : row'[q] = row[q],
           "overlap" \notin trouble' =>
                \A k \in Handler : WorksOn(k, p) => job[k].event.kind = "abandoned"
    PROVE  Alone'
<1>1. SUFFICES ASSUME "overlap" \notin trouble',
                      NEW k \in Handler, step[k] = "save", job[k].event.kind \in Saving
               PROVE  job[k].seen = row'[job[k].purchase]
    BY DEF Alone, Working
<1>2. Working(k) /\ job[k].purchase \in Purchase
    BY <1>1, HandlerIs DEF Working
<1>3. job[k].purchase # p
    BY <1>1, <1>2 DEF WorksOn, Saving
<1>4. QED
    BY <1>1, <1>2, <1>3 DEF Alone

\* A handler that works on p makes it occupied.
LEMMA OverlapIs ==
    ASSUME NEW p, OverlapOn(p) \subseteq trouble', "overlap" \notin trouble'
    PROVE  ~Occupied(p) /\ \A k \in Handler : ~WorksOn(k, p)
BY DEF OverlapOn, Occupied, WorksOn

\* A handler that is at work is alone with its purchase.
LEMMA OwnPurchase ==
    ASSUME Alone, NEW h \in Handler, Working(h), trouble \subseteq trouble'
    PROVE  "overlap" \notin trouble' => \A k \in Handler \ {h} : ~WorksOn(k, job[h].purchase)
BY DEF Alone, WorksOn

\* Every step keeps the handlers alone.
LEMMA NextAlone ==
    ASSUME Fits, Alone, Next
    PROVE  Alone'
<1>1. ASSUME NEW p \in Purchase, NEW s \in Slot, Checkout(p, s)
      PROVE  Alone'
    <2>1. /\ row[p].status = "none" /\ \A q \in Purchase \ {p} : row'[q] = row[q]
          /\ step' = step /\ job' = job /\ trouble' = trouble
        BY <1>1, CheckoutFits DEF NoRow
    <2>2. \A k \in Handler : WorksOn(k, p) => job[k].event.kind = "abandoned"
        BY <2>1, HandlerIs DEF WorksOn, JobFits
    <2>3. QED
        BY <2>1, <2>2, AloneStay
<1>2. ASSUME NEW h \in Handler, NEW p \in Purchase, NEW s \in Slot, CheckoutFails(h, p, s)
      PROVE  Alone'
    <2>1. /\ row[p].status = "none" /\ row' = row /\ Only(h)
          /\ "failure" \notin trouble /\ trouble \subseteq trouble'
        <3>1. {"failure"} \subseteq Trouble \ trouble /\ Causes({"failure"}) /\ row' = row
            BY <1>2 DEF CheckoutFails, Causes
        <3>2. QED
            BY <1>2, <3>1, CausesMore, FailureFits
    <2>2. \A k \in Handler : ~WorksOn(k, p)
        BY <2>1, HandlerIs DEF WorksOn, JobFits
    <2>3. step'[h] = "read" /\ job'[h].purchase = p
        <3>1. PICK j : j = [event |-> Event("abandoned", "none"), mailed |-> FALSE,
                            purchase |-> p, slot |-> s, sub |-> "none", seen |-> NoRow]
            OBVIOUS
        <3>2. /\ step' = [step EXCEPT ![h] = "read"] /\ job' = [job EXCEPT ![h] = j]
              /\ "read" \in {"idle", "read", "save", "release", "reallocate"}
            BY <1>2, <3>1 DEF CheckoutFails
        <3>3. step'[h] = "read" /\ job'[h] = j
            BY <3>2, Moves
        <3>4. QED
            BY <3>1, <3>3
    <2>4. QED
        BY <2>1, <2>2, <2>3, AloneMove
<1>3. ASSUME NEW p \in Purchase, StripeStep(p)
      PROVE  Alone'
    <2>1. row' = row /\ step' = step /\ job' = job
        BY <1>3 DEF StripeStep, Pay, SessionExpires, RenewalFails, RenewalSucceeds, Ends,
                    TurnsUnpaid, Sends, handlerVars
    <2>2. trouble \subseteq trouble'
        BY <1>3, CausesMore DEF StripeStep, Pay, SessionExpires, RenewalFails,
                                RenewalSucceeds, Ends, TurnsUnpaid, Sends
    <2>3. QED
        BY <2>1, <2>2 DEF Alone, Working
<1>4. ASSUME NEW p \in Purchase, Provision(p) \/ ReleaseReady(p) \/ Suspend(p)
      PROVE  Alone'
    <2>1. /\ \A q \in Purchase \ {p} : row'[q] = row[q]
          /\ step' = step /\ job' = job /\ trouble \subseteq trouble'
          /\ OverlapOn(p) \subseteq trouble'
        BY <1>4, ProvisionFits, ReadyFits, SuspendFits
    <2>2. QED
        BY <2>1, OverlapIs, AloneStay
<1>5. ASSUME NEW p \in Purchase, NEW newStatus \in PurchaseStatus, NEW newSlot \in ServerStatus,
             NEW access, Override(p, newStatus, newSlot, access)
      PROVE  Alone'
    <2>1. /\ \A q \in Purchase \ {p} : row'[q] = row[q]
          /\ step' = step /\ job' = job /\ OverlapOn(p) \subseteq trouble'
        BY <1>5, OverrideFits
    <2>2. trouble \subseteq trouble'
        BY <1>5, CausesMore DEF Override
    <2>3. QED
        BY <2>1, <2>2, OverlapIs, AloneStay
<1>6. ASSUME NEW h \in Handler, NEW p \in Purchase, Visit(h, p)
      PROVE  Alone'
    <2>1. /\ Only(h) /\ row' = row /\ step'[h] = "read" /\ job'[h].purchase = p
        BY <1>6, VisitFits DEF Visit
    <2>2. trouble \subseteq trouble' /\ OverlapOn(p) \subseteq trouble'
        BY <1>6, CausesMore DEF Visit
    <2>3. QED
        BY <2>1, <2>2, OverlapIs, AloneMove
<1>7. ASSUME NEW h \in Handler, NEW p \in Purchase, NEW i, Receive(h, p, i)
      PROVE  Alone'
    <2>1. /\ Only(h) /\ row' = row /\ step'[h] = "read" /\ job'[h].purchase = p
        BY <1>7, ReceiveFits DEF Receive
    <2>2. trouble \subseteq trouble' /\ OverlapOn(p) \subseteq trouble'
        BY <1>7, CausesMore DEF Receive
    <2>3. QED
        BY <2>1, <2>2, OverlapIs, AloneMove
<1>8. ASSUME NEW h \in Handler, Read(h)
      PROVE  Alone'
    <2>1. PICK p : p = job[h].purchase
        OBVIOUS
    <2>2. /\ Working(h) /\ Only(h) /\ p \in Purchase /\ row' = row /\ trouble' = trouble
          /\ \/ step'[h] = "idle"
             \/ job'[h] = job[h] /\ job[h].event.kind = "abandoned"
             \/ job'[h].purchase = p /\ job'[h].seen = row[p]
        BY <1>8, <2>1, ReadFits
    <2>3. "overlap" \notin trouble' => \A k \in Handler \ {h} : ~WorksOn(k, p)
        BY <2>1, <2>2, OwnPurchase
    <2>4. step'[h] = "save" /\ job'[h].event.kind \in Saving => job'[h].seen = row'[p]
        BY <2>2 DEF Saving
    <2>5. QED
        BY <2>1, <2>2, <2>3, <2>4, AloneMove
<1>9. ASSUME NEW h \in Handler, SavePaid(h) \/ SaveSubscription(h) \/ CloseIfPending(h)
      PROVE  Alone'
    <2>1. PICK p : p = job[h].purchase
        OBVIOUS
    <2>2. /\ Working(h) /\ Only(h) /\ p \in Purchase /\ trouble' = trouble
          /\ \A q \in Purchase \ {p} : row'[q] = row[q]
          /\ step'[h] # "save" /\ (step'[h] = "idle" \/ job'[h] = job[h])
        <3>1. CASE SavePaid(h)
            BY <2>1, <3>1, SavePaidFits
        <3>2. CASE SaveSubscription(h)
            BY <2>1, <3>2, SaveSubscriptionFits
        <3>3. CASE CloseIfPending(h)
            BY <2>1, <3>3, CloseFits
        <3>4. QED
            BY <1>9, <3>1, <3>2, <3>3
    <2>3. "overlap" \notin trouble' => \A k \in Handler \ {h} : ~WorksOn(k, p)
        BY <2>1, <2>2, OwnPurchase
    <2>4. QED
        BY <2>1, <2>2, <2>3, AloneMove
<1>10. ASSUME NEW h \in Handler, Release(h) \/ Reallocate(h) \/ Dies(h)
       PROVE  Alone'
    <2>1. /\ Working(h) /\ Only(h) /\ row' = row /\ trouble \subseteq trouble'
          /\ step'[h] = "idle" /\ job[h].purchase \in Purchase
        BY <1>10, SlotStepFits, DiesFits
    <2>2. PICK p \in Purchase : p = job[h].purchase
        BY <2>1
    <2>3. "overlap" \notin trouble' => \A k \in Handler \ {h} : ~WorksOn(k, p)
        BY <2>1, <2>2, OwnPurchase
    <2>4. QED
        BY <2>1, <2>2, <2>3, AloneMove
<1>11. ASSUME NEW h \in Handler, Repeat(h)
       PROVE  Alone'
    <2>1. row' = row /\ step' = step /\ job' = job
        BY <1>11, RepeatFits
    <2>2. trouble \subseteq trouble'
        BY <1>11, CausesMore DEF Repeat
    <2>3. QED
        BY <2>1, <2>2 DEF Alone, Working
<1>12. QED
    BY <1>1, <1>2, <1>3, <1>4, <1>5, <1>6, <1>7, <1>8, <1>9, <1>10, <1>11
       DEF Next, HandlerStep

\* A step that changes no variable.
LEMMA StutterAlone == Alone /\ UNCHANGED vars => Alone'
BY DEF Alone, Working, vars, stripeVars, handlerVars

\* Unless the admin edits it, a purchase that no two handlers work on moves forward.
LEMMA NextForward ==
    ASSUME Fits, Alone, Next, "overlap" \notin trouble', ~("override" \in trouble' \ trouble),
           NEW p \in Purchase
    PROVE  \/ row'[p].status = row[p].status
           \/ /\ row'[p].status \in Lifecycle[row[p].status]
              /\ row'[p].status = "completed" => row[p].pending /\ linked[p]
<1>1. ASSUME NEW q \in Purchase, NEW s \in Slot, Checkout(q, s)
      PROVE  \/ row'[p].status = row[p].status
             \/ row[p].status = "none" /\ row'[p].status = "checkout_pending"
    <2>1. /\ row[q] = NoRow /\ row'[q].status = "checkout_pending"
          /\ \A r \in Purchase \ {q} : row'[r] = row[r]
        BY <1>1, CheckoutFits
    <2>2. QED
        BY <2>1 DEF NoRow
<1>2. ASSUME NEW h \in Handler, SavePaid(h)
      PROVE  \/ row'[p].status = row[p].status
             \/ row[p].status = "checkout_pending" /\ row'[p].status = "paid"
    <2>1. PICK q : q = job[h].purchase
        OBVIOUS
    <2>2. /\ row'[q] = PaidRow(job[h].seen, job[h].sub) /\ trouble' = trouble
          /\ \A r \in Purchase \ {q} : row'[r] = row[r]
          /\ step[h] = "save" /\ job[h].event.kind = "completed" /\ job[h].seen \in Row
        BY <1>2, <2>1, SavePaidFits
    <2>3. job[h].seen = row[q]
        BY <2>1, <2>2 DEF Alone, Saving
    <2>4. PICK old \in Row : old = row[q] /\ row'[q] = PaidRow(old, job[h].sub)
        BY <2>2, <2>3
    <2>5. row'[q].status = IF old.status = "checkout_pending" THEN "paid" ELSE old.status
        BY <2>4 DEF PaidRow, Row
    <2>6. QED
        BY <2>2, <2>4, <2>5
<1>3. ASSUME NEW h \in Handler, SaveSubscription(h)
      PROVE  \/ row'[p].status = row[p].status
             \/ row[p].status \in {"checkout_pending", "paid"} /\ row'[p].status = "cancelled"
    <2>1. PICK q : q = job[h].purchase
        OBVIOUS
    <2>2. /\ row'[q] = SyncedRow(job[h].seen, job[h].event.kind, job[h].sub)
          /\ trouble' = trouble /\ \A r \in Purchase \ {q} : row'[r] = row[r]
          /\ step[h] = "save" /\ job[h].seen \in Row
          /\ job[h].event.kind \in {"changed", "invoice_paid", "invoice_failed"}
        BY <1>3, <2>1, SaveSubscriptionFits
    <2>3. job[h].seen = row[q]
        BY <2>1, <2>2 DEF Alone, Saving
    <2>4. PICK old \in Row :
            old = row[q] /\ row'[q] = SyncedRow(old, job[h].event.kind, job[h].sub)
        BY <2>2, <2>3
    <2>5. row'[q].status = IF /\ job[h].sub \in TerminalSubscription
                              /\ old.status \in {"checkout_pending", "paid"}
                           THEN "cancelled" ELSE old.status
        BY <2>4 DEF SyncedRow, Row
    <2>6. QED
        BY <2>2, <2>4, <2>5
<1>4. ASSUME NEW h \in Handler, CloseIfPending(h)
      PROVE  \/ row'[p].status = row[p].status
             \/ row[p].status = "checkout_pending" /\ row'[p].status \in {"expired", "cancelled"}
    BY <1>4, CloseFits
<1>5. ASSUME NEW q \in Purchase, ReleaseReady(q)
      PROVE  \/ row'[p].status = row[p].status
             \/ /\ row[p].status = "paid" /\ row'[p].status = "completed"
                /\ row[p].pending /\ linked[p]
    BY <1>5, ReadyFits
<1>6. ASSUME NEW q \in Purchase, Provision(q) \/ Suspend(q)
      PROVE  row'[p].status = row[p].status
    BY <1>6, ProvisionFits, SuspendFits
<1>7. ASSUME NEW q \in Purchase, NEW newStatus \in PurchaseStatus, NEW newSlot \in ServerStatus,
             NEW access, Override(q, newStatus, newSlot, access)
      PROVE  FALSE
    BY <1>7, OverrideFits
<1>8. ASSUME \/ \E q \in Purchase, s \in Slot, h \in Handler : CheckoutFails(h, q, s)
             \/ \E q \in Purchase : StripeStep(q)
             \/ \E h \in Handler, q \in Purchase : Visit(h, q) \/ \E i : Receive(h, q, i)
             \/ \E h \in Handler : Read(h) \/ Release(h) \/ Reallocate(h) \/ Repeat(h) \/ Dies(h)
      PROVE  row' = row
    BY <1>8 DEF CheckoutFails, StripeStep, Pay, SessionExpires, RenewalFails, RenewalSucceeds,
                Ends, TurnsUnpaid, Sends, Visit, Receive, Read, Release, Reallocate, Repeat,
                Dies
<1>9. \/ row'[p].status = row[p].status
      \/ row[p].status = "none" /\ row'[p].status = "checkout_pending"
      \/ row[p].status = "checkout_pending" /\ row'[p].status \in {"paid", "expired", "cancelled"}
      \/ row[p].status = "paid" /\ row'[p].status = "cancelled"
      \/ /\ row[p].status = "paid" /\ row'[p].status = "completed"
         /\ row[p].pending /\ linked[p]
    BY <1>1, <1>2, <1>3, <1>4, <1>5, <1>6, <1>7, <1>8 DEF Next, HandlerStep
<1>10. QED
    BY <1>9 DEF Lifecycle

\* A purchase moves forward only: no event revives one that is closed, takes a
\* fulfilled one back, or makes one ready.
THEOREM PurchasesMoveForward == Spec => MovesForward
<1>1. Init => Alone
    BY DEF Init, Alone, Working
<1>2. Fits /\ Alone /\ [Next]_vars => Alone'
    BY NextAlone, StutterAlone
<1>3. Fits /\ Alone /\ [Next]_vars =>
        [LET edited == "override" \in trouble' \ trouble
         IN  "overlap" \notin trouble' /\ ~edited =>
            \A p \in Purchase :
                \/ row'[p].status = row[p].status
                \/ /\ row'[p].status \in Lifecycle[row[p].status]
                   /\ row'[p].status = "completed" => row[p].pending /\ linked[p]]_vars
    BY NextForward
<1>4. Fits /\ [Next]_vars => Fits'
    BY NextFits, StutterFits
<1>5. QED
    BY <1>1, <1>2, <1>3, <1>4, InitFits, PTL DEF Spec, MovesForward

(***************************************************************************)
(* A slot has one owner                                                    *)
(***************************************************************************)

\* The trouble that NoSharedSlot withstands, and of that one kind, once.  Without
\* lag Stripe moves a purchase on only when nothing about it is under way.
Calm == OnlyOneOf({"reorder", "overlap", "crash", "visit"})

Kept == {"checkout_pending", "paid", "completed"}

\* The row of a purchase as far as its session and its subscription have come.
Standing(p) ==
    /\ session[p] = "open" => row[p].status = "checkout_pending" /\ row[p].sub = "none"
    /\ session[p] = "expired" => row[p].status \in {"checkout_pending", "expired"}
    /\ truth[p] # "unpaid"
    /\ truth[p] \in {"active", "past_due"} =>
            row[p].status \in Kept /\ row[p].sub \notin TerminalSubscription

\* An event that may be under way: none of an open session, and of a subscription
\* only what is still true.
Timely(p, e) ==
    /\ session[p] # "open"
    /\ session[p] = "expired" => e.kind = "expired"
    /\ session[p] = "complete" => e.kind \in Saving /\ (e.kind = "changed" => e.sub = truth[p])

Waiting(p, e) == Timely(p, e) /\ (truth[p] = "canceled" => e.kind = "changed")

\* A handler works with what is still true; one that saves for a subscription that
\* goes on has read a purchase that goes on.
Handling(p, h) ==
    /\ Timely(p, job[h].event)
    /\ session[p] = "complete" => job[h].sub = truth[p]
    /\ truth[p] = "canceled" =>
            \/ job[h].event.kind = "changed"
            \/ job[h].event.kind = "completed" /\ "visit" \in trouble
    /\ truth[p] \in {"active", "past_due"} =>
            step[h] # "release" /\ (step[h] = "save" => job[h].seen.status \in Kept)
    /\ step[h] = "release" => ~Live(p)

Cancels(e) == e.kind = "changed" /\ e.sub = "canceled"

\* The handler has the end of the subscription in hand, or is about to let the slot go.
Ending(h) == step[h] = "release" \/ Cancels(job[h].event)

\* There is one end at most.
OneEnd(p) ==
    /\ \A i, j \in DOMAIN mail[p] : Cancels(mail[p][i]) /\ Cancels(mail[p][j]) => i = j
    /\ \A i \in DOMAIN mail[p], h \in Handler : Cancels(mail[p][i]) => ~(WorksOn(h, p) /\ Ending(h))
    /\ \A h, k \in Handler : WorksOn(h, p) /\ Ending(h) /\ WorksOn(k, p) /\ Ending(k) => h = k

Course(p) ==
    /\ Standing(p)
    /\ session[p] = "open" => Quiet(p)
    /\ \A i \in DOMAIN mail[p] : Waiting(p, mail[p][i])
    /\ \A h \in Handler : WorksOn(h, p) => Handling(p, h)
    /\ OneEnd(p)

\* A purchase possesses its slot while it has a claim on it, and until the end of its
\* subscription has been handled.
Possesses(p) ==
    \/ Live(p)
    \/ \E i \in DOMAIN mail[p] : Cancels(mail[p][i])
    \/ \E h \in Handler : WorksOn(h, p) /\ Ending(h)

Exclusive ==
    /\ \A p, q \in Purchase :
            p # q /\ Possesses(p) /\ Possesses(q) => row[p].serverId # row[q].serverId
    /\ \A p \in Purchase : Possesses(p) => slot[row[p].serverId] # "available"

Settled == (\A p \in Purchase : Course(p)) /\ Exclusive

\* Calm that lasts has been there before.
LEMMA CalmLasts ==
    ASSUME Calm', trouble \subseteq trouble'
    PROVE  /\ Calm
           /\ trouble' \cap {"lag", "repeat", "failure", "override", "unpaid"} = {}
           /\ "visit" \in trouble' => "overlap" \notin trouble'
<1>1. trouble' = {} \/ \E kind \in {"reorder", "overlap", "crash", "visit"} : trouble' = {kind}
    BY DEF Calm, OnlyOneOf
<1>2. CASE trouble' = {}
    BY <1>2 DEF Calm, OnlyOneOf
<1>3. ASSUME NEW kind \in {"reorder", "overlap", "crash", "visit"}, trouble' = {kind}
      PROVE  /\ Calm
             /\ trouble' \cap {"lag", "repeat", "failure", "override", "unpaid"} = {}
             /\ "visit" \in trouble' => "overlap" \notin trouble'
    <2>1. trouble = {} \/ trouble = {kind}
        BY <1>3
    <2>2. Calm
        BY <2>1 DEF Calm, OnlyOneOf
    <2>3. QED
        BY <1>3, <2>2
<1>4. QED
    BY <1>1, <1>2, <1>3

\* Trouble in a calm is the first, and of one kind.
LEMMA CalmCauses ==
    ASSUME Calm', NEW kinds, Causes(kinds)
    PROVE  /\ kinds # {} => trouble = {}
           /\ \A x, y \in kinds : x = y
           /\ trouble' = trouble \cup kinds /\ trouble \subseteq trouble'
<1>1. kinds \subseteq Trouble \ trouble /\ trouble' = trouble \cup kinds
    BY DEF Causes
<1>2. \A x, y \in trouble' : x = y
    BY DEF Calm, OnlyOneOf
<1>3. QED
    BY <1>1, <1>2

\* In a calm a handler works on the subscription or the expired session of a purchase
\* that is there.
LEMMA CalmJob ==
    ASSUME Fits, Calm, Settled, NEW h \in Handler, Working(h), NEW p, p = job[h].purchase
    PROVE  /\ p \in Purchase /\ Course(p) /\ Handling(p, h) /\ job[h].event.kind # "abandoned"
           /\ job[h].event \in Events
           /\ row[p].status # "none" /\ job[h].slot = row[p].serverId
           /\ \/ /\ session[p] = "expired" /\ job[h].event.kind = "expired"
                 /\ truth[p] = "none"
              \/ /\ session[p] = "complete" /\ truth[p] \in {"active", "past_due", "canceled"}
                 /\ job[h].event.kind \in Saving /\ job[h].sub = truth[p]
<1>1. p \in Purchase /\ JobFits(h) /\ job[h].event \in Events
    BY HandlerIs
<1>2. "failure" \notin trouble
    BY DEF Calm, OnlyOneOf
<1>3. /\ job[h].event.kind # "abandoned" /\ row[p].status # "none"
      /\ job[h].slot = row[p].serverId
    BY <1>1, <1>2 DEF JobFits
<1>4. WorksOn(h, p) /\ Course(p) /\ Handling(p, h)
    BY <1>1 DEF WorksOn, Settled, Course
<1>5. session[p] \in {"complete", "expired"}
    BY <1>1, <1>3, <1>4, RowIs DEF Handling, Timely, RowFits
<1>6. session[p] = "complete" => truth[p] \in {"active", "past_due", "canceled"}
    BY <1>1, <1>4, RowIs DEF Course, Standing, RowFits, Subscription
<1>7. session[p] = "expired" => truth[p] = "none"
    BY <1>1, RowIs DEF RowFits
<1>8. QED
    BY <1>1, <1>3, <1>4, <1>5, <1>6, <1>7 DEF Handling, Timely

\* Nothing about q changes.
Beside(q) ==
    /\ row'[q] = row[q] /\ session'[q] = session[q]
    /\ truth'[q] = truth[q] /\ mail'[q] = mail[q]
    /\ \A h \in Handler :
            (WorksOn(h, q) \/ WorksOn(h, q)') => step'[h] = step[h] /\ job'[h] = job[h]

\* A purchase beside the step keeps its course, its claim and its slot.
LEMMA BesideKeeps ==
    ASSUME NEW q \in Purchase, Beside(q), Course(q), trouble \subseteq trouble'
    PROVE  Course(q)' /\ (Possesses(q)' <=> Possesses(q)) /\ row'[q] = row[q]
<1>1. /\ row'[q] = row[q] /\ session'[q] = session[q]
      /\ truth'[q] = truth[q] /\ mail'[q] = mail[q]
    BY DEF Beside
<1>2. \A h \in Handler :
        /\ WorksOn(h, q)' <=> WorksOn(h, q)
        /\ WorksOn(h, q) => step'[h] = step[h] /\ job'[h] = job[h]
    BY DEF Beside, WorksOn, Working
<1>3. Live(q)' <=> Live(q)
    BY <1>1 DEF Live
<1>4. Quiet(q) => Quiet(q)'
    BY <1>1, <1>2 DEF Quiet, Occupied, WorksOn
<1>5. \A h \in Handler : WorksOn(h, q) => (Ending(h)' <=> Ending(h))
    BY <1>2 DEF Ending, Cancels
<1>6. OneEnd(q)'
    BY <1>1, <1>2, <1>5 DEF Course, OneEnd, Cancels
<1>7. \A h \in Handler : WorksOn(h, q)' => Handling(q, h)'
    BY <1>1, <1>2, <1>3 DEF Course, Handling, Timely
<1>8. \A i \in DOMAIN mail'[q] : Waiting(q, mail[q][i])'
    BY <1>1 DEF Course, Waiting, Timely
<1>9. Standing(q)'
    BY <1>1 DEF Course, Standing
<1>10. Course(q)'
    BY <1>1, <1>4, <1>6, <1>7, <1>8, <1>9 DEF Course
<1>11. Possesses(q)' <=> Possesses(q)
    BY <1>1, <1>2, <1>3, <1>5 DEF Possesses, Cancels
<1>12. QED
    BY <1>1, <1>10, <1>11

\* A step about p: nothing is possessed that was not, and nothing possessed is sold.
LEMMA CalmMove ==
    ASSUME NEW p \in Purchase, Settled,
           \A q \in Purchase \ {p} : Beside(q), trouble \subseteq trouble',
           Course(p)', Possesses(p)' => Possesses(p), row'[p].serverId = row[p].serverId,
           \A q \in Purchase :
                Possesses(q)' /\ slot[row[q].serverId] # "available" =>
                    slot'[row[q].serverId] # "available"
    PROVE  Settled'
<1>1. \A q \in Purchase :
        /\ Course(q)' /\ row'[q].serverId = row[q].serverId
        /\ Possesses(q)' => Possesses(q)
    BY BesideKeeps DEF Settled
<1>2. Exclusive'
    BY <1>1 DEF Settled, Exclusive
<1>3. QED
    BY <1>1, <1>2 DEF Settled

\* In a calm Stripe sends events about a purchase only when nothing is under way, and
\* then they are the only ones.
LEMMA SendsAlone ==
    ASSUME Fits, Calm', NEW p \in Purchase, NEW events \in Seq(Events), Sends(p, events)
    PROVE  /\ Calm /\ Quiet(p) /\ mail'[p] = events /\ trouble' = trouble
           /\ \A q \in Purchase \ {p} : mail'[q] = mail[q]
           /\ row' = row /\ slot' = slot /\ step' = step /\ job' = job
           /\ \A h \in Handler : ~WorksOn(h, p)
<1>1. /\ mail' = [mail EXCEPT ![p] = @ \o events]
      /\ row' = row /\ slot' = slot /\ step' = step /\ job' = job
      /\ Causes(IF mail[p] # <<>> \/ Occupied(p) THEN {"lag"} ELSE {})
    BY DEF Sends, handlerVars
<1>2. Calm /\ "lag" \notin trouble'
    <2>1. trouble \subseteq trouble'
        BY <1>1, CausesMore
    <2>2. QED
        BY <2>1, CalmLasts
<1>3. mail[p] = <<>> /\ ~Occupied(p)
    <2>1. SUFFICES ASSUME mail[p] # <<>> \/ Occupied(p) PROVE FALSE
        BY Zenon
    <2>2. Causes({"lag"})
        BY <1>1, <2>1
    <2>3. QED
        BY <1>2, <2>2, CausesMore
<1>4. trouble' = trouble
    <2>1. Causes({})
        BY <1>1, <1>3
    <2>2. QED
        BY <2>1, CalmCauses
<1>5. mail'[p] = events /\ \A q \in Purchase \ {p} : mail'[q] = mail[q]
    <2>1. /\ mail'[p] = mail[p] \o events
          /\ \A q \in Purchase \ {p} : mail'[q] = mail[q]
        BY <1>1 DEF Fits, MailFits
    <2>2. <<>> \o events = events
        BY ConcatEmptySeq, Zenon
    <2>3. QED
        BY <1>3, <2>1, <2>2, Zenon
<1>6. QED
    BY <1>1, <1>2, <1>3, <1>4, <1>5 DEF Quiet, Occupied, WorksOn

\* The events tell the news, that the session is s and the subscription t.
Tells(events, s, t) ==
    \A i \in DOMAIN events :
        /\ s = "expired" => events[i].kind = "expired"
        /\ s = "complete" =>
                /\ events[i].kind \in Saving
                /\ events[i].kind = "changed" => events[i].sub = t
        /\ t = "canceled" => events[i].kind = "changed"

\* The news fits the row of p, and the end of a subscription is told once.
FitsNews(p, events, s, t) ==
    /\ s = "expired" => row[p].status = "checkout_pending" /\ t = "none"
    /\ t # "unpaid"
    /\ t \in {"active", "past_due"} =>
            row[p].status \in Kept /\ row[p].sub \notin TerminalSubscription
    /\ t = "canceled" => Live(p) /\ \A i, j \in DOMAIN events : i = j

\* A step of Stripe about p that sends what is true from now on.
LEMMA SendsSettled ==
    ASSUME Fits, Settled, Calm', NEW p \in Purchase, NEW events \in Seq(Events),
           Sends(p, events),
           NEW s \in {"complete", "expired"}, session' = [session EXCEPT ![p] = s],
           NEW t \in Subscription, truth' = [truth EXCEPT ![p] = t],
           Tells(events, s, t), FitsNews(p, events, s, t)
    PROVE  Settled'
<1>1. /\ Calm /\ Quiet(p) /\ mail'[p] = events /\ trouble' = trouble
      /\ \A q \in Purchase \ {p} : mail'[q] = mail[q]
      /\ row' = row /\ slot' = slot /\ step' = step /\ job' = job
      /\ \A h \in Handler : ~WorksOn(h, p)
    BY SendsAlone
<1>2. /\ session'[p] = s /\ truth'[p] = t
      /\ \A q \in Purchase \ {p} : session'[q] = session[q] /\ truth'[q] = truth[q]
    BY DEF Fits, TypeOK
<1>3. \A q \in Purchase \ {p} : Beside(q)
    BY <1>1, <1>2 DEF Beside
<1>4. \A h \in Handler : ~WorksOn(h, p)'
    BY <1>1 DEF WorksOn, Working
<1>5. Live(p)' <=> Live(p)
    BY <1>1 DEF Live
<1>6. \A i \in DOMAIN events : Cancels(events[i]) => t = "canceled"
    <2>1. ASSUME NEW i \in DOMAIN events, Cancels(events[i]), t # "canceled"
          PROVE  FALSE
        <3>1. s = "complete" /\ events[i].kind = "changed" => events[i].sub = t
            BY DEF Tells
        <3>2. s = "expired" => events[i].kind = "expired"
            BY DEF Tells
        <3>3. QED
            BY <2>1, <3>1, <3>2 DEF Cancels
    <2>2. QED
        BY <2>1
<1>7. \A i \in DOMAIN mail'[p] : Waiting(p, mail[p][i])'
    BY <1>1, <1>2 DEF Waiting, Timely, Tells
<1>8. OneEnd(p)'
    BY <1>1, <1>4, <1>6 DEF OneEnd, FitsNews
<1>9. Standing(p)'
    BY <1>1, <1>2 DEF Standing, FitsNews
<1>10. Course(p)'
    BY <1>2, <1>4, <1>7, <1>8, <1>9 DEF Course
<1>11. Possesses(p)' => Possesses(p)
    BY <1>1, <1>4, <1>5, <1>6 DEF Possesses, FitsNews
<1>12. QED
    BY <1>1, <1>3, <1>10, <1>11, CalmMove

\* The steps of Stripe.
LEMMA StripeSettled ==
    ASSUME Fits, Settled, Calm', NEW p \in Purchase, StripeStep(p)
    PROVE  Settled'
<1>1. /\ session[p] \in {"none", "open", "complete", "expired"} /\ truth[p] \in Subscription
      /\ truth[p] = "none" <=> session[p] # "complete"
    BY RowIs DEF RowFits
<1>2. \A f \in {session, truth} : f = [f EXCEPT ![p] = f[p]]
    BY DEF Fits, TypeOK
<1>3. trouble \subseteq trouble'
    BY CausesMore DEF StripeStep, Pay, SessionExpires, RenewalFails, RenewalSucceeds, Ends,
                      TurnsUnpaid, Sends
<1>4. Calm /\ "unpaid" \notin trouble' /\ Course(p) /\ Standing(p)
    BY <1>3, CalmLasts DEF Settled, Course
<1>5. CASE Pay(p)
    <2>1. /\ session[p] = "open" /\ session' = [session EXCEPT ![p] = "complete"]
          /\ truth' = [truth EXCEPT ![p] = "active"]
          /\ Sends(p, <<Event("completed", "none"), Event("changed", "active")>>)
        BY <1>5 DEF Pay
    <2>2. /\ Event("completed", "none") \in Events /\ Event("changed", "active") \in Events
          /\ Event("completed", "none").kind = "completed"
          /\ Event("changed", "active").kind = "changed"
          /\ Event("changed", "active").sub = "active"
        BY DEF Event, Events, EventKind, Subscription
    <2>3. PICK e \in Events : e = Event("completed", "none")
        BY <2>2
    <2>4. PICK f \in Events : f = Event("changed", "active")
        BY <2>2
    <2>5. Tells(<<e, f>>, "complete", "active")
        BY <2>2, <2>3, <2>4, EventsAre DEF Saving, Tells
    <2>6. /\ "complete" \in {"complete", "expired"} /\ "active" \in Subscription
          /\ FitsNews(p, <<e, f>>, "complete", "active")
        BY <1>4, <2>1 DEF Standing, Kept, Subscription, TerminalSubscription, FitsNews
    <2>7. Sends(p, <<e, f>>) /\ <<e, f>> \in Seq(Events)
        BY <2>1, <2>3, <2>4, EventsAre
    <2>8. QED
        BY <2>1, <2>5, <2>6, <2>7, SendsSettled
<1>6. CASE SessionExpires(p)
    <2>1. /\ session[p] = "open" /\ session' = [session EXCEPT ![p] = "expired"]
          /\ truth' = [truth EXCEPT ![p] = "none"]
          /\ Sends(p, <<Event("expired", "none")>>)
        BY <1>1, <1>2, <1>6 DEF SessionExpires
    <2>2. Event("expired", "none") \in Events /\ Event("expired", "none").kind = "expired"
        BY DEF Event, Events, EventKind, Subscription
    <2>3. PICK e \in Events : e = Event("expired", "none")
        BY <2>2
    <2>4. Tells(<<e>>, "expired", "none")
        BY <2>2, <2>3, EventsAre DEF Tells
    <2>5. /\ "expired" \in {"complete", "expired"} /\ "none" \in Subscription
          /\ FitsNews(p, <<e>>, "expired", "none")
        BY <1>4, <2>1 DEF Standing, Subscription, FitsNews
    <2>6. Sends(p, <<e>>) /\ <<e>> \in Seq(Events)
        BY <2>1, <2>3, EventsAre
    <2>7. QED
        BY <2>1, <2>4, <2>5, <2>6, SendsSettled
<1>7. CASE RenewalFails(p)
    <2>1. /\ session[p] = "complete" /\ session' = [session EXCEPT ![p] = "complete"]
          /\ truth[p] = "active" /\ truth' = [truth EXCEPT ![p] = "past_due"]
          /\ Sends(p, <<Event("invoice_failed", "none"), Event("changed", "past_due")>>)
        BY <1>1, <1>2, <1>7 DEF RenewalFails
    <2>2. /\ Event("invoice_failed", "none") \in Events
          /\ Event("changed", "past_due") \in Events
          /\ Event("invoice_failed", "none").kind = "invoice_failed"
          /\ Event("changed", "past_due").kind = "changed"
          /\ Event("changed", "past_due").sub = "past_due"
        BY DEF Event, Events, EventKind, Subscription
    <2>3. PICK e \in Events : e = Event("invoice_failed", "none")
        BY <2>2
    <2>4. PICK f \in Events : f = Event("changed", "past_due")
        BY <2>2
    <2>5. Tells(<<e, f>>, "complete", "past_due")
        BY <2>2, <2>3, <2>4, EventsAre DEF Saving, Tells
    <2>6. /\ "complete" \in {"complete", "expired"} /\ "past_due" \in Subscription
          /\ FitsNews(p, <<e, f>>, "complete", "past_due")
        BY <1>4, <2>1 DEF Standing, Subscription, FitsNews
    <2>7. Sends(p, <<e, f>>) /\ <<e, f>> \in Seq(Events)
        BY <2>1, <2>3, <2>4, EventsAre
    <2>8. QED
        BY <2>1, <2>5, <2>6, <2>7, SendsSettled
<1>8. CASE RenewalSucceeds(p)
    <2>1. /\ session[p] = "complete" /\ session' = [session EXCEPT ![p] = "complete"]
          /\ truth[p] \in {"past_due", "unpaid"} /\ truth' = [truth EXCEPT ![p] = "active"]
          /\ Sends(p, <<Event("invoice_paid", "none"), Event("changed", "active")>>)
        BY <1>1, <1>2, <1>8 DEF RenewalSucceeds
    <2>2. /\ Event("invoice_paid", "none") \in Events /\ Event("changed", "active") \in Events
          /\ Event("invoice_paid", "none").kind = "invoice_paid"
          /\ Event("changed", "active").kind = "changed"
          /\ Event("changed", "active").sub = "active"
        BY DEF Event, Events, EventKind, Subscription
    <2>3. PICK e \in Events : e = Event("invoice_paid", "none")
        BY <2>2
    <2>4. PICK f \in Events : f = Event("changed", "active")
        BY <2>2
    <2>5. Tells(<<e, f>>, "complete", "active")
        BY <2>2, <2>3, <2>4, EventsAre DEF Saving, Tells
    <2>6. /\ "complete" \in {"complete", "expired"} /\ "active" \in Subscription
          /\ FitsNews(p, <<e, f>>, "complete", "active")
        BY <1>4, <2>1 DEF Standing, Subscription, FitsNews
    <2>7. Sends(p, <<e, f>>) /\ <<e, f>> \in Seq(Events)
        BY <2>1, <2>3, <2>4, EventsAre
    <2>8. QED
        BY <2>1, <2>5, <2>6, <2>7, SendsSettled
<1>9. CASE Ends(p)
    <2>1. /\ session[p] = "complete" /\ session' = [session EXCEPT ![p] = "complete"]
          /\ truth[p] \in {"active", "past_due", "unpaid"}
          /\ truth' = [truth EXCEPT ![p] = "canceled"]
          /\ Sends(p, <<Event("changed", "canceled")>>)
        BY <1>1, <1>2, <1>9 DEF Ends
    <2>2. /\ Event("changed", "canceled") \in Events
          /\ Event("changed", "canceled").kind = "changed"
          /\ Event("changed", "canceled").sub = "canceled"
        BY DEF Event, Events, EventKind, Subscription
    <2>3. PICK e \in Events : e = Event("changed", "canceled")
        BY <2>2
    <2>4. /\ \A i \in DOMAIN <<e>> : <<e>>[i].kind = "changed" /\ <<e>>[i].sub = "canceled"
          /\ \A i, j \in DOMAIN <<e>> : i = j
        BY <2>2, <2>3, EventsAre
    <2>5. /\ "complete" \in {"complete", "expired"} /\ "canceled" \in Subscription
          /\ Tells(<<e>>, "complete", "canceled") /\ FitsNews(p, <<e>>, "complete", "canceled")
        <3>1. Live(p)
            BY <1>4, <2>1 DEF Standing, Kept, Live
        <3>2. FitsNews(p, <<e>>, "complete", "canceled")
            BY <2>4, <3>1 DEF FitsNews
        <3>3. Tells(<<e>>, "complete", "canceled")
            BY <2>4 DEF Tells, Saving
        <3>4. QED
            BY <3>2, <3>3 DEF Subscription
    <2>6. Sends(p, <<e>>) /\ <<e>> \in Seq(Events)
        BY <2>1, <2>3, EventsAre
    <2>7. QED
        BY <2>1, <2>4, <2>5, <2>6, SendsSettled
<1>10. CASE TurnsUnpaid(p)
    BY <1>4, <1>10, CausesMore DEF TurnsUnpaid
<1>11. QED
    BY <1>5, <1>6, <1>7, <1>8, <1>9, <1>10 DEF StripeStep

(***************************************************************************)
(* Handlers in a calm                                                      *)
(***************************************************************************)

\* A step of h about p leaves the other purchases alone.
LEMMA BesideHandler ==
    ASSUME NEW p \in Purchase, NEW h \in Handler, Only(h), ~Working(h) \/ WorksOn(h, p),
           step'[h] = "idle" \/ job'[h].purchase = p,
           \A q \in Purchase \ {p} :
                /\ row'[q] = row[q] /\ session'[q] = session[q]
                /\ truth'[q] = truth[q] /\ mail'[q] = mail[q]
    PROVE  \A q \in Purchase \ {p} : Beside(q)
BY DEF Beside, Only, WorksOn, Working

\* The other handlers of p go on, unless one of them is about to let go what p has got.
LEMMA OthersGoOn ==
    ASSUME NEW p \in Purchase, Course(p), NEW h \in Handler, Only(h),
           session'[p] = session[p], truth'[p] = truth[p], trouble \subseteq trouble',
           \/ Live(p)' => Live(p)
           \/ \A k \in Handler \ {h} : WorksOn(k, p) => step[k] # "release"
    PROVE  \A k \in Handler \ {h} : WorksOn(k, p)' => Handling(p, k)'
<1>1. SUFFICES ASSUME NEW k \in Handler \ {h}, WorksOn(k, p)'
               PROVE  Handling(p, k)'
    OBVIOUS
<1>2. step'[k] = step[k] /\ job'[k] = job[k]
    BY DEF Only
<1>3. WorksOn(k, p) /\ Handling(p, k)
    BY <1>1, <1>2 DEF WorksOn, Working, Course
<1>4. step[k] = "release" => ~Live(p)'
    BY <1>3 DEF Handling
<1>5. QED
    BY <1>2, <1>3, <1>4 DEF Handling, Timely

\* h begins no end.
LEMMA NoNewEnd ==
    ASSUME NEW p \in Purchase, OneEnd(p), NEW h \in Handler, Only(h), mail'[p] = mail[p],
           WorksOn(h, p)' /\ Ending(h)' => WorksOn(h, p) /\ Ending(h)
    PROVE  /\ OneEnd(p)'
           /\ Possesses(p)' => Live(p)' \/ Possesses(p)
<1>1. \A k \in Handler : WorksOn(k, p)' /\ Ending(k)' => WorksOn(k, p) /\ Ending(k)
    BY DEF Only, WorksOn, Working, Ending, Cancels
<1>2. OneEnd(p)'
    BY <1>1 DEF OneEnd, Cancels
<1>3. QED
    BY <1>1, <1>2 DEF Possesses, Cancels

\* In a calm a possessor has a slot.
LEMMA Possessor ==
    ASSUME Fits, Settled, Calm, NEW q \in Purchase, Possesses(q)
    PROVE  row[q].serverId \in Slot
<1>1. SUFFICES ASSUME row[q].status = "none" PROVE FALSE
    BY RowIs
<1>2. mail[q] = <<>>
    BY <1>1, RowIs DEF RowFits
<1>3. Len(mail[q]) = 0
    BY <1>2, EmptySeq, Zenon
<1>4. DOMAIN mail[q] = {}
    <2>1. DOMAIN mail[q] = 1 .. Len(mail[q])
        BY RowIs, LenProperties
    <2>2. QED
        BY <1>3, <2>1
<1>5. ~Live(q)
    BY <1>1 DEF Live
<1>6. \A h \in Handler : ~WorksOn(h, q)
    BY <1>1, CalmJob DEF WorksOn
<1>7. QED
    BY <1>4, <1>5, <1>6 DEF Possesses

\* Checkout: nobody possesses a slot that is for sale.
LEMMA CheckoutSettled ==
    ASSUME Fits, Settled, Calm', NEW p \in Purchase, NEW s \in Slot, Checkout(p, s)
    PROVE  Settled'
<1>1. /\ row[p] = NoRow /\ session[p] = "none" /\ truth[p] = "none"
      /\ mail[p] = <<>> /\ slot[s] = "available"
      /\ row'[p].status = "checkout_pending" /\ row'[p].sub = "none" /\ row'[p].serverId = s
      /\ \A q \in Purchase \ {p} : row'[q] = row[q] /\ session'[q] = session[q]
      /\ slot'[s] = "held" /\ \A t \in Slot \ {s} : slot'[t] = slot[t]
      /\ session'[p] = "open"
      /\ truth' = truth /\ mail' = mail /\ step' = step /\ job' = job /\ trouble' = trouble
    BY CheckoutFits
<1>2. Calm
    BY <1>1, CalmLasts
<1>3. \A h \in Handler : ~WorksOn(h, p)
    BY <1>1, <1>2, CalmJob DEF WorksOn, NoRow
<1>4. \A h \in Handler : ~WorksOn(h, p)'
    BY <1>1, <1>3 DEF WorksOn, Working
<1>5. \A q \in Purchase \ {p} : Beside(q)
    BY <1>1 DEF Beside
<1>6. \A q \in Purchase \ {p} :
        Course(q)' /\ (Possesses(q)' <=> Possesses(q)) /\ row'[q] = row[q]
    BY <1>1, <1>5, BesideKeeps DEF Settled
<1>7. DOMAIN mail'[p] = {}
    <2>1. Len(mail[p]) = 0
        BY <1>1, EmptySeq, Zenon
    <2>2. DOMAIN mail[p] = 1 .. Len(mail[p])
        BY RowIs, LenProperties
    <2>3. QED
        BY <1>1, <2>1, <2>2
<1>8. Course(p)'
    <2>1. Standing(p)'
        BY <1>1 DEF Standing
    <2>2. Quiet(p)'
        BY <1>1, <1>4 DEF Quiet, Occupied, WorksOn
    <2>3. OneEnd(p)'
        BY <1>4, <1>7 DEF OneEnd
    <2>4. QED
        BY <1>4, <1>7, <2>1, <2>2, <2>3 DEF Course
<1>9. \A q \in Purchase \ {p} : Possesses(q) => row[q].serverId # s
    BY <1>1 DEF Settled, Exclusive
<1>10. \A q, r \in Purchase : q # r /\ Possesses(q)' /\ Possesses(r)' =>
                                    row'[q].serverId # row'[r].serverId
    BY <1>1, <1>6, <1>9 DEF Settled, Exclusive
<1>11. ASSUME NEW q \in Purchase, Possesses(q)'
       PROVE  slot'[row'[q].serverId] # "available"
    <2>1. CASE q = p
        BY <1>1, <2>1
    <2>2. CASE q # p
        <3>1. Possesses(q) /\ row'[q] = row[q]
            BY <1>6, <1>11, <2>2
        <3>2. slot[row[q].serverId] # "available" /\ row[q].serverId # s
            BY <1>9, <2>2, <3>1 DEF Settled, Exclusive
        <3>3. row[q].serverId \in Slot
            BY <1>2, <3>1, Possessor
        <3>4. QED
            BY <1>1, <3>1, <3>2, <3>3
    <2>3. QED
        BY <2>1, <2>2
<1>12. QED
    BY <1>6, <1>8, <1>10, <1>11 DEF Settled, Exclusive

\* Without its i-th event a mailbox has others of its events, each once.
LEMMA RemovedIs ==
    ASSUME NEW s \in Seq(Events), NEW i \in 1 .. Len(s), NEW m, m = RemoveAt(s, i)
    PROVE  \E f \in [DOMAIN m -> DOMAIN s \ {i}] :
                /\ \A j \in DOMAIN m : m[j] = s[f[j]]
                /\ \A j, k \in DOMAIN m : f[j] = f[k] => j = k
<1>1. /\ DOMAIN m = 1 .. Len(s) - 1
      /\ \A j \in 1 .. Len(s) - 1 : m[j] = s[IF j < i THEN j ELSE j + 1]
    BY RemoveAtIs
<1>2. DOMAIN s = 1 .. Len(s) /\ Len(s) \in Nat
    BY LenProperties
<1>3. PICK f : f = [j \in DOMAIN m |-> IF j < i THEN j ELSE j + 1]
    OBVIOUS
<1>4. f \in [DOMAIN m -> DOMAIN s \ {i}]
    BY <1>1, <1>2, <1>3
<1>5. \A j \in DOMAIN m : m[j] = s[f[j]]
    BY <1>1, <1>3
<1>6. \A j, k \in DOMAIN m : f[j] = f[k] => j = k
    BY <1>1, <1>2, <1>3
<1>7. QED
    BY <1>4, <1>5, <1>6

\* Receive: what was waiting is in hand.
LEMMA ReceiveSettled ==
    ASSUME Fits, Settled, Calm', NEW h \in Handler, NEW p \in Purchase, NEW i, Receive(h, p, i)
    PROVE  Settled'
<1>1. /\ ~Working(h) /\ Only(h)
      /\ step'[h] = "read" /\ job'[h].purchase = p /\ job'[h].event = mail[p][i]
      /\ i \in 1 .. Len(mail[p]) /\ i \in DOMAIN mail[p]
      /\ job'[h].sub = IF mail[p][i].kind = "changed" THEN mail[p][i].sub ELSE truth[p]
    BY ReceiveFits
<1>2. /\ row' = row /\ slot' = slot /\ session' = session /\ truth' = truth
      /\ trouble \subseteq trouble' /\ mail' = [mail EXCEPT ![p] = RemoveAt(@, i)]
    BY CausesMore DEF Receive
<1>3. Calm /\ Course(p)
    BY <1>2, CalmLasts DEF Settled
<1>4. /\ mail'[p] = RemoveAt(mail[p], i) /\ \A q \in Purchase \ {p} : mail'[q] = mail[q]
    BY <1>2 DEF Fits, MailFits
<1>5. PICK f \in [DOMAIN mail'[p] -> DOMAIN mail[p] \ {i}] :
            /\ \A j \in DOMAIN mail'[p] : mail'[p][j] = mail[p][f[j]]
            /\ \A j, k \in DOMAIN mail'[p] : f[j] = f[k] => j = k
    <2>1. mail[p] \in Seq(Events)
        BY RowIs
    <2>2. QED
        BY <1>1, <1>4, <2>1, RemovedIs
<1>6. \A q \in Purchase \ {p} : Beside(q)
    BY <1>1, <1>2, <1>4, BesideHandler
<1>7. Live(p)' <=> Live(p)
    BY <1>2 DEF Live
<1>8. \A k \in Handler \ {h} : WorksOn(k, p)' => Handling(p, k)'
    BY <1>1, <1>2, <1>3, <1>7, OthersGoOn
<1>9. Waiting(p, mail[p][i])
    BY <1>1, <1>3 DEF Course
<1>10. Handling(p, h)'
    BY <1>1, <1>2, <1>9 DEF Handling, Waiting, Timely
<1>11. \A j \in DOMAIN mail'[p] : Waiting(p, mail[p][j])'
    BY <1>2, <1>3, <1>5 DEF Course, Waiting, Timely
<1>12. /\ WorksOn(h, p)' /\ ~WorksOn(h, p) /\ (Ending(h)' <=> Cancels(mail[p][i]))
       /\ \A k \in Handler \ {h} :
            (WorksOn(k, p)' <=> WorksOn(k, p)) /\ (Ending(k)' <=> Ending(k))
    BY <1>1 DEF Only, WorksOn, Working, Ending, Cancels
<1>13. \A j \in DOMAIN mail'[p] : Cancels(mail'[p][j]) => Cancels(mail[p][f[j]])
    BY <1>5 DEF Cancels
<1>14. OneEnd(p)'
    <2>1. OneEnd(p)
        BY <1>3 DEF Course
    <2>2. \A j, k \in DOMAIN mail'[p] : Cancels(mail'[p][j]) /\ Cancels(mail'[p][k]) => j = k
        BY <1>5, <1>13, <2>1 DEF OneEnd
    <2>3. ASSUME NEW j \in DOMAIN mail'[p], NEW k \in Handler, Cancels(mail'[p][j]),
                 WorksOn(k, p)', Ending(k)'
          PROVE  FALSE
        <3>1. Cancels(mail[p][f[j]]) /\ f[j] \in DOMAIN mail[p] /\ f[j] # i
            BY <1>5, <1>13, <2>3
        <3>2. CASE k = h
            BY <1>1, <1>12, <2>1, <2>3, <3>1, <3>2 DEF OneEnd
        <3>3. CASE k # h
            BY <1>12, <2>1, <2>3, <3>1, <3>3 DEF OneEnd
        <3>4. QED
            BY <3>2, <3>3
    <2>4. ASSUME NEW k \in Handler, NEW l \in Handler, WorksOn(k, p)', Ending(k)',
                 WorksOn(l, p)', Ending(l)'
          PROVE  k = l
        <3>1. CASE k # h /\ l # h
            BY <1>12, <2>1, <2>4, <3>1 DEF OneEnd
        <3>2. CASE k = h /\ l # h
            BY <1>1, <1>12, <2>1, <2>4, <3>2 DEF OneEnd
        <3>3. CASE k # h /\ l = h
            BY <1>1, <1>12, <2>1, <2>4, <3>3 DEF OneEnd
        <3>4. QED
            BY <3>1, <3>2, <3>3
    <2>5. QED
        BY <2>2, <2>3, <2>4 DEF OneEnd
<1>15. Standing(p)' /\ session'[p] # "open"
    BY <1>2, <1>3, <1>9 DEF Course, Standing, Waiting, Timely
<1>16. Course(p)'
    BY <1>8, <1>10, <1>11, <1>14, <1>15 DEF Course
<1>17. Possesses(p)' => Possesses(p)
    BY <1>1, <1>5, <1>7, <1>12, <1>13 DEF Possesses
<1>18. QED
    BY <1>2, <1>3, <1>6, <1>16, <1>17, CalmMove

\* Visit
LEMMA VisitSettled ==
    ASSUME Fits, Settled, Calm', NEW h \in Handler, NEW p \in Purchase, Visit(h, p)
    PROVE  Settled'
<1>1. /\ ~Working(h) /\ Only(h)
      /\ step'[h] = "read" /\ job'[h].purchase = p
      /\ job'[h].event.kind = IF session[p] = "complete" THEN "completed" ELSE "expired"
      /\ job'[h].sub = truth[p] /\ session[p] \in {"complete", "expired"}
      /\ "visit" \in trouble'
    BY VisitFits
<1>2. /\ row' = row /\ slot' = slot /\ session' = session /\ truth' = truth /\ mail' = mail
      /\ trouble \subseteq trouble'
    BY CausesMore DEF Visit, stripeVars
<1>3. Calm /\ Course(p)
    BY <1>2, CalmLasts DEF Settled
<1>4. \A q \in Purchase \ {p} : Beside(q)
    BY <1>1, <1>2, BesideHandler
<1>5. Live(p)' <=> Live(p)
    BY <1>2 DEF Live
<1>6. \A k \in Handler \ {h} : WorksOn(k, p)' => Handling(p, k)'
    BY <1>1, <1>2, <1>3, <1>5, OthersGoOn
<1>7. Handling(p, h)'
    <2>1. truth[p] = "none" <=> session[p] # "complete"
        BY RowIs DEF RowFits
    <2>2. Timely(p, job[h].event)'
        BY <1>1, <1>2 DEF Timely, Saving
    <2>3. QED
        BY <1>1, <1>2, <2>1, <2>2 DEF Handling
<1>8. ~Ending(h)'
    BY <1>1 DEF Ending, Cancels
<1>9. OneEnd(p)' /\ (Possesses(p)' => Live(p)' \/ Possesses(p))
    BY <1>1, <1>2, <1>3, <1>8, NoNewEnd DEF Course
<1>10. \A j \in DOMAIN mail'[p] : Waiting(p, mail[p][j])'
    BY <1>2, <1>3 DEF Course, Waiting, Timely
<1>11. Standing(p)' /\ session'[p] # "open"
    BY <1>1, <1>2, <1>3 DEF Course, Standing
<1>12. Course(p)'
    BY <1>6, <1>7, <1>9, <1>10, <1>11 DEF Course
<1>13. Possesses(p)' => Possesses(p)
    BY <1>5, <1>9 DEF Possesses
<1>14. QED
    BY <1>2, <1>3, <1>4, <1>12, <1>13, CalmMove

\* Read
LEMMA ReadSettled ==
    ASSUME Fits, Settled, Calm', NEW h \in Handler, Read(h)
    PROVE  Settled'
<1>1. PICK p : p = job[h].purchase
    OBVIOUS
<1>2. /\ Working(h) /\ step[h] = "read" /\ Only(h) /\ p \in Purchase
      /\ row' = row /\ slot' = slot /\ session' = session
      /\ truth' = truth /\ mail' = mail /\ trouble' = trouble
      /\ \/ step'[h] = "idle" /\ job'[h] = <<>>
         \/ job[h].event.kind = "abandoned"
         \/ /\ step'[h] = "save" /\ job'[h].event = job[h].event /\ job'[h].purchase = p
            /\ job'[h].sub = job[h].sub /\ job'[h].seen = row[p]
    BY <1>1, ReadFits
<1>3. Calm
    BY <1>2, CalmLasts
<1>4. Course(p) /\ Handling(p, h) /\ job[h].event.kind # "abandoned" /\ WorksOn(h, p)
    BY <1>1, <1>2, <1>3, CalmJob DEF WorksOn
<1>5. \A q \in Purchase \ {p} : Beside(q)
    BY <1>2, <1>4, BesideHandler
<1>6. Live(p)' <=> Live(p)
    BY <1>2 DEF Live
<1>7. \A k \in Handler \ {h} : WorksOn(k, p)' => Handling(p, k)'
    BY <1>2, <1>4, <1>6, OthersGoOn
<1>8. WorksOn(h, p)' => Handling(p, h)'
    BY <1>2, <1>4 DEF WorksOn, Working, Handling, Timely, Course, Standing
<1>9. WorksOn(h, p)' /\ Ending(h)' => WorksOn(h, p) /\ Ending(h)
    BY <1>2, <1>4 DEF WorksOn, Working, Ending, Cancels
<1>10. OneEnd(p)' /\ (Possesses(p)' => Live(p)' \/ Possesses(p))
    BY <1>2, <1>4, <1>9, NoNewEnd DEF Course
<1>11. \A j \in DOMAIN mail'[p] : Waiting(p, mail[p][j])'
    BY <1>2, <1>4 DEF Course, Waiting, Timely
<1>12. Standing(p)' /\ session'[p] # "open"
    BY <1>2, <1>4 DEF Course, Standing, Handling, Timely
<1>13. Course(p)'
    BY <1>7, <1>8, <1>10, <1>11, <1>12 DEF Course
<1>14. Possesses(p)' => Possesses(p)
    BY <1>6, <1>10 DEF Possesses
<1>15. QED
    BY <1>2, <1>5, <1>13, <1>14, CalmMove

\* PaidRow and SyncedRow, column by column.
LEMMA PaidIs ==
    ASSUME NEW r \in Row, NEW sub, NEW new, new = PaidRow(r, sub)
    PROVE  /\ new.status = IF r.status = "checkout_pending" THEN "paid" ELSE r.status
           /\ new.sub = sub /\ new.serverId = r.serverId /\ ~new.suspended
BY DEF PaidRow, Row

\* The same for what a billing event saves.
LEMMA SyncedIs ==
    ASSUME NEW r \in Row, NEW kind, NEW sub, NEW new, new = SyncedRow(r, kind, sub)
    PROVE  /\ new.status = IF sub \in TerminalSubscription /\ r.status \in {"checkout_pending", "paid"}
                           THEN "cancelled" ELSE r.status
           /\ new.sub = sub /\ new.serverId = r.serverId
           /\ new.suspended <=> r.suspended /\ kind # "invoice_paid" /\ sub \in DelinquentSubscription
<1>1. /\ new.status = IF sub \in TerminalSubscription /\ r.status \in {"checkout_pending", "paid"}
                      THEN "cancelled" ELSE r.status
      /\ new.sub = sub /\ new.serverId = r.serverId
    BY DEF SyncedRow, Row
<1>2. new.suspended <=> r.suspended /\ kind # "invoice_paid" /\ sub \in DelinquentSubscription
    BY DEF SyncedRow, Row
<1>3. QED
    BY <1>1, <1>2

\* SavePaid: what it makes of the row was possessed.
LEMMA SavePaidSettled ==
    ASSUME Fits, Alone, Settled, Calm', NEW h \in Handler, SavePaid(h)
    PROVE  Settled'
<1>1. PICK p : p = job[h].purchase
    OBVIOUS
<1>2. /\ Working(h) /\ step[h] = "save" /\ Only(h) /\ p \in Purchase
      /\ job[h].event.kind = "completed" /\ job[h].seen \in Row
      /\ job[h].seen.serverId = row[p].serverId
      /\ slot' = slot /\ session' = session /\ truth' = truth /\ mail' = mail
      /\ trouble' = trouble /\ step'[h] = "idle" /\ job'[h] = <<>>
      /\ row'[p] = PaidRow(job[h].seen, job[h].sub)
      /\ \A q \in Purchase \ {p} : row'[q] = row[q]
    BY <1>1, SavePaidFits
<1>3. Calm /\ ("visit" \in trouble => "overlap" \notin trouble)
    BY <1>2, CalmLasts
<1>4. /\ Course(p) /\ Handling(p, h) /\ WorksOn(h, p)
      /\ session[p] = "complete" /\ truth[p] \in {"active", "past_due", "canceled"}
      /\ job[h].sub = truth[p]
    BY <1>1, <1>2, <1>3, CalmJob DEF WorksOn
<1>5. /\ row'[p].status = IF job[h].seen.status = "checkout_pending" THEN "paid"
                          ELSE job[h].seen.status
      /\ row'[p].sub = truth[p] /\ row'[p].serverId = row[p].serverId
    BY <1>2, <1>4, PaidIs
<1>6. Live(p)' => Live(p)
    <2>1. CASE truth[p] \in {"active", "past_due"}
        BY <1>4, <2>1 DEF Course, Standing, Live, Kept
    <2>2. CASE truth[p] = "canceled"
        <3>1. "visit" \in trouble
            BY <1>2, <1>4, <2>2 DEF Handling
        <3>2. job[h].seen = row[p]
            BY <1>1, <1>2, <1>3, <3>1 DEF Alone, Saving
        <3>3. QED
            BY <1>5, <2>2, <3>2 DEF Live, TerminalSubscription
    <2>3. QED
        BY <1>4, <2>1, <2>2
<1>7. Standing(p)' /\ session'[p] # "open"
    BY <1>2, <1>4, <1>5 DEF Standing, Handling, Kept, TerminalSubscription
<1>8. \A q \in Purchase \ {p} : Beside(q)
    BY <1>2, <1>4, BesideHandler
<1>9. \A k \in Handler \ {h} : WorksOn(k, p)' => Handling(p, k)'
    BY <1>2, <1>4, <1>6, OthersGoOn
<1>10. ~WorksOn(h, p)'
    BY <1>2 DEF WorksOn, Working
<1>11. OneEnd(p)' /\ (Possesses(p)' => Live(p)' \/ Possesses(p))
    BY <1>2, <1>4, <1>10, NoNewEnd DEF Course
<1>12. \A j \in DOMAIN mail'[p] : Waiting(p, mail[p][j])'
    BY <1>2, <1>4 DEF Course, Waiting, Timely
<1>13. Course(p)'
    BY <1>7, <1>9, <1>10, <1>11, <1>12 DEF Course
<1>14. Possesses(p)' => Possesses(p)
    BY <1>6, <1>11 DEF Possesses
<1>15. QED
    BY <1>2, <1>5, <1>8, <1>13, <1>14, CalmMove

\* SaveSubscription: only the end of a subscription leads to a release, and then the
\* purchase has no claim any more.
LEMMA SaveSubscriptionSettled ==
    ASSUME Fits, Settled, Calm', NEW h \in Handler, SaveSubscription(h)
    PROVE  Settled'
<1>1. PICK p : p = job[h].purchase
    OBVIOUS
<1>2. /\ Working(h) /\ step[h] = "save" /\ Only(h) /\ p \in Purchase
      /\ job[h].event.kind \in {"changed", "invoice_paid", "invoice_failed"}
      /\ job[h].seen \in Row /\ job[h].seen.serverId = row[p].serverId
      /\ slot' = slot /\ session' = session /\ truth' = truth /\ mail' = mail
      /\ trouble' = trouble
      /\ row'[p] = SyncedRow(job[h].seen, job[h].event.kind, job[h].sub)
      /\ \A q \in Purchase \ {p} : row'[q] = row[q]
      /\ \/ /\ job[h].sub \in TerminalSubscription
            /\ step'[h] = "release" /\ job'[h] = job[h]
         \/ step'[h] = "reallocate" /\ job'[h] = job[h]
         \/ step'[h] = "idle" /\ job'[h] = <<>>
    BY <1>1, SaveSubscriptionFits
<1>3. Calm
    BY <1>2, CalmLasts
<1>4. /\ Course(p) /\ Handling(p, h) /\ WorksOn(h, p)
      /\ session[p] = "complete" /\ truth[p] \in {"active", "past_due", "canceled"}
      /\ job[h].sub = truth[p]
    BY <1>1, <1>2, <1>3, CalmJob DEF WorksOn
<1>5. /\ row'[p].status =
            IF truth[p] \in TerminalSubscription
               /\ job[h].seen.status \in {"checkout_pending", "paid"}
            THEN "cancelled" ELSE job[h].seen.status
      /\ row'[p].sub = truth[p] /\ row'[p].serverId = row[p].serverId
    BY <1>2, <1>4, SyncedIs
<1>6. truth[p] = "canceled" => ~Live(p)'
    BY <1>5 DEF Live, TerminalSubscription
<1>7. Live(p)' => Live(p)
    BY <1>4, <1>6 DEF Course, Standing, Live, Kept
<1>8. Standing(p)' /\ session'[p] # "open"
    BY <1>2, <1>4, <1>5 DEF Standing, Handling, Kept, TerminalSubscription
<1>9. \A q \in Purchase \ {p} : Beside(q)
    BY <1>1, <1>2, <1>4, BesideHandler
<1>10. \A k \in Handler \ {h} : WorksOn(k, p)' => Handling(p, k)'
    BY <1>2, <1>4, <1>7, OthersGoOn
<1>11. WorksOn(h, p)' => Handling(p, h)'
    <2>1. step'[h] = "release" => truth[p] = "canceled"
        BY <1>2, <1>4 DEF TerminalSubscription
    <2>2. SUFFICES ASSUME job'[h] = job[h] , step'[h] \in {"release", "reallocate"}
                   PROVE  Handling(p, h)'
        BY <1>2 DEF WorksOn, Working
    <2>3. Timely(p, job[h].event)'
        BY <1>2, <1>4, <2>2 DEF Handling, Timely
    <2>4. QED
        BY <1>2, <1>4, <1>6, <2>1, <2>2, <2>3 DEF Handling
<1>12. WorksOn(h, p)' /\ Ending(h)' => WorksOn(h, p) /\ Ending(h)
    <2>1. CASE step'[h] = "release"
        <3>1. truth[p] = "canceled"
            BY <1>2, <1>4, <2>1 DEF TerminalSubscription
        <3>2. job[h].event.kind = "changed" /\ job[h].event.sub = "canceled"
            BY <1>2, <1>4, <3>1 DEF Handling, Timely
        <3>3. QED
            BY <1>4, <3>2 DEF Ending, Cancels
    <2>2. CASE step'[h] = "reallocate"
        BY <1>2, <1>4, <2>2 DEF Ending, Cancels
    <2>3. CASE step'[h] = "idle"
        BY <2>3 DEF WorksOn, Working
    <2>4. QED
        BY <1>2, <2>1, <2>2, <2>3
<1>13. OneEnd(p)' /\ (Possesses(p)' => Live(p)' \/ Possesses(p))
    BY <1>2, <1>4, <1>12, NoNewEnd DEF Course
<1>14. \A j \in DOMAIN mail'[p] : Waiting(p, mail[p][j])'
    BY <1>2, <1>4 DEF Course, Waiting, Timely
<1>15. Course(p)'
    BY <1>8, <1>10, <1>11, <1>13, <1>14 DEF Course
<1>16. Possesses(p)' => Possesses(p)
    BY <1>7, <1>13 DEF Possesses
<1>17. QED
    BY <1>2, <1>5, <1>9, <1>15, <1>16, CalmMove

\* CloseIfPending: of an expired session only the first handler closes the purchase.
LEMMA CloseSettled ==
    ASSUME Fits, Settled, Calm', NEW h \in Handler, CloseIfPending(h)
    PROVE  Settled'
<1>1. PICK p : p = job[h].purchase
    OBVIOUS
<1>2. /\ Working(h) /\ step[h] = "save" /\ Only(h) /\ p \in Purchase
      /\ job[h].event.kind \in {"expired", "abandoned"}
      /\ slot' = slot /\ session' = session /\ truth' = truth /\ mail' = mail
      /\ trouble' = trouble /\ \A q \in Purchase \ {p} : row'[q] = row[q]
    BY <1>1, CloseFits
<1>3. IF row[p].status = "checkout_pending"
      THEN /\ row'[p].status = IF job[h].event.kind = "expired" THEN "expired" ELSE "cancelled"
           /\ row'[p].serverId = row[p].serverId
      ELSE row'[p] = row[p]
    BY <1>1, CloseFits
<1>4. IF row[p].status = "checkout_pending" \/ job[h].event.kind = "abandoned"
      THEN step'[h] = "release" /\ job'[h] = job[h]
      ELSE step'[h] = "idle" /\ job'[h] = <<>>
    BY <1>1, CloseFits
<1>5. Calm
    BY <1>2, CalmLasts
<1>6. /\ Course(p) /\ Handling(p, h) /\ WorksOn(h, p)
      /\ session[p] = "expired" /\ job[h].event.kind = "expired" /\ truth[p] = "none"
    BY <1>1, <1>2, <1>5, CalmJob DEF WorksOn, Saving
<1>7. ~Live(p)' /\ Standing(p)' /\ row'[p].serverId = row[p].serverId
    BY <1>2, <1>3, <1>6 DEF Course, Standing, Live
<1>8. \A q \in Purchase \ {p} : Beside(q)
    BY <1>1, <1>2, <1>4, <1>6, BesideHandler
<1>9. \A k \in Handler \ {h} : WorksOn(k, p)' => Handling(p, k)'
    BY <1>2, <1>6, <1>7, OthersGoOn
<1>10. WorksOn(h, p)' => Handling(p, h)'
    <2>1. SUFFICES ASSUME step'[h] = "release", job'[h] = job[h] PROVE Handling(p, h)'
        BY <1>4 DEF WorksOn, Working
    <2>2. QED
        BY <1>2, <1>6, <1>7, <2>1 DEF Handling, Timely
<1>11. \A j \in DOMAIN mail'[p] : Waiting(p, mail[p][j])'
    BY <1>2, <1>6 DEF Course, Waiting, Timely
<1>12. \A j \in DOMAIN mail[p] : ~Cancels(mail[p][j])
    BY <1>6 DEF Course, Waiting, Timely, Cancels
<1>13. CASE row[p].status = "checkout_pending"
    <2>1. \A k \in Handler : WorksOn(k, p) => step[k] # "release" /\ ~Cancels(job[k].event)
        BY <1>6, <1>13 DEF Course, Handling, Timely, Cancels, Live
    <2>2. \A k \in Handler \ {h} : WorksOn(k, p)' => ~Ending(k)'
        BY <1>2, <2>1 DEF Only, WorksOn, Working, Ending, Cancels
    <2>3. OneEnd(p)'
        BY <1>2, <1>12, <2>2 DEF OneEnd, Cancels
    <2>4. Possesses(p)
        BY <1>13 DEF Possesses, Live
    <2>5. Course(p)'
        BY <1>2, <1>6, <1>7, <1>9, <1>10, <1>11, <2>3 DEF Course
    <2>6. QED
        BY <1>2, <1>7, <1>8, <2>4, <2>5, CalmMove
<1>14. CASE row[p].status # "checkout_pending"
    <2>1. ~WorksOn(h, p)'
        BY <1>4, <1>6, <1>14 DEF WorksOn, Working
    <2>2. OneEnd(p)' /\ (Possesses(p)' => Live(p)' \/ Possesses(p))
        BY <1>2, <1>6, <2>1, NoNewEnd DEF Course
    <2>3. Course(p)'
        BY <1>2, <1>6, <1>7, <1>9, <1>10, <1>11, <2>2 DEF Course
    <2>4. QED
        BY <1>2, <1>7, <1>8, <2>2, <2>3, CalmMove
<1>15. QED
    BY <1>13, <1>14

\* Release and Reallocate: the one end of the purchase that possesses the slot.
LEMMA SlotStepSettled ==
    ASSUME Fits, Settled, Calm', NEW h \in Handler, Release(h) \/ Reallocate(h)
    PROVE  Settled'
<1>1. PICK p : p = job[h].purchase
    OBVIOUS
<1>2. /\ Working(h) /\ Only(h) /\ p \in Purchase
      /\ row' = row /\ session' = session /\ truth' = truth /\ mail' = mail
      /\ trouble' = trouble /\ step'[h] = "idle" /\ job'[h] = <<>>
      /\ \A s \in Slot \ {job[h].slot} : slot'[s] = slot[s]
      /\ \/ step[h] = "release"
         \/ /\ step[h] = "reallocate"
            /\ slot'[job[h].slot] = IF slot[job[h].slot] = "held" THEN "allocated"
                                    ELSE slot[job[h].slot]
    BY <1>1, SlotStepFits
<1>3. Calm
    BY <1>2, CalmLasts
<1>4. /\ Course(p) /\ Handling(p, h) /\ WorksOn(h, p) /\ job[h].slot = row[p].serverId
      /\ session[p] # "open" /\ row[p].status # "none"
    BY <1>1, <1>2, <1>3, CalmJob DEF WorksOn
<1>5. \A q \in Purchase \ {p} : Beside(q)
    BY <1>2, <1>4, BesideHandler
<1>6. Live(p)' <=> Live(p)
    BY <1>2 DEF Live
<1>7. \A k \in Handler \ {h} : WorksOn(k, p)' => Handling(p, k)'
    BY <1>2, <1>4, <1>6, OthersGoOn
<1>8. ~WorksOn(h, p)'
    BY <1>2 DEF WorksOn, Working
<1>9. OneEnd(p)' /\ (Possesses(p)' => Live(p)' \/ Possesses(p))
    BY <1>2, <1>4, <1>8, NoNewEnd DEF Course
<1>10. \A j \in DOMAIN mail'[p] : Waiting(p, mail[p][j])'
    BY <1>2, <1>4 DEF Course, Waiting, Timely
<1>11. Standing(p)'
    BY <1>2, <1>4 DEF Course, Standing
<1>12. Course(p)'
    BY <1>2, <1>4, <1>7, <1>8, <1>9, <1>10, <1>11 DEF Course
<1>13. Possesses(p)' => Possesses(p)
    BY <1>6, <1>9 DEF Possesses
<1>14. step[h] = "release" => ~Possesses(p)'
    <2>1. SUFFICES ASSUME step[h] = "release" PROVE ~Possesses(p)'
        OBVIOUS
    <2>2. ~Live(p) /\ Ending(h) /\ OneEnd(p)
        BY <1>4, <2>1 DEF Handling, Ending, Course
    <2>3. \A k \in Handler \ {h} : ~(WorksOn(k, p) /\ Ending(k))
        BY <1>4, <2>2 DEF OneEnd
    <2>4. \A k \in Handler : ~(WorksOn(k, p)' /\ Ending(k)')
        BY <1>2, <1>8, <2>3 DEF Only, WorksOn, Working, Ending, Cancels
    <2>5. \A i \in DOMAIN mail'[p] : ~Cancels(mail'[p][i])
        BY <1>2, <1>4, <2>2 DEF OneEnd
    <2>6. QED
        BY <1>6, <2>2, <2>4, <2>5 DEF Possesses, Cancels
<1>15. ASSUME NEW q \in Purchase, Possesses(q)', slot[row[q].serverId] # "available"
       PROVE  slot'[row[q].serverId] # "available"
    <2>1. CASE step[h] = "release"
        <3>1. q # p
            BY <1>14, <1>15, <2>1
        <3>2. Possesses(q)
            BY <1>2, <1>5, <1>15, <3>1, BesideKeeps DEF Settled
        <3>3. Possesses(p)
            BY <1>4, <2>1 DEF Possesses, Ending
        <3>4. row[q].serverId # row[p].serverId
            BY <1>2, <3>1, <3>2, <3>3 DEF Settled, Exclusive
        <3>5. row[q].serverId \in Slot
            BY <1>15, <1>3, <3>2, Possessor
        <3>6. QED
            BY <1>2, <1>4, <1>15, <3>4, <3>5
    <2>2. CASE step[h] # "release"
        <3>1. row[q].serverId \in Slot
            <4>1. Possesses(q)
                BY <1>2, <1>5, <1>13, <1>15, BesideKeeps DEF Settled
            <4>2. QED
                BY <1>3, <4>1, Possessor
        <3>2. QED
            BY <1>2, <1>15, <2>2, <3>1
    <2>3. QED
        BY <2>1, <2>2
<1>16. QED
    BY <1>2, <1>5, <1>12, <1>13, <1>15, CalmMove

\* Dies: the event of the handler waits again.
LEMMA DiesSettled ==
    ASSUME Fits, Settled, Calm', NEW h \in Handler, Dies(h)
    PROVE  Settled'
<1>1. PICK p : p = job[h].purchase
    OBVIOUS
<1>2. /\ Working(h) /\ Only(h) /\ p \in Purchase
      /\ row' = row /\ slot' = slot /\ session' = session
      /\ truth' = truth /\ trouble \subseteq trouble'
      /\ step'[h] = "idle" /\ job'[h] = <<>>
      /\ \A q \in Purchase \ {p} : mail'[q] = mail[q]
      /\ IF job[h].mailed
         THEN /\ job[h].event \in Events /\ mail'[p] = <<job[h].event>> \o mail[p]
              /\ <<job[h].event>> \in Seq(Events) /\ Len(<<job[h].event>>) = 1
              /\ DOMAIN <<job[h].event>> = {1} /\ <<job[h].event>>[1] = job[h].event
         ELSE mail'[p] = mail[p]
    BY <1>1, DiesFits
<1>3. Calm /\ trouble = {}
    <2>1. Causes({"crash"})
        BY DEF Dies
    <2>2. QED
        BY <1>2, <2>1, CalmLasts, CalmCauses
<1>4. /\ Course(p) /\ Handling(p, h) /\ WorksOn(h, p) /\ session[p] # "open"
    BY <1>1, <1>2, <1>3, CalmJob DEF WorksOn
<1>5. Waiting(p, job[h].event)
    BY <1>3, <1>4 DEF Handling, Waiting
<1>6. \A q \in Purchase \ {p} : Beside(q)
    BY <1>2, <1>4, BesideHandler
<1>7. Live(p)' <=> Live(p)
    BY <1>2 DEF Live
<1>8. \A k \in Handler \ {h} : WorksOn(k, p)' => Handling(p, k)'
    BY <1>2, <1>4, <1>7, OthersGoOn
<1>9. ~WorksOn(h, p)'
    BY <1>2 DEF WorksOn, Working
<1>10. Standing(p)'
    BY <1>2, <1>4 DEF Course, Standing
<1>11. SUFFICES /\ \A j \in DOMAIN mail'[p] : Waiting(p, mail[p][j])'
                /\ OneEnd(p)' /\ (Possesses(p)' => Live(p)' \/ Possesses(p))
    <2>1. Course(p)'
        BY <1>2, <1>4, <1>8, <1>9, <1>10, <1>11 DEF Course
    <2>2. Possesses(p)' => Possesses(p)
        BY <1>7, <1>11 DEF Possesses
    <2>3. QED
        BY <1>2, <1>6, <2>1, <2>2, CalmMove
<1>12. CASE ~job[h].mailed
    <2>1. mail'[p] = mail[p]
        BY <1>2, <1>12
    <2>2. OneEnd(p)' /\ (Possesses(p)' => Live(p)' \/ Possesses(p))
        BY <1>2, <1>4, <1>9, <2>1, NoNewEnd DEF Course
    <2>3. \A j \in DOMAIN mail'[p] : Waiting(p, mail[p][j])'
        BY <1>2, <1>4, <2>1 DEF Course, Waiting, Timely
    <2>4. QED
        BY <2>2, <2>3
<1>13. CASE job[h].mailed
    <2>1. PICK e \in Events : e = job[h].event
        BY <1>2, <1>13
    <2>2. /\ <<e>> \in Seq(Events) /\ Len(<<e>>) = 1 /\ DOMAIN <<e>> = {1} /\ <<e>>[1] = e
        BY OneMore
    <2>3. mail[p] \in Seq(Events) /\ Len(mail[p]) \in Nat
        BY <1>2, RowIs
    <2>4. mail'[p] = <<e>> \o mail[p]
        BY <1>2, <1>13, <2>1
    <2>5. \A j \in DOMAIN mail'[p] :
            \/ j = 1 /\ mail'[p][j] = e
            \/ j - 1 \in DOMAIN mail[p] /\ mail'[p][j] = mail[p][j - 1]
        BY <2>2, <2>3, <2>4, ConcatIs
    <2>6. DOMAIN mail'[p] \subseteq Int
        <3>1. <<e>> \o mail[p] \in Seq(Events)
            BY <2>2, <2>3, ConcatIs
        <3>2. DOMAIN (<<e>> \o mail[p]) = 1 .. Len(<<e>> \o mail[p])
            BY <3>1, LenProperties
        <3>3. QED
            BY <2>4, <3>2
    <2>7. \A j \in DOMAIN mail'[p] : Waiting(p, mail[p][j])'
        BY <1>2, <1>4, <1>5, <2>1, <2>5 DEF Course, Waiting, Timely
    <2>8. Cancels(e) => Ending(h)
        BY <2>1 DEF Ending
    <2>9. \A j \in DOMAIN mail'[p] :
            Cancels(mail'[p][j]) =>
                \/ j = 1 /\ Ending(h)
                \/ j - 1 \in DOMAIN mail[p] /\ Cancels(mail[p][j - 1])
        BY <2>5, <2>8 DEF Cancels
    <2>10. \A k \in Handler : WorksOn(k, p)' /\ Ending(k)' => k # h /\ WorksOn(k, p) /\ Ending(k)
        BY <1>2, <1>9 DEF Only, WorksOn, Working, Ending, Cancels
    <2>11. OneEnd(p)
        BY <1>4 DEF Course
    <2>12. ASSUME NEW i \in DOMAIN mail'[p], NEW j \in DOMAIN mail'[p],
                  Cancels(mail'[p][i]), Cancels(mail'[p][j])
           PROVE  i = j
        <3>1. CASE i = 1 /\ Ending(h)
            BY <1>4, <2>6, <2>9, <2>11, <2>12, <3>1 DEF OneEnd
        <3>2. CASE i - 1 \in DOMAIN mail[p] /\ Cancels(mail[p][i - 1])
            BY <1>4, <2>6, <2>9, <2>11, <2>12, <3>2 DEF OneEnd
        <3>3. QED
            BY <2>9, <2>12, <3>1, <3>2
    <2>13. ASSUME NEW i \in DOMAIN mail'[p], NEW k \in Handler, Cancels(mail'[p][i]),
                  WorksOn(k, p)', Ending(k)'
           PROVE  FALSE
        BY <1>4, <2>9, <2>10, <2>11, <2>13 DEF OneEnd
    <2>14. \A k, l \in Handler :
                WorksOn(k, p)' /\ Ending(k)' /\ WorksOn(l, p)' /\ Ending(l)' => k = l
        BY <2>10, <2>11 DEF OneEnd
    <2>15. OneEnd(p)'
        BY <2>12, <2>13, <2>14 DEF OneEnd
    <2>16. Possesses(p)' => Live(p)' \/ Possesses(p)
        BY <1>4, <2>9, <2>10 DEF Possesses
    <2>17. QED
        BY <2>7, <2>15, <2>16
<1>14. QED
    BY <1>12, <1>13

\* The worker and the operator keep a claim as it is, and sell nothing.
LEMMA DeskSettled ==
    ASSUME Fits, Settled, Calm', NEW p \in Purchase,
           Provision(p) \/ ReleaseReady(p) \/ Suspend(p)
    PROVE  Settled'
<1>1. /\ \A q \in Purchase \ {p} : row'[q] = row[q]
      /\ row[p].serverId \in Slot /\ row'[p].serverId = row[p].serverId
      /\ row'[p].sub = row[p].sub
      /\ session' = session /\ truth' = truth /\ mail' = mail
      /\ step' = step /\ job' = job /\ trouble \subseteq trouble'
    BY ProvisionFits, ReadyFits, SuspendFits
<1>2. /\ row[p].status \in {"paid", "completed"} /\ row'[p].status \in {"paid", "completed"}
      /\ row[p].status = "completed" => row[p].sub \notin TerminalSubscription
    BY ProvisionFits, ReadyFits, SuspendFits
<1>3. \A s \in Slot : slot'[s] = "available" => slot[s] = "available"
    <2>1. CASE Provision(p)
        BY <2>1, ProvisionFits
    <2>2. CASE ReleaseReady(p)
        BY <2>2, ReadyFits
    <2>3. CASE Suspend(p)
        BY <2>3, SuspendFits
    <2>4. QED
        BY <2>1, <2>2, <2>3
<1>4. Calm /\ Course(p)
    BY <1>1, CalmLasts DEF Settled
<1>5. session[p] \notin {"open", "expired"}
    BY <1>2, <1>4 DEF Course, Standing
<1>6. \A q \in Purchase \ {p} : Beside(q)
    BY <1>1 DEF Beside, WorksOn, Working
<1>7. Live(p)
    BY <1>2 DEF Live
<1>8. \A k \in Handler :
        /\ WorksOn(k, p)' <=> WorksOn(k, p)
        /\ Ending(k)' <=> Ending(k)
    BY <1>1 DEF WorksOn, Working, Ending, Cancels
<1>9. \A k \in Handler : WorksOn(k, p)' => Handling(p, k)'
    BY <1>1, <1>4, <1>7, <1>8 DEF Course, Handling, Timely
<1>10. \A j \in DOMAIN mail'[p] : Waiting(p, mail[p][j])'
    BY <1>1, <1>4 DEF Course, Waiting, Timely
<1>11. Standing(p)'
    BY <1>1, <1>2, <1>4, <1>5 DEF Course, Standing, Kept
<1>12. OneEnd(p)'
    BY <1>1, <1>4, <1>8 DEF Course, OneEnd, Cancels
<1>13. Course(p)'
    BY <1>1, <1>5, <1>9, <1>10, <1>11, <1>12 DEF Course
<1>14. \A q \in Purchase :
            Possesses(q)' /\ slot[row[q].serverId] # "available" =>
                slot'[row[q].serverId] # "available"
    <2>1. SUFFICES ASSUME NEW q \in Purchase, Possesses(q)', slot[row[q].serverId] # "available"
                   PROVE  slot'[row[q].serverId] # "available"
        OBVIOUS
    <2>2. Possesses(q)
        <3>1. CASE q = p
            BY <1>7, <3>1 DEF Possesses
        <3>2. CASE q # p
            BY <1>1, <1>6, <2>1, <3>2, BesideKeeps DEF Settled
        <3>3. QED
            BY <3>1, <3>2
    <2>3. row[q].serverId \in Slot
        BY <1>4, <2>2, Possessor
    <2>4. QED
        BY <1>3, <2>1, <2>3
<1>15. Possesses(p)
    BY <1>7 DEF Possesses
<1>16. QED
    BY <1>1, <1>6, <1>13, <1>14, <1>15, CalmMove

\* Every step that keeps the calm keeps it settled.
LEMMA NextSettled ==
    ASSUME Fits, Alone, Calm => Settled, Next
    PROVE  Calm' => Settled'
<1>1. SUFFICES ASSUME Calm' PROVE Settled'
    OBVIOUS
<1>2. trouble \subseteq trouble'
    BY MoreTrouble
<1>3. Calm /\ Settled /\ trouble' \cap {"lag", "repeat", "failure", "override", "unpaid"} = {}
    BY <1>1, <1>2, CalmLasts
<1>4. CASE \E p \in Purchase, s \in Slot : Checkout(p, s)
    BY <1>1, <1>3, <1>4, CheckoutSettled
<1>5. CASE \E p \in Purchase, s \in Slot, h \in Handler : CheckoutFails(h, p, s)
    BY <1>3, <1>5, FailureFits
<1>6. CASE \E p \in Purchase : StripeStep(p)
    BY <1>1, <1>3, <1>6, StripeSettled
<1>7. CASE \E p \in Purchase : Provision(p) \/ ReleaseReady(p) \/ Suspend(p)
    BY <1>1, <1>3, <1>7, DeskSettled
<1>8. CASE \E p \in Purchase, newStatus \in PurchaseStatus, newSlot \in ServerStatus,
                access \in {"keep", "suspend", "reinstate"} :
                Override(p, newStatus, newSlot, access)
    BY <1>3, <1>8, OverrideFits
<1>9. CASE \E h \in Handler, p \in Purchase :
                Visit(h, p) \/ \E i \in 1 .. MaxMail : Receive(h, p, i)
    BY <1>1, <1>3, <1>9, VisitSettled, ReceiveSettled
<1>10. CASE \E h \in Handler : Read(h) \/ SavePaid(h) \/ SaveSubscription(h) \/ CloseIfPending(h)
    BY <1>1, <1>3, <1>10, ReadSettled, SavePaidSettled, SaveSubscriptionSettled, CloseSettled
<1>11. CASE \E h \in Handler : Release(h) \/ Reallocate(h) \/ Dies(h)
    BY <1>1, <1>3, <1>11, SlotStepSettled, DiesSettled
<1>12. CASE \E h \in Handler : Repeat(h)
    BY <1>3, <1>12, RepeatFits
<1>13. QED
    BY <1>4, <1>5, <1>6, <1>7, <1>8, <1>9, <1>10, <1>11, <1>12 DEF Next, HandlerStep

\* A step that changes no variable.
LEMMA StutterSettled == (Calm => Settled) /\ UNCHANGED vars => (Calm' => Settled')
<1>1. SUFFICES ASSUME Settled, Calm', UNCHANGED vars, Calm => Settled PROVE Settled'
    <2>1. UNCHANGED vars /\ Calm' => Calm
        BY DEF vars, Calm, OnlyOneOf
    <2>2. QED
        BY <1>1, <2>1
<1>2. /\ row' = row /\ slot' = slot /\ session' = session /\ truth' = truth
      /\ mail' = mail /\ step' = step /\ job' = job /\ trouble' = trouble
    BY <1>1 DEF vars, stripeVars, handlerVars
<1>3. \A q \in Purchase : Beside(q)
    BY <1>2 DEF Beside
<1>4. \A q \in Purchase :
        Course(q)' /\ (Possesses(q)' <=> Possesses(q)) /\ row'[q] = row[q]
    BY <1>1, <1>2, <1>3, BesideKeeps DEF Settled
<1>5. QED
    BY <1>1, <1>2, <1>4 DEF Settled, Exclusive

\* In the beginning there is neither a session nor a purchase.
LEMMA InitSettled == Init => Settled
<1>1. SUFFICES ASSUME Init PROVE Settled
    OBVIOUS
<1>2. /\ \A p \in Purchase : session[p] = "none" /\ truth[p] = "none"
      /\ \A h \in Handler : ~Working(h)
    BY <1>1 DEF Init, Working
<1>3. PICK e : e = <<>>
    OBVIOUS
<1>4. e \in Seq(Events) /\ Len(e) = 0
    BY <1>3, EmptySeq, Zenon
<1>5. DOMAIN e = {}
    BY <1>4, LenProperties
<1>6. mail = [p \in Purchase |-> e]
    BY <1>1, <1>3, Zenon DEF Init
<1>7. \A p \in Purchase : DOMAIN mail[p] = {}
    BY <1>5, <1>6
<1>8. PICK r : r = NoRow
    OBVIOUS
<1>9. row = [p \in Purchase |-> r]
    BY <1>1, <1>8, Zenon DEF Init
<1>10. \A p \in Purchase : ~Live(p)
    BY <1>8, <1>9 DEF Live, NoRow
<1>11. \A p \in Purchase : ~Possesses(p)
    BY <1>2, <1>7, <1>10 DEF Possesses, WorksOn
<1>12. \A p \in Purchase : Standing(p)
    BY <1>2 DEF Standing
<1>13. \A p \in Purchase : OneEnd(p)
    BY <1>2, <1>7 DEF OneEnd, WorksOn
<1>14. \A p \in Purchase : Course(p)
    BY <1>2, <1>7, <1>12, <1>13 DEF Course, WorksOn
<1>15. QED
    BY <1>11, <1>14 DEF Settled, Exclusive

\* Two customers never have a claim on one slot, and the slot of a customer is not for
\* sale: whatever the order of the events, although the release looks at no owner.
THEOREM SlotsAreNotShared == Spec => []NoSharedSlot
<1>1. Init => Fits /\ Alone /\ (Calm => Settled)
    BY InitFits, InitSettled DEF Init, Alone, Working
<1>2. Fits /\ Alone /\ (Calm => Settled) /\ [Next]_vars =>
            Fits' /\ Alone' /\ (Calm' => Settled')
    BY NextFits, StutterFits, NextAlone, StutterAlone, NextSettled, StutterSettled
<1>3. (Calm => Settled) => NoSharedSlot
    BY DEF Calm, Settled, Exclusive, Possesses, NoSharedSlot, OneOwnerPerSlot, LiveOwnerHasSlot
<1>4. QED
    BY <1>1, <1>2, <1>3, PTL DEF Spec


(***************************************************************************)
(* A held slot means a suspended service                                   *)
(***************************************************************************)

\* The trouble that HeldWhileSuspended withstands: events in the wrong order.
OutOfOrder == trouble \subseteq {"reorder"}

\* The one event of the payment is handled while the purchase is pending, so it clears
\* no suspension.
FirstPaid(p) ==
    /\ \A i \in DOMAIN mail[p] : mail[p][i].kind = "completed" =>
            /\ row[p].status = "checkout_pending"
            /\ \A j \in DOMAIN mail[p] : mail[p][j].kind = "completed" => i = j
            /\ \A h \in Handler : WorksOn(h, p) => job[h].event.kind # "completed"
    /\ \A h \in Handler : WorksOn(h, p) /\ job[h].event.kind = "completed" =>
            row[p].status = "checkout_pending"

\* An invoice that is paid, and a slot that is about to be given back, are those of a
\* subscription that is paid.
PaidMeansActive(p) ==
    /\ \A i \in DOMAIN mail[p] : mail[p][i].kind = "invoice_paid" => truth[p] = "active"
    /\ \A h \in Handler : WorksOn(h, p) =>
            (job[h].event.kind = "invoice_paid" \/ step[h] = "reallocate" => truth[p] = "active")

Restoring(p) == \E h \in Handler : WorksOn(h, p) /\ step[h] = "reallocate"

\* The slot of a service in use says whether it is suspended, once the handler that ends
\* the suspension has come to the slot.
SlotTells(p) ==
    /\ row[p].suspended => row[p].status = "completed"
    /\ row[p].status = "completed" /\ Live(p) =>
            /\ Restoring(p) => ~row[p].suspended
            /\ ~Restoring(p) => (row[p].suspended <=> slot[row[p].serverId] = "held")

Telling(p) == FirstPaid(p) /\ PaidMeansActive(p) /\ SlotTells(p)

\* When there is only reordering, there was nothing else before.
LEMMA OutOfOrderLasts ==
    ASSUME OutOfOrder', trouble \subseteq trouble'
    PROVE  /\ OutOfOrder /\ Calm /\ Calm'
           /\ trouble' \cap {"lag", "repeat", "overlap", "crash", "failure", "visit", "unpaid",
                             "override"} = {}
<1>1. trouble' = {} \/ trouble' = {"reorder"}
    BY DEF OutOfOrder
<1>2. trouble = {} \/ trouble = {"reorder"}
    BY <1>1
<1>3. QED
    BY <1>1, <1>2 DEF OutOfOrder, Calm, OnlyOneOf

\* A purchase beside the step, whose slot stays as it is while it is in use.
LEMMA BesideTells ==
    ASSUME NEW q \in Purchase, Beside(q), Telling(q),
           Live(q) => slot'[row[q].serverId] = slot[row[q].serverId]
    PROVE  Telling(q)'
<1>1. /\ row'[q] = row[q] /\ session'[q] = session[q]
      /\ truth'[q] = truth[q] /\ mail'[q] = mail[q]
    BY DEF Beside
<1>2. \A h \in Handler :
        /\ WorksOn(h, q)' <=> WorksOn(h, q)
        /\ WorksOn(h, q) => step'[h] = step[h] /\ job'[h] = job[h]
    BY DEF Beside, WorksOn, Working
<1>3. FirstPaid(q)'
    BY <1>1, <1>2 DEF Telling, FirstPaid
<1>4. PaidMeansActive(q)'
    BY <1>1, <1>2 DEF Telling, PaidMeansActive
<1>5. (Live(q)' <=> Live(q)) /\ (Restoring(q)' <=> Restoring(q))
    BY <1>1, <1>2 DEF Live, Restoring
<1>6. SlotTells(q)'
    BY <1>1, <1>5 DEF Telling, SlotTells
<1>7. QED
    BY <1>3, <1>4, <1>6 DEF Telling

\* A step about p that changes no slot but one for sale or its own.
LEMMA TellsMove ==
    ASSUME Fits, Settled, Calm, NEW p \in Purchase, Telling(p)',
           \A q \in Purchase \ {p} : Beside(q) /\ Telling(q),
           \A s \in Slot :
                \/ slot'[s] = slot[s]
                \/ slot[s] = "available"
                \/ Possesses(p) /\ s = row[p].serverId
    PROVE  \A q \in Purchase : Telling(q)'
<1>1. SUFFICES ASSUME NEW q \in Purchase \ {p} PROVE Telling(q)'
    OBVIOUS
<1>2. ASSUME Live(q) PROVE slot'[row[q].serverId] = slot[row[q].serverId]
    <2>1. Possesses(q)
        BY <1>2 DEF Possesses
    <2>2. row[q].serverId \in Slot
        BY <2>1, Possessor
    <2>3. /\ slot[row[q].serverId] # "available"
          /\ Possesses(p) => row[q].serverId # row[p].serverId
        BY <2>1 DEF Settled, Exclusive
    <2>4. QED
        BY <2>2, <2>3
<1>3. QED
    BY <1>2, BesideTells

\* Checkout
LEMMA CheckoutTells ==
    ASSUME Fits, Settled, OutOfOrder', \A q \in Purchase : Telling(q),
           NEW p \in Purchase, NEW s \in Slot, Checkout(p, s)
    PROVE  \A q \in Purchase : Telling(q)'
<1>1. /\ row[p] = NoRow /\ mail[p] = <<>> /\ slot[s] = "available"
      /\ row'[p].status = "checkout_pending" /\ ~row'[p].suspended
      /\ \A q \in Purchase \ {p} : row'[q] = row[q] /\ session'[q] = session[q]
      /\ \A t \in Slot \ {s} : slot'[t] = slot[t]
      /\ truth' = truth /\ mail' = mail /\ step' = step /\ job' = job /\ trouble' = trouble
    BY CheckoutFits
<1>2. Calm
    BY <1>1, OutOfOrderLasts
<1>3. \A h \in Handler : ~WorksOn(h, p)
    BY <1>1, <1>2, CalmJob DEF WorksOn, NoRow
<1>4. \A h \in Handler : ~WorksOn(h, p)'
    BY <1>1, <1>3 DEF WorksOn, Working
<1>5. DOMAIN mail'[p] = {}
    <2>1. Len(mail[p]) = 0
        BY <1>1, EmptySeq, Zenon
    <2>2. DOMAIN mail[p] = 1 .. Len(mail[p])
        BY RowIs, LenProperties
    <2>3. QED
        BY <1>1, <2>1, <2>2
<1>6. Telling(p)'
    BY <1>1, <1>4, <1>5 DEF Telling, FirstPaid, PaidMeansActive, SlotTells
<1>7. \A q \in Purchase \ {p} : Beside(q)
    BY <1>1 DEF Beside
<1>8. \A t \in Slot : slot'[t] = slot[t] \/ slot[t] = "available"
    BY <1>1
<1>9. QED
    BY <1>2, <1>6, <1>7, <1>8, TellsMove

\* The payment is told while the purchase is pending, and a paid invoice when the
\* subscription is.
TellsPayment(p, events) ==
    \A i \in DOMAIN events :
        /\ events[i].kind = "completed" =>
                /\ row[p].status = "checkout_pending"
                /\ \A j \in DOMAIN events : events[j].kind = "completed" => i = j
        /\ events[i].kind = "invoice_paid" => truth'[p] = "active"

\* A step of Stripe about p that sends such events.
LEMMA SendsTells ==
    ASSUME Fits, Settled, OutOfOrder', \A q \in Purchase : Telling(q),
           NEW p \in Purchase, NEW events \in Seq(Events), Sends(p, events),
           \A q \in Purchase \ {p} : session'[q] = session[q] /\ truth'[q] = truth[q],
           TellsPayment(p, events)
    PROVE  \A q \in Purchase : Telling(q)'
<1>1. trouble \subseteq trouble'
    BY CausesMore DEF Sends
<1>2. Calm /\ Calm'
    BY <1>1, OutOfOrderLasts
<1>3. /\ mail'[p] = events /\ \A q \in Purchase \ {p} : mail'[q] = mail[q]
      /\ row' = row /\ slot' = slot /\ step' = step /\ job' = job
      /\ \A h \in Handler : ~WorksOn(h, p)
    BY <1>2, SendsAlone
<1>4. \A h \in Handler : ~WorksOn(h, p)'
    BY <1>3 DEF WorksOn, Working
<1>5. FirstPaid(p)'
    BY <1>3, <1>4 DEF FirstPaid, TellsPayment
<1>6. PaidMeansActive(p)'
    BY <1>3, <1>4 DEF PaidMeansActive, TellsPayment
<1>7. (Live(p)' <=> Live(p)) /\ ~Restoring(p) /\ ~Restoring(p)'
    BY <1>3, <1>4 DEF Live, Restoring
<1>8. SlotTells(p)'
    BY <1>3, <1>7 DEF Telling, SlotTells
<1>9. \A q \in Purchase \ {p} : Beside(q)
    BY <1>3 DEF Beside, WorksOn, Working
<1>10. QED
    BY <1>2, <1>3, <1>5, <1>6, <1>8, <1>9, TellsMove DEF Telling

\* The steps of Stripe.
LEMMA StripeTells ==
    ASSUME Fits, Settled, OutOfOrder', \A q \in Purchase : Telling(q),
           NEW p \in Purchase, StripeStep(p)
    PROVE  \A q \in Purchase : Telling(q)'
<1>1. trouble \subseteq trouble'
    BY CausesMore DEF StripeStep, Pay, SessionExpires, RenewalFails, RenewalSucceeds, Ends,
                      TurnsUnpaid, Sends
<1>2. "unpaid" \notin trouble' /\ Standing(p)
    BY <1>1, OutOfOrderLasts DEF Settled, Course
<1>3. /\ session \in [Purchase -> {"none", "open", "complete", "expired"}]
      /\ truth \in [Purchase -> Subscription]
    BY DEF Fits, TypeOK
<1>4. /\ \A kind \in EventKind, sub \in Subscription :
            /\ Event(kind, sub) \in Events /\ Event(kind, sub).kind = kind
      /\ {"none", "active", "past_due", "canceled"} \subseteq Subscription
      /\ {"completed", "changed", "expired", "invoice_paid", "invoice_failed"} \subseteq EventKind
    BY DEF Event, Events, EventKind, Subscription
<1>5. CASE Pay(p)
    <2>1. /\ session[p] = "open" /\ truth' = [truth EXCEPT ![p] = "active"]
          /\ session' = [session EXCEPT ![p] = "complete"]
          /\ Sends(p, <<Event("completed", "none"), Event("changed", "active")>>)
        BY <1>5 DEF Pay
    <2>2. PICK e \in Events : e = Event("completed", "none") /\ e.kind = "completed"
        BY <1>4
    <2>3. PICK f \in Events : f = Event("changed", "active") /\ f.kind = "changed"
        BY <1>4
    <2>4. TellsPayment(p, <<e, f>>)
        BY <1>2, <2>1, <2>2, <2>3, EventsAre DEF TellsPayment, Standing
    <2>5. Sends(p, <<e, f>>) /\ <<e, f>> \in Seq(Events)
        BY <2>1, <2>2, <2>3, EventsAre
    <2>6. \A q \in Purchase \ {p} : session'[q] = session[q] /\ truth'[q] = truth[q]
        BY <1>3, <2>1
    <2>7. QED
        BY <2>4, <2>5, <2>6, SendsTells
<1>6. CASE SessionExpires(p)
    <2>1. /\ truth' = truth /\ session' = [session EXCEPT ![p] = "expired"]
          /\ Sends(p, <<Event("expired", "none")>>)
        BY <1>6 DEF SessionExpires
    <2>2. PICK e \in Events : e = Event("expired", "none") /\ e.kind = "expired"
        BY <1>4
    <2>3. TellsPayment(p, <<e>>)
        BY <2>2, EventsAre DEF TellsPayment
    <2>4. Sends(p, <<e>>) /\ <<e>> \in Seq(Events)
        BY <2>1, <2>2, EventsAre
    <2>5. \A q \in Purchase \ {p} : session'[q] = session[q] /\ truth'[q] = truth[q]
        BY <1>3, <2>1
    <2>6. QED
        BY <2>3, <2>4, <2>5, SendsTells
<1>7. CASE RenewalFails(p)
    <2>1. /\ truth' = [truth EXCEPT ![p] = "past_due"] /\ session' = session
          /\ Sends(p, <<Event("invoice_failed", "none"), Event("changed", "past_due")>>)
        BY <1>7 DEF RenewalFails
    <2>2. PICK e \in Events : e = Event("invoice_failed", "none") /\ e.kind = "invoice_failed"
        BY <1>4
    <2>3. PICK f \in Events : f = Event("changed", "past_due") /\ f.kind = "changed"
        BY <1>4
    <2>4. TellsPayment(p, <<e, f>>)
        BY <2>2, <2>3, EventsAre DEF TellsPayment
    <2>5. Sends(p, <<e, f>>) /\ <<e, f>> \in Seq(Events)
        BY <2>1, <2>2, <2>3, EventsAre
    <2>6. \A q \in Purchase \ {p} : session'[q] = session[q] /\ truth'[q] = truth[q]
        BY <1>3, <2>1
    <2>7. QED
        BY <2>4, <2>5, <2>6, SendsTells
<1>8. CASE RenewalSucceeds(p)
    <2>1. /\ truth' = [truth EXCEPT ![p] = "active"] /\ session' = session
          /\ Sends(p, <<Event("invoice_paid", "none"), Event("changed", "active")>>)
        BY <1>8 DEF RenewalSucceeds
    <2>2. PICK e \in Events : e = Event("invoice_paid", "none") /\ e.kind = "invoice_paid"
        BY <1>4
    <2>3. PICK f \in Events : f = Event("changed", "active") /\ f.kind = "changed"
        BY <1>4
    <2>4. TellsPayment(p, <<e, f>>)
        BY <1>3, <2>1, <2>2, <2>3, EventsAre DEF TellsPayment
    <2>5. Sends(p, <<e, f>>) /\ <<e, f>> \in Seq(Events)
        BY <2>1, <2>2, <2>3, EventsAre
    <2>6. \A q \in Purchase \ {p} : session'[q] = session[q] /\ truth'[q] = truth[q]
        BY <1>3, <2>1
    <2>7. QED
        BY <2>4, <2>5, <2>6, SendsTells
<1>9. CASE Ends(p)
    <2>1. /\ truth' = [truth EXCEPT ![p] = "canceled"] /\ session' = session
          /\ Sends(p, <<Event("changed", "canceled")>>)
        BY <1>9 DEF Ends
    <2>2. PICK e \in Events : e = Event("changed", "canceled") /\ e.kind = "changed"
        BY <1>4
    <2>3. TellsPayment(p, <<e>>)
        BY <2>2, EventsAre DEF TellsPayment
    <2>4. Sends(p, <<e>>) /\ <<e>> \in Seq(Events)
        BY <2>1, <2>2, EventsAre
    <2>5. \A q \in Purchase \ {p} : session'[q] = session[q] /\ truth'[q] = truth[q]
        BY <1>3, <2>1
    <2>6. QED
        BY <2>3, <2>4, <2>5, SendsTells
<1>10. CASE TurnsUnpaid(p)
    BY <1>2, <1>10, CausesMore DEF TurnsUnpaid
<1>11. QED
    BY <1>5, <1>6, <1>7, <1>8, <1>9, <1>10 DEF StripeStep

\* Receive: what was waiting is in hand.
LEMMA ReceiveTells ==
    ASSUME Fits, Alone, Settled, OutOfOrder', \A q \in Purchase : Telling(q),
           NEW h \in Handler, NEW p \in Purchase, NEW i, Receive(h, p, i)
    PROVE  \A q \in Purchase : Telling(q)'
<1>1. /\ ~Working(h) /\ Only(h)
      /\ step'[h] = "read" /\ job'[h].purchase = p /\ job'[h].event = mail[p][i]
      /\ i \in 1 .. Len(mail[p]) /\ i \in DOMAIN mail[p]
    BY ReceiveFits
<1>2. /\ row' = row /\ slot' = slot /\ session' = session /\ truth' = truth
      /\ trouble \subseteq trouble' /\ OverlapOn(p) \subseteq trouble'
      /\ mail' = [mail EXCEPT ![p] = RemoveAt(@, i)]
    BY CausesMore DEF Receive
<1>3. Calm /\ \A k \in Handler : ~WorksOn(k, p)
    <2>1. Calm /\ "overlap" \notin trouble'
        BY <1>2, OutOfOrderLasts
    <2>2. QED
        BY <1>2, <2>1, OverlapIs
<1>4. /\ mail'[p] = RemoveAt(mail[p], i) /\ \A q \in Purchase \ {p} : mail'[q] = mail[q]
    BY <1>2 DEF Fits, MailFits
<1>5. PICK f \in [DOMAIN mail'[p] -> DOMAIN mail[p] \ {i}] :
            /\ \A j \in DOMAIN mail'[p] : mail'[p][j] = mail[p][f[j]]
            /\ \A j, k \in DOMAIN mail'[p] : f[j] = f[k] => j = k
    <2>1. mail[p] \in Seq(Events)
        BY RowIs
    <2>2. QED
        BY <1>1, <1>4, <2>1, RemovedIs
<1>6. \A q \in Purchase \ {p} : Beside(q)
    BY <1>1, <1>2, <1>4, BesideHandler
<1>7. \A k \in Handler : WorksOn(k, p)' => k = h
    BY <1>1, <1>3 DEF Only, WorksOn, Working
<1>8. FirstPaid(p)'
    <2>1. FirstPaid(p)
        BY DEF Telling
    <2>2. ASSUME NEW j \in DOMAIN mail'[p], mail'[p][j].kind = "completed"
          PROVE  /\ row'[p].status = "checkout_pending"
                 /\ \A k \in DOMAIN mail'[p] : mail'[p][k].kind = "completed" => j = k
                 /\ \A k \in Handler : WorksOn(k, p)' => job'[k].event.kind # "completed"
        <3>1. f[j] \in DOMAIN mail[p] \ {i} /\ mail[p][f[j]].kind = "completed"
            BY <1>5, <2>2
        <3>2. mail[p][i].kind # "completed" /\ row[p].status = "checkout_pending"
            BY <1>1, <2>1, <3>1 DEF FirstPaid
        <3>3. ASSUME NEW k \in DOMAIN mail'[p], mail'[p][k].kind = "completed"
              PROVE  j = k
            <4>1. f[k] \in DOMAIN mail[p] /\ mail[p][f[k]].kind = "completed"
                BY <1>5, <3>3
            <4>2. f[j] = f[k]
                BY <2>1, <3>1, <4>1 DEF FirstPaid
            <4>3. QED
                BY <1>5, <4>2
        <3>4. QED
            BY <1>1, <1>2, <1>7, <3>2, <3>3
    <2>3. \A k \in Handler : WorksOn(k, p)' /\ job'[k].event.kind = "completed" =>
                                row'[p].status = "checkout_pending"
        BY <1>1, <1>2, <1>7, <2>1 DEF FirstPaid
    <2>4. QED
        BY <2>2, <2>3 DEF FirstPaid
<1>9. PaidMeansActive(p)'
    BY <1>1, <1>2, <1>5, <1>7 DEF Telling, PaidMeansActive
<1>10. (Live(p)' <=> Live(p)) /\ ~Restoring(p) /\ ~Restoring(p)'
    BY <1>1, <1>2, <1>3, <1>7 DEF Live, Restoring
<1>11. SlotTells(p)'
    BY <1>2, <1>10 DEF Telling, SlotTells
<1>12. QED
    BY <1>2, <1>3, <1>6, <1>8, <1>9, <1>11, TellsMove DEF Telling

\* What is known of a step of h when there is only reordering.
LEMMA JobTells ==
    ASSUME Fits, Alone, Settled, OutOfOrder', trouble' = trouble,
           NEW h \in Handler, Working(h), NEW p, p = job[h].purchase
    PROVE  /\ Calm /\ p \in Purchase /\ WorksOn(h, p) /\ Course(p) /\ Handling(p, h)
           /\ job[h].event.kind # "abandoned" /\ job[h].slot = row[p].serverId
           /\ \A k \in Handler : WorksOn(k, p) => k = h
           /\ step[h] = "save" /\ job[h].event.kind \in Saving => job[h].seen = row[p]
           /\ row[p] \in Row
<1>1. Calm /\ "overlap" \notin trouble
    BY OutOfOrderLasts
<1>2. QED
    BY <1>1, CalmJob, RowIs DEF WorksOn, Alone

\* Read
LEMMA ReadTells ==
    ASSUME Fits, Alone, Settled, OutOfOrder', \A q \in Purchase : Telling(q),
           NEW h \in Handler, Read(h)
    PROVE  \A q \in Purchase : Telling(q)'
<1>1. PICK p : p = job[h].purchase
    OBVIOUS
<1>2. /\ Working(h) /\ step[h] = "read" /\ Only(h) /\ p \in Purchase
      /\ row' = row /\ slot' = slot /\ session' = session
      /\ truth' = truth /\ mail' = mail /\ trouble' = trouble
      /\ \/ step'[h] = "idle" /\ job'[h] = <<>>
         \/ job[h].event.kind = "abandoned"
         \/ step'[h] = "save" /\ job'[h].event = job[h].event /\ job'[h].purchase = p
    BY <1>1, ReadFits
<1>3. /\ Calm /\ WorksOn(h, p) /\ job[h].event.kind # "abandoned"
      /\ \A k \in Handler : WorksOn(k, p) => k = h
    BY <1>1, <1>2, JobTells
<1>4. \A q \in Purchase \ {p} : Beside(q)
    BY <1>2, <1>3, BesideHandler
<1>5. \A k \in Handler : WorksOn(k, p)' =>
            k = h /\ step'[h] = "save" /\ job'[h].event = job[h].event
    BY <1>2, <1>3 DEF Only, WorksOn, Working
<1>6. FirstPaid(p)'
    BY <1>2, <1>3, <1>5 DEF Telling, FirstPaid
<1>7. PaidMeansActive(p)'
    BY <1>2, <1>3, <1>5 DEF Telling, PaidMeansActive
<1>8. (Live(p)' <=> Live(p)) /\ ~Restoring(p) /\ ~Restoring(p)'
    BY <1>2, <1>3, <1>5 DEF Live, Restoring
<1>9. SlotTells(p)'
    BY <1>2, <1>8 DEF Telling, SlotTells
<1>10. QED
    BY <1>2, <1>3, <1>4, <1>6, <1>7, <1>9, TellsMove DEF Telling

\* SavePaid: the purchase was pending.
LEMMA SavePaidTells ==
    ASSUME Fits, Alone, Settled, OutOfOrder', \A q \in Purchase : Telling(q),
           NEW h \in Handler, SavePaid(h)
    PROVE  \A q \in Purchase : Telling(q)'
<1>1. PICK p : p = job[h].purchase
    OBVIOUS
<1>2. /\ Working(h) /\ step[h] = "save" /\ Only(h) /\ p \in Purchase
      /\ job[h].event.kind = "completed"
      /\ slot' = slot /\ session' = session /\ truth' = truth /\ mail' = mail
      /\ trouble' = trouble /\ step'[h] = "idle" /\ job'[h] = <<>>
      /\ row'[p] = PaidRow(job[h].seen, job[h].sub)
      /\ \A q \in Purchase \ {p} : row'[q] = row[q]
    BY <1>1, SavePaidFits
<1>3. /\ Calm /\ WorksOn(h, p) /\ job[h].seen = row[p] /\ row[p] \in Row
      /\ \A k \in Handler : WorksOn(k, p) => k = h
    BY <1>1, <1>2, JobTells DEF Saving
<1>4. /\ row[p].status = "checkout_pending"
      /\ \A i \in DOMAIN mail[p] : mail[p][i].kind # "completed"
    BY <1>2, <1>3 DEF Telling, FirstPaid
<1>5. row'[p].status = "paid" /\ ~row'[p].suspended
    BY <1>2, <1>3, <1>4, PaidIs
<1>6. \A k \in Handler : ~WorksOn(k, p)'
    BY <1>2, <1>3 DEF Only, WorksOn, Working
<1>7. FirstPaid(p)'
    BY <1>2, <1>4, <1>6 DEF FirstPaid
<1>8. PaidMeansActive(p)'
    BY <1>2, <1>6 DEF Telling, PaidMeansActive
<1>9. SlotTells(p)'
    BY <1>5 DEF SlotTells
<1>10. \A q \in Purchase \ {p} : Beside(q)
    BY <1>2, <1>3, BesideHandler
<1>11. QED
    BY <1>2, <1>3, <1>7, <1>8, <1>9, <1>10, TellsMove DEF Telling

\* SaveSubscription: what ends a suspension goes on to the slot.
LEMMA SaveSubscriptionTells ==
    ASSUME Fits, Alone, Settled, OutOfOrder', \A q \in Purchase : Telling(q),
           NEW h \in Handler, SaveSubscription(h)
    PROVE  \A q \in Purchase : Telling(q)'
<1>1. PICK p : p = job[h].purchase
    OBVIOUS
<1>2. /\ Working(h) /\ step[h] = "save" /\ Only(h) /\ p \in Purchase
      /\ job[h].event.kind \in {"changed", "invoice_paid", "invoice_failed"}
      /\ slot' = slot /\ session' = session /\ truth' = truth /\ mail' = mail
      /\ trouble' = trouble
      /\ row'[p] = SyncedRow(job[h].seen, job[h].event.kind, job[h].sub)
      /\ \A q \in Purchase \ {p} : row'[q] = row[q]
    BY <1>1, SaveSubscriptionFits
<1>3. \/ /\ job[h].sub \in TerminalSubscription
         /\ step'[h] = "release" /\ job'[h] = job[h]
      \/ /\ job[h].sub \notin TerminalSubscription \cup DelinquentSubscription
         /\ job[h].seen.status = "completed" /\ job[h].seen.suspended
         /\ step'[h] = "reallocate" /\ job'[h] = job[h]
      \/ /\ job[h].sub \notin TerminalSubscription
         /\ ~(/\ job[h].sub \notin DelinquentSubscription
              /\ job[h].seen.status = "completed"
              /\ job[h].seen.suspended)
         /\ step'[h] = "idle" /\ job'[h] = <<>>
    BY <1>1, SaveSubscriptionFits
<1>4. /\ Calm /\ WorksOn(h, p) /\ job[h].seen = row[p] /\ row[p] \in Row /\ Course(p)
      /\ \A k \in Handler : WorksOn(k, p) => k = h
    BY <1>1, <1>2, JobTells DEF Saving
<1>5. /\ truth[p] \in {"active", "past_due", "canceled"} /\ job[h].sub = truth[p]
    BY <1>1, <1>2, <1>4, CalmJob
<1>6. /\ row'[p].status =
            IF truth[p] \in TerminalSubscription /\ row[p].status \in {"checkout_pending", "paid"}
            THEN "cancelled" ELSE row[p].status
      /\ row'[p].sub = truth[p] /\ row'[p].serverId = row[p].serverId
      /\ row'[p].suspended <=> /\ row[p].suspended /\ job[h].event.kind # "invoice_paid"
                               /\ truth[p] \in DelinquentSubscription
    BY <1>2, <1>4, <1>5, SyncedIs
<1>7. FirstPaid(p) /\ PaidMeansActive(p) /\ SlotTells(p)
    BY <1>2 DEF Telling
<1>8. \A k \in Handler : WorksOn(k, p)' =>
            k = h /\ job'[h] = job[h] /\ step'[h] \in {"release", "reallocate"}
    BY <1>2, <1>3, <1>4 DEF Only, WorksOn, Working
<1>9. FirstPaid(p)'
    <2>1. CASE truth[p] = "canceled"
        <3>1. \A i \in DOMAIN mail[p] : mail[p][i].kind = "changed"
            BY <1>4, <2>1 DEF Course, Waiting
        <3>2. QED
            BY <1>2, <1>8, <3>1 DEF FirstPaid
    <2>2. CASE truth[p] # "canceled"
        <3>1. row'[p].status = row[p].status
            BY <1>5, <1>6, <2>2 DEF TerminalSubscription
        <3>2. QED
            BY <1>2, <1>7, <1>8, <3>1 DEF FirstPaid
    <2>3. QED
        BY <2>1, <2>2
<1>10. PaidMeansActive(p)'
    <2>1. step'[h] = "reallocate" => truth[p] = "active"
        BY <1>3, <1>5 DEF TerminalSubscription, DelinquentSubscription
    <2>2. job[h].event.kind = "invoice_paid" => truth[p] = "active"
        BY <1>4, <1>7 DEF PaidMeansActive
    <2>3. QED
        BY <1>2, <1>7, <1>8, <2>1, <2>2 DEF PaidMeansActive
<1>11. SlotTells(p)'
    <2>1. row'[p].suspended => row'[p].status = "completed"
        <3>1. SUFFICES ASSUME row'[p].suspended PROVE row'[p].status = "completed"
            OBVIOUS
        <3>2. row[p].suspended
            BY <1>6, <3>1
        <3>3. row[p].status = "completed"
            BY <1>7, <3>2 DEF SlotTells
        <3>4. QED
            BY <1>6, <3>3
    <2>2. ASSUME row'[p].status = "completed", Live(p)'
          PROVE  /\ Restoring(p)' => ~row'[p].suspended
                 /\ ~Restoring(p)' => (row'[p].suspended <=> slot'[row'[p].serverId] = "held")
        <3>1. truth[p] \in {"active", "past_due"}
            BY <1>5, <1>6, <2>2 DEF Live, TerminalSubscription
        <3>2. row[p].status = "completed" /\ Live(p)
            BY <1>4, <1>6, <2>2, <3>1 DEF Course, Standing, Live, TerminalSubscription
        <3>3. ~Restoring(p)
            BY <1>2, <1>4 DEF Restoring
        <3>4. row[p].suspended <=> slot[row[p].serverId] = "held"
            BY <1>7, <3>2, <3>3 DEF SlotTells
        <3>5. CASE truth[p] = "past_due"
            <4>1. job[h].event.kind # "invoice_paid"
                BY <1>4, <1>7, <3>5 DEF PaidMeansActive
            <4>2. row'[p].suspended <=> row[p].suspended
                BY <1>6, <3>5, <4>1 DEF DelinquentSubscription
            <4>3. ~Restoring(p)'
                BY <1>3, <1>5, <1>8, <3>5 DEF Restoring, DelinquentSubscription
            <4>4. QED
                BY <1>2, <1>6, <3>4, <4>2, <4>3
        <3>6. CASE truth[p] = "active" /\ row[p].suspended
            <4>1. ~row'[p].suspended /\ step'[h] = "reallocate" /\ job'[h] = job[h]
                BY <1>3, <1>4, <1>5, <1>6, <3>2, <3>6
                DEF TerminalSubscription, DelinquentSubscription
            <4>2. WorksOn(h, p)'
                BY <1>4, <4>1 DEF WorksOn, Working
            <4>3. QED
                BY <4>1, <4>2 DEF Restoring
        <3>7. CASE truth[p] = "active" /\ ~row[p].suspended
            <4>1. ~row'[p].suspended
                BY <1>6, <3>7
            <4>2. QED
                BY <1>2, <1>6, <3>4, <3>7, <4>1
        <3>8. QED
            BY <3>1, <3>5, <3>6, <3>7
    <2>3. QED
        BY <2>1, <2>2 DEF SlotTells
<1>12. \A q \in Purchase \ {p} : Beside(q)
    BY <1>1, <1>2, <1>3, <1>4, BesideHandler
<1>13. QED
    BY <1>2, <1>4, <1>9, <1>10, <1>11, <1>12, TellsMove DEF Telling

\* CloseIfPending: an expired session was never paid.
LEMMA CloseTells ==
    ASSUME Fits, Alone, Settled, OutOfOrder', \A q \in Purchase : Telling(q),
           NEW h \in Handler, CloseIfPending(h)
    PROVE  \A q \in Purchase : Telling(q)'
<1>1. PICK p : p = job[h].purchase
    OBVIOUS
<1>2. /\ Working(h) /\ step[h] = "save" /\ Only(h) /\ p \in Purchase
      /\ job[h].event.kind \in {"expired", "abandoned"}
      /\ slot' = slot /\ session' = session /\ truth' = truth /\ mail' = mail
      /\ trouble' = trouble /\ \A q \in Purchase \ {p} : row'[q] = row[q]
    BY <1>1, CloseFits
<1>3. IF row[p].status = "checkout_pending"
      THEN /\ row'[p].status = IF job[h].event.kind = "expired" THEN "expired" ELSE "cancelled"
           /\ row'[p].suspended = row[p].suspended
      ELSE row'[p] = row[p]
    BY <1>1, CloseFits
<1>4. \/ step'[h] = "release" /\ job'[h] = job[h]
      \/ step'[h] = "idle" /\ job'[h] = <<>>
    BY <1>1, CloseFits
<1>5. /\ Calm /\ WorksOn(h, p) /\ Course(p) /\ job[h].event.kind = "expired"
      /\ \A k \in Handler : WorksOn(k, p) => k = h
    BY <1>1, <1>2, JobTells
<1>6. session[p] = "expired"
    BY <1>1, <1>2, <1>5, CalmJob DEF Saving
<1>7. \A i \in DOMAIN mail[p] : mail[p][i].kind = "expired"
    BY <1>5, <1>6 DEF Course, Waiting, Timely
<1>8. \A k \in Handler : WorksOn(k, p)' => k = h /\ step'[h] = "release" /\ job'[h] = job[h]
    BY <1>2, <1>4, <1>5 DEF Only, WorksOn, Working
<1>9. FirstPaid(p)' /\ PaidMeansActive(p)'
    BY <1>2, <1>5, <1>7, <1>8 DEF FirstPaid, PaidMeansActive
<1>10. row[p].status \in {"checkout_pending", "expired"}
    BY <1>5, <1>6 DEF Course, Standing
<1>11. SlotTells(p)'
    BY <1>2, <1>3, <1>10 DEF Telling, SlotTells
<1>12. \A q \in Purchase \ {p} : Beside(q)
    BY <1>1, <1>2, <1>4, <1>5, BesideHandler
<1>13. QED
    BY <1>2, <1>5, <1>9, <1>11, <1>12, TellsMove DEF Telling

\* Release and Reallocate: the slot follows the row.
LEMMA SlotStepTells ==
    ASSUME Fits, Alone, Settled, OutOfOrder', \A q \in Purchase : Telling(q),
           NEW h \in Handler, Release(h) \/ Reallocate(h)
    PROVE  \A q \in Purchase : Telling(q)'
<1>1. PICK p : p = job[h].purchase
    OBVIOUS
<1>2. /\ Working(h) /\ Only(h) /\ p \in Purchase
      /\ row' = row /\ session' = session /\ truth' = truth /\ mail' = mail
      /\ trouble' = trouble /\ step'[h] = "idle" /\ job'[h] = <<>>
      /\ \A s \in Slot \ {job[h].slot} : slot'[s] = slot[s]
      /\ \/ step[h] = "release"
         \/ /\ step[h] = "reallocate"
            /\ slot'[job[h].slot] = IF slot[job[h].slot] = "held" THEN "allocated"
                                    ELSE slot[job[h].slot]
    BY <1>1, SlotStepFits
<1>3. /\ Calm /\ WorksOn(h, p) /\ Course(p) /\ Handling(p, h) /\ job[h].slot = row[p].serverId
      /\ \A k \in Handler : WorksOn(k, p) => k = h
    BY <1>1, <1>2, JobTells
<1>4. \A k \in Handler : ~WorksOn(k, p)'
    BY <1>2, <1>3 DEF Only, WorksOn, Working
<1>5. FirstPaid(p)' /\ PaidMeansActive(p)'
    BY <1>2, <1>4 DEF Telling, FirstPaid, PaidMeansActive
<1>6. Live(p)' <=> Live(p)
    BY <1>2 DEF Live
<1>7. ~Restoring(p)'
    BY <1>4 DEF Restoring
<1>8. SlotTells(p)'
    <2>1. CASE step[h] = "release"
        <3>1. ~Live(p)
            BY <1>3, <2>1 DEF Handling
        <3>2. QED
            BY <1>2, <1>6, <3>1 DEF Telling, SlotTells
    <2>2. CASE step[h] # "release"
        <3>1. Restoring(p)
            BY <1>2, <1>3, <2>2 DEF Restoring
        <3>2. slot'[row[p].serverId] # "held"
            BY <1>2, <1>3, <2>2
        <3>3. QED
            BY <1>2, <1>6, <1>7, <3>1, <3>2 DEF Telling, SlotTells
    <2>3. QED
        BY <2>1, <2>2
<1>9. Possesses(p)
    <2>1. CASE step[h] = "release"
        BY <1>3, <2>1 DEF Possesses, Ending
    <2>2. CASE step[h] # "release"
        <3>1. truth[p] = "active"
            BY <1>2, <1>3, <2>2 DEF Telling, PaidMeansActive
        <3>2. QED
            BY <1>3, <3>1 DEF Course, Standing, Kept, Live, Possesses
    <2>3. QED
        BY <2>1, <2>2
<1>10. \A q \in Purchase \ {p} : Beside(q)
    BY <1>2, <1>3, BesideHandler
<1>11. QED
    BY <1>2, <1>3, <1>5, <1>8, <1>9, <1>10, TellsMove DEF Telling

\* The worker and the operator: a service is suspended together with its slot.
LEMMA DeskTells ==
    ASSUME Fits, Alone, Settled, OutOfOrder', \A q \in Purchase : Telling(q),
           NEW p \in Purchase, Provision(p) \/ ReleaseReady(p) \/ Suspend(p)
    PROVE  \A q \in Purchase : Telling(q)'
<1>1. /\ \A q \in Purchase \ {p} : row'[q] = row[q]
      /\ row[p].serverId \in Slot /\ row'[p].serverId = row[p].serverId
      /\ row[p].status \in {"paid", "completed"} /\ row'[p].status \in {"paid", "completed"}
      /\ row[p].status = "completed" => row[p].sub \notin TerminalSubscription
      /\ session' = session /\ truth' = truth /\ mail' = mail
      /\ step' = step /\ job' = job
      /\ trouble \subseteq trouble' /\ OverlapOn(p) \subseteq trouble'
      /\ \A s \in Slot \ {row[p].serverId} : slot'[s] = slot[s]
    BY ProvisionFits, ReadyFits, SuspendFits
<1>2. Calm /\ \A k \in Handler : ~WorksOn(k, p)
    <2>1. Calm /\ "overlap" \notin trouble'
        BY <1>1, OutOfOrderLasts
    <2>2. QED
        BY <1>1, <2>1, OverlapIs
<1>3. \A k \in Handler : ~WorksOn(k, p)'
    BY <1>1, <1>2 DEF WorksOn, Working
<1>4. FirstPaid(p)' /\ PaidMeansActive(p)'
    BY <1>1, <1>3 DEF Telling, FirstPaid, PaidMeansActive
<1>5. SlotTells(p)'
    <2>1. CASE Provision(p)
        <3>1. row[p].status = "paid" /\ row'[p].status = "paid"
              /\ row'[p].suspended = row[p].suspended
            BY <2>1, ProvisionFits
        <3>2. QED
            BY <3>1 DEF Telling, SlotTells
    <2>2. CASE ReleaseReady(p)
        <3>1. row[p].status = "paid" /\ row'[p].suspended = row[p].suspended
              /\ row'[p].status = "completed" /\ slot'[row'[p].serverId] = "allocated"
            BY <2>2, ReadyFits
        <3>2. ~row'[p].suspended
            BY <3>1 DEF Telling, SlotTells
        <3>3. QED
            BY <3>1, <3>2 DEF SlotTells
    <2>3. CASE Suspend(p)
        <3>1. row'[p].suspended /\ row'[p].status = "completed" /\ slot'[row'[p].serverId] = "held"
            BY <2>3, SuspendFits
        <3>2. ~Restoring(p)'
            BY <1>3 DEF Restoring
        <3>3. QED
            BY <3>1, <3>2 DEF SlotTells
    <2>4. QED
        BY <2>1, <2>2, <2>3
<1>6. Possesses(p)
    BY <1>1 DEF Live, Possesses
<1>7. \A q \in Purchase \ {p} : Beside(q)
    BY <1>1 DEF Beside, WorksOn, Working
<1>8. QED
    BY <1>1, <1>2, <1>4, <1>5, <1>6, <1>7, TellsMove DEF Telling

\* Every step that leaves no other trouble keeps it so.
LEMMA NextTells ==
    ASSUME Fits, Alone, Settled, OutOfOrder', \A q \in Purchase : Telling(q), Next
    PROVE  \A q \in Purchase : Telling(q)'
<1>1. trouble \subseteq trouble'
    BY MoreTrouble
<1>2. trouble' \cap {"lag", "repeat", "overlap", "crash", "failure", "visit", "unpaid",
                     "override"} = {}
    BY <1>1, OutOfOrderLasts
<1>3. CASE \E p \in Purchase, s \in Slot : Checkout(p, s)
    BY <1>3, CheckoutTells
<1>4. CASE \E p \in Purchase, s \in Slot, h \in Handler : CheckoutFails(h, p, s)
    BY <1>2, <1>4, FailureFits
<1>5. CASE \E p \in Purchase : StripeStep(p)
    BY <1>5, StripeTells
<1>6. CASE \E p \in Purchase : Provision(p) \/ ReleaseReady(p) \/ Suspend(p)
    BY <1>6, DeskTells
<1>7. CASE \E p \in Purchase, newStatus \in PurchaseStatus, newSlot \in ServerStatus,
                access \in {"keep", "suspend", "reinstate"} :
                Override(p, newStatus, newSlot, access)
    BY <1>2, <1>7, OverrideFits
<1>8. CASE \E h \in Handler, p \in Purchase :
                Visit(h, p) \/ \E i \in 1 .. MaxMail : Receive(h, p, i)
    BY <1>2, <1>8, VisitFits, ReceiveTells
<1>9. CASE \E h \in Handler : Read(h) \/ SavePaid(h) \/ SaveSubscription(h) \/ CloseIfPending(h)
    BY <1>9, ReadTells, SavePaidTells, SaveSubscriptionTells, CloseTells
<1>10. CASE \E h \in Handler : Release(h) \/ Reallocate(h)
    BY <1>10, SlotStepTells
<1>11. CASE \E h \in Handler : Repeat(h)
    BY <1>2, <1>11, RepeatFits
<1>12. CASE \E h \in Handler : Dies(h)
    BY <1>2, <1>12, CausesMore DEF Dies
<1>13. QED
    BY <1>3, <1>4, <1>5, <1>6, <1>7, <1>8, <1>9, <1>10, <1>11, <1>12 DEF Next, HandlerStep

\* A service in use is suspended exactly while its slot is held, also when two events
\* come in the wrong order.
THEOREM HeldIsSuspended == Spec => []HeldWhileSuspended
<1> DEFINE Tale == OutOfOrder => \A q \in Purchase : Telling(q)
           Inv == Fits /\ Alone /\ (Calm => Settled) /\ Tale
<1>1. Init => Inv
    <2>1. SUFFICES ASSUME Init, NEW q \in Purchase PROVE Telling(q)
        BY InitFits, InitSettled DEF Init, Alone, Working
    <2>2. row[q].status = "none" /\ ~row[q].suspended
        BY <2>1 DEF Init, NoRow
    <2>3. \A h \in Handler : ~WorksOn(h, q)
        BY <2>1 DEF Init, WorksOn, Working
    <2>4. DOMAIN mail[q] = {}
        <3>1. mail[q] = <<>> /\ mail[q] \in Seq(Events)
            BY <2>1, <2>2, InitFits, RowIs DEF RowFits
        <3>2. Len(mail[q]) = 0
            BY <3>1, EmptySeq, Zenon
        <3>3. DOMAIN mail[q] = 1 .. Len(mail[q])
            BY <3>1, LenProperties
        <3>4. QED
            BY <3>2, <3>3
    <2>5. QED
        BY <2>2, <2>3, <2>4 DEF Telling, FirstPaid, PaidMeansActive, SlotTells
<1>2. Inv /\ [Next]_vars => Inv'
    <2>1. Fits /\ Alone /\ (Calm => Settled) /\ [Next]_vars =>
                Fits' /\ Alone' /\ (Calm' => Settled')
        BY NextFits, StutterFits, NextAlone, StutterAlone, NextSettled, StutterSettled
    <2>2. ASSUME Inv, Next, OutOfOrder' PROVE \A q \in Purchase : Telling(q)'
        <3>1. OutOfOrder /\ Calm
            BY <2>2, MoreTrouble, OutOfOrderLasts
        <3>2. QED
            BY <2>2, <3>1, NextTells
    <2>3. ASSUME Inv, UNCHANGED vars, OutOfOrder', NEW q \in Purchase PROVE Telling(q)'
        <3>1. /\ row' = row /\ slot' = slot /\ session' = session /\ truth' = truth
              /\ mail' = mail /\ step' = step /\ job' = job /\ trouble' = trouble
            BY <2>3 DEF vars, stripeVars, handlerVars
        <3>2. Telling(q) /\ Beside(q)
            BY <2>3, <3>1 DEF OutOfOrder, Beside
        <3>3. QED
            BY <3>1, <3>2, BesideTells
    <2>4. QED
        BY <2>1, <2>2, <2>3
<1>3. Inv => HeldWhileSuspended
    <2>1. SUFFICES ASSUME Inv, OnlyOneOf({"reorder"}), NEW p \in Purchase,
                          row[p].status = "completed", Live(p), ~Occupied(p)
                   PROVE  row[p].suspended <=> slot[row[p].serverId] = "held"
        BY DEF HeldWhileSuspended
    <2>2. OutOfOrder /\ ~Restoring(p)
        BY <2>1 DEF OnlyOneOf, OutOfOrder, Restoring, Occupied, WorksOn
    <2>3. QED
        BY <2>1, <2>2 DEF Telling, SlotTells
<1>4. QED
    BY <1>1, <1>2, <1>3, PTL DEF Spec

(***************************************************************************)
(* What is under way is about something Stripe knows                       *)
(***************************************************************************)

\* Stripe does not move on before it was heard; and its account ends subscriptions that
\* are not paid.
Prompt == trouble \cap {"lag", "failure", "override"} = {}

Steady == Prompt /\ "unpaid" \notin trouble

\* The subscription and the status are stored together.
Tied(r) == r.sub = "none" <=> r.status \in {"none", "checkout_pending", "expired"}

RowTold(p) ==
    /\ Tied(row[p])
    /\ row[p].status = "expired" => session[p] = "expired"
    /\ row[p].sub # "none" => session[p] = "complete"
    /\ Steady =>
            /\ truth[p] # "unpaid"
            /\ truth[p] \in {"active", "past_due"} => row[p].status \in Kept

\* An event is about a session that has ended or a subscription that there is.
Known(p, e) ==
    \/ e.kind = "expired" /\ session[p] = "expired"
    \/ e.kind \in Saving /\ session[p] = "complete" /\ (e.kind = "changed" => e.sub # "none")

\* What the event tells is the case.
IsTrue(p, e) ==
    /\ e.kind = "changed" => e.sub = truth[p]
    /\ e.kind = "invoice_failed" => truth[p] = "past_due"
    /\ e.kind \in {"completed", "invoice_paid"} => truth[p] = "active"

EventTold(p, e) == Known(p, e) /\ (Prompt => IsTrue(p, e))

JobTold(p, h) ==
    LET kind == job[h].event.kind
    IN  /\ Known(p, job[h].event)
        /\ ~job[h].mailed => "visit" \in trouble /\ kind \in {"completed", "expired"}
        /\ kind \in Saving => job[h].sub # "none"
        /\ kind = "changed" => job[h].sub = job[h].event.sub
        /\ kind \in Saving /\ step[h] = "save" => Tied(job[h].seen) /\ Relevant(kind, job[h].seen)
        /\ kind \in Saving \ {"completed"} /\ step[h] # "read" => row[p].sub # "none"
        /\ Prompt =>
                /\ job[h].mailed => IsTrue(p, job[h].event)
                /\ kind \in Saving => job[h].sub = truth[p]
        /\ Steady /\ truth[p] \in {"active", "past_due"} /\ kind \in Saving /\ step[h] = "save" =>
                job[h].seen.status \in Kept

Told(p) ==
    /\ RowTold(p)
    /\ \A i \in DOMAIN mail[p] : EventTold(p, mail[p][i])
    /\ \A h \in Handler : WorksOn(h, p) => JobTold(p, h)

\* What a handler asks before it saves.
LEMMA RelevantIs ==
    ASSUME NEW kind \in Saving, NEW r
    PROVE  Relevant(kind, r) <=> IF kind = "completed"
                                 THEN r.status \notin {"none", "cancelled", "expired"}
                                 ELSE r.sub # "none"
BY DEF Relevant, Saving

\* Promptness that lasts has been there before.
LEMMA PromptLasts ==
    ASSUME trouble \subseteq trouble'
    PROVE  (Prompt' => Prompt) /\ (Steady' => Steady /\ Prompt /\ Prompt')
BY DEF Prompt, Steady

\* A purchase beside the step.
LEMMA BesideTold ==
    ASSUME NEW q \in Purchase, Beside(q), Told(q), trouble \subseteq trouble'
    PROVE  Told(q)'
<1>1. /\ row'[q] = row[q] /\ session'[q] = session[q]
      /\ truth'[q] = truth[q] /\ mail'[q] = mail[q]
    BY DEF Beside
<1>2. \A h \in Handler :
        /\ WorksOn(h, q)' <=> WorksOn(h, q)
        /\ WorksOn(h, q) => step'[h] = step[h] /\ job'[h] = job[h]
    BY DEF Beside, WorksOn, Working
<1>3. RowTold(q)'
    BY <1>1, PromptLasts DEF Told, RowTold, Tied
<1>4. \A i \in DOMAIN mail'[q] : EventTold(q, mail[q][i])'
    BY <1>1, PromptLasts DEF Told, EventTold, Known, IsTrue
<1>5. ASSUME NEW h \in Handler, WorksOn(h, q)' PROVE JobTold(q, h)'
    <2>1. JobTold(q, h) /\ step'[h] = step[h] /\ job'[h] = job[h]
        BY <1>2, <1>5 DEF Told
    <2>2. QED
        BY <1>1, <2>1, PromptLasts DEF JobTold, Known, IsTrue, Tied, Relevant
<1>6. QED
    BY <1>3, <1>4, <1>5 DEF Told

\* A step of h about p.
LEMMA HandlerTold ==
    ASSUME NEW p \in Purchase, NEW h \in Handler, Only(h), ~Working(h) \/ WorksOn(h, p),
           \A q \in Purchase : Told(q),
           step'[h] = "idle" \/ job'[h].purchase = p, trouble \subseteq trouble',
           session' = session, truth' = truth,
           \A q \in Purchase \ {p} : row'[q] = row[q] /\ mail'[q] = mail[q],
           \A i \in DOMAIN mail'[p] : EventTold(p, mail'[p][i]),
           RowTold(p)', row[p].sub # "none" => row'[p].sub # "none",
           step'[h] # "idle" => JobTold(p, h)'
    PROVE  \A q \in Purchase : Told(q)'
<1>1. \A q \in Purchase \ {p} : Told(q)'
    BY BesideHandler, BesideTold
<1>2. \A i \in DOMAIN mail'[p] : EventTold(p, mail[p][i])'
    BY PromptLasts DEF EventTold, Known, IsTrue
<1>3. ASSUME NEW k \in Handler, WorksOn(k, p)' PROVE JobTold(p, k)'
    <2>1. CASE k = h
        BY <1>3, <2>1 DEF WorksOn, Working
    <2>2. CASE k # h
        <3>1. step'[k] = step[k] /\ job'[k] = job[k]
            BY <2>2 DEF Only
        <3>2. JobTold(p, k)
            BY <1>3, <3>1 DEF WorksOn, Working, Told
        <3>3. QED
            BY <3>1, <3>2, PromptLasts DEF JobTold, Known, IsTrue, Tied, Relevant
    <2>3. QED
        BY <2>1, <2>2
<1>4. QED
    BY <1>1, <1>2, <1>3 DEF Told

\* What is known of the purchase that a handler is about.
LEMMA JobIs ==
    ASSUME Fits, \A q \in Purchase : Told(q), NEW h \in Handler, Working(h),
           NEW p, p = job[h].purchase
    PROVE  /\ p \in Purchase /\ WorksOn(h, p) /\ Told(p) /\ RowTold(p) /\ JobTold(p, h)
           /\ job[h] \in Job /\ JobFits(h) /\ job[h].event \in Events
           /\ row[p] \in Row /\ row[p].status # "none" /\ job[h].slot = row[p].serverId
           /\ job[h].slot \in Slot
           /\ \/ /\ job[h].event.kind = "expired" /\ session[p] = "expired" /\ truth[p] = "none"
              \/ /\ job[h].event.kind \in Saving /\ session[p] = "complete" /\ truth[p] # "none"
                 /\ job[h].sub # "none"
<1>1. /\ p \in Purchase /\ job[h] \in Job /\ JobFits(h) /\ job[h].event \in Events
      /\ row[p] \in Row /\ job[h].slot \in Slot \cup {NoSlot}
    BY HandlerIs
<1>2. WorksOn(h, p) /\ Told(p) /\ RowTold(p) /\ JobTold(p, h)
    BY <1>1 DEF WorksOn, Told
<1>3. Known(p, job[h].event) /\ (job[h].event.kind \in Saving => job[h].sub # "none")
    BY <1>2 DEF JobTold
<1>4. job[h].event.kind # "abandoned"
    BY <1>3 DEF Known, Saving
<1>5. row[p].status # "none" /\ job[h].slot = row[p].serverId
    BY <1>1, <1>4 DEF JobFits
<1>6. job[h].slot \in Slot /\ (truth[p] = "none" <=> session[p] # "complete")
    BY <1>1, <1>5, RowIs DEF RowFits
<1>7. QED
    BY <1>1, <1>2, <1>3, <1>5, <1>6 DEF Known

\* Nothing is under way before its session has ended.
LEMMA OpenIsQuiet ==
    ASSUME Fits, NEW p \in Purchase, Told(p), session[p] \in {"none", "open"}
    PROVE  /\ DOMAIN mail[p] = {} /\ mail[p] = <<>> /\ \A h \in Handler : ~WorksOn(h, p)
           /\ row[p].sub = "none" /\ row[p].status \in {"none", "checkout_pending"}
<1>1. DOMAIN mail[p] = {}
    BY DEF Told, EventTold, Known
<1>2. \A h \in Handler : ~WorksOn(h, p)
    BY DEF Told, JobTold, Known
<1>3. mail[p] = <<>>
    <2>1. mail[p] \in Seq(Events)
        BY RowIs
    <2>2. DOMAIN mail[p] = 1 .. Len(mail[p]) /\ Len(mail[p]) \in Nat
        BY <2>1, LenProperties
    <2>3. Len(mail[p]) = 0
        <3>1. Len(mail[p]) # 0 => 1 \in DOMAIN mail[p]
            BY <2>2
        <3>2. QED
            BY <1>1, <3>1
    <2>4. QED
        BY <2>1, <2>3, EmptySeq
<1>4. row[p].sub = "none" /\ row[p].status \in {"none", "checkout_pending"}
    BY DEF Told, RowTold, Tied
<1>5. QED
    BY <1>1, <1>2, <1>3, <1>4

\* Checkout
LEMMA CheckoutTold ==
    ASSUME Fits, \A q \in Purchase : Told(q), NEW p \in Purchase, NEW s \in Slot, Checkout(p, s)
    PROVE  \A q \in Purchase : Told(q)'
<1>1. /\ session[p] = "none" /\ truth[p] = "none"
      /\ row'[p].status = "checkout_pending" /\ row'[p].sub = "none"
      /\ \A q \in Purchase \ {p} : row'[q] = row[q] /\ session'[q] = session[q]
      /\ truth' = truth /\ mail' = mail /\ step' = step /\ job' = job /\ trouble' = trouble
    BY CheckoutFits
<1>2. DOMAIN mail[p] = {} /\ \A h \in Handler : ~WorksOn(h, p)
    BY <1>1, OpenIsQuiet
<1>3. \A q \in Purchase \ {p} : Beside(q)
    BY <1>1 DEF Beside
<1>4. \A q \in Purchase \ {p} : Told(q)'
    BY <1>1, <1>3, BesideTold
<1>5. RowTold(p)'
    BY <1>1 DEF RowTold, Tied, Kept
<1>6. \A h \in Handler : ~WorksOn(h, p)'
    BY <1>1, <1>2 DEF WorksOn, Working
<1>7. Told(p)'
    BY <1>1, <1>2, <1>5, <1>6 DEF Told
<1>8. QED
    BY <1>4, <1>7

\* Stripe moves on about p and tells so.
LEMMA SendsTold ==
    ASSUME Fits, \A q \in Purchase : Told(q), NEW p \in Purchase, NEW events \in Seq(Events),
           mail' = [mail EXCEPT ![p] = @ \o events],
           mail[p] # <<>> \/ Occupied(p) => "lag" \in trouble',
           row' = row, step' = step, job' = job, trouble \subseteq trouble',
           NEW s, session' = [session EXCEPT ![p] = s], s = session[p] \/ session[p] = "open",
           NEW t, truth' = [truth EXCEPT ![p] = t],
           \A i \in DOMAIN events : EventTold(p, events[i])',
           row[p].sub # "none" => s = "complete",
           row[p].status = "expired" => s = "expired",
           Steady' => t # "unpaid" /\ (t \in {"active", "past_due"} => row[p].status \in Kept)
    PROVE  \A q \in Purchase : Told(q)'
<1>1. /\ session'[p] = s /\ truth'[p] = t /\ mail'[p] = mail[p] \o events
      /\ \A q \in Purchase \ {p} :
            session'[q] = session[q] /\ truth'[q] = truth[q] /\ mail'[q] = mail[q]
    BY DEF Fits, TypeOK, MailFits
<1>2. \A q \in Purchase \ {p} : Beside(q)
    BY <1>1 DEF Beside
<1>3. \A q \in Purchase \ {p} : Told(q)'
    BY <1>2, BesideTold
<1>4. RowTold(p)'
    <2>1. RowTold(p)
        BY DEF Told
    <2>2. QED
        BY <1>1, <2>1 DEF RowTold, Tied
<1>5. Prompt' => DOMAIN mail[p] = {} /\ \A h \in Handler : ~WorksOn(h, p)
    <2>1. SUFFICES ASSUME Prompt' PROVE DOMAIN mail[p] = {} /\ \A h \in Handler : ~WorksOn(h, p)
        OBVIOUS
    <2>2. mail[p] = <<>> /\ ~Occupied(p)
        BY <2>1 DEF Prompt
    <2>3. Len(mail[p]) = 0
        BY <2>2, EmptySeq, Zenon
    <2>4. DOMAIN mail[p] = 1 .. Len(mail[p])
        BY RowIs, LenProperties
    <2>5. QED
        BY <2>2, <2>3, <2>4 DEF Occupied, WorksOn
<1>6. session[p] = "open" => DOMAIN mail[p] = {} /\ \A h \in Handler : ~WorksOn(h, p)
    BY OpenIsQuiet
<1>7. \A i \in DOMAIN mail[p] : EventTold(p, mail[p][i])'
    BY <1>1, <1>5, <1>6 DEF Told, EventTold, Known
<1>8. ASSUME NEW i \in DOMAIN mail'[p] PROVE EventTold(p, mail[p][i])'
    <2>1. \/ i \in DOMAIN mail[p] /\ mail'[p][i] = mail[p][i]
          \/ i - Len(mail[p]) \in DOMAIN events /\ mail'[p][i] = events[i - Len(mail[p])]
        BY <1>1, RowIs, ConcatIs
    <2>2. QED
        BY <1>7, <2>1
<1>9. ASSUME NEW h \in Handler, WorksOn(h, p)' PROVE JobTold(p, h)'
    <2>1. WorksOn(h, p) /\ JobTold(p, h)
        BY <1>9 DEF WorksOn, Working, Told
    <2>2. ~Prompt' /\ ~Steady' /\ s = session[p]
        BY <1>5, <1>6, <2>1 DEF Steady
    <2>3. QED
        BY <1>1, <2>1, <2>2 DEF JobTold, Known
<1>10. QED
    BY <1>3, <1>4, <1>8, <1>9 DEF Told

\* Stripe sends while something is under way: that is lag.
LEMMA SendsIs ==
    ASSUME Fits, NEW p \in Purchase, NEW events, Sends(p, events)
    PROVE  /\ mail' = [mail EXCEPT ![p] = @ \o events]
           /\ mail[p] # <<>> \/ Occupied(p) => "lag" \in trouble'
           /\ row' = row /\ linked' = linked /\ slot' = slot /\ step' = step /\ job' = job
           /\ trouble \subseteq trouble' /\ trouble' \subseteq trouble \cup {"lag"}
<1>1. /\ mail' = [mail EXCEPT ![p] = @ \o events]
      /\ row' = row /\ linked' = linked /\ slot' = slot /\ step' = step /\ job' = job
      /\ Causes(IF mail[p] # <<>> \/ Occupied(p) THEN {"lag"} ELSE {})
    BY DEF Sends, handlerVars
<1>2. CASE mail[p] # <<>> \/ Occupied(p)
    <2>1. Causes({"lag"})
        BY <1>1, <1>2
    <2>2. "lag" \in trouble' /\ trouble \subseteq trouble' /\ trouble' = trouble \cup {"lag"}
        BY <2>1, CausesMore DEF Causes
    <2>3. QED
        BY <1>1, <2>2
<1>3. CASE ~(mail[p] # <<>> \/ Occupied(p))
    <2>1. Causes({})
        BY <1>1, <1>3
    <2>2. trouble' = trouble
        BY <2>1 DEF Causes
    <2>3. QED
        BY <1>1, <1>3, <2>2
<1>4. QED
    BY <1>2, <1>3

\* TurnsUnpaid sends its one event like the others.
LEMMA UnpaidIs ==
    ASSUME Fits, NEW p \in Purchase, TurnsUnpaid(p), NEW e \in Events,
           e = Event("changed", "unpaid")
    PROVE  /\ mail' = [mail EXCEPT ![p] = @ \o <<e>>]
           /\ mail[p] # <<>> \/ Occupied(p) => "lag" \in trouble'
           /\ row' = row /\ linked' = linked /\ slot' = slot /\ step' = step /\ job' = job
           /\ session' = session /\ "unpaid" \in trouble' /\ trouble \subseteq trouble'
<1>1. /\ mail' = [mail EXCEPT ![p] = Append(@, e)]
      /\ row' = row /\ linked' = linked /\ slot' = slot /\ step' = step /\ job' = job
      /\ session' = session
    BY DEF TurnsUnpaid, handlerVars
<1>2. Append(mail[p], e) = mail[p] \o <<e>>
    BY RowIs, OneMore
<1>3. PICK kinds : kinds = {"unpaid"} \cup IF mail[p] # <<>> \/ Occupied(p) THEN {"lag"} ELSE {}
    OBVIOUS
<1>4. Causes(kinds)
    BY <1>3 DEF TurnsUnpaid
<1>5. kinds \subseteq trouble' /\ trouble \subseteq trouble'
    BY <1>4, CausesMore
<1>6. "unpaid" \in kinds /\ (mail[p] # <<>> \/ Occupied(p) => "lag" \in kinds)
    BY <1>3
<1>7. QED
    BY <1>1, <1>2, <1>5, <1>6

\* The record of an event.
LEMMA EventIs ==
    ASSUME NEW kind \in EventKind, NEW sub \in Subscription
    PROVE  \E e \in Events : e = Event(kind, sub) /\ e.kind = kind /\ e.sub = sub
<1>1. /\ Event(kind, sub) \in Events
      /\ Event(kind, sub).kind = kind /\ Event(kind, sub).sub = sub
    BY DEF Event, Events
<1>2. QED
    BY <1>1

\* A sequence of two events, and of one.
LEMMA PairIs ==
    ASSUME NEW e \in Events, NEW f \in Events
    PROVE  \E events \in Seq(Events) :
                events = <<e, f>> /\ \A i \in DOMAIN events : events[i] = e \/ events[i] = f
<1>1. <<e, f>> \in Seq(Events) /\ \A i \in DOMAIN <<e, f>> : <<e, f>>[i] = e \/ <<e, f>>[i] = f
    <2>1. \A i \in DOMAIN <<e, f>> : i = 1 \/ i = 2
        BY EventsAre
    <2>2. QED
        BY <2>1, EventsAre
<1>2. QED
    BY <1>1, Zenon

\* The same for one.
LEMMA OneIs ==
    ASSUME NEW e \in Events
    PROVE  \E events \in Seq(Events) : events = <<e>> /\ \A i \in DOMAIN events : events[i] = e
<1>1. <<e>> \in Seq(Events) /\ \A i \in DOMAIN <<e>> : <<e>>[i] = e
    BY EventsAre
<1>2. QED
    BY <1>1, Zenon

\* The steps of Stripe.
LEMMA StripeTold ==
    ASSUME Fits, \A q \in Purchase : Told(q), NEW p \in Purchase, StripeStep(p)
    PROVE  \A q \in Purchase : Told(q)'
<1>1. /\ session \in [Purchase -> {"none", "open", "complete", "expired"}]
      /\ truth \in [Purchase -> Subscription]
      /\ session = [session EXCEPT ![p] = session[p]]
      /\ truth = [truth EXCEPT ![p] = truth[p]]
    BY DEF Fits, TypeOK
<1>2. /\ {"completed", "changed", "expired", "invoice_paid", "invoice_failed"} \subseteq EventKind
      /\ {"none", "active", "past_due", "unpaid", "canceled"} \subseteq Subscription
    BY DEF EventKind, Subscription
<1>3. RowTold(p) /\ (truth[p] = "none" <=> session[p] # "complete")
      /\ (row[p].status = "none" => session[p] = "none")
    BY RowIs DEF Told, RowFits
<1>4. CASE Pay(p)
    <2>1. /\ session[p] = "open" /\ truth' = [truth EXCEPT ![p] = "active"]
          /\ session' = [session EXCEPT ![p] = "complete"]
          /\ Sends(p, <<Event("completed", "none"), Event("changed", "active")>>)
        BY <1>4 DEF Pay
    <2>2. PICK e \in Events : e = Event("completed", "none") /\ e.kind = "completed"
        BY <1>2, EventIs
    <2>3. PICK f \in Events : f = Event("changed", "active") /\ f.kind = "changed" /\ f.sub = "active"
        BY <1>2, EventIs
    <2>4. Sends(p, <<e, f>>) /\ <<e, f>> \in Seq(Events)
        BY <2>1, <2>2, <2>3, EventsAre
    <2>5. session'[p] = "complete" /\ truth'[p] = "active"
        BY <1>1, <2>1
    <2>6. EventTold(p, e)' /\ EventTold(p, f)'
        BY <2>2, <2>3, <2>5 DEF EventTold, Known, IsTrue, Saving
    <2>7. \A i \in DOMAIN <<e, f>> : EventTold(p, <<e, f>>[i])'
        BY <2>6, EventsAre
    <2>8. row[p].sub = "none" /\ row[p].status = "checkout_pending"
        BY <1>3, <2>1, OpenIsQuiet
    <2>9. QED
        BY <2>1, <2>4, <2>7, <2>8, SendsIs, SendsTold DEF Kept
<1>5. CASE SessionExpires(p)
    <2>1. /\ session[p] = "open" /\ truth' = [truth EXCEPT ![p] = truth[p]]
          /\ session' = [session EXCEPT ![p] = "expired"]
          /\ Sends(p, <<Event("expired", "none")>>)
        BY <1>1, <1>5 DEF SessionExpires
    <2>2. PICK e \in Events : e = Event("expired", "none") /\ e.kind = "expired"
        BY <1>2, EventIs
    <2>3. Sends(p, <<e>>) /\ <<e>> \in Seq(Events)
        BY <2>1, <2>2, EventsAre
    <2>4. session'[p] = "expired"
        BY <1>1, <2>1
    <2>5. \A i \in DOMAIN <<e>> : EventTold(p, <<e>>[i])'
        BY <2>2, <2>4, EventsAre DEF EventTold, Known, IsTrue
    <2>6. row[p].sub = "none" /\ truth[p] = "none"
        BY <1>3, <2>1, OpenIsQuiet
    <2>7. QED
        BY <2>1, <2>3, <2>5, <2>6, SendsIs, SendsTold
<1>6. ASSUME truth[p] # "none", session' = session, NEW t \in Subscription, t # "none",
             truth' = [truth EXCEPT ![p] = t], NEW events \in Seq(Events), Sends(p, events),
             Steady => t # "unpaid" /\ (t \in {"active", "past_due"} => truth[p] \in {"active", "past_due"}),
             \A i \in DOMAIN events :
                /\ events[i].kind \in Saving
                /\ events[i].kind = "changed" => events[i].sub = t
                /\ events[i].kind = "invoice_failed" => t = "past_due"
                /\ events[i].kind \in {"completed", "invoice_paid"} => t = "active"
      PROVE  \A q \in Purchase : Told(q)'
    <2>1. session[p] = "complete" /\ session'[p] = "complete" /\ truth'[p] = t
        BY <1>1, <1>3, <1>6
    <2>2. \A i \in DOMAIN events : EventTold(p, events[i])'
        BY <1>6, <2>1 DEF EventTold, Known, IsTrue
    <2>3. session' = [session EXCEPT ![p] = "complete"]
        BY <1>1, <1>6, <2>1
    <2>4. row[p].status # "expired"
        BY <1>3, <2>1 DEF RowTold
    <2>5. Steady' => t # "unpaid" /\ (t \in {"active", "past_due"} => row[p].status \in Kept)
        <3>1. trouble \subseteq trouble'
            BY <1>6, SendsIs
        <3>2. QED
            BY <1>3, <1>6, <3>1, PromptLasts DEF RowTold
    <2>6. QED
        BY <1>6, <2>1, <2>2, <2>3, <2>4, <2>5, SendsIs, SendsTold
<1>7. CASE RenewalFails(p)
    <2>1. /\ truth[p] = "active" /\ truth' = [truth EXCEPT ![p] = "past_due"] /\ session' = session
          /\ Sends(p, <<Event("invoice_failed", "none"), Event("changed", "past_due")>>)
        BY <1>7 DEF RenewalFails
    <2>2. PICK e \in Events : e = Event("invoice_failed", "none") /\ e.kind = "invoice_failed"
        BY <1>2, EventIs
    <2>3. PICK f \in Events :
                f = Event("changed", "past_due") /\ f.kind = "changed" /\ f.sub = "past_due"
        BY <1>2, EventIs
    <2>4. Sends(p, <<e, f>>) /\ <<e, f>> \in Seq(Events)
        BY <2>1, <2>2, <2>3, EventsAre
    <2>5. PICK events \in Seq(Events) :
                events = <<e, f>> /\ \A i \in DOMAIN events : events[i] = e \/ events[i] = f
        BY PairIs
    <2>6. \A i \in DOMAIN events :
            /\ events[i].kind \in Saving
            /\ events[i].kind = "changed" => events[i].sub = "past_due"
            /\ events[i].kind \notin {"completed", "invoice_paid"}
        BY <2>2, <2>3, <2>5 DEF Saving
    <2>7. QED
        BY <1>2, <1>6, <2>1, <2>4, <2>5, <2>6
<1>8. CASE RenewalSucceeds(p)
    <2>1. /\ truth[p] \in {"past_due", "unpaid"} /\ truth' = [truth EXCEPT ![p] = "active"]
          /\ session' = session
          /\ Sends(p, <<Event("invoice_paid", "none"), Event("changed", "active")>>)
        BY <1>8 DEF RenewalSucceeds
    <2>2. PICK e \in Events : e = Event("invoice_paid", "none") /\ e.kind = "invoice_paid"
        BY <1>2, EventIs
    <2>3. PICK f \in Events :
                f = Event("changed", "active") /\ f.kind = "changed" /\ f.sub = "active"
        BY <1>2, EventIs
    <2>4. Sends(p, <<e, f>>) /\ <<e, f>> \in Seq(Events)
        BY <2>1, <2>2, <2>3, EventsAre
    <2>5. Steady => truth[p] = "past_due"
        BY <1>3, <2>1 DEF RowTold
    <2>6. PICK events \in Seq(Events) :
                events = <<e, f>> /\ \A i \in DOMAIN events : events[i] = e \/ events[i] = f
        BY PairIs
    <2>7. \A i \in DOMAIN events :
            /\ events[i].kind \in Saving
            /\ events[i].kind = "changed" => events[i].sub = "active"
            /\ events[i].kind # "invoice_failed"
        BY <2>2, <2>3, <2>6 DEF Saving
    <2>8. QED
        BY <1>2, <1>6, <2>1, <2>4, <2>5, <2>6, <2>7
<1>9. CASE Ends(p)
    <2>1. /\ truth[p] # "none" /\ truth' = [truth EXCEPT ![p] = "canceled"] /\ session' = session
          /\ Sends(p, <<Event("changed", "canceled")>>)
        BY <1>9 DEF Ends
    <2>2. PICK e \in Events :
                e = Event("changed", "canceled") /\ e.kind = "changed" /\ e.sub = "canceled"
        BY <1>2, EventIs
    <2>3. Sends(p, <<e>>) /\ <<e>> \in Seq(Events)
        BY <2>1, <2>2, EventsAre
    <2>4. PICK events \in Seq(Events) : events = <<e>> /\ \A i \in DOMAIN events : events[i] = e
        BY OneIs
    <2>5. \A i \in DOMAIN events : events[i].kind = "changed" /\ events[i].sub = "canceled"
        BY <2>2, <2>4
    <2>6. \A i \in DOMAIN events :
            /\ events[i].kind \in Saving
            /\ events[i].kind = "changed" => events[i].sub = "canceled"
            /\ events[i].kind \notin {"invoice_failed", "completed", "invoice_paid"}
        BY <2>5 DEF Saving
    <2>7. Sends(p, events) /\ events \in Seq(Events)
        BY <2>3, <2>4
    <2>8. QED
        BY <1>2, <1>6, <2>1, <2>6, <2>7
<1>10. CASE TurnsUnpaid(p)
    <2>1. truth[p] # "none" /\ truth' = [truth EXCEPT ![p] = "unpaid"]
        BY <1>10 DEF TurnsUnpaid
    <2>2. PICK e \in Events :
                e = Event("changed", "unpaid") /\ e.kind = "changed" /\ e.sub = "unpaid"
        BY <1>2, EventIs
    <2>3. /\ mail' = [mail EXCEPT ![p] = @ \o <<e>>]
          /\ mail[p] # <<>> \/ Occupied(p) => "lag" \in trouble'
          /\ row' = row /\ step' = step /\ job' = job
          /\ session' = session /\ "unpaid" \in trouble' /\ trouble \subseteq trouble'
        BY <1>10, <2>2, UnpaidIs
    <2>4. session[p] = "complete" /\ session'[p] = "complete" /\ truth'[p] = "unpaid"
          /\ session' = [session EXCEPT ![p] = "complete"]
        BY <1>1, <1>3, <2>1, <2>3
    <2>5. \A i \in DOMAIN <<e>> : EventTold(p, <<e>>[i])'
        BY <2>2, <2>4, EventsAre DEF EventTold, Known, IsTrue, Saving
    <2>6. ~Steady' /\ row[p].status # "expired" /\ <<e>> \in Seq(Events)
        BY <1>3, <2>3, <2>4, EventsAre DEF Steady, RowTold
    <2>7. QED
        BY <2>1, <2>3, <2>4, <2>5, <2>6, SendsTold
<1>11. QED
    BY <1>4, <1>5, <1>7, <1>8, <1>9, <1>10 DEF StripeStep

\* Receive: the event is in hand now.
LEMMA ReceiveTold ==
    ASSUME Fits, \A q \in Purchase : Told(q), NEW h \in Handler, NEW p \in Purchase, NEW i,
           Receive(h, p, i)
    PROVE  \A q \in Purchase : Told(q)'
<1>1. /\ ~Working(h) /\ Only(h)
      /\ step'[h] = "read" /\ job'[h].purchase = p /\ job'[h].event = mail[p][i]
      /\ i \in 1 .. Len(mail[p]) /\ i \in DOMAIN mail[p]
      /\ job'[h].sub = IF mail[p][i].kind = "changed" THEN mail[p][i].sub ELSE truth[p]
    BY ReceiveFits
<1>2. /\ row' = row /\ session' = session /\ truth' = truth /\ trouble \subseteq trouble'
      /\ mail' = [mail EXCEPT ![p] = RemoveAt(@, i)] /\ job'[h].mailed
    BY CausesMore DEF Receive, Begins, Fits
<1>3. mail'[p] = RemoveAt(mail[p], i) /\ \A q \in Purchase \ {p} : mail'[q] = mail[q]
    BY <1>2 DEF Fits, MailFits
<1>4. PICK f \in [DOMAIN mail'[p] -> DOMAIN mail[p] \ {i}] :
            \A j \in DOMAIN mail'[p] : mail'[p][j] = mail[p][f[j]]
    <2>1. mail[p] \in Seq(Events)
        BY RowIs
    <2>2. QED
        BY <1>1, <1>3, <2>1, RemovedIs
<1>5. Told(p) /\ RowTold(p) /\ EventTold(p, mail[p][i])
    BY <1>1 DEF Told
<1>6. \A j \in DOMAIN mail'[p] : EventTold(p, mail'[p][j])
    BY <1>4, <1>5 DEF Told
<1>7. RowTold(p)'
    BY <1>2, <1>5, PromptLasts DEF RowTold
<1>8. truth[p] = "none" <=> session[p] # "complete"
    BY RowIs DEF RowFits
<1>9. JobTold(p, h)'
    BY <1>1, <1>2, <1>5, <1>8, PromptLasts DEF JobTold, EventTold, Known, IsTrue, Saving
<1>10. QED
    BY <1>1, <1>2, <1>3, <1>6, <1>7, <1>9, HandlerTold

\* Visit: what the session page finds at Stripe.
LEMMA VisitTold ==
    ASSUME Fits, \A q \in Purchase : Told(q), NEW h \in Handler, NEW p \in Purchase, Visit(h, p)
    PROVE  \A q \in Purchase : Told(q)'
<1>1. /\ ~Working(h) /\ Only(h) /\ step'[h] = "read" /\ job'[h].purchase = p
      /\ job'[h].event.kind = IF session[p] = "complete" THEN "completed" ELSE "expired"
      /\ job'[h].sub = truth[p] /\ session[p] \in {"complete", "expired"} /\ "visit" \in trouble'
    BY VisitFits
<1>2. /\ row' = row /\ session' = session /\ truth' = truth /\ mail' = mail
      /\ trouble \subseteq trouble' /\ ~job'[h].mailed
    BY CausesMore DEF Visit, Begins, stripeVars, Fits
<1>3. Told(p) /\ RowTold(p)
    BY DEF Told
<1>4. RowTold(p)'
    BY <1>2, <1>3, PromptLasts DEF RowTold
<1>5. truth[p] = "none" <=> session[p] # "complete"
    BY RowIs DEF RowFits
<1>6. JobTold(p, h)'
    BY <1>1, <1>2, <1>5, PromptLasts DEF JobTold, Known, Saving
<1>7. \A i \in DOMAIN mail'[p] : EventTold(p, mail'[p][i])
    BY <1>2, <1>3 DEF Told
<1>8. QED
    BY <1>1, <1>2, <1>4, <1>6, <1>7, HandlerTold

\* An event that Stripe waits for an answer to may be sent again.
LEMMA JobEventTold ==
    ASSUME NEW p, NEW h, JobTold(p, h), job[h].mailed
    PROVE  EventTold(p, job[h].event)
BY DEF JobTold, EventTold

\* Repeat
LEMMA RepeatTold ==
    ASSUME Fits, \A q \in Purchase : Told(q), NEW h \in Handler, Repeat(h)
    PROVE  \A q \in Purchase : Told(q)'
<1>1. PICK p : p = job[h].purchase
    OBVIOUS
<1>2. /\ row' = row /\ session' = session /\ truth' = truth /\ step' = step /\ job' = job
      /\ Working(h) /\ job[h].mailed /\ trouble \subseteq trouble'
    BY RepeatFits, CausesMore DEF Repeat
<1>3. p \in Purchase /\ job[h].event \in Events /\ JobTold(p, h) /\ Told(p)
    BY <1>1, <1>2, JobIs
<1>4. PICK e \in Events : e = job[h].event
    BY <1>3
<1>5. mail' = [mail EXCEPT ![p] = Append(@, e)]
    BY <1>1, <1>4 DEF Repeat
<1>6. mail'[p] = mail[p] \o <<e>> /\ \A q \in Purchase \ {p} : mail'[q] = mail[q]
    <2>1. mail'[p] = Append(mail[p], e) /\ \A q \in Purchase \ {p} : mail'[q] = mail[q]
        BY <1>3, <1>5 DEF Fits, MailFits
    <2>2. QED
        BY <1>3, <2>1, RowIs, OneMore
<1>7. EventTold(p, e) /\ \A i \in DOMAIN mail[p] : EventTold(p, mail[p][i])
    BY <1>2, <1>3, <1>4, JobEventTold DEF Told
<1>8. \A i \in DOMAIN mail'[p] : EventTold(p, mail'[p][i])
    <2>1. <<e>> \in Seq(Events) /\ DOMAIN <<e>> = {1} /\ <<e>>[1] = e /\ mail[p] \in Seq(Events)
        BY <1>3, RowIs, OneMore
    <2>2. \A i \in DOMAIN mail'[p] :
            \/ i \in DOMAIN mail[p] /\ mail'[p][i] = mail[p][i]
            \/ i - Len(mail[p]) \in DOMAIN <<e>> /\ mail'[p][i] = <<e>>[i - Len(mail[p])]
        BY <1>6, <2>1, ConcatIs
    <2>3. \A i \in DOMAIN mail'[p] :
            mail'[p][i] = e \/ \E j \in DOMAIN mail[p] : mail'[p][i] = mail[p][j]
        BY <2>1, <2>2
    <2>4. QED
        BY <1>7, <2>3
<1>9. RowTold(p)' /\ JobTold(p, h)'
    BY <1>2, <1>3, PromptLasts DEF Told, RowTold, Tied, JobTold, Known, IsTrue, Relevant
<1>10. QED
    BY <1>1, <1>2, <1>3, <1>6, <1>8, <1>9, HandlerTold DEF WorksOn, Only

\* Dies: the event waits again.
LEMMA DiesTold ==
    ASSUME Fits, \A q \in Purchase : Told(q), NEW h \in Handler, Dies(h)
    PROVE  \A q \in Purchase : Told(q)'
<1>1. PICK p : p = job[h].purchase
    OBVIOUS
<1>2. /\ Working(h) /\ Only(h) /\ p \in Purchase
      /\ row' = row /\ session' = session
      /\ truth' = truth /\ trouble \subseteq trouble' /\ step'[h] = "idle"
      /\ \A q \in Purchase \ {p} : mail'[q] = mail[q]
      /\ IF job[h].mailed
         THEN /\ job[h].event \in Events /\ mail'[p] = <<job[h].event>> \o mail[p]
              /\ <<job[h].event>> \in Seq(Events)
              /\ DOMAIN <<job[h].event>> = {1} /\ <<job[h].event>>[1] = job[h].event
         ELSE mail'[p] = mail[p]
    BY <1>1, DiesFits
<1>3. JobTold(p, h) /\ Told(p) /\ WorksOn(h, p) /\ RowTold(p)
    BY <1>1, <1>2, JobIs
<1>4. \A i \in DOMAIN mail[p] : EventTold(p, mail[p][i])
    BY <1>3 DEF Told
<1>5. \A i \in DOMAIN mail'[p] : EventTold(p, mail'[p][i])
    <2>1. CASE ~job[h].mailed
        BY <1>2, <1>4, <2>1
    <2>2. CASE job[h].mailed
        <3>1. PICK e \in Events : e = job[h].event
            BY <1>2, <2>2
        <3>2. mail'[p] = <<e>> \o mail[p] /\ <<e>> \in Seq(Events) /\ DOMAIN <<e>> = {1} /\ <<e>>[1] = e
            BY <1>2, <2>2, <3>1
        <3>3. mail[p] \in Seq(Events)
            BY <1>2, RowIs
        <3>4. \A i \in DOMAIN mail'[p] :
                mail'[p][i] = e \/ \E j \in DOMAIN mail[p] : mail'[p][i] = mail[p][j]
            <4>1. \A i \in DOMAIN mail'[p] :
                    \/ i \in DOMAIN <<e>> /\ mail'[p][i] = <<e>>[i]
                    \/ i - Len(<<e>>) \in DOMAIN mail[p] /\ mail'[p][i] = mail[p][i - Len(<<e>>)]
                BY <3>2, <3>3, ConcatIs
            <4>2. QED
                BY <3>2, <4>1
        <3>5. EventTold(p, e)
            BY <1>3, <2>2, <3>1, JobEventTold
        <3>6. QED
            BY <1>4, <3>4, <3>5
    <2>3. QED
        BY <2>1, <2>2
<1>6. RowTold(p)'
    BY <1>2, <1>3, PromptLasts DEF RowTold, Tied
<1>7. QED
    BY <1>2, <1>3, <1>5, <1>6, HandlerTold

\* Read
LEMMA ReadTold ==
    ASSUME Fits, \A q \in Purchase : Told(q), NEW h \in Handler, Read(h)
    PROVE  \A q \in Purchase : Told(q)'
<1>1. PICK p : p = job[h].purchase
    OBVIOUS
<1>2. /\ Working(h) /\ step[h] = "read" /\ Only(h) /\ p \in Purchase
      /\ row' = row /\ session' = session
      /\ truth' = truth /\ mail' = mail /\ trouble' = trouble
      /\ \/ step'[h] = "idle" /\ job'[h] = <<>>
         \/ job[h].event.kind = "abandoned"
         \/ /\ step'[h] = "save"
            /\ Relevant(job[h].event.kind, row[p])
            /\ job'[h].event = job[h].event /\ job'[h].purchase = p
            /\ job'[h].sub = job[h].sub
            /\ job'[h].mailed = job[h].mailed /\ job'[h].seen = row[p]
    BY <1>1, ReadFits
<1>3. JobTold(p, h) /\ Told(p) /\ WorksOn(h, p) /\ RowTold(p) /\ job[h].event.kind # "abandoned"
    BY <1>1, <1>2, JobIs DEF Saving
<1>4. \A i \in DOMAIN mail'[p] : EventTold(p, mail'[p][i])
    BY <1>2, <1>3 DEF Told
<1>5. RowTold(p)'
    BY <1>2, <1>3, PromptLasts DEF RowTold, Tied
<1>6. ASSUME step'[h] # "idle" PROVE JobTold(p, h)'
    <2>1. /\ step'[h] = "save"
          /\ Relevant(job[h].event.kind, row[p])
          /\ job'[h].event = job[h].event
          /\ job'[h].sub = job[h].sub
          /\ job'[h].mailed = job[h].mailed /\ job'[h].seen = row[p]
        BY <1>2, <1>3, <1>6
    <2>2. job[h].event.kind \in Saving \ {"completed"} => row[p].sub # "none"
        BY <2>1, RelevantIs
    <2>3. Tied(row[p])
        BY <1>3 DEF RowTold
    <2>4. Steady /\ truth[p] \in {"active", "past_due"} => row[p].status \in Kept
        BY <1>3 DEF RowTold
    <2>5. Relevant(job[h].event.kind, row[p])' <=> Relevant(job[h].event.kind, row[p])
        BY <1>2, <2>1 DEF Relevant
    <2>6. QED
        BY <1>2, <1>3, <2>1, <2>2, <2>3, <2>4, PromptLasts DEF JobTold, Known, IsTrue, Relevant, Tied
<1>7. QED
    BY <1>2, <1>3, <1>4, <1>5, <1>6, HandlerTold

\* Of a paid row and of a row that follows Stripe.
LEMMA DebtIs ==
    ASSUME NEW r \in Row, NEW kind, NEW sub
    PROVE  /\ ~PaidRow(r, sub).delinquent
           /\ SyncedRow(r, kind, sub).delinquent <=>
                IF kind \in {"invoice_failed", "invoice_paid"} THEN kind = "invoice_failed"
                ELSE sub \in DelinquentSubscription
BY DEF PaidRow, SyncedRow, Row

\* What a handler has read before it saves, and what it knows of Stripe.
LEMMA SaverIs ==
    ASSUME Fits, \A q \in Purchase : Told(q), NEW h \in Handler, step[h] = "save",
           NEW p, p = job[h].purchase, NEW kind, kind = job[h].event.kind, kind \in Saving
    PROVE  /\ session[p] = "complete" /\ truth[p] # "none" /\ job[h].sub # "none"
           /\ job[h].seen.status \in
                IF kind = "completed" THEN {"checkout_pending", "paid", "completed"}
                ELSE {"paid", "completed", "cancelled"}
           /\ Tied(job[h].seen)
           /\ Prompt => job[h].sub = truth[p]
           /\ Steady /\ truth[p] \in {"active", "past_due"} => job[h].seen.status \in Kept
           /\ kind = "changed" => job[h].sub = job[h].event.sub
           /\ kind # "completed" => job[h].mailed
           /\ "visit" \notin trouble => job[h].mailed
           /\ Prompt /\ job[h].mailed => IsTrue(p, job[h].event)
<1>1. Working(h) /\ JobTold(p, h) /\ session[p] = "complete" /\ truth[p] # "none"
      /\ job[h].sub # "none"
    BY JobIs DEF Working, Saving
<1>2. Tied(job[h].seen) /\ Relevant(kind, job[h].seen)
    BY <1>1 DEF JobTold
<1>3. job[h].seen.status \in PurchaseStatus \cup {"none"}
    BY <1>1, HandlerIs DEF Row
<1>4. IF kind = "completed" THEN job[h].seen.status \notin {"none", "cancelled", "expired"}
      ELSE job[h].seen.sub # "none"
    BY <1>2, RelevantIs
<1>5. job[h].seen.status \in
                IF kind = "completed" THEN {"checkout_pending", "paid", "completed"}
                ELSE {"paid", "completed", "cancelled"}
    BY <1>2, <1>3, <1>4 DEF Tied, PurchaseStatus
<1>6. /\ Prompt => job[h].sub = truth[p]
      /\ Steady /\ truth[p] \in {"active", "past_due"} => job[h].seen.status \in Kept
      /\ kind = "changed" => job[h].sub = job[h].event.sub
      /\ kind # "completed" => job[h].mailed
      /\ "visit" \notin trouble => job[h].mailed
      /\ Prompt /\ job[h].mailed => IsTrue(p, job[h].event)
    BY <1>1 DEF JobTold, Saving
<1>7. QED
    BY <1>1, <1>2, <1>5, <1>6

\* SavePaid
LEMMA SavePaidTold ==
    ASSUME Fits, \A q \in Purchase : Told(q), NEW h \in Handler, SavePaid(h)
    PROVE  \A q \in Purchase : Told(q)'
<1>1. PICK p : p = job[h].purchase
    OBVIOUS
<1>2. /\ Working(h) /\ step[h] = "save" /\ Only(h) /\ p \in Purchase
      /\ job[h].event.kind = "completed" /\ job[h].seen \in Row
      /\ session' = session /\ truth' = truth /\ mail' = mail
      /\ trouble' = trouble /\ step'[h] = "idle"
      /\ row'[p] = PaidRow(job[h].seen, job[h].sub)
      /\ \A q \in Purchase \ {p} : row'[q] = row[q]
    BY <1>1, SavePaidFits
<1>3. Told(p) /\ RowTold(p) /\ WorksOn(h, p)
    BY <1>1, <1>2, JobIs
<1>4. /\ session[p] = "complete" /\ job[h].sub # "none"
      /\ job[h].seen.status \in {"checkout_pending", "paid", "completed"}
    BY <1>1, <1>2, SaverIs DEF Saving
<1>5. row'[p].status \in {"paid", "completed"} /\ row'[p].sub = job[h].sub
    BY <1>2, <1>4, PaidIs
<1>6. RowTold(p)'
    BY <1>2, <1>3, <1>4, <1>5, PromptLasts DEF RowTold, Tied, Kept
<1>7. \A i \in DOMAIN mail'[p] : EventTold(p, mail'[p][i])
    BY <1>2, <1>3 DEF Told
<1>8. QED
    BY <1>2, <1>3, <1>4, <1>5, <1>6, <1>7, HandlerTold

\* SaveSubscription
LEMMA SaveSubscriptionTold ==
    ASSUME Fits, \A q \in Purchase : Told(q), NEW h \in Handler, SaveSubscription(h)
    PROVE  \A q \in Purchase : Told(q)'
<1>1. PICK p : p = job[h].purchase
    OBVIOUS
<1>2. PICK kind : kind = job[h].event.kind
    OBVIOUS
<1>3. /\ Working(h) /\ step[h] = "save" /\ Only(h) /\ p \in Purchase
      /\ kind \in {"changed", "invoice_paid", "invoice_failed"} /\ job[h].seen \in Row
      /\ session' = session /\ truth' = truth /\ mail' = mail
      /\ trouble' = trouble
      /\ row'[p] = SyncedRow(job[h].seen, kind, job[h].sub)
      /\ \A q \in Purchase \ {p} : row'[q] = row[q]
      /\ (step'[h] # "idle" => job'[h] = job[h] /\ step'[h] \notin {"read", "save"})
    BY <1>1, <1>2, SaveSubscriptionFits
<1>4. Told(p) /\ RowTold(p) /\ JobTold(p, h) /\ WorksOn(h, p)
    BY <1>1, <1>3, JobIs
<1>5. /\ session[p] = "complete" /\ truth[p] # "none" /\ job[h].sub # "none"
      /\ job[h].seen.status \in {"paid", "completed", "cancelled"}
      /\ Prompt => job[h].sub = truth[p]
      /\ Steady /\ truth[p] \in {"active", "past_due"} => job[h].seen.status \in Kept
    BY <1>1, <1>2, <1>3, SaverIs DEF Saving
<1>6. /\ row'[p].status = IF job[h].sub \in TerminalSubscription /\ job[h].seen.status = "paid"
                          THEN "cancelled" ELSE job[h].seen.status
      /\ row'[p].sub = job[h].sub
    BY <1>3, <1>5, SyncedIs
<1>7. RowTold(p)'
    <2>1. Tied(row[p])' /\ row'[p].status # "expired"
        BY <1>5, <1>6 DEF Tied
    <2>2. Steady /\ truth[p] \in {"active", "past_due"} => row'[p].status \in Kept
        BY <1>5, <1>6 DEF Steady, TerminalSubscription
    <2>3. QED
        BY <1>3, <1>4, <1>5, <1>6, <2>1, <2>2, PromptLasts DEF RowTold
<1>8. \A i \in DOMAIN mail'[p] : EventTold(p, mail'[p][i])
    BY <1>3, <1>4 DEF Told
<1>9. step'[h] # "idle" => JobTold(p, h)'
    BY <1>2, <1>3, <1>4, <1>5, <1>6, PromptLasts DEF JobTold, Known, IsTrue
<1>10. step'[h] = "idle" \/ job'[h].purchase = p
    BY <1>1, <1>3
<1>11. QED
    BY <1>3, <1>4, <1>5, <1>6, <1>7, <1>8, <1>9, <1>10, HandlerTold

\* CloseIfPending
LEMMA CloseTold ==
    ASSUME Fits, \A q \in Purchase : Told(q), NEW h \in Handler, CloseIfPending(h)
    PROVE  \A q \in Purchase : Told(q)'
<1>1. PICK p : p = job[h].purchase
    OBVIOUS
<1>2. /\ Working(h) /\ step[h] = "save" /\ Only(h) /\ p \in Purchase
      /\ job[h].event.kind \in {"expired", "abandoned"}
      /\ session' = session /\ truth' = truth /\ mail' = mail
      /\ trouble' = trouble /\ \A q \in Purchase \ {p} : row'[q] = row[q]
      /\ IF row[p].status = "checkout_pending"
         THEN /\ row'[p].status = IF job[h].event.kind = "expired" THEN "expired"
                                  ELSE "cancelled"
              /\ row'[p].sub = row[p].sub
         ELSE row'[p] = row[p]
      /\ (step'[h] # "idle" => job'[h] = job[h] /\ step'[h] \notin {"read", "save"})
    BY <1>1, CloseFits
<1>3. /\ Told(p) /\ RowTold(p) /\ JobTold(p, h) /\ WorksOn(h, p)
      /\ job[h].event.kind = "expired" /\ session[p] = "expired" /\ truth[p] = "none"
    BY <1>1, <1>2, JobIs DEF Saving
<1>4. RowTold(p)'
    BY <1>2, <1>3, PromptLasts DEF RowTold, Tied
<1>5. row'[p].sub = row[p].sub
    BY <1>2
<1>6. \A i \in DOMAIN mail'[p] : EventTold(p, mail'[p][i])
    BY <1>2, <1>3 DEF Told
<1>7. step'[h] # "idle" => JobTold(p, h)'
    BY <1>2, <1>3, <1>5, PromptLasts DEF JobTold, Known, IsTrue, Saving
<1>8. step'[h] = "idle" \/ job'[h].purchase = p
    BY <1>1, <1>2
<1>9. QED
    BY <1>2, <1>3, <1>4, <1>5, <1>6, <1>7, <1>8, HandlerTold

\* Release and Reallocate
LEMMA SlotStepTold ==
    ASSUME Fits, \A q \in Purchase : Told(q), NEW h \in Handler, Release(h) \/ Reallocate(h)
    PROVE  \A q \in Purchase : Told(q)'
<1>1. PICK p : p = job[h].purchase
    OBVIOUS
<1>2. /\ Working(h) /\ Only(h) /\ p \in Purchase
      /\ row' = row /\ session' = session /\ truth' = truth /\ mail' = mail
      /\ trouble' = trouble /\ step'[h] = "idle"
    BY <1>1, SlotStepFits
<1>3. Told(p) /\ RowTold(p) /\ WorksOn(h, p)
    BY <1>1, <1>2, JobIs
<1>4. RowTold(p)'
    BY <1>2, <1>3, PromptLasts DEF RowTold, Tied
<1>5. \A i \in DOMAIN mail'[p] : EventTold(p, mail'[p][i])
    BY <1>2, <1>3 DEF Told
<1>6. QED
    BY <1>2, <1>3, <1>4, <1>5, HandlerTold

\* What the worker and the operator do.
LEMMA DeskIs ==
    ASSUME Fits, NEW p \in Purchase, Provision(p) \/ ReleaseReady(p) \/ Suspend(p)
    PROVE  /\ \A q \in Purchase \ {p} : row'[q] = row[q]
           /\ row[p].serverId \in Slot /\ row'[p].serverId = row[p].serverId
           /\ row'[p].sub = row[p].sub /\ row'[p].delinquent = row[p].delinquent
           /\ row[p].status \in {"paid", "completed"} /\ row'[p].status \in {"paid", "completed"}
           /\ row[p].status = "completed" => row[p].sub \notin TerminalSubscription
           /\ row'[p].status = "paid" => row[p].status = "paid"
           /\ Live(p)
           /\ session' = session /\ truth' = truth /\ mail' = mail
           /\ step' = step /\ job' = job /\ trouble \subseteq trouble'
           /\ OverlapOn(p) \subseteq trouble'
           /\ \A s \in Slot \ {row[p].serverId} : slot'[s] = slot[s]
           /\ \A q \in Purchase \ {p} : Beside(q)
<1>1. row[p] \in Row
    BY RowIs
<1>2. /\ \A q \in Purchase \ {p} : row'[q] = row[q]
      /\ row[p].serverId \in Slot /\ row'[p].serverId = row[p].serverId
      /\ row'[p].sub = row[p].sub
      /\ session' = session /\ truth' = truth /\ mail' = mail
      /\ step' = step /\ job' = job /\ trouble \subseteq trouble'
      /\ OverlapOn(p) \subseteq trouble'
    BY ProvisionFits, ReadyFits, SuspendFits
<1>3. /\ row[p].status \in {"paid", "completed"} /\ row'[p].status \in {"paid", "completed"}
      /\ row[p].status = "completed" => row[p].sub \notin TerminalSubscription
      /\ row'[p].status = "paid" => row[p].status = "paid"
    BY ProvisionFits, ReadyFits, SuspendFits
<1>4. row'[p].delinquent = row[p].delinquent
    <2>1. CASE Provision(p)
        BY <1>1, <2>1, ProvisionFits DEF Row
    <2>2. CASE ReleaseReady(p) \/ Suspend(p)
        BY <2>2, ReadyFits, SuspendFits
    <2>3. QED
        BY <2>1, <2>2
<1>5. \A s \in Slot \ {row[p].serverId} : slot'[s] = slot[s]
    BY ProvisionFits, ReadyFits, SuspendFits
<1>6. \A q \in Purchase \ {p} : Beside(q)
    BY <1>2 DEF Beside
<1>7. Live(p)
    BY <1>3 DEF Live
<1>8. QED
    BY <1>2, <1>3, <1>4, <1>5, <1>6, <1>7

\* The worker and the operator
LEMMA DeskTold ==
    ASSUME Fits, \A q \in Purchase : Told(q), NEW p \in Purchase,
           Provision(p) \/ ReleaseReady(p) \/ Suspend(p)
    PROVE  \A q \in Purchase : Told(q)'
<1>1. /\ row'[p].sub = row[p].sub
      /\ row[p].status \in {"paid", "completed"} /\ row'[p].status \in {"paid", "completed"}
      /\ session' = session /\ truth' = truth /\ mail' = mail
      /\ step' = step /\ job' = job /\ trouble \subseteq trouble'
      /\ \A q \in Purchase \ {p} : Beside(q)
    BY DeskIs
<1>2. \A q \in Purchase \ {p} : Told(q)'
    BY <1>1, BesideTold
<1>3. Told(p) /\ RowTold(p)
    BY DEF Told
<1>4. RowTold(p)'
    BY <1>1, <1>3, PromptLasts DEF RowTold, Tied, Kept
<1>5. ASSUME NEW i \in DOMAIN mail'[p] PROVE EventTold(p, mail[p][i])'
    BY <1>1, <1>3, <1>5, PromptLasts DEF Told, EventTold, Known, IsTrue
<1>6. ASSUME NEW h \in Handler, WorksOn(h, p)' PROVE JobTold(p, h)'
    <2>1. JobTold(p, h)
        BY <1>1, <1>3, <1>6 DEF Told, WorksOn, Working
    <2>2. QED
        BY <1>1, <2>1, PromptLasts DEF JobTold, Known, IsTrue, Tied, Relevant
<1>7. QED
    BY <1>2, <1>4, <1>5, <1>6 DEF Told

\* Every step but the clean-up of a checkout and the edit.
LEMMA NextTold ==
    ASSUME Fits, \A q \in Purchase : Told(q), Next, trouble' \cap {"failure", "override"} = {}
    PROVE  \A q \in Purchase : Told(q)'
<1>1. CASE \E p \in Purchase, s \in Slot : Checkout(p, s)
    BY <1>1, CheckoutTold
<1>2. CASE \E p \in Purchase, s \in Slot, h \in Handler : CheckoutFails(h, p, s)
    BY <1>2, FailureFits
<1>3. CASE \E p \in Purchase : StripeStep(p)
    BY <1>3, StripeTold
<1>4. CASE \E p \in Purchase : Provision(p) \/ ReleaseReady(p) \/ Suspend(p)
    BY <1>4, DeskTold
<1>5. CASE \E p \in Purchase, newStatus \in PurchaseStatus, newSlot \in ServerStatus,
                access \in {"keep", "suspend", "reinstate"} :
                Override(p, newStatus, newSlot, access)
    BY <1>5, OverrideFits
<1>6. CASE \E h \in Handler, p \in Purchase :
                Visit(h, p) \/ \E i \in 1 .. MaxMail : Receive(h, p, i)
    BY <1>6, VisitTold, ReceiveTold
<1>7. CASE \E h \in Handler : Read(h) \/ SavePaid(h) \/ SaveSubscription(h) \/ CloseIfPending(h)
    BY <1>7, ReadTold, SavePaidTold, SaveSubscriptionTold, CloseTold
<1>8. CASE \E h \in Handler : Release(h) \/ Reallocate(h) \/ Dies(h) \/ Repeat(h)
    BY <1>8, SlotStepTold, DiesTold, RepeatTold
<1>9. QED
    BY <1>1, <1>2, <1>3, <1>4, <1>5, <1>6, <1>7, <1>8 DEF Next, HandlerStep

(***************************************************************************)
(* What Stripe knows reaches the row                                       *)
(***************************************************************************)

\* No clean-up and no edit; and a handler that dies is one whose event comes again.
Gentle == trouble \cap {"failure", "override"} = {} /\ ~({"crash", "visit"} \subseteq trouble)

\* The trouble after which no slot leaks.
Tame == OnlyOneOf(Trouble \ {"crash", "failure", "override"})

\* One of the events waits, or a handler has one in hand that it has not saved yet.
Outstanding(p, E) ==
    \/ \E i \in DOMAIN mail[p] : mail[p][i] \in E
    \/ \E h \in Handler : WorksOn(h, p) /\ step[h] \in {"read", "save"} /\ job[h].event \in E

Savings == {e \in Events : e.kind \in Saving}
Completions == {e \in Events : e.kind = "completed"}
Overs == {e \in Events : e.kind = "changed" /\ e.sub \in TerminalSubscription}

\* The row is what the subscription asks for.
Agrees(p) ==
    /\ row[p].sub = truth[p]
    /\ row[p].delinquent <=> truth[p] \in DelinquentSubscription
    /\ truth[p] \notin TerminalSubscription => row[p].status \in {"paid", "completed"}
    /\ truth[p] \in TerminalSubscription => ~Live(p)

\* The first payment is not forgotten,
Arrives(p) == truth[p] # "none" /\ row[p].sub = "none" => Outstanding(p, Completions)

\* nor what came after it,
Followed(p) == truth[p] # "none" => Agrees(p) \/ Outstanding(p, Savings)

\* nor the end.
EndComes(p) ==
    /\ truth[p] \in TerminalSubscription => row[p].sub # "none"
    /\ truth[p] \in TerminalSubscription /\ row[p].sub \notin TerminalSubscription =>
            Outstanding(p, Overs)
    /\ row[p].status = "paid" /\ row[p].sub \in TerminalSubscription =>
            truth[p] = "canceled" /\ Outstanding(p, Overs)

\* When Stripe does not wait, its events are handled one after the other, and the last
\* one tells what is the case.
InTurn(p) ==
    /\ truth[p] # "none" /\ Len(mail[p]) # 0 =>
            mail[p][Len(mail[p])].kind = "changed" /\ mail[p][Len(mail[p])].sub = truth[p]
    /\ \A i \in DOMAIN mail[p] : mail[p][i].kind = "completed" =>
            i = 1 /\ row[p].sub = "none" /\ ~Occupied(p)
    /\ \A h \in Handler : WorksOn(h, p) /\ job[h].event.kind = "completed" =>
            row[p].sub = "none" /\ Len(mail[p]) # 0
    /\ truth[p] # "unpaid"
    /\ truth[p] \in {"active", "past_due"} =>
            /\ row[p].status \in Kept /\ row[p].sub \notin TerminalSubscription
            /\ \A i \in DOMAIN mail[p] : mail[p][i].sub \notin TerminalSubscription
            /\ \A h \in Handler : WorksOn(h, p) => job[h].sub \notin TerminalSubscription
    /\ truth[p] # "none" /\ Len(mail[p]) = 0 =>
            \/ Agrees(p) /\ \A h \in Handler : WorksOn(h, p) => step[h] \notin {"read", "save"}
            \/ \E h \in Handler :
                    /\ WorksOn(h, p) /\ step[h] \in {"read", "save"}
                    /\ job[h].event.kind = "changed" /\ job[h].sub = truth[p]

Pursued(p) ==
    /\ Arrives(p)
    /\ Steady /\ "visit" \notin trouble => Followed(p)
    /\ Tame /\ "lag" \notin trouble => EndComes(p)
    /\ trouble \subseteq {"lag"} => InTurn(p)

\* A purchase that has no claim on its slot any more is about to let it go.
Leaving(p) ==
    \/ \E h \in Handler : WorksOn(h, p) /\ step[h] = "release"
    \/ row[p].sub # "none" /\ Outstanding(p, Overs)

Owned ==
    \A s \in Slot : slot[s] # "available" =>
        \E p \in Purchase : row[p].serverId = s /\ (Live(p) \/ Leaving(p))

\* Trouble that there has not been is still to come.
LEMMA TroubleLasts ==
    ASSUME trouble \subseteq trouble'
    PROVE  /\ Gentle' => Gentle
           /\ Steady' /\ "visit" \notin trouble' => Steady /\ "visit" \notin trouble
           /\ Tame' => Tame
           /\ Tame' /\ "lag" \notin trouble' => Tame /\ "lag" \notin trouble
           /\ trouble' \subseteq {"lag"} => trouble \subseteq {"lag"}
<1>1. Tame' => Tame
    BY DEF Tame, OnlyOneOf
<1>2. /\ Gentle' => Gentle
      /\ Steady' /\ "visit" \notin trouble' => Steady /\ "visit" \notin trouble
    BY DEF Gentle, Steady, Prompt
<1>3. QED
    BY <1>1, <1>2

\* One kind of trouble excludes the others.
LEMMA TameIs ==
    ASSUME Tame
    PROVE  /\ Gentle /\ trouble \cap {"crash", "failure", "override"} = {}
           /\ "lag" \in trouble => trouble \subseteq {"lag"}
           /\ "lag" \notin trouble => Prompt
           /\ "visit" \in trouble => Steady /\ "overlap" \notin trouble
           /\ "overlap" \in trouble => Steady /\ "visit" \notin trouble
<1>1. trouble = {} \/ \E kind \in Trouble \ {"crash", "failure", "override"} : trouble = {kind}
    BY DEF Tame, OnlyOneOf
<1>2. trouble \cap {"crash", "failure", "override"} = {}
    BY <1>1
<1>3. \A kind \in trouble : trouble \subseteq {kind}
    BY <1>1
<1>4. QED
    BY <1>2, <1>3 DEF Gentle, Prompt, Steady

\* What was outstanding about p still is.
Retains(p) ==
    /\ Outstanding(p, Savings) => Outstanding(p, Savings)'
    /\ Outstanding(p, Completions) => Outstanding(p, Completions)'
    /\ Outstanding(p, Overs) => Outstanding(p, Overs)'

\* Neither the row nor Stripe changes.
LEMMA PursuedStays ==
    ASSUME NEW p \in Purchase, Pursued(p), trouble \subseteq trouble',
           row'[p] = row[p], truth'[p] = truth[p], Retains(p),
           trouble' \subseteq {"lag"} => InTurn(p)'
    PROVE  Pursued(p)'
<1>1. Agrees(p)' <=> Agrees(p)
    BY DEF Agrees, Live
<1>2. Arrives(p)'
    BY DEF Pursued, Arrives, Retains
<1>3. Steady' /\ "visit" \notin trouble' => Followed(p)'
    BY <1>1, TroubleLasts DEF Pursued, Followed, Retains
<1>4. Tame' /\ "lag" \notin trouble' => EndComes(p)'
    BY TroubleLasts DEF Pursued, EndComes, Retains
<1>5. QED
    BY <1>2, <1>3, <1>4 DEF Pursued

\* A purchase beside the step.
LEMMA BesidePursued ==
    ASSUME NEW q \in Purchase, Beside(q), Pursued(q), trouble \subseteq trouble'
    PROVE  Pursued(q)'
<1>1. /\ row'[q] = row[q] /\ session'[q] = session[q]
      /\ truth'[q] = truth[q] /\ mail'[q] = mail[q]
    BY DEF Beside
<1>2. \A h \in Handler :
        /\ WorksOn(h, q)' <=> WorksOn(h, q)
        /\ WorksOn(h, q) => step'[h] = step[h] /\ job'[h] = job[h]
    BY DEF Beside, WorksOn, Working
<1>3. Retains(q)
    BY <1>1, <1>2 DEF Retains, Outstanding
<1>4. Occupied(q)' <=> Occupied(q)
    BY <1>2 DEF Occupied, WorksOn
<1>5. Agrees(q)' <=> Agrees(q)
    BY <1>1 DEF Agrees, Live
<1>6. trouble' \subseteq {"lag"} => InTurn(q)'
    <2>1. SUFFICES ASSUME InTurn(q) PROVE InTurn(q)'
        BY TroubleLasts DEF Pursued
    <2>2. truth'[q] # "none" /\ Len(mail'[q]) # 0 =>
            mail'[q][Len(mail'[q])].kind = "changed" /\ mail'[q][Len(mail'[q])].sub = truth'[q]
        BY <1>1, <2>1 DEF InTurn
    <2>3. \A i \in DOMAIN mail'[q] : mail'[q][i].kind = "completed" =>
            i = 1 /\ row'[q].sub = "none" /\ ~Occupied(q)'
        BY <1>1, <1>4, <2>1 DEF InTurn
    <2>4. \A h \in Handler : WorksOn(h, q)' /\ job'[h].event.kind = "completed" =>
            row'[q].sub = "none" /\ Len(mail'[q]) # 0
        BY <1>1, <1>2, <2>1 DEF InTurn
    <2>5. /\ truth'[q] # "unpaid"
          /\ truth'[q] \in {"active", "past_due"} =>
            /\ row'[q].status \in Kept /\ row'[q].sub \notin TerminalSubscription
            /\ \A i \in DOMAIN mail'[q] : mail'[q][i].sub \notin TerminalSubscription
            /\ \A h \in Handler : WorksOn(h, q)' => job'[h].sub \notin TerminalSubscription
        BY <1>1, <1>2, <2>1 DEF InTurn
    <2>6. truth'[q] # "none" /\ Len(mail'[q]) = 0 =>
            \/ Agrees(q)' /\ \A h \in Handler : WorksOn(h, q)' => step'[h] \notin {"read", "save"}
            \/ \E h \in Handler :
                    /\ WorksOn(h, q)' /\ step'[h] \in {"read", "save"}
                    /\ job'[h].event.kind = "changed" /\ job'[h].sub = truth'[q]
        BY <1>1, <1>2, <1>5, <2>1 DEF InTurn
    <2>7. QED
        BY <2>2, <2>3, <2>4, <2>5, <2>6 DEF InTurn
<1>7. QED
    BY <1>1, <1>3, <1>6, PursuedStays

\* Checkout: Stripe does not know the purchase yet.
LEMMA CheckoutPursued ==
    ASSUME Fits, \A q \in Purchase : Told(q), \A q \in Purchase : Pursued(q),
           NEW p \in Purchase, NEW s \in Slot, Checkout(p, s)
    PROVE  \A q \in Purchase : Pursued(q)'
<1>1. /\ session[p] = "none" /\ truth[p] = "none"
      /\ row'[p].status = "checkout_pending" /\ row'[p].sub = "none"
      /\ \A q \in Purchase \ {p} : row'[q] = row[q] /\ session'[q] = session[q]
      /\ truth' = truth /\ mail' = mail /\ step' = step /\ job' = job /\ trouble' = trouble
    BY CheckoutFits
<1>2. DOMAIN mail[p] = {} /\ \A h \in Handler : ~WorksOn(h, p)
    BY <1>1, OpenIsQuiet
<1>3. \A q \in Purchase \ {p} : Beside(q)
    BY <1>1 DEF Beside
<1>4. \A q \in Purchase \ {p} : Pursued(q)'
    BY <1>1, <1>3, BesidePursued
<1>5. \A h \in Handler : ~WorksOn(h, p)'
    BY <1>1, <1>2 DEF WorksOn, Working
<1>6. Arrives(p)' /\ Followed(p)' /\ EndComes(p)'
    BY <1>1 DEF Arrives, Followed, EndComes, TerminalSubscription
<1>7. InTurn(p)'
    BY <1>1, <1>2, <1>5 DEF InTurn
<1>8. Pursued(p)'
    BY <1>6, <1>7 DEF Pursued
<1>9. QED
    BY <1>4, <1>8

\* The events tell what is the case from now on, the last of them for good; and the
\* first payment is told first.
Reports(events, t, first) ==
    /\ Len(events) # 0 /\ events[Len(events)].kind = "changed" /\ events[Len(events)].sub = t
    /\ \A i \in DOMAIN events :
        /\ events[i].sub \in {"none", t}
        /\ events[i].kind = "completed" => i = 1 /\ first
    /\ first => \E i \in DOMAIN events : events[i].kind = "completed"

\* A mailbox with more events.
LEMMA MailGrows ==
    ASSUME Fits, NEW p \in Purchase, NEW events \in Seq(Events), NEW m, m = mail[p] \o events
    PROVE  /\ m \in Seq(Events) /\ Len(m) = Len(mail[p]) + Len(events)
           /\ Len(mail[p]) \in Nat /\ Len(events) \in Nat
           /\ DOMAIN m = 1 .. Len(m) /\ DOMAIN mail[p] = 1 .. Len(mail[p])
           /\ DOMAIN events = 1 .. Len(events)
           /\ \A i \in DOMAIN mail[p] : i \in DOMAIN m /\ m[i] = mail[p][i]
           /\ \A i \in DOMAIN events :
                Len(mail[p]) + i \in DOMAIN m /\ m[Len(mail[p]) + i] = events[i]
           /\ \A i \in DOMAIN m :
                \/ i \in DOMAIN mail[p] /\ m[i] = mail[p][i]
                \/ i - Len(mail[p]) \in DOMAIN events /\ m[i] = events[i - Len(mail[p])]
<1>1. mail[p] \in Seq(Events) /\ Len(mail[p]) \in Nat
    BY RowIs
<1>2. /\ m \in Seq(Events) /\ Len(m) = Len(mail[p]) + Len(events)
      /\ \A i \in 1 .. Len(mail[p]) + Len(events) :
            m[i] = IF i <= Len(mail[p]) THEN mail[p][i] ELSE events[i - Len(mail[p])]
    BY <1>1, ConcatProperties
<1>3. /\ DOMAIN m = 1 .. Len(m) /\ DOMAIN mail[p] = 1 .. Len(mail[p])
      /\ DOMAIN events = 1 .. Len(events) /\ Len(events) \in Nat
    BY <1>1, <1>2, LenProperties
<1>4. QED
    BY <1>1, <1>2, <1>3

\* Stripe moves on: what it tells is outstanding.
LEMMA SendsPursued ==
    ASSUME Fits, \A q \in Purchase : Told(q), \A q \in Purchase : Pursued(q),
           NEW p \in Purchase, NEW events \in Seq(Events),
           mail' = [mail EXCEPT ![p] = @ \o events],
           mail[p] # <<>> \/ Occupied(p) => "lag" \in trouble',
           row' = row, step' = step, job' = job, trouble \subseteq trouble',
           session'[p] = "complete", \A q \in Purchase \ {p} : session'[q] = session[q],
           NEW t \in Subscription, t # "none", truth' = [truth EXCEPT ![p] = t],
           truth[p] = "none" => session[p] = "open" /\ t = "active",
           t = "unpaid" => "unpaid" \in trouble',
           t \in {"active", "past_due"} => truth[p] # "canceled",
           truth[p] = "canceled" => t = "canceled",
           Reports(events, t, session[p] = "open")
    PROVE  \A q \in Purchase : Pursued(q)'
<1>1. /\ truth'[p] = t /\ mail'[p] = mail[p] \o events
      /\ \A q \in Purchase \ {p} : truth'[q] = truth[q] /\ mail'[q] = mail[q]
    BY DEF Fits, TypeOK, MailFits
<1>2. \A q \in Purchase \ {p} : Pursued(q)'
    <2>1. \A q \in Purchase \ {p} : Beside(q)
        BY <1>1 DEF Beside
    <2>2. QED
        BY <2>1, BesidePursued
<1>3. Pursued(p) /\ Told(p)
    OBVIOUS
<1>4. PICK m : m = mail'[p]
    OBVIOUS
<1>5. /\ Len(m) = Len(mail[p]) + Len(events)
      /\ Len(mail[p]) \in Nat /\ Len(events) \in Nat
      /\ DOMAIN m = 1 .. Len(m) /\ DOMAIN mail[p] = 1 .. Len(mail[p])
      /\ DOMAIN events = 1 .. Len(events)
      /\ \A i \in DOMAIN mail[p] : i \in DOMAIN m /\ m[i] = mail[p][i]
      /\ \A i \in DOMAIN events :
            Len(mail[p]) + i \in DOMAIN m /\ m[Len(mail[p]) + i] = events[i]
      /\ \A i \in DOMAIN m :
            \/ i \in DOMAIN mail[p] /\ m[i] = mail[p][i]
            \/ i - Len(mail[p]) \in DOMAIN events /\ m[i] = events[i - Len(mail[p])]
    BY <1>1, <1>4, MailGrows
<1>6. Retains(p)
    BY <1>4, <1>5 DEF Retains, Outstanding, WorksOn, Working
<1>7. /\ Len(m) \in DOMAIN m /\ Len(m) # 0 /\ m[Len(m)] = events[Len(events)]
      /\ m[Len(m)].kind = "changed" /\ m[Len(m)].sub = t /\ m[Len(m)] \in Events
    <2>1. Len(events) # 0 /\ events[Len(events)].kind = "changed" /\ events[Len(events)].sub = t
        BY DEF Reports
    <2>2. Len(events) \in DOMAIN events
        BY <1>5, <2>1
    <2>3. Len(m) \in DOMAIN m /\ Len(m) # 0 /\ m[Len(m)] = events[Len(events)]
        BY <1>5, <2>1, <2>2
    <2>4. events[Len(events)] \in Events
        BY <2>2, LenProperties, <1>5
    <2>5. QED
        BY <2>1, <2>3, <2>4
<1>8. session[p] = "open" => /\ DOMAIN mail[p] = {} /\ \A h \in Handler : ~WorksOn(h, p)
                             /\ row[p].sub = "none" /\ row[p].status \in {"none", "checkout_pending"}
    BY OpenIsQuiet
<1>9. Arrives(p)'
    <2>1. SUFFICES ASSUME row[p].sub = "none" PROVE Outstanding(p, Completions)'
        BY DEF Arrives
    <2>2. CASE truth[p] # "none"
        BY <1>3, <1>6, <2>1, <2>2 DEF Pursued, Arrives, Retains
    <2>3. CASE truth[p] = "none"
        <3>1. PICK i \in DOMAIN events : events[i].kind = "completed"
            BY <2>3 DEF Reports
        <3>2. events[i] \in Completions
            BY <3>1, <1>5, LenProperties DEF Completions
        <3>3. Len(mail[p]) + i \in DOMAIN m /\ m[Len(mail[p]) + i] \in Completions
            BY <1>5, <3>2
        <3>4. QED
            BY <1>4, <3>3 DEF Outstanding
    <2>4. QED
        BY <2>2, <2>3
<1>10. Outstanding(p, Savings)'
    <2>1. m[Len(m)] \in Savings
        BY <1>7 DEF Savings, Saving
    <2>2. QED
        BY <1>4, <1>7, <2>1 DEF Outstanding
<1>11. ASSUME Tame', "lag" \notin trouble' PROVE EndComes(p)'
    <2>1. EndComes(p) /\ DOMAIN mail[p] = {} /\ \A h \in Handler : ~WorksOn(h, p)
        <3>1. mail[p] = <<>> /\ ~Occupied(p)
            BY <1>11
        <3>2. Len(mail[p]) = 0
            BY <3>1, EmptySeq, Zenon
        <3>3. DOMAIN mail[p] = {}
            BY <1>5, <3>2
        <3>4. EndComes(p)
            BY <1>3, <1>11, TroubleLasts DEF Pursued
        <3>5. QED
            BY <3>1, <3>3, <3>4 DEF Occupied, WorksOn
    <2>2. ~Outstanding(p, Completions) /\ ~Outstanding(p, Overs)
        BY <2>1 DEF Outstanding
    <2>3. t \in TerminalSubscription => row[p].sub # "none"
        BY <1>3, <2>2 DEF Pursued, Arrives, TerminalSubscription
    <2>4. t \in TerminalSubscription => Outstanding(p, Overs)'
        BY <1>4, <1>7 DEF Outstanding, Overs
    <2>5. ~(row[p].status = "paid" /\ row[p].sub \in TerminalSubscription)
        BY <2>1, <2>2 DEF EndComes
    <2>6. QED
        BY <1>1, <2>3, <2>4, <2>5 DEF EndComes
<1>12. ASSUME trouble' \subseteq {"lag"} PROVE InTurn(p)'
    <2>1. InTurn(p) /\ t # "unpaid"
        BY <1>3, <1>12, TroubleLasts DEF Pursued
    <2>2. ASSUME NEW i \in DOMAIN m, m[i].kind = "completed"
          PROVE  i = 1 /\ row[p].sub = "none" /\ ~Occupied(p)
        <3>1. CASE i \in DOMAIN mail[p] /\ m[i] = mail[p][i]
            BY <2>1, <2>2, <3>1 DEF InTurn
        <3>2. CASE i - Len(mail[p]) \in DOMAIN events /\ m[i] = events[i - Len(mail[p])]
            <4>1. i - Len(mail[p]) = 1 /\ session[p] = "open"
                BY <2>2, <3>2 DEF Reports
            <4>2. Len(mail[p]) = 0
                BY <1>5, <1>8, <4>1
            <4>3. i = 1
                BY <1>5, <4>1, <4>2
            <4>4. QED
                BY <1>8, <4>1, <4>3 DEF Occupied, WorksOn
        <3>3. QED
            BY <1>5, <3>1, <3>2
    <2>3. ASSUME NEW h \in Handler, WorksOn(h, p), job[h].event.kind = "completed"
          PROVE  row[p].sub = "none" /\ Len(m) # 0
        BY <1>7, <2>1, <2>3 DEF InTurn
    <2>4. ASSUME t \in {"active", "past_due"}
          PROVE  /\ row[p].status \in Kept /\ row[p].sub \notin TerminalSubscription
                 /\ \A i \in DOMAIN m : m[i].sub \notin TerminalSubscription
                 /\ \A h \in Handler : WorksOn(h, p) => job[h].sub \notin TerminalSubscription
        <3>1. \A i \in DOMAIN events : events[i].sub \notin TerminalSubscription
            BY <2>4 DEF Reports, TerminalSubscription
        <3>2. CASE truth[p] = "none"
            <4>1. row[p].status # "none"
                <5>1. session[p] = "open"
                    BY <3>2
                <5>2. QED
                    BY <5>1, RowIs DEF RowFits
            <4>2. QED
                BY <1>5, <1>8, <3>1, <3>2, <4>1 DEF Kept, TerminalSubscription
        <3>3. CASE truth[p] # "none"
            <4>1. truth[p] \in {"active", "past_due"}
                BY <2>1, <2>4, <3>3, RowIs DEF InTurn, Subscription
            <4>2. /\ row[p].status \in Kept /\ row[p].sub \notin TerminalSubscription
                  /\ \A i \in DOMAIN mail[p] : mail[p][i].sub \notin TerminalSubscription
                  /\ \A h \in Handler : WorksOn(h, p) => job[h].sub \notin TerminalSubscription
                BY <2>1, <4>1 DEF InTurn
            <4>3. \A i \in DOMAIN m : m[i].sub \notin TerminalSubscription
                BY <1>5, <3>1, <4>2
            <4>4. QED
                BY <4>2, <4>3
        <3>4. QED
            BY <3>2, <3>3
    <2>5. Occupied(p)' <=> Occupied(p)
        BY DEF Occupied, Working
    <2>6. \A h \in Handler : WorksOn(h, p)' <=> WorksOn(h, p)
        BY DEF WorksOn, Working
    <2>7. QED
        BY <1>1, <1>4, <1>7, <2>1, <2>2, <2>3, <2>4, <2>5, <2>6 DEF InTurn
<1>13. Pursued(p)'
    BY <1>9, <1>10, <1>11, <1>12 DEF Pursued, Followed
<1>14. QED
    BY <1>2, <1>13

\* A session that expires is about no subscription.
LEMMA ExpiresPursued ==
    ASSUME Fits, \A q \in Purchase : Told(q), \A q \in Purchase : Pursued(q),
           NEW p \in Purchase, SessionExpires(p)
    PROVE  \A q \in Purchase : Pursued(q)'
<1>1. /\ session[p] = "open" /\ truth' = truth
      /\ session' = [session EXCEPT ![p] = "expired"]
      /\ Sends(p, <<Event("expired", "none")>>)
    BY DEF SessionExpires
<1>2. PICK e \in Events : e = Event("expired", "none") /\ e.kind = "expired"
    BY EventIs DEF EventKind, Subscription
<1>3. PICK events \in Seq(Events) : events = <<e>> /\ \A i \in DOMAIN events : events[i] = e
    BY OneIs
<1>4. /\ mail' = [mail EXCEPT ![p] = @ \o events]
      /\ row' = row /\ step' = step /\ job' = job /\ trouble \subseteq trouble'
    BY <1>1, <1>2, <1>3, SendsIs
<1>5. /\ mail'[p] = mail[p] \o events
      /\ \A q \in Purchase \ {p} : session'[q] = session[q] /\ mail'[q] = mail[q]
    BY <1>1, <1>4 DEF Fits, TypeOK, MailFits
<1>6. /\ DOMAIN mail[p] = {} /\ \A h \in Handler : ~WorksOn(h, p)
      /\ row[p].sub = "none" /\ row[p].status \in {"none", "checkout_pending"}
      /\ truth[p] = "none"
    BY <1>1, OpenIsQuiet, RowIs DEF RowFits
<1>7. \A i \in DOMAIN mail'[p] : mail'[p][i].kind = "expired"
    BY <1>2, <1>3, <1>5, <1>6, MailGrows
<1>8. \A q \in Purchase \ {p} : Pursued(q)'
    <2>1. \A q \in Purchase \ {p} : Beside(q)
        BY <1>1, <1>4, <1>5 DEF Beside
    <2>2. QED
        BY <1>4, <2>1, BesidePursued
<1>9. \A h \in Handler : ~WorksOn(h, p)'
    BY <1>4, <1>6 DEF WorksOn, Working
<1>10. Arrives(p)' /\ Followed(p)' /\ EndComes(p)'
    BY <1>1, <1>4, <1>6 DEF Arrives, Followed, EndComes, TerminalSubscription
<1>11. InTurn(p)'
    BY <1>1, <1>6, <1>7, <1>9 DEF InTurn
<1>12. QED
    BY <1>8, <1>10, <1>11 DEF Pursued

\* What Stripe sends at once: two events, or one.
LEMMA PairReports ==
    ASSUME NEW e \in Events, NEW f \in Events, NEW t, NEW first \in BOOLEAN,
           f.kind = "changed", f.sub = t, e.sub \in {"none", t}, e.kind = "completed" <=> first
    PROVE  \E events \in Seq(Events) : events = <<e, f>> /\ Reports(events, t, first)
<1>1. PICK events : events = <<e, f>>
    OBVIOUS
<1>2. /\ events \in Seq(Events) /\ Len(events) = 2 /\ events[1] = e /\ events[2] = f
      /\ \A i \in DOMAIN events : i = 1 \/ i = 2
    BY <1>1, EventsAre
<1>3. 1 \in DOMAIN events
    BY <1>2, LenProperties
<1>4. Reports(events, t, first)
    BY <1>2, <1>3 DEF Reports
<1>5. QED
    BY <1>1, <1>2, <1>4, Zenon

\* The same for one event.
LEMMA OneReports ==
    ASSUME NEW e \in Events, e.kind = "changed", NEW t, e.sub = t
    PROVE  \E events \in Seq(Events) : events = <<e>> /\ Reports(events, t, FALSE)
<1>1. PICK events : events = <<e>>
    OBVIOUS
<1>2. /\ events \in Seq(Events) /\ Len(events) = 1 /\ events[1] = e
      /\ \A i \in DOMAIN events : i = 1
    BY <1>1, EventsAre
<1>3. Reports(events, t, FALSE)
    BY <1>2 DEF Reports
<1>4. QED
    BY <1>1, <1>2, <1>3, Zenon

\* The steps of Stripe.
LEMMA StripePursued ==
    ASSUME Fits, \A q \in Purchase : Told(q), \A q \in Purchase : Pursued(q),
           NEW p \in Purchase, StripeStep(p)
    PROVE  \A q \in Purchase : Pursued(q)'
<1>1. /\ session \in [Purchase -> {"none", "open", "complete", "expired"}]
      /\ truth \in [Purchase -> Subscription]
    BY DEF Fits, TypeOK
<1>2. /\ {"completed", "changed", "expired", "invoice_paid", "invoice_failed"} \subseteq EventKind
      /\ {"none", "active", "past_due", "unpaid", "canceled"} \subseteq Subscription
    BY DEF EventKind, Subscription
<1>3. truth[p] = "none" <=> session[p] # "complete"
    BY RowIs DEF RowFits
<1>4. CASE Pay(p)
    <2>1. /\ session[p] = "open" /\ truth' = [truth EXCEPT ![p] = "active"]
          /\ session' = [session EXCEPT ![p] = "complete"]
          /\ Sends(p, <<Event("completed", "none"), Event("changed", "active")>>)
        BY <1>4 DEF Pay
    <2>2. PICK e \in Events : e = Event("completed", "none") /\ e.kind = "completed" /\ e.sub = "none"
        BY <1>2, EventIs
    <2>3. PICK f \in Events : f = Event("changed", "active") /\ f.kind = "changed" /\ f.sub = "active"
        BY <1>2, EventIs
    <2>4. PICK events \in Seq(Events) : events = <<e, f>> /\ Reports(events, "active", TRUE)
        BY <2>2, <2>3, PairReports
    <2>5. Sends(p, events)
        BY <2>1, <2>2, <2>3, <2>4
    <2>6. session'[p] = "complete" /\ \A q \in Purchase \ {p} : session'[q] = session[q]
        BY <1>1, <2>1
    <2>7. Reports(events, "active", session[p] = "open")
        BY <2>1, <2>4 DEF Reports
    <2>8. truth[p] = "none"
        BY <1>3, <2>1
    <2>9. QED
        BY <1>2, <2>1, <2>5, <2>6, <2>7, <2>8, SendsIs, SendsPursued
<1>5. CASE SessionExpires(p)
    BY <1>5, ExpiresPursued
<1>6. ASSUME truth[p] # "none", session' = session, NEW t \in Subscription, t # "none",
             truth' = [truth EXCEPT ![p] = t], NEW events \in Seq(Events), Sends(p, events),
             t # "unpaid", t = "canceled" \/ truth[p] # "canceled", truth[p] # "canceled",
             Reports(events, t, FALSE)
      PROVE  \A q \in Purchase : Pursued(q)'
    <2>1. session[p] = "complete" /\ session'[p] = "complete"
        BY <1>1, <1>3, <1>6
    <2>2. Reports(events, t, session[p] = "open")
        BY <1>6, <2>1 DEF Reports
    <2>3. QED
        BY <1>6, <2>1, <2>2, SendsIs, SendsPursued
<1>7. CASE RenewalFails(p)
    <2>1. /\ truth[p] = "active" /\ truth' = [truth EXCEPT ![p] = "past_due"] /\ session' = session
          /\ Sends(p, <<Event("invoice_failed", "none"), Event("changed", "past_due")>>)
        BY <1>7 DEF RenewalFails
    <2>2. PICK e \in Events :
                e = Event("invoice_failed", "none") /\ e.kind = "invoice_failed" /\ e.sub = "none"
        BY <1>2, EventIs
    <2>3. PICK f \in Events :
                f = Event("changed", "past_due") /\ f.kind = "changed" /\ f.sub = "past_due"
        BY <1>2, EventIs
    <2>4. PICK events \in Seq(Events) : events = <<e, f>> /\ Reports(events, "past_due", FALSE)
        BY <2>2, <2>3, PairReports
    <2>5. Sends(p, events)
        BY <2>1, <2>2, <2>3, <2>4
    <2>6. QED
        BY <1>2, <1>6, <2>1, <2>4, <2>5
<1>8. CASE RenewalSucceeds(p)
    <2>1. /\ truth[p] \in {"past_due", "unpaid"} /\ truth' = [truth EXCEPT ![p] = "active"]
          /\ session' = session
          /\ Sends(p, <<Event("invoice_paid", "none"), Event("changed", "active")>>)
        BY <1>8 DEF RenewalSucceeds
    <2>2. PICK e \in Events :
                e = Event("invoice_paid", "none") /\ e.kind = "invoice_paid" /\ e.sub = "none"
        BY <1>2, EventIs
    <2>3. PICK f \in Events :
                f = Event("changed", "active") /\ f.kind = "changed" /\ f.sub = "active"
        BY <1>2, EventIs
    <2>4. PICK events \in Seq(Events) : events = <<e, f>> /\ Reports(events, "active", FALSE)
        BY <2>2, <2>3, PairReports
    <2>5. Sends(p, events)
        BY <2>1, <2>2, <2>3, <2>4
    <2>6. QED
        BY <1>2, <1>6, <2>1, <2>4, <2>5
<1>9. CASE Ends(p)
    <2>1. /\ truth[p] \in {"active", "past_due", "unpaid"}
          /\ truth' = [truth EXCEPT ![p] = "canceled"] /\ session' = session
          /\ Sends(p, <<Event("changed", "canceled")>>)
        BY <1>9 DEF Ends
    <2>2. PICK e \in Events :
                e = Event("changed", "canceled") /\ e.kind = "changed" /\ e.sub = "canceled"
        BY <1>2, EventIs
    <2>3. PICK events \in Seq(Events) : events = <<e>> /\ Reports(events, "canceled", FALSE)
        BY <2>2, OneReports
    <2>4. Sends(p, events)
        BY <2>1, <2>2, <2>3
    <2>5. QED
        BY <1>2, <1>6, <2>1, <2>3, <2>4
<1>10. CASE TurnsUnpaid(p)
    <2>1. truth[p] = "past_due" /\ truth' = [truth EXCEPT ![p] = "unpaid"]
        BY <1>10 DEF TurnsUnpaid
    <2>2. PICK e \in Events :
                e = Event("changed", "unpaid") /\ e.kind = "changed" /\ e.sub = "unpaid"
        BY <1>2, EventIs
    <2>3. PICK events \in Seq(Events) : events = <<e>> /\ Reports(events, "unpaid", FALSE)
        BY <2>2, OneReports
    <2>4. /\ mail' = [mail EXCEPT ![p] = @ \o events]
          /\ mail[p] # <<>> \/ Occupied(p) => "lag" \in trouble'
          /\ row' = row /\ step' = step /\ job' = job
          /\ session' = session /\ "unpaid" \in trouble' /\ trouble \subseteq trouble'
        BY <1>10, <2>2, <2>3, UnpaidIs
    <2>5. session[p] = "complete" /\ session'[p] = "complete"
        BY <1>1, <1>3, <2>1, <2>4
    <2>6. Reports(events, "unpaid", session[p] = "open")
        BY <2>3, <2>5 DEF Reports
    <2>7. QED
        BY <1>2, <2>1, <2>4, <2>5, <2>6, SendsPursued
<1>11. QED
    BY <1>4, <1>5, <1>7, <1>8, <1>9, <1>10 DEF StripeStep

\* A step of h about p.
LEMMA HandlerPursued ==
    ASSUME NEW p \in Purchase, NEW h \in Handler, Only(h), ~Working(h) \/ WorksOn(h, p),
           \A q \in Purchase : Pursued(q),
           step'[h] = "idle" \/ job'[h].purchase = p, trouble \subseteq trouble',
           session' = session, truth' = truth,
           \A q \in Purchase \ {p} : row'[q] = row[q] /\ mail'[q] = mail[q],
           Pursued(p)'
    PROVE  \A q \in Purchase : Pursued(q)'
BY BesideHandler, BesidePursued

\* Receive: the event is in hand now.
LEMMA ReceiveRetains ==
    ASSUME Fits, NEW h \in Handler, NEW p \in Purchase, NEW i, Receive(h, p, i)
    PROVE  Retains(p)
<1>1. /\ ~Working(h) /\ Only(h) /\ Working(h)'
      /\ step'[h] = "read" /\ job'[h].purchase = p /\ job'[h].event = mail[p][i]
      /\ i \in 1 .. Len(mail[p]) /\ i \in DOMAIN mail[p]
      /\ job'[h].sub = IF mail[p][i].kind = "changed" THEN mail[p][i].sub ELSE truth[p]
    BY ReceiveFits
<1>2. mail' = [mail EXCEPT ![p] = RemoveAt(@, i)]
    BY DEF Receive
<1>3. mail'[p] = RemoveAt(mail[p], i)
    BY <1>2 DEF Fits, MailFits
<1>4. PICK m : m = mail'[p]
    OBVIOUS
<1>5. /\ DOMAIN m = 1 .. Len(m) /\ Len(m) = Len(mail[p]) - 1 /\ Len(mail[p]) \in Nat
      /\ DOMAIN mail[p] = 1 .. Len(mail[p])
      /\ \A j \in 1 .. Len(mail[p]) - 1 : m[j] = mail[p][IF j < i THEN j ELSE j + 1]
    <2>1. mail[p] \in Seq(Events) /\ Len(mail[p]) \in Nat /\ DOMAIN mail[p] = 1 .. Len(mail[p])
        BY RowIs, LenProperties
    <2>2. m = RemoveAt(mail[p], i)
        BY <1>3, <1>4
    <2>3. /\ DOMAIN m = 1 .. Len(mail[p]) - 1 /\ Len(m) = Len(mail[p]) - 1
          /\ \A j \in 1 .. Len(mail[p]) - 1 : m[j] = mail[p][IF j < i THEN j ELSE j + 1]
        BY <1>1, <2>1, <2>2, RemoveAtIs
    <2>4. QED
        BY <2>1, <2>3
<1>6. \A k \in DOMAIN mail[p] \ {i} : \E j \in DOMAIN m : m[j] = mail[p][k]
    <2>1. TAKE k \in DOMAIN mail[p] \ {i}
    <2>2. CASE k < i
        <3>1. k \in DOMAIN m /\ m[k] = mail[p][k]
            BY <1>1, <1>5, <2>2
        <3>2. QED
            BY <3>1
    <2>3. CASE k > i
        <3>1. k - 1 \in DOMAIN m /\ m[k - 1] = mail[p][k]
            BY <1>1, <1>5, <2>3
        <3>2. QED
            BY <3>1
    <2>4. QED
        BY <1>1, <1>5, <2>2, <2>3
<1>7. WorksOn(h, p)' /\ \A k \in Handler : WorksOn(k, p) => /\ k # h /\ WorksOn(k, p)'
                                                            /\ step'[k] = step[k] /\ job'[k] = job[k]
    BY <1>1 DEF WorksOn, Working, Only
<1>8. ASSUME NEW E, Outstanding(p, E) PROVE Outstanding(p, E)'
    <2>1. CASE \E k \in DOMAIN mail[p] : mail[p][k] \in E
        <3>1. PICK k \in DOMAIN mail[p] : mail[p][k] \in E
            BY <2>1
        <3>2. CASE k = i
            BY <1>1, <1>7, <3>1, <3>2 DEF Outstanding
        <3>3. CASE k # i
            BY <1>4, <1>6, <3>1, <3>3 DEF Outstanding
        <3>4. QED
            BY <3>2, <3>3
    <2>2. CASE \E k \in Handler : WorksOn(k, p) /\ step[k] \in {"read", "save"} /\ job[k].event \in E
        BY <1>7, <2>2 DEF Outstanding
    <2>3. QED
        BY <1>8, <2>1, <2>2 DEF Outstanding
<1>9. Savings' = Savings /\ Completions' = Completions /\ Overs' = Overs
    BY DEF Savings, Completions, Overs
<1>10. QED
    BY <1>8, <1>9 DEF Retains

\* So the events are still handled one after the other.
LEMMA ReceivePursued ==
    ASSUME Fits, \A q \in Purchase : Told(q), \A q \in Purchase : Pursued(q),
           NEW h \in Handler, NEW p \in Purchase, NEW i, Receive(h, p, i)
    PROVE  \A q \in Purchase : Pursued(q)'
<1>1. /\ ~Working(h) /\ Only(h) /\ Working(h)'
      /\ step'[h] = "read" /\ job'[h].purchase = p /\ job'[h].event = mail[p][i]
      /\ i \in 1 .. Len(mail[p]) /\ i \in DOMAIN mail[p]
      /\ job'[h].sub = IF mail[p][i].kind = "changed" THEN mail[p][i].sub ELSE truth[p]
    BY ReceiveFits
<1>2. /\ row' = row /\ session' = session /\ truth' = truth /\ trouble \subseteq trouble'
      /\ mail' = [mail EXCEPT ![p] = RemoveAt(@, i)]
      /\ OverlapOn(p) \cup (IF i > 1 THEN {"reorder"} ELSE {}) \subseteq trouble'
    BY CausesMore DEF Receive
<1>3. /\ mail'[p] = RemoveAt(mail[p], i) /\ \A q \in Purchase \ {p} : mail'[q] = mail[q]
      /\ Told(p) /\ Pursued(p)
    BY <1>2 DEF Fits, MailFits
<1>4. PICK m : m = mail'[p]
    OBVIOUS
<1>5. /\ DOMAIN m = 1 .. Len(m) /\ Len(m) = Len(mail[p]) - 1 /\ Len(mail[p]) \in Nat
      /\ DOMAIN mail[p] = 1 .. Len(mail[p])
      /\ \A j \in 1 .. Len(mail[p]) - 1 : m[j] = mail[p][IF j < i THEN j ELSE j + 1]
    <2>1. mail[p] \in Seq(Events) /\ Len(mail[p]) \in Nat /\ DOMAIN mail[p] = 1 .. Len(mail[p])
        BY RowIs, LenProperties
    <2>2. m = RemoveAt(mail[p], i)
        BY <1>3, <1>4
    <2>3. /\ DOMAIN m = 1 .. Len(mail[p]) - 1 /\ Len(m) = Len(mail[p]) - 1
          /\ \A j \in 1 .. Len(mail[p]) - 1 : m[j] = mail[p][IF j < i THEN j ELSE j + 1]
        BY <1>1, <2>1, <2>2, RemoveAtIs
    <2>4. QED
        BY <2>1, <2>3
<1>7. WorksOn(h, p)' /\ \A k \in Handler : WorksOn(k, p) => /\ k # h /\ WorksOn(k, p)'
                                                            /\ step'[k] = step[k] /\ job'[k] = job[k]
    BY <1>1 DEF WorksOn, Working, Only
<1>9. Retains(p)
    BY ReceiveRetains
<1>10. ASSUME trouble' \subseteq {"lag"} PROVE InTurn(p)'
    <2>1. i = 1 /\ ~Occupied(p) /\ \A k \in Handler : ~WorksOn(k, p)
        BY <1>1, <1>2, <1>10, OverlapIs
    <2>2. InTurn(p)
        BY <1>3, <1>10, <1>2, TroubleLasts DEF Pursued
    <2>3. \A j \in DOMAIN m : j + 1 \in DOMAIN mail[p] /\ j + 1 # 1 /\ m[j] = mail[p][j + 1]
        BY <1>5, <2>1
    <2>4. Len(m) # 0 => Len(m) \in DOMAIN m /\ Len(m) + 1 = Len(mail[p])
        <3>1. PICK n \in Nat : n = Len(m)
            BY <1>1, <1>5
        <3>2. n # 0 => n \in 1 .. n
            BY <3>1
        <3>3. n + 1 = Len(mail[p])
            BY <1>5, <3>1
        <3>4. QED
            BY <1>5, <3>1, <3>2, <3>3
    <2>5. \A k \in Handler : WorksOn(k, p)' => k = h
        BY <1>1, <2>1 DEF Only, WorksOn, Working
    <2>6. truth[p] # "none" /\ Len(m) # 0 => m[Len(m)].kind = "changed" /\ m[Len(m)].sub = truth[p]
        <3>1. SUFFICES ASSUME truth[p] # "none", Len(m) # 0
                       PROVE  m[Len(m)].kind = "changed" /\ m[Len(m)].sub = truth[p]
            OBVIOUS
        <3>2. m[Len(m)] = mail[p][Len(mail[p])] /\ Len(mail[p]) # 0
            BY <1>5, <2>3, <2>4, <3>1
        <3>3. QED
            BY <2>2, <3>1, <3>2 DEF InTurn
    <2>7. \A j \in DOMAIN m : m[j].kind # "completed"
        BY <2>2, <2>3 DEF InTurn
    <2>8. mail[p][i].kind = "completed" => row[p].sub = "none" /\ Len(m) # 0
        <3>1. SUFFICES ASSUME mail[p][i].kind = "completed"
                       PROVE  row[p].sub = "none" /\ Len(m) # 0
            OBVIOUS
        <3>2. truth[p] # "none"
            <4>1. Known(p, mail[p][i])
                BY <1>1, <1>3 DEF Told, EventTold
            <4>2. session[p] = "complete"
                BY <3>1, <4>1 DEF Known
            <4>3. QED
                BY <4>2, RowIs DEF RowFits
        <3>3. mail[p][Len(mail[p])].kind = "changed"
            BY <1>1, <1>5, <2>1, <2>2, <3>2 DEF InTurn
        <3>4. Len(mail[p]) # 1
            BY <2>1, <3>1, <3>3
        <3>5. QED
            BY <1>1, <1>5, <2>1, <2>2, <3>1, <3>4 DEF InTurn
    <2>9. truth[p] \in {"active", "past_due"} =>
            /\ row[p].status \in Kept /\ row[p].sub \notin TerminalSubscription
            /\ \A j \in DOMAIN m : m[j].sub \notin TerminalSubscription
            /\ job'[h].sub \notin TerminalSubscription
        <3>1. SUFFICES ASSUME truth[p] \in {"active", "past_due"}
                       PROVE  /\ row[p].status \in Kept /\ row[p].sub \notin TerminalSubscription
                              /\ \A j \in DOMAIN m : m[j].sub \notin TerminalSubscription
                              /\ job'[h].sub \notin TerminalSubscription
            OBVIOUS
        <3>2. /\ row[p].status \in Kept /\ row[p].sub \notin TerminalSubscription
              /\ \A j \in DOMAIN mail[p] : mail[p][j].sub \notin TerminalSubscription
            BY <2>2, <3>1 DEF InTurn
        <3>3. QED
            BY <1>1, <2>3, <3>1, <3>2 DEF TerminalSubscription
    <2>10. truth[p] # "none" /\ Len(m) = 0 => job'[h].event.kind = "changed" /\ job'[h].sub = truth[p]
        <3>1. SUFFICES ASSUME truth[p] # "none", Len(m) = 0
                       PROVE  job'[h].event.kind = "changed" /\ job'[h].sub = truth[p]
            OBVIOUS
        <3>2. Len(mail[p]) = i /\ Len(mail[p]) # 0
            BY <1>1, <1>5, <2>1, <3>1
        <3>3. mail[p][i].kind = "changed" /\ mail[p][i].sub = truth[p]
            BY <2>2, <3>1, <3>2 DEF InTurn
        <3>4. QED
            BY <1>1, <3>3
    <2>11. truth[p] # "unpaid"
        BY <2>2 DEF InTurn
    <2>12. QED
        BY <1>1, <1>2, <1>4, <1>7, <2>5, <2>6, <2>7, <2>8, <2>9, <2>10, <2>11 DEF InTurn
<1>11. Pursued(p)'
    BY <1>2, <1>3, <1>9, <1>10, PursuedStays
<1>12. QED
    BY <1>1, <1>2, <1>3, <1>11, HandlerPursued

\* Visit: one handler more is at work.
LEMMA VisitPursued ==
    ASSUME Fits, \A q \in Purchase : Pursued(q), NEW h \in Handler, NEW p \in Purchase, Visit(h, p)
    PROVE  \A q \in Purchase : Pursued(q)'
<1>1. /\ ~Working(h) /\ Only(h) /\ step'[h] = "read" /\ job'[h].purchase = p
      /\ "visit" \in trouble'
    BY VisitFits
<1>2. /\ row' = row /\ session' = session /\ truth' = truth /\ mail' = mail
      /\ trouble \subseteq trouble'
    BY CausesMore DEF Visit, stripeVars
<1>3. \A k \in Handler : WorksOn(k, p) => /\ WorksOn(k, p)'
                                          /\ step'[k] = step[k] /\ job'[k] = job[k]
    BY <1>1 DEF WorksOn, Working, Only
<1>4. Retains(p)
    BY <1>2, <1>3 DEF Retains, Outstanding, Savings, Completions, Overs
<1>5. Pursued(p)'
    BY <1>1, <1>2, <1>4, PursuedStays
<1>6. QED
    BY <1>1, <1>2, <1>5, HandlerPursued

\* Repeat: one event more is waiting.
LEMMA RepeatPursued ==
    ASSUME Fits, \A q \in Purchase : Told(q), \A q \in Purchase : Pursued(q),
           NEW h \in Handler, Repeat(h)
    PROVE  \A q \in Purchase : Pursued(q)'
<1>1. PICK p : p = job[h].purchase
    OBVIOUS
<1>2. /\ row' = row /\ session' = session /\ truth' = truth /\ step' = step /\ job' = job
      /\ Working(h) /\ "repeat" \in trouble' /\ trouble \subseteq trouble'
    BY RepeatFits, CausesMore DEF Repeat
<1>3. p \in Purchase /\ job[h].event \in Events /\ WorksOn(h, p)
    BY <1>1, <1>2, JobIs
<1>4. PICK e \in Events : e = job[h].event
    BY <1>3
<1>5. mail' = [mail EXCEPT ![p] = Append(@, e)]
    BY <1>1, <1>4 DEF Repeat
<1>6. /\ mail'[p] = mail[p] \o <<e>> /\ <<e>> \in Seq(Events)
      /\ \A q \in Purchase \ {p} : mail'[q] = mail[q]
    <2>1. mail'[p] = Append(mail[p], e) /\ \A q \in Purchase \ {p} : mail'[q] = mail[q]
        BY <1>3, <1>5 DEF Fits, MailFits
    <2>2. QED
        BY <1>3, <2>1, RowIs, OneMore
<1>7. \A i \in DOMAIN mail[p] : i \in DOMAIN mail'[p] /\ mail'[p][i] = mail[p][i]
    BY <1>3, <1>6, MailGrows
<1>8. Retains(p)
    BY <1>2, <1>7 DEF Retains, Outstanding, WorksOn, Working, Savings, Completions, Overs
<1>9. Pursued(p)'
    BY <1>2, <1>3, <1>8, PursuedStays
<1>10. QED
    BY <1>1, <1>2, <1>3, <1>6, <1>9, HandlerPursued DEF Only

\* Dies: what it had in hand waits again.
LEMMA DiesPursued ==
    ASSUME Fits, \A q \in Purchase : Told(q), \A q \in Purchase : Pursued(q),
           NEW h \in Handler, Dies(h), Gentle'
    PROVE  \A q \in Purchase : Pursued(q)'
<1>1. PICK p : p = job[h].purchase
    OBVIOUS
<1>2. /\ Working(h) /\ Only(h) /\ p \in Purchase
      /\ row' = row /\ session' = session /\ "crash" \in trouble'
      /\ truth' = truth /\ trouble \subseteq trouble' /\ step'[h] = "idle"
      /\ \A q \in Purchase \ {p} : mail'[q] = mail[q]
      /\ IF job[h].mailed
         THEN /\ job[h].event \in Events /\ mail'[p] = <<job[h].event>> \o mail[p]
              /\ <<job[h].event>> \in Seq(Events) /\ Len(<<job[h].event>>) = 1
              /\ DOMAIN <<job[h].event>> = {1} /\ <<job[h].event>>[1] = job[h].event
         ELSE mail'[p] = mail[p]
    BY <1>1, DiesFits
<1>3. WorksOn(h, p) /\ JobTold(p, h)
    BY <1>1, <1>2, JobIs
<1>4. job[h].mailed
    <2>1. "visit" \notin trouble
        BY <1>2 DEF Gentle
    <2>2. QED
        BY <1>3, <2>1 DEF JobTold
<1>5. PICK e \in Events : e = job[h].event
    BY <1>2, <1>4
<1>6. PICK events \in Seq(Events) : events = <<e>> /\ Len(events) = 1 /\ events[1] = e
    BY <1>2, <1>4, <1>5
<1>7. PICK m : m = mail'[p]
    OBVIOUS
<1>8. m = events \o mail[p]
    BY <1>2, <1>4, <1>5, <1>6, <1>7
<1>9. /\ 1 \in DOMAIN m /\ m[1] = e
      /\ \A i \in DOMAIN mail[p] : i + 1 \in DOMAIN m /\ m[i + 1] = mail[p][i]
    <2>1. mail[p] \in Seq(Events) /\ Len(mail[p]) \in Nat /\ DOMAIN mail[p] = 1 .. Len(mail[p])
        BY <1>2, RowIs, LenProperties
    <2>2. /\ m \in Seq(Events) /\ Len(m) = 1 + Len(mail[p])
          /\ \A i \in 1 .. 1 + Len(mail[p]) : m[i] = IF i <= 1 THEN events[i] ELSE mail[p][i - 1]
        BY <1>6, <1>8, <2>1, ConcatProperties
    <2>3. DOMAIN m = 1 .. 1 + Len(mail[p])
        BY <2>2, LenProperties
    <2>4. QED
        BY <1>6, <2>1, <2>2, <2>3
<1>10. \A k \in Handler \ {h} : WorksOn(k, p) => /\ WorksOn(k, p)'
                                                 /\ step'[k] = step[k] /\ job'[k] = job[k]
    BY <1>2 DEF WorksOn, Working, Only
<1>11. ASSUME NEW E, Outstanding(p, E) PROVE Outstanding(p, E)'
    <2>1. CASE \E k \in DOMAIN mail[p] : mail[p][k] \in E
        BY <1>7, <1>9, <2>1 DEF Outstanding
    <2>2. CASE \E k \in Handler : WorksOn(k, p) /\ step[k] \in {"read", "save"} /\ job[k].event \in E
        <3>1. PICK k \in Handler : WorksOn(k, p) /\ step[k] \in {"read", "save"} /\ job[k].event \in E
            BY <2>2
        <3>2. CASE k = h
            BY <1>5, <1>7, <1>9, <3>1, <3>2 DEF Outstanding
        <3>3. CASE k # h
            BY <1>10, <3>1, <3>3 DEF Outstanding
        <3>4. QED
            BY <3>2, <3>3
    <2>3. QED
        BY <1>11, <2>1, <2>2 DEF Outstanding
<1>12. Retains(p)
    <2>1. Savings' = Savings /\ Completions' = Completions /\ Overs' = Overs
        BY DEF Savings, Completions, Overs
    <2>2. QED
        BY <1>11, <2>1 DEF Retains
<1>13. Pursued(p)'
    BY <1>2, <1>12, PursuedStays
<1>14. QED
    BY <1>2, <1>3, <1>13, HandlerPursued

\* What h does not have in hand stays outstanding.
LEMMA OthersRetain ==
    ASSUME NEW p, NEW h \in Handler, Only(h), mail'[p] = mail[p], NEW E, Outstanding(p, E),
           job[h].event \notin E \/ step[h] \notin {"read", "save"}
    PROVE  Outstanding(p, E)'
<1>1. CASE \E i \in DOMAIN mail[p] : mail[p][i] \in E
    BY <1>1 DEF Outstanding
<1>2. CASE \E k \in Handler : WorksOn(k, p) /\ step[k] \in {"read", "save"} /\ job[k].event \in E
    BY <1>2 DEF Outstanding, Only, WorksOn, Working
<1>3. QED
    BY <1>1, <1>2 DEF Outstanding

\* Neither the row nor Stripe nor what waits changes, and a handler that works on p keeps
\* its event or is done with it.
LEMMA InTurnStays ==
    ASSUME NEW p, InTurn(p), row'[p] = row[p], truth'[p] = truth[p], mail'[p] = mail[p],
           \A k \in Handler : WorksOn(k, p)' =>
                /\ WorksOn(k, p) /\ job'[k].event = job[k].event /\ job'[k].sub = job[k].sub
                /\ step'[k] \in {"read", "save"} => step[k] \in {"read", "save"},
           truth[p] # "none" =>
                \A k \in Handler : WorksOn(k, p) /\ step[k] \in {"read", "save"} =>
                    WorksOn(k, p)' /\ step'[k] \in {"read", "save"}
    PROVE  InTurn(p)'
<1>1. Occupied(p)' => Occupied(p)
    BY DEF Occupied, WorksOn
<1>2. Agrees(p)' <=> Agrees(p)
    BY DEF Agrees, Live
<1>3. truth'[p] # "none" /\ Len(mail'[p]) # 0 =>
        mail'[p][Len(mail'[p])].kind = "changed" /\ mail'[p][Len(mail'[p])].sub = truth'[p]
    BY DEF InTurn
<1>4. \A i \in DOMAIN mail'[p] : mail'[p][i].kind = "completed" =>
        i = 1 /\ row'[p].sub = "none" /\ ~Occupied(p)'
    BY <1>1 DEF InTurn
<1>5. \A k \in Handler : WorksOn(k, p)' /\ job'[k].event.kind = "completed" =>
        row'[p].sub = "none" /\ Len(mail'[p]) # 0
    BY DEF InTurn
<1>6. /\ truth'[p] # "unpaid"
      /\ truth'[p] \in {"active", "past_due"} =>
            /\ row'[p].status \in Kept /\ row'[p].sub \notin TerminalSubscription
            /\ \A i \in DOMAIN mail'[p] : mail'[p][i].sub \notin TerminalSubscription
            /\ \A k \in Handler : WorksOn(k, p)' => job'[k].sub \notin TerminalSubscription
    BY DEF InTurn
<1>7. ASSUME truth'[p] # "none", Len(mail'[p]) = 0
      PROVE  \/ Agrees(p)' /\ \A k \in Handler : WorksOn(k, p)' => step'[k] \notin {"read", "save"}
             \/ \E k \in Handler :
                    /\ WorksOn(k, p)' /\ step'[k] \in {"read", "save"}
                    /\ job'[k].event.kind = "changed" /\ job'[k].sub = truth'[p]
    <2>1. CASE Agrees(p) /\ \A k \in Handler : WorksOn(k, p) => step[k] \notin {"read", "save"}
        BY <1>2, <2>1
    <2>2. CASE \E k \in Handler :
                    /\ WorksOn(k, p) /\ step[k] \in {"read", "save"}
                    /\ job[k].event.kind = "changed" /\ job[k].sub = truth[p]
        <3>1. PICK k \in Handler : /\ WorksOn(k, p) /\ step[k] \in {"read", "save"}
                                   /\ job[k].event.kind = "changed" /\ job[k].sub = truth[p]
            BY <2>2
        <3>2. WorksOn(k, p)' /\ step'[k] \in {"read", "save"}
            BY <1>7, <3>1
        <3>3. job'[k].event.kind = "changed" /\ job'[k].sub = truth'[p]
            BY <3>1, <3>2
        <3>4. QED
            BY <3>2, <3>3
    <2>3. QED
        BY <1>7, <2>1, <2>2 DEF InTurn
<1>8. QED
    BY <1>3, <1>4, <1>5, <1>6, <1>7 DEF InTurn

\* Read: what a handler leaves alone tells nothing new.
LEMMA ReadPursued ==
    ASSUME Fits, Alone, \A q \in Purchase : Told(q), \A q \in Purchase : Pursued(q),
           NEW h \in Handler, Read(h)
    PROVE  \A q \in Purchase : Pursued(q)'
<1>1. PICK p : p = job[h].purchase
    OBVIOUS
<1>2. PICK kind : kind = job[h].event.kind
    OBVIOUS
<1>3. /\ Working(h) /\ step[h] = "read" /\ Only(h) /\ p \in Purchase
      /\ row' = row /\ session' = session
      /\ truth' = truth /\ mail' = mail /\ trouble' = trouble
      /\ \/ step'[h] = "idle" /\ job'[h] = <<>>
         \/ job[h].event.kind = "abandoned"
         \/ /\ step'[h] = "save"
            /\ job'[h].event = job[h].event /\ job'[h].purchase = p /\ job'[h].sub = job[h].sub
    BY <1>1, ReadFits
<1>4. /\ WorksOn(h, p) /\ Told(p) /\ RowTold(p) /\ JobTold(p, h) /\ job[h].event \in Events
      /\ row[p].status # "none" /\ Pursued(p)
      /\ \/ kind = "expired" /\ truth[p] = "none"
         \/ kind \in Saving /\ session[p] = "complete" /\ truth[p] # "none"
    BY <1>1, <1>2, <1>3, JobIs
<1>5. step'[h] = "idle" \/ Relevant(kind, row[p])
    <2>1. kind # "abandoned"
        BY <1>4 DEF Saving
    <2>2. Relevant(kind, row[p]) \/ Finish(h)
        BY <1>1, <1>2, <2>1 DEF Read
    <2>3. Finish(h) => step'[h] = "idle"
        BY DEF Finish, Fits, TypeOK
    <2>4. QED
        BY <2>2, <2>3
<1>6. step'[h] = "idle" => ~Relevant(kind, row[p])
    <2>1. kind # "abandoned"
        BY <1>4 DEF Saving
    <2>2. Relevant(kind, row[p]) => GoesOn(h, "save")
        BY <1>1, <1>2, <2>1 DEF Read
    <2>3. GoesOn(h, "save") => step'[h] = "save"
        BY DEF GoesOn, Fits, TypeOK
    <2>4. QED
        BY <2>2, <2>3
<1>7. \A k \in Handler \ {h} : /\ WorksOn(k, p)' <=> WorksOn(k, p)
                               /\ step'[k] = step[k] /\ job'[k] = job[k]
    BY <1>3 DEF Only, WorksOn, Working
<1>8. CASE step'[h] # "idle"
    <2>1. /\ step'[h] = "save" /\ WorksOn(h, p)'
          /\ job'[h].event = job[h].event /\ job'[h].sub = job[h].sub
        BY <1>2, <1>3, <1>4, <1>8 DEF WorksOn, Working, Saving
    <2>2. ASSUME NEW E, Outstanding(p, E) PROVE Outstanding(p, E)'
        <3>1. CASE \E i \in DOMAIN mail[p] : mail[p][i] \in E
            BY <1>3, <3>1 DEF Outstanding
        <3>2. CASE \E k \in Handler :
                        WorksOn(k, p) /\ step[k] \in {"read", "save"} /\ job[k].event \in E
            BY <1>7, <2>1, <3>2 DEF Outstanding
        <3>3. QED
            BY <2>2, <3>1, <3>2 DEF Outstanding
    <2>3. Retains(p)
        <3>1. Savings' = Savings /\ Completions' = Completions /\ Overs' = Overs
            BY DEF Savings, Completions, Overs
        <3>2. QED
            BY <2>2, <3>1 DEF Retains
    <2>4. trouble' \subseteq {"lag"} => InTurn(p)'
        BY <1>3, <1>4, <1>7, <2>1, InTurnStays DEF Pursued
    <2>5. Pursued(p)'
        BY <1>3, <1>4, <2>3, <2>4, PursuedStays
    <2>6. QED
        BY <1>1, <1>3, <1>4, <2>1, <2>5, HandlerPursued DEF WorksOn
<1>9. CASE step'[h] = "idle"
    <2>1. \A k \in Handler : WorksOn(k, p)' =>
                /\ k # h /\ WorksOn(k, p) /\ step'[k] = step[k] /\ job'[k] = job[k]
        BY <1>7, <1>9 DEF WorksOn, Working
    <2>2. /\ Agrees(p)' <=> Agrees(p)
          /\ Savings' = Savings /\ Completions' = Completions /\ Overs' = Overs
        BY <1>3 DEF Agrees, Live, Savings, Completions, Overs
    <2>3. \A E : job[h].event \notin E /\ Outstanding(p, E) => Outstanding(p, E)'
        BY <1>3, OthersRetain
    <2>4. CASE kind = "expired"
        <3>1. job[h].event \notin Savings \cup Completions \cup Overs
            BY <1>2, <2>4 DEF Savings, Completions, Overs, Saving
        <3>2. Retains(p)
            BY <2>2, <2>3, <3>1 DEF Retains
        <3>3. truth[p] = "none"
            BY <1>4, <2>4 DEF Saving
        <3>4. trouble' \subseteq {"lag"} => InTurn(p)'
            BY <1>3, <1>4, <2>1, <3>3, InTurnStays DEF Pursued
        <3>5. QED
            BY <1>3, <1>4, <1>9, <3>2, <3>4, PursuedStays, HandlerPursued
    <2>5. CASE kind = "completed"
        <3>1. row[p].status = "cancelled" /\ row[p].sub # "none"
            <4>1. row[p].status \in {"none", "cancelled", "expired"}
                BY <1>6, <1>9, <2>5, RelevantIs DEF Saving
            <4>2. row[p].status # "expired"
                BY <1>4, <2>5 DEF RowTold
            <4>3. row[p].status = "cancelled"
                BY <1>4, <4>1, <4>2
            <4>4. QED
                BY <1>4, <4>3 DEF RowTold, Tied
        <3>2. Arrives(p)'
            BY <1>3, <3>1 DEF Arrives
        <3>3. ~(Steady /\ "visit" \notin trouble)
            <4>1. SUFFICES ASSUME Steady, "visit" \notin trouble PROVE FALSE
                OBVIOUS
            <4>2. IsTrue(p, job[h].event)
                BY <1>4, <4>1 DEF JobTold, Steady
            <4>3. truth[p] = "active"
                BY <1>2, <2>5, <4>2 DEF IsTrue
            <4>4. QED
                BY <1>4, <3>1, <4>1, <4>3 DEF RowTold, Kept
        <3>4. Tame /\ "lag" \notin trouble => EndComes(p)'
            <4>1. Outstanding(p, Overs) => Outstanding(p, Overs)'
                BY <1>2, <2>2, <2>3, <2>5 DEF Overs
            <4>2. QED
                BY <1>3, <1>4, <4>1 DEF Pursued, EndComes
        <3>5. ~(trouble \subseteq {"lag"})
            <4>1. SUFFICES ASSUME trouble \subseteq {"lag"} PROVE FALSE
                OBVIOUS
            <4>2. InTurn(p)
                BY <1>4, <4>1 DEF Pursued
            <4>3. row[p].sub = "none"
                BY <1>2, <1>4, <2>5, <4>2 DEF InTurn
            <4>4. QED
                BY <3>1, <4>3
        <3>6. Pursued(p)'
            <4>1. /\ (Steady /\ "visit" \notin trouble)' <=> Steady /\ "visit" \notin trouble
                  /\ (Tame /\ "lag" \notin trouble)' <=> Tame /\ "lag" \notin trouble
                BY <1>3 DEF Steady, Prompt, Tame, OnlyOneOf
            <4>2. QED
                BY <1>3, <3>2, <3>3, <3>4, <3>5, <4>1 DEF Pursued
        <3>7. QED
            BY <1>3, <1>4, <1>9, <3>6, HandlerPursued
    <2>6. CASE kind \in Saving \ {"completed"}
        <3>1. row[p].sub = "none"
            BY <1>6, <1>9, <2>6, RelevantIs
        <3>2. job[h].event \notin Completions
            BY <1>2, <2>6 DEF Completions
        <3>3. Outstanding(p, Completions) /\ Outstanding(p, Completions)'
            BY <1>4, <2>2, <2>3, <2>6, <3>1, <3>2 DEF Pursued, Arrives, Saving
        <3>4. Arrives(p)'
            BY <3>3 DEF Arrives
        <3>5. Followed(p)'
            <4>1. Completions \subseteq Savings
                BY DEF Completions, Savings, Saving
            <4>2. Outstanding(p, Savings)'
                BY <2>2, <3>3, <4>1 DEF Outstanding
            <4>3. QED
                BY <4>2 DEF Followed
        <3>6. Tame /\ "lag" \notin trouble => EndComes(p)'
            BY <1>3, <1>4, <3>1 DEF Pursued, EndComes, TerminalSubscription
        <3>7. ~(trouble \subseteq {"lag"})
            <4>1. SUFFICES ASSUME trouble \subseteq {"lag"} PROVE FALSE
                OBVIOUS
            <4>2. \A k \in Handler : WorksOn(k, p) => k = h
                BY <1>3, <1>4, <4>1 DEF Alone, WorksOn
            <4>3. \E i \in DOMAIN mail[p] : mail[p][i].kind = "completed"
                BY <3>2, <3>3, <4>2 DEF Outstanding, Completions
            <4>4. ~Occupied(p)
                BY <1>4, <4>1, <4>3 DEF Pursued, InTurn
            <4>5. QED
                BY <1>4, <4>4 DEF Occupied, WorksOn
        <3>8. Pursued(p)'
            <4>1. (Tame /\ "lag" \notin trouble)' <=> Tame /\ "lag" \notin trouble
                BY <1>3 DEF Tame, OnlyOneOf
            <4>2. QED
                BY <1>3, <3>4, <3>5, <3>6, <3>7, <4>1 DEF Pursued
        <3>9. QED
            BY <1>3, <1>4, <1>9, <3>8, HandlerPursued
    <2>7. QED
        BY <1>4, <2>4, <2>5, <2>6 DEF Saving
<1>10. QED
    BY <1>8, <1>9

\* SavePaid: only the session page confirms a payment after the end, and then the end
\* is still to come.
LEMMA SavePaidPursued ==
    ASSUME Fits, Alone, \A q \in Purchase : Told(q), \A q \in Purchase : Pursued(q),
           NEW h \in Handler, SavePaid(h)
    PROVE  \A q \in Purchase : Pursued(q)'
<1>1. PICK p : p = job[h].purchase
    OBVIOUS
<1>2. /\ Working(h) /\ step[h] = "save" /\ Only(h) /\ p \in Purchase
      /\ job[h].event.kind = "completed" /\ job[h].seen \in Row
      /\ session' = session /\ truth' = truth /\ mail' = mail
      /\ trouble' = trouble /\ step'[h] = "idle"
      /\ row'[p] = PaidRow(job[h].seen, job[h].sub)
      /\ \A q \in Purchase \ {p} : row'[q] = row[q]
    BY <1>1, SavePaidFits
<1>3. Told(p) /\ RowTold(p) /\ JobTold(p, h) /\ WorksOn(h, p) /\ Pursued(p)
    BY <1>1, <1>2, JobIs
<1>4. /\ truth[p] # "none" /\ job[h].sub # "none"
      /\ job[h].seen.status \in {"checkout_pending", "paid", "completed"}
      /\ Prompt => job[h].sub = truth[p]
      /\ "visit" \notin trouble => job[h].mailed
      /\ Prompt /\ job[h].mailed => truth[p] = "active"
    BY <1>1, <1>2, SaverIs DEF Saving, IsTrue
<1>5. /\ row'[p].status = IF job[h].seen.status = "checkout_pending" THEN "paid"
                          ELSE job[h].seen.status
      /\ row'[p].sub = job[h].sub /\ ~row'[p].delinquent
    <2>1. /\ row'[p].status = IF job[h].seen.status = "checkout_pending" THEN "paid"
                              ELSE job[h].seen.status
          /\ row'[p].sub = job[h].sub
        BY <1>2, PaidIs
    <2>2. ~PaidRow(job[h].seen, job[h].sub).delinquent
        BY <1>2, DebtIs
    <2>3. QED
        BY <1>2, <2>1, <2>2
<1>6. row'[p].status \in {"paid", "completed"}
    BY <1>4, <1>5
<1>7. "overlap" \notin trouble =>
        job[h].seen = row[p] /\ \A k \in Handler : WorksOn(k, p) => k = h
    BY <1>1, <1>2 DEF Alone, WorksOn, Saving
<1>8. Outstanding(p, Overs) => Outstanding(p, Overs)'
    BY <1>2, OthersRetain DEF Overs
<1>9. Arrives(p)'
    BY <1>4, <1>5 DEF Arrives
<1>10. (Steady /\ "visit" \notin trouble)' => Followed(p)'
    <2>1. SUFFICES ASSUME Steady, "visit" \notin trouble PROVE Agrees(p)'
        BY <1>2 DEF Followed, Steady, Prompt
    <2>2. truth[p] = "active" /\ job[h].sub = "active"
        BY <1>4, <2>1 DEF Steady
    <2>3. QED
        BY <1>2, <1>5, <1>6, <2>2 DEF Agrees, DelinquentSubscription, TerminalSubscription
<1>11. (Tame /\ "lag" \notin trouble)' => EndComes(p)'
    <2>1. SUFFICES ASSUME Tame, "lag" \notin trouble PROVE EndComes(p)'
        BY <1>2 DEF Tame, OnlyOneOf
    <2>2. Prompt /\ job[h].sub = truth[p]
        BY <1>4, <2>1, TameIs
    <2>3. ASSUME row'[p].status = "paid", truth[p] \in TerminalSubscription
          PROVE  truth[p] = "canceled" /\ Outstanding(p, Overs)'
        <3>1. "visit" \in trouble
            BY <1>4, <2>2, <2>3 DEF TerminalSubscription
        <3>2. Steady /\ "overlap" \notin trouble /\ job[h].seen = row[p]
            BY <1>7, <2>1, <3>1, TameIs
        <3>3. truth[p] = "canceled"
            BY <1>2, <1>3, <2>3, <3>2, RowIs DEF RowTold, TerminalSubscription, Subscription
        <3>4. EndComes(p)
            BY <1>3, <2>1 DEF Pursued
        <3>5. row[p].sub # "none"
            BY <2>3, <3>4 DEF EndComes
        <3>6. row[p].status = "paid"
            BY <1>3, <1>4, <1>5, <2>3, <3>2, <3>5 DEF RowTold, Tied
        <3>7. Outstanding(p, Overs)
            BY <2>3, <3>4, <3>6 DEF EndComes
        <3>8. QED
            BY <1>8, <3>3, <3>7
    <2>4. QED
        BY <1>2, <1>4, <1>5, <2>2, <2>3 DEF EndComes
<1>12. trouble' \subseteq {"lag"} => InTurn(p)'
    <2>1. SUFFICES ASSUME trouble \subseteq {"lag"} PROVE InTurn(p)'
        BY <1>2
    <2>2. InTurn(p) /\ \A k \in Handler : WorksOn(k, p) => k = h
        BY <1>3, <1>7, <2>1 DEF Pursued
    <2>3. Len(mail[p]) # 0
        BY <1>2, <1>3, <2>2 DEF InTurn
    <2>4. \A k \in Handler : ~WorksOn(k, p)'
        BY <1>2, <2>2 DEF Only, WorksOn, Working
    <2>5. \A i \in DOMAIN mail[p] : mail[p][i].kind # "completed"
        BY <1>3, <2>2 DEF InTurn, Occupied, WorksOn
    <2>6. mail[p][Len(mail[p])].kind = "changed" /\ mail[p][Len(mail[p])].sub = truth[p]
        BY <1>4, <2>2, <2>3 DEF InTurn
    <2>7. truth[p] # "unpaid"
        BY <2>2 DEF InTurn
    <2>8. truth[p] \in {"active", "past_due"} =>
            /\ job[h].sub \notin TerminalSubscription
            /\ \A i \in DOMAIN mail[p] : mail[p][i].sub \notin TerminalSubscription
        BY <1>3, <2>2 DEF InTurn
    <2>9. QED
        BY <1>2, <1>5, <1>6, <2>3, <2>4, <2>5, <2>6, <2>7, <2>8 DEF InTurn, Kept
<1>13. Pursued(p)'
    BY <1>9, <1>10, <1>11, <1>12 DEF Pursued
<1>14. QED
    BY <1>2, <1>3, <1>13, HandlerPursued

\* SaveSubscription: the row is what Stripe asks for.
LEMMA SaveSubscriptionPursued ==
    ASSUME Fits, Alone, \A q \in Purchase : Told(q), \A q \in Purchase : Pursued(q),
           NEW h \in Handler, SaveSubscription(h)
    PROVE  \A q \in Purchase : Pursued(q)'
<1>1. PICK p : p = job[h].purchase
    OBVIOUS
<1>2. PICK kind : kind = job[h].event.kind
    OBVIOUS
<1>3. /\ Working(h) /\ step[h] = "save" /\ Only(h) /\ p \in Purchase
      /\ kind \in {"changed", "invoice_paid", "invoice_failed"} /\ job[h].seen \in Row
      /\ session' = session /\ truth' = truth /\ mail' = mail
      /\ trouble' = trouble
      /\ row'[p] = SyncedRow(job[h].seen, kind, job[h].sub)
      /\ \A q \in Purchase \ {p} : row'[q] = row[q]
      /\ (step'[h] # "idle" => job'[h] = job[h] /\ step'[h] \notin {"read", "save"})
    BY <1>1, <1>2, SaveSubscriptionFits
<1>4. /\ Told(p) /\ RowTold(p) /\ JobTold(p, h) /\ WorksOn(h, p) /\ Pursued(p)
      /\ truth[p] \in Subscription
    BY <1>1, <1>3, JobIs, RowIs
<1>5. /\ truth[p] # "none" /\ job[h].sub # "none"
      /\ job[h].seen.status \in {"paid", "completed", "cancelled"}
      /\ Prompt => job[h].sub = truth[p]
      /\ Steady /\ truth[p] \in {"active", "past_due"} => job[h].seen.status \in Kept
      /\ Prompt => IsTrue(p, job[h].event)
    BY <1>1, <1>2, <1>3, SaverIs DEF Saving
<1>6. /\ row'[p].status = IF job[h].sub \in TerminalSubscription /\ job[h].seen.status = "paid"
                          THEN "cancelled" ELSE job[h].seen.status
      /\ row'[p].sub = job[h].sub
    BY <1>3, <1>5, SyncedIs
<1>7. row'[p].delinquent <=> IF kind \in {"invoice_failed", "invoice_paid"}
                             THEN kind = "invoice_failed"
                             ELSE job[h].sub \in DelinquentSubscription
    BY <1>3, DebtIs
<1>8. "overlap" \notin trouble =>
        job[h].seen = row[p] /\ \A k \in Handler : WorksOn(k, p) => k = h
    BY <1>1, <1>2, <1>3 DEF Alone, WorksOn, Saving
<1>9. row'[p].status = "paid" => job[h].sub \notin TerminalSubscription
    BY <1>5, <1>6
<1>10. Arrives(p)'
    BY <1>5, <1>6 DEF Arrives
<1>11. ASSUME job[h].sub = truth[p],
              truth[p] \in {"active", "past_due"} => job[h].seen.status \in Kept,
              truth[p] # "unpaid",
              kind = "invoice_failed" => truth[p] = "past_due",
              kind = "invoice_paid" => truth[p] = "active"
       PROVE  Agrees(p)'
    <2>1. truth[p] \in {"active", "past_due", "canceled"}
        BY <1>4, <1>5, <1>11 DEF Subscription
    <2>2. row'[p].delinquent <=> truth[p] \in DelinquentSubscription
        BY <1>3, <1>7, <1>11 DEF DelinquentSubscription
    <2>3. truth[p] \notin TerminalSubscription => row'[p].status \in {"paid", "completed"}
        BY <1>5, <1>6, <1>11, <2>1 DEF TerminalSubscription, Kept
    <2>4. truth[p] \in TerminalSubscription => ~Live(p)'
        BY <1>5, <1>6, <1>11 DEF Live
    <2>5. QED
        BY <1>3, <1>6, <1>11, <2>2, <2>3, <2>4 DEF Agrees
<1>12. (Steady /\ "visit" \notin trouble)' => Followed(p)'
    <2>1. SUFFICES ASSUME Steady PROVE Agrees(p)'
        BY <1>3 DEF Followed, Steady, Prompt
    <2>2. IsTrue(p, job[h].event) /\ job[h].sub = truth[p]
        BY <1>5, <2>1 DEF Steady
    <2>3. /\ truth[p] # "unpaid"
          /\ truth[p] \in {"active", "past_due"} => job[h].seen.status \in Kept
        BY <1>4, <1>5, <2>1 DEF RowTold
    <2>4. QED
        BY <1>2, <1>11, <2>2, <2>3 DEF IsTrue
<1>13. (Tame /\ "lag" \notin trouble)' => EndComes(p)'
    <2>1. SUFFICES ASSUME Tame, "lag" \notin trouble PROVE EndComes(p)'
        BY <1>3 DEF Tame, OnlyOneOf
    <2>2. job[h].sub = truth[p]
        BY <1>5, <2>1, TameIs
    <2>3. QED
        BY <1>3, <1>5, <1>6, <1>9, <2>2 DEF EndComes
<1>14. trouble' \subseteq {"lag"} => InTurn(p)'
    <2>1. SUFFICES ASSUME trouble \subseteq {"lag"} PROVE InTurn(p)'
        BY <1>3
    <2>2. InTurn(p) /\ job[h].seen = row[p] /\ \A k \in Handler : WorksOn(k, p) => k = h
        BY <1>4, <1>8, <2>1 DEF Pursued
    <2>3. \A k \in Handler : WorksOn(k, p)' =>
            k = h /\ job'[k] = job[k] /\ step'[k] \notin {"read", "save"}
        BY <1>3, <2>2 DEF Only, WorksOn, Working
    <2>4. \A i \in DOMAIN mail[p] : mail[p][i].kind # "completed"
        BY <1>4, <2>2 DEF InTurn, Occupied, WorksOn
    <2>5. /\ Len(mail[p]) # 0 =>
                mail[p][Len(mail[p])].kind = "changed" /\ mail[p][Len(mail[p])].sub = truth[p]
          /\ truth[p] # "unpaid"
        BY <1>5, <2>2 DEF InTurn
    <2>6. truth[p] \in {"active", "past_due"} =>
            /\ job[h].sub \notin TerminalSubscription /\ row[p].status \in Kept
            /\ \A i \in DOMAIN mail[p] : mail[p][i].sub \notin TerminalSubscription
        BY <1>4, <2>2 DEF InTurn
    <2>7. truth[p] \in {"active", "past_due"} => row'[p].status \in Kept
        BY <1>6, <2>2, <2>6
    <2>8. Len(mail[p]) = 0 => Agrees(p)'
        <3>1. SUFFICES ASSUME Len(mail[p]) = 0 PROVE Agrees(p)'
            OBVIOUS
        <3>2. kind = "changed" /\ job[h].sub = truth[p]
            <4>1. step[h] \in {"read", "save"}
                BY <1>3
            <4>2. \E k \in Handler : WorksOn(k, p) /\ job[k].event.kind = "changed"
                                                   /\ job[k].sub = truth[p]
                BY <1>4, <1>5, <2>2, <3>1, <4>1 DEF InTurn
            <4>3. QED
                BY <1>2, <2>2, <4>2
        <3>3. QED
            BY <1>11, <2>2, <2>5, <2>6, <3>2
    <2>9. \A k \in Handler : WorksOn(k, p)' => job'[k].event.kind # "completed"
        BY <1>2, <1>3, <2>3
    <2>10. QED
        BY <1>3, <1>6, <2>3, <2>4, <2>5, <2>6, <2>7, <2>8, <2>9 DEF InTurn
<1>15. Pursued(p)'
    BY <1>10, <1>12, <1>13, <1>14 DEF Pursued
<1>16. step'[h] = "idle" \/ job'[h].purchase = p
    BY <1>1, <1>3
<1>17. QED
    BY <1>3, <1>4, <1>15, <1>16, HandlerPursued

\* CloseIfPending: Stripe has no subscription.
LEMMA ClosePursued ==
    ASSUME Fits, \A q \in Purchase : Told(q), \A q \in Purchase : Pursued(q),
           NEW h \in Handler, CloseIfPending(h)
    PROVE  \A q \in Purchase : Pursued(q)'
<1>1. PICK p : p = job[h].purchase
    OBVIOUS
<1>2. /\ Working(h) /\ step[h] = "save" /\ Only(h) /\ p \in Purchase
      /\ job[h].event.kind \in {"expired", "abandoned"}
      /\ session' = session /\ truth' = truth /\ mail' = mail
      /\ trouble' = trouble /\ \A q \in Purchase \ {p} : row'[q] = row[q]
      /\ IF row[p].status = "checkout_pending"
         THEN /\ row'[p].status = IF job[h].event.kind = "expired" THEN "expired"
                                  ELSE "cancelled"
              /\ row'[p].sub = row[p].sub
         ELSE row'[p] = row[p]
      /\ (step'[h] # "idle" => job'[h] = job[h] /\ step'[h] \notin {"read", "save"})
    BY <1>1, CloseFits
<1>3. /\ WorksOn(h, p) /\ truth[p] = "none" /\ Pursued(p) /\ job[h].event.kind = "expired"
    BY <1>1, <1>2, JobIs DEF Saving
<1>4. row'[p].sub = row[p].sub /\ (row'[p].status = "paid" => row[p].status = "paid")
    BY <1>2, <1>3
<1>5. Arrives(p)' /\ Followed(p)'
    BY <1>2, <1>3 DEF Arrives, Followed
<1>6. (Tame /\ "lag" \notin trouble)' => EndComes(p)'
    <2>1. SUFFICES ASSUME EndComes(p) PROVE EndComes(p)'
        BY <1>2, <1>3 DEF Pursued, Tame, OnlyOneOf
    <2>2. QED
        BY <1>2, <1>3, <1>4, <2>1 DEF EndComes, TerminalSubscription
<1>7. \A k \in Handler : WorksOn(k, p)' => WorksOn(k, p) /\ job'[k] = job[k]
    BY <1>2, <1>3 DEF Only, WorksOn, Working
<1>8. trouble' \subseteq {"lag"} => InTurn(p)'
    <2>1. SUFFICES ASSUME InTurn(p) PROVE InTurn(p)'
        BY <1>2, <1>3 DEF Pursued
    <2>2. Occupied(p)' => Occupied(p)
        BY <1>7 DEF Occupied, WorksOn
    <2>3. \A i \in DOMAIN mail'[p] : mail'[p][i].kind = "completed" =>
            i = 1 /\ row'[p].sub = "none" /\ ~Occupied(p)'
        BY <1>2, <1>4, <2>1, <2>2 DEF InTurn
    <2>4. \A k \in Handler : WorksOn(k, p)' /\ job'[k].event.kind = "completed" =>
            row'[p].sub = "none" /\ Len(mail'[p]) # 0
        BY <1>2, <1>4, <1>7, <2>1 DEF InTurn
    <2>5. QED
        BY <1>2, <1>3, <2>3, <2>4 DEF InTurn
<1>9. Pursued(p)'
    BY <1>5, <1>6, <1>8 DEF Pursued
<1>10. step'[h] = "idle" \/ job'[h].purchase = p
    BY <1>1, <1>2
<1>11. QED
    BY <1>2, <1>3, <1>9, <1>10, HandlerPursued

\* Release and Reallocate
LEMMA SlotStepPursued ==
    ASSUME Fits, \A q \in Purchase : Told(q), \A q \in Purchase : Pursued(q),
           NEW h \in Handler, Release(h) \/ Reallocate(h)
    PROVE  \A q \in Purchase : Pursued(q)'
<1>1. PICK p : p = job[h].purchase
    OBVIOUS
<1>2. /\ Working(h) /\ Only(h) /\ p \in Purchase /\ step[h] \notin {"read", "save"}
      /\ row' = row /\ session' = session /\ truth' = truth /\ mail' = mail
      /\ trouble' = trouble /\ step'[h] = "idle"
    BY <1>1, SlotStepFits
<1>3. WorksOn(h, p) /\ Pursued(p)
    BY <1>1, <1>2, JobIs
<1>4. \A E : Outstanding(p, E) => Outstanding(p, E)'
    BY <1>2, OthersRetain
<1>5. Retains(p)
    <2>1. Savings' = Savings /\ Completions' = Completions /\ Overs' = Overs
        BY DEF Savings, Completions, Overs
    <2>2. QED
        BY <1>4, <2>1 DEF Retains
<1>6. /\ \A k \in Handler : WorksOn(k, p)' =>
                WorksOn(k, p) /\ job'[k] = job[k] /\ step'[k] = step[k]
      /\ \A k \in Handler : WorksOn(k, p) /\ step[k] \in {"read", "save"} =>
                WorksOn(k, p)' /\ step'[k] \in {"read", "save"}
    BY <1>2 DEF Only, WorksOn, Working
<1>7. trouble' \subseteq {"lag"} => InTurn(p)'
    BY <1>2, <1>3, <1>6, InTurnStays DEF Pursued
<1>8. Pursued(p)'
    BY <1>2, <1>3, <1>5, <1>7, PursuedStays
<1>9. QED
    BY <1>2, <1>3, <1>8, HandlerPursued

\* The worker and the operator: they serve a customer who has a claim.
LEMMA DeskPursued ==
    ASSUME Fits, \A q \in Purchase : Pursued(q), NEW p \in Purchase,
           Provision(p) \/ ReleaseReady(p) \/ Suspend(p)
    PROVE  \A q \in Purchase : Pursued(q)'
<1>1. /\ row'[p].sub = row[p].sub /\ row'[p].delinquent = row[p].delinquent
      /\ row[p].status \in {"paid", "completed"} /\ row'[p].status \in {"paid", "completed"}
      /\ row'[p].status = "paid" => row[p].status = "paid"
      /\ Live(p)
      /\ session' = session /\ truth' = truth /\ mail' = mail
      /\ step' = step /\ job' = job /\ trouble \subseteq trouble'
      /\ \A q \in Purchase \ {p} : Beside(q)
    BY DeskIs
<1>2. \A q \in Purchase \ {p} : Pursued(q)'
    BY <1>1, BesidePursued
<1>3. Pursued(p)
    OBVIOUS
<1>4. \A k \in Handler : WorksOn(k, p)' <=> WorksOn(k, p)
    BY <1>1 DEF WorksOn, Working
<1>5. Retains(p)
    BY <1>1, <1>4 DEF Retains, Outstanding, Savings, Completions, Overs
<1>6. Agrees(p) => Agrees(p)'
    BY <1>1 DEF Agrees
<1>7. Arrives(p)'
    BY <1>1, <1>3, <1>5 DEF Pursued, Arrives, Retains
<1>8. (Steady /\ "visit" \notin trouble)' => Followed(p)'
    BY <1>1, <1>3, <1>5, <1>6, TroubleLasts DEF Pursued, Followed, Retains
<1>9. (Tame /\ "lag" \notin trouble)' => EndComes(p)'
    <2>1. SUFFICES ASSUME EndComes(p) PROVE EndComes(p)'
        BY <1>1, <1>3, TroubleLasts DEF Pursued
    <2>2. QED
        BY <1>1, <1>5, <2>1 DEF EndComes, Retains
<1>10. trouble' \subseteq {"lag"} => InTurn(p)'
    <2>1. SUFFICES ASSUME InTurn(p) PROVE InTurn(p)'
        BY <1>1, <1>3, TroubleLasts DEF Pursued
    <2>2. Occupied(p)' <=> Occupied(p)
        BY <1>4 DEF Occupied, WorksOn
    <2>3. /\ truth'[p] # "none" /\ Len(mail'[p]) # 0 =>
                mail'[p][Len(mail'[p])].kind = "changed" /\ mail'[p][Len(mail'[p])].sub = truth'[p]
          /\ \A i \in DOMAIN mail'[p] : mail'[p][i].kind = "completed" =>
                i = 1 /\ row'[p].sub = "none" /\ ~Occupied(p)'
        BY <1>1, <2>1, <2>2 DEF InTurn
    <2>4. \A k \in Handler : WorksOn(k, p)' /\ job'[k].event.kind = "completed" =>
            row'[p].sub = "none" /\ Len(mail'[p]) # 0
        BY <1>1, <1>4, <2>1 DEF InTurn
    <2>5. /\ truth'[p] # "unpaid"
          /\ truth'[p] \in {"active", "past_due"} =>
                /\ row'[p].status \in Kept /\ row'[p].sub \notin TerminalSubscription
                /\ \A i \in DOMAIN mail'[p] : mail'[p][i].sub \notin TerminalSubscription
                /\ \A k \in Handler : WorksOn(k, p)' => job'[k].sub \notin TerminalSubscription
        BY <1>1, <1>4, <2>1 DEF InTurn, Kept
    <2>6. truth'[p] # "none" /\ Len(mail'[p]) = 0 =>
            \/ Agrees(p)' /\ \A k \in Handler : WorksOn(k, p)' => step'[k] \notin {"read", "save"}
            \/ \E k \in Handler :
                    /\ WorksOn(k, p)' /\ step'[k] \in {"read", "save"}
                    /\ job'[k].event.kind = "changed" /\ job'[k].sub = truth'[p]
        BY <1>1, <1>4, <1>6, <2>1 DEF InTurn
    <2>7. QED
        BY <2>3, <2>4, <2>5, <2>6 DEF InTurn
<1>11. Pursued(p)'
    BY <1>7, <1>8, <1>9, <1>10 DEF Pursued
<1>12. QED
    BY <1>2, <1>11

\* What is under way, and what of it is still to come.
Heard == (\A p \in Purchase : Told(p)) /\ (\A p \in Purchase : Pursued(p))

\* Every step, as long as no clean-up and no edit has interfered.
LEMMA NextHeard ==
    ASSUME Fits, Alone, Gentle => Heard, Next
    PROVE  Gentle' => Heard'
<1>1. trouble \subseteq trouble'
    BY MoreTrouble
<1>2. SUFFICES ASSUME Heard, Gentle' PROVE Heard'
    BY <1>1, TroubleLasts
<1>3. (\A p \in Purchase : Told(p)) /\ (\A p \in Purchase : Pursued(p))
    BY <1>2 DEF Heard
<1>4. \A p \in Purchase : Told(p)'
    BY <1>2, <1>3, NextTold DEF Gentle
<1>5. \A p \in Purchase : Pursued(p)'
    <2>1. CASE \E p \in Purchase, s \in Slot : Checkout(p, s)
        BY <1>3, <2>1, CheckoutPursued
    <2>2. CASE \E p \in Purchase, s \in Slot, h \in Handler : CheckoutFails(h, p, s)
        BY <1>2, <2>2, FailureFits DEF Gentle
    <2>3. CASE \E p \in Purchase : StripeStep(p)
        BY <1>3, <2>3, StripePursued
    <2>4. CASE \E p \in Purchase : Provision(p) \/ ReleaseReady(p) \/ Suspend(p)
        BY <1>3, <2>4, DeskPursued
    <2>5. CASE \E p \in Purchase, newStatus \in PurchaseStatus, newSlot \in ServerStatus,
                    access \in {"keep", "suspend", "reinstate"} :
                    Override(p, newStatus, newSlot, access)
        BY <1>2, <2>5, OverrideFits DEF Gentle
    <2>6. CASE \E h \in Handler, p \in Purchase :
                    Visit(h, p) \/ \E i \in 1 .. MaxMail : Receive(h, p, i)
        BY <1>3, <2>6, VisitPursued, ReceivePursued
    <2>7. CASE \E h \in Handler : Read(h) \/ SavePaid(h) \/ SaveSubscription(h) \/ CloseIfPending(h)
        BY <1>3, <2>7, ReadPursued, SavePaidPursued, SaveSubscriptionPursued, ClosePursued
    <2>8. CASE \E h \in Handler : Release(h) \/ Reallocate(h) \/ Dies(h) \/ Repeat(h)
        BY <1>2, <1>3, <2>8, SlotStepPursued, DiesPursued, RepeatPursued
    <2>9. QED
        BY <2>1, <2>2, <2>3, <2>4, <2>5, <2>6, <2>7, <2>8 DEF Next, HandlerStep
<1>6. QED
    BY <1>4, <1>5 DEF Heard

\* And no step at all.
LEMMA StutterHeard == (Gentle => Heard) /\ UNCHANGED vars => (Gentle' => Heard')
<1>1. SUFFICES ASSUME Heard, Gentle', UNCHANGED vars, Gentle => Heard PROVE Heard'
    <2>1. UNCHANGED vars /\ Gentle' => Gentle
        BY DEF vars, Gentle
    <2>2. QED
        BY <2>1
<1>2. /\ row' = row /\ session' = session /\ truth' = truth
      /\ mail' = mail /\ step' = step /\ job' = job /\ trouble \subseteq trouble'
    BY <1>1 DEF vars, stripeVars, handlerVars
<1>3. \A q \in Purchase : Beside(q)
    BY <1>2 DEF Beside
<1>4. QED
    BY <1>1, <1>2, <1>3, BesideTold, BesidePursued DEF Heard

\* In the beginning nothing is under way.
LEMMA InitHeard == Init => Heard
<1>1. SUFFICES ASSUME Init PROVE Heard
    OBVIOUS
<1>2. /\ \A p \in Purchase : session[p] = "none" /\ truth[p] = "none"
      /\ \A h \in Handler : ~Working(h)
    BY <1>1 DEF Init, Working
<1>3. PICK e : e = <<>>
    OBVIOUS
<1>4. e \in Seq(Events) /\ Len(e) = 0
    BY <1>3, EmptySeq, Zenon
<1>5. DOMAIN e = {}
    BY <1>4, LenProperties
<1>6. mail = [p \in Purchase |-> e]
    BY <1>1, <1>3, Zenon DEF Init
<1>7. \A p \in Purchase : DOMAIN mail[p] = {}
    BY <1>5, <1>6
<1>8. PICK r : r = NoRow
    OBVIOUS
<1>9. row = [p \in Purchase |-> r]
    BY <1>1, <1>8, Zenon DEF Init
<1>10. \A p \in Purchase : row[p].status = "none" /\ row[p].sub = "none"
    BY <1>8, <1>9 DEF NoRow
<1>11. \A p \in Purchase : RowTold(p)
    BY <1>2, <1>10 DEF RowTold, Tied
<1>12. \A p \in Purchase : Told(p)
    BY <1>2, <1>7, <1>11 DEF Told, WorksOn
<1>13. \A p \in Purchase : Arrives(p) /\ Followed(p) /\ EndComes(p)
    BY <1>2, <1>10 DEF Arrives, Followed, EndComes, TerminalSubscription
<1>14. \A p \in Purchase : InTurn(p)
    BY <1>2, <1>7 DEF InTurn, WorksOn
<1>15. QED
    BY <1>12, <1>13, <1>14 DEF Heard, Pursued

\* A purchase about which nothing is under way agrees with Stripe.
LEMMA QuietAgrees ==
    ASSUME Fits, NEW p \in Purchase, Pursued(p), session[p] = "complete", Quiet(p),
           (Steady /\ "visit" \notin trouble) \/ trouble \subseteq {"lag"}
    PROVE  Agrees(p)
<1>1. truth[p] # "none"
    BY RowIs DEF RowFits
<1>2. mail[p] = <<>> /\ \A h \in Handler : ~WorksOn(h, p)
    BY DEF Quiet, Occupied, WorksOn
<1>3. Len(mail[p]) = 0
    BY <1>2, EmptySeq, Zenon
<1>4. DOMAIN mail[p] = {}
    BY <1>3, RowIs, LenProperties
<1>5. ~Outstanding(p, Savings)
    BY <1>2, <1>4 DEF Outstanding
<1>6. CASE Steady /\ "visit" \notin trouble
    BY <1>1, <1>5, <1>6 DEF Pursued, Followed
<1>7. CASE trouble \subseteq {"lag"}
    <2>1. InTurn(p)
        BY <1>7 DEF Pursued
    <2>2. QED
        BY <1>1, <1>2, <1>3, <2>1 DEF InTurn
<1>8. QED
    BY <1>6, <1>7

\* Nothing that Stripe knows is lost.
THEOREM HeardAlways == Spec => [](Fits /\ (Gentle => Heard))
<1>1. Init => Fits /\ Alone /\ (Gentle => Heard)
    BY InitFits, InitHeard DEF Init, Alone, Working
<1>2. Fits /\ Alone /\ (Gentle => Heard) /\ [Next]_vars =>
            Fits' /\ Alone' /\ (Gentle' => Heard')
    BY NextFits, StutterFits, NextAlone, StutterAlone, NextHeard, StutterHeard
<1>3. QED
    BY <1>1, <1>2, PTL DEF Spec

\* When all events have been handled the purchase agrees with Stripe, after each kind of
\* trouble with the order of the events and with the handlers.
THEOREM StripeIsFollowed == Spec => []FollowsStripe
<1>1. Fits /\ (Gentle => Heard) => FollowsStripe
    <2>1. SUFFICES ASSUME Fits, Gentle => Heard,
                          OnlyOneOf({"lag", "reorder", "repeat", "overlap", "crash"}),
                          NEW p \in Purchase, session[p] = "complete", Quiet(p)
                   PROVE  Agrees(p)
        BY DEF FollowsStripe, Agrees
    <2>2. trouble \subseteq {"lag"} \/ (Steady /\ "visit" \notin trouble)
        BY <2>1 DEF OnlyOneOf, Steady, Prompt
    <2>3. Gentle
        BY <2>1 DEF OnlyOneOf, Gentle
    <2>4. Pursued(p)
        BY <2>1, <2>3 DEF Heard
    <2>5. QED
        BY <2>1, <2>2, <2>4, QuietAgrees
<1>2. QED
    BY <1>1, HeardAlways, PTL

\* And also after all of these together, as long as Stripe waits until it was heard: the
\* runs have them one at a time.
FollowsAfterAll ==
    trouble \subseteq {"reorder", "repeat", "overlap", "crash"} =>
        \A p \in Purchase : session[p] = "complete" /\ Quiet(p) => Agrees(p)

THEOREM StripeIsFollowedAfterAll == Spec => []FollowsAfterAll
<1>1. Fits /\ (Gentle => Heard) => FollowsAfterAll
    <2>1. SUFFICES ASSUME Fits, Gentle => Heard,
                          trouble \subseteq {"reorder", "repeat", "overlap", "crash"},
                          NEW p \in Purchase, session[p] = "complete", Quiet(p)
                   PROVE  Agrees(p)
        BY DEF FollowsAfterAll
    <2>2. Steady /\ "visit" \notin trouble /\ Gentle
        BY <2>1 DEF Steady, Prompt, Gentle
    <2>3. Pursued(p)
        BY <2>1, <2>2 DEF Heard
    <2>4. QED
        BY <2>1, <2>2, <2>3, QuietAgrees
<1>2. QED
    BY <1>1, HeardAlways, PTL

(***************************************************************************)
(* Nobody leaves with a slot                                               *)
(***************************************************************************)

\* A purchase that has a claim on its slot or is about to let it go,
Answers(p) == Live(p) \/ Leaving(p)

\* and every slot that is taken has one.
LEMMA OwnedIs ==
    Owned <=> \A s \in Slot : slot[s] # "available" =>
                \E p \in Purchase : row[p].serverId = s /\ Answers(p)
BY DEF Owned, Answers

\* Whoever answers for a slot goes on to, or the slot is for sale.
LEMMA OwnedMove ==
    ASSUME Owned,
           \A s \in Slot : slot'[s] # "available" =>
                \/ slot[s] # "available"
                \/ \E p \in Purchase : row'[p].serverId = s /\ Answers(p)',
           \A p \in Purchase : Answers(p) /\ slot'[row[p].serverId] # "available" =>
                row'[p].serverId = row[p].serverId /\ Answers(p)'
    PROVE  Owned'
<1>1. SUFFICES ASSUME NEW s \in Slot, slot'[s] # "available"
               PROVE  \E p \in Purchase : row'[p].serverId = s /\ Answers(p)'
    BY DEF Owned, Answers
<1>2. CASE slot[s] # "available"
    <2>1. PICK p \in Purchase : row[p].serverId = s /\ Answers(p)
        BY <1>2, OwnedIs
    <2>2. row'[p].serverId = s /\ Answers(p)'
        BY <1>1, <2>1
    <2>3. QED
        BY <2>2
<1>3. QED
    BY <1>1, <1>2

\* A purchase that stays what it is.
LEMMA AnswersStay ==
    ASSUME NEW p, Answers(p), row'[p] = row[p],
           row[p].sub # "none" /\ Outstanding(p, Overs) => Outstanding(p, Overs)',
           \A h \in Handler : WorksOn(h, p) /\ step[h] = "release" =>
                WorksOn(h, p)' /\ step'[h] = "release"
    PROVE  Answers(p)'
<1>1. Live(p)' <=> Live(p)
    BY DEF Live
<1>2. Leaving(p) => Leaving(p)'
    BY DEF Leaving
<1>3. QED
    BY <1>1, <1>2 DEF Answers

\* A purchase beside the step.
LEMMA BesideAnswers ==
    ASSUME NEW q \in Purchase, Beside(q), Answers(q)
    PROVE  row'[q].serverId = row[q].serverId /\ Answers(q)'
<1>1. row'[q] = row[q] /\ mail'[q] = mail[q]
    BY DEF Beside
<1>2. \A h \in Handler :
        /\ WorksOn(h, q)' <=> WorksOn(h, q)
        /\ WorksOn(h, q) => step'[h] = step[h] /\ job'[h] = job[h]
    BY DEF Beside, WorksOn, Working
<1>3. Outstanding(q, Overs) => Outstanding(q, Overs)'
    BY <1>1, <1>2 DEF Outstanding, Overs
<1>4. QED
    BY <1>1, <1>2, <1>3, AnswersStay

\* A step of h about p.
LEMMA HandlerOwned ==
    ASSUME Owned, NEW p \in Purchase, NEW h \in Handler, Only(h), ~Working(h) \/ WorksOn(h, p),
           step'[h] = "idle" \/ job'[h].purchase = p, session' = session, truth' = truth,
           \A q \in Purchase \ {p} : row'[q] = row[q] /\ mail'[q] = mail[q],
           row'[p].serverId = row[p].serverId,
           \A s \in Slot : slot'[s] # "available" => slot[s] # "available",
           Answers(p) /\ slot'[row[p].serverId] # "available" => Answers(p)'
    PROVE  Owned'
<1>1. \A q \in Purchase \ {p} : Beside(q)
    BY BesideHandler
<1>2. \A q \in Purchase : Answers(q) /\ slot'[row[q].serverId] # "available" =>
            row'[q].serverId = row[q].serverId /\ Answers(q)'
    BY <1>1, BesideAnswers
<1>3. QED
    BY <1>2, OwnedMove

\* Checkout takes a slot.
LEMMA CheckoutOwned ==
    ASSUME Fits, \A q \in Purchase : Told(q), Owned, NEW p \in Purchase, NEW s \in Slot, Checkout(p, s)
    PROVE  Owned'
<1>1. /\ session[p] = "none" /\ row[p] = NoRow
      /\ row'[p].status = "checkout_pending" /\ row'[p].serverId = s
      /\ \A q \in Purchase \ {p} : row'[q] = row[q] /\ session'[q] = session[q]
      /\ \A t \in Slot \ {s} : slot'[t] = slot[t]
      /\ truth' = truth /\ mail' = mail /\ step' = step /\ job' = job
    BY CheckoutFits
<1>2. row[p].sub = "none" /\ \A h \in Handler : ~WorksOn(h, p)
    BY <1>1, OpenIsQuiet
<1>3. ~Answers(p)
    BY <1>1, <1>2 DEF Answers, Live, Leaving, NoRow
<1>4. Answers(p)'
    BY <1>1 DEF Answers, Live
<1>5. \A q \in Purchase \ {p} : Beside(q)
    BY <1>1 DEF Beside
<1>6. \A q \in Purchase : Answers(q) /\ slot'[row[q].serverId] # "available" =>
            row'[q].serverId = row[q].serverId /\ Answers(q)'
    BY <1>3, <1>5, BesideAnswers
<1>7. \A t \in Slot : slot'[t] # "available" =>
            slot[t] # "available" \/ \E q \in Purchase : row'[q].serverId = t /\ Answers(q)'
    BY <1>1, <1>4
<1>8. QED
    BY <1>6, <1>7, OwnedMove

\* Stripe only sends more.
LEMMA StripeSends ==
    ASSUME Fits, NEW p \in Purchase, StripeStep(p)
    PROVE  \E events \in Seq(Events) :
                /\ mail' = [mail EXCEPT ![p] = @ \o events]
                /\ row' = row /\ slot' = slot /\ step' = step /\ job' = job
                /\ \A q \in Purchase \ {p} : session'[q] = session[q] /\ truth'[q] = truth[q]
<1>1. /\ {"completed", "changed", "expired", "invoice_paid", "invoice_failed"} \subseteq EventKind
      /\ {"none", "active", "past_due", "unpaid", "canceled"} \subseteq Subscription
    BY DEF EventKind, Subscription
<1>2. \A q \in Purchase \ {p} : session'[q] = session[q] /\ truth'[q] = truth[q]
    <2>1. /\ session \in [Purchase -> {"none", "open", "complete", "expired"}]
          /\ truth \in [Purchase -> Subscription]
        BY DEF Fits, TypeOK
    <2>2. CASE Pay(p) \/ SessionExpires(p)
        BY <2>1, <2>2 DEF Pay, SessionExpires
    <2>3. CASE RenewalFails(p) \/ RenewalSucceeds(p)
        BY <2>1, <2>3 DEF RenewalFails, RenewalSucceeds
    <2>4. CASE Ends(p) \/ TurnsUnpaid(p)
        BY <2>1, <2>4 DEF Ends, TurnsUnpaid
    <2>5. QED
        BY <2>2, <2>3, <2>4 DEF StripeStep
<1>3. ASSUME NEW events \in Seq(Events), Sends(p, events)
      PROVE  /\ mail' = [mail EXCEPT ![p] = @ \o events]
             /\ row' = row /\ slot' = slot /\ step' = step /\ job' = job
    BY <1>3, SendsIs
<1>4. ASSUME NEW e \in Events, NEW f \in Events, Sends(p, <<e, f>>)
      PROVE  \E events \in Seq(Events) : Sends(p, events)
    <2>1. PICK events \in Seq(Events) : events = <<e, f>>
        BY PairIs
    <2>2. Sends(p, events)
        BY <1>4, <2>1
    <2>3. QED
        BY <2>2
<1>5. ASSUME NEW e \in Events, Sends(p, <<e>>)
      PROVE  \E events \in Seq(Events) : Sends(p, events)
    <2>1. PICK events \in Seq(Events) : events = <<e>>
        BY OneIs
    <2>2. Sends(p, events)
        BY <1>5, <2>1
    <2>3. QED
        BY <2>2
<1>6. \A kind \in EventKind, sub \in Subscription : Event(kind, sub) \in Events
    BY DEF Event, Events
<1>7. CASE TurnsUnpaid(p)
    <2>1. PICK e \in Events : e = Event("changed", "unpaid")
        BY <1>1, EventIs
    <2>2. PICK events \in Seq(Events) : events = <<e>>
        BY OneIs
    <2>3. /\ mail' = [mail EXCEPT ![p] = @ \o events]
          /\ row' = row /\ slot' = slot /\ step' = step /\ job' = job
        BY <1>7, <2>1, <2>2, UnpaidIs
    <2>4. QED
        BY <1>2, <2>3
<1>8. CASE ~TurnsUnpaid(p)
    <2>1. \E events \in Seq(Events) : Sends(p, events)
        <3>1. CASE Pay(p) \/ RenewalFails(p) \/ RenewalSucceeds(p)
            <4>1. \E e \in Events, f \in Events : Sends(p, <<e, f>>)
                BY <1>1, <1>6, <3>1 DEF Pay, RenewalFails, RenewalSucceeds
            <4>2. QED
                BY <1>4, <4>1
        <3>2. CASE SessionExpires(p) \/ Ends(p)
            <4>1. \E e \in Events : Sends(p, <<e>>)
                BY <1>1, <1>6, <3>2 DEF SessionExpires, Ends
            <4>2. QED
                BY <1>5, <4>1
        <3>3. QED
            BY <1>8, <3>1, <3>2 DEF StripeStep
    <2>2. QED
        BY <1>2, <1>3, <2>1
<1>9. QED
    BY <1>7, <1>8

\* More mail about p.
LEMMA MoreMailOwned ==
    ASSUME Fits, Owned, NEW p \in Purchase, NEW events \in Seq(Events),
           mail' = [mail EXCEPT ![p] = @ \o events],
           row' = row, slot' = slot, step' = step, job' = job,
           \A q \in Purchase \ {p} : session'[q] = session[q] /\ truth'[q] = truth[q]
    PROVE  Owned'
<1>1. mail'[p] = mail[p] \o events /\ \A q \in Purchase \ {p} : mail'[q] = mail[q]
    BY DEF Fits, MailFits
<1>2. \A q \in Purchase \ {p} : Beside(q)
    BY <1>1 DEF Beside
<1>3. \A i \in DOMAIN mail[p] : i \in DOMAIN mail'[p] /\ mail'[p][i] = mail[p][i]
    BY <1>1, MailGrows
<1>4. \A h \in Handler : WorksOn(h, p)' <=> WorksOn(h, p)
    BY DEF WorksOn, Working
<1>5. Outstanding(p, Overs) => Outstanding(p, Overs)'
    BY <1>3, <1>4 DEF Outstanding, Overs
<1>6. Answers(p) => Answers(p)'
    BY <1>4, <1>5, AnswersStay
<1>7. \A q \in Purchase : Answers(q) => row'[q].serverId = row[q].serverId /\ Answers(q)'
    BY <1>2, <1>6, BesideAnswers
<1>8. QED
    BY <1>7, OwnedMove

\* Repeat is more mail.
LEMMA RepeatOwned ==
    ASSUME Fits, Owned, NEW h \in Handler, Repeat(h)
    PROVE  Owned'
<1>1. /\ row' = row /\ slot' = slot /\ session' = session /\ truth' = truth
      /\ step' = step /\ job' = job /\ Working(h)
    BY RepeatFits DEF Repeat
<1>2. PICK p \in Purchase : p = job[h].purchase
    BY <1>1, HandlerIs
<1>3. PICK e \in Events : e = job[h].event
    BY <1>1, HandlerIs
<1>4. mail' = [mail EXCEPT ![p] = Append(@, e)]
    BY <1>2, <1>3 DEF Repeat
<1>5. Append(mail[p], e) = mail[p] \o <<e>>
    BY RowIs, OneMore
<1>6. PICK events \in Seq(Events) : events = <<e>>
    BY OneIs
<1>7. mail' = [mail EXCEPT ![p] = @ \o events]
    BY <1>4, <1>5, <1>6
<1>8. QED
    BY <1>1, <1>7, MoreMailOwned

\* Receive and Visit: a handler begins.
LEMMA BeginsOwned ==
    ASSUME Fits, Owned, NEW h \in Handler, NEW p \in Purchase,
           Visit(h, p) \/ \E i \in 1 .. MaxMail : Receive(h, p, i)
    PROVE  Owned'
<1>1. ~Working(h) /\ Only(h) /\ job'[h].purchase = p
    BY VisitFits, ReceiveFits
<1>2. row' = row /\ slot' = slot /\ session' = session /\ truth' = truth
    BY DEF Visit, Receive, stripeVars
<1>3. \A q \in Purchase \ {p} : mail'[q] = mail[q]
    BY DEF Visit, Receive, stripeVars, Fits, MailFits
<1>4. \A k \in Handler : WorksOn(k, p) => WorksOn(k, p)' /\ step'[k] = step[k] /\ job'[k] = job[k]
    BY <1>1 DEF WorksOn, Working, Only
<1>5. Outstanding(p, Overs) => Outstanding(p, Overs)'
    <2>1. CASE Visit(h, p)
        BY <1>4, <2>1 DEF Outstanding, Overs, Visit, stripeVars
    <2>2. CASE \E i \in 1 .. MaxMail : Receive(h, p, i)
        BY <2>2, ReceiveRetains DEF Retains
    <2>3. QED
        BY <2>1, <2>2
<1>6. Answers(p) => Answers(p)'
    BY <1>2, <1>4, <1>5, AnswersStay
<1>7. QED
    BY <1>1, <1>2, <1>3, <1>6, HandlerOwned

\* Read: a handler that knows of the end leaves only what never began.
LEMMA ReadOwned ==
    ASSUME Fits, \A q \in Purchase : Told(q), Owned, NEW h \in Handler, Read(h)
    PROVE  Owned'
<1>1. PICK p : p = job[h].purchase
    OBVIOUS
<1>2. PICK kind : kind = job[h].event.kind
    OBVIOUS
<1>3. /\ Working(h) /\ step[h] = "read" /\ Only(h) /\ p \in Purchase
      /\ row' = row /\ slot' = slot /\ session' = session
      /\ truth' = truth /\ mail' = mail /\ trouble' = trouble
      /\ \/ step'[h] = "idle" /\ job'[h] = <<>>
         \/ kind = "abandoned"
         \/ /\ step'[h] = "save"
            /\ job'[h].event = job[h].event /\ job'[h].purchase = p
    BY <1>1, <1>2, ReadFits
<1>4. WorksOn(h, p) /\ kind # "abandoned"
    BY <1>1, <1>2, <1>3, JobIs DEF Saving
<1>5. step'[h] = "idle" => ~Relevant(kind, row[p])
    <2>1. Relevant(kind, row[p]) => GoesOn(h, "save")
        BY <1>1, <1>2, <1>4 DEF Read
    <2>2. GoesOn(h, "save") => step'[h] = "save"
        BY DEF GoesOn, Fits, TypeOK
    <2>3. QED
        BY <2>1, <2>2
<1>6. \A k \in Handler \ {h} : WorksOn(k, p) =>
        WorksOn(k, p)' /\ step'[k] = step[k] /\ job'[k] = job[k]
    BY <1>3 DEF Only, WorksOn, Working
<1>7. row[p].sub # "none" /\ Outstanding(p, Overs) => Outstanding(p, Overs)'
    <2>1. SUFFICES ASSUME row[p].sub # "none", Outstanding(p, Overs) PROVE Outstanding(p, Overs)'
        OBVIOUS
    <2>2. CASE job[h].event \notin Overs
        <3>1. Overs' = Overs
            BY DEF Overs
        <3>2. QED
            BY <1>3, <2>1, <2>2, <3>1, OthersRetain
    <2>3. CASE job[h].event \in Overs
        <3>1. kind = "changed"
            BY <1>2, <2>3 DEF Overs
        <3>2. Relevant(kind, row[p])
            BY <2>1, <3>1, RelevantIs DEF Saving
        <3>3. step'[h] = "save" /\ job'[h].event = job[h].event /\ job'[h].purchase = p
            BY <1>3, <1>4, <1>5, <3>2
        <3>4. WorksOn(h, p)' /\ job'[h].event \in Overs
            BY <2>3, <3>3 DEF WorksOn, Working
        <3>5. QED
            BY <3>3, <3>4 DEF Outstanding, Overs
    <2>4. QED
        BY <2>2, <2>3
<1>8. \A k \in Handler : WorksOn(k, p) /\ step[k] = "release" =>
            WorksOn(k, p)' /\ step'[k] = "release"
    BY <1>3, <1>6
<1>9. Answers(p) => Answers(p)'
    BY <1>3, <1>7, <1>8, AnswersStay
<1>10. step'[h] = "idle" \/ job'[h].purchase = p
    BY <1>3, <1>4
<1>11. QED
    BY <1>3, <1>4, <1>9, <1>10, HandlerOwned

\* SavePaid: a purchase that comes to have no claim is one whose end is still to come.
LEMMA SavePaidOwned ==
    ASSUME Fits, Alone, Heard, Tame, Owned, NEW h \in Handler, SavePaid(h)
    PROVE  Owned'
<1>1. PICK p : p = job[h].purchase
    OBVIOUS
<1>2. /\ Working(h) /\ step[h] = "save" /\ Only(h) /\ p \in Purchase
      /\ job[h].event.kind = "completed" /\ job[h].seen \in Row
      /\ job[h].seen.serverId = row[p].serverId
      /\ session' = session /\ truth' = truth /\ mail' = mail /\ slot' = slot
      /\ step'[h] = "idle"
      /\ row'[p] = PaidRow(job[h].seen, job[h].sub)
      /\ \A q \in Purchase \ {p} : row'[q] = row[q]
    BY <1>1, SavePaidFits
<1>3. Told(p) /\ RowTold(p) /\ JobTold(p, h) /\ WorksOn(h, p) /\ Pursued(p)
    BY <1>1, <1>2, JobIs DEF Heard
<1>4. /\ truth[p] # "none" /\ job[h].sub # "none"
      /\ job[h].seen.status \in {"checkout_pending", "paid", "completed"}
      /\ Prompt => job[h].sub = truth[p]
      /\ "visit" \notin trouble => job[h].mailed
      /\ Prompt /\ job[h].mailed => truth[p] = "active"
    BY <1>1, <1>2, SaverIs DEF Saving, IsTrue, Heard
<1>5. /\ row'[p].status = IF job[h].seen.status = "checkout_pending" THEN "paid"
                          ELSE job[h].seen.status
      /\ row'[p].sub = job[h].sub /\ row'[p].serverId = row[p].serverId
    BY <1>2, PaidIs
<1>6. "overlap" \notin trouble =>
        job[h].seen = row[p] /\ \A k \in Handler : WorksOn(k, p) => k = h
    BY <1>1, <1>2 DEF Alone, WorksOn, Saving
<1>7. ASSUME Answers(p) PROVE Answers(p)'
    <2>1. CASE job[h].seen.status # "completed" \/ job[h].sub \notin TerminalSubscription
        BY <1>4, <1>5, <2>1 DEF Answers, Live
    <2>2. CASE job[h].seen.status = "completed" /\ job[h].sub \in TerminalSubscription
        <3>1. CASE "lag" \in trouble
            <4>1. trouble \subseteq {"lag"} /\ job[h].seen = row[p]
                BY <1>6, <3>1, TameIs
            <4>2. row[p].sub = "none"
                BY <1>2, <1>3, <4>1 DEF Pursued, InTurn
            <4>3. QED
                BY <1>3, <2>2, <4>1, <4>2 DEF RowTold, Tied
        <3>2. CASE "lag" \notin trouble
            <4>1. Prompt /\ job[h].sub = truth[p]
                BY <1>4, <3>2, TameIs
            <4>2. "visit" \in trouble
                BY <1>4, <2>2, <4>1 DEF TerminalSubscription
            <4>3. job[h].seen = row[p] /\ \A k \in Handler : WorksOn(k, p) => k = h
                BY <1>6, <4>2, TameIs
            <4>4. EndComes(p)
                BY <1>3, <3>2 DEF Pursued
            <4>5. Outstanding(p, Overs)
                <5>1. CASE row[p].sub \notin TerminalSubscription
                    BY <2>2, <4>1, <4>4, <5>1 DEF EndComes
                <5>2. CASE row[p].sub \in TerminalSubscription
                    <6>1. ~Live(p)
                        BY <2>2, <4>3, <5>2 DEF Live
                    <6>2. QED
                        BY <1>2, <1>7, <4>3, <6>1 DEF Answers, Leaving
                <5>3. QED
                    BY <5>1, <5>2
            <4>6. Outstanding(p, Overs)'
                BY <1>2, <4>5, OthersRetain DEF Overs
            <4>7. QED
                BY <1>4, <1>5, <4>6 DEF Answers, Leaving
        <3>3. QED
            BY <3>1, <3>2
    <2>3. QED
        BY <2>1, <2>2
<1>8. QED
    BY <1>2, <1>3, <1>5, <1>7, HandlerOwned

\* SaveSubscription: at the end of a subscription the release comes next.
LEMMA SaveSubscriptionOwned ==
    ASSUME Fits, Alone, Heard, Tame, Owned, NEW h \in Handler, SaveSubscription(h)
    PROVE  Owned'
<1>1. PICK p : p = job[h].purchase
    OBVIOUS
<1>2. PICK kind : kind = job[h].event.kind
    OBVIOUS
<1>3. /\ Working(h) /\ step[h] = "save" /\ Only(h) /\ p \in Purchase
      /\ kind \in {"changed", "invoice_paid", "invoice_failed"} /\ job[h].seen \in Row
      /\ job[h].seen.serverId = row[p].serverId
      /\ session' = session /\ truth' = truth /\ mail' = mail /\ slot' = slot
      /\ row'[p] = SyncedRow(job[h].seen, kind, job[h].sub)
      /\ \A q \in Purchase \ {p} : row'[q] = row[q]
      /\ step'[h] # "idle" => job'[h] = job[h]
      /\ job[h].sub \in TerminalSubscription => step'[h] = "release" /\ job'[h] = job[h]
    BY <1>1, <1>2, SaveSubscriptionFits
<1>4. /\ Told(p) /\ RowTold(p) /\ JobTold(p, h) /\ WorksOn(h, p)
      /\ truth[p] \in Subscription
    BY <1>1, <1>3, JobIs, RowIs DEF Heard
<1>5. /\ truth[p] # "none" /\ job[h].sub # "none"
      /\ job[h].seen.status \in {"paid", "completed", "cancelled"}
      /\ Prompt => job[h].sub = truth[p]
      /\ Steady /\ truth[p] \in {"active", "past_due"} => job[h].seen.status \in Kept
      /\ kind = "changed" => job[h].sub = job[h].event.sub
    BY <1>1, <1>2, <1>3, SaverIs DEF Saving, Heard
<1>6. /\ row'[p].status = IF job[h].sub \in TerminalSubscription /\ job[h].seen.status = "paid"
                          THEN "cancelled" ELSE job[h].seen.status
      /\ row'[p].sub = job[h].sub /\ row'[p].serverId = row[p].serverId
    BY <1>3, <1>5, SyncedIs
<1>7. "overlap" \notin trouble => job[h].seen = row[p]
    BY <1>1, <1>2, <1>3 DEF Alone, WorksOn, Saving
<1>8. step'[h] = "idle" \/ job'[h].purchase = p
    BY <1>1, <1>3
<1>9. ASSUME Answers(p) PROVE Answers(p)'
    <2>1. CASE job[h].sub \in TerminalSubscription
        <3>1. WorksOn(h, p)' /\ step'[h] = "release"
            BY <1>1, <1>3, <2>1 DEF WorksOn, Working
        <3>2. QED
            BY <3>1 DEF Answers, Leaving
    <2>2. CASE job[h].sub \notin TerminalSubscription /\ job[h].seen.status # "cancelled"
        BY <1>5, <1>6, <2>2 DEF Answers, Live
    <2>3. CASE job[h].sub \notin TerminalSubscription /\ job[h].seen.status = "cancelled"
        <3>1. "overlap" \notin trouble
            <4>1. SUFFICES ASSUME "overlap" \in trouble PROVE FALSE
                OBVIOUS
            <4>2. Steady
                BY <4>1, TameIs
            <4>3. truth[p] \in {"active", "past_due"}
                BY <1>4, <1>5, <2>3, <4>2 DEF Steady, Subscription, TerminalSubscription
            <4>4. QED
                BY <1>5, <2>3, <4>2, <4>3 DEF Kept
        <3>2. ~Live(p)
            BY <1>7, <2>3, <3>1 DEF Live
        <3>3. job[h].event \notin Overs
            BY <1>2, <1>5, <2>3 DEF Overs
        <3>4. Outstanding(p, Overs) => Outstanding(p, Overs)'
            <4>1. Overs' = Overs
                BY DEF Overs
            <4>2. QED
                BY <1>3, <3>3, <4>1, OthersRetain
        <3>5. \A k \in Handler : WorksOn(k, p) /\ step[k] = "release" =>
                WorksOn(k, p)' /\ step'[k] = "release"
            BY <1>3 DEF Only, WorksOn, Working
        <3>6. QED
            BY <1>5, <1>6, <1>9, <3>2, <3>4, <3>5 DEF Answers, Leaving
    <2>4. QED
        BY <2>1, <2>2, <2>3
<1>10. QED
    BY <1>3, <1>4, <1>6, <1>8, <1>9, HandlerOwned

\* CloseIfPending: what it closes it releases.
LEMMA CloseOwned ==
    ASSUME Fits, \A q \in Purchase : Told(q), Owned, NEW h \in Handler, CloseIfPending(h)
    PROVE  Owned'
<1>1. PICK p : p = job[h].purchase
    OBVIOUS
<1>2. /\ Working(h) /\ step[h] = "save" /\ Only(h) /\ p \in Purchase
      /\ job[h].event.kind \in {"expired", "abandoned"}
      /\ session' = session /\ truth' = truth /\ mail' = mail /\ slot' = slot
      /\ \A q \in Purchase \ {p} : row'[q] = row[q]
      /\ IF row[p].status = "checkout_pending" THEN row'[p].serverId = row[p].serverId
         ELSE row'[p] = row[p]
      /\ row[p].status = "checkout_pending" => step'[h] = "release" /\ job'[h] = job[h]
      /\ step'[h] # "idle" => job'[h] = job[h]
    BY <1>1, CloseFits
<1>3. WorksOn(h, p)
    BY <1>1, <1>2, JobIs
<1>4. ASSUME Answers(p) PROVE Answers(p)'
    <2>1. CASE row[p].status = "checkout_pending"
        <3>1. WorksOn(h, p)' /\ step'[h] = "release"
            BY <1>1, <1>2, <2>1 DEF WorksOn, Working
        <3>2. QED
            BY <3>1 DEF Answers, Leaving
    <2>2. CASE row[p].status # "checkout_pending"
        <3>1. Outstanding(p, Overs) => Outstanding(p, Overs)'
            BY <1>2, OthersRetain DEF Overs
        <3>2. \A k \in Handler : WorksOn(k, p) /\ step[k] = "release" =>
                WorksOn(k, p)' /\ step'[k] = "release"
            BY <1>2 DEF Only, WorksOn, Working
        <3>3. QED
            BY <1>2, <1>4, <2>2, <3>1, <3>2, AnswersStay
    <2>3. QED
        BY <2>1, <2>2
<1>5. row'[p].serverId = row[p].serverId /\ (step'[h] = "idle" \/ job'[h].purchase = p)
    BY <1>1, <1>2
<1>6. QED
    BY <1>2, <1>3, <1>4, <1>5, HandlerOwned

\* Release puts the slot up for sale, Reallocate only takes back what is held.
LEMMA SlotStepOwned ==
    ASSUME Fits, \A q \in Purchase : Told(q), Owned, NEW h \in Handler, Release(h) \/ Reallocate(h)
    PROVE  Owned'
<1>1. PICK p : p = job[h].purchase
    OBVIOUS
<1>2. /\ Working(h) /\ Only(h) /\ p \in Purchase
      /\ row' = row /\ session' = session /\ truth' = truth /\ mail' = mail
      /\ step'[h] = "idle" /\ step[h] \in {"release", "reallocate"}
      /\ step[h] = "release" => slot'[job[h].slot] = "available"
      /\ step[h] = "reallocate" =>
            slot'[job[h].slot] = IF slot[job[h].slot] = "held" THEN "allocated"
                                 ELSE slot[job[h].slot]
      /\ \A s \in Slot \ {job[h].slot} : slot'[s] = slot[s]
    BY <1>1, SlotStepFits
<1>3. WorksOn(h, p) /\ job[h].slot = row[p].serverId
    BY <1>1, <1>2, JobIs
<1>4. \A s \in Slot : slot'[s] # "available" => slot[s] # "available"
    BY <1>2
<1>5. ASSUME Answers(p), slot'[row[p].serverId] # "available" PROVE Answers(p)'
    <2>1. step[h] = "reallocate"
        BY <1>2, <1>3, <1>5
    <2>2. Outstanding(p, Overs) => Outstanding(p, Overs)'
        BY <1>2, <2>1, OthersRetain DEF Overs
    <2>3. \A k \in Handler : WorksOn(k, p) /\ step[k] = "release" =>
            WorksOn(k, p)' /\ step'[k] = "release"
        BY <1>2, <2>1 DEF Only, WorksOn, Working
    <2>4. QED
        BY <1>2, <1>5, <2>2, <2>3, AnswersStay
<1>6. QED
    BY <1>2, <1>3, <1>4, <1>5, HandlerOwned

\* The operator may still release to a customer whose subscription has ended; then the
\* event that tells so has not been handled.
LEMMA DeskOwned ==
    ASSUME Fits, Heard, Tame, Owned, NEW p \in Purchase,
           Provision(p) \/ ReleaseReady(p) \/ Suspend(p)
    PROVE  Owned'
<1>1. /\ row'[p].sub = row[p].sub /\ row'[p].serverId = row[p].serverId
      /\ row'[p].status \in {"paid", "completed"}
      /\ row[p].status \in {"paid", "completed"}
      /\ row[p].status = "completed" => row[p].sub \notin TerminalSubscription
      /\ Live(p)
      /\ session' = session /\ truth' = truth /\ mail' = mail
      /\ step' = step /\ job' = job
      /\ \A s \in Slot \ {row[p].serverId} : slot'[s] = slot[s]
      /\ \A q \in Purchase \ {p} : Beside(q)
    BY DeskIs
<1>2. slot[row[p].serverId] # "available"
    BY ProvisionFits, ReadyFits, SuspendFits
<1>3. Answers(p)'
    <2>1. CASE row'[p].status = "paid" \/ row[p].sub \notin TerminalSubscription
        BY <1>1, <2>1 DEF Answers, Live
    <2>2. CASE row'[p].status # "paid" /\ row[p].sub \in TerminalSubscription
        <3>1. row[p].status = "paid" /\ Told(p) /\ Pursued(p)
            BY <1>1, <2>2 DEF Heard
        <3>2. Outstanding(p, Overs)
            <4>1. CASE "lag" \notin trouble
                BY <2>2, <3>1, <4>1 DEF Pursued, EndComes
            <4>2. CASE "lag" \in trouble
                <5>1. InTurn(p)
                    BY <3>1, <4>2, TameIs DEF Pursued
                <5>2. truth[p] = "canceled"
                    <6>1. session[p] = "complete"
                        BY <2>2, <3>1 DEF Told, RowTold, TerminalSubscription
                    <6>2. truth[p] \notin {"none", "active", "past_due", "unpaid"}
                        BY <2>2, <5>1, <6>1, RowIs DEF InTurn, RowFits
                    <6>3. QED
                        BY <6>2, RowIs DEF Subscription
                <5>3. CASE Len(mail[p]) # 0
                    <6>1. Len(mail[p]) \in DOMAIN mail[p] /\ mail[p][Len(mail[p])] \in Events
                        <7>1. mail[p] \in Seq(Events) /\ Len(mail[p]) \in Nat
                            BY RowIs
                        <7>2. /\ DOMAIN mail[p] = 1 .. Len(mail[p])
                              /\ \A i \in 1 .. Len(mail[p]) : mail[p][i] \in Events
                            BY <7>1, LenProperties
                        <7>3. Len(mail[p]) \in 1 .. Len(mail[p])
                            BY <5>3, <7>1
                        <7>4. QED
                            BY <7>2, <7>3
                    <6>2. mail[p][Len(mail[p])] \in Overs
                        BY <5>1, <5>2, <5>3, <6>1 DEF InTurn, Overs, TerminalSubscription
                    <6>3. QED
                        BY <6>1, <6>2 DEF Outstanding
                <5>4. CASE Len(mail[p]) = 0
                    <6>1. ~Agrees(p)
                        BY <1>1, <5>2 DEF Agrees, TerminalSubscription
                    <6>2. PICK k \in Handler :
                            /\ WorksOn(k, p) /\ step[k] \in {"read", "save"}
                            /\ job[k].event.kind = "changed" /\ job[k].sub = truth[p]
                        BY <5>1, <5>2, <5>4, <6>1 DEF InTurn
                    <6>3. job[k].event \in Events
                        BY <6>2, HandlerIs DEF WorksOn
                    <6>4. job[k].event.sub = truth[p]
                        BY <3>1, <6>2 DEF Told, JobTold
                    <6>5. job[k].event \in Overs
                        BY <5>2, <6>2, <6>3, <6>4 DEF Overs, TerminalSubscription
                    <6>6. QED
                        BY <6>2, <6>5 DEF Outstanding
                <5>5. QED
                    BY <5>3, <5>4
            <4>3. QED
                BY <4>1, <4>2
        <3>3. Outstanding(p, Overs)'
            BY <1>1, <3>2 DEF Outstanding, Overs, WorksOn, Working
        <3>4. QED
            BY <1>1, <2>2, <3>3 DEF Answers, Leaving, TerminalSubscription
    <2>3. QED
        BY <2>1, <2>2
<1>4. \A q \in Purchase : Answers(q) => row'[q].serverId = row[q].serverId /\ Answers(q)'
    BY <1>1, <1>3, BesideAnswers
<1>5. \A s \in Slot : slot'[s] # "available" => slot[s] # "available"
    BY <1>1, <1>2
<1>6. QED
    BY <1>4, <1>5, OwnedMove

\* Every step leaves every taken slot with someone who answers for it.
LEMMA NextOwned ==
    ASSUME Fits, Alone, Gentle => Heard, Tame => Owned, Next
    PROVE  Tame' => Owned'
<1>1. trouble \subseteq trouble'
    BY MoreTrouble
<1>2. SUFFICES ASSUME Tame' PROVE Owned'
    OBVIOUS
<1>3. Tame /\ Owned /\ Heard
    BY <1>1, <1>2, TroubleLasts, TameIs
<1>4. (\A p \in Purchase : Told(p)) /\ (\A p \in Purchase : Pursued(p))
    BY <1>3 DEF Heard
<1>5. trouble' \cap {"crash", "failure", "override"} = {}
    BY <1>2 DEF Tame, OnlyOneOf
<1>6. CASE \E p \in Purchase, s \in Slot : Checkout(p, s)
    BY <1>3, <1>4, <1>6, CheckoutOwned
<1>7. CASE \E p \in Purchase, s \in Slot, h \in Handler : CheckoutFails(h, p, s)
    BY <1>5, <1>7, FailureFits
<1>8. CASE \E p \in Purchase : StripeStep(p)
    <2>1. PICK p \in Purchase : StripeStep(p)
        BY <1>8
    <2>2. PICK events \in Seq(Events) :
            /\ mail' = [mail EXCEPT ![p] = @ \o events]
            /\ row' = row /\ slot' = slot /\ step' = step /\ job' = job
            /\ \A q \in Purchase \ {p} : session'[q] = session[q] /\ truth'[q] = truth[q]
        BY <2>1, StripeSends
    <2>3. QED
        BY <1>3, <2>2, MoreMailOwned
<1>9. CASE \E p \in Purchase : Provision(p) \/ ReleaseReady(p) \/ Suspend(p)
    BY <1>3, <1>9, DeskOwned
<1>10. CASE \E p \in Purchase, newStatus \in PurchaseStatus, newSlot \in ServerStatus,
                access \in {"keep", "suspend", "reinstate"} :
                Override(p, newStatus, newSlot, access)
    BY <1>5, <1>10, OverrideFits
<1>11. CASE \E h \in Handler, p \in Purchase :
                Visit(h, p) \/ \E i \in 1 .. MaxMail : Receive(h, p, i)
    BY <1>3, <1>11, BeginsOwned
<1>12. CASE \E h \in Handler : Read(h) \/ SavePaid(h) \/ SaveSubscription(h) \/ CloseIfPending(h)
    BY <1>3, <1>4, <1>12, ReadOwned, SavePaidOwned, SaveSubscriptionOwned, CloseOwned
<1>13. CASE \E h \in Handler : Release(h) \/ Reallocate(h) \/ Dies(h) \/ Repeat(h)
    <2>1. \A h \in Handler : ~Dies(h)
        BY <1>5, DiesFits
    <2>2. QED
        BY <1>3, <1>4, <1>13, <2>1, SlotStepOwned, RepeatOwned
<1>14. QED
    BY <1>6, <1>7, <1>8, <1>9, <1>10, <1>11, <1>12, <1>13 DEF Next, HandlerStep

\* So does no step.
LEMMA StutterOwned == (Tame => Owned) /\ UNCHANGED vars => (Tame' => Owned')
<1>1. SUFFICES ASSUME Owned, UNCHANGED vars PROVE Owned'
    BY DEF vars, Tame, OnlyOneOf
<1>2. /\ row' = row /\ slot' = slot /\ session' = session /\ truth' = truth
      /\ mail' = mail /\ step' = step /\ job' = job
    BY <1>1 DEF vars, stripeVars, handlerVars
<1>3. \A q \in Purchase : Beside(q)
    BY <1>2 DEF Beside
<1>4. QED
    BY <1>1, <1>2, <1>3, BesideAnswers, OwnedMove

\* No slot leaks: one that is taken has an owner, or one that is about to let it go, as
\* long as no handler dies, no checkout fails half-way and nobody edits the rows.
THEOREM SlotsAreOwned == Spec => []EverySlotIsOwned
<1>1. Init => Fits /\ Alone /\ (Gentle => Heard) /\ (Tame => Owned)
    BY InitFits, InitHeard DEF Init, Alone, Working, Owned
<1>2. Fits /\ Alone /\ (Gentle => Heard) /\ (Tame => Owned) /\ [Next]_vars =>
            Fits' /\ Alone' /\ (Gentle' => Heard') /\ (Tame' => Owned')
    BY NextFits, StutterFits, NextAlone, StutterAlone, NextHeard, StutterHeard,
       NextOwned, StutterOwned
<1>3. Fits /\ (Tame => Owned) => EverySlotIsOwned
    <2>1. SUFFICES ASSUME Fits, Owned, NEW s \in Slot, slot[s] # "available"
                   PROVE  \E p \in Purchase : row[p].serverId = s /\ (Live(p) \/ ~Quiet(p))
        BY DEF EverySlotIsOwned, Tame
    <2>2. PICK p \in Purchase : row[p].serverId = s /\ (Live(p) \/ Leaving(p))
        BY <2>1 DEF Owned
    <2>3. Leaving(p) => ~Quiet(p)
        <3>1. SUFFICES ASSUME Quiet(p) PROVE ~Leaving(p)
            OBVIOUS
        <3>2. mail[p] = <<>> /\ \A h \in Handler : ~WorksOn(h, p)
            BY <3>1 DEF Quiet, Occupied, WorksOn
        <3>3. Len(mail[p]) = 0
            BY <3>2, EmptySeq, Zenon
        <3>4. DOMAIN mail[p] = {}
            BY <2>1, <3>3, RowIs, LenProperties
        <3>5. QED
            BY <3>2, <3>4 DEF Leaving, Outstanding
    <2>4. QED
        BY <2>2, <2>3
<1>4. QED
    BY <1>1, <1>2, <1>3, PTL DEF Spec
=============================================================================
