--------------------------- MODULE BackOfficeProofs ---------------------------
(***************************************************************************)
(* Proofs about BackOffice, for every value of its constants.              *)
(***************************************************************************)
EXTENDS BackOffice, SequenceTheorems, FiniteSetTheorems, ExtremaLemmas, TLAPS

(***************************************************************************)
(* The inductive invariant                                                 *)
(***************************************************************************)

Stopped == {"new", "done", "failed", "killed"}

\* Every kind of request has its own steps, and one that has started has what they need.
Fits(r) ==
    /\ r \in Ticket =>
        /\ pc[r] \in Stopped \cup {"begin", "ticket", "snapshot", "created", "guidance",
                                   "commit", "rollback", "mail"}
        /\ pc[r] # "new" => input[r].status \in SupportStatus
    /\ r \in Desk => pc[r] \in Stopped \cup {"reply", "note", "update", "changed", "mail"}
    /\ r \in Save =>
        /\ pc[r] \in Stopped \cup {"definition", "product", "inventory", "group", "target",
                                   "count", "slots", "audit"}
        /\ pc[r] # "new" => input[r].plan \in Plan /\ input[r].total \in Nat
    /\ r \in Patch =>
        /\ pc[r] \in Stopped \cup {"begin", "counts", "resize", "capacity", "commit",
                                   "rollback", "audit"}
        /\ pc[r] # "new" => input[r].plan \in Plan
        /\ pc[r] \in {"resize", "capacity"} => input[r].total \in Nat
    /\ r \in Retarget => pc[r] \in Stopped \cup {"retarget", "audit"}
    /\ r \in Checkout =>
        /\ pc[r] \in Stopped \cup {"begin", "claim", "purchase", "stripe", "link", "commit",
                                   "rollback", "refused", "clean", "release"}
        /\ pc[r] # "new" => input[r].plan \in Plan

RequestsFit == \A r \in Request : Fits(r)

\* What an open transaction would be undone to is a content of the tables.
KeptFits == Open => kept \in Content

\* What there is of q in content c.
TicketsOf(q, c) == {i \in DOMAIN c.ticket : c.ticket[i].by = q}
SnapshotsOf(q, c) == {x \in c.snapshot : x[2] = q}
EventsOf(q, c) == {x \in c.event : x[3] = q}
MailsOf(q, c) == {x \in c.mail : x[2] = q}
PlansOf(q, c) == {p \in Plan : q \in c.held[p]}

\* The same of q is in both.
Alike(q, c, d) ==
    /\ TicketsOf(q, c) = TicketsOf(q, d)
    /\ SnapshotsOf(q, c) = SnapshotsOf(q, d)
    /\ EventsOf(q, c) = EventsOf(q, d)
    /\ MailsOf(q, c) = MailsOf(q, d)
    /\ PlansOf(q, c) = PlansOf(q, d)
    /\ q \in c.purchase <=> q \in d.purchase
    /\ q \in c.audit <=> q \in d.audit

\* They differ in nothing but what there is of r.
AlikeBut(r, c, d) == \A q \in Request \ {r} : Alike(q, c, d)

\* There is of ticket request q what it has written up to here.
Filed(q, tickets, snapshots, events, mails) ==
    /\ TicketsOf(q, db) = tickets
    /\ SnapshotsOf(q, db) = snapshots
    /\ EventsOf(q, db) = events
    /\ MailsOf(q, db) = mails

\* Nothing of q is in c.
Traceless(q, c) ==
    /\ TicketsOf(q, c) = {} /\ SnapshotsOf(q, c) = {} /\ EventsOf(q, c) = {}
    /\ MailsOf(q, c) = {} /\ PlansOf(q, c) = {}
    /\ q \notin c.purchase /\ q \notin c.audit

\* The events of a ticket that is open.
FirstEvents(q) ==
    {<<ticketId[q], "created", q>>} \cup
        IF input[q].flag THEN {} ELSE {<<ticketId[q], "auto_guidance_sent", q>>}

TicketProgress(q) ==
    LET i == ticketId[q]
    IN  /\ pc[q] \notin {"rollback", "failed"}
        /\ pc[q] \in {"new", "begin", "ticket"} => Traceless(q, db)
        /\ pc[q] = "snapshot" => Filed(q, {i}, {}, {}, {})
        /\ pc[q] = "created" => Filed(q, {i}, {<<i, q>>}, {}, {})
        /\ pc[q] = "guidance" => Filed(q, {i}, {<<i, q>>}, {<<i, "created", q>>}, {})
        /\ pc[q] = "guidance" => ~input[q].flag
        /\ pc[q] \in {"commit", "mail"} => Filed(q, {i}, {<<i, q>>}, FirstEvents(q), {})
        /\ pc[q] = "done" => Filed(q, {i}, {<<i, q>>}, FirstEvents(q), {<<i, q>>})
        /\ pc[q] = "killed" => Traceless(q, db) \/ Filed(q, {i}, {<<i, q>>}, FirstEvents(q), {})

DeskProgress(q) ==
    LET i == ticketId[q]
    IN  /\ pc[q] = "note" => ~input[q].flag
        /\ pc[q] = "mail" => <<i, "changed", q>> \in db.event
        /\ pc[q] = "done" =>
            /\ \E type \in {"internal_note", "changed"} : <<i, type, q>> \in db.event
            /\ input[q].flag => <<i, q>> \in db.mail

CheckoutProgress(q) ==
    LET p == input[q].plan
    IN  /\ pc[q] \in {"new", "begin", "claim", "refused", "clean", "release", "failed"} =>
                Traceless(q, db)
        /\ pc[q] = "purchase" => PlansOf(q, db) = {p} /\ q \notin db.purchase
        /\ pc[q] \in {"stripe", "link", "commit", "done"} =>
                PlansOf(q, db) = {p} /\ q \in db.purchase
        /\ pc[q] = "killed" =>
                Traceless(q, db) \/ (PlansOf(q, db) = {p} /\ q \in db.purchase)

\* Unless transactions have collided, the requests inside a transaction are its opener,
\* the statements of nobody else are undone with it, and of every request there is in
\* the tables what its steps so far have written.
NothingMixed == "mixed" \notin trouble

OwnTransaction == NothingMixed => \A r \in Request : pc[r] \in InTransaction <=> opener = r

KeptIsOthers ==
    NothingMixed /\ Open /\ writers \subseteq {opener} =>
        AlikeBut(opener, db, kept) /\ Traceless(opener, kept)

ProgressOf(q) ==
    /\ q \in Ticket => TicketProgress(q)
    /\ q \in Desk => DeskProgress(q)
    /\ q \in Checkout => CheckoutProgress(q)
    /\ q \in Patch => (pc[q] # "done" => Traceless(q, db))
    /\ q \in Save \cup Patch \cup Retarget => (pc[q] = "done" => q \in db.audit)

Progress == NothingMixed => \A q \in Request : ProgressOf(q)

IndInv ==
    /\ TypeOK /\ RequestsFit /\ KeptFits /\ EveryTransactionEnds
    /\ OwnTransaction /\ KeptIsOthers /\ Progress

(***************************************************************************)
(* What one request's step leaves alone                                    *)
(***************************************************************************)

\* The kinds of requests are what the names say, and every request has one kind.
LEMMA KindsApart ==
    /\ Request = Ticket \cup Desk \cup Save \cup Patch \cup Retarget \cup Checkout
    /\ \A r \in Request :
        /\ r \in Ticket => r \notin Desk \cup Save \cup Patch \cup Retarget \cup Checkout
        /\ r \in Desk => r \notin Save \cup Patch \cup Retarget \cup Checkout
        /\ r \in Save => r \notin Patch \cup Retarget \cup Checkout
        /\ r \in Patch => r \notin Retarget \cup Checkout
        /\ r \in Retarget => r \notin Checkout
BY ConstantsAssumption, Zenon

\* Contents with the same rows of tickets, purchases and actions have the same of
\* everybody.
LEMMA SameRows ==
    ASSUME NEW c, NEW d, NEW q,
           c.ticket = d.ticket, c.snapshot = d.snapshot, c.event = d.event,
           c.mail = d.mail, c.held = d.held, c.purchase = d.purchase, c.audit = d.audit
    PROVE  Alike(q, c, d)
BY Zenon DEF Alike, TicketsOf, SnapshotsOf, EventsOf, MailsOf, PlansOf

\* Alike is an equivalence.
LEMMA AlikeChains ==
    ASSUME NEW c, NEW d, NEW e, NEW q, Alike(q, c, d)
    PROVE  /\ Alike(q, d, c)
           /\ Alike(q, d, e) => Alike(q, c, e)
           /\ Traceless(q, c) => Traceless(q, d)
BY Zenon DEF Alike, Traceless

\* No other request than r moves.
OnlyMoves(r) ==
    \A q \in Request \ {r} :
        pc'[q] = pc[q] /\ input'[q] = input[q] /\ ticketId'[q] = ticketId[q]

\* A request that does not move keeps what it needs and what it has written.
LEMMA OthersStay ==
    ASSUME NEW q \in Request, pc'[q] = pc[q], input'[q] = input[q],
           ticketId'[q] = ticketId[q]
    PROVE  /\ Fits(q) => Fits(q)'
           /\ ProgressOf(q) /\ Alike(q, db, db') => ProgressOf(q)'
<1>1. Fits(q) => Fits(q)'
    BY Zenon DEF Fits
<1>2. ASSUME ProgressOf(q), Alike(q, db, db') PROVE ProgressOf(q)'
    <2>1. Traceless(q, db) <=> Traceless(q, db)'
        BY <1>2, Zenon DEF Alike, Traceless
    <2>2. \A t, s, e, m : Filed(q, t, s, e, m) <=> (Filed(q, t, s, e, m))'
        BY <1>2, Zenon DEF Alike, Filed
    <2>3. FirstEvents(q)' = FirstEvents(q)
        BY Zenon DEF FirstEvents
    <2>4. q \in Ticket => TicketProgress(q)'
        BY <1>2, <2>1, <2>2, <2>3, Zenon DEF ProgressOf, TicketProgress
    <2>5. q \in Desk => DeskProgress(q)'
        <3>1. \A i, type : <<i, type, q>> \in db.event => <<i, type, q>> \in db'.event
            BY <1>2 DEF Alike, EventsOf
        <3>2. \A i : <<i, q>> \in db.mail => <<i, q>> \in db'.mail
            BY <1>2 DEF Alike, MailsOf
        <3>3. QED
            BY <1>2, <3>1, <3>2, Zenon DEF ProgressOf, DeskProgress
    <2>6. q \in Checkout => CheckoutProgress(q)'
        BY <1>2, <2>1, Zenon DEF ProgressOf, CheckoutProgress, Alike
    <2>7. QED
        BY <1>2, <2>1, <2>4, <2>5, <2>6, Zenon DEF ProgressOf, Alike
<1>3. QED
    BY <1>1, <1>2

\* What a step of r does to the connection when it ends no transaction.
Stays(r) ==
    \/ UNCHANGED connection
    \/ Writes(r, db')

\* r stays inside its transaction or outside of one, or has collided.
KeepsSide(r) ==
    \/ pc[r] \in InTransaction <=> pc'[r] \in InTransaction
    \/ ~NothingMixed' /\ opener # r

\* A step of r that neither begins nor ends a transaction keeps the invariant when it
\* is well-typed, touches nothing of the others and leaves r as it should be.
LEMMA OneMoves ==
    ASSUME IndInv, NEW r \in Request, OnlyMoves(r), AlikeBut(r, db, db'), Stays(r),
           KeepsSide(r), TypeOK', trouble \subseteq trouble',
           Fits(r)', NothingMixed' => ProgressOf(r)'
    PROVE  IndInv'
<1>1. NothingMixed' => NothingMixed
    BY DEF NothingMixed
<1>2. RequestsFit'
    <2>1. SUFFICES ASSUME NEW q \in Request PROVE Fits(q)'
        BY Zenon DEF RequestsFit
    <2>2. CASE q = r
        BY <2>2
    <2>3. CASE q # r
        BY <2>3, OthersStay, Zenon DEF OnlyMoves, IndInv, RequestsFit
    <2>4. QED
        BY <2>2, <2>3
<1>3. Progress'
    <2>1. SUFFICES ASSUME NothingMixed', NEW q \in Request PROVE ProgressOf(q)'
        BY Zenon DEF Progress
    <2>2. CASE q = r
        BY <2>1, <2>2
    <2>3. CASE q # r
        BY <1>1, <2>1, <2>3, OthersStay, Zenon DEF OnlyMoves, IndInv, Progress, AlikeBut
    <2>4. QED
        BY <2>2, <2>3
<1>4. opener' = opener /\ kept' = kept
    BY DEF Stays, Writes, connection
<1>5. KeptFits'
    BY <1>4, Zenon DEF KeptFits, Open, IndInv
<1>6. EveryTransactionEnds'
    <2>1. SUFFICES ASSUME opener # Nobody PROVE pc'[opener] \in InTransaction
        BY <1>4, Zenon DEF EveryTransactionEnds, Open
    <2>2. pc[opener] \in InTransaction
        BY <2>1, Zenon DEF EveryTransactionEnds, Open, IndInv
    <2>3. opener \in Request
        BY <2>1 DEF IndInv, TypeOK, ConnectionTypeOK
    <2>4. CASE opener = r
        BY <2>2, <2>4, Zenon DEF KeepsSide
    <2>5. CASE opener # r
        BY <2>2, <2>3, <2>5, Zenon DEF OnlyMoves
    <2>6. QED
        BY <2>4, <2>5
<1>7. OwnTransaction'
    <2>1. SUFFICES ASSUME NothingMixed', NEW q \in Request
                   PROVE  pc'[q] \in InTransaction <=> opener = q
        BY <1>4, Zenon DEF OwnTransaction
    <2>2. pc[q] \in InTransaction <=> opener = q
        BY <1>1, <2>1, Zenon DEF IndInv, OwnTransaction
    <2>3. QED
        BY <2>1, <2>2, Zenon DEF OnlyMoves, KeepsSide
<1>8. KeptIsOthers'
    <2>1. SUFFICES ASSUME NothingMixed', opener # Nobody, writers' \subseteq {opener}
                   PROVE  AlikeBut(opener, db', kept) /\ Traceless(opener, kept)
        BY <1>4, Zenon DEF KeptIsOthers, Open
    <2>2. CASE UNCHANGED connection
        BY <1>1, <1>4, <2>1, <2>2, Zenon DEF KeptIsOthers, Open, connection, IndInv
    <2>3. CASE Writes(r, db')
        <3>1. r = opener /\ writers \subseteq {opener}
            BY <2>1, <2>3 DEF Writes, Open
        <3>2. AlikeBut(opener, db, kept) /\ Traceless(opener, kept)
            BY <1>1, <2>1, <3>1, Zenon DEF KeptIsOthers, Open, IndInv
        <3>3. ASSUME NEW q \in Request \ {opener} PROVE Alike(q, db', kept)
            BY <3>1, <3>2, AlikeChains, Zenon DEF AlikeBut
        <3>4. QED
            BY <3>2, <3>3, Zenon DEF AlikeBut
    <2>4. QED
        BY <2>2, <2>3 DEF Stays
<1>9. QED
    BY <1>2, <1>3, <1>5, <1>6, <1>7, <1>8, Zenon DEF IndInv

\* A request that only goes on.
LEMMA Skipping ==
    ASSUME IndInv, NEW r \in Request, NEW s \in Step, Skips(r, s),
           pc[r] \in InTransaction <=> s \in InTransaction,
           Fits(r)', NothingMixed' => ProgressOf(r)'
    PROVE  IndInv'
<1>1. /\ pc' = [pc EXCEPT ![r] = s] /\ UNCHANGED connection
      /\ UNCHANGED <<input, ticketId, seen, trouble>>
    BY DEF Skips, Goes
<1>2. db' = db
    BY <1>1 DEF connection
<1>3. pc \in [Request -> Step]
    BY DEF IndInv, TypeOK
<1>4. TypeOK'
    BY <1>1, <1>3 DEF IndInv, TypeOK, ConnectionTypeOK, connection, Open
<1>5. OnlyMoves(r) /\ pc'[r] = s
    BY <1>1, <1>3 DEF OnlyMoves
<1>6. AlikeBut(r, db, db')
    BY <1>2, Zenon DEF AlikeBut, Alike
<1>7. QED
    BY <1>1, <1>4, <1>5, <1>6, OneMoves, Zenon DEF Stays, KeepsSide

\* A request that writes the tables and goes on.
LEMMA Doing ==
    ASSUME IndInv, NEW r \in Request, NEW s \in Step, NEW new \in Content,
           Does(r, new, s), AlikeBut(r, db, new),
           pc[r] \in InTransaction <=> s \in InTransaction,
           Fits(r)', NothingMixed' => ProgressOf(r)'
    PROVE  IndInv'
<1>1. /\ pc' = [pc EXCEPT ![r] = s] /\ Writes(r, new)
      /\ UNCHANGED <<input, ticketId, seen, trouble>>
    BY DEF Does, Goes
<1>2. db' = new
    BY <1>1 DEF Writes
<1>3. pc \in [Request -> Step]
    BY DEF IndInv, TypeOK
<1>4. TypeOK'
    <2>1. ConnectionTypeOK(Content)'
        BY <1>1 DEF IndInv, TypeOK, ConnectionTypeOK, Writes, Open
    <2>2. pc' \in [Request -> Step]
        BY <1>1, <1>3
    <2>3. QED
        BY <1>1, <2>1, <2>2, Zenon DEF IndInv, TypeOK
<1>5. OnlyMoves(r) /\ pc'[r] = s
    BY <1>1, <1>3 DEF OnlyMoves
<1>6. QED
    BY <1>1, <1>2, <1>4, <1>5, OneMoves, Zenon DEF Stays, KeepsSide

\* A new request goes to its first step.
LEMMA Starting ==
    ASSUME IndInv, NEW r \in Request, NEW s \in Step \ InTransaction, NEW what \in Input,
           NEW i \in Nat, Starts(r, s, what),
           ticketId' = ticketId \/ ticketId' = [ticketId EXCEPT ![r] = i],
           trouble \subseteq trouble', trouble' \subseteq Trouble,
           Fits(r)', NothingMixed' => ProgressOf(r)'
    PROVE  IndInv'
<1>1. /\ pc' = [pc EXCEPT ![r] = s] /\ UNCHANGED connection
      /\ input' = [input EXCEPT ![r] = what] /\ UNCHANGED seen /\ pc[r] = "new"
    BY DEF Starts, Goes
<1>2. db' = db
    BY <1>1 DEF connection
<1>3. pc \in [Request -> Step] /\ input \in [Request -> Input] /\ ticketId \in [Request -> Nat]
    BY DEF IndInv, TypeOK
<1>4. ticketId' \in [Request -> Nat] /\ \A q \in Request \ {r} : ticketId'[q] = ticketId[q]
    BY <1>3
<1>5. TypeOK'
    <2>1. ConnectionTypeOK(Content)'
        BY <1>1 DEF IndInv, TypeOK, ConnectionTypeOK, connection, Open
    <2>2. pc' \in [Request -> Step] /\ input' \in [Request -> Input]
        BY <1>1, <1>3
    <2>3. QED
        BY <1>1, <1>4, <2>1, <2>2, Zenon DEF IndInv, TypeOK
<1>6. OnlyMoves(r) /\ pc'[r] = s
    BY <1>1, <1>3, <1>4 DEF OnlyMoves
<1>7. AlikeBut(r, db, db')
    BY <1>2, Zenon DEF AlikeBut, Alike
<1>8. KeepsSide(r)
    BY <1>1, <1>6 DEF KeepsSide, InTransaction
<1>9. QED
    BY <1>1, <1>5, <1>6, <1>7, <1>8, OneMoves, Zenon DEF Stays

(***************************************************************************)
(* What a statement writes                                                 *)
(***************************************************************************)

\* The tables have their fields.
LEMMA ContentFields ==
    ASSUME NEW c \in Content
    PROVE  /\ c.ticket \in Seq([by : Ticket, status : SupportStatus])
           /\ c.snapshot \subseteq Nat \X Ticket
           /\ c.event \subseteq Nat \X EventType \X Request
           /\ c.mail \subseteq Nat \X Request
           /\ c.definition \in [Plan -> Save \cup {Seed, Nobody}]
           /\ c.product \in [Plan -> Save \cup {Seed, Nobody}]
           /\ c.bucket \in [Plan -> [total : Nat, open : BOOLEAN] \cup {Nobody}]
           /\ c.group \in BOOLEAN /\ c.target \in BOOLEAN
           /\ c.free \in [Plan -> Nat] /\ c.held \in [Plan -> SUBSET Checkout]
           /\ c.purchase \subseteq Checkout /\ c.audit \subseteq Request
BY DEF Content

\* A ticket of r is appended.
LEMMA AppendsTicket ==
    ASSUME NEW c \in Content, NEW r \in Ticket, NEW status \in SupportStatus, NEW d,
           d = [c EXCEPT !.ticket = Append(@, [by |-> r, status |-> status])]
    PROVE  /\ d \in Content /\ Len(c.ticket) + 1 \in Nat
           /\ TicketsOf(r, d) = TicketsOf(r, c) \cup {Len(c.ticket) + 1}
           /\ SnapshotsOf(r, d) = SnapshotsOf(r, c) /\ EventsOf(r, d) = EventsOf(r, c)
           /\ MailsOf(r, d) = MailsOf(r, c)
           /\ AlikeBut(r, c, d)
<1> DEFINE new == [by |-> r, status |-> status]
<1>1. c.ticket \in Seq([by : Ticket, status : SupportStatus])
    BY ContentFields
<1>2. new \in [by : Ticket, status : SupportStatus] /\ new.by = r
    OBVIOUS
<1>3. d.ticket = Append(c.ticket, new)
    BY DEF Content
<1>4. /\ d.snapshot = c.snapshot /\ d.event = c.event /\ d.mail = c.mail
      /\ d.held = c.held /\ d.purchase = c.purchase /\ d.audit = c.audit
    BY DEF Content
<1> HIDE DEF new
<1>5. /\ d.ticket \in Seq([by : Ticket, status : SupportStatus])
      /\ DOMAIN d.ticket = DOMAIN c.ticket \cup {Len(c.ticket) + 1}
      /\ Len(c.ticket) + 1 \notin DOMAIN c.ticket
      /\ d.ticket[Len(c.ticket) + 1] = new
      /\ \A i \in DOMAIN c.ticket : d.ticket[i] = c.ticket[i]
    BY <1>1, <1>2, <1>3
<1>6. d \in Content
    BY <1>5 DEF Content
<1>7. \A q : TicketsOf(q, d) = TicketsOf(q, c) \cup (IF q = r THEN {Len(c.ticket) + 1} ELSE {})
    BY <1>2, <1>5 DEF TicketsOf
<1>8. \A q \in Request \ {r} : TicketsOf(q, d) = TicketsOf(q, c)
    BY <1>7
<1>9. \A q : /\ SnapshotsOf(q, d) = SnapshotsOf(q, c) /\ EventsOf(q, d) = EventsOf(q, c)
             /\ MailsOf(q, d) = MailsOf(q, c) /\ PlansOf(q, d) = PlansOf(q, c)
    BY <1>4, Zenon DEF SnapshotsOf, EventsOf, MailsOf, PlansOf
<1>10. AlikeBut(r, c, d)
    BY <1>4, <1>8, <1>9, Zenon DEF AlikeBut, Alike
<1>11. TicketsOf(r, d) = TicketsOf(r, c) \cup {Len(c.ticket) + 1}
    BY <1>7
<1>12. Len(c.ticket) + 1 \in Nat
    BY <1>1
<1>13. QED
    BY <1>6, <1>9, <1>10, <1>11, <1>12

\* A row of r is added to the snapshots, the events or the mails.
LEMMA AddsRow ==
    ASSUME NEW c \in Content, NEW r \in Request, NEW i \in Nat
    PROVE  /\ \A d : r \in Ticket /\ d = [c EXCEPT !.snapshot = @ \cup {<<i, r>>}] =>
                /\ d \in Content /\ AlikeBut(r, c, d)
                /\ SnapshotsOf(r, d) = SnapshotsOf(r, c) \cup {<<i, r>>}
                /\ TicketsOf(r, d) = TicketsOf(r, c) /\ EventsOf(r, d) = EventsOf(r, c)
                /\ MailsOf(r, d) = MailsOf(r, c)
           /\ \A type \in EventType : \A d : d = [c EXCEPT !.event = @ \cup {<<i, type, r>>}] =>
                /\ d \in Content /\ AlikeBut(r, c, d)
                /\ EventsOf(r, d) = EventsOf(r, c) \cup {<<i, type, r>>}
                /\ TicketsOf(r, d) = TicketsOf(r, c) /\ SnapshotsOf(r, d) = SnapshotsOf(r, c)
                /\ MailsOf(r, d) = MailsOf(r, c)
           /\ \A d : d = [c EXCEPT !.mail = @ \cup {<<i, r>>}] =>
                /\ d \in Content /\ AlikeBut(r, c, d)
                /\ MailsOf(r, d) = MailsOf(r, c) \cup {<<i, r>>}
                /\ TicketsOf(r, d) = TicketsOf(r, c) /\ SnapshotsOf(r, d) = SnapshotsOf(r, c)
                /\ EventsOf(r, d) = EventsOf(r, c)
<1>1. ASSUME NEW d, r \in Ticket, d = [c EXCEPT !.snapshot = @ \cup {<<i, r>>}]
      PROVE  /\ d \in Content /\ AlikeBut(r, c, d)
             /\ SnapshotsOf(r, d) = SnapshotsOf(r, c) \cup {<<i, r>>}
             /\ TicketsOf(r, d) = TicketsOf(r, c) /\ EventsOf(r, d) = EventsOf(r, c)
             /\ MailsOf(r, d) = MailsOf(r, c)
    <2>1. d \in Content
        <3>1. c.snapshot \cup {<<i, r>>} \in SUBSET (Nat \X Ticket)
            BY <1>1, ContentFields
        <3>2. QED
            BY <1>1, <3>1 DEF Content
    <2>2. /\ d.snapshot = c.snapshot \cup {<<i, r>>}
          /\ d.ticket = c.ticket /\ d.event = c.event /\ d.mail = c.mail
          /\ d.held = c.held /\ d.purchase = c.purchase /\ d.audit = c.audit
        BY <1>1 DEF Content
    <2>3. \A q : /\ TicketsOf(q, d) = TicketsOf(q, c) /\ EventsOf(q, d) = EventsOf(q, c)
                 /\ MailsOf(q, d) = MailsOf(q, c) /\ PlansOf(q, d) = PlansOf(q, c)
        BY <2>2, Zenon DEF TicketsOf, EventsOf, MailsOf, PlansOf
    <2>4. \A q \in Request \ {r} : SnapshotsOf(q, d) = SnapshotsOf(q, c)
        BY <2>2 DEF SnapshotsOf
    <2>5. SnapshotsOf(r, d) = SnapshotsOf(r, c) \cup {<<i, r>>}
        BY <2>2 DEF SnapshotsOf
    <2>6. AlikeBut(r, c, d)
        BY <2>2, <2>3, <2>4, Zenon DEF AlikeBut, Alike
    <2>7. QED
        BY <2>1, <2>3, <2>5, <2>6
<1>2. ASSUME NEW type \in EventType, NEW d, d = [c EXCEPT !.event = @ \cup {<<i, type, r>>}]
      PROVE  /\ d \in Content /\ AlikeBut(r, c, d)
             /\ EventsOf(r, d) = EventsOf(r, c) \cup {<<i, type, r>>}
             /\ TicketsOf(r, d) = TicketsOf(r, c) /\ SnapshotsOf(r, d) = SnapshotsOf(r, c)
             /\ MailsOf(r, d) = MailsOf(r, c)
    <2>1. d \in Content
        <3>1. c.event \cup {<<i, type, r>>} \in SUBSET (Nat \X EventType \X Request)
            BY <1>2, ContentFields
        <3>2. QED
            BY <1>2, <3>1 DEF Content
    <2>2. /\ d.event = c.event \cup {<<i, type, r>>}
          /\ d.ticket = c.ticket /\ d.snapshot = c.snapshot /\ d.mail = c.mail
          /\ d.held = c.held /\ d.purchase = c.purchase /\ d.audit = c.audit
        BY <1>2 DEF Content
    <2>3. \A q : /\ TicketsOf(q, d) = TicketsOf(q, c) /\ SnapshotsOf(q, d) = SnapshotsOf(q, c)
                 /\ MailsOf(q, d) = MailsOf(q, c) /\ PlansOf(q, d) = PlansOf(q, c)
        BY <2>2, Zenon DEF TicketsOf, SnapshotsOf, MailsOf, PlansOf
    <2>4. \A q \in Request \ {r} : EventsOf(q, d) = EventsOf(q, c)
        BY <2>2 DEF EventsOf
    <2>5. EventsOf(r, d) = EventsOf(r, c) \cup {<<i, type, r>>}
        BY <2>2 DEF EventsOf
    <2>6. AlikeBut(r, c, d)
        BY <2>2, <2>3, <2>4, Zenon DEF AlikeBut, Alike
    <2>7. QED
        BY <2>1, <2>3, <2>5, <2>6
<1>3. ASSUME NEW d, d = [c EXCEPT !.mail = @ \cup {<<i, r>>}]
      PROVE  /\ d \in Content /\ AlikeBut(r, c, d)
             /\ MailsOf(r, d) = MailsOf(r, c) \cup {<<i, r>>}
             /\ TicketsOf(r, d) = TicketsOf(r, c) /\ SnapshotsOf(r, d) = SnapshotsOf(r, c)
             /\ EventsOf(r, d) = EventsOf(r, c)
    <2>1. d \in Content
        <3>1. c.mail \cup {<<i, r>>} \in SUBSET (Nat \X Request)
            BY <1>3, ContentFields
        <3>2. QED
            BY <1>3, <3>1 DEF Content
    <2>2. /\ d.mail = c.mail \cup {<<i, r>>}
          /\ d.ticket = c.ticket /\ d.snapshot = c.snapshot /\ d.event = c.event
          /\ d.held = c.held /\ d.purchase = c.purchase /\ d.audit = c.audit
        BY <1>3 DEF Content
    <2>3. \A q : /\ TicketsOf(q, d) = TicketsOf(q, c) /\ SnapshotsOf(q, d) = SnapshotsOf(q, c)
                 /\ EventsOf(q, d) = EventsOf(q, c) /\ PlansOf(q, d) = PlansOf(q, c)
        BY <2>2, Zenon DEF TicketsOf, SnapshotsOf, EventsOf, PlansOf
    <2>4. \A q \in Request \ {r} : MailsOf(q, d) = MailsOf(q, c)
        BY <2>2 DEF MailsOf
    <2>5. MailsOf(r, d) = MailsOf(r, c) \cup {<<i, r>>}
        BY <2>2 DEF MailsOf
    <2>6. AlikeBut(r, c, d)
        BY <2>2, <2>3, <2>4, Zenon DEF AlikeBut, Alike
    <2>7. QED
        BY <2>1, <2>3, <2>5, <2>6
<1>4. QED
    BY <1>1, <1>2, <1>3

\* The step of r that a statement is.
LEMMA DoesIs ==
    ASSUME TypeOK, NEW r \in Request, NEW s
    PROVE  /\ Goes(r, s) => pc'[r] = s
           /\ \A new : Does(r, new, s) =>
                /\ pc'[r] = s /\ db' = new
                /\ input' = input /\ ticketId' = ticketId /\ trouble' = trouble
           /\ Skips(r, s) =>
                /\ pc'[r] = s /\ db' = db
                /\ input' = input /\ ticketId' = ticketId /\ trouble' = trouble
<1>1. pc \in [Request -> Step]
    BY DEF TypeOK
<1>2. Goes(r, s) => pc'[r] = s
    BY <1>1 DEF Goes
<1>3. QED
    BY <1>2 DEF Does, Skips, Writes, connection

\* A ticket request is about a ticket; its id is a number.
LEMMA IdsAre ==
    ASSUME TypeOK, NEW r \in Request
    PROVE  ticketId[r] \in Nat /\ db \in Content /\ input[r] \in Input
BY DEF TypeOK, ConnectionTypeOK

(***************************************************************************)
(* Tickets                                                                 *)
(***************************************************************************)

\* The step OpenTicket keeps the invariant.
LEMMA OpenTicketKeeps ==
    ASSUME IndInv, NEW r \in Ticket, NEW category, NEW fulfillment,
           OpenTicket(r, category, fulfillment)
    PROVE  IndInv'
<1> DEFINE human == HumanRequired(category, fulfillment)
           what == [NoInput EXCEPT !.flag = human,
                        !.status = IF human THEN "needs_admin" ELSE "waiting_on_customer"]
<1>1. r \in Request /\ TypeOK
    BY KindsApart DEF IndInv
<1>2. Starts(r, "begin", what) /\ UNCHANGED <<ticketId, trouble>>
    BY Zenon DEF OpenTicket
<1>3. human \in BOOLEAN
    BY DEF HumanRequired
<1> HIDE DEF human
<1>4. what \in Input /\ what.status \in SupportStatus
    BY <1>3 DEF NoInput, Input, SupportStatus
<1> HIDE DEF what
<1>5. pc[r] = "new" /\ pc'[r] = "begin" /\ input'[r] = what /\ db' = db
    BY <1>1, <1>2 DEF Starts, Goes, TypeOK, connection
<1>6. Fits(r)'
    BY <1>1, <1>4, <1>5, KindsApart DEF Fits, Stopped
<1>7. NothingMixed' => ProgressOf(r)'
    <2>1. ASSUME NothingMixed' PROVE Traceless(r, db)
        <3>1. NothingMixed
            BY <1>2, <2>1 DEF NothingMixed
        <3>2. QED
            BY <1>1, <1>5, <3>1 DEF IndInv, Progress, ProgressOf, TicketProgress
    <2>2. QED
        BY <1>1, <1>5, <2>1, KindsApart DEF ProgressOf, TicketProgress
<1>8. "begin" \in Step \ InTransaction /\ trouble' = trouble
    BY <1>2 DEF Step, InTransaction
<1>9. trouble \subseteq Trouble
    BY <1>1 DEF TypeOK
<1>10. 0 \in Nat
    OBVIOUS
<1>11. QED
    BY <1>1, <1>2, <1>4, <1>6, <1>7, <1>8, <1>9, <1>10, Starting

\* The step InsertTicket keeps the invariant.
LEMMA InsertTicketKeeps ==
    ASSUME IndInv, NEW r \in Ticket, InsertTicket(r)
    PROVE  IndInv'
<1> DEFINE new == [db EXCEPT !.ticket = Append(@, [by |-> r, status |-> input[r].status])]
           i == Len(db.ticket) + 1
<1>1. r \in Request /\ TypeOK /\ db \in Content
    BY KindsApart DEF IndInv, TypeOK, ConnectionTypeOK
<1>2. /\ pc[r] = "ticket" /\ Writes(r, new) /\ db' = new
      /\ ticketId' = [ticketId EXCEPT ![r] = i]
      /\ pc' = [pc EXCEPT ![r] = "snapshot"] /\ UNCHANGED <<input, seen, trouble>>
    BY DEF InsertTicket, Goes, Writes
<1>3. input[r].status \in SupportStatus
    BY <1>1, <1>2 DEF IndInv, RequestsFit, Fits
<1>4. /\ new \in Content /\ i \in Nat
      /\ TicketsOf(r, new) = TicketsOf(r, db) \cup {i}
      /\ SnapshotsOf(r, new) = SnapshotsOf(r, db) /\ EventsOf(r, new) = EventsOf(r, db)
      /\ MailsOf(r, new) = MailsOf(r, db)
      /\ AlikeBut(r, db, new)
    BY <1>1, <1>3, AppendsTicket
<1> HIDE DEF new, i
<1>5. TypeOK'
    <2>1. ConnectionTypeOK(Content)'
        BY <1>1, <1>2, <1>4 DEF TypeOK, ConnectionTypeOK, Writes, Open
    <2>2. pc' \in [Request -> Step] /\ ticketId' \in [Request -> Nat]
        BY <1>1, <1>2, <1>4 DEF TypeOK, Step, InTransaction
    <2>3. QED
        BY <1>1, <1>2, <2>1, <2>2, Zenon DEF TypeOK
<1>6. OnlyMoves(r) /\ pc'[r] = "snapshot" /\ ticketId'[r] = i /\ input'[r] = input[r]
    BY <1>1, <1>2 DEF OnlyMoves, TypeOK
<1>7. Fits(r)'
    BY <1>1, <1>3, <1>6, KindsApart DEF Fits, Stopped
<1>8. NothingMixed' => ProgressOf(r)'
    <2>1. ASSUME NothingMixed' PROVE (Filed(r, {ticketId[r]}, {}, {}, {}))'
        <3>1. NothingMixed
            BY <1>2, <2>1 DEF NothingMixed
        <3>2. Traceless(r, db)
            BY <1>1, <1>2, <3>1 DEF IndInv, Progress, ProgressOf, TicketProgress
        <3>3. TicketsOf(r, new) = {i}
            BY <1>4, <3>2 DEF Traceless
        <3>4. QED
            BY <1>2, <1>4, <1>6, <3>2, <3>3, Zenon DEF Traceless, Filed
    <2>2. QED
        BY <1>1, <1>6, <2>1, KindsApart DEF ProgressOf, TicketProgress
<1>9. KeepsSide(r)
    BY <1>2, <1>6 DEF KeepsSide, InTransaction
<1>10. QED
    BY <1>1, <1>2, <1>4, <1>5, <1>6, <1>7, <1>8, <1>9, OneMoves, Zenon DEF Stays

\* While transactions do not collide, the ticket of a request that has stored one is
\* there.
LEMMA TicketIsThere ==
    ASSUME IndInv, NEW r \in Ticket,
           pc[r] \in {"snapshot", "created", "guidance", "commit", "mail"}, NothingMixed
    PROVE  TicketExists(ticketId[r])
<1>1. TicketProgress(r)
    BY KindsApart DEF IndInv, Progress, ProgressOf
<1>2. TicketsOf(r, db) = {ticketId[r]}
    BY <1>1 DEF TicketProgress, Filed
<1>3. QED
    BY <1>2 DEF TicketsOf, TicketExists

\* The step InsertSnapshot keeps the invariant.
LEMMA InsertSnapshotKeeps ==
    ASSUME IndInv, NEW r \in Ticket, InsertSnapshot(r)
    PROVE  IndInv'
<1> DEFINE i == ticketId[r]
           new == [db EXCEPT !.snapshot = @ \cup {<<i, r>>}]
<1>1. r \in Request /\ TypeOK
    BY KindsApart DEF IndInv
<1>2. i \in Nat /\ db \in Content
    BY <1>1, IdsAre
<1>3. pc[r] = "snapshot" /\ Attaches(r, new, "created", "rollback")
    BY DEF InsertSnapshot
<1>4. /\ new \in Content /\ AlikeBut(r, db, new)
      /\ SnapshotsOf(r, new) = SnapshotsOf(r, db) \cup {<<i, r>>}
      /\ TicketsOf(r, new) = TicketsOf(r, db) /\ EventsOf(r, new) = EventsOf(r, db)
      /\ MailsOf(r, new) = MailsOf(r, db)
    BY <1>1, <1>2, AddsRow
<1> HIDE DEF new
<1>5. input[r].status \in SupportStatus
    BY <1>1, <1>3 DEF IndInv, RequestsFit, Fits
<1>6. CASE TicketExists(i)
    <2>1. Does(r, new, "created")
        BY <1>3, <1>6 DEF Attaches
    <2>2. pc'[r] = "created" /\ db' = new /\ input' = input /\ ticketId' = ticketId
          /\ trouble' = trouble
        BY <1>1, <2>1, DoesIs, Zenon
    <2>3. Fits(r)'
        BY <1>1, <1>5, <2>2, KindsApart DEF Fits, Stopped
    <2>4. ASSUME NothingMixed' PROVE (Filed(r, {ticketId[r]}, {<<ticketId[r], r>>}, {}, {}))'
        <3>1. NothingMixed
            BY <2>2, <2>4 DEF NothingMixed
        <3>2. Filed(r, {i}, {}, {}, {})
            BY <1>1, <1>3, <3>1 DEF IndInv, Progress, ProgressOf, TicketProgress
        <3>3. SnapshotsOf(r, new) = {<<i, r>>}
            BY <1>4, <3>2 DEF Filed
        <3>4. QED
            BY <1>4, <2>2, <3>2, <3>3, Zenon DEF Filed
    <2>5. NothingMixed' => ProgressOf(r)'
        BY <1>1, <2>2, <2>4, KindsApart DEF ProgressOf, TicketProgress
    <2>6. "created" \in Step /\ (pc[r] \in InTransaction <=> "created" \in InTransaction)
        BY <1>3 DEF Step, InTransaction
    <2>7. QED
        BY <1>1, <1>4, <2>1, <2>3, <2>5, <2>6, Doing
<1>7. CASE ~TicketExists(i)
    <2>1. Skips(r, "rollback")
        BY <1>3, <1>7 DEF Attaches
    <2>2. pc'[r] = "rollback" /\ input' = input /\ trouble' = trouble
        BY <1>1, <2>1, DoesIs, Zenon
    <2>3. Fits(r)'
        BY <1>1, <1>5, <2>2, KindsApart DEF Fits, Stopped
    <2>4. ~NothingMixed'
        BY <1>3, <1>7, <2>2, TicketIsThere DEF NothingMixed
    <2>5. "rollback" \in Step /\ (pc[r] \in InTransaction <=> "rollback" \in InTransaction)
        BY <1>3 DEF Step, InTransaction
    <2>6. QED
        BY <1>1, <2>1, <2>3, <2>4, <2>5, Skipping
<1>8. QED
    BY <1>6, <1>7

\* The step RecordCreated keeps the invariant.
LEMMA RecordCreatedKeeps ==
    ASSUME IndInv, NEW r \in Ticket, RecordCreated(r)
    PROVE  IndInv'
<1> DEFINE i == ticketId[r]
           new == WithEvent(r, "created")
           s == IF input[r].flag THEN "commit" ELSE "guidance"
<1>1. r \in Request /\ TypeOK
    BY KindsApart DEF IndInv
<1>2. i \in Nat /\ db \in Content
    BY <1>1, IdsAre
<1>3. pc[r] = "created" /\ Attaches(r, new, s, "rollback")
    BY DEF RecordCreated
<1>4. /\ new \in Content /\ AlikeBut(r, db, new)
      /\ EventsOf(r, new) = EventsOf(r, db) \cup {<<i, "created", r>>}
      /\ TicketsOf(r, new) = TicketsOf(r, db) /\ SnapshotsOf(r, new) = SnapshotsOf(r, db)
      /\ MailsOf(r, new) = MailsOf(r, db)
    <2>1. "created" \in EventType
        BY DEF EventType
    <2>2. new = [db EXCEPT !.event = @ \cup {<<i, "created", r>>}]
        BY DEF WithEvent
    <2> HIDE DEF new
    <2>3. QED
        BY <1>1, <1>2, <2>1, <2>2, AddsRow
<1> HIDE DEF new, s
<1>5. input[r].status \in SupportStatus
    BY <1>1, <1>3 DEF IndInv, RequestsFit, Fits
<1>6. s \in {"commit", "guidance"}
    BY DEF s
<1>7. CASE TicketExists(i)
    <2>1. Does(r, new, s)
        BY <1>3, <1>7 DEF Attaches
    <2>2. pc'[r] = s /\ db' = new /\ input' = input /\ ticketId' = ticketId
          /\ trouble' = trouble
        BY <1>1, <2>1, DoesIs, Zenon
    <2>3. Fits(r)'
        BY <1>1, <1>5, <1>6, <2>2, KindsApart DEF Fits, Stopped
    <2>4. ASSUME NothingMixed' PROVE ProgressOf(r)'
        <3>1. NothingMixed
            BY <2>2, <2>4 DEF NothingMixed
        <3>2. Filed(r, {i}, {<<i, r>>}, {}, {})
            BY <1>1, <1>3, <3>1 DEF IndInv, Progress, ProgressOf, TicketProgress
        <3>3. EventsOf(r, new) = {<<i, "created", r>>}
            BY <1>4, <3>2 DEF Filed
        <3>4. (Filed(r, {i}, {<<i, r>>}, {<<i, "created", r>>}, {}))'
            <4>1. {<<i, "created", r>>}' = {<<i, "created", r>>} /\ i' = i
                BY <2>2 DEF FirstEvents
            <4>2. QED
                BY <1>4, <2>2, <3>2, <3>3, <4>1, Zenon DEF Filed
        <3>5. s = "commit" => {<<i, "created", r>>} = FirstEvents(r)
            BY DEF FirstEvents, s
        <3>6. s = "guidance" => ~input[r].flag
            BY DEF s
        <3>7. s \in {"commit", "guidance"}
            BY DEF s
        <3>9. FirstEvents(r)' = FirstEvents(r)
            BY <2>2 DEF FirstEvents
        <3>8. QED
            BY <1>1, <2>2, <3>4, <3>5, <3>6, <3>7, <3>9, KindsApart DEF ProgressOf, TicketProgress
    <2>6. s \in Step /\ (pc[r] \in InTransaction <=> s \in InTransaction)
        BY <1>3, <1>6 DEF Step, InTransaction
    <2>7. QED
        BY <1>1, <1>4, <2>1, <2>3, <2>4, <2>6, Doing
<1>8. CASE ~TicketExists(i)
    <2>1. Skips(r, "rollback")
        BY <1>3, <1>8 DEF Attaches
    <2>2. pc'[r] = "rollback" /\ input' = input /\ trouble' = trouble
        BY <1>1, <2>1, DoesIs, Zenon
    <2>3. Fits(r)'
        BY <1>1, <1>5, <2>2, KindsApart DEF Fits, Stopped
    <2>4. ~NothingMixed'
        BY <1>3, <1>8, <2>2, TicketIsThere DEF NothingMixed
    <2>5. "rollback" \in Step /\ (pc[r] \in InTransaction <=> "rollback" \in InTransaction)
        BY <1>3 DEF Step, InTransaction
    <2>6. QED
        BY <1>1, <2>1, <2>3, <2>4, <2>5, Skipping
<1>9. QED
    BY <1>7, <1>8

\* The step RecordGuidance keeps the invariant.
LEMMA RecordGuidanceKeeps ==
    ASSUME IndInv, NEW r \in Ticket, RecordGuidance(r)
    PROVE  IndInv'
<1> DEFINE i == ticketId[r]
           new == WithEvent(r, "auto_guidance_sent")
           s == "commit"
<1>1. r \in Request /\ TypeOK
    BY KindsApart DEF IndInv
<1>2. i \in Nat /\ db \in Content
    BY <1>1, IdsAre
<1>3. pc[r] = "guidance" /\ Attaches(r, new, s, "rollback")
    BY DEF RecordGuidance
<1>4. /\ new \in Content /\ AlikeBut(r, db, new)
      /\ EventsOf(r, new) = EventsOf(r, db) \cup {<<i, "auto_guidance_sent", r>>}
      /\ TicketsOf(r, new) = TicketsOf(r, db) /\ SnapshotsOf(r, new) = SnapshotsOf(r, db)
      /\ MailsOf(r, new) = MailsOf(r, db)
    <2>1. "auto_guidance_sent" \in EventType
        BY DEF EventType
    <2>2. new = [db EXCEPT !.event = @ \cup {<<i, "auto_guidance_sent", r>>}]
        BY DEF WithEvent
    <2> HIDE DEF new
    <2>3. QED
        BY <1>1, <1>2, <2>1, <2>2, AddsRow
<1> HIDE DEF new, s
<1>5. input[r].status \in SupportStatus
    BY <1>1, <1>3 DEF IndInv, RequestsFit, Fits
<1>6. s \in {"commit", "guidance"}
    BY DEF s
<1>7. CASE TicketExists(i)
    <2>1. Does(r, new, s)
        BY <1>3, <1>7 DEF Attaches
    <2>2. pc'[r] = s /\ db' = new /\ input' = input /\ ticketId' = ticketId
          /\ trouble' = trouble
        BY <1>1, <2>1, DoesIs, Zenon
    <2>3. Fits(r)'
        BY <1>1, <1>5, <1>6, <2>2, KindsApart DEF Fits, Stopped
    <2>4. ASSUME NothingMixed' PROVE ProgressOf(r)'
        <3>1. NothingMixed
            BY <2>2, <2>4 DEF NothingMixed
        <3>2. Filed(r, {i}, {<<i, r>>}, {<<i, "created", r>>}, {}) /\ ~input[r].flag
            BY <1>1, <1>3, <3>1 DEF IndInv, Progress, ProgressOf, TicketProgress
        <3>3. EventsOf(r, new) = FirstEvents(r)
            BY <1>4, <3>2 DEF Filed, FirstEvents
        <3>4. (Filed(r, {i}, {<<i, r>>}, FirstEvents(r), {}))'
            <4>1. FirstEvents(r)' = FirstEvents(r) /\ i' = i
                BY <2>2 DEF FirstEvents
            <4>2. QED
                BY <1>4, <2>2, <3>2, <3>3, <4>1, Zenon DEF Filed
        <3>7. s = "commit"
            BY DEF s
        <3>9. FirstEvents(r)' = FirstEvents(r)
            BY <2>2 DEF FirstEvents
        <3>8. QED
            BY <1>1, <2>2, <3>4, <3>7, <3>9, KindsApart DEF ProgressOf, TicketProgress
    <2>6. s \in Step /\ (pc[r] \in InTransaction <=> s \in InTransaction)
        BY <1>3, <1>6 DEF Step, InTransaction
    <2>7. QED
        BY <1>1, <1>4, <2>1, <2>3, <2>4, <2>6, Doing
<1>8. CASE ~TicketExists(i)
    <2>1. Skips(r, "rollback")
        BY <1>3, <1>8 DEF Attaches
    <2>2. pc'[r] = "rollback" /\ input' = input /\ trouble' = trouble
        BY <1>1, <2>1, DoesIs, Zenon
    <2>3. Fits(r)'
        BY <1>1, <1>5, <2>2, KindsApart DEF Fits, Stopped
    <2>4. ~NothingMixed'
        BY <1>3, <1>8, <2>2, TicketIsThere DEF NothingMixed
    <2>5. "rollback" \in Step /\ (pc[r] \in InTransaction <=> "rollback" \in InTransaction)
        BY <1>3 DEF Step, InTransaction
    <2>6. QED
        BY <1>1, <2>1, <2>3, <2>4, <2>5, Skipping
<1>9. QED
    BY <1>7, <1>8

\* Only a ticket or a desk request queues a mail, and it stores the row only under a
\* ticket that is there.
LEMMA QueueMailKeeps ==
    ASSUME IndInv, NEW r \in Request, QueueMail(r)
    PROVE  IndInv'
<1> DEFINE i == ticketId[r]
           new == [db EXCEPT !.mail = @ \cup {<<i, r>>}]
<1>1. TypeOK /\ Fits(r)
    BY DEF IndInv, RequestsFit
<1>2. i \in Nat /\ db \in Content
    BY <1>1, IdsAre
<1>3. pc[r] = "mail" /\ Attaches(r, new, "done", "failed")
    BY DEF QueueMail
<1>4. /\ new \in Content /\ AlikeBut(r, db, new)
      /\ MailsOf(r, new) = MailsOf(r, db) \cup {<<i, r>>}
      /\ TicketsOf(r, new) = TicketsOf(r, db) /\ SnapshotsOf(r, new) = SnapshotsOf(r, db)
      /\ EventsOf(r, new) = EventsOf(r, db)
    BY <1>2, AddsRow
<1>5. <<i, r>> \in new.mail /\ new.event = db.event
    BY <1>2 DEF Content
<1> HIDE DEF new
<1>6. r \in Ticket \cup Desk
    BY <1>1, <1>3, KindsApart DEF Fits, Stopped
<1>7. r \in Ticket => input[r].status \in SupportStatus
    BY <1>1, <1>3 DEF Fits
<1>8. CASE TicketExists(i)
    <2>1. Does(r, new, "done")
        BY <1>3, <1>8 DEF Attaches
    <2>2. pc'[r] = "done" /\ db' = new /\ input' = input /\ ticketId' = ticketId
          /\ trouble' = trouble
        BY <1>1, <2>1, DoesIs, Zenon
    <2>3. Fits(r)'
        BY <1>6, <1>7, <2>2, KindsApart DEF Fits, Stopped
    <2>4. ASSUME NothingMixed' PROVE ProgressOf(r)'
        <3>1. NothingMixed
            BY <2>2, <2>4 DEF NothingMixed
        <3>2. ProgressOf(r)
            BY <3>1, Zenon DEF IndInv, Progress
        <3>3. CASE r \in Ticket
            <4>1. Filed(r, {i}, {<<i, r>>}, FirstEvents(r), {})
                BY <1>3, <3>2, <3>3 DEF ProgressOf, TicketProgress
            <4>2. MailsOf(r, new) = {<<i, r>>}
                BY <1>4, <4>1 DEF Filed
            <4>3. FirstEvents(r)' = FirstEvents(r) /\ i' = i
                BY <2>2 DEF FirstEvents
            <4>4. (Filed(r, {i}, {<<i, r>>}, FirstEvents(r), {<<i, r>>}))'
                BY <1>4, <2>2, <4>1, <4>2, <4>3, Zenon DEF Filed
            <4>5. QED
                BY <2>2, <3>3, <4>4, KindsApart DEF ProgressOf, TicketProgress
        <3>4. CASE r \in Desk
            <4>1. <<i, "changed", r>> \in db.event
                BY <1>3, <3>2, <3>4 DEF ProgressOf, DeskProgress
            <4>2. QED
                BY <1>5, <2>2, <3>4, <4>1, KindsApart DEF ProgressOf, DeskProgress
        <3>5. QED
            BY <1>6, <3>3, <3>4
    <2>5. "done" \in Step /\ (pc[r] \in InTransaction <=> "done" \in InTransaction)
        BY <1>3 DEF Step, InTransaction
    <2>6. QED
        BY <1>4, <2>1, <2>3, <2>4, <2>5, Doing
<1>9. CASE ~TicketExists(i)
    <2>1. Skips(r, "failed")
        BY <1>3, <1>9 DEF Attaches
    <2>2. pc'[r] = "failed" /\ db' = db /\ input' = input /\ ticketId' = ticketId
          /\ trouble' = trouble
        BY <1>1, <2>1, DoesIs, Zenon
    <2>3. Fits(r)'
        BY <1>6, <1>7, <2>2, KindsApart DEF Fits, Stopped
    <2>4. NothingMixed' => r \in Desk
        BY <1>3, <1>6, <1>9, <2>2, TicketIsThere DEF NothingMixed
    <2>5. NothingMixed' => ProgressOf(r)'
        BY <2>2, <2>4, KindsApart DEF ProgressOf, DeskProgress
    <2>6. "failed" \in Step /\ (pc[r] \in InTransaction <=> "failed" \in InTransaction)
        BY <1>3 DEF Step, InTransaction
    <2>7. QED
        BY <2>1, <2>3, <2>5, <2>6, Skipping
<1>10. QED
    BY <1>8, <1>9

(***************************************************************************)
(* The desk                                                                *)
(***************************************************************************)

\* The step StartDesk keeps the invariant.
LEMMA StartDeskKeeps ==
    ASSUME IndInv, NEW r \in Desk, NEW i \in DOMAIN db.ticket, StartDesk(r, i)
    PROVE  IndInv'
<1>1. r \in Request /\ TypeOK
    BY KindsApart DEF IndInv
<1>2. i \in Nat
    BY <1>1, IdsAre, ContentFields
<1>3. ASSUME NEW s \in {"reply", "note", "update"}, NEW what \in Input,
             About(r, i, s, what), s = "note" => ~what.flag
      PROVE  IndInv'
    <2>1. /\ Starts(r, s, what) /\ ticketId' = [ticketId EXCEPT ![r] = i]
          /\ trouble' = trouble
        BY <1>3 DEF About
    <2>2. pc'[r] = s /\ input'[r] = what
        BY <1>1, <2>1 DEF Starts, Goes, TypeOK
    <2>3. Fits(r)'
        BY <1>1, <2>2, KindsApart DEF Fits, Stopped
    <2>4. ProgressOf(r)'
        BY <1>1, <1>3, <2>2, KindsApart DEF ProgressOf, DeskProgress
    <2>5. s \in Step \ InTransaction
        BY DEF Step, InTransaction
    <2>6. trouble \subseteq Trouble
        BY <1>1 DEF TypeOK
    <2>7. QED
        BY <1>1, <1>2, <2>1, <2>3, <2>4, <2>5, <2>6, Starting
<1>4. NoInput \in Input /\ NoInput.flag = FALSE
    BY DEF NoInput, Input
<1>5. CASE About(r, i, "reply", [NoInput EXCEPT !.flag = TRUE, !.status = "replied"])
    <2>1. [NoInput EXCEPT !.flag = TRUE, !.status = "replied"] \in Input
        BY DEF NoInput, Input, SupportStatus
    <2>2. QED
        BY <1>3, <1>5, <2>1
<1>6. CASE About(r, i, "note", NoInput)
    BY <1>3, <1>4, <1>6
<1>7. ASSUME NEW t \in {"resolved", "admin_review"}, NEW mails \in BOOLEAN,
             About(r, i, "update", [NoInput EXCEPT !.flag = mails, !.status = t])
      PROVE  IndInv'
    <2>1. [NoInput EXCEPT !.flag = mails, !.status = t] \in Input
        BY DEF NoInput, Input, SupportStatus
    <2>2. QED
        BY <1>3, <1>7, <2>1
<1>8. CASE About(r, i, "update", NoInput)
    BY <1>3, <1>4, <1>8
<1>9. QED
    BY <1>5, <1>6, <1>7, <1>8, Zenon DEF StartDesk

\* The step DeskEvent keeps the invariant.
LEMMA DeskEventKeeps ==
    ASSUME IndInv, NEW r \in Desk, RecordReply(r) \/ RecordNote(r) \/ RecordChange(r)
    PROVE  IndInv'
<1> DEFINE i == ticketId[r]
<1>1. r \in Request /\ TypeOK
    BY KindsApart DEF IndInv
<1>2. i \in Nat /\ db \in Content
    BY <1>1, IdsAre
<1>3. ASSUME NEW type \in {"admin_reply", "internal_note", "changed"},
             NEW s \in {"update", "mail", "done"}, Attaches(r, WithEvent(r, type), s, "failed"),
             pc[r] \in {"reply", "note", "changed"},
             s = "mail" => type = "changed",
             s = "done" => type \in {"internal_note", "changed"} /\ (NothingMixed => ~input[r].flag)
      PROVE  IndInv'
    <2> DEFINE new == WithEvent(r, type)
    <2>1. new \in Content /\ AlikeBut(r, db, new) /\ <<i, type, r>> \in new.event
        <3>1. type \in EventType
            BY DEF EventType
        <3>2. new = [db EXCEPT !.event = @ \cup {<<i, type, r>>}]
            BY DEF WithEvent
        <3>3. <<i, type, r>> \in new.event
            BY <1>2, <3>2 DEF Content
        <3>4. QED
            BY <1>1, <1>2, <3>1, <3>2, <3>3, AddsRow
    <2> HIDE DEF new
    <2>2. CASE TicketExists(i)
        <3>1. Does(r, new, s)
            BY <1>3, <2>2 DEF Attaches, new
        <3>2. pc'[r] = s /\ db' = new /\ input' = input /\ ticketId' = ticketId
              /\ trouble' = trouble
            BY <1>1, <3>1, DoesIs, Zenon
        <3>3. Fits(r)'
            BY <1>1, <3>2, KindsApart DEF Fits, Stopped
        <3>4. NothingMixed' => ProgressOf(r)'
            <4>1. SUFFICES ASSUME NothingMixed' PROVE DeskProgress(r)'
                BY <1>1, KindsApart DEF ProgressOf
            <4>2. NothingMixed
                BY <3>2, <4>1 DEF NothingMixed
            <4>3. <<i, type, r>> \in db'.event /\ i' = i
                BY <2>1, <3>2
            <4>4. s = "mail" => <<i', "changed", r>> \in db'.event
                BY <1>3, <4>3
            <4>5. s = "done" => \E t \in {"internal_note", "changed"} : <<i', t, r>> \in db'.event
                BY <1>3, <4>3
            <4>6. s = "done" => ~input'[r].flag
                BY <1>3, <3>2, <4>2
            <4>7. QED
                BY <3>2, <4>4, <4>5, <4>6 DEF DeskProgress
        <3>5. s \in Step /\ (pc[r] \in InTransaction <=> s \in InTransaction)
            BY <1>3 DEF Step, InTransaction
        <3>6. QED
            BY <1>1, <2>1, <3>1, <3>3, <3>4, <3>5, Doing
    <2>3. CASE ~TicketExists(i)
        <3>1. Skips(r, "failed")
            BY <1>3, <2>3 DEF Attaches
        <3>2. pc'[r] = "failed"
            BY <1>1, <3>1, DoesIs, Zenon
        <3>3. Fits(r)' /\ ProgressOf(r)'
            BY <1>1, <3>2, KindsApart DEF Fits, Stopped, ProgressOf, DeskProgress
        <3>4. "failed" \in Step /\ (pc[r] \in InTransaction <=> "failed" \in InTransaction)
            BY <1>3 DEF Step, InTransaction
        <3>5. QED
            BY <1>1, <3>1, <3>3, <3>4, Skipping
    <2>4. QED
        BY <2>2, <2>3
<1>4. CASE RecordReply(r)
    BY <1>3, <1>4 DEF RecordReply
<1>5. CASE RecordNote(r)
    <2>1. NothingMixed => ~input[r].flag
        BY <1>1, <1>5 DEF RecordNote, IndInv, Progress, ProgressOf, DeskProgress
    <2>2. QED
        BY <1>3, <1>5, <2>1 DEF RecordNote
<1>6. CASE RecordChange(r)
    <2>1. CASE input[r].flag
        BY <1>3, <1>6, <2>1 DEF RecordChange
    <2>2. CASE ~input[r].flag
        BY <1>3, <1>6, <2>2 DEF RecordChange
    <2>3. QED
        BY <2>1, <2>2
<1>7. QED
    BY <1>4, <1>5, <1>6

\* The status of a ticket changes, if there is one, and nothing of anybody.
LEMMA ChangesStatus ==
    ASSUME NEW c \in Content, NEW i \in DOMAIN c.ticket, NEW status \in SupportStatus, NEW d,
           d = [c EXCEPT !.ticket[i].status = status]
    PROVE  d \in Content /\ \A q : Alike(q, c, d)
<1> DEFINE Rows == [by : Ticket, status : SupportStatus]
           t == [c.ticket EXCEPT ![i].status = status]
<1>1. c.ticket \in Seq(Rows) /\ c.ticket[i] \in Rows
    <2>1. c.ticket \in Seq(Rows)
        BY ContentFields
    <2>2. \A u \in Seq(Rows) : \A j \in 1 .. Len(u) : u[j] \in Rows
        BY ElementOfSeq, Zenon
    <2>3. DOMAIN c.ticket = 1 .. Len(c.ticket)
        BY <2>1, LenProperties, Zenon
    <2>4. QED
        BY <2>1, <2>2, <2>3, Zenon
<1>2. /\ t \in Seq(Rows) /\ DOMAIN t = DOMAIN c.ticket
      /\ \A j \in DOMAIN t : t[j].by = c.ticket[j].by
    BY <1>1
<1>3. d.ticket = t
    BY DEF Content
<1>4. /\ d.snapshot = c.snapshot /\ d.event = c.event /\ d.mail = c.mail
      /\ d.held = c.held /\ d.purchase = c.purchase /\ d.audit = c.audit
    BY DEF Content
<1>5. d \in Content
    BY <1>2, <1>3 DEF Content
<1> HIDE DEF t
<1>6. \A q : TicketsOf(q, d) = TicketsOf(q, c)
    BY <1>2, <1>3 DEF TicketsOf
<1>7. \A q : /\ SnapshotsOf(q, d) = SnapshotsOf(q, c) /\ EventsOf(q, d) = EventsOf(q, c)
             /\ MailsOf(q, d) = MailsOf(q, c) /\ PlansOf(q, d) = PlansOf(q, c)
    BY <1>4, Zenon DEF SnapshotsOf, EventsOf, MailsOf, PlansOf
<1>8. \A q : Alike(q, c, d)
    BY <1>4, <1>6, <1>7, Zenon DEF Alike
<1>9. QED
    BY <1>5, <1>8

\* The step UpdateTicket keeps the invariant.
LEMMA UpdateTicketKeeps ==
    ASSUME IndInv, NEW r \in Desk, UpdateTicket(r)
    PROVE  IndInv'
<1>1. r \in Request /\ TypeOK
    BY KindsApart DEF IndInv
<1>2. db \in Content /\ input[r].status \in SupportStatus \cup {Keep}
    BY <1>1, IdsAre DEF Input
<1> DEFINE i == ticketId[r]
           new == IF TicketExists(i) /\ input[r].status # Keep
                  THEN [db EXCEPT !.ticket[i].status = input[r].status] ELSE db
<1>3. pc[r] = "update" /\ Does(r, new, "changed")
    BY DEF UpdateTicket
<1>4. new \in Content /\ AlikeBut(r, db, new)
    <2>1. CASE TicketExists(i) /\ input[r].status # Keep
        BY <1>2, <2>1, ChangesStatus DEF AlikeBut, TicketExists
    <2>2. CASE ~(TicketExists(i) /\ input[r].status # Keep)
        BY <1>2, <2>2 DEF AlikeBut, Alike
    <2>3. QED
        BY <2>1, <2>2
<1> HIDE DEF new
<1>5. pc'[r] = "changed"
    BY <1>1, <1>3, DoesIs, Zenon
<1>6. Fits(r)' /\ ProgressOf(r)'
    BY <1>1, <1>5, KindsApart DEF Fits, Stopped, ProgressOf, DeskProgress
<1>7. "changed" \in Step /\ (pc[r] \in InTransaction <=> "changed" \in InTransaction)
    BY <1>3 DEF Step, InTransaction
<1>8. QED
    BY <1>1, <1>3, <1>4, <1>6, <1>7, Doing

(***************************************************************************)
(* The catalog                                                             *)
(***************************************************************************)

\* There are finitely many checkouts, so the slots they hold can be counted.
LEMMA CheckoutsAreFew == IsFiniteSet(Checkout)
<1>1. Checkout \subseteq Request
    BY KindsApart
<1>2. QED
    BY <1>1, FS_Subset, ConstantsAssumption, Zenon

\* Slots can be counted.
LEMMA CountsAre ==
    ASSUME NEW c \in Content, NEW p \in Plan
    PROVE  /\ IsFiniteSet(c.held[p]) /\ Cardinality(c.held[p]) \in Nat
           /\ c.free[p] \in Nat
<1>1. c.held[p] \subseteq Checkout /\ c.free[p] \in Nat
    BY ContentFields
<1>2. IsFiniteSet(c.held[p])
    BY <1>1, CheckoutsAreFew, FS_Subset, Zenon
<1>3. QED
    BY <1>1, <1>2, FS_CardinalityType

\* Steps of the catalog's requests short of the last one leave no rows.
LEMMA CatalogProgress ==
    ASSUME IndInv, NEW r \in Save \cup Patch \cup Retarget, pc[r] # "done", pc'[r] # "done",
           Alike(r, db, db'), trouble \subseteq trouble', NothingMixed'
    PROVE  ProgressOf(r)'
<1>1. r \in Request /\ NothingMixed
    BY KindsApart DEF NothingMixed
<1>2. r \in Patch => Traceless(r, db)
    BY <1>1 DEF IndInv, Progress, ProgressOf
<1>3. r \in Patch => Traceless(r, db)'
    BY <1>2, AlikeChains
<1>4. QED
    BY <1>1, <1>3, KindsApart, Zenon DEF ProgressOf

\* A statement about plans, buckets, targets and free slots.
LEMMA CatalogDoes ==
    ASSUME IndInv, NEW r \in Save \cup Patch \cup Retarget, NEW new \in Content, NEW s \in Step,
           Does(r, new, s),
           new.ticket = db.ticket, new.snapshot = db.snapshot, new.event = db.event,
           new.mail = db.mail, new.held = db.held, new.purchase = db.purchase,
           new.audit = db.audit,
           pc[r] # "done", s # "done", pc[r] \in InTransaction <=> s \in InTransaction,
           Fits(r)'
    PROVE  IndInv'
<1>1. r \in Request /\ TypeOK
    BY KindsApart DEF IndInv
<1>2. pc'[r] = s /\ db' = new /\ trouble' = trouble
    BY <1>1, DoesIs, Zenon
<1>3. \A q : Alike(q, db, new)
    BY SameRows, Zenon
<1>4. NothingMixed' => ProgressOf(r)'
    BY <1>2, <1>3, CatalogProgress
<1>5. QED
    BY <1>1, <1>3, <1>4, Doing, Zenon DEF AlikeBut

\* A catalog request without a statement.
LEMMA CatalogSkips ==
    ASSUME IndInv, NEW r \in Save \cup Patch \cup Retarget, NEW s \in Step, Skips(r, s),
           pc[r] # "done", s # "done", pc[r] \in InTransaction <=> s \in InTransaction,
           Fits(r)'
    PROVE  IndInv'
<1>1. r \in Request /\ TypeOK
    BY KindsApart DEF IndInv
<1>2. pc'[r] = s /\ db' = db /\ trouble' = trouble
    BY <1>1, DoesIs, Zenon
<1>3. Alike(r, db, db')
    BY <1>2, Zenon DEF Alike
<1>4. NothingMixed' => ProgressOf(r)'
    BY <1>2, <1>3, CatalogProgress
<1>5. QED
    BY <1>1, <1>4, Skipping

\* An order is for a plan.
LEMMA OrdersAre ==
    ASSUME NEW o \in Orders
    PROVE  o.plan \in Plan /\ o.total \in Nat \cup {Keep} /\ o.flag \in BOOLEAN
BY ConstantsAssumption

\* A save or a bucket change that starts keeps the invariant.
LEMMA StartsOnKeeps ==
    ASSUME IndInv, NEW r \in Save \cup Patch, NEW p \in Plan, NEW s \in {"begin", "definition"},
           NEW what \in Input, StartsOn(r, p, s, what),
           s = "begin" <=> r \in Patch, r \in Save => what.total \in Nat
    PROVE  IndInv'
<1> DEFINE full == [what EXCEPT !.plan = p]
<1>1. r \in Request /\ TypeOK
    BY KindsApart DEF IndInv
<1>2. /\ Starts(r, s, full) /\ ticketId' = ticketId
      /\ trouble \subseteq trouble' /\ trouble' \subseteq Trouble
    BY <1>1 DEF StartsOn, Meets, TypeOK
<1>3. full \in Input /\ full.plan = p /\ full.total = what.total
    BY DEF Input
<1> HIDE DEF full
<1>4. /\ pc[r] = "new" /\ pc'[r] = s /\ input'[r] = full /\ db' = db
    BY <1>1, <1>2 DEF Starts, Goes, TypeOK, connection
<1>5. Fits(r)'
    BY <1>1, <1>3, <1>4, KindsApart DEF Fits, Stopped
<1>6. Alike(r, db, db')
    BY <1>4, Zenon DEF Alike
<1>7. NothingMixed' => ProgressOf(r)'
    BY <1>2, <1>4, <1>6, CatalogProgress
<1>8. s \in Step \ InTransaction /\ 0 \in Nat
    BY DEF Step, InTransaction
<1>9. QED
    BY <1>1, <1>2, <1>3, <1>5, <1>7, <1>8, Starting

\* The step SavePlan keeps the invariant.
LEMMA SavePlanKeeps ==
    ASSUME IndInv, NEW r \in Save, NEW o \in Orders, o.total # Keep,
           SavePlan(r, o.plan, o.total, o.flag)
    PROVE  IndInv'
<1> DEFINE what == [NoInput EXCEPT !.total = o.total, !.flag = o.flag]
<1>1. StartsOn(r, o.plan, "definition", what)
    BY DEF SavePlan
<1>2. what \in Input /\ what.total \in Nat
    BY OrdersAre DEF NoInput, Input
<1> HIDE DEF what
<1>3. r \notin Patch
    BY KindsApart
<1>4. QED
    BY <1>1, <1>2, <1>3, OrdersAre, StartsOnKeeps

\* The step PatchBucket keeps the invariant.
LEMMA PatchBucketKeeps ==
    ASSUME IndInv, NEW r \in Patch, NEW o \in Orders, PatchBucket(r, o.plan, o.total, o.flag)
    PROVE  IndInv'
<1> DEFINE what == [NoInput EXCEPT !.total = o.total, !.flag = o.flag]
<1>1. StartsOn(r, o.plan, "begin", what)
    BY DEF PatchBucket
<1>2. what \in Input
    BY OrdersAre DEF NoInput, Input
<1> HIDE DEF what
<1>3. r \notin Save
    BY KindsApart
<1>4. QED
    BY <1>1, <1>2, <1>3, OrdersAre, StartsOnKeeps

\* What a request about a plan asks for.
LEMMA PlanInputs ==
    ASSUME IndInv, NEW r \in Save \cup Patch \cup Checkout, pc[r] # "new"
    PROVE  /\ r \in Request /\ TypeOK /\ db \in Content
           /\ input[r].plan \in Plan /\ input[r].flag \in BOOLEAN
           /\ r \in Save => input[r].total \in Nat
           /\ input[r].total \in Nat \cup {Keep}
<1>1. r \in Request /\ TypeOK /\ db \in Content /\ input[r] \in Input
    BY KindsApart, IdsAre DEF IndInv
<1>2. QED
    BY <1>1, KindsApart DEF IndInv, RequestsFit, Fits, Input

\* The step Upsert keeps the invariant.
LEMMA UpsertKeeps ==
    ASSUME IndInv, NEW r \in Save,
           \/ UpsertDefinition(r) \/ UpsertProduct(r) \/ UpsertBucket(r)
           \/ UpsertGroup(r) \/ UpsertTarget(r)
    PROVE  IndInv'
<1> DEFINE p == input[r].plan
<1>1. pc[r] \in {"definition", "product", "inventory", "group", "target"}
    BY DEF UpsertDefinition, UpsertProduct, UpsertBucket, UpsertGroup, UpsertTarget
<1>2. /\ r \in Request /\ TypeOK /\ db \in Content /\ p \in Plan
      /\ input[r].flag \in BOOLEAN /\ input[r].total \in Nat
    BY <1>1, PlanInputs
<1>3. ASSUME NEW new \in Content, NEW s \in {"product", "inventory", "group", "target", "count"},
             Does(r, new, s),
             new.ticket = db.ticket, new.snapshot = db.snapshot, new.event = db.event,
             new.mail = db.mail, new.held = db.held, new.purchase = db.purchase,
             new.audit = db.audit
      PROVE  IndInv'
    <2>1. s \in Step /\ (pc[r] \in InTransaction <=> s \in InTransaction)
        BY <1>1 DEF Step, InTransaction
    <2>2. pc'[r] = s /\ input' = input
        BY <1>2, <1>3, DoesIs, Zenon
    <2>3. Fits(r)'
        BY <1>2, <2>2, KindsApart DEF Fits, Stopped
    <2>4. QED
        BY <1>1, <1>3, <2>1, <2>3, CatalogDoes
<1>4. CASE UpsertDefinition(r)
    <2>1. PICK new : new = [db EXCEPT !.definition[p] = r]
        OBVIOUS
    <2>2. /\ new \in Content
          /\ new.ticket = db.ticket /\ new.snapshot = db.snapshot /\ new.event = db.event
          /\ new.mail = db.mail /\ new.held = db.held /\ new.purchase = db.purchase
          /\ new.audit = db.audit
        BY <1>2, <2>1 DEF Content
    <2>3. Does(r, new, "product")
        BY <1>4, <2>1 DEF UpsertDefinition
    <2>4. QED
        BY <1>3, <2>2, <2>3
<1>5. CASE UpsertProduct(r)
    <2>1. PICK new : new = [db EXCEPT !.product[p] = r]
        OBVIOUS
    <2>2. /\ new \in Content
          /\ new.ticket = db.ticket /\ new.snapshot = db.snapshot /\ new.event = db.event
          /\ new.mail = db.mail /\ new.held = db.held /\ new.purchase = db.purchase
          /\ new.audit = db.audit
        BY <1>2, <2>1 DEF Content
    <2>3. Does(r, new, "inventory")
        BY <1>5, <2>1 DEF UpsertProduct
    <2>4. QED
        BY <1>3, <2>2, <2>3
<1>6. CASE UpsertBucket(r)
    <2>1. PICK new : new = [db EXCEPT !.bucket[p] = [total |-> input[r].total,
                                                     open |-> input[r].flag]]
        OBVIOUS
    <2>2. /\ new \in Content
          /\ new.ticket = db.ticket /\ new.snapshot = db.snapshot /\ new.event = db.event
          /\ new.mail = db.mail /\ new.held = db.held /\ new.purchase = db.purchase
          /\ new.audit = db.audit
        BY <1>2, <2>1 DEF Content
    <2>3. CASE db.product[p] = Nobody
        <3>1. Skips(r, "failed") /\ pc[r] = "inventory"
            BY <1>6, <2>3 DEF UpsertBucket
        <3>2. pc'[r] = "failed" /\ input' = input
            BY <1>2, <3>1, DoesIs, Zenon
        <3>3. Fits(r)'
            BY <1>2, <3>2, KindsApart DEF Fits, Stopped
        <3>4. "failed" \in Step /\ (pc[r] \in InTransaction <=> "failed" \in InTransaction)
            BY <3>1 DEF Step, InTransaction
        <3>5. QED
            BY <3>1, <3>3, <3>4, CatalogSkips
    <2>4. CASE db.product[p] # Nobody
        <3>1. Does(r, new, "group")
            BY <1>6, <2>1, <2>4 DEF UpsertBucket
        <3>2. QED
            BY <1>3, <2>2, <3>1
    <2>5. QED
        BY <2>3, <2>4
<1>7. CASE UpsertGroup(r)
    <2>1. PICK new : new = [db EXCEPT !.group = input[r].flag]
        OBVIOUS
    <2>2. /\ new \in Content
          /\ new.ticket = db.ticket /\ new.snapshot = db.snapshot /\ new.event = db.event
          /\ new.mail = db.mail /\ new.held = db.held /\ new.purchase = db.purchase
          /\ new.audit = db.audit
        BY <1>2, <2>1 DEF Content
    <2>3. Does(r, new, "target")
        BY <1>7, <2>1 DEF UpsertGroup
    <2>4. QED
        BY <1>3, <2>2, <2>3
<1>8. CASE UpsertTarget(r)
    <2>1. PICK new : new = [db EXCEPT !.target = input[r].flag]
        OBVIOUS
    <2>2. /\ new \in Content
          /\ new.ticket = db.ticket /\ new.snapshot = db.snapshot /\ new.event = db.event
          /\ new.mail = db.mail /\ new.held = db.held /\ new.purchase = db.purchase
          /\ new.audit = db.audit
        BY <1>2, <2>1 DEF Content
    <2>3. Does(r, new, "count")
        BY <1>8, <2>1 DEF UpsertTarget
    <2>4. QED
        BY <1>3, <2>2, <2>3
<1>9. QED
    BY <1>4, <1>5, <1>6, <1>7, <1>8

\* The step CountSlots keeps the invariant.
LEMMA CountSlotsKeeps ==
    ASSUME IndInv, NEW r \in Save, CountSlots(r)
    PROVE  IndInv'
<1>1. pc[r] = "count" /\ pc' = [pc EXCEPT ![r] = "slots"]
      /\ seen' = [seen EXCEPT ![r] = Total(input[r].plan)]
      /\ UNCHANGED <<connection, input, ticketId, trouble>>
    BY DEF CountSlots, Goes
<1>2. r \in Request /\ TypeOK /\ db \in Content /\ input[r].plan \in Plan /\ input[r].total \in Nat
    BY <1>1, PlanInputs
<1>3. Total(input[r].plan) \in Nat
    BY <1>2, CountsAre DEF Total
<1>4. TypeOK'
    <2>1. ConnectionTypeOK(Content)'
        BY <1>1, <1>2 DEF TypeOK, ConnectionTypeOK, connection, Open
    <2>2. pc' \in [Request -> Step] /\ seen' \in [Request -> Nat]
        BY <1>1, <1>2, <1>3 DEF TypeOK, Step
    <2>3. QED
        BY <1>1, <1>2, <2>1, <2>2, Zenon DEF TypeOK
<1>5. OnlyMoves(r) /\ pc'[r] = "slots" /\ db' = db
    BY <1>1, <1>2 DEF OnlyMoves, TypeOK, connection
<1>6. \A q : Alike(q, db, db')
    BY <1>5, Zenon DEF Alike
<1>7. Fits(r)'
    BY <1>1, <1>2, <1>5, KindsApart DEF Fits, Stopped
<1>8. NothingMixed' => ProgressOf(r)'
    BY <1>1, <1>5, <1>6, CatalogProgress
<1>9. KeepsSide(r)
    BY <1>1, <1>5 DEF KeepsSide, InTransaction
<1>10. QED
    BY <1>1, <1>2, <1>4, <1>5, <1>6, <1>7, <1>8, <1>9, OneMoves, Zenon DEF Stays, AlikeBut

\* The step InsertSlot keeps the invariant.
LEMMA InsertSlotKeeps ==
    ASSUME IndInv, NEW r \in Request, InsertSlot(r)
    PROVE  IndInv'
<1> DEFINE p == input[r].plan
<1>1. pc[r] \in {"slots", "resize"} /\ seen[r] < input[r].total
      /\ seen' = [seen EXCEPT ![r] = @ + 1]
      /\ UNCHANGED <<pc, input, ticketId, trouble>>
    BY DEF InsertSlot
<1>2. Fits(r) /\ TypeOK
    BY DEF IndInv, RequestsFit
<1>3. r \in Save \cup Patch
    BY <1>1, <1>2, KindsApart DEF Fits, Stopped
<1>4. db \in Content /\ p \in Plan
    BY <1>1, <1>3, PlanInputs
<1>5. PICK new : new = [db EXCEPT !.free[p] = @ + 1]
    OBVIOUS
<1>6. Writes(r, new) /\ db' = new
    BY <1>5 DEF InsertSlot, Writes
<1>7. db.free \in [Plan -> Nat]
    BY <1>4, ContentFields
<1>8. /\ new \in Content
      /\ new.ticket = db.ticket /\ new.snapshot = db.snapshot /\ new.event = db.event
      /\ new.mail = db.mail /\ new.held = db.held /\ new.purchase = db.purchase
      /\ new.audit = db.audit
    <2>1. [db.free EXCEPT ![p] = @ + 1] \in [Plan -> Nat]
        BY <1>4, <1>7
    <2>2. QED
        BY <1>4, <1>5, <2>1 DEF Content
<1>9. \A q : Alike(q, db, db')
    BY <1>6, <1>8, SameRows, Zenon
<1>10. TypeOK'
    <2>1. ConnectionTypeOK(Content)'
        BY <1>2, <1>6, <1>8 DEF TypeOK, ConnectionTypeOK, Writes, Open
    <2>2. seen' \in [Request -> Nat]
        BY <1>1, <1>2 DEF TypeOK
    <2>3. QED
        BY <1>1, <1>2, <2>1, <2>2, Zenon DEF TypeOK
<1>11. OnlyMoves(r) /\ KeepsSide(r)
    BY <1>1, Zenon DEF OnlyMoves, KeepsSide
<1>12. Fits(r)'
    BY <1>1, <1>2, Zenon DEF Fits
<1>13. NothingMixed' => ProgressOf(r)'
    BY <1>1, <1>3, <1>9, CatalogProgress
<1>14. QED
    BY <1>1, <1>6, <1>9, <1>10, <1>11, <1>12, <1>13, OneMoves, Zenon DEF Stays, AlikeBut

\* The step EnoughSlots keeps the invariant.
LEMMA EnoughSlotsKeeps ==
    ASSUME IndInv, NEW r \in Request, EnoughSlots(r)
    PROVE  IndInv'
<1> DEFINE s == IF pc[r] = "slots" THEN "audit" ELSE "capacity"
<1>1. pc[r] \in {"slots", "resize"} /\ Skips(r, s)
    BY DEF EnoughSlots
<1>2. Fits(r) /\ TypeOK
    BY DEF IndInv, RequestsFit
<1>3. r \in Save \cup Patch
    BY <1>1, <1>2, KindsApart DEF Fits, Stopped
<1>4. pc'[r] = s /\ input' = input
    BY <1>1, <1>2, DoesIs, Zenon
<1>5. Fits(r)'
    BY <1>1, <1>2, <1>3, <1>4, KindsApart DEF Fits, Stopped
<1>6. s \in Step /\ s # "done" /\ (pc[r] \in InTransaction <=> s \in InTransaction)
    BY <1>1 DEF Step, InTransaction
<1>7. QED
    BY <1>1, <1>3, <1>5, <1>6, CatalogSkips

\* The step RecordAction keeps the invariant.
LEMMA RecordActionKeeps ==
    ASSUME IndInv, NEW r \in Request, RecordAction(r)
    PROVE  IndInv'
<1>1. PICK new : new = [db EXCEPT !.audit = @ \cup {r}]
    OBVIOUS
<1>2. pc[r] = "audit" /\ Does(r, new, "done")
    BY <1>1 DEF RecordAction
<1>3. Fits(r) /\ TypeOK /\ db \in Content
    BY IdsAre DEF IndInv, RequestsFit
<1>4. r \in Save \cup Patch \cup Retarget
    BY <1>2, <1>3, KindsApart DEF Fits, Stopped
<1>5. /\ new \in Content /\ r \in new.audit /\ new.audit = db.audit \cup {r}
      /\ new.ticket = db.ticket /\ new.snapshot = db.snapshot /\ new.event = db.event
      /\ new.mail = db.mail /\ new.held = db.held /\ new.purchase = db.purchase
    BY <1>1, <1>3 DEF Content
<1>6. AlikeBut(r, db, new)
    <2>1. \A q \in Request \ {r} : q \in db.audit <=> q \in new.audit
        BY <1>5
    <2>2. QED
        BY <1>5, <2>1, Zenon DEF AlikeBut, Alike, TicketsOf, SnapshotsOf, EventsOf, MailsOf,
                                  PlansOf
<1>7. pc'[r] = "done" /\ db' = new /\ input' = input
    BY <1>2, <1>3, DoesIs, Zenon
<1>8. Fits(r)'
    BY <1>2, <1>3, <1>4, <1>7, KindsApart DEF Fits, Stopped
<1>9. ProgressOf(r)'
    BY <1>4, <1>5, <1>7, KindsApart, Zenon DEF ProgressOf
<1>10. "done" \in Step /\ (pc[r] \in InTransaction <=> "done" \in InTransaction)
    BY <1>2 DEF Step, InTransaction
<1>11. QED
    BY <1>2, <1>5, <1>6, <1>8, <1>9, <1>10, Doing

\* The step ReadCounts keeps the invariant.
LEMMA ReadCountsKeeps ==
    ASSUME IndInv, NEW r \in Patch, ReadCounts(r)
    PROVE  IndInv'
<1> DEFINE p == input[r].plan
           total == IF input[r].total = Keep THEN Total(p) ELSE input[r].total
           s == IF db.bucket[p] = Nobody \/ total < Cardinality(db.held[p])
                THEN "rollback" ELSE "resize"
<1>1. /\ pc[r] = "counts" /\ pc' = [pc EXCEPT ![r] = s]
      /\ input' = [input EXCEPT ![r].total = total]
      /\ seen' = [seen EXCEPT ![r] = Total(p)]
      /\ UNCHANGED <<connection, ticketId, trouble>>
    BY DEF ReadCounts, Goes
<1>2. /\ r \in Request /\ TypeOK /\ db \in Content /\ p \in Plan
      /\ input[r].total \in Nat \cup {Keep}
    BY <1>1, PlanInputs
<1>3. Total(p) \in Nat
    BY <1>2, CountsAre DEF Total
<1>4. total \in Nat
    BY <1>2, <1>3
<1>5. s \in {"rollback", "resize"}
    OBVIOUS
<1> HIDE DEF total, s
<1>6. /\ input' \in [Request -> Input] /\ input'[r].plan = p /\ input'[r].total = total
      /\ \A q \in Request \ {r} : input'[q] = input[q]
    <2>1. input \in [Request -> Input]
        BY <1>2 DEF TypeOK
    <2>2. [input[r] EXCEPT !.total = total] \in Input
        BY <1>2, <1>4, <2>1 DEF Input
    <2>3. QED
        BY <1>1, <1>2, <2>1, <2>2 DEF Input
<1>7. TypeOK'
    <2>1. ConnectionTypeOK(Content)'
        BY <1>1, <1>2 DEF TypeOK, ConnectionTypeOK, connection, Open
    <2>2. pc' \in [Request -> Step] /\ seen' \in [Request -> Nat]
        BY <1>1, <1>2, <1>3, <1>5 DEF TypeOK, Step, InTransaction
    <2>3. QED
        BY <1>1, <1>2, <1>6, <2>1, <2>2, Zenon DEF TypeOK
<1>8. OnlyMoves(r) /\ pc'[r] = s /\ db' = db
    BY <1>1, <1>2, <1>6 DEF OnlyMoves, TypeOK, connection
<1>9. \A q : Alike(q, db, db')
    BY <1>8, Zenon DEF Alike
<1>10. Fits(r)'
    BY <1>2, <1>4, <1>5, <1>6, <1>8, KindsApart DEF Fits, Stopped
<1>11. NothingMixed' => ProgressOf(r)'
    BY <1>1, <1>5, <1>8, <1>9, CatalogProgress
<1>12. KeepsSide(r)
    BY <1>1, <1>5, <1>8 DEF KeepsSide, InTransaction
<1>13. QED
    BY <1>1, <1>2, <1>7, <1>8, <1>9, <1>10, <1>11, <1>12, OneMoves, Zenon DEF Stays, AlikeBut

\* Both take as many slots as there are, and write a capacity that is a number.
LEMMA ResizeKeeps ==
    ASSUME IndInv, NEW r \in Patch, DeleteSlots(r) \/ UpdateBucket(r)
    PROVE  IndInv'
<1> DEFINE p == input[r].plan
<1>1. pc[r] \in {"resize", "capacity"}
    BY DEF DeleteSlots, UpdateBucket
<1>2. r \in Request /\ TypeOK /\ db \in Content /\ p \in Plan /\ input[r].flag \in BOOLEAN
    BY <1>1, PlanInputs
<1>3. input[r].total \in Nat
    BY <1>1, <1>2 DEF IndInv, RequestsFit, Fits
<1>4. ASSUME NEW new \in Content, NEW s \in {"capacity", "commit"}, Does(r, new, s),
             new.ticket = db.ticket, new.snapshot = db.snapshot, new.event = db.event,
             new.mail = db.mail, new.held = db.held, new.purchase = db.purchase,
             new.audit = db.audit
      PROVE  IndInv'
    <2>1. s \in Step /\ (pc[r] \in InTransaction <=> s \in InTransaction)
        BY <1>1, <1>4 DEF Step, InTransaction
    <2>2. pc'[r] = s /\ input' = input
        BY <1>2, <1>4, DoesIs, Zenon
    <2>3. Fits(r)'
        BY <1>2, <1>3, <1>4, <2>2, KindsApart DEF Fits, Stopped
    <2>4. QED
        BY <1>1, <1>4, <2>1, <2>3, CatalogDoes
<1>5. CASE DeleteSlots(r)
    <2> DEFINE surplus == seen[r] - input[r].total
    <2>1. PICK new : new = [db EXCEPT !.free[p] = IF @ < surplus THEN 0 ELSE @ - surplus]
        OBVIOUS
    <2>2. db.free \in [Plan -> Nat] /\ surplus \in Nat
        <3>1. seen[r] \in Nat /\ seen[r] > input[r].total
            BY <1>2, <1>5 DEF DeleteSlots, TypeOK
        <3>2. QED
            BY <1>2, <1>3, <3>1, ContentFields
    <2> HIDE DEF surplus
    <2>3. [db.free EXCEPT ![p] = IF @ < surplus THEN 0 ELSE @ - surplus] \in [Plan -> Nat]
        BY <1>2, <2>2
    <2>4. /\ new \in Content
          /\ new.ticket = db.ticket /\ new.snapshot = db.snapshot /\ new.event = db.event
          /\ new.mail = db.mail /\ new.held = db.held /\ new.purchase = db.purchase
          /\ new.audit = db.audit
        BY <1>2, <2>1, <2>3 DEF Content
    <2>5. Does(r, new, "capacity")
        BY <1>5, <2>1 DEF DeleteSlots, surplus
    <2>6. QED
        BY <1>4, <2>4, <2>5
<1>6. CASE UpdateBucket(r)
    <2>1. CASE db.bucket[p] = Nobody
        BY <1>2, <1>4, <1>6, <2>1 DEF UpdateBucket
    <2>2. CASE db.bucket[p] # Nobody
        <3>1. PICK new : new = [db EXCEPT !.bucket[p] = [total |-> input[r].total,
                                                         open |-> input[r].flag]]
            OBVIOUS
        <3>2. /\ new \in Content
              /\ new.ticket = db.ticket /\ new.snapshot = db.snapshot /\ new.event = db.event
              /\ new.mail = db.mail /\ new.held = db.held /\ new.purchase = db.purchase
              /\ new.audit = db.audit
            BY <1>2, <1>3, <3>1 DEF Content
        <3>3. Does(r, new, "commit")
            BY <1>6, <2>2, <3>1 DEF UpdateBucket
        <3>4. QED
            BY <1>4, <3>2, <3>3
    <2>3. QED
        BY <2>1, <2>2
<1>7. QED
    BY <1>5, <1>6

\* The step Retarget keeps the invariant.
LEMMA RetargetKeeps ==
    ASSUME IndInv, NEW r \in Retarget,
           (\E active \in BOOLEAN : PatchTarget(r, active)) \/ UpdateTarget(r)
    PROVE  IndInv'
<1>1. r \in Request /\ TypeOK /\ db \in Content /\ input[r] \in Input
    BY KindsApart, IdsAre DEF IndInv
<1>2. ASSUME NEW active \in BOOLEAN, PatchTarget(r, active)
      PROVE  IndInv'
    <2>1. PICK what : what = [NoInput EXCEPT !.flag = active]
        OBVIOUS
    <2>2. /\ Starts(r, "retarget", what) /\ ticketId' = ticketId /\ trouble' = trouble
        BY <1>2, <2>1 DEF PatchTarget
    <2>3. what \in Input
        BY <2>1 DEF NoInput, Input
    <2>4. pc[r] = "new" /\ pc'[r] = "retarget" /\ db' = db
        BY <1>1, <2>2 DEF Starts, Goes, TypeOK, connection
    <2>5. Fits(r)'
        BY <1>1, <2>4, KindsApart DEF Fits, Stopped
    <2>6. Alike(r, db, db')
        BY <2>4, Zenon DEF Alike
    <2>7. NothingMixed' => ProgressOf(r)'
        BY <2>2, <2>4, <2>6, CatalogProgress
    <2>8. "retarget" \in Step \ InTransaction /\ 0 \in Nat /\ trouble \subseteq Trouble
        BY <1>1 DEF Step, InTransaction, TypeOK
    <2>9. QED
        BY <1>1, <2>2, <2>3, <2>5, <2>7, <2>8, Starting
<1>3. CASE UpdateTarget(r)
    <2>1. PICK new : new = [db EXCEPT !.target = input[r].flag]
        OBVIOUS
    <2>2. pc[r] = "retarget" /\ Does(r, new, "audit")
        BY <1>3, <2>1 DEF UpdateTarget
    <2>3. /\ new \in Content
          /\ new.ticket = db.ticket /\ new.snapshot = db.snapshot /\ new.event = db.event
          /\ new.mail = db.mail /\ new.held = db.held /\ new.purchase = db.purchase
          /\ new.audit = db.audit
        BY <1>1, <2>1 DEF Content, Input
    <2>4. pc'[r] = "audit"
        BY <1>1, <2>2, DoesIs, Zenon
    <2>5. Fits(r)'
        BY <1>1, <2>4, KindsApart DEF Fits, Stopped
    <2>6. "audit" \in Step /\ (pc[r] \in InTransaction <=> "audit" \in InTransaction)
        BY <2>2 DEF Step, InTransaction
    <2>7. QED
        BY <2>2, <2>3, <2>5, <2>6, CatalogDoes
<1>4. QED
    BY <1>2, <1>3

(***************************************************************************)
(* Checkout                                                                *)
(***************************************************************************)

\* The slots and purchases of the one checkout are all there is of checkouts.
LEMMA ClaimsSlots ==
    ASSUME NEW c \in Content, NEW d \in Content, NEW r \in Checkout,
           d.ticket = c.ticket, d.snapshot = c.snapshot, d.event = c.event,
           d.mail = c.mail, d.audit = c.audit,
           \A p \in Plan, q \in Checkout \ {r} : q \in c.held[p] <=> q \in d.held[p],
           \A q \in Checkout \ {r} : q \in c.purchase <=> q \in d.purchase
    PROVE  AlikeBut(r, c, d)
<1>1. ASSUME NEW q \in Request \ {r} PROVE Alike(q, c, d)
    <2>1. \A p \in Plan : c.held[p] \subseteq Checkout /\ d.held[p] \subseteq Checkout
        BY ContentFields
    <2>2. c.purchase \subseteq Checkout /\ d.purchase \subseteq Checkout
        BY ContentFields
    <2>3. PlansOf(q, c) = PlansOf(q, d)
        BY <1>1, <2>1 DEF PlansOf
    <2>4. q \in c.purchase <=> q \in d.purchase
        BY <1>1, <2>2
    <2>5. QED
        BY <2>3, <2>4, Zenon DEF Alike, TicketsOf, SnapshotsOf, EventsOf, MailsOf
<1>2. QED
    BY <1>1, Zenon DEF AlikeBut

\* What the steps of a checkout need.
LEMMA CheckoutInputs ==
    ASSUME IndInv, NEW r \in Checkout
    PROVE  /\ r \in Request /\ TypeOK /\ db \in Content
           /\ pc[r] # "new" => input[r].plan \in Plan
           /\ NothingMixed => CheckoutProgress(r)
<1>1. r \in Request /\ TypeOK
    BY KindsApart DEF IndInv
<1>2. pc[r] # "new" => input[r].plan \in Plan
    BY <1>1 DEF IndInv, RequestsFit, Fits
<1>3. NothingMixed => CheckoutProgress(r)
    BY <1>1, Zenon DEF IndInv, Progress, ProgressOf
<1>4. QED
    BY <1>1, <1>2, <1>3, IdsAre

\* What is left to show of a checkout's step.
LEMMA CheckoutMoves ==
    ASSUME NEW r \in Checkout, pc'[r] # "new",
           pc'[r] \in Stopped \cup {"begin", "claim", "purchase", "stripe", "link", "commit",
                                    "rollback", "refused", "clean", "release"},
           input'[r].plan \in Plan
    PROVE  /\ Fits(r)'
           /\ CheckoutProgress(r)' => ProgressOf(r)'
<1>1. r \in Request
    BY KindsApart
<1>2. QED
    BY <1>1, KindsApart, Zenon DEF Fits, ProgressOf

\* The step OpenCheckout keeps the invariant.
LEMMA OpenCheckoutKeeps ==
    ASSUME IndInv, NEW r \in Checkout, NEW p \in Plan, OpenCheckout(r, p)
    PROVE  IndInv'
<1>1. PICK what : what = [NoInput EXCEPT !.plan = p]
    OBVIOUS
<1>2. Starts(r, "begin", what) /\ ticketId' = ticketId /\ trouble' = trouble
    BY <1>1 DEF OpenCheckout
<1>3. r \in Request /\ TypeOK /\ (NothingMixed => CheckoutProgress(r))
    BY CheckoutInputs
<1>4. what \in Input /\ what.plan = p
    BY <1>1 DEF NoInput, Input
<1>5. pc[r] = "new" /\ pc'[r] = "begin" /\ input'[r] = what /\ db' = db
    BY <1>2, <1>3 DEF Starts, Goes, TypeOK, connection
<1>6. NothingMixed' => CheckoutProgress(r)'
    <2>1. SUFFICES ASSUME NothingMixed' PROVE CheckoutProgress(r)'
        OBVIOUS
    <2>2. Traceless(r, db)
        BY <1>2, <1>3, <1>5, <2>1 DEF NothingMixed, CheckoutProgress
    <2>3. Traceless(r, db)'
        BY <1>5, <2>2, Zenon
    <2>4. QED
        BY <1>5, <2>3 DEF CheckoutProgress
<1>7. Fits(r)' /\ (NothingMixed' => ProgressOf(r)')
    BY <1>4, <1>5, <1>6, CheckoutMoves
<1>8. "begin" \in Step \ InTransaction /\ 0 \in Nat /\ trouble \subseteq Trouble
    BY <1>3 DEF Step, InTransaction, TypeOK
<1>9. QED
    BY <1>2, <1>3, <1>4, <1>7, <1>8, Starting

\* The step ClaimSlot keeps the invariant.
LEMMA ClaimSlotKeeps ==
    ASSUME IndInv, NEW r \in Checkout, ClaimSlot(r)
    PROVE  IndInv'
<1> DEFINE p == input[r].plan
<1>1. pc[r] = "claim"
    BY DEF ClaimSlot
<1>2. r \in Request /\ TypeOK /\ db \in Content /\ p \in Plan
      /\ (NothingMixed => CheckoutProgress(r))
    BY <1>1, CheckoutInputs
<1>3. CASE db.free[p] = 0
    <2>1. Skips(r, "refused")
        BY <1>3 DEF ClaimSlot
    <2>2. pc'[r] = "refused" /\ db' = db /\ input' = input /\ trouble' = trouble
        BY <1>2, <2>1, DoesIs, Zenon
    <2>3. NothingMixed' => CheckoutProgress(r)'
        <3>1. SUFFICES ASSUME NothingMixed' PROVE CheckoutProgress(r)'
            OBVIOUS
        <3>2. Traceless(r, db)
            BY <1>1, <1>2, <2>2, <3>1 DEF NothingMixed, CheckoutProgress
        <3>3. Traceless(r, db)'
            BY <2>2, <3>2, Zenon
        <3>4. QED
            BY <2>2, <3>3 DEF CheckoutProgress
    <2>4. Fits(r)' /\ (NothingMixed' => ProgressOf(r)')
        BY <1>2, <2>2, <2>3, CheckoutMoves
    <2>5. "refused" \in Step /\ (pc[r] \in InTransaction <=> "refused" \in InTransaction)
        BY <1>1 DEF Step, InTransaction
    <2>6. QED
        BY <1>2, <2>1, <2>4, <2>5, Skipping
<1>4. CASE db.free[p] # 0
    <2>1. PICK new : new = [db EXCEPT !.free[p] = @ - 1, !.held[p] = @ \cup {r}]
        OBVIOUS
    <2>2. Does(r, new, "purchase")
        BY <1>4, <2>1 DEF ClaimSlot
    <2>3. db.free \in [Plan -> Nat] /\ db.held \in [Plan -> SUBSET Checkout]
        BY <1>2, ContentFields
    <2>4. /\ [db.free EXCEPT ![p] = @ - 1] \in [Plan -> Nat]
          /\ [db.held EXCEPT ![p] = @ \cup {r}] \in [Plan -> SUBSET Checkout]
        BY <1>2, <1>4, <2>3
    <2>5. /\ new \in Content /\ new.held = [db.held EXCEPT ![p] = @ \cup {r}]
          /\ new.ticket = db.ticket /\ new.snapshot = db.snapshot /\ new.event = db.event
          /\ new.mail = db.mail /\ new.purchase = db.purchase /\ new.audit = db.audit
        BY <1>2, <2>1, <2>4 DEF Content
    <2>6. AlikeBut(r, db, new)
        BY <1>2, <2>3, <2>5, ClaimsSlots
    <2>7. pc'[r] = "purchase" /\ db' = new /\ input' = input /\ trouble' = trouble
        BY <1>2, <2>2, DoesIs, Zenon
    <2>8. NothingMixed' => CheckoutProgress(r)'
        <3>1. SUFFICES ASSUME NothingMixed' PROVE CheckoutProgress(r)'
            OBVIOUS
        <3>2. Traceless(r, db)
            BY <1>1, <1>2, <2>7, <3>1 DEF NothingMixed, CheckoutProgress
        <3>3. PlansOf(r, new) = {p} /\ r \notin new.purchase
            BY <1>2, <2>3, <2>5, <3>2 DEF Traceless, PlansOf
        <3>4. QED
            BY <2>7, <3>3 DEF CheckoutProgress
    <2>9. Fits(r)' /\ (NothingMixed' => ProgressOf(r)')
        BY <1>2, <2>7, <2>8, CheckoutMoves
    <2>10. "purchase" \in Step /\ (pc[r] \in InTransaction <=> "purchase" \in InTransaction)
        BY <1>1 DEF Step, InTransaction
    <2>11. QED
        BY <1>2, <2>2, <2>5, <2>6, <2>9, <2>10, Doing
<1>5. QED
    BY <1>3, <1>4

\* The step InsertPurchase keeps the invariant.
LEMMA InsertPurchaseKeeps ==
    ASSUME IndInv, NEW r \in Checkout, InsertPurchase(r)
    PROVE  IndInv'
<1> DEFINE p == input[r].plan
<1>1. PICK new : new = [db EXCEPT !.purchase = @ \cup {r}]
    OBVIOUS
<1>2. pc[r] = "purchase" /\ Does(r, new, "stripe")
    BY <1>1 DEF InsertPurchase
<1>3. r \in Request /\ TypeOK /\ db \in Content /\ p \in Plan
      /\ (NothingMixed => CheckoutProgress(r))
    BY <1>2, CheckoutInputs
<1>4. /\ new \in Content /\ new.purchase = db.purchase \cup {r}
      /\ new.ticket = db.ticket /\ new.snapshot = db.snapshot /\ new.event = db.event
      /\ new.mail = db.mail /\ new.held = db.held /\ new.audit = db.audit
    BY <1>1, <1>3 DEF Content
<1>5. AlikeBut(r, db, new)
    BY <1>3, <1>4, ClaimsSlots
<1>6. pc'[r] = "stripe" /\ db' = new /\ input' = input /\ trouble' = trouble
    BY <1>2, <1>3, DoesIs, Zenon
<1>7. NothingMixed' => CheckoutProgress(r)'
    <2>1. SUFFICES ASSUME NothingMixed' PROVE CheckoutProgress(r)'
        OBVIOUS
    <2>2. PlansOf(r, db) = {p}
        BY <1>2, <1>3, <1>6, <2>1 DEF NothingMixed, CheckoutProgress
    <2>3. PlansOf(r, new) = {p} /\ r \in new.purchase
        BY <1>4, <2>2 DEF PlansOf
    <2>4. QED
        BY <1>6, <2>3 DEF CheckoutProgress
<1>8. Fits(r)' /\ (NothingMixed' => ProgressOf(r)')
    BY <1>3, <1>6, <1>7, CheckoutMoves
<1>9. "stripe" \in Step /\ (pc[r] \in InTransaction <=> "stripe" \in InTransaction)
    BY <1>2 DEF Step, InTransaction
<1>10. QED
    BY <1>2, <1>3, <1>4, <1>5, <1>8, <1>9, Doing

\* Stripe answers, and the answer is stored: the tables change for nobody.
LEMMA LinkKeeps ==
    ASSUME IndInv, NEW r \in Checkout, AskStripe(r) \/ LinkSession(r)
    PROVE  IndInv'
<1> DEFINE p == input[r].plan
<1>1. pc[r] \in {"stripe", "link"}
    BY DEF AskStripe, LinkSession
<1>2. r \in Request /\ TypeOK /\ db \in Content /\ p \in Plan
      /\ (NothingMixed => CheckoutProgress(r))
    BY <1>1, CheckoutInputs
<1>3. PICK s \in {"link", "rollback", "commit"} : Skips(r, s) \/ Does(r, db, s)
    BY DEF AskStripe, LinkSession
<1>4. pc'[r] = s /\ db' = db /\ input' = input /\ trouble' = trouble
    BY <1>2, <1>3, DoesIs, Zenon
<1>5. NothingMixed' => CheckoutProgress(r)'
    <2>1. SUFFICES ASSUME NothingMixed' PROVE CheckoutProgress(r)'
        OBVIOUS
    <2>2. PlansOf(r, db) = {p} /\ r \in db.purchase
        BY <1>1, <1>2, <1>4, <2>1 DEF NothingMixed, CheckoutProgress
    <2>3. PlansOf(r, db)' = {p}
        BY <1>4, <2>2, Zenon
    <2>4. QED
        BY <1>4, <2>2, <2>3 DEF CheckoutProgress
<1>6. Fits(r)' /\ (NothingMixed' => ProgressOf(r)')
    BY <1>2, <1>4, <1>5, CheckoutMoves
<1>7. s \in Step /\ (pc[r] \in InTransaction <=> s \in InTransaction)
    BY <1>1 DEF Step, InTransaction
<1>8. AlikeBut(r, db, db)
    BY Zenon DEF AlikeBut, Alike
<1>9. QED
    BY <1>2, <1>3, <1>6, <1>7, <1>8, Skipping, Doing

\* The clean-up after a checkout that failed finds nothing of it, unless transactions
\* have collided.
LEMMA CleanUpKeeps ==
    ASSUME IndInv, NEW r \in Checkout, CancelPurchase(r) \/ ReleaseSlot(r)
    PROVE  IndInv'
<1> DEFINE p == input[r].plan
<1>1. pc[r] \in {"clean", "release"}
    BY DEF CancelPurchase, ReleaseSlot
<1>2. r \in Request /\ TypeOK /\ db \in Content /\ p \in Plan
      /\ (NothingMixed => CheckoutProgress(r))
    BY <1>1, CheckoutInputs
<1>3. ASSUME NEW new \in Content, NEW s \in {"release", "failed"}, Does(r, new, s),
             AlikeBut(r, db, new), Traceless(r, db) => Traceless(r, new)
      PROVE  IndInv'
    <2>1. pc'[r] = s /\ db' = new /\ input' = input /\ trouble' = trouble
        BY <1>2, <1>3, DoesIs, Zenon
    <2>2. NothingMixed' => CheckoutProgress(r)'
        <3>1. SUFFICES ASSUME NothingMixed' PROVE CheckoutProgress(r)'
            OBVIOUS
        <3>2. Traceless(r, db)
            BY <1>1, <1>2, <2>1, <3>1 DEF NothingMixed, CheckoutProgress
        <3>3. Traceless(r, db)'
            BY <1>3, <2>1, <3>2, Zenon
        <3>4. QED
            BY <2>1, <3>3 DEF CheckoutProgress
    <2>3. Fits(r)' /\ (NothingMixed' => ProgressOf(r)')
        BY <1>2, <2>1, <2>2, CheckoutMoves DEF Stopped
    <2>4. s \in Step /\ (pc[r] \in InTransaction <=> s \in InTransaction)
        BY <1>1 DEF Step, InTransaction
    <2>5. QED
        BY <1>2, <1>3, <2>3, <2>4, Doing
<1>4. CASE CancelPurchase(r)
    <2>1. PICK new : new = [db EXCEPT !.purchase = @ \ {r}]
        OBVIOUS
    <2>2. /\ new \in Content /\ new.purchase = db.purchase \ {r}
          /\ new.ticket = db.ticket /\ new.snapshot = db.snapshot /\ new.event = db.event
          /\ new.mail = db.mail /\ new.held = db.held /\ new.audit = db.audit
        BY <1>2, <2>1 DEF Content
    <2>3. AlikeBut(r, db, new)
        BY <1>2, <2>2, ClaimsSlots
    <2>4. Traceless(r, db) => Traceless(r, new)
        BY <2>2 DEF Traceless, TicketsOf, SnapshotsOf, EventsOf, MailsOf, PlansOf
    <2>5. Does(r, new, "release")
        BY <1>4, <2>1 DEF CancelPurchase
    <2>6. QED
        BY <1>3, <2>2, <2>3, <2>4, <2>5
<1>5. CASE ReleaseSlot(r)
    <2>1. CASE r \notin db.held[p]
        <3>1. Does(r, db, "failed")
            BY <1>5, <2>1 DEF ReleaseSlot
        <3>2. AlikeBut(r, db, db)
            BY Zenon DEF AlikeBut, Alike
        <3>3. QED
            BY <1>2, <1>3, <3>1, <3>2
    <2>2. CASE r \in db.held[p]
        <3>1. PICK new : new = [db EXCEPT !.held[p] = @ \ {r}, !.free[p] = @ + 1]
            OBVIOUS
        <3>2. db.free \in [Plan -> Nat] /\ db.held \in [Plan -> SUBSET Checkout]
            BY <1>2, ContentFields
        <3>3. /\ [db.free EXCEPT ![p] = @ + 1] \in [Plan -> Nat]
              /\ [db.held EXCEPT ![p] = @ \ {r}] \in [Plan -> SUBSET Checkout]
            BY <1>2, <3>2
        <3>4. /\ new \in Content /\ new.held = [db.held EXCEPT ![p] = @ \ {r}]
              /\ new.ticket = db.ticket /\ new.snapshot = db.snapshot /\ new.event = db.event
              /\ new.mail = db.mail /\ new.purchase = db.purchase /\ new.audit = db.audit
            BY <1>2, <3>1, <3>3 DEF Content
        <3>5. AlikeBut(r, db, new)
            BY <1>2, <3>2, <3>4, ClaimsSlots
        <3>6. Traceless(r, db) => Traceless(r, new)
            BY <1>2, <2>2 DEF Traceless, PlansOf
        <3>7. Does(r, new, "failed")
            BY <1>5, <2>2, <3>1 DEF ReleaseSlot
        <3>8. QED
            BY <1>3, <3>4, <3>5, <3>6, <3>7
    <2>3. QED
        BY <2>1, <2>2
<1>6. QED
    BY <1>4, <1>5

(***************************************************************************)
(* Transactions and restarts                                               *)
(***************************************************************************)

\* Only a ticket, a bucket change and a checkout have a transaction.
LEMMA TransactionKinds ==
    ASSUME IndInv, NEW r \in Request, pc[r] \in {"begin", "commit", "rollback", "refused"}
    PROVE  r \in Ticket \cup Patch \cup Checkout
BY KindsApart DEF IndInv, RequestsFit, Fits, Stopped

\* A request that goes to a step of its kind still fits.
LEMMA StillFits ==
    ASSUME IndInv, NEW r \in Ticket \cup Patch \cup Checkout, pc[r] # "new",
           input'[r] = input[r],
           pc'[r] \in {"rollback", "failed", "killed", "done"} \/
           (r \in Ticket /\ pc'[r] \in {"ticket", "mail"}) \/
           (r \in Patch /\ pc'[r] \in {"counts", "audit"}) \/
           (r \in Checkout /\ pc'[r] \in {"claim", "clean"})
    PROVE  Fits(r)'
<1>1. r \in Request /\ Fits(r)
    BY KindsApart DEF IndInv, RequestsFit
<1>2. QED
    BY <1>1, KindsApart DEF Fits, Stopped

\* The step Begin keeps the invariant.
LEMMA BeginKeeps ==
    ASSUME IndInv, NEW r \in Request, Begin(r)
    PROVE  IndInv'
<1>1. pc[r] = "begin" /\ UNCHANGED <<input, ticketId, seen>> /\ TypeOK /\ pc \in [Request -> Step]
    BY DEF Begin, IndInv, TypeOK
<1>2. r \in Ticket \cup Patch \cup Checkout
    BY <1>1, TransactionKinds
<1>3. NothingMixed => Traceless(r, db)
    <2>1. ASSUME NothingMixed PROVE ProgressOf(r)
        BY <2>1, Zenon DEF IndInv, Progress
    <2>2. QED
        BY <1>1, <1>2, <2>1 DEF ProgressOf, TicketProgress, CheckoutProgress
<1>4. \A q : Alike(q, db, db)
    BY Zenon DEF Alike
<1>5. CASE BeginFails
    <2>1. /\ Open /\ UNCHANGED connection /\ Meets("mixed")
          /\ Goes(r, IF r \in Checkout THEN "failed" ELSE "rollback")
        BY <1>1, <1>5 DEF Begin, BeginFails, Begins
    <2>2. "mixed" \in trouble' /\ trouble \subseteq trouble' /\ trouble' \subseteq Trouble
        BY <1>1, <2>1 DEF Meets, TypeOK
    <2>3. pc'[r] \in {"failed", "rollback"} /\ pc' \in [Request -> Step] /\ OnlyMoves(r)
        BY <1>1, <2>1 DEF Goes, Step, InTransaction, OnlyMoves
    <2>4. db' = db /\ opener # r
        BY <1>1, <2>1 DEF connection, IndInv, EveryTransactionEnds, InTransaction
    <2>5. TypeOK'
        BY <1>1, <2>1, <2>2, <2>3 DEF TypeOK, ConnectionTypeOK, connection, Open
    <2>6. Fits(r)'
        BY <1>1, <1>2, <2>3, StillFits
    <2>7. AlikeBut(r, db, db')
        BY <1>4, <2>4, Zenon DEF AlikeBut
    <2>8. ~NothingMixed'
        BY <2>2 DEF NothingMixed
    <2>9. QED
        BY <2>1, <2>2, <2>3, <2>4, <2>5, <2>6, <2>7, <2>8, OneMoves, Zenon DEF Stays, KeepsSide
<1>6. CASE ~BeginFails
    <2> DEFINE s == CASE r \in Ticket -> "ticket" [] r \in Patch -> "counts"
                      [] r \in Checkout -> "claim"
    <2>1. /\ ~Open /\ kept' = db /\ opener' = r /\ UNCHANGED <<db, writers, trouble>>
          /\ pc' = [pc EXCEPT ![r] = s]
        BY <1>6 DEF Begin, Begins, Goes
    <2>2. /\ r \in Ticket => s = "ticket"
          /\ r \in Patch => s = "counts"
          /\ r \in Checkout => s = "claim"
        BY KindsApart
    <2>3. s \in {"ticket", "counts", "claim"}
        BY <1>2, <2>2
    <2> HIDE DEF s
    <2>4. /\ pc'[r] = s /\ \A q \in Request \ {r} : pc'[q] = pc[q]
          /\ pc' \in [Request -> Step]
        BY <1>1, <2>1, <2>3 DEF Step, InTransaction
    <2>5. TypeOK'
        <3>1. ConnectionTypeOK(Content)'
            BY <1>1, <2>1, NobodyAssumption DEF TypeOK, ConnectionTypeOK, Open
        <3>2. QED
            BY <1>1, <2>1, <2>4, <3>1, Zenon DEF TypeOK
    <2>6. Fits(r)'
        BY <1>1, <1>2, <2>2, <2>4, StillFits
    <2>7. RequestsFit'
        BY <1>1, <2>4, <2>6, OthersStay, Zenon DEF RequestsFit, IndInv
    <2>8. KeptFits'
        BY <1>1, <2>1 DEF KeptFits, TypeOK, ConnectionTypeOK
    <2>9. EveryTransactionEnds'
        BY <2>1, <2>3, <2>4 DEF EveryTransactionEnds, InTransaction
    <2>10. NothingMixed' => NothingMixed
        BY <2>1, Zenon DEF NothingMixed
    <2>11. OwnTransaction'
        <3>1. SUFFICES ASSUME NothingMixed', NEW q \in Request
                       PROVE  pc'[q] \in InTransaction <=> opener' = q
            BY Zenon DEF OwnTransaction
        <3>2. CASE q = r
            BY <2>1, <2>3, <2>4, <3>2 DEF InTransaction
        <3>3. CASE q # r
            <4>1. pc[q] \in InTransaction <=> opener = q
                BY <2>10, <3>1, Zenon DEF IndInv, OwnTransaction
            <4>2. opener # q
                BY <2>1, NobodyAssumption DEF Open
            <4>3. QED
                BY <2>1, <2>4, <3>3, <4>1, <4>2
        <3>4. QED
            BY <3>2, <3>3
    <2>12. KeptIsOthers'
        BY <1>3, <1>4, <2>1, <2>10, Zenon DEF KeptIsOthers, AlikeBut
    <2>13. NothingMixed' => ProgressOf(r)'
        <3>1. SUFFICES ASSUME NothingMixed' PROVE ProgressOf(r)'
            OBVIOUS
        <3>2. Traceless(r, db)'
            BY <1>3, <2>1, <2>10, <3>1, Zenon
        <3>3. QED
            BY <2>2, <2>4, <3>2, <1>2, KindsApart DEF ProgressOf, TicketProgress, CheckoutProgress
    <2>14. Progress'
        <3>1. SUFFICES ASSUME NothingMixed', NEW q \in Request PROVE ProgressOf(q)'
            BY Zenon DEF Progress
        <3>2. CASE q = r
            BY <2>13, <3>1, <3>2
        <3>3. CASE q # r
            <4>1. ProgressOf(q) /\ Alike(q, db, db')
                BY <1>4, <2>1, <2>10, <3>1, Zenon DEF IndInv, Progress
            <4>2. pc'[q] = pc[q] /\ input'[q] = input[q] /\ ticketId'[q] = ticketId[q]
                BY <1>1, <2>4, <3>3
            <4>3. QED
                BY <4>1, <4>2, OthersStay
        <3>4. QED
            BY <3>2, <3>3
    <2>15. QED
        BY <2>5, <2>7, <2>8, <2>9, <2>11, <2>12, <2>14, Zenon DEF IndInv
<1>7. QED
    BY <1>5, <1>6

\* A transaction ends: nobody is in one any more.
LEMMA TransactionOver ==
    ASSUME IndInv, NEW r \in Request, pc[r] \in InTransaction, OnlyMoves(r), Ends,
           pc'[r] \notin InTransaction, NothingMixed' => NothingMixed
    PROVE  /\ EveryTransactionEnds' /\ OwnTransaction' /\ KeptIsOthers' /\ KeptFits'
<1>1. opener' = Nobody /\ ~Open'
    BY DEF Ends, Open
<1>2. OwnTransaction'
    <2>1. SUFFICES ASSUME NothingMixed', NEW q \in Request
                   PROVE  ~(pc'[q] \in InTransaction)
        BY <1>1, NobodyAssumption, Zenon DEF OwnTransaction
    <2>2. /\ pc[q] \in InTransaction <=> opener = q
          /\ pc[r] \in InTransaction <=> opener = r
        BY <2>1, Zenon DEF IndInv, OwnTransaction
    <2>3. QED
        BY <2>2, Zenon DEF OnlyMoves
<1>3. QED
    BY <1>1, <1>2, Zenon DEF EveryTransactionEnds, KeptIsOthers, KeptFits

\* The step Commit keeps the invariant.
LEMMA CommitKeeps ==
    ASSUME IndInv, NEW r \in Request, Commit(r)
    PROVE  IndInv'
<1>1. /\ pc[r] = "commit" /\ UNCHANGED <<input, ticketId, seen, trouble>>
      /\ TypeOK /\ pc \in [Request -> Step]
    BY DEF Commit, IndInv, TypeOK
<1>2. r \in Ticket \cup Patch \cup Checkout
    BY <1>1, TransactionKinds
<1>3. NothingMixed' <=> NothingMixed
    BY <1>1, Zenon DEF NothingMixed
<1>4. CASE CommitFails
    <2>1. ~Open /\ Skips(r, "rollback")
        BY <1>1, <1>4 DEF Commit, CommitFails, Commits, Skips
    <2>2. pc'[r] = "rollback"
        BY <1>1, <2>1, DoesIs, Zenon
    <2>3. Fits(r)'
        BY <1>1, <1>2, <2>2, StillFits
    <2>4. ~NothingMixed
        <3>1. "commit" \in InTransaction /\ opener # r
            BY <2>1, NobodyAssumption DEF Open, InTransaction
        <3>2. QED
            BY <1>1, <3>1 DEF IndInv, OwnTransaction
    <2>5. "rollback" \in Step /\ (pc[r] \in InTransaction <=> "rollback" \in InTransaction)
        BY <1>1 DEF Step, InTransaction
    <2>6. QED
        BY <1>3, <2>1, <2>3, <2>4, <2>5, Skipping
<1>5. CASE ~CommitFails
    <2> DEFINE s == CASE r \in Ticket -> "mail" [] r \in Patch -> "audit"
                      [] r \in Checkout -> "done"
    <2>1. Open /\ Ends /\ db' = db /\ pc' = [pc EXCEPT ![r] = s]
        BY <1>5 DEF Commit, Commits, Goes
    <2>2. /\ r \in Ticket => s = "mail"
          /\ r \in Patch => s = "audit"
          /\ r \in Checkout => s = "done"
        BY KindsApart
    <2>3. s \in {"mail", "audit", "done"}
        BY <1>2, <2>2
    <2> HIDE DEF s
    <2>4. pc'[r] = s /\ pc' \in [Request -> Step] /\ OnlyMoves(r)
        BY <1>1, <2>1, <2>3 DEF Step, InTransaction, OnlyMoves
    <2>5. TypeOK'
        <3>1. ConnectionTypeOK(Content)'
            BY <1>1, <2>1 DEF TypeOK, ConnectionTypeOK, Open, Ends
        <3>2. QED
            BY <1>1, <2>4, <3>1, Zenon DEF TypeOK
    <2>6. Fits(r)'
        BY <1>1, <1>2, <2>2, <2>4, StillFits
    <2>7. RequestsFit'
        BY <2>4, <2>6, OthersStay, Zenon DEF RequestsFit, IndInv, OnlyMoves
    <2>8. EveryTransactionEnds' /\ OwnTransaction' /\ KeptIsOthers' /\ KeptFits'
        <3>1. pc[r] \in InTransaction /\ pc'[r] \notin InTransaction
            BY <1>1, <2>3, <2>4 DEF InTransaction
        <3>2. QED
            BY <1>3, <2>1, <2>4, <3>1, TransactionOver
    <2>9. \A q : Alike(q, db, db')
        BY <2>1, Zenon DEF Alike
    <2>10. NothingMixed' => ProgressOf(r)'
        <3>1. SUFFICES ASSUME NothingMixed' PROVE ProgressOf(r)'
            OBVIOUS
        <3>2. ProgressOf(r)
            BY <1>3, <3>1, Zenon DEF IndInv, Progress
        <3>3. CASE r \in Ticket
            <4>1. Filed(r, {ticketId[r]}, {<<ticketId[r], r>>}, FirstEvents(r), {})
                BY <1>1, <3>2, <3>3 DEF ProgressOf, TicketProgress
            <4>2. FirstEvents(r)' = FirstEvents(r)
                BY <1>1, Zenon DEF FirstEvents
            <4>3. (Filed(r, {ticketId[r]}, {<<ticketId[r], r>>}, FirstEvents(r), {}))'
                BY <1>1, <2>1, <4>1, <4>2, Zenon DEF Filed
            <4>4. QED
                BY <2>2, <2>4, <3>3, <4>3, KindsApart DEF ProgressOf, TicketProgress
        <3>4. CASE r \in Patch
            <4>1. Traceless(r, db)
                BY <1>1, <3>2, <3>4 DEF ProgressOf
            <4>2. Traceless(r, db)'
                BY <2>1, <4>1, Zenon
            <4>3. QED
                BY <2>2, <2>4, <3>4, <4>2, KindsApart DEF ProgressOf
        <3>5. CASE r \in Checkout
            <4>1. PlansOf(r, db) = {input[r].plan} /\ r \in db.purchase
                BY <1>1, <3>2, <3>5 DEF ProgressOf, CheckoutProgress
            <4>2. PlansOf(r, db)' = {input'[r].plan} /\ r \in db'.purchase
                BY <1>1, <2>1, <4>1, Zenon
            <4>3. QED
                BY <2>2, <2>4, <3>5, <4>2, KindsApart DEF ProgressOf, CheckoutProgress
        <3>6. QED
            BY <1>2, <3>3, <3>4, <3>5
    <2>11. Progress'
        <3>1. SUFFICES ASSUME NothingMixed', NEW q \in Request, q # r PROVE ProgressOf(q)'
            BY <2>10, Zenon DEF Progress
        <3>2. ProgressOf(q)
            BY <1>3, <3>1, Zenon DEF IndInv, Progress
        <3>3. pc'[q] = pc[q] /\ input'[q] = input[q] /\ ticketId'[q] = ticketId[q]
            BY <2>4, <3>1 DEF OnlyMoves
        <3>4. QED
            BY <2>9, <3>2, <3>3, OthersStay, Zenon
    <2>12. QED
        BY <2>5, <2>7, <2>8, <2>11, Zenon DEF IndInv
<1>6. QED
    BY <1>4, <1>5

\* The step Rollback keeps the invariant.
LEMMA RollbackKeeps ==
    ASSUME IndInv, NEW r \in Request, Rollback(r)
    PROVE  IndInv'
<1> DEFINE s == IF r \in Checkout /\ pc[r] = "rollback" THEN "clean" ELSE "failed"
<1>1. /\ pc[r] \in {"rollback", "refused"} /\ Ends /\ db' = Undone
      /\ pc' = [pc EXCEPT ![r] = s] /\ UNCHANGED <<input, ticketId, seen>>
      /\ TypeOK /\ pc \in [Request -> Step]
    BY DEF Rollback, RollsBack, Goes, IndInv, TypeOK
<1>2. r \in Ticket \cup Patch \cup Checkout
    BY <1>1, TransactionKinds
<1>3. trouble \subseteq trouble' /\ trouble' \subseteq Trouble
    BY <1>1 DEF Rollback, Meets, TypeOK
<1>4. NothingMixed' => NothingMixed /\ writers \subseteq {r}
    BY <1>3 DEF NothingMixed, Rollback, Meets, HurtsOthers
<1>5. s = "failed" \/ (r \in Checkout /\ s = "clean")
    OBVIOUS
<1> HIDE DEF s
<1>6. pc'[r] = s /\ pc' \in [Request -> Step] /\ OnlyMoves(r)
    BY <1>1, <1>5 DEF Step, InTransaction, OnlyMoves
<1>7. db' \in Content
    BY <1>1 DEF IndInv, KeptFits, Undone, TypeOK, ConnectionTypeOK
<1>8. TypeOK'
    <2>1. ConnectionTypeOK(Content)'
        BY <1>1, <1>7 DEF TypeOK, ConnectionTypeOK, Open, Ends
    <2>2. QED
        BY <1>1, <1>3, <1>6, <2>1, Zenon DEF TypeOK
<1>9. Fits(r)'
    BY <1>1, <1>2, <1>5, <1>6, StillFits
<1>10. RequestsFit'
    BY <1>6, <1>9, OthersStay, Zenon DEF RequestsFit, IndInv, OnlyMoves
<1>11. pc[r] \in InTransaction /\ pc'[r] \notin InTransaction
    BY <1>1, <1>5, <1>6 DEF InTransaction
<1>12. EveryTransactionEnds' /\ OwnTransaction' /\ KeptIsOthers' /\ KeptFits'
    BY <1>1, <1>4, <1>6, <1>11, TransactionOver
<1>13. NothingMixed' => AlikeBut(r, db, db') /\ Traceless(r, db')
    <2>1. SUFFICES ASSUME NothingMixed' PROVE AlikeBut(r, db, db') /\ Traceless(r, db')
        OBVIOUS
    <2>2. opener = r
        BY <1>4, <1>11, <2>1, Zenon DEF IndInv, OwnTransaction
    <2>3. Open
        BY <2>2, NobodyAssumption DEF Open
    <2>4. QED
        BY <1>1, <1>4, <2>1, <2>2, <2>3, Zenon DEF IndInv, KeptIsOthers, Undone
<1>14. NothingMixed' => ProgressOf(r)'
    <2>1. SUFFICES ASSUME NothingMixed' PROVE ProgressOf(r)'
        OBVIOUS
    <2>2. r \notin Ticket
        <3>1. ProgressOf(r)
            BY <1>4, <2>1, Zenon DEF IndInv, Progress
        <3>2. r \in Ticket => pc[r] # "rollback" /\ pc[r] # "refused"
            BY <3>1 DEF ProgressOf, TicketProgress, IndInv, RequestsFit, Fits, Stopped
        <3>3. QED
            BY <1>1, <3>2
    <2>3. Traceless(r, db)'
        BY <1>13, <2>1, Zenon
    <2>4. QED
        BY <1>2, <1>5, <1>6, <2>2, <2>3, KindsApart DEF ProgressOf, CheckoutProgress
<1>15. Progress'
    <2>1. SUFFICES ASSUME NothingMixed', NEW q \in Request, q # r PROVE ProgressOf(q)'
        BY <1>14, Zenon DEF Progress
    <2>2. ProgressOf(q) /\ Alike(q, db, db')
        BY <1>4, <1>13, <2>1, Zenon DEF IndInv, Progress, AlikeBut
    <2>3. pc'[q] = pc[q] /\ input'[q] = input[q] /\ ticketId'[q] = ticketId[q]
        BY <1>6, <2>1 DEF OnlyMoves
    <2>4. QED
        BY <2>2, <2>3, OthersStay, Zenon
<1>16. QED
    BY <1>8, <1>10, <1>12, <1>15, Zenon DEF IndInv

\* The seeds leave tables, and change no row of anybody.
LEMMA SeedsTables ==
    ASSUME NEW c \in Content
    PROVE  Seeded(c) \in Content /\ \A q : Alike(q, c, Seeded(c))
<1> DEFINE present == c.free[Launch] + Cardinality(c.held[Launch])
           slots == IF present < LaunchSlots THEN c.free[Launch] + (LaunchSlots - present)
                    ELSE c.free[Launch]
<1>1. Launch \in Plan /\ LaunchSlots \in Nat
    BY ConstantsAssumption
<1>2. c.free[Launch] \in Nat /\ present \in Nat
    BY <1>1, CountsAre
<1>3. slots \in Nat
    BY <1>1, <1>2
<1> HIDE DEF present
<1>4. Seeded(c) = [c EXCEPT
            !.definition[Launch] = Seed,
            !.product[Launch] = Seed,
            !.bucket[Launch] = [total |-> LaunchSlots, open |-> TRUE],
            !.group = TRUE,
            !.target = TRUE,
            !.free[Launch] = slots]
    BY DEF Seeded, present
<1> HIDE DEF slots
<1>5. /\ c.definition \in [Plan -> Save \cup {Seed, Nobody}]
      /\ c.product \in [Plan -> Save \cup {Seed, Nobody}]
      /\ c.bucket \in [Plan -> [total : Nat, open : BOOLEAN] \cup {Nobody}]
      /\ c.free \in [Plan -> Nat]
    BY ContentFields
<1>6. /\ [c.definition EXCEPT ![Launch] = Seed] \in [Plan -> Save \cup {Seed, Nobody}]
      /\ [c.product EXCEPT ![Launch] = Seed] \in [Plan -> Save \cup {Seed, Nobody}]
      /\ [c.bucket EXCEPT ![Launch] = [total |-> LaunchSlots, open |-> TRUE]]
                \in [Plan -> [total : Nat, open : BOOLEAN] \cup {Nobody}]
      /\ [c.free EXCEPT ![Launch] = slots] \in [Plan -> Nat]
    BY <1>1, <1>3, <1>5
<1>7. PICK d : d = Seeded(c)
    OBVIOUS
<1>8. /\ d \in Content
      /\ d.ticket = c.ticket /\ d.snapshot = c.snapshot /\ d.event = c.event
      /\ d.mail = c.mail /\ d.held = c.held /\ d.purchase = c.purchase /\ d.audit = c.audit
    <2>1. PICK definition : definition = [c.definition EXCEPT ![Launch] = Seed]
        OBVIOUS
    <2>2. PICK product : product = [c.product EXCEPT ![Launch] = Seed]
        OBVIOUS
    <2>3. PICK bucket : bucket =
                [c.bucket EXCEPT ![Launch] = [total |-> LaunchSlots, open |-> TRUE]]
        OBVIOUS
    <2>4. PICK free : free = [c.free EXCEPT ![Launch] = slots]
        OBVIOUS
    <2>5. d = [c EXCEPT !.definition = definition, !.product = product, !.bucket = bucket,
                        !.group = TRUE, !.target = TRUE, !.free = free]
        BY <1>4, <1>7, <2>1, <2>2, <2>3, <2>4 DEF Content
    <2>6. /\ definition \in [Plan -> Save \cup {Seed, Nobody}]
          /\ product \in [Plan -> Save \cup {Seed, Nobody}]
          /\ bucket \in [Plan -> [total : Nat, open : BOOLEAN] \cup {Nobody}]
          /\ free \in [Plan -> Nat]
        BY <1>6, <2>1, <2>2, <2>3, <2>4
    <2>7. QED
        BY <2>5, <2>6 DEF Content
<1>9. \A q : Alike(q, c, d)
    BY <1>8, SameRows, Zenon
<1>10. QED
    BY <1>7, <1>8, <1>9

\* The step Restart keeps the invariant.
LEMMA RestartKeeps ==
    ASSUME IndInv, Restart
    PROVE  IndInv'
<1>1. /\ db' = Seeded(Undone) /\ Ends /\ UNCHANGED <<input, ticketId, seen>>
      /\ pc' = [r \in Request |-> IF Running(r) THEN "killed" ELSE pc[r]]
      /\ TypeOK /\ pc \in [Request -> Step]
    BY DEF Restart, IndInv, TypeOK
<1>2. trouble \subseteq trouble' /\ trouble' \subseteq Trouble
    BY <1>1 DEF Restart, Meets, TypeOK
<1>3. NothingMixed' => NothingMixed /\ writers \subseteq {opener}
    BY <1>2 DEF NothingMixed, Restart, Meets, HurtsOthers
<1>4. Undone \in Content
    BY <1>1 DEF IndInv, KeptFits, Undone, TypeOK, ConnectionTypeOK
<1>5. db' \in Content /\ \A q : Alike(q, Undone, db')
    BY <1>1, <1>4, SeedsTables
<1>6. /\ pc' \in [Request -> Step]
      /\ \A q \in Request : pc'[q] = IF Running(q) THEN "killed" ELSE pc[q]
    BY <1>1 DEF Step
<1>7. \A q \in Request : pc'[q] \in Stopped
    BY <1>6 DEF Running, Stopped
<1>8. TypeOK'
    <2>1. ConnectionTypeOK(Content)'
        BY <1>1, <1>5 DEF TypeOK, ConnectionTypeOK, Open, Ends
    <2>2. QED
        BY <1>1, <1>2, <1>6, <2>1, Zenon DEF TypeOK
<1>9. RequestsFit'
    <2>1. SUFFICES ASSUME NEW q \in Request PROVE Fits(q)'
        BY Zenon DEF RequestsFit
    <2>2. Fits(q) /\ input'[q] = input[q]
        BY <1>1, Zenon DEF IndInv, RequestsFit
    <2>3. pc'[q] = "new" => pc[q] = "new"
        BY <1>6
    <2>4. pc[q] = "new" => pc'[q] = "new"
        BY <1>6 DEF Running
    <2>5. pc'[q] \in Stopped
        BY <1>7
    <2>6. QED
        BY <2>2, <2>3, <2>4, <2>5 DEF Fits, Stopped
<1>10. opener' = Nobody /\ ~Open'
    BY <1>1 DEF Ends, Open
<1>11. EveryTransactionEnds' /\ KeptIsOthers' /\ KeptFits'
    BY <1>10, Zenon DEF EveryTransactionEnds, KeptIsOthers, KeptFits
<1>12. OwnTransaction'
    <2>1. \A q \in Request : pc'[q] \notin InTransaction
        BY <1>7 DEF Stopped, InTransaction
    <2>2. QED
        BY <1>10, <2>1, NobodyAssumption, Zenon DEF OwnTransaction
<1>13. Progress'
    <2>1. SUFFICES ASSUME NothingMixed', NEW q \in Request PROVE ProgressOf(q)'
        BY Zenon DEF Progress
    <2>2. ProgressOf(q) /\ (pc[q] \in InTransaction <=> opener = q)
        BY <1>3, <2>1, Zenon DEF IndInv, Progress, OwnTransaction
    <2>3. q # opener => Alike(q, db, db')
        <3>1. CASE Open
            <4>1. AlikeBut(opener, db, kept)
                BY <1>3, <2>1, <3>1, Zenon DEF IndInv, KeptIsOthers
            <4>2. Undone = kept
                BY <3>1 DEF Undone
            <4>3. QED
                BY <1>5, <4>1, <4>2, AlikeChains, Zenon DEF AlikeBut
        <3>2. CASE ~Open
            BY <1>5, <3>2 DEF Undone
        <3>3. QED
            BY <3>1, <3>2
    <2>4. q = opener => Traceless(q, db')
        <3>1. SUFFICES ASSUME q = opener PROVE Traceless(q, db')
            OBVIOUS
        <3>2. Open
            BY <3>1, NobodyAssumption DEF Open
        <3>3. Traceless(q, kept) /\ Undone = kept
            BY <1>3, <2>1, <3>1, <3>2, Zenon DEF IndInv, KeptIsOthers, Undone
        <3>4. QED
            BY <1>5, <3>3, AlikeChains
    <2>5. input'[q] = input[q] /\ ticketId'[q] = ticketId[q]
        BY <1>1
    <2>6. CASE ~Running(q)
        <3>1. pc'[q] = pc[q]
            BY <1>6, <2>6
        <3>2. q # opener
            BY <2>2, <2>6 DEF Running, InTransaction
        <3>3. QED
            BY <2>2, <2>3, <2>5, <3>1, <3>2, OthersStay
    <2>7. CASE Running(q) /\ q = opener
        <3>1. pc'[q] = "killed"
            BY <1>6, <2>7
        <3>2. Traceless(q, db)'
            BY <2>4, <2>7, Zenon
        <3>3. QED
            BY <3>1, <3>2 DEF ProgressOf, TicketProgress, DeskProgress, CheckoutProgress
    <2>8. CASE Running(q) /\ q # opener
        <3>1. pc'[q] = "killed"
            BY <1>6, <2>8
        <3>2. pc[q] \notin InTransaction
            BY <2>2, <2>8
        <3>3. Fits(q)
            BY DEF IndInv, RequestsFit
        <3>4. Traceless(q, db) => Traceless(q, db)'
            BY <2>3, <2>8, AlikeChains
        <3>5. q \in Ticket => TicketProgress(q)'
            <4>1. SUFFICES ASSUME q \in Ticket PROVE TicketProgress(q)'
                OBVIOUS
            <4>2. pc[q] \in {"begin", "mail"}
                BY <2>8, <3>2, <3>3, <4>1 DEF Running, InTransaction, Fits, Stopped
            <4>3. Traceless(q, db) \/
                    Filed(q, {ticketId[q]}, {<<ticketId[q], q>>}, FirstEvents(q), {})
                BY <2>2, <4>1, <4>2 DEF ProgressOf, TicketProgress
            <4>4. FirstEvents(q)' = FirstEvents(q)
                BY <2>5, Zenon DEF FirstEvents
            <4>5. Filed(q, {ticketId[q]}, {<<ticketId[q], q>>}, FirstEvents(q), {}) =>
                    (Filed(q, {ticketId[q]}, {<<ticketId[q], q>>}, FirstEvents(q), {}))'
                BY <2>3, <2>5, <2>8, <4>4, Zenon DEF Filed, Alike
            <4>6. QED
                BY <3>1, <3>4, <4>3, <4>5 DEF TicketProgress
        <3>6. q \in Checkout => CheckoutProgress(q)'
            <4>1. SUFFICES ASSUME q \in Checkout PROVE CheckoutProgress(q)'
                OBVIOUS
            <4>2. pc[q] \in {"begin", "clean", "release"}
                BY <2>8, <3>2, <3>3, <4>1 DEF Running, InTransaction, Fits, Stopped
            <4>3. Traceless(q, db)
                BY <2>2, <4>1, <4>2 DEF ProgressOf, CheckoutProgress
            <4>4. QED
                BY <3>1, <3>4, <4>3 DEF CheckoutProgress
        <3>7. q \in Patch => Traceless(q, db)'
            BY <2>2, <2>8, <3>4 DEF ProgressOf, Running
        <3>8. QED
            BY <3>1, <3>5, <3>6, <3>7 DEF ProgressOf, DeskProgress
    <2>9. QED
        BY <2>6, <2>7, <2>8
<1>14. QED
    BY <1>8, <1>9, <1>11, <1>12, <1>13, Zenon DEF IndInv

(***************************************************************************)
(* The theorems                                                            *)
(***************************************************************************)

\* The database starts with the seeded launch plan and no request.
LEMMA InitHolds == Init => IndInv
<1> SUFFICES ASSUME Init PROVE IndInv
    OBVIOUS
<1>1. PICK e : e = Empty
    OBVIOUS
<1>2. /\ e.ticket = <<>> /\ e.snapshot = {} /\ e.event = {} /\ e.mail = {}
      /\ e.held = [p \in Plan |-> {}] /\ e.purchase = {} /\ e.audit = {}
    BY <1>1 DEF Empty
<1>3. e \in Content
    <2>1. <<>> \in Seq([by : Ticket, status : SupportStatus])
        BY EmptySeq, Zenon
    <2>2. QED
        BY <1>1, <2>1 DEF Empty, Content
<1>4. \A q : Traceless(q, e)
    <2>1. DOMAIN e.ticket = {}
        BY <1>2
    <2>2. \A q : /\ TicketsOf(q, e) = {} /\ SnapshotsOf(q, e) = {}
                 /\ EventsOf(q, e) = {} /\ MailsOf(q, e) = {}
        BY <1>2, <2>1 DEF TicketsOf, SnapshotsOf, EventsOf, MailsOf
    <2>3. \A q : PlansOf(q, e) = {}
        BY <1>2 DEF PlansOf
    <2>4. QED
        BY <1>2, <2>2, <2>3 DEF Traceless
<1>5. /\ db = Seeded(e) /\ kept = Nobody /\ opener = Nobody /\ writers = {}
      /\ pc = [r \in Request |-> "new"] /\ input = [r \in Request |-> NoInput]
      /\ ticketId = [r \in Request |-> 0] /\ seen = [r \in Request |-> 0] /\ trouble = {}
    BY <1>1 DEF Init, Connected
<1>6. db \in Content /\ \A q : Traceless(q, db)
    BY <1>3, <1>4, <1>5, SeedsTables, AlikeChains
<1>7. TypeOK
    <2>1. ConnectionTypeOK(Content)
        BY <1>5, <1>6 DEF ConnectionTypeOK, Open
    <2>2. pc \in [Request -> Step] /\ input \in [Request -> Input]
        BY <1>5 DEF Step, NoInput, Input
    <2>3. QED
        BY <1>5, <2>1, <2>2 DEF TypeOK
<1>8. RequestsFit
    BY <1>5 DEF RequestsFit, Fits, Stopped
<1>9. KeptFits /\ EveryTransactionEnds /\ KeptIsOthers
    BY <1>5 DEF KeptFits, EveryTransactionEnds, KeptIsOthers, Open
<1>10. OwnTransaction
    BY <1>5, NobodyAssumption DEF OwnTransaction, InTransaction
<1>11. Progress
    BY <1>5, <1>6 DEF Progress, ProgressOf, TicketProgress, DeskProgress, CheckoutProgress
<1>12. QED
    BY <1>7, <1>8, <1>9, <1>10, <1>11 DEF IndInv

\* Every step keeps the invariant.
LEMMA StepKeeps ==
    ASSUME IndInv, [Next]_vars
    PROVE  IndInv'
<1>1. ASSUME NEW r \in Ticket, TicketStep(r)
      PROVE  IndInv'
    BY <1>1, OpenTicketKeeps, InsertTicketKeeps, InsertSnapshotKeeps, RecordCreatedKeeps,
       RecordGuidanceKeeps, Zenon DEF TicketStep
<1>2. ASSUME NEW r \in Desk, DeskStep(r)
      PROVE  IndInv'
    BY <1>2, StartDeskKeeps, DeskEventKeeps, UpdateTicketKeeps, Zenon DEF DeskStep
<1>3. ASSUME NEW r \in Save, SaveStep(r)
      PROVE  IndInv'
    BY <1>3, SavePlanKeeps, UpsertKeeps, CountSlotsKeeps, Zenon DEF SaveStep
<1>4. ASSUME NEW r \in Patch, PatchStep(r)
      PROVE  IndInv'
    BY <1>4, PatchBucketKeeps, ReadCountsKeeps, ResizeKeeps, Zenon DEF PatchStep
<1>5. ASSUME NEW r \in Retarget, RetargetStep(r)
      PROVE  IndInv'
    BY <1>5, RetargetKeeps, Zenon DEF RetargetStep
<1>6. ASSUME NEW r \in Checkout, CheckoutStep(r)
      PROVE  IndInv'
    BY <1>6, OpenCheckoutKeeps, ClaimSlotKeeps, InsertPurchaseKeeps, LinkKeeps, CleanUpKeeps,
       Zenon DEF CheckoutStep
<1>7. ASSUME NEW r \in Request,
             \/ Begin(r) \/ Commit(r) \/ Rollback(r)
             \/ QueueMail(r) \/ RecordAction(r)
             \/ InsertSlot(r) \/ EnoughSlots(r)
      PROVE  IndInv'
    BY <1>7, BeginKeeps, CommitKeeps, RollbackKeeps, QueueMailKeeps, RecordActionKeeps,
       InsertSlotKeeps, EnoughSlotsKeeps, Zenon
<1>8. CASE UNCHANGED vars
    <2>1. /\ db' = db /\ kept' = kept /\ opener' = opener /\ writers' = writers
          /\ UNCHANGED <<pc, input, ticketId, seen, trouble>>
        BY <1>8 DEF vars, connection
    <2>2. TypeOK' /\ KeptFits' /\ EveryTransactionEnds' /\ OwnTransaction'
        BY <2>1 DEF IndInv, TypeOK, ConnectionTypeOK, Open, KeptFits, EveryTransactionEnds,
                    OwnTransaction, NothingMixed
    <2>3. KeptIsOthers'
        BY <2>1, Zenon DEF IndInv, KeptIsOthers, NothingMixed, Open
    <2>4. \A q : Alike(q, db, db')
        BY <2>1, Zenon DEF Alike
    <2>5. ASSUME NEW q \in Request PROVE Fits(q)' /\ (NothingMixed' => ProgressOf(q)')
        <3>1. pc'[q] = pc[q] /\ input'[q] = input[q] /\ ticketId'[q] = ticketId[q]
            BY <2>1
        <3>2. Fits(q) /\ (NothingMixed' => ProgressOf(q))
            BY <2>1, Zenon DEF IndInv, RequestsFit, Progress, NothingMixed
        <3>3. QED
            BY <2>4, <3>1, <3>2, OthersStay
    <2>6. QED
        BY <2>2, <2>3, <2>5, Zenon DEF IndInv, RequestsFit, Progress
<1>9. QED
    BY <1>1, <1>2, <1>3, <1>4, <1>5, <1>6, <1>7, <1>8, RestartKeeps, Zenon DEF Next

\* The inductive invariant holds always.
THEOREM Invariance == Spec => []IndInv
<1>1. IndInv /\ [Next]_vars => IndInv'
    BY StepKeeps
<1>2. QED
    BY InitHolds, <1>1, PTL DEF Spec

\* Every variable has its type, whatever collides: the tables, what an open
\* transaction would be undone to, and what the requests remember.
THEOREM TypeCorrect == Spec => []TypeOK
<1>1. IndInv => TypeOK
    BY DEF IndInv
<1>2. QED
    BY Invariance, <1>1, PTL

\* An open transaction is always that of a request on its way to COMMIT or ROLLBACK.
THEOREM TransactionsEnd == Spec => []EveryTransactionEnds
<1>1. IndInv => EveryTransactionEnds
    BY DEF IndInv
<1>2. QED
    BY Invariance, <1>1, PTL

\* A row of a ticket request lies under its own ticket.
LEMMA RowsAreOwn ==
    ASSUME IndInv, NothingMixed, NEW q \in Ticket, NEW i,
           <<i, q>> \in db.snapshot \/ <<i, "created", q>> \in db.event
    PROVE  i \in TicketsOf(q, db)
<1>1. TicketProgress(q) /\ Fits(q)
    BY KindsApart DEF IndInv, RequestsFit, Progress, ProgressOf
<1>2. <<i, q>> \in SnapshotsOf(q, db) \/ <<i, "created", q>> \in EventsOf(q, db)
    BY DEF SnapshotsOf, EventsOf
<1>3. PICK s, e, m : Traceless(q, db) \/
            /\ Filed(q, {ticketId[q]}, s, e, m)
            /\ s \subseteq {<<ticketId[q], q>>} /\ e \subseteq FirstEvents(q)
    <2>1. {<<ticketId[q], "created", q>>} \subseteq FirstEvents(q)
        BY DEF FirstEvents
    <2>2. pc[q] \in {"new", "begin", "ticket", "snapshot", "created", "guidance", "commit",
                     "mail", "done", "killed"}
        BY <1>1 DEF TicketProgress, Fits, Stopped
    <2>3. \/ Traceless(q, db)
          \/ Filed(q, {ticketId[q]}, {}, {}, {})
          \/ Filed(q, {ticketId[q]}, {<<ticketId[q], q>>}, {}, {})
          \/ Filed(q, {ticketId[q]}, {<<ticketId[q], q>>}, {<<ticketId[q], "created", q>>}, {})
          \/ Filed(q, {ticketId[q]}, {<<ticketId[q], q>>}, FirstEvents(q), {})
          \/ Filed(q, {ticketId[q]}, {<<ticketId[q], q>>}, FirstEvents(q), {<<ticketId[q], q>>})
        BY <1>1, <2>2 DEF TicketProgress
    <2>4. QED
        BY <2>1, <2>3
<1>4. CASE Traceless(q, db)
    BY <1>2, <1>4 DEF Traceless
<1>5. CASE /\ Filed(q, {ticketId[q]}, s, e, m)
           /\ s \subseteq {<<ticketId[q], q>>} /\ e \subseteq FirstEvents(q)
    <2>1. <<i, q>> \in {<<ticketId[q], q>>} \/ <<i, "created", q>> \in FirstEvents(q)
        BY <1>2, <1>5 DEF Filed
    <2>2. i = ticketId[q]
        BY <2>1 DEF FirstEvents
    <2>3. QED
        BY <1>5, <2>2 DEF Filed
<1>6. QED
    BY <1>3, <1>4, <1>5

\* A ticket that is filed is whole.
LEMMA FiledIsWhole ==
    ASSUME IndInv, NothingMixed, NEW r \in Ticket, NEW m,
           Filed(r, {ticketId[r]}, {<<ticketId[r], r>>}, FirstEvents(r), m)
    PROVE  TicketIsWhole(r)
<1> DEFINE i == ticketId[r]
<1>1. TicketExists(i) /\ db.ticket[i].by = r
    <2>1. i \in TicketsOf(r, db)
        BY DEF Filed
    <2>2. QED
        BY <2>1 DEF TicketsOf, TicketExists
<1>2. <<i, r>> \in db.snapshot
    <2>1. <<i, r>> \in SnapshotsOf(r, db)
        BY DEF Filed
    <2>2. QED
        BY <2>1 DEF SnapshotsOf
<1>3. ASSUME NEW q \in Ticket, <<i, q>> \in db.snapshot \/ <<i, "created", q>> \in db.event
      PROVE  q = r
    <2>1. i \in TicketsOf(q, db)
        BY <1>3, RowsAreOwn
    <2>2. QED
        BY <1>1, <2>1 DEF TicketsOf
<1>4. <<i, "auto_guidance_sent", r>> \in db.event <=> ~input[r].flag
    <2>1. <<i, "auto_guidance_sent", r>> \in db.event <=>
                <<i, "auto_guidance_sent", r>> \in FirstEvents(r)
        BY DEF Filed, EventsOf
    <2>2. QED
        BY <2>1 DEF FirstEvents
<1>5. QED
    BY <1>1, <1>2, <1>3, <1>4 DEF TicketIsWhole

\* Unless transactions collide, what a request was told is done stays done, and what
\* failed or was cut off has left nothing or everything.
THEOREM AnswersAreKept == Spec => []AnsweredIsKept
<1>1. IndInv => AnsweredIsKept
    <2>1. SUFFICES ASSUME IndInv, NothingMixed
                   PROVE  /\ \A r \in Request : pc[r] = "done" => Kept(r)
                          /\ \A r \in Ticket \cup Checkout :
                                /\ pc[r] = "failed" => NoTrace(r)
                                /\ pc[r] = "killed" => NoTrace(r) \/
                                        (IF r \in Ticket THEN TicketIsWhole(r)
                                         ELSE CheckoutIsWhole(r))
        BY Zenon DEF AnsweredIsKept, NothingMixed
    <2>2. \A r \in Request : ProgressOf(r)
        BY <2>1, Zenon DEF IndInv, Progress
    <2>3. ASSUME NEW r \in Request, Traceless(r, db) PROVE NoTrace(r)
        <3>1. db \in Content
            BY <2>1, IdsAre DEF IndInv
        <3>2. /\ \A i \in DOMAIN db.ticket : db.ticket[i].by # r
              /\ \A x \in db.snapshot \cup db.mail : x[2] # r
              /\ \A x \in db.event : x[3] # r
            BY <2>3 DEF Traceless, TicketsOf, SnapshotsOf, EventsOf, MailsOf
        <3>3. r \notin db.purchase \cup UNION {db.held[p] : p \in Plan}
            BY <2>3 DEF Traceless, PlansOf
        <3>4. QED
            BY <3>2, <3>3 DEF NoTrace
    <2>4. ASSUME NEW r \in Checkout, PlansOf(r, db) = {input[r].plan} /\ r \in db.purchase
          PROVE  CheckoutIsWhole(r)
        BY <2>4 DEF PlansOf, CheckoutIsWhole
    <2>5. ASSUME NEW r \in Request, pc[r] = "done" PROVE Kept(r)
        <3>1. CASE r \in Ticket
            <4>1. Filed(r, {ticketId[r]}, {<<ticketId[r], r>>}, FirstEvents(r),
                        {<<ticketId[r], r>>})
                BY <2>2, <2>5, <3>1 DEF ProgressOf, TicketProgress
            <4>2. TicketIsWhole(r)
                BY <2>1, <3>1, <4>1, FiledIsWhole
            <4>3. <<ticketId[r], r>> \in db.mail
                BY <4>1 DEF Filed, MailsOf
            <4>4. QED
                BY <3>1, <4>2, <4>3, KindsApart, Zenon DEF Kept
        <3>2. CASE r \in Desk
            <4>1. DeskProgress(r)
                BY <2>2, <3>2 DEF ProgressOf
            <4>2. QED
                BY <2>5, <3>2, <4>1, KindsApart, Zenon DEF Kept, DeskProgress
        <3>3. CASE r \in Checkout
            <4>1. CheckoutIsWhole(r)
                BY <2>2, <2>4, <2>5, <3>3 DEF ProgressOf, CheckoutProgress
            <4>2. QED
                BY <3>3, <4>1, KindsApart, Zenon DEF Kept
        <3>4. CASE r \in Save \cup Patch \cup Retarget
            <4>1. r \in db.audit
                BY <2>2, <2>5, <3>4 DEF ProgressOf
            <4>2. r \notin Ticket /\ r \notin Desk /\ r \notin Checkout
                BY <3>4, KindsApart
            <4>3. QED
                BY <4>1, <4>2, Zenon DEF Kept
        <3>5. QED
            BY <3>1, <3>2, <3>3, <3>4, KindsApart
    <2>6. ASSUME NEW r \in Ticket \cup Checkout, pc[r] = "failed" PROVE NoTrace(r)
        BY <2>2, <2>3, <2>6, KindsApart DEF ProgressOf, TicketProgress, CheckoutProgress
    <2>7. ASSUME NEW r \in Ticket \cup Checkout, pc[r] = "killed"
          PROVE  NoTrace(r) \/ (IF r \in Ticket THEN TicketIsWhole(r) ELSE CheckoutIsWhole(r))
        <3>1. CASE r \in Ticket
            <4>1. TicketProgress(r) /\ r \in Request
                BY <2>2, <3>1, KindsApart DEF ProgressOf
            <4>2. Traceless(r, db) \/
                    Filed(r, {ticketId[r]}, {<<ticketId[r], r>>}, FirstEvents(r), {})
                BY <2>7, <4>1 DEF TicketProgress
            <4>3. QED
                BY <2>1, <2>3, <3>1, <4>1, <4>2, FiledIsWhole
        <3>2. CASE r \notin Ticket
            <4>1. CheckoutProgress(r) /\ r \in Request /\ r \in Checkout
                BY <2>2, <2>7, <3>2, KindsApart DEF ProgressOf
            <4>2. QED
                BY <2>3, <2>4, <2>7, <3>2, <4>1 DEF CheckoutProgress
        <3>3. QED
            BY <3>1, <3>2
    <2>8. QED
        BY <2>5, <2>6, <2>7
<1>2. QED
    BY Invariance, <1>1, PTL

(***************************************************************************)
(* The catalog agrees with itself                                          *)
(***************************************************************************)

\* The slots of plan p in content c.
TotalIn(c, p) == c.free[p] + Cardinality(c.held[p])

\* What c says of the plan p for sale is what d says.
SameShelf(p, c, d) ==
    /\ c.definition[p] = d.definition[p] /\ c.product[p] = d.product[p]
    /\ c.bucket[p] = d.bucket[p] /\ TotalIn(c, p) = TotalIn(d, p)

\* There are no more slots than somebody has asked for.
Ordinary(c, p) == \E n \in Ordered(p) : TotalIn(c, p) <= n

\* The product is the definition's, and there are the slots that the bucket promises.
Honest(c, p) ==
    /\ c.definition[p] = c.product[p]
    /\ c.bucket[p] = Nobody \/ c.bucket[p].total <= TotalIn(c, p)

NothingDoubled == trouble \cap {"mixed", "double"} = {}

\* A request that has not started asks for nothing.
NewIsBlank == \A r \in Request : pc[r] = "new" => input[r] = NoInput

\* Requests that run at the same time are about different plans.
PlansApart ==
    NothingDoubled => \A q, r \in Save \cup Patch :
        q # r /\ Running(q) /\ Running(r) => input[q].plan # input[r].plan

\* What a request has made of its plan so far.
SaveWork(r) ==
    LET p == input[r].plan
        later == {"group", "target", "count", "slots"}
    IN  /\ pc[r] \in {"product", "inventory"} \cup later => db.definition[p] = r
        /\ pc[r] \in {"inventory"} \cup later => db.product[p] = r
        /\ pc[r] \in later => db.bucket[p].total = input[r].total
        /\ pc[r] = "slots" => seen[r] = Total(p)
        /\ pc[r] = "audit" => Honest(db, p)

PatchWork(r) ==
    LET p == input[r].plan
    IN  /\ pc[r] = "resize" => seen[r] = Total(p)
        /\ pc[r] = "capacity" => input[r].total <= Total(p)

\* Its bucket is about to promise what there is.
Resizing(p) == \E r \in Patch : pc[r] = "capacity" /\ input[r].plan = p

ShelvesFit ==
    NothingDoubled =>
        /\ \A r \in Save : SaveWork(r)
        /\ \A r \in Patch : PatchWork(r)
        /\ \A p \in Plan :
            /\ Ordinary(db, p)
            /\ ~Saving(p) => Honest(db, p) \/ (Resizing(p) /\ db.definition[p] = db.product[p])

\* The same holds of what an open transaction would be undone to, which differs in
\* the plan of a bucket change only.
KeptShelvesFit ==
    NothingDoubled /\ Open /\ writers \subseteq {opener} =>
        \A p \in Plan :
            /\ Ordinary(kept, p)
            /\ ~Saving(p) => Honest(kept, p)
            /\ opener \notin Patch \/ p # input[opener].plan => SameShelf(p, db, kept)

CatalogInv == NewIsBlank /\ PlansApart /\ ShelvesFit /\ KeptShelvesFit

\* What was asked for stays asked for.
LEMMA OrderedGrows ==
    ASSUME NEW r \in Request, OnlyMoves(r), NEW p \in Plan,
           r \in Save \cup Patch =>
                \/ input[r].plan # p
                \/ /\ input'[r].plan = input[r].plan
                   /\ input[r].total = Keep \/ input'[r].total = input[r].total
    PROVE  Ordered(p) \subseteq Ordered(p)'
<1>1. Save \cup Patch \subseteq Request
    BY KindsApart
<1>2. \A q \in Save \cup Patch : input[q].plan = p /\ input[q].total # Keep =>
            input'[q].plan = p /\ input'[q].total = input[q].total
    BY <1>1 DEF OnlyMoves
<1>3. QED
    BY <1>2 DEF Ordered

\* The same shelf is as ordinary and as honest.
LEMMA SameShelves ==
    ASSUME NEW c, NEW d, NEW p, SameShelf(p, c, d)
    PROVE  /\ SameShelf(p, d, c)
           /\ Ordinary(c, p) => Ordinary(d, p)
           /\ Honest(c, p) => Honest(d, p)
           /\ \A e : SameShelf(p, d, e) => SameShelf(p, c, e)
BY Zenon DEF SameShelf, Ordinary, Honest

\* A request that does not move, and whose plan nobody touches, has done its work.
LEMMA WorkStays ==
    ASSUME NEW q \in Request, pc'[q] = pc[q], input'[q] = input[q], seen'[q] = seen[q],
           SameShelf(input[q].plan, db, db')
    PROVE  /\ SaveWork(q) => SaveWork(q)'
           /\ PatchWork(q) => PatchWork(q)'
<1>1. TotalIn(db, input[q].plan) = TotalIn(db', input[q].plan)
    BY DEF SameShelf
<1>2. Total(input[q].plan)' = Total(input[q].plan)
    BY <1>1, Zenon DEF Total, TotalIn
<1>3. Honest(db, input[q].plan) => Honest(db, input[q].plan)'
    BY Zenon DEF SameShelf, Honest
<1>4. QED
    BY <1>2, <1>3, Zenon DEF SaveWork, PatchWork, SameShelf

\* A request that does not run has no work to keep.
LEMMA StoppedWork ==
    ASSUME NEW q, pc[q] \in Stopped
    PROVE  SaveWork(q) /\ PatchWork(q)
BY DEF SaveWork, PatchWork, Stopped

\* What a step of r does to what is said of its plan.
PlanStays(plan) == \A p \in Plan : p = plan =>
    /\ Ordinary(db, p)'
    /\ ~Saving(p)' =>
            Honest(db, p)' \/ (Resizing(p)' /\ db'.definition[p] = db'.product[p])

\* A step of r that neither begins nor ends a transaction keeps the catalog in order
\* when it keeps the plan of r in order, touches no other, and does not run into
\* another request about the same plan.
LEMMA ShelvesMove ==
    ASSUME IndInv, CatalogInv, NEW r \in Request, OnlyMoves(r),
           \A q \in Request \ {r} : seen'[q] = seen[q],
           Stays(r), trouble \subseteq trouble', pc'[r] # "new",
           \A p \in Plan : Ordered(p) \subseteq Ordered(p)',
           \A p \in Plan : SameShelf(p, db, db') \/
                (r \in Save \cup Patch /\ Running(r)' /\ p = input'[r].plan),
           r \in Save \cup Patch =>
                /\ pc[r] = "new" \/ input'[r].plan = input[r].plan
                /\ NothingDoubled' /\ Running(r)' =>
                        \A q \in (Save \cup Patch) \ {r} :
                            Running(q) => input[q].plan # input'[r].plan
                /\ NothingDoubled' => PlanStays(input'[r].plan),
           NothingDoubled' =>
                (r \in Save => SaveWork(r)') /\ (r \in Patch => PatchWork(r)'),
           r \in Save /\ pc'[r] = "done" => pc[r] = "done" \/ Writes(r, db')
    PROVE  CatalogInv'
<1>1. NothingDoubled' => NothingDoubled /\ NothingMixed
    BY DEF NothingDoubled, NothingMixed
<1>2. Save \cup Patch \subseteq Request /\ TypeOK
    BY KindsApart DEF IndInv
<1>3. NewIsBlank'
    BY Zenon DEF CatalogInv, NewIsBlank, OnlyMoves
<1>4. \A q \in Request \ {r} : Running(q)' <=> Running(q)
    BY DEF Running, OnlyMoves
<1>5. PlansApart'
    <2>1. SUFFICES ASSUME NothingDoubled', NEW q \in Save \cup Patch, NEW s \in Save \cup Patch,
                          q # s, Running(q)', Running(s)'
                   PROVE  input'[q].plan # input'[s].plan
        BY Zenon DEF PlansApart
    <2>2. CASE q # r /\ s # r
        <3>1. Running(q) /\ Running(s)
            BY <1>2, <1>4, <2>1, <2>2
        <3>2. input[q].plan # input[s].plan
            BY <1>1, <2>1, <3>1, Zenon DEF CatalogInv, PlansApart
        <3>3. QED
            BY <1>2, <2>2, <3>2 DEF OnlyMoves
    <2>3. CASE q = r
        <3>1. Running(s)
            BY <1>2, <1>4, <2>1, <2>3
        <3>2. input[s].plan # input'[r].plan
            BY <2>1, <2>3, <3>1
        <3>3. QED
            BY <1>2, <2>1, <2>3, <3>2 DEF OnlyMoves
    <2>4. CASE s = r
        <3>1. Running(q)
            BY <1>2, <1>4, <2>1, <2>4
        <3>2. input[q].plan # input'[r].plan
            BY <2>1, <2>4, <3>1
        <3>3. QED
            BY <1>2, <2>1, <2>4, <3>2 DEF OnlyMoves
    <2>5. QED
        BY <2>2, <2>3, <2>4
\* The plan of r before the step, when it had one, is its plan.
<1>6. ASSUME NEW p \in Plan, r \in Save \cup Patch => p # input'[r].plan
      PROVE  /\ Saving(p)' <=> Saving(p)
             /\ Resizing(p)' <=> Resizing(p)
    <2>1. r \in Save \cup Patch => input[r].plan # p
        <3>1. SUFFICES ASSUME r \in Save \cup Patch PROVE input[r].plan # p
            OBVIOUS
        <3>2. CASE pc[r] = "new"
            <4>1. input[r].plan = Nobody
                BY <3>2 DEF CatalogInv, NewIsBlank, NoInput
            <4>2. QED
                BY <4>1, ConstantsAssumption
        <3>3. CASE pc[r] # "new"
            BY <1>6, <3>1, <3>3
        <3>4. QED
            BY <3>2, <3>3
    <2>2. \A q \in Save \cup Patch : q # r => pc'[q] = pc[q] /\ input'[q] = input[q]
        BY <1>2 DEF OnlyMoves
    <2>3. QED
        BY <1>6, <2>1, <2>2 DEF Saving, Resizing
<1>7. ShelvesFit'
    <2>1. SUFFICES ASSUME NothingDoubled'
                   PROVE  /\ \A q \in Save : SaveWork(q)'
                          /\ \A q \in Patch : PatchWork(q)'
                          /\ \A p \in Plan : PlanStays(p)
        BY Zenon DEF ShelvesFit, PlanStays
    <2>2. ASSUME NEW q \in Save \cup Patch, q # r
          PROVE  (q \in Save => SaveWork(q)') /\ (q \in Patch => PatchWork(q)')
        <3>1. q \in Request /\ pc'[q] = pc[q] /\ input'[q] = input[q] /\ seen'[q] = seen[q]
            BY <1>2, <2>2 DEF OnlyMoves
        <3>2. CASE Running(q)
            <4>1. input[q].plan \in Plan
                BY <2>2, <3>1, <3>2 DEF Running, IndInv, RequestsFit, Fits
            <4>2. SameShelf(input[q].plan, db, db')
                BY <2>1, <2>2, <3>2, <4>1
            <4>3. (q \in Save => SaveWork(q)) /\ (q \in Patch => PatchWork(q))
                BY <1>1, <2>1, Zenon DEF CatalogInv, ShelvesFit
            <4>4. QED
                BY <3>1, <4>2, <4>3, WorkStays
        <3>3. CASE ~Running(q)
            BY <3>1, <3>3 DEF Running, SaveWork, PatchWork
        <3>4. QED
            BY <3>2, <3>3
    <2>3. (\A q \in Save : SaveWork(q)') /\ (\A q \in Patch : PatchWork(q)')
        BY <2>1, <2>2
    <2>4. ASSUME NEW p \in Plan PROVE PlanStays(p)
        <3>1. CASE r \in Save \cup Patch /\ p = input'[r].plan
            BY <2>1, <3>1
        <3>2. CASE r \in Save \cup Patch => p # input'[r].plan
            <4>1. SameShelf(p, db, db') /\ Ordered(p) \subseteq Ordered(p)'
                BY <3>2
            <4>2. /\ Ordinary(db, p)
                  /\ ~Saving(p) =>
                        Honest(db, p) \/ (Resizing(p) /\ db.definition[p] = db.product[p])
                BY <1>1, <2>1, Zenon DEF CatalogInv, ShelvesFit
            <4>3. Ordinary(db, p)'
                BY <4>1, <4>2 DEF Ordinary, SameShelf
            <4>4. Honest(db, p) => Honest(db, p)'
                BY <4>1, Zenon DEF Honest, SameShelf
            <4>5. (Saving(p)' <=> Saving(p)) /\ (Resizing(p)' <=> Resizing(p))
                BY <1>6, <3>2
            <4>6. QED
                BY <4>1, <4>2, <4>3, <4>4, <4>5, Zenon DEF PlanStays, SameShelf
        <3>3. QED
            BY <3>1, <3>2
    <2>5. QED
        BY <2>3, <2>4
<1>8. opener' = opener /\ kept' = kept
    BY DEF Stays, Writes, connection
<1>9. KeptShelvesFit'
    <2>1. SUFFICES ASSUME NothingDoubled', opener # Nobody, writers' \subseteq {opener},
                          NEW p \in Plan
                   PROVE  /\ Ordinary(kept, p)'
                          /\ ~Saving(p)' => Honest(kept, p)
                          /\ opener \notin Patch \/ p # input'[opener].plan =>
                                SameShelf(p, db', kept)
        BY <1>8, Zenon DEF KeptShelvesFit, Open, Honest
    <2>2. opener \in Request /\ pc[opener] \in InTransaction
        BY <2>1 DEF IndInv, TypeOK, ConnectionTypeOK, EveryTransactionEnds, Open
    <2>3. opener \notin Save
        BY <2>2, KindsApart DEF IndInv, RequestsFit, Fits, Stopped, InTransaction
    <2>4. writers \subseteq {opener} /\ (Writes(r, db') => r = opener)
        BY <2>1 DEF Stays, Writes, Open, connection
    <2>5. /\ Ordinary(kept, p)
          /\ ~Saving(p) => Honest(kept, p)
          /\ opener \notin Patch \/ p # input[opener].plan => SameShelf(p, db, kept)
        BY <1>1, <2>1, <2>4, Zenon DEF CatalogInv, KeptShelvesFit, Open
    <2>6. Ordinary(kept, p)'
        BY <1>8, <2>5 DEF Ordinary
    <2>7. ~Saving(p)' => ~Saving(p)
        <3>1. CASE r \in Save
            <4>1. pc'[r] = "done" => pc[r] = "done"
                BY <2>3, <2>4, <3>1
            <4>2. CASE p = input'[r].plan /\ pc'[r] # "done"
                BY <3>1, <4>2 DEF Saving
            <4>3. CASE p = input'[r].plan /\ pc'[r] = "done"
                <5>1. pc[r] = "done"
                    BY <4>1, <4>3
                <5>2. \A q \in Save : q # r => pc'[q] = pc[q] /\ input'[q] = input[q]
                    BY <1>2 DEF OnlyMoves
                <5>3. QED
                    BY <5>1, <5>2 DEF Saving
            <4>4. CASE p # input'[r].plan
                BY <1>6, <4>4
            <4>5. QED
                BY <4>2, <4>3, <4>4
        <3>2. CASE r \notin Save
            <4>1. \A q \in Save : pc'[q] = pc[q] /\ input'[q] = input[q]
                BY <1>2, <3>2 DEF OnlyMoves
            <4>2. QED
                BY <4>1 DEF Saving
        <3>3. QED
            BY <3>1, <3>2
    <2>8. opener \in Patch => input'[opener].plan = input[opener].plan
        <3>1. pc[opener] # "new"
            BY <2>2 DEF InTransaction
        <3>2. QED
            BY <2>2, <3>1 DEF OnlyMoves
    <2>9. ASSUME opener \notin Patch \/ p # input'[opener].plan
          PROVE  SameShelf(p, db', kept)
        <3>1. SameShelf(p, db, kept)
            BY <2>5, <2>8, <2>9
        <3>2. SameShelf(p, db, db')
            <4>1. CASE UNCHANGED connection
                BY <4>1, Zenon DEF connection, SameShelf
            <4>2. CASE Writes(r, db')
                BY <2>3, <2>4, <2>9, <4>2
            <4>3. QED
                BY <4>1, <4>2 DEF Stays
        <3>3. QED
            BY <3>1, <3>2, SameShelves
    <2>10. QED
        BY <2>5, <2>6, <2>7, <2>9
<1>10. QED
    BY <1>3, <1>5, <1>7, <1>9, Zenon DEF CatalogInv

\* Contents with the same plans, buckets and slots have the same shelves.
LEMMA SameCatalog ==
    ASSUME NEW c, NEW d, c.definition = d.definition, c.product = d.product,
           c.bucket = d.bucket, c.free = d.free, c.held = d.held
    PROVE  \A p : SameShelf(p, c, d)
BY Zenon DEF SameShelf, TotalIn

\* A request about no plan's definition or bucket.
Outside == Request \ (Save \cup Patch)

\* A step of a request outside the catalog that touches no plan leaves the catalog as
\* it was.
LEMMA ShelvesStay ==
    ASSUME IndInv, CatalogInv, NEW r \in Outside, OnlyMoves(r),
           \A q \in Request \ {r} : seen'[q] = seen[q],
           Stays(r), trouble \subseteq trouble', pc'[r] # "new",
           \A p \in Plan : SameShelf(p, db, db')
    PROVE  CatalogInv'
<1>1. r \in Request /\ r \notin Save \cup Patch /\ r \notin Save /\ r \notin Patch
    BY DEF Outside
<1>2. \A p \in Plan : Ordered(p) \subseteq Ordered(p)'
    BY <1>1, OrderedGrows
<1>3. QED
    BY <1>1, <1>2, ShelvesMove

\* Such a request starts, goes on or writes what is not the catalog's.
LEMMA StartsOutside ==
    ASSUME IndInv, CatalogInv, NEW r \in Outside, NEW s, NEW what, Starts(r, s, what),
           s # "new", trouble' = trouble,
           \A q \in Request \ {r} : ticketId'[q] = ticketId[q]
    PROVE  CatalogInv'
<1>1. r \in Request /\ TypeOK
    BY DEF Outside, IndInv
<1>2. pc \in [Request -> Step] /\ input \in [Request -> Input]
    BY <1>1 DEF TypeOK
<1>3. /\ pc' = [pc EXCEPT ![r] = s] /\ input' = [input EXCEPT ![r] = what]
      /\ UNCHANGED connection /\ seen' = seen
    BY DEF Starts, Goes
<1>4. OnlyMoves(r) /\ pc'[r] # "new"
    BY <1>1, <1>2, <1>3 DEF OnlyMoves
<1>5. \A p : SameShelf(p, db, db')
    BY <1>3, Zenon DEF connection, SameShelf
<1>6. QED
    BY <1>3, <1>4, <1>5, ShelvesStay DEF Stays

\* The same for a step that writes nothing,
LEMMA SkipsOutside ==
    ASSUME IndInv, CatalogInv, NEW r \in Outside, NEW s, Skips(r, s), s # "new"
    PROVE  CatalogInv'
<1>1. r \in Request /\ TypeOK
    BY DEF Outside, IndInv
<1>2. pc \in [Request -> Step]
    BY <1>1 DEF TypeOK
<1>3. /\ pc' = [pc EXCEPT ![r] = s]
      /\ UNCHANGED <<connection, input, ticketId, seen, trouble>>
    BY DEF Skips, Goes
<1>4. OnlyMoves(r) /\ pc'[r] # "new"
    BY <1>1, <1>2, <1>3 DEF OnlyMoves
<1>5. \A p : SameShelf(p, db, db')
    BY <1>3, Zenon DEF connection, SameShelf
<1>6. QED
    BY <1>3, <1>4, <1>5, ShelvesStay DEF Stays

\* for one that writes,
LEMMA DoesOutside ==
    ASSUME IndInv, CatalogInv, NEW r \in Outside, NEW s, NEW new, Does(r, new, s), s # "new",
           \A p \in Plan : SameShelf(p, db, new)
    PROVE  CatalogInv'
<1>1. r \in Request /\ TypeOK
    BY DEF Outside, IndInv
<1>2. pc \in [Request -> Step]
    BY <1>1 DEF TypeOK
<1>3. /\ pc' = [pc EXCEPT ![r] = s] /\ Writes(r, new) /\ db' = new
      /\ UNCHANGED <<input, ticketId, seen, trouble>>
    BY DEF Does, Goes, Writes
<1>4. OnlyMoves(r) /\ pc'[r] # "new"
    BY <1>1, <1>2, <1>3 DEF OnlyMoves
<1>5. QED
    BY <1>3, <1>4, ShelvesStay DEF Stays

\* and for one that writes rows of a ticket, or finds that the ticket is gone.
LEMMA AttachesOutside ==
    ASSUME IndInv, CatalogInv, NEW r \in Outside, NEW s, NEW error, NEW new,
           Attaches(r, new, s, error), s # "new", error # "new",
           \A p \in Plan : SameShelf(p, db, new)
    PROVE  CatalogInv'
<1>1. CASE TicketExists(ticketId[r])
    BY <1>1, DoesOutside DEF Attaches
<1>2. CASE ~TicketExists(ticketId[r])
    BY <1>2, SkipsOutside DEF Attaches
<1>3. QED
    BY <1>1, <1>2

\* No step of a ticket touches the catalog,
LEMMA TicketShelves ==
    ASSUME IndInv, CatalogInv, NEW r \in Ticket, TicketStep(r)
    PROVE  CatalogInv'
<1>1. r \in Outside /\ r \in Request /\ TypeOK /\ db \in Content
    BY KindsApart DEF Outside, IndInv, TypeOK, ConnectionTypeOK
<1>2. ASSUME NEW c, NEW f, OpenTicket(r, c, f)
      PROVE  CatalogInv'
    BY <1>1, <1>2, StartsOutside DEF OpenTicket
<1>3. CASE InsertTicket(r)
    <2>1. PICK new : new = [db EXCEPT !.ticket = Append(@, [by |-> r, status |-> input[r].status])]
        OBVIOUS
    <2>2. \A p : SameShelf(p, db, new)
        BY <1>1, <2>1, SameCatalog DEF Content
    <2>3. /\ Writes(r, new) /\ db' = new /\ pc' = [pc EXCEPT ![r] = "snapshot"]
          /\ ticketId' = [ticketId EXCEPT ![r] = Len(db.ticket) + 1]
          /\ UNCHANGED <<input, seen, trouble>>
        BY <1>3, <2>1 DEF InsertTicket, Goes, Writes
    <2>4. OnlyMoves(r) /\ pc'[r] # "new"
        BY <1>1, <2>3 DEF OnlyMoves, TypeOK
    <2>5. QED
        BY <1>1, <2>2, <2>3, <2>4, ShelvesStay DEF Stays
<1>4. CASE InsertSnapshot(r)
    <2>1. PICK new : new = [db EXCEPT !.snapshot = @ \cup {<<ticketId[r], r>>}]
        OBVIOUS
    <2>2. \A p : SameShelf(p, db, new)
        BY <1>1, <2>1, SameCatalog DEF Content
    <2>3. Attaches(r, new, "created", "rollback")
        BY <1>4, <2>1 DEF InsertSnapshot
    <2>4. QED
        BY <1>1, <2>2, <2>3, AttachesOutside
<1>5. \A type, p : SameShelf(p, db, WithEvent(r, type))
    BY <1>1, SameCatalog DEF Content, WithEvent
<1>6. CASE RecordCreated(r)
    <2>1. PICK s \in {"commit", "guidance"} : Attaches(r, WithEvent(r, "created"), s, "rollback")
        BY <1>6 DEF RecordCreated
    <2>2. QED
        BY <1>1, <1>5, <2>1, AttachesOutside
<1>7. CASE RecordGuidance(r)
    BY <1>1, <1>5, <1>7, AttachesOutside DEF RecordGuidance
<1>8. QED
    BY <1>2, <1>3, <1>4, <1>6, <1>7, Zenon DEF TicketStep

\* and none of the desk.
LEMMA DeskShelves ==
    ASSUME IndInv, CatalogInv, NEW r \in Desk, DeskStep(r)
    PROVE  CatalogInv'
<1>1. r \in Outside /\ r \in Request /\ TypeOK /\ db \in Content
    BY KindsApart DEF Outside, IndInv, TypeOK, ConnectionTypeOK
<1>2. ASSUME NEW i, NEW s \in {"reply", "note", "update"}, NEW what, About(r, i, s, what)
      PROVE  CatalogInv'
    <2>1. ticketId' = [ticketId EXCEPT ![r] = i] /\ Starts(r, s, what) /\ trouble' = trouble
        BY <1>2 DEF About
    <2>2. \A q \in Request \ {r} : ticketId'[q] = ticketId[q]
        BY <1>1, <2>1 DEF TypeOK
    <2>3. QED
        BY <1>1, <2>1, <2>2, StartsOutside
<1>3. ASSUME NEW i, StartDesk(r, i)
      PROVE  CatalogInv'
    BY <1>2, <1>3 DEF StartDesk
<1>4. \A type, p : SameShelf(p, db, WithEvent(r, type))
    BY <1>1, SameCatalog DEF Content, WithEvent
<1>5. CASE RecordReply(r)
    BY <1>1, <1>4, <1>5, AttachesOutside DEF RecordReply
<1>6. CASE RecordNote(r)
    BY <1>1, <1>4, <1>6, AttachesOutside DEF RecordNote
<1>7. CASE RecordChange(r)
    <2>1. PICK s \in {"mail", "done"} : Attaches(r, WithEvent(r, "changed"), s, "failed")
        BY <1>7 DEF RecordChange
    <2>2. QED
        BY <1>1, <1>4, <2>1, AttachesOutside
<1>8. CASE UpdateTicket(r)
    <2>1. PICK new : /\ Does(r, new, "changed")
                     /\ new = db \/ \E t : new = [db EXCEPT !.ticket = t]
        BY <1>8 DEF UpdateTicket
    <2>2. \A p : SameShelf(p, db, new)
        BY <1>1, <2>1, SameCatalog DEF Content
    <2>3. QED
        BY <1>1, <2>1, <2>2, DoesOutside
<1>9. QED
    BY <1>3, <1>5, <1>6, <1>7, <1>8, Zenon DEF DeskStep

\* The step Retarget keeps the catalog as its invariant says.
LEMMA RetargetShelves ==
    ASSUME IndInv, CatalogInv, NEW r \in Retarget, RetargetStep(r)
    PROVE  CatalogInv'
<1>1. r \in Outside /\ db \in Content
    BY KindsApart DEF Outside, IndInv, TypeOK, ConnectionTypeOK
<1>2. ASSUME NEW active, PatchTarget(r, active)
      PROVE  CatalogInv'
    BY <1>1, <1>2, StartsOutside DEF PatchTarget
<1>3. CASE UpdateTarget(r)
    <2>1. PICK new : new = [db EXCEPT !.target = input[r].flag]
        OBVIOUS
    <2>2. \A p : SameShelf(p, db, new)
        BY <1>1, <2>1, SameCatalog DEF Content
    <2>3. Does(r, new, "audit")
        BY <1>3, <2>1 DEF UpdateTarget
    <2>4. QED
        BY <1>1, <2>2, <2>3, DoesOutside
<1>4. QED
    BY <1>2, <1>3, Zenon DEF RetargetStep

\* A claim and a release move a slot from one side of a plan's total to the other.
LEMMA MovesSlot ==
    ASSUME NEW c \in Content, NEW p \in Plan, NEW r \in Checkout, NEW d,
           \/ /\ r \notin c.held[p] /\ c.free[p] # 0
              /\ d = [c EXCEPT !.free[p] = @ - 1, !.held[p] = @ \cup {r}]
           \/ /\ r \in c.held[p]
              /\ d = [c EXCEPT !.held[p] = @ \ {r}, !.free[p] = @ + 1]
    PROVE  \A o \in Plan : SameShelf(o, c, d)
<1>1. /\ c.free \in [Plan -> Nat] /\ c.held \in [Plan -> SUBSET Checkout]
      /\ IsFiniteSet(c.held[p]) /\ Cardinality(c.held[p]) \in Nat
    BY ContentFields, CountsAre
<1>2. d.definition = c.definition /\ d.product = c.product /\ d.bucket = c.bucket
    BY DEF Content
<1>3. ASSUME NEW o \in Plan, o # p
      PROVE  d.free[o] = c.free[o] /\ d.held[o] = c.held[o]
    <2>1. \/ /\ d.free = [c.free EXCEPT ![p] = @ - 1]
             /\ d.held = [c.held EXCEPT ![p] = @ \cup {r}]
          \/ /\ d.free = [c.free EXCEPT ![p] = @ + 1]
             /\ d.held = [c.held EXCEPT ![p] = @ \ {r}]
        BY DEF Content
    <2>2. QED
        BY <1>1, <1>3, <2>1
<1>4. TotalIn(c, p) = TotalIn(d, p)
    <2>1. CASE /\ r \notin c.held[p] /\ c.free[p] # 0
               /\ d = [c EXCEPT !.free[p] = @ - 1, !.held[p] = @ \cup {r}]
        <3>1. d.free[p] = c.free[p] - 1 /\ d.held[p] = c.held[p] \cup {r}
            BY <1>1, <2>1 DEF Content
        <3>2. Cardinality(c.held[p] \cup {r}) = Cardinality(c.held[p]) + 1
            BY <1>1, <2>1, FS_AddElement
        <3>3. QED
            BY <1>1, <3>1, <3>2 DEF TotalIn
    <2>2. CASE /\ r \in c.held[p]
               /\ d = [c EXCEPT !.held[p] = @ \ {r}, !.free[p] = @ + 1]
        <3>1. d.free[p] = c.free[p] + 1 /\ d.held[p] = c.held[p] \ {r}
            BY <1>1, <2>2 DEF Content
        <3>2. Cardinality(c.held[p] \ {r}) = Cardinality(c.held[p]) - 1
            BY <1>1, <2>2, FS_RemoveElement
        <3>3. QED
            BY <1>1, <3>1, <3>2 DEF TotalIn
    <2>3. QED
        BY <2>1, <2>2
<1>5. ASSUME NEW o \in Plan PROVE SameShelf(o, c, d)
    BY <1>2, <1>3, <1>4, Zenon DEF SameShelf, TotalIn
<1>6. QED
    BY <1>5

\* The step Checkout keeps the catalog as its invariant says.
LEMMA CheckoutShelves ==
    ASSUME IndInv, CatalogInv, NEW r \in Checkout, CheckoutStep(r)
    PROVE  CatalogInv'
<1>1. r \in Outside /\ db \in Content
    BY KindsApart DEF Outside, IndInv, TypeOK, ConnectionTypeOK
<1>2. \A p : SameShelf(p, db, db)
    BY Zenon DEF SameShelf
<1>3. ASSUME NEW p \in Plan, OpenCheckout(r, p)
      PROVE  CatalogInv'
    BY <1>1, <1>3, StartsOutside DEF OpenCheckout
<1>4. CASE ClaimSlot(r)
    <2> DEFINE p == input[r].plan
    <2>1. pc[r] = "claim" /\ p \in Plan
        BY <1>4, CheckoutInputs DEF ClaimSlot
    <2>2. CASE db.free[p] = 0
        BY <1>1, <1>4, <2>2, SkipsOutside DEF ClaimSlot
    <2>3. CASE db.free[p] # 0
        <3>1. PICK new : new = [db EXCEPT !.free[p] = @ - 1, !.held[p] = @ \cup {r}]
            OBVIOUS
        <3>2. Does(r, new, "purchase")
            BY <1>4, <2>3, <3>1 DEF ClaimSlot
        <3>3. CASE r \notin db.held[p]
            <4>1. \A o \in Plan : SameShelf(o, db, new)
                BY <1>1, <2>1, <2>3, <3>1, <3>3, MovesSlot
            <4>2. QED
                BY <1>1, <3>2, <4>1, DoesOutside
        <3>4. CASE r \in db.held[p]
            <4>1. ~NothingMixed
                <5>1. CheckoutProgress(r) => r \notin db.held[p]
                    BY <2>1 DEF CheckoutProgress, Traceless, PlansOf
                <5>2. QED
                    BY <3>4, <5>1, CheckoutInputs
            <4>2. ~NothingDoubled'
                BY <3>2, <4>1 DEF NothingMixed, NothingDoubled, Does
            <4>3. NewIsBlank'
                <5>1. OnlyMoves(r) /\ pc'[r] # "new"
                    BY <3>2, CheckoutInputs DEF Does, Goes, OnlyMoves, TypeOK
                <5>2. QED
                    BY <5>1, Zenon DEF NewIsBlank, OnlyMoves, CatalogInv
            <4>4. QED
                BY <4>2, <4>3, Zenon DEF CatalogInv, PlansApart, ShelvesFit, KeptShelvesFit
        <3>5. QED
            BY <3>3, <3>4
    <2>4. QED
        BY <2>2, <2>3
<1>5. CASE InsertPurchase(r)
    <2>1. PICK new : new = [db EXCEPT !.purchase = @ \cup {r}]
        OBVIOUS
    <2>2. \A p : SameShelf(p, db, new)
        BY <1>1, <2>1, SameCatalog DEF Content
    <2>3. Does(r, new, "stripe")
        BY <1>5, <2>1 DEF InsertPurchase
    <2>4. QED
        BY <1>1, <2>2, <2>3, DoesOutside
<1>6. CASE AskStripe(r) \/ LinkSession(r)
    <2>1. PICK s \in {"link", "rollback", "commit"} : Skips(r, s) \/ Does(r, db, s)
        BY <1>6 DEF AskStripe, LinkSession
    <2>2. QED
        BY <1>1, <1>2, <2>1, SkipsOutside, DoesOutside
<1>7. CASE CancelPurchase(r)
    <2>1. PICK new : new = [db EXCEPT !.purchase = @ \ {r}]
        OBVIOUS
    <2>2. \A p : SameShelf(p, db, new)
        BY <1>1, <2>1, SameCatalog DEF Content
    <2>3. Does(r, new, "release")
        BY <1>7, <2>1 DEF CancelPurchase
    <2>4. QED
        BY <1>1, <2>2, <2>3, DoesOutside
<1>8. CASE ReleaseSlot(r)
    <2> DEFINE p == input[r].plan
    <2>1. pc[r] = "release" /\ p \in Plan
        BY <1>8, CheckoutInputs DEF ReleaseSlot
    <2>2. CASE r \notin db.held[p]
        BY <1>1, <1>2, <1>8, <2>2, DoesOutside DEF ReleaseSlot
    <2>3. CASE r \in db.held[p]
        <3>1. PICK new : new = [db EXCEPT !.held[p] = @ \ {r}, !.free[p] = @ + 1]
            OBVIOUS
        <3>2. Does(r, new, "failed")
            BY <1>8, <2>3, <3>1 DEF ReleaseSlot
        <3>3. \A o \in Plan : SameShelf(o, db, new)
            BY <1>1, <2>1, <2>3, <3>1, MovesSlot
        <3>4. QED
            BY <1>1, <3>2, <3>3, DoesOutside
    <2>4. QED
        BY <2>2, <2>3
<1>9. QED
    BY <1>3, <1>4, <1>5, <1>6, <1>7, <1>8, Zenon DEF CheckoutStep

\* A statement about one plan leaves the shelves of the others alone.
LEMMA OtherShelves ==
    ASSUME NEW c \in Content, NEW p \in Plan, NEW x, NEW d,
           \/ d = [c EXCEPT !.definition[p] = x]
           \/ d = [c EXCEPT !.product[p] = x]
           \/ d = [c EXCEPT !.bucket[p] = x]
           \/ d = [c EXCEPT !.free[p] = x]
    PROVE  /\ \A o \in Plan : o # p => SameShelf(o, c, d)
           /\ d.held = c.held
           /\ d = [c EXCEPT !.free[p] = x] \/ d.free = c.free
<1>1. /\ c.definition \in [Plan -> Save \cup {Seed, Nobody}]
      /\ c.product \in [Plan -> Save \cup {Seed, Nobody}]
      /\ c.bucket \in [Plan -> [total : Nat, open : BOOLEAN] \cup {Nobody}]
      /\ c.free \in [Plan -> Nat]
    BY ContentFields
<1>2. d.held = c.held /\ (d = [c EXCEPT !.free[p] = x] \/ d.free = c.free)
    BY DEF Content
<1>3. ASSUME NEW o \in Plan, o # p
      PROVE  /\ c.definition[o] = d.definition[o] /\ c.product[o] = d.product[o]
             /\ c.bucket[o] = d.bucket[o] /\ c.free[o] = d.free[o]
    <2>1. CASE d = [c EXCEPT !.definition[p] = x]
        <3>1. /\ d.definition = [c.definition EXCEPT ![p] = x] /\ d.product = c.product
              /\ d.bucket = c.bucket /\ d.free = c.free
            BY <2>1 DEF Content
        <3>2. QED
            BY <1>1, <1>3, <3>1
    <2>2. CASE d = [c EXCEPT !.product[p] = x]
        <3>1. /\ d.product = [c.product EXCEPT ![p] = x] /\ d.definition = c.definition
              /\ d.bucket = c.bucket /\ d.free = c.free
            BY <2>2 DEF Content
        <3>2. QED
            BY <1>1, <1>3, <3>1
    <2>3. CASE d = [c EXCEPT !.bucket[p] = x]
        <3>1. /\ d.bucket = [c.bucket EXCEPT ![p] = x] /\ d.definition = c.definition
              /\ d.product = c.product /\ d.free = c.free
            BY <2>3 DEF Content
        <3>2. QED
            BY <1>1, <1>3, <3>1
    <2>4. CASE d = [c EXCEPT !.free[p] = x]
        <3>1. /\ d.free = [c.free EXCEPT ![p] = x] /\ d.definition = c.definition
              /\ d.product = c.product /\ d.bucket = c.bucket
            BY <2>4 DEF Content
        <3>2. QED
            BY <1>1, <1>3, <3>1
    <2>5. QED
        BY <2>1, <2>2, <2>3, <2>4
<1>4. QED
    BY <1>2, <1>3, Zenon DEF SameShelf, TotalIn

\* A request about a plan that runs takes a step.
LEMMA PlanMoves ==
    ASSUME IndInv, CatalogInv, NEW r \in Save \cup Patch, OnlyMoves(r),
           \A q \in Request \ {r} : seen'[q] = seen[q],
           Stays(r), trouble' = trouble, Running(r), pc'[r] # "new",
           input'[r].plan = input[r].plan,
           input[r].total = Keep \/ input'[r].total = input[r].total,
           \A o \in Plan : SameShelf(o, db, db') \/ (Running(r)' /\ o = input[r].plan),
           NothingDoubled => PlanStays(input[r].plan),
           NothingDoubled =>
                (r \in Save => SaveWork(r)') /\ (r \in Patch => PatchWork(r)'),
           r \in Save /\ pc'[r] = "done" => Writes(r, db')
    PROVE  CatalogInv'
<1>1. r \in Request
    BY KindsApart
<1>2. NothingDoubled' <=> NothingDoubled
    BY Zenon DEF NothingDoubled
<1>3. \A p \in Plan : Ordered(p) \subseteq Ordered(p)'
    BY <1>1, OrderedGrows
<1>4. NothingDoubled' /\ Running(r)' =>
            \A q \in (Save \cup Patch) \ {r} :
                Running(q) => input[q].plan # input'[r].plan
    <2>1. SUFFICES ASSUME NothingDoubled, NEW q \in (Save \cup Patch) \ {r}, Running(q)
                   PROVE  input[q].plan # input'[r].plan
        BY <1>2, Zenon
    <2>2. q \in Save \cup Patch /\ q # r
        OBVIOUS
    <2>3. input[q].plan # input[r].plan
        BY <2>1, <2>2, Zenon DEF CatalogInv, PlansApart
    <2>4. QED
        BY <2>3
<1>5. NothingDoubled' => PlanStays(input'[r].plan)
    BY <1>2
<1>6. \A p \in Plan : SameShelf(p, db, db') \/
            (r \in Save \cup Patch /\ Running(r)' /\ p = input'[r].plan)
    OBVIOUS
<1>7. trouble \subseteq trouble'
    OBVIOUS
<1>8. QED
    BY <1>1, <1>2, <1>3, <1>4, <1>5, <1>6, <1>7, ShelvesMove

\* A new request about a plan, when nobody else is at it.
LEMMA PlanStarts ==
    ASSUME IndInv, CatalogInv, NEW r \in Save \cup Patch, NEW p \in Plan,
           NEW s \in {"begin", "definition"}, NEW what \in Input, StartsOn(r, p, s, what),
           s = "begin" <=> r \in Patch
    PROVE  CatalogInv'
<1> DEFINE full == [what EXCEPT !.plan = p]
<1>1. r \in Request /\ TypeOK
    BY KindsApart DEF IndInv
<1>2. /\ Starts(r, s, full) /\ ticketId' = ticketId /\ trouble \subseteq trouble'
      /\ NothingDoubled' => ~Busy(r, p)
    BY <1>1 DEF StartsOn, Meets, NothingDoubled
<1>3. full.plan = p
    BY DEF Input
<1> HIDE DEF full
<1>4. /\ pc[r] = "new" /\ pc' = [pc EXCEPT ![r] = s] /\ input' = [input EXCEPT ![r] = full]
      /\ UNCHANGED connection /\ seen' = seen
    BY <1>2 DEF Starts, Goes
<1>5. OnlyMoves(r) /\ pc'[r] = s /\ input'[r] = full
    BY <1>1, <1>2, <1>4 DEF OnlyMoves, TypeOK
<1>6. input[r].plan = Nobody
    BY <1>1, <1>4 DEF CatalogInv, NewIsBlank, NoInput
<1>7. \A o \in Plan : Ordered(o) \subseteq Ordered(o)'
    BY <1>1, <1>5, <1>6, ConstantsAssumption, OrderedGrows
<1>8. \A o : SameShelf(o, db, db')
    BY <1>4, Zenon DEF connection, SameShelf
<1>9. NothingDoubled' => \A q \in (Save \cup Patch) \ {r} :
            Running(q) => input[q].plan # input'[r].plan
    BY <1>2, <1>3, <1>5 DEF Busy
<1>10. NothingDoubled' => PlanStays(p)
    <2>1. SUFFICES ASSUME NothingDoubled PROVE PlanStays(p)
        BY <1>2 DEF NothingDoubled
    <2>2. /\ Ordinary(db, p)
          /\ ~Saving(p) =>
                Honest(db, p) \/ (Resizing(p) /\ db.definition[p] = db.product[p])
        BY <2>1, Zenon DEF CatalogInv, ShelvesFit
    <2>3. Ordinary(db, p)'
        BY <1>7, <1>8, <2>2 DEF Ordinary, SameShelf
    <2>4. (Honest(db, p) => Honest(db, p)') /\ db'.definition = db.definition
          /\ db'.product = db.product
        BY <1>4, Zenon DEF Honest, connection, TotalIn
    <2>5. Saving(p) => Saving(p)'
        <3>1. ASSUME NEW q \in Save, pc[q] # "done", input[q].plan = p
              PROVE  pc'[q] # "done" /\ input'[q].plan = p
            BY <1>3, <1>5, <3>1, KindsApart DEF OnlyMoves
        <3>2. QED
            BY <3>1, Zenon DEF Saving
    <2>6. Resizing(p) => Resizing(p)'
        <3>1. ASSUME NEW q \in Patch, pc[q] = "capacity", input[q].plan = p
              PROVE  pc'[q] = "capacity" /\ input'[q].plan = p
            BY <1>4, <1>5, <3>1, KindsApart DEF OnlyMoves
        <3>2. QED
            BY <3>1, Zenon DEF Resizing
    <2>7. QED
        BY <2>2, <2>3, <2>4, <2>5, <2>6, Zenon DEF PlanStays
<1>11. (r \in Save => SaveWork(r)') /\ (r \in Patch => PatchWork(r)')
    BY <1>5 DEF SaveWork, PatchWork
<1>12. Stays(r) /\ pc'[r] \notin {"new", "done"}
    BY <1>4, <1>5 DEF Stays
<1>13. \A q \in Request \ {r} : seen'[q] = seen[q]
    BY <1>4
<1>14. QED
    BY <1>1, <1>2, <1>3, <1>4, <1>5, <1>7, <1>8, <1>9, <1>10, <1>11, <1>12, <1>13, ShelvesMove

\* What is known of the plan of a request that runs.
LEMMA PlanIs ==
    ASSUME IndInv, CatalogInv, NEW r \in Save \cup Patch, NothingDoubled
    PROVE  /\ r \in Save => SaveWork(r)
           /\ r \in Patch => PatchWork(r)
           /\ pc[r] # "new" => Ordinary(db, input[r].plan)
           /\ pc[r] # "new" /\ ~Saving(input[r].plan) =>
                \/ Honest(db, input[r].plan)
                \/ Resizing(input[r].plan) /\ db.definition[input[r].plan] = db.product[input[r].plan]
<1>1. pc[r] # "new" => input[r].plan \in Plan
    BY PlanInputs
<1>2. QED
    BY <1>1, Zenon DEF CatalogInv, ShelvesFit

\* While a save goes on nothing is said of its plan but how many slots it may have.
LEMMA SavingStays ==
    ASSUME IndInv, CatalogInv, NEW r \in Save, NothingDoubled, pc[r] # "new", OnlyMoves(r),
           pc'[r] # "done", input'[r] = input[r],
           TotalIn(db', input[r].plan) = TotalIn(db, input[r].plan)
    PROVE  PlanStays(input[r].plan)
<1> DEFINE p == input[r].plan
<1>1. r \in Request /\ p \in Plan /\ Ordinary(db, p)
    BY KindsApart, PlanInputs, PlanIs
<1>2. Ordered(p) \subseteq Ordered(p)'
    BY <1>1, OrderedGrows
<1>3. Ordinary(db, p)'
    BY <1>1, <1>2 DEF Ordinary
<1>4. Saving(p)'
    BY DEF Saving
<1>5. QED
    BY <1>3, <1>4 DEF PlanStays

\* The step SavePlan keeps the catalog as its invariant says.
LEMMA SavePlanShelves ==
    ASSUME IndInv, CatalogInv, NEW r \in Save, NEW o \in Orders, o.total # Keep,
           SavePlan(r, o.plan, o.total, o.flag)
    PROVE  CatalogInv'
<1> DEFINE what == [NoInput EXCEPT !.total = o.total, !.flag = o.flag]
<1>1. StartsOn(r, o.plan, "definition", what)
    BY DEF SavePlan
<1>2. what \in Input
    BY OrdersAre DEF NoInput, Input
<1> HIDE DEF what
<1>3. r \notin Patch
    BY KindsApart
<1>4. QED
    BY <1>1, <1>2, <1>3, OrdersAre, PlanStarts

\* The step PatchBucket keeps the catalog as its invariant says.
LEMMA PatchBucketShelves ==
    ASSUME IndInv, CatalogInv, NEW r \in Patch, NEW o \in Orders,
           PatchBucket(r, o.plan, o.total, o.flag)
    PROVE  CatalogInv'
<1> DEFINE what == [NoInput EXCEPT !.total = o.total, !.flag = o.flag]
<1>1. StartsOn(r, o.plan, "begin", what)
    BY DEF PatchBucket
<1>2. what \in Input
    BY OrdersAre DEF NoInput, Input
<1> HIDE DEF what
<1>3. QED
    BY <1>1, <1>2, OrdersAre, PlanStarts

\* An upsert of a save.
LEMMA SaveWrites ==
    ASSUME IndInv, CatalogInv, NEW r \in Save, Running(r), NEW new, NEW s,
           Does(r, new, s), s \notin Stopped,
           \A o \in Plan : o # input[r].plan => SameShelf(o, db, new),
           TotalIn(new, input[r].plan) = TotalIn(db, input[r].plan),
           NothingDoubled => SaveWork(r)'
    PROVE  CatalogInv'
<1>1. r \in Request /\ TypeOK /\ pc \in [Request -> Step] /\ pc[r] # "new" /\ r \notin Patch
    BY KindsApart DEF IndInv, TypeOK, Running
<1>2. /\ pc' = [pc EXCEPT ![r] = s] /\ Writes(r, new) /\ db' = new
      /\ UNCHANGED <<input, ticketId, seen, trouble>>
    BY DEF Does, Goes, Writes
<1>3. OnlyMoves(r) /\ pc'[r] = s
    BY <1>1, <1>2 DEF OnlyMoves
<1>4. Running(r)' /\ pc'[r] \notin {"new", "done"}
    BY <1>3 DEF Running, Stopped
<1>5. NothingDoubled => PlanStays(input[r].plan)
    BY <1>1, <1>2, <1>3, <1>4, SavingStays
<1>6. QED
    BY <1>1, <1>2, <1>3, <1>4, <1>5, PlanMoves DEF Stays

\* The step Upsert keeps the catalog as its invariant says.
LEMMA UpsertShelves ==
    ASSUME IndInv, CatalogInv, NEW r \in Save,
           \/ UpsertDefinition(r) \/ UpsertProduct(r) \/ UpsertBucket(r)
           \/ UpsertGroup(r) \/ UpsertTarget(r)
    PROVE  CatalogInv'
<1> DEFINE p == input[r].plan
<1>1. pc[r] \in {"definition", "product", "inventory", "group", "target"}
    BY DEF UpsertDefinition, UpsertProduct, UpsertBucket, UpsertGroup, UpsertTarget
<1>2. Running(r) /\ pc[r] # "new"
    BY <1>1 DEF Running
<1>3. p \in Plan /\ db \in Content /\ TypeOK /\ r \in Request /\ input[r].total \in Nat
    BY <1>2, PlanInputs
<1>4. NothingDoubled => SaveWork(r)
    BY PlanIs
<1>5. /\ db.definition \in [Plan -> Save \cup {Seed, Nobody}]
      /\ db.product \in [Plan -> Save \cup {Seed, Nobody}]
      /\ db.bucket \in [Plan -> [total : Nat, open : BOOLEAN] \cup {Nobody}]
    BY <1>3, ContentFields
<1>6. ASSUME NEW new, NEW s, Does(r, new, s)
      PROVE  pc'[r] = s /\ db' = new /\ input' = input /\ seen' = seen
    BY <1>3, <1>6 DEF Does, Writes, Goes, TypeOK
<1>7. CASE UpsertDefinition(r)
    <2>1. PICK new : new = [db EXCEPT !.definition[p] = r]
        OBVIOUS
    <2>2. Does(r, new, "product") /\ pc[r] = "definition"
        BY <1>7, <2>1 DEF UpsertDefinition
    <2>3. (\A o \in Plan : o # p => SameShelf(o, db, new)) /\ TotalIn(new, p) = TotalIn(db, p)
        <3>1. new.free = db.free /\ new.held = db.held
            BY <1>3, <2>1 DEF Content
        <3>2. QED
            BY <1>3, <2>1, <3>1, OtherShelves DEF TotalIn
    <2>4. new.definition[p] = r
        BY <1>3, <1>5, <2>1 DEF Content
    <2>5. SaveWork(r)'
        BY <1>6, <2>2, <2>4 DEF SaveWork
    <2>6. QED
        BY <1>2, <2>2, <2>3, <2>5, SaveWrites DEF Stopped
<1>8. CASE UpsertProduct(r)
    <2>1. PICK new : new = [db EXCEPT !.product[p] = r]
        OBVIOUS
    <2>2. Does(r, new, "inventory") /\ pc[r] = "product"
        BY <1>8, <2>1 DEF UpsertProduct
    <2>3. (\A o \in Plan : o # p => SameShelf(o, db, new)) /\ TotalIn(new, p) = TotalIn(db, p)
        <3>1. new.free = db.free /\ new.held = db.held
            BY <1>3, <2>1 DEF Content
        <3>2. QED
            BY <1>3, <2>1, <3>1, OtherShelves DEF TotalIn
    <2>4. new.product[p] = r /\ new.definition = db.definition
        BY <1>3, <1>5, <2>1 DEF Content
    <2>5. NothingDoubled => SaveWork(r)'
        BY <1>4, <1>6, <2>2, <2>4 DEF SaveWork
    <2>6. QED
        BY <1>2, <2>2, <2>3, <2>5, SaveWrites DEF Stopped
<1>9. CASE UpsertBucket(r)
    <2>1. CASE db.product[p] = Nobody
        <3>1. Skips(r, "failed")
            BY <1>9, <2>1 DEF UpsertBucket
        <3>2. /\ pc' = [pc EXCEPT ![r] = "failed"]
              /\ UNCHANGED <<connection, input, ticketId, seen, trouble>> /\ db' = db
            BY <3>1 DEF Skips, Goes, connection
        <3>3. OnlyMoves(r) /\ pc'[r] = "failed" /\ r \notin Patch
            BY <1>3, <3>2, KindsApart DEF OnlyMoves, TypeOK
        <3>4. \A o : SameShelf(o, db, db')
            BY <3>2, Zenon DEF SameShelf
        <3>5. SaveWork(r)'
            BY <3>3 DEF SaveWork
        <3>6. TotalIn(db', p) = TotalIn(db, p)
            BY <3>2
        <3>7. NothingDoubled => PlanStays(p)
            BY <1>2, <3>2, <3>3, <3>6, SavingStays
        <3>8. QED
            BY <1>2, <3>2, <3>3, <3>4, <3>5, <3>7, PlanMoves DEF Stays
    <2>2. CASE db.product[p] # Nobody
        <3>1. PICK row : row = [total |-> input[r].total, open |-> input[r].flag]
            OBVIOUS
        <3>2. PICK new : new = [db EXCEPT !.bucket[p] = row]
            OBVIOUS
        <3>3. Does(r, new, "group") /\ pc[r] = "inventory"
            BY <1>9, <2>2, <3>1, <3>2 DEF UpsertBucket
        <3>4. (\A o \in Plan : o # p => SameShelf(o, db, new)) /\ TotalIn(new, p) = TotalIn(db, p)
            <4>1. new.free = db.free /\ new.held = db.held
                BY <1>3, <3>2 DEF Content
            <4>2. QED
                BY <1>3, <3>2, <4>1, OtherShelves DEF TotalIn
        <3>5. /\ new.bucket[p] = row /\ new.definition = db.definition
              /\ new.product = db.product
            BY <1>3, <1>5, <3>2 DEF Content
        <3>6. NothingDoubled => SaveWork(r)'
            BY <1>4, <1>6, <3>1, <3>3, <3>5 DEF SaveWork
        <3>7. QED
            BY <1>2, <3>3, <3>4, <3>6, SaveWrites DEF Stopped
    <2>3. QED
        BY <2>1, <2>2
<1>10. CASE UpsertGroup(r) \/ UpsertTarget(r)
    <2> DEFINE s == IF pc[r] = "group" THEN "target" ELSE "count"
    <2>1. PICK new : /\ Does(r, new, s) /\ pc[r] \in {"group", "target"}
                     /\ \/ new = [db EXCEPT !.group = input[r].flag]
                        \/ new = [db EXCEPT !.target = input[r].flag]
        BY <1>10 DEF UpsertGroup, UpsertTarget
    <2>2. \A o : SameShelf(o, db, new)
        BY <1>3, <2>1, SameCatalog DEF Content
    <2>3. TotalIn(new, p) = TotalIn(db, p)
        BY <2>2 DEF SameShelf
    <2>4. NothingDoubled => SaveWork(r)'
        <3>1. NothingDoubled => /\ db.definition[p] = r /\ db.product[p] = r
                                /\ db.bucket[p].total = input[r].total
            BY <1>4, <2>1 DEF SaveWork
        <3>2. NothingDoubled => /\ new.definition[p] = r /\ new.product[p] = r
                                /\ new.bucket[p].total = input[r].total
            BY <2>2, <3>1 DEF SameShelf
        <3>3. pc'[r] \in {"target", "count"} /\ db' = new /\ input' = input
            BY <1>6, <2>1
        <3>4. QED
            BY <3>2, <3>3 DEF SaveWork
    <2>5. QED
        BY <1>2, <2>1, <2>2, <2>3, <2>4, SaveWrites DEF Stopped
<1>11. QED
    BY <1>7, <1>8, <1>9, <1>10

\* What is said of the plan of a request stays when what counts of its shelf does.
LEMMA PlanStaysSame ==
    ASSUME IndInv, CatalogInv, NEW r \in Save \cup Patch, NothingDoubled, pc[r] # "new",
           OnlyMoves(r), SameShelf(input[r].plan, db, db'),
           input'[r].plan = input[r].plan,
           input[r].total = Keep \/ input'[r].total = input[r].total,
           pc[r] = "capacity" => pc'[r] = "capacity",
           r \in Save /\ pc'[r] = "done" => pc[r] = "done" \/ Honest(db, input[r].plan)
    PROVE  PlanStays(input[r].plan)
<1> DEFINE p == input[r].plan
<1>1. r \in Request /\ p \in Plan /\ Save \subseteq Request /\ Patch \subseteq Request
    BY KindsApart, PlanInputs
<1>2. Ordinary(db, p)
    BY PlanIs
<1>3. Ordered(p) \subseteq Ordered(p)'
    BY <1>1, OrderedGrows
<1>4. Ordinary(db, p)'
    BY <1>2, <1>3 DEF Ordinary, SameShelf
<1>5. Honest(db, p) => Honest(db, p)'
    BY Zenon DEF Honest, SameShelf
<1>6. Resizing(p) => Resizing(p)'
    <2>1. ASSUME NEW q \in Patch, pc[q] = "capacity", input[q].plan = p
          PROVE  pc'[q] = "capacity" /\ input'[q].plan = p
        BY <1>1, <2>1 DEF OnlyMoves
    <2>2. QED
        BY <2>1, Zenon DEF Resizing
<1>7. ~Saving(p)' => ~Saving(p) \/ Honest(db, p)
    <2>1. ASSUME NEW q \in Save, pc[q] # "done", input[q].plan = p
          PROVE  Saving(p)' \/ Honest(db, p)
        <3>1. CASE q = r
            BY <2>1, <3>1, Zenon DEF Saving
        <3>2. CASE q # r
            BY <1>1, <2>1, <3>2, Zenon DEF Saving, OnlyMoves
        <3>3. QED
            BY <3>1, <3>2
    <2>2. QED
        BY <2>1, Zenon DEF Saving
<1>8. ~Saving(p) => Honest(db, p) \/ (Resizing(p) /\ db.definition[p] = db.product[p])
    BY PlanIs
<1>9. db'.definition[p] = db.definition[p] /\ db'.product[p] = db.product[p]
    BY DEF SameShelf
<1>10. QED
    BY <1>4, <1>5, <1>6, <1>7, <1>8, <1>9, Zenon DEF PlanStays

\* The step CountSlots keeps the catalog as its invariant says.
LEMMA CountSlotsShelves ==
    ASSUME IndInv, CatalogInv, NEW r \in Save, CountSlots(r)
    PROVE  CatalogInv'
<1> DEFINE p == input[r].plan
<1>1. /\ pc[r] = "count" /\ seen' = [seen EXCEPT ![r] = Total(p)]
      /\ pc' = [pc EXCEPT ![r] = "slots"] /\ UNCHANGED <<connection, input, ticketId, trouble>>
    BY DEF CountSlots, Goes
<1>2. Running(r) /\ pc[r] # "new" /\ r \notin Patch
    BY <1>1, KindsApart DEF Running
<1>3. p \in Plan /\ TypeOK /\ r \in Request /\ db' = db
    BY <1>1, <1>2, PlanInputs DEF connection
<1>4. OnlyMoves(r) /\ pc'[r] = "slots" /\ seen'[r] = Total(p)
    BY <1>1, <1>3 DEF OnlyMoves, TypeOK
<1>5. \A o : SameShelf(o, db, db')
    BY <1>3, Zenon DEF SameShelf
<1>6. NothingDoubled => SaveWork(r)'
    <2>1. SUFFICES ASSUME NothingDoubled PROVE SaveWork(r)'
        OBVIOUS
    <2>2. /\ db.definition[p] = r /\ db.product[p] = r /\ db.bucket[p].total = input[r].total
        BY <1>1, <2>1, PlanIs DEF SaveWork
    <2>3. input' = input /\ Total(p)' = Total(p)
        BY <1>1, <1>3, Zenon DEF Total
    <2>4. QED
        BY <1>3, <1>4, <2>2, <2>3 DEF SaveWork
<1>7. NothingDoubled => PlanStays(p)
    BY <1>1, <1>2, <1>4, <1>5, PlanStaysSame
<1>8. \A q \in Request \ {r} : seen'[q] = seen[q]
    BY <1>1
<1>9. QED
    BY <1>1, <1>2, <1>4, <1>5, <1>6, <1>7, <1>8, PlanMoves DEF Stays

\* One slot more, of those that are still missing.
LEMMA InsertSlotShelves ==
    ASSUME IndInv, CatalogInv, NEW r \in Request, InsertSlot(r)
    PROVE  CatalogInv'
<1> DEFINE p == input[r].plan
<1>1. PICK new : new = [db EXCEPT !.free[p] = @ + 1]
    OBVIOUS
<1>2. /\ pc[r] \in {"slots", "resize"} /\ seen[r] < input[r].total /\ Writes(r, new)
      /\ seen' = [seen EXCEPT ![r] = @ + 1] /\ UNCHANGED <<pc, input, ticketId, trouble>>
    BY <1>1 DEF InsertSlot
<1>3. r \in Save \cup Patch /\ Running(r) /\ pc[r] # "new"
    BY <1>2, KindsApart DEF IndInv, RequestsFit, Fits, Stopped, Running
<1>4. p \in Plan /\ TypeOK /\ db \in Content /\ db' = new
    BY <1>2, <1>3, PlanInputs DEF Writes
<1>5. input[r].total \in Nat
    BY <1>2, <1>3, PlanInputs, KindsApart DEF IndInv, RequestsFit, Fits, Stopped
<1>6. OnlyMoves(r) /\ seen'[r] = seen[r] + 1 /\ seen[r] \in Nat
    BY <1>2, <1>4 DEF OnlyMoves, TypeOK
<1>7. /\ db.free \in [Plan -> Nat] /\ Cardinality(db.held[p]) \in Nat
      /\ new.free = [db.free EXCEPT ![p] = @ + 1] /\ new.held = db.held
      /\ new.definition = db.definition /\ new.product = db.product /\ new.bucket = db.bucket
    BY <1>1, <1>4, ContentFields, CountsAre DEF Content
<1>8. TotalIn(new, p) = TotalIn(db, p) + 1 /\ TotalIn(db, p) \in Nat
    BY <1>4, <1>7 DEF TotalIn
<1>9. Total(p)' = TotalIn(new, p) /\ Total(p) = TotalIn(db, p)
    BY <1>2, <1>4, Zenon DEF Total, TotalIn
<1>10. \A o \in Plan : o # p => SameShelf(o, db, db')
    BY <1>1, <1>4, OtherShelves
<1>11. ASSUME NothingDoubled
       PROVE  PlanStays(p) /\ (r \in Save => SaveWork(r)') /\ (r \in Patch => PatchWork(r)')
    <2>1. (r \in Save => SaveWork(r)) /\ (r \in Patch => PatchWork(r))
        BY <1>3, <1>11, PlanIs
    <2>2. seen[r] = Total(p)
        BY <1>2, <1>3, <2>1, KindsApart DEF IndInv, RequestsFit, Fits, Stopped, SaveWork, PatchWork
    <2>3. Ordinary(db, p)'
        <3>1. input[r].total \in Ordered(p)
            BY <1>3, <1>5, ConstantsAssumption DEF Ordered
        <3>2. Ordered(p) \subseteq Ordered(p)'
            BY <1>2, <1>3, <1>4, <1>6, OrderedGrows
        <3>3. TotalIn(new, p) <= input[r].total
            BY <1>2, <1>5, <1>6, <1>8, <1>9, <2>2
        <3>4. QED
            BY <1>2, <1>4, <3>1, <3>2, <3>3 DEF Ordinary
    <2>4. Honest(db, p) => Honest(db, p)'
        <3>1. db.bucket[p] # Nobody => db.bucket[p].total \in Nat
            BY <1>4, ContentFields
        <3>2. QED
            BY <1>2, <1>4, <1>7, <1>8, <3>1 DEF Honest
    <2>5. (Saving(p)' <=> Saving(p)) /\ (Resizing(p)' <=> Resizing(p))
        BY <1>2, Zenon DEF Saving, Resizing
    <2>6. PlanStays(p)
        <3>1. ~Saving(p) => Honest(db, p) \/ (Resizing(p) /\ db.definition[p] = db.product[p])
            BY <1>3, <1>11, PlanIs
        <3>2. p' = p
            BY <1>2
        <3>3. /\ db'.definition[p] = db.definition[p] /\ db'.product[p] = db.product[p]
              /\ ~Saving(p)' =>
                    Honest(db, p)' \/ (Resizing(p)' /\ db'.definition[p] = db'.product[p])
            BY <1>4, <1>7, <2>4, <2>5, <3>1, <3>2, Zenon
        <3>4. QED
            BY <2>3, <3>2, <3>3, Zenon DEF PlanStays
    <2>7. r \in Save => SaveWork(r)'
        BY <1>2, <1>3, <1>4, <1>6, <1>7, <1>8, <1>9, <2>1, <2>2, KindsApart
        DEF SaveWork, IndInv, RequestsFit, Fits, Stopped
    <2>8. r \in Patch => PatchWork(r)'
        BY <1>2, <1>3, <1>4, <1>6, <1>8, <1>9, <2>2, KindsApart
        DEF PatchWork, IndInv, RequestsFit, Fits, Stopped
    <2>9. QED
        BY <2>6, <2>7, <2>8
<1>12. Stays(r) /\ \A q \in Request \ {r} : seen'[q] = seen[q]
    BY <1>2, <1>4 DEF Stays
<1>13. Running(r)' /\ pc'[r] \notin {"new", "done"}
    BY <1>2, <1>3 DEF Running
<1>14. QED
    BY <1>2, <1>3, <1>6, <1>10, <1>11, <1>12, <1>13, PlanMoves

\* The step EnoughSlots keeps the catalog as its invariant says.
LEMMA EnoughSlotsShelves ==
    ASSUME IndInv, CatalogInv, NEW r \in Request, EnoughSlots(r)
    PROVE  CatalogInv'
<1> DEFINE p == input[r].plan
           s == IF pc[r] = "slots" THEN "audit" ELSE "capacity"
<1>1. /\ pc[r] \in {"slots", "resize"} /\ pc' = [pc EXCEPT ![r] = s]
      /\ pc[r] = "slots" => seen[r] >= input[r].total
      /\ pc[r] = "resize" => seen[r] = input[r].total
      /\ UNCHANGED <<connection, input, ticketId, seen, trouble>>
    BY DEF EnoughSlots, Skips, Goes
<1>2. /\ r \in Save \cup Patch /\ Running(r) /\ pc[r] # "new"
      /\ r \in Save <=> pc[r] = "slots"
    BY <1>1, KindsApart DEF IndInv, RequestsFit, Fits, Stopped, Running
<1>3. p \in Plan /\ TypeOK /\ db \in Content /\ db' = db
    BY <1>1, <1>2, PlanInputs DEF connection
<1>4. OnlyMoves(r) /\ pc'[r] = s /\ seen[r] \in Nat
    BY <1>1, <1>3 DEF OnlyMoves, TypeOK
<1>5. \A o : SameShelf(o, db, db')
    BY <1>3, Zenon DEF SameShelf
<1>6. Total(p)' = Total(p) /\ Total(p) = TotalIn(db, p) /\ TotalIn(db, p) \in Nat
    <2>1. Total(p)' = Total(p)
        BY <1>1, <1>3, Zenon DEF Total
    <2>2. QED
        BY <1>3, <2>1, CountsAre DEF Total, TotalIn
<1>7. NothingDoubled => (r \in Save => SaveWork(r)') /\ (r \in Patch => PatchWork(r)')
    <2>1. SUFFICES ASSUME NothingDoubled
                   PROVE  (r \in Save => SaveWork(r)') /\ (r \in Patch => PatchWork(r)')
        OBVIOUS
    <2>2. (r \in Save => SaveWork(r)) /\ (r \in Patch => PatchWork(r))
        BY <1>2, <2>1, PlanIs
    <2>3. ASSUME r \in Save PROVE SaveWork(r)'
        <3>1. /\ db.definition[p] = r /\ db.product[p] = r
              /\ db.bucket[p].total = input[r].total /\ seen[r] = Total(p)
            BY <1>2, <2>2, <2>3 DEF SaveWork
        <3>2. Honest(db, p)
            BY <1>1, <1>2, <1>6, <2>3, <3>1 DEF Honest
        <3>3. pc'[r] = "audit" /\ input' = input
            BY <1>1, <1>2, <1>4, <2>3
        <3>4. Honest(db, p)'
            BY <1>3, <3>2, <3>3, Zenon
        <3>5. QED
            BY <3>3, <3>4 DEF SaveWork
    <2>4. ASSUME r \in Patch PROVE PatchWork(r)'
        <3>1. pc[r] = "resize"
            BY <1>1, <1>2, <2>4, KindsApart
        <3>2. input[r].total <= Total(p)
            BY <1>1, <1>6, <2>2, <2>4, <3>1 DEF PatchWork
        <3>3. pc'[r] = "capacity" /\ input' = input
            BY <1>1, <1>4, <3>1
        <3>4. QED
            BY <1>6, <3>2, <3>3 DEF PatchWork
    <2>5. QED
        BY <2>3, <2>4
<1>8. NothingDoubled => PlanStays(p)
    BY <1>1, <1>2, <1>4, <1>5, PlanStaysSame
<1>9. Stays(r) /\ pc'[r] \notin {"new", "done"}
    BY <1>1, <1>4 DEF Stays
<1>10. QED
    BY <1>1, <1>2, <1>4, <1>5, <1>7, <1>8, <1>9, PlanMoves

\* The step ReadCounts keeps the catalog as its invariant says.
LEMMA ReadCountsShelves ==
    ASSUME IndInv, CatalogInv, NEW r \in Patch, ReadCounts(r)
    PROVE  CatalogInv'
<1>1. pc[r] = "counts" /\ Running(r) /\ pc[r] # "new" /\ r \notin Save
    BY KindsApart DEF ReadCounts, Running
<1>2. PICK p \in Plan : p = input[r].plan
    BY <1>1, PlanInputs
<1>3. PICK total : total = IF input[r].total = Keep THEN Total(p) ELSE input[r].total
    OBVIOUS
<1>4. PICK s \in {"rollback", "resize"} : pc' = [pc EXCEPT ![r] = s]
    BY <1>2, <1>3 DEF ReadCounts, Goes
<1>5. /\ input' = [input EXCEPT ![r].total = total] /\ seen' = [seen EXCEPT ![r] = Total(p)]
      /\ UNCHANGED <<connection, ticketId, trouble>>
    BY <1>2, <1>3 DEF ReadCounts
<1>6. TypeOK /\ r \in Request /\ db' = db
    BY <1>1, <1>5, PlanInputs DEF connection
<1>7. OnlyMoves(r) /\ pc'[r] = s /\ seen'[r] = Total(p)
    BY <1>4, <1>5, <1>6 DEF OnlyMoves, TypeOK
<1>8. input'[r].plan = p /\ (input[r].total = Keep \/ input'[r].total = input[r].total)
    BY <1>2, <1>3, <1>5, <1>6 DEF TypeOK, Input
<1>9. \A o : SameShelf(o, db, db')
    BY <1>6, Zenon DEF SameShelf
<1>10. PatchWork(r)'
    <2>1. Total(p)' = Total(p)
        BY <1>6, Zenon DEF Total
    <2>2. QED
        BY <1>7, <1>8, <2>1 DEF PatchWork
<1>11. NothingDoubled => PlanStays(input[r].plan)
    BY <1>1, <1>2, <1>7, <1>8, <1>9, PlanStaysSame
<1>12. Stays(r) /\ pc'[r] \notin {"new", "done"} /\ \A q \in Request \ {r} : seen'[q] = seen[q]
    BY <1>5, <1>7 DEF Stays
<1>13. QED
    BY <1>1, <1>2, <1>5, <1>7, <1>8, <1>9, <1>10, <1>11, <1>12, PlanMoves

\* No more slots are deleted than are too many, and the bucket is about to be changed.
LEMMA DeleteSlotsShelves ==
    ASSUME IndInv, CatalogInv, NEW r \in Patch, DeleteSlots(r)
    PROVE  CatalogInv'
<1>1. pc[r] = "resize" /\ Running(r) /\ pc[r] # "new" /\ r \notin Save /\ seen[r] > input[r].total
    BY KindsApart DEF DeleteSlots, Running
<1>2. PICK p \in Plan : p = input[r].plan
    BY <1>1, PlanInputs
<1>3. TypeOK /\ db \in Content /\ r \in Request
    BY <1>1, PlanInputs
<1>4. seen[r] \in Nat /\ input[r].total \in Nat
    BY <1>1, <1>3, KindsApart DEF TypeOK, IndInv, RequestsFit, Fits, Stopped
<1>5. PICK n : n = IF db.free[p] < seen[r] - input[r].total THEN 0
                   ELSE db.free[p] - (seen[r] - input[r].total)
    OBVIOUS
<1>6. PICK new : new = [db EXCEPT !.free[p] = n]
    OBVIOUS
<1>7. Does(r, new, "capacity")
    BY <1>2, <1>5, <1>6 DEF DeleteSlots
<1>8. /\ pc' = [pc EXCEPT ![r] = "capacity"] /\ Writes(r, new) /\ db' = new
      /\ UNCHANGED <<input, ticketId, seen, trouble>>
    BY <1>7 DEF Does, Goes, Writes
<1>9. OnlyMoves(r) /\ pc'[r] = "capacity"
    BY <1>3, <1>8 DEF OnlyMoves, TypeOK
<1>10. /\ db.free \in [Plan -> Nat] /\ Cardinality(db.held[p]) \in Nat
       /\ new.free = [db.free EXCEPT ![p] = n] /\ new.held = db.held
       /\ new.definition = db.definition /\ new.product = db.product
    BY <1>3, <1>6, ContentFields, CountsAre DEF Content
<1>11. TotalIn(new, p) = n + Cardinality(db.held[p]) /\ Total(p)' = TotalIn(new, p)
       /\ Total(p) = db.free[p] + Cardinality(db.held[p]) /\ TotalIn(db, p) = Total(p)
    BY <1>8, <1>10 DEF TotalIn, Total
<1>12. \A o \in Plan : o # p => SameShelf(o, db, db')
    BY <1>3, <1>6, <1>8, OtherShelves
<1>13. ASSUME NothingDoubled
       PROVE  PlanStays(p) /\ PatchWork(r)'
    <2>1. seen[r] = Total(p)
        BY <1>1, <1>2, <1>13, PlanIs DEF PatchWork
    <2>2. TotalIn(new, p) <= Total(p) /\ input[r].total <= TotalIn(new, p)
          /\ Total(p) \in Nat /\ TotalIn(new, p) \in Nat
        BY <1>1, <1>4, <1>5, <1>10, <1>11, <2>1
    <2>3. Ordinary(db, p)'
        <3>1. PICK m \in Ordered(p) : TotalIn(db, p) <= m
            BY <1>1, <1>2, <1>13, PlanIs DEF Ordinary
        <3>2. Ordered(p)' = Ordered(p)
            BY <1>8, Zenon DEF Ordered
        <3>3. m \in Nat
            BY <3>1, ConstantsAssumption, KindsApart, <1>3 DEF Ordered, TypeOK, Input
        <3>4. TotalIn(new, p) <= m
            BY <1>11, <2>2, <3>1, <3>3
        <3>5. QED
            BY <1>8, <3>1, <3>2, <3>4 DEF Ordinary
    <2>4. Resizing(p)'
        BY <1>2, <1>8, <1>9 DEF Resizing
    <2>5. Saving(p)' <=> Saving(p)
        <3>1. \A q \in Save : pc'[q] = pc[q] /\ input'[q] = input[q]
            BY <1>1, <1>8, <1>9, KindsApart DEF OnlyMoves
        <3>2. QED
            BY <3>1 DEF Saving
    <2>6. ~Saving(p) => db.definition[p] = db.product[p]
        BY <1>1, <1>2, <1>13, PlanIs DEF Honest
    <2>7. PlanStays(p)
        BY <1>8, <1>10, <2>3, <2>4, <2>5, <2>6, Zenon DEF PlanStays
    <2>8. PatchWork(r)'
        BY <1>2, <1>8, <1>9, <1>11, <2>2 DEF PatchWork
    <2>9. QED
        BY <2>7, <2>8
<1>14. Stays(r) /\ pc'[r] # "new" /\ Running(r)' /\ input' = input /\ seen' = seen
    BY <1>8, <1>9 DEF Stays, Running
<1>15. QED
    BY <1>1, <1>2, <1>8, <1>9, <1>12, <1>13, <1>14, PlanMoves

\* The bucket promises what the resizing has left.
LEMMA UpdateBucketShelves ==
    ASSUME IndInv, CatalogInv, NEW r \in Patch, UpdateBucket(r)
    PROVE  CatalogInv'
<1>1. pc[r] = "capacity" /\ Running(r) /\ pc[r] # "new" /\ r \notin Save
    BY KindsApart DEF UpdateBucket, Running
<1>2. PICK p \in Plan : p = input[r].plan
    BY <1>1, PlanInputs
<1>3. TypeOK /\ db \in Content /\ r \in Request
    BY <1>1, PlanInputs
<1>4. PICK row : row = [total |-> input[r].total, open |-> input[r].flag]
    OBVIOUS
<1>5. PICK bucket : bucket = [db EXCEPT !.bucket[p] = row]
    OBVIOUS
<1>6. PICK new : new = IF db.bucket[p] = Nobody THEN db ELSE bucket
    OBVIOUS
<1>7. Does(r, new, "commit")
    BY <1>2, <1>4, <1>5, <1>6 DEF UpdateBucket
<1>8. /\ pc' = [pc EXCEPT ![r] = "commit"] /\ Writes(r, new) /\ db' = new
      /\ UNCHANGED <<input, ticketId, seen, trouble>>
    BY <1>7 DEF Does, Goes, Writes
<1>9. OnlyMoves(r) /\ pc'[r] = "commit"
    BY <1>3, <1>8 DEF OnlyMoves, TypeOK
<1>10. /\ new.free = db.free /\ new.held = db.held
       /\ new.definition = db.definition /\ new.product = db.product
       /\ \/ db.bucket[p] = Nobody /\ new.bucket[p] = Nobody
          \/ new.bucket[p] = row
    <2>1. db.bucket \in [Plan -> [total : Nat, open : BOOLEAN] \cup {Nobody}]
        BY <1>3, ContentFields
    <2>2. /\ bucket.free = db.free /\ bucket.held = db.held
          /\ bucket.definition = db.definition /\ bucket.product = db.product
          /\ bucket.bucket = [db.bucket EXCEPT ![p] = row]
        BY <1>3, <1>5 DEF Content
    <2>3. QED
        BY <1>6, <2>1, <2>2
<1>11. TotalIn(new, p) = TotalIn(db, p) /\ Total(p) = TotalIn(db, p)
    BY <1>10 DEF TotalIn, Total
<1>12. \A o \in Plan : o # p => SameShelf(o, db, db')
    <2>1. \A o \in Plan : o # p => SameShelf(o, db, bucket)
        BY <1>3, <1>5, OtherShelves
    <2>2. \A o : SameShelf(o, db, db)
        BY Zenon DEF SameShelf
    <2>3. QED
        BY <1>6, <1>8, <2>1, <2>2
<1>13. NothingDoubled => PlanStays(p)
    <2>1. SUFFICES ASSUME NothingDoubled PROVE PlanStays(p)
        OBVIOUS
    <2>2. input[r].total <= TotalIn(db, p)
        BY <1>1, <1>2, <1>11, <2>1, PlanIs DEF PatchWork
    <2>3. Ordinary(db, p)'
        <3>1. Ordered(p)' = Ordered(p)
            BY <1>8, Zenon DEF Ordered
        <3>2. Ordinary(db, p)
            BY <1>1, <1>2, <2>1, PlanIs
        <3>3. QED
            BY <1>8, <1>11, <3>1, <3>2 DEF Ordinary
    <2>4. Saving(p)' <=> Saving(p)
        <3>1. \A q \in Save : pc'[q] = pc[q] /\ input'[q] = input[q]
            BY <1>1, <1>8, <1>9, KindsApart DEF OnlyMoves
        <3>2. QED
            BY <3>1 DEF Saving
    <2>5. ~Saving(p) => db.definition[p] = db.product[p]
        BY <1>1, <1>2, <2>1, PlanIs DEF Honest
    <2>6. new.bucket[p] = Nobody \/ new.bucket[p].total <= TotalIn(new, p)
        BY <1>4, <1>10, <1>11, <2>2
    <2>7. ~Saving(p)' => Honest(db, p)'
        BY <1>8, <1>10, <2>4, <2>5, <2>6, Zenon DEF Honest
    <2>8. QED
        BY <2>3, <2>7, Zenon DEF PlanStays
<1>14. PatchWork(r)'
    BY <1>9 DEF PatchWork
<1>15. Stays(r) /\ pc'[r] # "new" /\ Running(r)' /\ input' = input /\ seen' = seen
    BY <1>8, <1>9 DEF Stays, Running
<1>16. QED
    BY <1>1, <1>2, <1>8, <1>9, <1>12, <1>13, <1>14, <1>15, PlanMoves

\* A save is over when its action is recorded; by then its plan is in order.
LEMMA RecordActionShelves ==
    ASSUME IndInv, CatalogInv, NEW r \in Request, RecordAction(r)
    PROVE  CatalogInv'
<1>1. PICK new : new = [db EXCEPT !.audit = @ \cup {r}]
    OBVIOUS
<1>2. pc[r] = "audit" /\ Does(r, new, "done")
    BY <1>1 DEF RecordAction
<1>3. TypeOK /\ db \in Content
    BY DEF IndInv, TypeOK, ConnectionTypeOK
<1>4. \A o : SameShelf(o, db, new)
    BY <1>1, <1>3, SameCatalog DEF Content
<1>5. CASE r \in Outside
    BY <1>2, <1>4, <1>5, DoesOutside
<1>6. CASE r \notin Outside
    <2>1. r \in Save \cup Patch /\ Running(r) /\ pc[r] # "new"
        BY <1>2, <1>6 DEF Outside, Running
    <2>2. /\ pc' = [pc EXCEPT ![r] = "done"] /\ Writes(r, new) /\ db' = new
          /\ UNCHANGED <<input, ticketId, seen, trouble>>
        BY <1>2 DEF Does, Goes, Writes
    <2>3. OnlyMoves(r) /\ pc'[r] = "done"
        BY <1>3, <2>2 DEF OnlyMoves, TypeOK
    <2>4. SaveWork(r)' /\ PatchWork(r)'
        BY <2>3 DEF SaveWork, PatchWork
    <2>5. input[r].plan \in Plan
        BY <2>1, PlanInputs
    <2>6. NothingDoubled => PlanStays(input[r].plan)
        <3>1. NothingDoubled => (r \in Save => Honest(db, input[r].plan))
            BY <1>2, <2>1, PlanIs DEF SaveWork
        <3>2. SameShelf(input[r].plan, db, db')
            BY <1>4, <2>2
        <3>3. QED
            BY <1>2, <2>1, <2>2, <2>3, <3>1, <3>2, PlanStaysSame
    <2>7. Stays(r) /\ pc'[r] # "new" /\ \A o : SameShelf(o, db, db')
        BY <1>4, <2>2, <2>3 DEF Stays
    <2>8. QED
        BY <2>1, <2>2, <2>3, <2>4, <2>5, <2>6, <2>7, PlanMoves
<1>7. QED
    BY <1>5, <1>6

\* The step QueueMail keeps the catalog as its invariant says.
LEMMA QueueMailShelves ==
    ASSUME IndInv, CatalogInv, NEW r \in Request, QueueMail(r)
    PROVE  CatalogInv'
<1>1. pc[r] = "mail"
    BY DEF QueueMail
<1>2. r \in Outside /\ db \in Content
    BY <1>1, KindsApart DEF Outside, IndInv, RequestsFit, Fits, Stopped, TypeOK, ConnectionTypeOK
<1>3. PICK new : new = [db EXCEPT !.mail = @ \cup {<<ticketId[r], r>>}]
    OBVIOUS
<1>4. \A o : SameShelf(o, db, new)
    BY <1>2, <1>3, SameCatalog DEF Content
<1>5. Attaches(r, new, "done", "failed")
    BY <1>3 DEF QueueMail
<1>6. QED
    BY <1>2, <1>4, <1>5, AttachesOutside

\* A transaction begins or ends and changes nothing of the tables.
LEMMA ShelvesAsBefore ==
    ASSUME IndInv, CatalogInv, NEW r \in Request, r \notin Save, OnlyMoves(r), Running(r),
           pc[r] # "capacity", pc'[r] \notin {"new", "resize", "capacity"},
           db' = db, input' = input, seen' = seen, trouble' = trouble
    PROVE  NewIsBlank' /\ PlansApart' /\ ShelvesFit'
<1>1. Save \cup Patch \subseteq Request
    BY KindsApart
<1>2. \A q \in Request : q # r => pc'[q] = pc[q]
    BY DEF OnlyMoves
<1>3. \A q \in Request : Running(q)' => Running(q)
    BY <1>2 DEF Running
<1>4. NothingDoubled' <=> NothingDoubled
    BY Zenon DEF NothingDoubled
<1>5. NewIsBlank'
    BY <1>2, Zenon DEF CatalogInv, NewIsBlank
<1>6. PlansApart'
    <2>1. SUFFICES ASSUME NothingDoubled, NEW q \in Save \cup Patch, NEW s \in Save \cup Patch,
                          q # s, Running(q)', Running(s)'
                   PROVE  input[q].plan # input[s].plan
        BY <1>4, Zenon DEF PlansApart
    <2>2. Running(q) /\ Running(s)
        BY <1>1, <1>3, <2>1
    <2>3. QED
        BY <2>1, <2>2, Zenon DEF CatalogInv, PlansApart
<1>7. ShelvesFit'
    <2>1. SUFFICES ASSUME NothingDoubled
                   PROVE  /\ \A q \in Save : SaveWork(q)'
                          /\ \A q \in Patch : PatchWork(q)'
                          /\ \A p \in Plan : PlanStays(p)
        BY <1>4, Zenon DEF ShelvesFit, PlanStays
    <2>2. \A p : SameShelf(p, db, db')
        BY Zenon DEF SameShelf
    <2>3. ASSUME NEW q \in Save PROVE SaveWork(q)'
        <3>1. SaveWork(q)
            BY <2>1, PlanIs
        <3>2. q \in Request /\ pc'[q] = pc[q]
            BY <1>1, <1>2
        <3>3. QED
            BY <2>2, <3>1, <3>2, WorkStays
    <2>4. ASSUME NEW q \in Patch PROVE PatchWork(q)'
        <3>1. PatchWork(q)
            BY <2>1, PlanIs
        <3>2. CASE q # r
            <4>1. q \in Request /\ pc'[q] = pc[q]
                BY <1>1, <1>2, <3>2
            <4>2. QED
                BY <2>2, <3>1, <4>1, WorkStays
        <3>3. CASE q = r
            BY <3>3 DEF PatchWork
        <3>4. QED
            BY <3>2, <3>3
    <2>5. ASSUME NEW p \in Plan PROVE PlanStays(p)
        <3>1. /\ Ordinary(db, p)
              /\ ~Saving(p) =>
                    Honest(db, p) \/ (Resizing(p) /\ db.definition[p] = db.product[p])
            BY <2>1, Zenon DEF CatalogInv, ShelvesFit
        <3>2. Ordinary(db, p)' <=> Ordinary(db, p)
            BY Zenon DEF Ordinary, Ordered
        <3>3. Honest(db, p)' <=> Honest(db, p)
            BY Zenon
        <3>4. Saving(p)' <=> Saving(p)
            <4>1. \A q \in Save : pc'[q] = pc[q]
                BY <1>1, <1>2
            <4>2. QED
                BY <4>1 DEF Saving
        <3>5. Resizing(p) => Resizing(p)'
            <4>1. ASSUME NEW q \in Patch, pc[q] = "capacity" PROVE pc'[q] = "capacity"
                BY <1>1, <1>2, <4>1
            <4>2. QED
                BY <4>1, Zenon DEF Resizing
        <3>6. QED
            BY <3>1, <3>2, <3>3, <3>4, <3>5, Zenon DEF PlanStays
    <2>6. QED
        BY <2>3, <2>4, <2>5
<1>8. QED
    BY <1>5, <1>6, <1>7

\* Once transactions have collided nothing is said of the catalog any more.
LEMMA MixedShelves ==
    ASSUME ~NothingDoubled', NewIsBlank'
    PROVE  CatalogInv'
BY Zenon DEF CatalogInv, PlansApart, ShelvesFit, KeptShelvesFit

\* Outside of a transaction no bucket is half changed.
LEMMA NobodyResizes ==
    ASSUME IndInv, CatalogInv, NothingDoubled, ~Open, NEW p \in Plan
    PROVE  /\ ~Resizing(p)
           /\ ~Saving(p) => Honest(db, p)
<1>1. ASSUME NEW q \in Patch, pc[q] = "capacity"
      PROVE  FALSE
    <2>1. q \in Request /\ NothingMixed
        BY KindsApart DEF NothingDoubled, NothingMixed
    <2>2. opener = q
        BY <1>1, <2>1 DEF IndInv, OwnTransaction, InTransaction
    <2>3. QED
        BY <2>1, <2>2, NobodyAssumption DEF Open
<1>2. ~Resizing(p)
    BY <1>1 DEF Resizing
<1>3. QED
    BY <1>2, Zenon DEF CatalogInv, ShelvesFit

\* The step Begin keeps the catalog as its invariant says.
LEMMA BeginShelves ==
    ASSUME IndInv, CatalogInv, NEW r \in Request, Begin(r)
    PROVE  CatalogInv'
<1>1. /\ pc[r] = "begin" /\ UNCHANGED <<input, ticketId, seen>> /\ TypeOK
      /\ pc \in [Request -> Step]
    BY DEF Begin, IndInv, TypeOK
<1>2. r \in Ticket \cup Patch \cup Checkout
    BY <1>1, TransactionKinds
<1>3. r \notin Save /\ Running(r)
    BY <1>1, <1>2, KindsApart DEF Running
<1>4. CASE BeginFails /\ Meets("mixed")
    <2>1. PICK s \in {"failed", "rollback"} : pc' = [pc EXCEPT ![r] = s]
        <3>1. ~Begins(r)
            BY <1>4 DEF BeginFails, Begins
        <3>2. QED
            BY <3>1 DEF Begin, Goes
    <2>2. OnlyMoves(r) /\ pc'[r] # "new"
        BY <1>1, <2>1 DEF OnlyMoves
    <2>3. NewIsBlank'
        BY <2>2, Zenon DEF CatalogInv, NewIsBlank, OnlyMoves
    <2>4. ~NothingDoubled'
        BY <1>4 DEF NothingDoubled, Meets
    <2>5. QED
        BY <2>3, <2>4, MixedShelves
<1>5. CASE Begins(r) /\ trouble' = trouble
    <2>1. ~Open /\ kept' = db /\ opener' = r /\ db' = db /\ writers' = writers
        BY <1>5 DEF Begins
    <2>2. PICK s : s = CASE r \in Ticket -> "ticket" [] r \in Patch -> "counts"
                         [] r \in Checkout -> "claim"
        OBVIOUS
    <2>3. s \in {"ticket", "counts", "claim"}
        BY <1>2, <2>2
    <2>4. pc' = [pc EXCEPT ![r] = s]
        <3>1. ~BeginFails
            BY <2>1 DEF BeginFails
        <3>2. QED
            BY <2>2, <3>1 DEF Begin, Goes
    <2>5. OnlyMoves(r) /\ pc'[r] = s
        BY <1>1, <2>4 DEF OnlyMoves
    <2>6. NewIsBlank' /\ PlansApart' /\ ShelvesFit'
        BY <1>1, <1>3, <1>5, <2>1, <2>3, <2>5, ShelvesAsBefore
    <2>7. KeptShelvesFit'
        <3>1. SUFFICES ASSUME NothingDoubled', NEW p \in Plan
                       PROVE  /\ Ordinary(kept, p)'
                              /\ ~Saving(p)' => Honest(kept, p)'
                              /\ SameShelf(p, db', kept')
            BY Zenon DEF KeptShelvesFit
        <3>2. NothingDoubled
            BY <1>5, <3>1, Zenon DEF NothingDoubled
        <3>3. Ordinary(db, p) /\ (~Saving(p) => Honest(db, p))
            BY <2>1, <3>2, NobodyResizes, Zenon DEF CatalogInv, ShelvesFit
        <3>4. Ordinary(kept, p)'
            <4>1. Ordered(p)' = Ordered(p)
                BY <1>1, Zenon DEF Ordered
            <4>2. QED
                BY <2>1, <3>3, <4>1 DEF Ordinary
        <3>5. Saving(p)' <=> Saving(p)
            <4>1. \A q \in Save : pc'[q] = pc[q]
                BY <1>3, <2>5, KindsApart DEF OnlyMoves
            <4>2. QED
                BY <1>1, <4>1 DEF Saving
        <3>6. (Honest(kept, p))' <=> Honest(db, p)
            BY <2>1, Zenon
        <3>7. SameShelf(p, db', kept')
            BY <2>1, Zenon DEF SameShelf
        <3>8. QED
            BY <3>3, <3>4, <3>5, <3>6, <3>7
    <2>8. QED
        BY <2>6, <2>7, Zenon DEF CatalogInv
<1>6. QED
    BY <1>4, <1>5, Zenon DEF Begin

\* The step Commit keeps the catalog as its invariant says.
LEMMA CommitShelves ==
    ASSUME IndInv, CatalogInv, NEW r \in Request, Commit(r)
    PROVE  CatalogInv'
<1>1. /\ pc[r] = "commit" /\ UNCHANGED <<input, ticketId, seen, trouble>> /\ TypeOK
      /\ pc \in [Request -> Step]
    BY DEF Commit, IndInv, TypeOK
<1>2. r \in Ticket \cup Patch \cup Checkout
    BY <1>1, TransactionKinds
<1>3. r \notin Save /\ Running(r)
    BY <1>1, <1>2, KindsApart DEF Running
<1>4. db' = db /\ ~Open'
    <2>1. CASE CommitFails
        BY <2>1 DEF CommitFails, connection, Open
    <2>2. CASE Commits
        BY <2>2 DEF Commits, Ends, Open
    <2>3. QED
        BY <2>1, <2>2 DEF Commit
<1>5. PICK s \in {"mail", "audit", "done", "rollback"} : pc' = [pc EXCEPT ![r] = s]
    <2>1. CASE CommitFails /\ Goes(r, "rollback")
        BY <2>1 DEF Goes
    <2>2. CASE ~(CommitFails /\ Goes(r, "rollback"))
        <3>1. PICK s : s = CASE r \in Ticket -> "mail" [] r \in Patch -> "audit"
                             [] r \in Checkout -> "done"
            OBVIOUS
        <3>2. s \in {"mail", "audit", "done"}
            BY <1>2, <3>1
        <3>3. QED
            BY <2>2, <3>1, <3>2 DEF Commit, Goes
    <2>3. QED
        BY <2>1, <2>2
<1>6. OnlyMoves(r) /\ pc'[r] = s
    BY <1>1, <1>5 DEF OnlyMoves
<1>7. NewIsBlank' /\ PlansApart' /\ ShelvesFit'
    BY <1>1, <1>3, <1>4, <1>6, ShelvesAsBefore
<1>8. KeptShelvesFit'
    BY <1>4, Zenon DEF KeptShelvesFit
<1>9. QED
    BY <1>7, <1>8, Zenon DEF CatalogInv

\* Undoing a transaction of its own undoes what a request has done to its plan.
LEMMA RollbackShelves ==
    ASSUME IndInv, CatalogInv, NEW r \in Request, Rollback(r)
    PROVE  CatalogInv'
<1>1. /\ pc[r] \in {"rollback", "refused"} /\ UNCHANGED <<input, ticketId, seen>> /\ TypeOK
      /\ pc \in [Request -> Step]
    BY DEF Rollback, IndInv, TypeOK
<1>2. r \notin Save /\ Running(r) /\ Save \cup Patch \subseteq Request
    BY <1>1, KindsApart DEF IndInv, RequestsFit, Fits, Stopped, Running
<1>3. PICK s \in {"clean", "failed"} : pc' = [pc EXCEPT ![r] = s]
    BY DEF Rollback, Goes
<1>4. OnlyMoves(r) /\ pc'[r] = s
    BY <1>1, <1>3 DEF OnlyMoves
<1>5. NewIsBlank'
    BY <1>4, Zenon DEF CatalogInv, NewIsBlank, OnlyMoves
<1>6. CASE NothingDoubled'
    <2>1. writers \subseteq {r} /\ trouble' = trouble
        BY <1>6 DEF Rollback, Meets, HurtsOthers, NothingDoubled
    <2>2. NothingDoubled /\ NothingMixed
        BY <1>6, <2>1 DEF NothingDoubled, NothingMixed
    <2>3. opener = r /\ Open
        BY <1>1, <2>2, NobodyAssumption DEF IndInv, OwnTransaction, InTransaction, Open
    <2>4. db' = kept /\ ~Open'
        BY <2>3, NobodyAssumption DEF Rollback, RollsBack, Undone, Ends, Open
    <2>5. ASSUME NEW p \in Plan
          PROVE  /\ Ordinary(kept, p)
                 /\ ~Saving(p) => Honest(kept, p)
                 /\ r \notin Patch \/ p # input[r].plan => SameShelf(p, db, kept)
        BY <2>1, <2>2, <2>3, Zenon DEF CatalogInv, KeptShelvesFit
    <2>6. \A q \in Request : q # r => pc'[q] = pc[q]
        BY <1>4 DEF OnlyMoves
    <2>7. \A q \in Save \cup Patch : Running(q)' => Running(q)
        BY <1>2, <2>6 DEF Running
    <2>8. PlansApart'
        <3>1. SUFFICES ASSUME NEW q \in Save \cup Patch, NEW t \in Save \cup Patch,
                              q # t, Running(q)', Running(t)'
                       PROVE  input[q].plan # input[t].plan
            BY <1>1, Zenon DEF PlansApart
        <3>2. Running(q) /\ Running(t)
            BY <2>7, <3>1
        <3>3. QED
            BY <2>2, <3>1, <3>2, Zenon DEF CatalogInv, PlansApart
    <2>9. ASSUME NEW q \in Save \cup Patch
          PROVE  (q \in Save => SaveWork(q)') /\ (q \in Patch => PatchWork(q)')
        <3>1. CASE q = r
            BY <1>2, <1>4, <3>1 DEF PatchWork
        <3>2. CASE q # r /\ Running(q)
            <4>1. pc[q] # "new"
                BY <3>2 DEF Running
            <4>2. input[q].plan \in Plan
                BY <4>1, PlanInputs
            <4>3. r \in Patch => input[q].plan # input[r].plan
                BY <1>2, <2>2, <3>2, Zenon DEF CatalogInv, PlansApart
            <4>4. SameShelf(input[q].plan, db, db')
                BY <2>4, <2>5, <4>2, <4>3
            <4>5. (q \in Save => SaveWork(q)) /\ (q \in Patch => PatchWork(q))
                BY <2>2, PlanIs
            <4>6. q \in Request /\ pc'[q] = pc[q] /\ input'[q] = input[q] /\ seen'[q] = seen[q]
                BY <1>1, <1>2, <2>6, <3>2
            <4>7. QED
                BY <4>4, <4>5, <4>6, WorkStays
        <3>3. CASE q # r /\ ~Running(q)
            BY <1>2, <2>6, <3>3 DEF Running, SaveWork, PatchWork
        <3>4. QED
            BY <3>1, <3>2, <3>3
    <2>10. ASSUME NEW p \in Plan PROVE PlanStays(p)
        <3>1. Ordinary(db, p)'
            <4>1. Ordered(p)' = Ordered(p)
                BY <1>1, Zenon DEF Ordered
            <4>2. QED
                BY <2>4, <2>5, <4>1 DEF Ordinary
        <3>2. Saving(p)' <=> Saving(p)
            <4>1. \A q \in Save : pc'[q] = pc[q]
                BY <1>2, <2>6
            <4>2. QED
                BY <1>1, <4>1 DEF Saving
        <3>3. (Honest(db, p))' <=> Honest(kept, p)
            BY <2>4, Zenon
        <3>4. QED
            BY <2>5, <3>1, <3>2, <3>3 DEF PlanStays
    <2>11. ShelvesFit'
        BY <2>9, <2>10, Zenon DEF ShelvesFit, PlanStays
    <2>12. KeptShelvesFit'
        BY <2>4, Zenon DEF KeptShelvesFit
    <2>13. QED
        BY <1>5, <2>8, <2>11, <2>12, Zenon DEF CatalogInv
<1>7. CASE ~NothingDoubled'
    BY <1>5, <1>7, MixedShelves
<1>8. QED
    BY <1>6, <1>7

\* The seeds leave the other plans alone, and the launch plan as it should be.
LEMMA SeedsShelves ==
    ASSUME NEW c \in Content, NEW p \in Plan, Ordinary(c, p)
    PROVE  /\ Ordinary(Seeded(c), p)
           /\ p = Launch \/ Honest(c, p) => Honest(Seeded(c), p)
<1>1. PICK present : present = c.free[Launch] + Cardinality(c.held[Launch])
    OBVIOUS
<1>2. PICK slots : slots = IF present < LaunchSlots THEN c.free[Launch] + (LaunchSlots - present)
                           ELSE c.free[Launch]
    OBVIOUS
<1>3. PICK row : row = [total |-> LaunchSlots, open |-> TRUE]
    OBVIOUS
<1>4. PICK d : d = Seeded(c)
    OBVIOUS
<1>5. d = [c EXCEPT !.definition[Launch] = Seed, !.product[Launch] = Seed,
                    !.bucket[Launch] = row, !.group = TRUE, !.target = TRUE,
                    !.free[Launch] = slots]
    BY <1>1, <1>2, <1>3, <1>4 DEF Seeded
<1>6. /\ d.definition = [c.definition EXCEPT ![Launch] = Seed]
      /\ d.product = [c.product EXCEPT ![Launch] = Seed]
      /\ d.bucket = [c.bucket EXCEPT ![Launch] = row]
      /\ d.free = [c.free EXCEPT ![Launch] = slots]
      /\ d.held = c.held
    BY <1>5 DEF Content
<1>7. /\ c.definition \in [Plan -> Save \cup {Seed, Nobody}]
      /\ c.product \in [Plan -> Save \cup {Seed, Nobody}]
      /\ c.bucket \in [Plan -> [total : Nat, open : BOOLEAN] \cup {Nobody}]
      /\ c.free \in [Plan -> Nat] /\ Launch \in Plan /\ LaunchSlots \in Nat
    BY ContentFields, ConstantsAssumption
<1>8. CASE p # Launch
    <2>1. SameShelf(p, c, d)
        <3>1. /\ c.definition[p] = d.definition[p] /\ c.product[p] = d.product[p]
              /\ c.bucket[p] = d.bucket[p] /\ c.free[p] = d.free[p]
            BY <1>6, <1>7, <1>8
        <3>2. QED
            BY <1>6, <3>1, Zenon DEF SameShelf, TotalIn
    <2>2. QED
        BY <1>4, <1>8, <2>1, SameShelves
<1>9. CASE p = Launch
    <2>1. /\ d.definition[p] = Seed /\ d.product[p] = Seed /\ d.bucket[p] = row
          /\ d.free[p] = slots
        BY <1>6, <1>7, <1>9
    <2>2. Cardinality(c.held[p]) \in Nat /\ c.free[p] \in Nat
        BY CountsAre
    <2>3. /\ TotalIn(c, p) = present
          /\ TotalIn(d, p) = IF present < LaunchSlots THEN LaunchSlots ELSE present
        BY <1>1, <1>2, <1>6, <1>7, <1>9, <2>1, <2>2 DEF TotalIn
    <2>4. row.total = LaunchSlots
        BY <1>3
    <2>5. Honest(d, p)
        <3>1. row.total <= TotalIn(d, p)
            BY <1>1, <1>7, <1>9, <2>2, <2>3, <2>4
        <3>2. QED
            BY <2>1, <3>1 DEF Honest
    <2>6. Ordinary(d, p)
        <3>1. LaunchSlots \in Ordered(p)
            BY <1>9 DEF Ordered
        <3>2. CASE present < LaunchSlots
            BY <1>7, <2>3, <3>1, <3>2 DEF Ordinary
        <3>3. CASE ~(present < LaunchSlots)
            BY <2>3, <3>3 DEF Ordinary
        <3>4. QED
            BY <3>2, <3>3
    <2>7. QED
        BY <1>4, <2>5, <2>6
<1>10. QED
    BY <1>8, <1>9

\* The step Restart keeps the catalog as its invariant says.
LEMMA RestartShelves ==
    ASSUME IndInv, CatalogInv, Restart
    PROVE  CatalogInv'
<1>1. /\ db' = Seeded(Undone) /\ Ends /\ UNCHANGED <<input, ticketId, seen>>
      /\ pc' = [r \in Request |-> IF Running(r) THEN "killed" ELSE pc[r]]
      /\ TypeOK
    BY DEF Restart, IndInv
<1>2. /\ \A q \in Request : pc'[q] = IF Running(q) THEN "killed" ELSE pc[q]
      /\ Save \cup Patch \subseteq Request
    BY <1>1, KindsApart
<1>3. \A q \in Request : pc'[q] \in Stopped /\ ~Running(q)'
    BY <1>2 DEF Running, Stopped
<1>4. NewIsBlank'
    <2>1. \A q \in Request : pc'[q] = "new" => pc[q] = "new"
        BY <1>2
    <2>2. QED
        BY <1>1, <2>1, Zenon DEF CatalogInv, NewIsBlank
<1>5. PlansApart'
    BY <1>2, <1>3, Zenon DEF PlansApart
<1>6. KeptShelvesFit'
    BY <1>1, Zenon DEF KeptShelvesFit, Ends, Open
<1>7. ShelvesFit'
    <2>1. SUFFICES ASSUME NothingDoubled'
                   PROVE  /\ \A q \in Save : SaveWork(q)'
                          /\ \A q \in Patch : PatchWork(q)'
                          /\ \A p \in Plan : PlanStays(p)
        BY Zenon DEF ShelvesFit, PlanStays
    <2>2. NothingDoubled /\ writers \subseteq {opener}
        BY <2>1 DEF NothingDoubled, Restart, Meets, HurtsOthers
    <2>3. \A q \in Save \cup Patch : SaveWork(q)' /\ PatchWork(q)'
        BY <1>2, <1>3 DEF SaveWork, PatchWork, Stopped
    <2>4. ASSUME NEW p \in Plan PROVE PlanStays(p)
        <3>1. Undone \in Content
            BY <1>1 DEF IndInv, KeptFits, Undone, TypeOK, ConnectionTypeOK
        <3>2. Ordinary(Undone, p) /\ (~Saving(p) => Honest(Undone, p))
            <4>1. CASE Open
                BY <2>2, <4>1, Zenon DEF CatalogInv, KeptShelvesFit, Undone
            <4>2. CASE ~Open
                BY <2>2, <4>2, NobodyResizes, Zenon DEF CatalogInv, ShelvesFit, Undone
            <4>3. QED
                BY <4>1, <4>2
        <3>3. PICK d : d = Seeded(Undone)
            OBVIOUS
        <3>4. Ordinary(d, p) /\ (~Saving(p) => Honest(d, p))
            BY <3>1, <3>2, <3>3, SeedsShelves
        <3>5. Saving(p)' <=> Saving(p)
            <4>1. \A q \in Save : pc'[q] = "done" <=> pc[q] = "done"
                BY <1>2 DEF Running
            <4>2. QED
                BY <1>1, <4>1 DEF Saving
        <3>6. Ordinary(db, p)'
            <4>1. Ordered(p)' = Ordered(p)
                BY <1>1, Zenon DEF Ordered
            <4>2. QED
                BY <1>1, <3>3, <3>4, <4>1 DEF Ordinary
        <3>7. (Honest(db, p))' <=> Honest(d, p)
            BY <1>1, <3>3, Zenon
        <3>8. QED
            BY <3>4, <3>5, <3>6, <3>7 DEF PlanStays
    <2>5. QED
        BY <2>3, <2>4
<1>8. QED
    BY <1>4, <1>5, <1>6, <1>7, Zenon DEF CatalogInv

\* Nothing but the launch plan is there, with as many slots as it should have.
LEMMA CatalogInit == Init => CatalogInv
<1> SUFFICES ASSUME Init PROVE CatalogInv
    OBVIOUS
<1>1. PICK e : e = Empty
    OBVIOUS
<1>2. e \in Content
    <2>1. <<>> \in Seq([by : Ticket, status : SupportStatus])
        BY EmptySeq, Zenon
    <2>2. QED
        BY <1>1, <2>1 DEF Empty, Content
<1>3. /\ db = Seeded(e) /\ opener = Nobody
      /\ pc = [r \in Request |-> "new"] /\ input = [r \in Request |-> NoInput]
    BY <1>1 DEF Init, Connected
<1>4. Save \cup Patch \subseteq Request
    BY KindsApart
<1>5. NewIsBlank /\ PlansApart /\ KeptShelvesFit
    BY <1>3, <1>4 DEF NewIsBlank, PlansApart, Running, KeptShelvesFit, Open
<1>6. \A q \in Save \cup Patch : SaveWork(q) /\ PatchWork(q)
    BY <1>3, <1>4 DEF SaveWork, PatchWork
<1>7. ASSUME NEW p \in Plan
      PROVE  Ordinary(db, p) /\ Honest(db, p)
    <2>1. /\ e.free[p] = 0 /\ e.held[p] = {} /\ e.definition[p] = Nobody
          /\ e.product[p] = Nobody /\ e.bucket[p] = Nobody
        BY <1>1 DEF Empty
    <2>2. TotalIn(e, p) = 0
        <3>1. Cardinality({}) = 0
            BY FS_EmptySet
        <3>2. QED
            BY <2>1, <3>1 DEF TotalIn
    <2>3. Ordinary(e, p)
        <3>1. \E n \in Ordered(p) : n \in Nat
            BY ConstantsAssumption DEF Ordered
        <3>2. QED
            BY <2>2, <3>1 DEF Ordinary
    <2>4. Honest(e, p)
        BY <2>1 DEF Honest
    <2>5. QED
        BY <1>2, <1>3, <2>3, <2>4, SeedsShelves
<1>8. QED
    BY <1>5, <1>6, <1>7, Zenon DEF CatalogInv, ShelvesFit

\* Every step keeps the catalog as its invariant says.
LEMMA CatalogStep ==
    ASSUME IndInv, CatalogInv, [Next]_vars
    PROVE  CatalogInv'
<1>1. ASSUME NEW r \in Save, SaveStep(r)
      PROVE  CatalogInv'
    BY <1>1, SavePlanShelves, UpsertShelves, CountSlotsShelves, Zenon DEF SaveStep
<1>2. ASSUME NEW r \in Patch, PatchStep(r)
      PROVE  CatalogInv'
    BY <1>2, PatchBucketShelves, ReadCountsShelves, DeleteSlotsShelves, UpdateBucketShelves,
       Zenon DEF PatchStep
<1>3. ASSUME NEW r \in Request,
             \/ Begin(r) \/ Commit(r) \/ Rollback(r)
             \/ QueueMail(r) \/ RecordAction(r)
             \/ InsertSlot(r) \/ EnoughSlots(r)
      PROVE  CatalogInv'
    BY <1>3, BeginShelves, CommitShelves, RollbackShelves, QueueMailShelves,
       RecordActionShelves, InsertSlotShelves, EnoughSlotsShelves, Zenon
<1>4. CASE UNCHANGED vars
    <2>1. /\ db' = db /\ kept' = kept /\ opener' = opener /\ writers' = writers
          /\ pc' = pc /\ input' = input /\ seen' = seen /\ trouble' = trouble
        BY <1>4 DEF vars, connection
    <2>2. NewIsBlank'
        BY <2>1, Zenon DEF CatalogInv, NewIsBlank
    <2>3. PlansApart'
        BY <2>1, Zenon DEF CatalogInv, PlansApart, NothingDoubled, Running
    <2>4. \A q : (SaveWork(q)' <=> SaveWork(q)) /\ (PatchWork(q)' <=> PatchWork(q))
        BY <2>1, Zenon DEF SaveWork, PatchWork, Total
    <2>5. ASSUME NEW p
          PROVE  /\ Ordinary(db, p)' <=> Ordinary(db, p)
                 /\ Ordinary(kept, p)' <=> Ordinary(kept, p)
                 /\ Saving(p)' <=> Saving(p)
                 /\ Resizing(p)' <=> Resizing(p)
        <3>1. Ordered(p)' = Ordered(p)
            BY <2>1, Zenon DEF Ordered
        <3>2. QED
            BY <2>1, <3>1, Zenon DEF Ordinary, Saving, Resizing
    <2>6. NothingDoubled' <=> NothingDoubled
        BY <2>1, Zenon DEF NothingDoubled
    <2>7. ShelvesFit'
        BY <2>1, <2>4, <2>5, <2>6, Zenon DEF CatalogInv, ShelvesFit
    <2>8. KeptShelvesFit'
        BY <2>1, <2>5, <2>6, Zenon DEF CatalogInv, KeptShelvesFit, Open
    <2>9. QED
        BY <2>2, <2>3, <2>7, <2>8, Zenon DEF CatalogInv
<1>5. QED
    BY <1>1, <1>2, <1>3, <1>4, TicketShelves, DeskShelves, RetargetShelves, CheckoutShelves,
       RestartShelves, Zenon DEF Next

\* There are finitely many orders for a plan, so one of them is the greatest.
LEMMA OrdersEnd ==
    ASSUME TypeOK, NEW p
    PROVE  Ordered(p) \in SUBSET Nat /\ IsFiniteSet(Ordered(p)) /\ Ordered(p) # {}
<1>1. PICK askers : askers = {q \in Save \cup Patch : input[q].plan = p}
    OBVIOUS
<1>2. PICK totals : totals = [r \in askers |-> input[r].total]
    OBVIOUS
<1>3. PICK asked : asked = {input[r].total : r \in askers}
    OBVIOUS
<1>4. PICK first : first = IF p = Launch THEN LaunchSlots ELSE 0
    OBVIOUS
<1>5. askers \subseteq Request /\ IsFiniteSet(askers)
    <2>1. askers \subseteq Request
        BY <1>1, KindsApart
    <2>2. QED
        BY <2>1, FS_Subset, ConstantsAssumption, Zenon
<1>6. IsFiniteSet(asked)
    <2>1. totals \in Surjection(askers, asked)
        BY <1>2, <1>3 DEF Surjection
    <2>2. QED
        BY <1>5, <2>1, FS_Surjection
<1>7. Ordered(p) = {first} \cup (asked \ {Keep})
    BY <1>1, <1>3, <1>4 DEF Ordered
<1>8. IsFiniteSet(Ordered(p))
    <2>1. IsFiniteSet({first})
        BY FS_Singleton
    <2>2. IsFiniteSet(asked \ {Keep})
        BY <1>6, FS_Difference
    <2>3. QED
        BY <1>7, <2>1, <2>2, FS_Union
<1>9. first \in Nat
    BY <1>4, ConstantsAssumption
<1>10. asked \subseteq Nat \cup {Keep}
    <2>1. \A r \in askers : input[r].total \in Nat \cup {Keep}
        BY <1>5 DEF TypeOK, Input
    <2>2. QED
        BY <1>3, <2>1
<1>11. QED
    BY <1>7, <1>8, <1>9, <1>10

\* Unless two requests about one plan run at once or statements of others are undone,
\* no plan has more slots than were asked for, its product is the definition's, and its
\* bucket promises no more slots than there are, except while it is being changed.
THEOREM CatalogIsHonest == Spec => []CatalogAgrees
<1>1. IndInv /\ CatalogInv /\ [Next]_vars => CatalogInv'
    BY CatalogStep
<1>2. IndInv /\ CatalogInv => CatalogAgrees
    <2>1. SUFFICES ASSUME IndInv, CatalogInv, NothingDoubled, NEW p \in Plan
                   PROVE  /\ Total(p) <= Max(Ordered(p))
                          /\ ~Saving(p) =>
                            /\ db.definition[p] = db.product[p]
                            /\ \/ db.bucket[p] = Nobody
                               \/ \E r \in Patch : Running(r) /\ input[r].plan = p
                               \/ db.bucket[p].total <= Total(p)
        BY DEF CatalogAgrees, NothingDoubled
    <2>2. /\ Ordinary(db, p)
          /\ ~Saving(p) => Honest(db, p) \/ (Resizing(p) /\ db.definition[p] = db.product[p])
        BY <2>1, Zenon DEF CatalogInv, ShelvesFit
    <2>3. TypeOK /\ db \in Content
        BY <2>1 DEF IndInv, TypeOK, ConnectionTypeOK
    <2>4. TotalIn(db, p) = Total(p) /\ Total(p) \in Nat
        BY <2>3, CountsAre DEF TotalIn, Total
    <2>5. Total(p) <= Max(Ordered(p))
        <3>1. PICK n \in Ordered(p) : Total(p) <= n
            BY <2>2, <2>4 DEF Ordinary
        <3>2. Max(Ordered(p)) \in Ordered(p) /\ n <= Max(Ordered(p))
            BY <2>3, OrdersEnd, MaxIsGreatest
        <3>3. n \in Nat /\ Max(Ordered(p)) \in Nat
            BY <2>3, <3>2, OrdersEnd
        <3>4. QED
            BY <2>4, <3>1, <3>2, <3>3
    <2>6. Resizing(p) => \E r \in Patch : Running(r) /\ input[r].plan = p
        BY DEF Resizing, Running
    <2>7. QED
        BY <2>2, <2>4, <2>5, <2>6, Zenon DEF Honest
<1>3. QED
    BY Invariance, CatalogInit, <1>1, <1>2, PTL DEF Spec

=============================================================================
