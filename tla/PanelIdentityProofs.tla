------------------------- MODULE PanelIdentityProofs -------------------------
(***************************************************************************)
(* Proofs about PanelIdentity, for every value of its constants.           *)
(***************************************************************************)
EXTENDS PanelIdentity, FiniteSetTheorems, ExtremaLemmas, TLAPS

(***************************************************************************)
(* The inductive invariant                                                 *)
(***************************************************************************)

\* A purchase that was not bought yet has nothing.
NothingBeforePayment ==
    \A p \in Purchase : status[p] = "none" =>
        /\ ~named[p] /\ ~ended[p] /\ job[p] = "none"
        /\ host[p] = None /\ username[p] = None /\ account[p] = None
        /\ allocation[p] = None /\ server[p] = None

\* The worker has a job, and knows the customer's user from there on.
WorkerKnows ==
    /\ pc = "idle" <=> task = None
    /\ task # None => seen.account \in {Owner[task], None}
    /\ pc \in {"lookup", "user", "create", "finalize"} => seen.name # None
    /\ pc \in {"create", "finalize"} =>
            /\ result.account = Owner[task] /\ result.name # None
            /\ panelUser[Owner[task]] # None
    /\ seen.account # None => panelUser[Owner[task]] # None

\* Whoever has an account is a user of the panel, and no two users share a name.
AccountsExist ==
    /\ \A c, d \in Customer : c # d /\ panelUser[c] # None => panelUser[c] # panelUser[d]
    /\ \A c \in Customer :
        /\ link[c].account # None <=> link[c].name # None
        /\ link[c].account # None => panelUser[c] # None
    /\ \A p \in Purchase :
        /\ account[p] # None => username[p] # None /\ link[Owner[p]].account # None
        /\ account[p] # None \/ server[p] # None => panelUser[Owner[p]] # None
        /\ allocation[p] # None => account[p] # None

Typing == TypeOK /\ WorkerKnows /\ OwnAccount

\* Two servers of the panel never share an allocation, and the one the worker
\* completes is there unless its service has ended.
ServersAreApart ==
    /\ \A p, q \in Purchase :
        p # q /\ server[p] # None /\ server[q] # None =>
            server[p].allocation # server[q].allocation
    /\ pc = "finalize" /\ ~ended[task] =>
            server[task] # None /\ server[task].allocation = result.allocation

\* No two rows claim one host name.
HostsAreApart ==
    \A p, q \in Purchase :
        p # q /\ Claims(p) /\ Claims(q) /\ host[p] # None => host[p] # host[q]

\* Without an edit a service that has ended holds no slot, and what a row records
\* is on no other server and in no other row.
AllocationsAreApart ==
    "edit" \notin trouble =>
        /\ \A p \in Purchase : ended[p] => slot[p] # "held"
        /\ \A p, q \in Purchase :
            p # q /\ Claims(q) /\ allocation[q] # None =>
                /\ server[p] # None => server[p].allocation # allocation[q]
                /\ Claims(p) => allocation[p] # allocation[q]

NoSetupGivenUp == trouble \cap {"ends", "reopen", "edit"} = {}

\* As long as no setup was given up, every name that is stored anywhere is one of
\* the customer's names, and there is only one.
NamesAgree ==
    NoSetupGivenUp =>
        /\ \A p \in Purchase : named[p] =>
                status[p] \in {"paid", "completed"} /\ username[p] # None
        /\ \A p \in Purchase : allocation[p] # None => named[p]
        /\ pc \in {"lookup", "user", "create", "finalize"} =>
                named[task] /\ seen.name = username[task]
        /\ pc \in {"create", "finalize"} => result.name \in NamesOf(Owner[task])
        /\ \A c \in Customer : panelUser[c] \in NamesOf(c) \cup {None}
        /\ \A c, d \in Customer : \A m \in NamesOf(c), n \in NamesOf(d) : c = d <=> m = n

\* Without an edit or a lost answer, a name that comes with an account is the
\* panel's, and a server is only there while its completion is due or refused.
NamesAreThePanels ==
    trouble \cap {"edit", "lost"} = {} =>
        /\ \A p \in Purchase : account[p] # None => username[p] = panelUser[Owner[p]]
        /\ \A c \in Customer : link[c].account # None => link[c].name = panelUser[c]
        /\ seen.account # None => seen.name = panelUser[Owner[task]]
        /\ \A p \in Purchase : server[p] # None /\ slot[p] = "held" =>
                pc = "finalize" /\ task = p
        /\ pc = "create" \/ (pc = "finalize" /\ slot[task] = "held") =>
                result.name = panelUser[Owner[task]]

IndInv ==
    /\ Typing /\ NothingBeforePayment /\ AccountsExist
    /\ ServersAreApart /\ HostsAreApart /\ AllocationsAreApart
    /\ NamesAgree /\ NamesAreThePanels

(***************************************************************************)
(* What is chosen                                                          *)
(***************************************************************************)

\* The derived fulfillment status is one of the vocabulary.
LEMMA DerivedType ==
    ASSUME NEW s, NEW f \in FulfillmentStatus, NEW l, NEW n
    PROVE  DeriveFulfillment(s, f, l, n) \in FulfillmentStatus
BY DEF DeriveFulfillment, FulfillmentStatus, StickyFulfillment

\* The allocation selectAllocationId picks is one of the target's that no other
\* claiming row records.
LEMMA PickedIsUnused ==
    ASSUME NEW p \in Purchase, Unused(p) # {}
    PROVE  /\ Min(Unused(p)) \in Allocation
           /\ \A q \in Purchase \ {p} : Claims(q) => allocation[q] # Min(Unused(p))
<1>1. Unused(p) \in SUBSET Nat
    BY ConstantsAssumption DEF Unused
<1>2. Min(Unused(p)) \in Unused(p)
    BY <1>1, MinIsLeast
<1>3. QED
    BY <1>2 DEF Unused

\* The oldest of some purchases is one of them.
LEMMA OldestExists ==
    ASSUME NEW S \in SUBSET Purchase, S # {}
    PROVE  Min(S) \in S
<1>1. S \in SUBSET Nat
    BY ConstantsAssumption
<1>2. QED
    BY <1>1, MinIsLeast

\* A pending name is that of another pending purchase of the customer; when there
\* is none, there is no such purchase.
LEMMA PendingNameIs ==
    ASSUME NEW p \in Purchase
    PROVE  /\ PendingName(p) # None =>
                \E q \in Purchase \ {p} :
                    Owner[q] = Owner[p] /\ Pending(q) /\ username[q] = PendingName(p)
           /\ PendingName(p) = None =>
                \A q \in Purchase \ {p} : Owner[q] = Owner[p] => ~Pending(q)
<1> DEFINE others == {q \in Purchase \ {p} : Owner[q] = Owner[p] /\ Pending(q)}
<1>1. CASE others = {}
    BY <1>1 DEF PendingName
<1>2. CASE others # {}
    <2>1. PendingName(p) = username[Min(others)]
        BY <1>2 DEF PendingName
    <2>2. Min(others) \in others
        <3>1. others \in SUBSET Purchase
            OBVIOUS
        <3>2. QED
            BY <1>2, <3>1, OldestExists
    <2>3. Min(others) \in Purchase \ {p} /\ Owner[Min(others)] = Owner[p] /\ Pending(Min(others))
        BY <2>2
    <2>4. username[Min(others)] # None
        BY <2>3 DEF Pending
    <2>5. QED
        BY <2>1, <2>3, <2>4
<1>3. QED
    BY <1>1, <1>2

\* A name that is not taken is in no link of another customer, and the oldest
\* other pending purchase with it, if any, is the customer's own.
LEMMA NotTaken ==
    ASSUME NEW p \in Purchase, NEW n, ~NameTaken(p, n)
    PROVE  /\ \A c \in Customer \ {Owner[p]} : link[c].name # n
           /\ \/ \A q \in Purchase \ {p} : Pending(q) => username[q] # n
              \/ \E q \in Purchase \ {p} : Pending(q) /\ Owner[q] = Owner[p]
<1> DEFINE others == {q \in Purchase \ {p} : Pending(q) /\ username[q] = n}
<1>1. \A c \in Customer \ {Owner[p]} : link[c].name # n
    BY DEF NameTaken
<1>2. CASE others = {}
    BY <1>1, <1>2
<1>3. CASE others # {}
    <2>1. Owner[Min(others)] = Owner[p]
        BY <1>3 DEF NameTaken
    <2>2. Min(others) \in others
        <3>1. others \in SUBSET Purchase
            OBVIOUS
        <3>2. QED
            BY <1>3, <3>1, OldestExists
    <2>3. QED
        BY <1>1, <2>1, <2>2
<1>4. QED
    BY <1>2, <1>3

\* What a setup stores: the link of its customer, or a name without an account
\* that is pending for the customer or claimed by nobody else.
LEMMA SubmittedName ==
    ASSUME Typing, AccountsExist, NEW p \in Purchase, NEW n \in Name \cup {None},
           NEW h \in Host, SubmitSetup(p, n, h)
    PROVE  \E who \in Identity :
            /\ who.name # None
            /\ username' = [username EXCEPT ![p] = who.name]
            /\ account' = [account EXCEPT ![p] = who.account]
            /\ staged' = [staged EXCEPT ![p] = who.account = None]
            /\ \/ Linked(Owner[p]) /\ who = link[Owner[p]]
               \/ /\ who.account = None /\ ~Linked(Owner[p])
                  /\ \E q \in Purchase \ {p} :
                        Owner[q] = Owner[p] /\ Pending(q) /\ username[q] = who.name
               \/ /\ who.account = None /\ ~Linked(Owner[p])
                  /\ \A q \in Purchase \ {p} : Owner[q] = Owner[p] => ~Pending(q)
                  /\ ~NameTaken(p, who.name)
<1>0. Owner[p] \in Customer /\ link[Owner[p]] \in Identity /\ None \notin Name
      /\ \A q \in Purchase : username[q] \in Name \cup {None}
    BY ConstantsAssumption DEF Typing, TypeOK
<1>1. PICK who \in Chosen(p, n) :
            /\ username' = [username EXCEPT ![p] = who.name]
            /\ account' = [account EXCEPT ![p] = who.account]
            /\ staged' = [staged EXCEPT ![p] = who.account = None]
    BY DEF SubmitSetup
<1>2. CASE Linked(Owner[p])
    <2>1. who = link[Owner[p]]
        BY <1>1, <1>2 DEF Chosen
    <2>2. link[Owner[p]].name # None
        BY <1>0, <1>2 DEF Linked, AccountsExist, Identity, Nobody
    <2>3. QED
        BY <1>0, <1>1, <1>2, <2>1, <2>2
<1>3. CASE ~Linked(Owner[p]) /\ PendingName(p) # None
    <2>1. who = [account |-> None, name |-> PendingName(p)]
        BY <1>1, <1>3 DEF Chosen
    <2>2. PICK q \in Purchase \ {p} :
                Owner[q] = Owner[p] /\ Pending(q) /\ username[q] = PendingName(p)
        BY <1>3, PendingNameIs
    <2>3. who \in Identity
        BY <1>0, <2>1, <2>2 DEF Identity
    <2>4. who.account = None /\ who.name = PendingName(p)
        BY <2>1
    <2>5. QED
        BY <1>1, <1>3, <2>2, <2>3, <2>4
<1>4. CASE ~Linked(Owner[p]) /\ PendingName(p) = None
    <2>1. PICK m \in {n} \ {None} :
                ~NameTaken(p, m) /\ who = [account |-> None, name |-> m]
        BY <1>1, <1>4 DEF Chosen
    <2>2. who \in Identity /\ who.account = None /\ who.name = m /\ m # None
        BY <2>1 DEF Identity
    <2>3. \A q \in Purchase \ {p} : Owner[q] = Owner[p] => ~Pending(q)
        BY <1>4, PendingNameIs
    <2>4. QED
        BY <1>1, <1>4, <2>1, <2>2, <2>3
<1>5. QED
    BY <1>2, <1>3, <1>4

(***************************************************************************)
(* Typing                                                                  *)
(***************************************************************************)

\* Steps that leave the worker and the users of the panel alone.
LEMMA WorkerStillKnows ==
    ASSUME WorkerKnows, UNCHANGED <<workerVars, panelUser>>
    PROVE  WorkerKnows'
BY DEF WorkerKnows, workerVars

\* An idle worker knows nothing.
LEMMA IdleKnows ==
    ASSUME WorkerDone
    PROVE  /\ WorkerKnows' /\ pc' = "idle" /\ task' = None
           /\ seen' \in Identity
           /\ result' \in [account : Customer \cup {None}, name : Name \cup {None},
                           allocation : Allocation \cup {None}]
BY DEF WorkerDone, WorkerKnows, Known, Nobody, Identity

\* Types and accounts are right at the start,
LEMMA TypingInit == Init => Typing
<1> SUFFICES ASSUME Init PROVE Typing
    OBVIOUS
<1> USE ConstantsAssumption DEF Init
<1>1. TypeOK
    <2>1. \A p \in Purchase : job[p] = "leased" <=> task = p
        OBVIOUS
    <2>2. result \in [account : Customer \cup {None}, name : Name \cup {None},
                      allocation : Allocation \cup {None}] /\ seen \in Identity
        BY DEF Nobody, Identity
    <2>3. QED
        BY <2>1, <2>2 DEF TypeOK, FulfillmentStatus, ServerStatus, JobState, Nobody, Identity
<1>2. WorkerKnows
    BY DEF WorkerKnows, Nobody
<1>3. OwnAccount
    BY DEF OwnAccount, Nobody
<1>4. QED
    BY <1>1, <1>2, <1>3 DEF Typing

\* The steps that change purchase rows and leave the worker alone.
LEMMA TypingOfHandlers ==
    ASSUME Typing, AccountsExist, NEW p \in Purchase,
           \/ Buy(p)
           \/ \E n \in Name \cup {None}, h \in Host : SubmitSetup(p, n, h)
           \/ SubscriptionEnds(p) \/ ReleaseReady(p) \/ Requeue(p) \/ ReopenSetup(p)
           \/ \E s \in PurchaseStatus, n \in BOOLEAN : Edit(p, s, n)
           \/ RemoveServer(p)
    PROVE  Typing'
<1> USE ConstantsAssumption
<1>0. TypeOK /\ WorkerKnows /\ OwnAccount
    BY DEF Typing
<1>1. CASE Buy(p)
    <2>1. TypeOK'
        BY <1>0, <1>1 DEF Buy, TypeOK, PurchaseStatus, ServerStatus, setupVars, panelVars,
           workerVars
    <2>2. WorkerKnows' /\ OwnAccount'
        BY <1>0, <1>1, WorkerStillKnows DEF Buy, panelVars, setupVars, OwnAccount
    <2>3. QED
        BY <2>1, <2>2 DEF Typing
<1>2. ASSUME NEW n \in Name \cup {None}, NEW h \in Host, SubmitSetup(p, n, h) PROVE Typing'
    <2>1. PICK who \in Identity :
            /\ username' = [username EXCEPT ![p] = who.name]
            /\ account' = [account EXCEPT ![p] = who.account]
            /\ staged' = [staged EXCEPT ![p] = who.account = None]
            /\ who.account = None \/ who = link[Owner[p]]
        BY <1>2, SubmittedName
    <2>2. who.account \in Customer \cup {None} /\ who.name \in Name \cup {None}
        BY DEF Identity
    <2>3. staged' \in [Purchase -> BOOLEAN] /\ \A q \in Purchase : staged'[q] => account'[q] = None
        BY <1>0, <2>1 DEF TypeOK
    <2>4. fulfillment' \in [Purchase -> FulfillmentStatus]
        <3>1. Derived(p, status[p], fulfillment[p], TRUE) \in FulfillmentStatus
            BY <1>0, DerivedType DEF Derived, TypeOK
        <3>2. QED
            BY <1>0, <1>2, <3>1 DEF SubmitSetup, TypeOK
    <2>5. job' \in [Purchase -> JobState] /\ \A q \in Purchase : job'[q] = "leased" <=> task = q
        <3>1. Enqueued(p) \/ UNCHANGED job
            BY <1>2 DEF SubmitSetup
        <3>2. QED
            BY <1>0, <3>1 DEF Enqueued, TypeOK, JobState
    <2>6. TypeOK'
        BY <1>0, <1>2, <2>1, <2>2, <2>3, <2>4, <2>5 DEF SubmitSetup, TypeOK, panelVars, workerVars
    <2>7. Owner[p] \in Customer /\ link[Owner[p]].account \in {Owner[p], None}
        BY <1>0 DEF OwnAccount
    <2>8. WorkerKnows' /\ OwnAccount'
        BY <1>0, <1>2, <2>1, <2>7, WorkerStillKnows DEF SubmitSetup, panelVars, TypeOK, OwnAccount
    <2>9. QED
        BY <2>6, <2>8 DEF Typing
<1>3. CASE SubscriptionEnds(p)
    <2>1. \E s \in PurchaseStatus :
            /\ status' = [status EXCEPT ![p] = s]
            /\ fulfillment' = [fulfillment EXCEPT ![p] = Derived(p, s, fulfillment[p], named[p])]
        BY <1>0, <1>3 DEF SubscriptionEnds, PurchaseStatus
    <2>2. \A s \in PurchaseStatus : Derived(p, s, fulfillment[p], named[p]) \in FulfillmentStatus
        BY <1>0, DerivedType DEF Derived, TypeOK
    <2>3. /\ status' \in [Purchase -> PurchaseStatus \cup {"none"}]
          /\ fulfillment' \in [Purchase -> FulfillmentStatus]
        BY <1>0, <2>1, <2>2 DEF TypeOK
    <2>4. TypeOK'
        BY <1>0, <1>3, <2>3 DEF SubscriptionEnds, Meets, TypeOK, ServerStatus, setupVars,
           panelVars, workerVars
    <2>5. WorkerKnows' /\ OwnAccount'
        BY <1>0, <1>3, WorkerStillKnows DEF SubscriptionEnds, panelVars, setupVars, OwnAccount
    <2>6. QED
        BY <2>4, <2>5 DEF Typing
<1>4. CASE ReleaseReady(p)
    <2>1. TypeOK'
        BY <1>0, <1>4 DEF ReleaseReady, TypeOK, PurchaseStatus, FulfillmentStatus, setupVars,
           panelVars, workerVars
    <2>2. WorkerKnows' /\ OwnAccount'
        BY <1>0, <1>4, WorkerStillKnows DEF ReleaseReady, panelVars, setupVars, OwnAccount
    <2>3. QED
        BY <2>1, <2>2 DEF Typing
<1>5. CASE Requeue(p)
    <2>1. TypeOK'
        BY <1>0, <1>5 DEF Requeue, TypeOK, JobState, FulfillmentStatus, setupVars, panelVars,
           workerVars
    <2>2. WorkerKnows' /\ OwnAccount'
        BY <1>0, <1>5, WorkerStillKnows DEF Requeue, panelVars, setupVars, OwnAccount
    <2>3. QED
        BY <2>1, <2>2 DEF Typing
<1>6. CASE ReopenSetup(p)
    <2>1. TypeOK'
        BY <1>0, <1>6 DEF ReopenSetup, Meets, TypeOK, FulfillmentStatus, panelVars, workerVars
    <2>2. WorkerKnows' /\ OwnAccount'
        BY <1>0, <1>6, WorkerStillKnows DEF ReopenSetup, panelVars, OwnAccount
    <2>3. QED
        BY <2>1, <2>2 DEF Typing
<1>7. ASSUME NEW s \in PurchaseStatus, NEW n \in BOOLEAN, Edit(p, s, n) PROVE Typing'
    <2>1. fulfillment' \in [Purchase -> FulfillmentStatus]
        <3>1. Derived(p, s, fulfillment[p], n) \in FulfillmentStatus
            BY <1>0, DerivedType DEF Derived, TypeOK
        <3>2. QED
            BY <1>0, <1>7, <3>1 DEF Edit, TypeOK
    <2>2. slot' \in [Purchase -> ServerStatus]
        <3>1. InferredSlot(p, s) \in ServerStatus
            BY DEF InferredSlot, ServerStatus
        <3>2. QED
            BY <1>0, <1>7, <3>1 DEF Edit, TypeOK
    <2>3. TypeOK'
        BY <1>0, <1>7, <2>1, <2>2 DEF Edit, Meets, TypeOK, panelVars, workerVars
    <2>4. WorkerKnows' /\ OwnAccount'
        BY <1>0, <1>7, WorkerStillKnows DEF Edit, panelVars, OwnAccount
    <2>5. QED
        BY <2>3, <2>4 DEF Typing
<1>8. CASE RemoveServer(p)
    <2>1. TypeOK'
        BY <1>0, <1>8 DEF RemoveServer, Meets, TypeOK, purchaseVars, setupVars, workerVars
    <2>2. WorkerKnows' /\ OwnAccount'
        BY <1>0, <1>8, WorkerStillKnows DEF RemoveServer, TypeOK, purchaseVars, setupVars,
           OwnAccount
    <2>3. QED
        BY <2>1, <2>2 DEF Typing
<1>9. QED
    BY <1>1, <1>2, <1>3, <1>4, <1>5, <1>6, <1>7, <1>8

\* The end of an attempt.
LEMMA TypingOfGiveBack ==
    ASSUME Typing, task \in Purchase, NEW j \in JobState \ {"leased"},
           NEW f \in FulfillmentStatus, GiveBack(j, f),
           UNCHANGED <<status, ended, setupVars, allocation, slot, link, panelVars, trouble>>
    PROVE  Typing'
<1> USE ConstantsAssumption
<1>1. fulfillment' \in [Purchase -> FulfillmentStatus]
    <2>1. DeriveFulfillment(status[task], f, FALSE, named[task]) \in FulfillmentStatus
        BY DerivedType
    <2>2. QED
        BY <2>1 DEF GiveBack, Typing, TypeOK
<1>2. WorkerDone
    BY DEF GiveBack
<1>3. /\ WorkerKnows' /\ pc' = "idle" /\ task' = None /\ seen' \in Identity
      /\ result' \in [account : Customer \cup {None}, name : Name \cup {None},
                      allocation : Allocation \cup {None}]
    BY <1>2, IdleKnows
<1>4. job' \in [Purchase -> JobState] /\ \A p \in Purchase : job'[p] = "leased" <=> task' = p
    BY <1>3 DEF GiveBack, Typing, TypeOK
<1>5. TypeOK'
    BY <1>1, <1>3, <1>4 DEF Typing, TypeOK, setupVars, panelVars
<1>6. OwnAccount'
    BY DEF Typing, OwnAccount, setupVars, panelVars
<1>7. QED
    BY <1>3, <1>5, <1>6 DEF Typing

\* after every step of the worker, which writes the task's owner only,
LEMMA TypingOfWorker ==
    ASSUME Typing, AccountsExist,
           \/ \E p \in Purchase : Lease(p)
           \/ LookupServer \/ ReuseUser \/ CreateUser \/ CreateServer \/ RequestFails
           \/ EndAttempt \/ Complete \/ CompletionFails
    PROVE  Typing'
<1> USE ConstantsAssumption
<1>0. /\ TypeOK /\ WorkerKnows /\ OwnAccount
      /\ pc # "idle" => task \in Purchase /\ Owner[task] \in Customer
    BY DEF Typing, WorkerKnows, TypeOK
<1>01. /\ pc \in {"idle", "lookup", "user", "create", "finalize", "failed", "refused"}
       /\ seen \in Identity /\ seen.account \in Customer \cup {None}
       /\ seen.name \in Name \cup {None}
       /\ result \in [account : Customer \cup {None}, name : Name \cup {None},
                      allocation : Allocation \cup {None}]
       /\ \A c \in Customer : panelUser[c] \in Name \cup {None}
    BY <1>0 DEF TypeOK, Identity
<1>02. ASSUME OnlyPanel, pc \in {"lookup", "user", "create"},
              pc' \in {"user", "create", "finalize", "failed", "refused"},
              panelUser' \in [Customer -> Name \cup {None}],
              \A c \in Customer : panelUser[c] # None => panelUser'[c] # None,
              server' \in [Purchase -> {None} \cup
                                [account : Customer, allocation : Allocation]],
              \A p \in Purchase : server'[p] # None => server'[p].account = Owner[p],
              result' \in [account : Customer \cup {None}, name : Name \cup {None},
                           allocation : Allocation \cup {None}],
              trouble' \in SUBSET Trouble,
              pc' \in {"create", "finalize"} =>
                    /\ result'.account = Owner[task] /\ result'.name # None
                    /\ panelUser'[Owner[task]] # None
       PROVE  Typing'
    <2>1. UNCHANGED <<status, ended, named, host, username, account, staged, fulfillment,
                      allocation, slot, job, link, task, seen>>
        BY <1>02 DEF OnlyPanel, purchaseVars, setupVars
    <2>2. TypeOK'
        BY <1>0, <1>02, <2>1 DEF TypeOK
    <2>3. OwnAccount'
        BY <1>0, <1>02, <2>1 DEF OwnAccount
    <2>4. WorkerKnows'
        BY <1>0, <1>02, <2>1 DEF WorkerKnows
    <2>5. QED
        BY <2>2, <2>3, <2>4 DEF Typing
<1>03. ASSUME Meets("lost") \/ UNCHANGED trouble PROVE trouble' \in SUBSET Trouble
    BY <1>0, <1>03 DEF Meets, TypeOK
<1>1. ASSUME NEW p \in Purchase, Lease(p) PROVE Typing'
    <2>1. fulfillment' \in [Purchase -> FulfillmentStatus]
        <3>1. DeriveFulfillment(status[p], "provisioning", TRUE, named[p]) \in FulfillmentStatus
            BY DerivedType DEF FulfillmentStatus
        <3>2. QED
            BY <1>0, <1>1, <3>1 DEF Lease, TypeOK
    <2>2. /\ job' \in [Purchase -> JobState] /\ task' = p
          /\ \A q \in Purchase : job'[q] = "leased" <=> task' = q
        BY <1>0, <1>1 DEF Lease, TypeOK, WorkerKnows, JobState
    <2>3. /\ seen' = [account |-> account[p], name |-> username[p]] /\ seen' \in Identity
          /\ pc' \in {"lookup", "refused"} /\ pc' = "lookup" => username[p] # None
        BY <1>0, <1>1 DEF Lease, TypeOK, Identity, ContractOk
    <2>4. TypeOK'
        BY <1>0, <1>1, <2>1, <2>2, <2>3 DEF Lease, TypeOK, setupVars, panelVars
    <2>5. OwnAccount'
        BY <1>0, <1>1 DEF Lease, OwnAccount, setupVars, panelVars
    <2>6. WorkerKnows'
        <3>1. seen'.account \in {Owner[p], None} /\ seen'.name = username[p]
            BY <1>0, <2>3 DEF OwnAccount
        <3>2. seen'.account # None => panelUser[Owner[p]] # None
            BY <2>3 DEF AccountsExist
        <3>3. QED
            BY <1>1, <2>2, <2>3, <3>1, <3>2 DEF Lease, WorkerKnows, panelVars
    <2>7. QED
        BY <2>4, <2>5, <2>6 DEF Typing
<1>2. CASE LookupServer
    <2>1. UNCHANGED <<panelUser, server, trouble>> /\ OnlyPanel /\ pc = "lookup"
        BY <1>2 DEF LookupServer, panelVars
    <2>2. CASE server[task] = None
        BY <1>0, <1>01, <1>02, <1>2, <2>1, <2>2 DEF LookupServer, TypeOK, OwnAccount
    <2>3. CASE server[task] # None
        <3>1. /\ pc' = "finalize"
              /\ result' = [account |-> server[task].account, name |-> seen.name,
                            allocation |-> server[task].allocation]
            BY <1>2, <2>3 DEF LookupServer
        <3>2. server[task] \in [account : Customer, allocation : Allocation]
            BY <1>0, <2>1, <2>3 DEF TypeOK
        <3>3. server[task].account = Owner[task] /\ panelUser[Owner[task]] # None
            BY <1>0, <2>1, <2>3 DEF OwnAccount, AccountsExist
        <3>4. seen.name # None
            BY <1>0, <2>1 DEF WorkerKnows
        <3>5. result' \in [account : Customer \cup {None}, name : Name \cup {None},
                           allocation : Allocation \cup {None}]
            BY <1>01, <3>1, <3>2
        <3>6. result'.account = Owner[task] /\ result'.name # None
            BY <3>1, <3>3, <3>4
        <3>7. QED
            BY <1>0, <1>02, <2>1, <3>1, <3>3, <3>5, <3>6 DEF TypeOK, OwnAccount
    <2>4. QED
        BY <2>2, <2>3
<1>3. CASE ReuseUser
    <2>1. UNCHANGED <<panelUser, server, trouble>> /\ OnlyPanel /\ pc = "user" /\ pc' = "create"
        BY <1>3 DEF ReuseUser, panelVars
    <2>2. CASE seen.account # None
        <3>1. seen.account = Owner[task] /\ panelUser[Owner[task]] # None /\ seen.name # None
            BY <1>0, <2>1, <2>2 DEF WorkerKnows
        <3>2. result' = Known(seen)
            BY <1>3, <2>2 DEF ReuseUser
        <3>3. /\ result' \in [account : Customer \cup {None}, name : Name \cup {None},
                              allocation : Allocation \cup {None}]
              /\ result'.account = Owner[task] /\ result'.name # None
            BY <1>01, <3>1, <3>2 DEF Known
        <3>4. QED
            BY <1>0, <1>02, <2>1, <3>1, <3>3 DEF TypeOK, OwnAccount
    <2>3. CASE seen.account = None
        <3>1. panelUser[Owner[task]] # None
            BY <1>3, <2>3 DEF ReuseUser
        <3>2. result' = Known([account |-> Owner[task], name |-> panelUser[Owner[task]]])
            BY <1>3, <2>3 DEF ReuseUser
        <3>3. /\ result' \in [account : Customer \cup {None}, name : Name \cup {None},
                              allocation : Allocation \cup {None}]
              /\ result'.account = Owner[task] /\ result'.name # None
            BY <1>0, <1>01, <2>1, <3>1, <3>2 DEF Known
        <3>4. QED
            BY <1>0, <1>02, <2>1, <3>1, <3>3 DEF TypeOK, OwnAccount
    <2>4. QED
        BY <2>2, <2>3
<1>4. CASE CreateUser
    <2>1. OnlyPanel /\ pc = "user" /\ seen.name # None
        BY <1>0, <1>4 DEF CreateUser, WorkerKnows
    <2>2. CASE \E c \in Customer : panelUser[c] = seen.name
        BY <1>0, <1>01, <1>02, <1>4, <2>1, <2>2 DEF CreateUser, TypeOK, OwnAccount, panelVars
    <2>3. CASE ~\E c \in Customer : panelUser[c] = seen.name
        <3>1. /\ panelUser' = [panelUser EXCEPT ![Owner[task]] = seen.name]
              /\ result' = Known([account |-> Owner[task], name |-> seen.name])
              /\ UNCHANGED server /\ pc' \in {"create", "failed"}
              /\ Meets("lost") \/ UNCHANGED trouble
            BY <1>4, <2>3 DEF CreateUser
        <3>2. /\ panelUser' \in [Customer -> Name \cup {None}]
              /\ panelUser'[Owner[task]] # None
              /\ \A c \in Customer : panelUser[c] # None => panelUser'[c] # None
            BY <1>0, <1>01, <2>1, <3>1 DEF TypeOK
        <3>3. /\ result' \in [account : Customer \cup {None}, name : Name \cup {None},
                              allocation : Allocation \cup {None}]
              /\ result'.account = Owner[task] /\ result'.name # None
            BY <1>0, <1>01, <2>1, <3>1 DEF Known
        <3>4. QED
            BY <1>0, <1>02, <1>03, <2>1, <3>1, <3>2, <3>3 DEF TypeOK, OwnAccount
    <2>4. QED
        BY <2>2, <2>3
<1>5. CASE CreateServer
    <2>1. OnlyPanel /\ pc = "create" /\ UNCHANGED panelUser /\ task \in Purchase
        BY <1>0, <1>5 DEF CreateServer
    <2>2. result.account = Owner[task] /\ result.name # None /\ panelUser[Owner[task]] # None
        BY <1>0, <2>1 DEF WorkerKnows
    <2>3. CASE Unused(task) = {} \/ Min(Unused(task)) \in Occupied
        BY <1>0, <1>01, <1>02, <1>5, <2>1, <2>3 DEF CreateServer, TypeOK, OwnAccount
    <2>4. CASE ~(Unused(task) = {} \/ Min(Unused(task)) \in Occupied)
        <3>1. PICK a \in Allocation : a = Min(Unused(task))
            BY <2>1, <2>4, PickedIsUnused
        <3>2. /\ server' = [server EXCEPT ![task] =
                                [account |-> result.account, allocation |-> a]]
              /\ result' = [result EXCEPT !.allocation = a]
              /\ pc' \in {"finalize", "failed"}
              /\ Meets("lost") \/ UNCHANGED trouble
            BY <1>5, <2>4, <3>1 DEF CreateServer
        <3>3. [account |-> result.account, allocation |-> a]
                \in [account : Customer, allocation : Allocation]
            BY <1>0, <2>1, <2>2
        <3>4. /\ server' \in [Purchase -> {None} \cup
                                [account : Customer, allocation : Allocation]]
              /\ \A p \in Purchase : server'[p] # None => server'[p].account = Owner[p]
            BY <1>0, <2>2, <3>2, <3>3 DEF TypeOK, OwnAccount
        <3>5. /\ result' \in [account : Customer \cup {None}, name : Name \cup {None},
                              allocation : Allocation \cup {None}]
              /\ result'.account = Owner[task] /\ result'.name # None
            BY <1>01, <2>2, <3>2
        <3>6. QED
            BY <1>0, <1>02, <1>03, <2>1, <2>2, <3>2, <3>4, <3>5 DEF TypeOK
    <2>5. QED
        BY <2>3, <2>4
<1>6. CASE RequestFails
    <2>1. /\ OnlyPanel /\ UNCHANGED <<panelUser, server, result>> /\ pc' = "failed"
          /\ pc \in {"lookup", "user", "create"} /\ Meets("lost")
        BY <1>6 DEF RequestFails, panelVars
    <2>2. QED
        BY <1>0, <1>01, <1>02, <1>03, <2>1 DEF TypeOK, OwnAccount
<1>7. CASE EndAttempt
    <2>1. /\ \/ GiveBack("needs_admin_review", "needs_admin_review")
             \/ GiveBack("queued", "retryable_failure")
          /\ task \in Purchase
          /\ UNCHANGED <<status, ended, setupVars, allocation, slot, link, panelVars, trouble>>
        BY <1>0, <1>7 DEF EndAttempt
    <2>2. QED
        BY <2>1, TypingOfGiveBack DEF JobState, FulfillmentStatus
<1>8. CASE CompletionFails
    <2>1. /\ GiveBack("dead_letter", "dead_letter") /\ task \in Purchase
          /\ UNCHANGED <<status, ended, setupVars, allocation, slot, link, panelVars, trouble>>
        BY <1>0, <1>8 DEF CompletionFails
    <2>2. QED
        BY <2>1, TypingOfGiveBack DEF JobState, FulfillmentStatus
<1>9. CASE Complete
    <2>1. /\ task \in Purchase /\ Owner[task] \in Customer
          /\ result.account = Owner[task] /\ result.name # None
          /\ result.name \in Name \cup {None} /\ result.allocation \in Allocation \cup {None}
        BY <1>0, <1>01, <1>9 DEF Complete, WorkerKnows
    <2>2. fulfillment' \in [Purchase -> FulfillmentStatus]
        <3>1. DeriveFulfillment(status[task], "pending_activation", FALSE, named[task])
                \in FulfillmentStatus
            BY DerivedType DEF FulfillmentStatus
        <3>2. QED
            BY <1>0, <1>9, <3>1 DEF Complete, TypeOK
    <2>3. /\ WorkerKnows' /\ pc' = "idle" /\ task' = None /\ seen' \in Identity
          /\ result' \in [account : Customer \cup {None}, name : Name \cup {None},
                          allocation : Allocation \cup {None}]
        BY <1>9, IdleKnows DEF Complete
    <2>4. job' \in [Purchase -> JobState] /\ \A p \in Purchase : job'[p] = "leased" <=> task' = p
        BY <1>0, <1>9, <2>3 DEF Complete, TypeOK, JobState
    <2>5. link' \in [Customer -> Identity]
        BY <1>0, <1>9, <2>1 DEF Complete, TypeOK, Identity
    <2>6. /\ account' \in [Purchase -> Customer \cup {None}]
          /\ username' \in [Purchase -> Name \cup {None}]
          /\ allocation' \in [Purchase -> Allocation \cup {None}]
          /\ staged' \in [Purchase -> BOOLEAN]
          /\ \A p \in Purchase : staged'[p] => account'[p] = None
          /\ slot' \in [Purchase -> ServerStatus]
        BY <1>0, <1>9, <2>1 DEF Complete, TypeOK, ServerStatus
    <2>7. TypeOK'
        BY <1>0, <1>9, <2>2, <2>3, <2>4, <2>5, <2>6 DEF Complete, TypeOK, panelVars
    <2>8. OwnAccount'
        BY <1>0, <1>9, <2>1 DEF Complete, TypeOK, OwnAccount, panelVars
    <2>9. QED
        BY <2>3, <2>7, <2>8 DEF Typing
<1>10. QED
    BY <1>1, <1>2, <1>3, <1>4, <1>5, <1>6, <1>7, <1>8, <1>9

\* and after every step.
LEMMA TypingStep == Typing /\ AccountsExist /\ [Next]_vars => Typing'
<1> SUFFICES ASSUME Typing, AccountsExist, [Next]_vars PROVE Typing'
    OBVIOUS
<1>1. CASE UNCHANGED vars
    BY <1>1 DEF vars, purchaseVars, setupVars, panelVars, workerVars, Typing, TypeOK,
        WorkerKnows, OwnAccount
<1>2. QED
    BY <1>1, TypingOfHandlers, TypingOfWorker DEF Next

(***************************************************************************)
(* Purchases before their payment, accounts                                *)
(***************************************************************************)

\* A purchase has nothing before it is bought.
LEMMA NothingBeforePaymentStep ==
    Typing /\ NothingBeforePayment /\ [Next]_vars => NothingBeforePayment'
<1> SUFFICES ASSUME Typing, NothingBeforePayment, [Next]_vars,
                    NEW q \in Purchase, status'[q] = "none"
             PROVE  /\ ~named'[q] /\ ~ended'[q] /\ job'[q] = "none"
                    /\ host'[q] = None /\ username'[q] = None /\ account'[q] = None
                    /\ allocation'[q] = None /\ server'[q] = None
    BY DEF NothingBeforePayment
<1>0. TypeOK /\ (pc # "idle" => task \in Purchase /\ job[task] = "leased")
    BY DEF Typing, TypeOK, WorkerKnows
<1>1. ASSUME status[q] = "none"
      PROVE  /\ ~named[q] /\ ~ended[q] /\ job[q] = "none"
             /\ host[q] = None /\ username[q] = None /\ account[q] = None
             /\ allocation[q] = None /\ server[q] = None
    BY <1>1 DEF NothingBeforePayment
<1>2. ASSUME NEW p \in Purchase, Buy(p) \/ ReleaseReady(p) \/ ReopenSetup(p) \/ Requeue(p)
      PROVE  /\ ~named'[q] /\ ~ended'[q] /\ job'[q] = "none"
             /\ host'[q] = None /\ username'[q] = None /\ account'[q] = None
             /\ allocation'[q] = None /\ server'[q] = None
    BY <1>0, <1>1, <1>2 DEF Buy, ReleaseReady, ReopenSetup, Requeue, TypeOK, setupVars, panelVars
<1>3. ASSUME NEW p \in Purchase, SubscriptionEnds(p) \/ RemoveServer(p)
      PROVE  /\ ~named'[q] /\ ~ended'[q] /\ job'[q] = "none"
             /\ host'[q] = None /\ username'[q] = None /\ account'[q] = None
             /\ allocation'[q] = None /\ server'[q] = None
    BY <1>0, <1>1, <1>3 DEF SubscriptionEnds, RemoveServer, TypeOK, purchaseVars, setupVars,
       panelVars
<1>4. ASSUME NEW p \in Purchase, NEW n \in Name \cup {None}, NEW h \in Host, SubmitSetup(p, n, h)
      PROVE  /\ ~named'[q] /\ ~ended'[q] /\ job'[q] = "none"
             /\ host'[q] = None /\ username'[q] = None /\ account'[q] = None
             /\ allocation'[q] = None /\ server'[q] = None
    BY <1>0, <1>1, <1>4 DEF SubmitSetup, Enqueued, TypeOK, panelVars
<1>5. ASSUME NEW p \in Purchase, NEW s \in PurchaseStatus, NEW n \in BOOLEAN, Edit(p, s, n)
      PROVE  /\ ~named'[q] /\ ~ended'[q] /\ job'[q] = "none"
             /\ host'[q] = None /\ username'[q] = None /\ account'[q] = None
             /\ allocation'[q] = None /\ server'[q] = None
    BY <1>0, <1>1, <1>5 DEF Edit, TypeOK, PurchaseStatus, panelVars
<1>6. ASSUME NEW p \in Purchase, Lease(p)
      PROVE  /\ ~named'[q] /\ ~ended'[q] /\ job'[q] = "none"
             /\ host'[q] = None /\ username'[q] = None /\ account'[q] = None
             /\ allocation'[q] = None /\ server'[q] = None
    BY <1>0, <1>1, <1>6 DEF Lease, TypeOK, setupVars, panelVars
<1>7. ASSUME LookupServer \/ ReuseUser \/ CreateUser \/ CreateServer \/ RequestFails
      PROVE  /\ ~named'[q] /\ ~ended'[q] /\ job'[q] = "none"
             /\ host'[q] = None /\ username'[q] = None /\ account'[q] = None
             /\ allocation'[q] = None /\ server'[q] = None
    <2>1. UNCHANGED <<status, named, ended, job, host, username, account, allocation>> /\ pc # "idle"
        BY <1>7 DEF LookupServer, ReuseUser, CreateUser, CreateServer, RequestFails, OnlyPanel,
            purchaseVars, setupVars
    <2>2. q # task
        BY <1>0, <1>1, <2>1
    <2>3. server'[q] = server[q]
        BY <1>0, <1>7, <2>1, <2>2 DEF LookupServer, ReuseUser, CreateUser, CreateServer,
           RequestFails,
            panelVars, TypeOK
    <2>4. QED
        BY <1>1, <2>1, <2>3
<1>8. ASSUME EndAttempt \/ CompletionFails \/ Complete
      PROVE  /\ ~named'[q] /\ ~ended'[q] /\ job'[q] = "none"
             /\ host'[q] = None /\ username'[q] = None /\ account'[q] = None
             /\ allocation'[q] = None /\ server'[q] = None
    <2>1. UNCHANGED <<status, named, ended, host, server>> /\ pc # "idle"
        BY <1>8 DEF EndAttempt, CompletionFails, Complete, setupVars, panelVars
    <2>2. q # task
        BY <1>0, <1>1, <2>1
    <2>3. /\ username'[q] = username[q] /\ account'[q] = account[q]
          /\ allocation'[q] = allocation[q] /\ job'[q] = job[q]
        BY <1>0, <1>8, <2>1, <2>2 DEF EndAttempt, CompletionFails, Complete, GiveBack,
           setupVars, TypeOK
    <2>4. QED
        BY <1>1, <2>1, <2>3
<1>9. CASE UNCHANGED vars
    BY <1>1, <1>9 DEF vars, purchaseVars, setupVars, panelVars
<1>10. QED
    BY <1>2, <1>3, <1>4, <1>5, <1>6, <1>7, <1>8, <1>9 DEF Next

\* Accounts are written after the panel has made them, and never lost.
LEMMA AccountsExistStep ==
    Typing /\ AccountsExist /\ [Next]_vars => AccountsExist'
<1> SUFFICES ASSUME Typing, AccountsExist, [Next]_vars PROVE AccountsExist'
    OBVIOUS
<1>0. /\ TypeOK /\ WorkerKnows /\ Owner \in [Purchase -> Customer]
      /\ pc # "idle" => task \in Purchase /\ Owner[task] \in Customer
    BY ConstantsAssumption DEF Typing, TypeOK, WorkerKnows
<1>1. CASE UNCHANGED <<link, panelUser, username, account, server, allocation>>
    BY <1>1 DEF AccountsExist
<1>2. ASSUME NEW p \in Purchase, NEW n \in Name \cup {None}, NEW h \in Host, SubmitSetup(p, n, h)
      PROVE  AccountsExist'
    <2>1. PICK who \in Identity :
            /\ who.name # None
            /\ username' = [username EXCEPT ![p] = who.name]
            /\ account' = [account EXCEPT ![p] = who.account]
            /\ who = link[Owner[p]] \/ (who.account = None /\ ~Linked(Owner[p]))
        BY <1>2, SubmittedName
    <2>2. UNCHANGED <<link, panelUser, server, allocation>>
        BY <1>2 DEF SubmitSetup, panelVars
    <2>3. allocation[p] # None => who.account # None
        BY <2>1 DEF AccountsExist, Linked, Nobody
    <2>4. QED
        BY <1>0, <2>1, <2>2, <2>3 DEF AccountsExist, TypeOK
<1>3. ASSUME NEW p \in Purchase, ReopenSetup(p) \/ RemoveServer(p) PROVE AccountsExist'
    BY <1>0, <1>3 DEF ReopenSetup, RemoveServer, AccountsExist, TypeOK, purchaseVars,
       setupVars, panelVars
<1>4. CASE CreateUser
    BY <1>0, <1>4 DEF CreateUser, WorkerKnows, AccountsExist, TypeOK, OnlyPanel, purchaseVars,
        setupVars, panelVars
<1>5. CASE CreateServer
    BY <1>0, <1>5 DEF CreateServer, WorkerKnows, AccountsExist, TypeOK, OnlyPanel, purchaseVars,
        setupVars, panelVars
<1>6. CASE Complete
    <2>1. /\ result.account = Owner[task] /\ result.name # None /\ panelUser[Owner[task]] # None
          /\ Owner[task] # None
        BY <1>0, <1>6, ConstantsAssumption DEF Complete, WorkerKnows
    <2>2. QED
        BY <1>0, <1>6, <2>1 DEF Complete, AccountsExist, TypeOK, panelVars
<1>7. QED
    <2>1. ASSUME NEW p \in Purchase,
                 \/ Buy(p) \/ Lease(p) \/ SubscriptionEnds(p) \/ ReleaseReady(p) \/ Requeue(p)
                 \/ \E s \in PurchaseStatus, n \in BOOLEAN : Edit(p, s, n)
          PROVE  AccountsExist'
        BY <1>1, <2>1 DEF Buy, Lease, SubscriptionEnds, ReleaseReady, Requeue, Edit, setupVars,
           panelVars
    <2>2. CASE LookupServer \/ ReuseUser \/ RequestFails
        BY <1>1, <2>2 DEF LookupServer, ReuseUser, RequestFails, OnlyPanel, purchaseVars,
            setupVars, panelVars
    <2>3. CASE EndAttempt \/ CompletionFails
        BY <1>1, <2>3 DEF EndAttempt, CompletionFails, setupVars, panelVars
    <2>4. CASE UNCHANGED vars
        BY <1>1, <2>4 DEF vars, purchaseVars, setupVars, panelVars
    <2>5. QED
        BY <1>2, <1>3, <1>4, <1>5, <1>6, <2>1, <2>2, <2>3, <2>4 DEF Next

(***************************************************************************)
(* What is claimed                                                         *)
(***************************************************************************)

\* The panel refuses an allocation that is taken.
LEMMA ServersAreApartStep ==
    Typing /\ ServersAreApart /\ [Next]_vars => ServersAreApart'
<1> SUFFICES ASSUME Typing, ServersAreApart, [Next]_vars PROVE ServersAreApart'
    OBVIOUS
<1>0. /\ TypeOK /\ WorkerKnows /\ None \notin [account : Customer, allocation : Allocation]
      /\ pc # "idle" => task \in Purchase
    BY ConstantsAssumption DEF Typing, TypeOK, WorkerKnows
<1>1. ASSUME UNCHANGED server, pc' # "finalize" PROVE ServersAreApart'
    BY <1>1 DEF ServersAreApart
<1>2. CASE UNCHANGED <<server, pc, task, result, ended>>
    BY <1>2 DEF ServersAreApart
<1>3. ASSUME NEW p \in Purchase, SubscriptionEnds(p) PROVE ServersAreApart'
    <2>1. /\ UNCHANGED <<server, pc, task, result>>
          /\ \A q \in Purchase : ended[q] => ended'[q]
        BY <1>0, <1>3 DEF SubscriptionEnds, panelVars, workerVars, TypeOK
    <2>2. QED
        BY <1>0, <2>1 DEF ServersAreApart
<1>4. ASSUME NEW p \in Purchase, RemoveServer(p) PROVE ServersAreApart'
    <2>1. /\ UNCHANGED <<pc, task, result, ended>> /\ ended[p]
          /\ \A q \in Purchase : server'[q] = IF q = p THEN None ELSE server[q]
        BY <1>0, <1>4 DEF RemoveServer, purchaseVars, workerVars, TypeOK
    <2>2. \A q, r \in Purchase : q # r /\ server'[q] # None /\ server'[r] # None =>
                server'[q].allocation # server'[r].allocation
        BY <2>1 DEF ServersAreApart
    <2>3. pc' = "finalize" /\ ~ended'[task'] =>
                server'[task'] # None /\ server'[task'].allocation = result'.allocation
        BY <1>0, <2>1 DEF ServersAreApart
    <2>4. QED
        BY <2>2, <2>3 DEF ServersAreApart
<1>5. CASE LookupServer
    <2>1. UNCHANGED <<server, task>>
        BY <1>5 DEF LookupServer, panelVars, OnlyPanel
    <2>2. CASE server[task] = None
        <3>1. pc' = "user"
            BY <1>5, <2>2 DEF LookupServer
        <3>2. QED
            BY <1>1, <2>1, <3>1
    <2>3. CASE server[task] # None
        <3>1. result'.allocation = server[task].allocation
            BY <1>5, <2>3 DEF LookupServer
        <3>2. QED
            BY <2>1, <2>3, <3>1 DEF ServersAreApart
    <2>4. QED
        BY <2>2, <2>3
<1>6. CASE CreateServer
    <2>1. UNCHANGED <<task, ended>> /\ task \in Purchase
        BY <1>0, <1>6 DEF CreateServer, OnlyPanel, purchaseVars
    <2>2. CASE Unused(task) = {} \/ Min(Unused(task)) \in Occupied
        <3>1. UNCHANGED server /\ pc' = "refused"
            BY <1>6, <2>2 DEF CreateServer
        <3>2. QED
            BY <1>1, <3>1
    <2>3. CASE ~(Unused(task) = {} \/ Min(Unused(task)) \in Occupied)
        <3>1. PICK a \in Allocation : a = Min(Unused(task))
            BY <2>1, <2>3, PickedIsUnused
        <3>2. /\ server' = [server EXCEPT ![task] =
                                [account |-> result.account, allocation |-> a]]
              /\ result' = [result EXCEPT !.allocation = a]
            BY <1>6, <2>3, <3>1 DEF CreateServer
        <3>3. \A q \in Purchase : server[q] # None => server[q].allocation # a
            BY <2>3, <3>1 DEF Occupied
        <3>4. result'.allocation = a
            BY <1>0, <3>2 DEF TypeOK
        <3>5. [account |-> result.account, allocation |-> a] # None
            <4>1. result.account \in Customer
                BY <1>0, <1>6, ConstantsAssumption DEF CreateServer, WorkerKnows
            <4>2. QED
                BY <1>0, <4>1
        <3>6. /\ server'[task].allocation = a /\ server'[task] # None
              /\ \A q \in Purchase \ {task} : server'[q] = server[q]
            BY <1>0, <2>1, <3>2, <3>5 DEF TypeOK
        <3>7. QED
            BY <2>1, <3>3, <3>4, <3>6 DEF ServersAreApart
    <2>4. QED
        BY <2>2, <2>3
<1>7. QED
    <2>1. ASSUME NEW p \in Purchase,
                 \/ Buy(p) \/ ReleaseReady(p) \/ Requeue(p) \/ ReopenSetup(p)
                 \/ \E n \in Name \cup {None}, h \in Host : SubmitSetup(p, n, h)
                 \/ \E s \in PurchaseStatus, n \in BOOLEAN : Edit(p, s, n)
          PROVE  ServersAreApart'
        BY <1>2, <2>1 DEF Buy, ReleaseReady, Requeue, ReopenSetup, SubmitSetup, Edit,
           panelVars, workerVars
    <2>2. CASE \E p \in Purchase : Lease(p)
        BY <1>1, <2>2 DEF Lease, panelVars
    <2>3. CASE ReuseUser \/ CreateUser \/ RequestFails
        BY <1>1, <2>3 DEF ReuseUser, CreateUser, RequestFails, panelVars
    <2>4. CASE EndAttempt \/ CompletionFails \/ Complete
        BY <1>1, <2>4 DEF EndAttempt, CompletionFails, Complete, GiveBack, WorkerDone, panelVars
    <2>5. CASE UNCHANGED vars
        BY <1>2, <2>5 DEF vars, purchaseVars, panelVars, workerVars
    <2>6. QED
        BY <1>3, <1>4, <1>5, <1>6, <2>1, <2>2, <2>3, <2>4, <2>5 DEF Next

\* A step that gives no row a name and brings no row back.
LEMMA HostsUnlessClaimed ==
    ASSUME HostsAreApart,
           \A p \in Purchase : host'[p] \in {host[p], None},
           \A p \in Purchase : Claims(p)' /\ host'[p] # None => Claims(p)
    PROVE  HostsAreApart'
BY DEF HostsAreApart

\* A setup that takes a claimed host name is refused, and a claim that ends does not
\* come back.
LEMMA HostsAreApartStep ==
    Typing /\ NothingBeforePayment /\ HostsAreApart /\ [Next]_vars => HostsAreApart'
<1> SUFFICES ASSUME Typing, NothingBeforePayment, HostsAreApart, [Next]_vars PROVE HostsAreApart'
    OBVIOUS
<1>0. TypeOK
    BY DEF Typing
<1>1. CASE UNCHANGED <<status, host>>
    BY <1>1 DEF HostsAreApart, Claims
<1>2. ASSUME NEW p \in Purchase, Buy(p) \/ SubscriptionEnds(p) \/ ReleaseReady(p)
      PROVE  HostsAreApart'
    <2>1. UNCHANGED host
        BY <1>2 DEF Buy, SubscriptionEnds, ReleaseReady, setupVars
    <2>2. \A q \in Purchase : Claims(q)' => Claims(q)
        BY <1>0, <1>2 DEF Buy, SubscriptionEnds, ReleaseReady, Claims, ClosedStatus, TypeOK
    <2>3. QED
        BY <2>1, <2>2, HostsUnlessClaimed
<1>3. ASSUME NEW p \in Purchase, ReopenSetup(p) PROVE HostsAreApart'
    <2>1. UNCHANGED status /\ \A q \in Purchase : host'[q] \in {host[q], None}
        BY <1>0, <1>3 DEF ReopenSetup, TypeOK
    <2>2. QED
        BY <2>1, HostsUnlessClaimed DEF Claims
<1>4. ASSUME NEW p \in Purchase, NEW n \in Name \cup {None}, NEW h \in Host, SubmitSetup(p, n, h)
      PROVE  HostsAreApart'
    <2>1. UNCHANGED status /\ ~HostTaken(p, h)
        BY <1>4 DEF SubmitSetup
    <2>2. \A q \in Purchase : host'[q] = IF q = p THEN h ELSE host[q]
        BY <1>0, <1>4 DEF SubmitSetup, TypeOK
    <2>3. QED
        BY <2>1, <2>2 DEF HostTaken, HostsAreApart, Claims
<1>5. ASSUME NEW p \in Purchase, NEW s \in PurchaseStatus, NEW n \in BOOLEAN, Edit(p, s, n)
      PROVE  HostsAreApart'
    <2>1. UNCHANGED host /\ IndexAllows(p, s)
        BY <1>5 DEF Edit
    <2>2. \A q \in Purchase : status'[q] = IF q = p THEN s ELSE status[q]
        BY <1>0, <1>5 DEF Edit, TypeOK
    <2>3. QED
        BY <2>1, <2>2 DEF IndexAllows, HostsAreApart, Claims
<1>6. QED
    <2>1. ASSUME NEW p \in Purchase, Lease(p) \/ Requeue(p) \/ RemoveServer(p) PROVE HostsAreApart'
        BY <1>1, <2>1 DEF Lease, Requeue, RemoveServer, purchaseVars, setupVars
    <2>2. CASE LookupServer \/ ReuseUser \/ CreateUser \/ CreateServer \/ RequestFails
        BY <1>1, <2>2 DEF LookupServer, ReuseUser, CreateUser, CreateServer, RequestFails,
           OnlyPanel,
            purchaseVars, setupVars
    <2>3. CASE EndAttempt \/ CompletionFails \/ Complete
        BY <1>1, <2>3 DEF EndAttempt, CompletionFails, Complete, setupVars
    <2>4. CASE UNCHANGED vars
        BY <1>1, <2>4 DEF vars, purchaseVars, setupVars
    <2>5. QED
        BY <1>2, <1>3, <1>4, <1>5, <2>1, <2>2, <2>3, <2>4 DEF Next

\* Trouble is remembered.
LEMMA TroubleStays == [Next]_vars => trouble \subseteq trouble'
<1> SUFFICES ASSUME [Next]_vars PROVE trouble \subseteq trouble'
    OBVIOUS
<1>1. CASE UNCHANGED trouble
    BY <1>1
<1>2. ASSUME NEW k, Meets(k) PROVE trouble \subseteq trouble'
    BY <1>2 DEF Meets
<1>3. ASSUME NEW p \in Purchase,
             \/ Buy(p) \/ Lease(p) \/ SubscriptionEnds(p) \/ ReleaseReady(p) \/ Requeue(p)
             \/ ReopenSetup(p) \/ RemoveServer(p)
             \/ \E n \in Name \cup {None}, h \in Host : SubmitSetup(p, n, h)
             \/ \E s \in PurchaseStatus, n \in BOOLEAN : Edit(p, s, n)
      PROVE  trouble \subseteq trouble'
    BY <1>1, <1>2, <1>3 DEF Buy, Lease, SubscriptionEnds, ReleaseReady, Requeue, ReopenSetup,
        RemoveServer, SubmitSetup, Edit
<1>4. CASE LookupServer \/ ReuseUser \/ CreateUser \/ CreateServer \/ RequestFails
    BY <1>1, <1>2, <1>4 DEF LookupServer, ReuseUser, CreateUser, CreateServer, RequestFails
<1>5. CASE EndAttempt \/ CompletionFails \/ Complete
    BY <1>1, <1>5 DEF EndAttempt, CompletionFails, Complete
<1>6. CASE UNCHANGED vars
    BY <1>1, <1>6 DEF vars
<1>7. QED
    BY <1>3, <1>4, <1>5, <1>6 DEF Next

\* A step that leaves allocations and servers alone, brings no row back and makes
\* no ended service hold a slot.
LEMMA AllocationsUnlessClaimed ==
    ASSUME AllocationsAreApart, "edit" \notin trouble,
           UNCHANGED allocation,
           \A p \in Purchase : Claims(p)' => Claims(p),
           \A p \in Purchase : server'[p] \in {server[p], None},
           \A p \in Purchase : ended'[p] /\ slot'[p] = "held" => ended[p] /\ slot[p] = "held"
    PROVE  AllocationsAreApart'
BY DEF AllocationsAreApart

\* A server keeps its allocation at least as long as a row that records it claims it.
LEMMA AllocationsAreApartStep ==
    /\ Typing /\ NothingBeforePayment /\ ServersAreApart /\ AllocationsAreApart
    /\ [Next]_vars
    => AllocationsAreApart'
<1> SUFFICES ASSUME Typing, NothingBeforePayment, ServersAreApart, AllocationsAreApart, [Next]_vars,
                    "edit" \notin trouble'
             PROVE  AllocationsAreApart'
    BY DEF AllocationsAreApart
<1>0. /\ TypeOK /\ "edit" \notin trouble
      /\ pc # "idle" => task \in Purchase
    BY TroubleStays DEF Typing, TypeOK, WorkerKnows
<1>1. ASSUME NEW p \in Purchase, Buy(p) \/ SubscriptionEnds(p) \/ ReleaseReady(p)
      PROVE  AllocationsAreApart'
    <2>1. UNCHANGED <<allocation, server>>
        BY <1>1 DEF Buy, SubscriptionEnds, ReleaseReady, panelVars
    <2>2. \A q \in Purchase : Claims(q)' => Claims(q)
        BY <1>0, <1>1 DEF Buy, SubscriptionEnds, ReleaseReady, Claims, ClosedStatus, TypeOK
    <2>3. \A q \in Purchase : ended'[q] /\ slot'[q] = "held" => ended[q] /\ slot[q] = "held"
        BY <1>0, <1>1 DEF Buy, SubscriptionEnds, ReleaseReady, NothingBeforePayment, TypeOK
    <2>4. QED
        BY <1>0, <2>1, <2>2, <2>3, AllocationsUnlessClaimed
<1>2. ASSUME NEW p \in Purchase, RemoveServer(p) PROVE AllocationsAreApart'
    <2>1. /\ UNCHANGED <<allocation, status, ended, slot>>
          /\ \A q \in Purchase : server'[q] \in {server[q], None}
        BY <1>0, <1>2 DEF RemoveServer, purchaseVars, TypeOK
    <2>2. QED
        BY <1>0, <2>1, AllocationsUnlessClaimed DEF Claims
<1>3. CASE UNCHANGED <<allocation, status, server, ended, slot>>
    BY <1>0, <1>3, AllocationsUnlessClaimed DEF Claims
<1>4. CASE CreateServer
    <2>1. UNCHANGED <<allocation, status, ended, slot>> /\ task \in Purchase
        BY <1>0, <1>4 DEF CreateServer, OnlyPanel, purchaseVars
    <2>2. CASE Unused(task) = {} \/ Min(Unused(task)) \in Occupied
        BY <1>3, <1>4, <2>1, <2>2 DEF CreateServer
    <2>3. CASE ~(Unused(task) = {} \/ Min(Unused(task)) \in Occupied)
        <3>1. PICK a \in Allocation : a = Min(Unused(task))
            BY <2>1, <2>3, PickedIsUnused
        <3>2. server' = [server EXCEPT ![task] =
                                [account |-> result.account, allocation |-> a]]
            BY <1>4, <2>3, <3>1 DEF CreateServer
        <3>3. \A q \in Purchase \ {task} : Claims(q) => allocation[q] # a
            BY <2>1, <2>3, <3>1, PickedIsUnused
        <3>4. /\ server'[task].allocation = a
              /\ \A q \in Purchase \ {task} : server'[q] = server[q]
            BY <1>0, <2>1, <3>2 DEF TypeOK
        <3>5. QED
            BY <1>0, <2>1, <3>3, <3>4 DEF AllocationsAreApart, Claims
    <2>4. QED
        BY <2>2, <2>3
<1>5. CASE Complete
    <2>1. /\ task \in Purchase /\ slot[task] = "held" /\ ~ended[task]
        BY <1>0, <1>5 DEF Complete, CompletionRefused, AllocationsAreApart
    <2>2. server[task] # None /\ server[task].allocation = result.allocation
        BY <1>5, <2>1 DEF Complete, ServersAreApart
    <2>3. /\ UNCHANGED <<status, server, ended>>
          /\ \A q \in Purchase :
                /\ allocation'[q] = IF q = task THEN result.allocation ELSE allocation[q]
                /\ slot'[q] = "held" => slot[q] = "held"
        BY <1>0, <1>5, <2>1 DEF Complete, TypeOK, panelVars
    <2>4. \A q \in Purchase : ended'[q] => slot'[q] # "held"
        BY <1>0, <2>3 DEF AllocationsAreApart
    <2>5. \A p, q \in Purchase :
            p # q /\ Claims(q) /\ allocation'[q] # None =>
                /\ server[p] # None => server[p].allocation # allocation'[q]
                /\ Claims(p) => allocation'[p] # allocation'[q]
        <3>1. ASSUME NEW p \in Purchase \ {task}, server[p] # None
              PROVE  server[p].allocation # result.allocation
            BY <2>1, <2>2, <3>1 DEF ServersAreApart
        <3>2. ASSUME NEW q \in Purchase \ {task}, Claims(q), allocation[q] # None
              PROVE  result.allocation # allocation[q]
            BY <1>0, <2>1, <2>2, <3>2 DEF AllocationsAreApart
        <3>3. \A p, q \in Purchase : p # q /\ Claims(q) /\ allocation[q] # None =>
                /\ server[p] # None => server[p].allocation # allocation[q]
                /\ Claims(p) => allocation[p] # allocation[q]
            BY <1>0 DEF AllocationsAreApart
        <3>4. QED
            BY <2>1, <2>3, <3>1, <3>2, <3>3
    <2>6. QED
        BY <2>3, <2>4, <2>5 DEF AllocationsAreApart, Claims
<1>6. ASSUME NEW p \in Purchase, NEW s \in PurchaseStatus, NEW n \in BOOLEAN, Edit(p, s, n)
      PROVE  FALSE
    BY <1>6 DEF Edit, Meets
<1>7. QED
    <2>1. ASSUME NEW p \in Purchase, Lease(p) \/ Requeue(p) \/ ReopenSetup(p)
            \/ \E n \in Name \cup {None}, h \in Host : SubmitSetup(p, n, h)
          PROVE AllocationsAreApart'
        BY <1>3, <2>1 DEF Lease, Requeue, ReopenSetup, SubmitSetup, panelVars
    <2>2. CASE LookupServer \/ ReuseUser \/ CreateUser \/ RequestFails
        BY <1>3, <2>2 DEF LookupServer, ReuseUser, CreateUser, RequestFails, OnlyPanel,
           purchaseVars,
            panelVars
    <2>3. CASE EndAttempt \/ CompletionFails
        BY <1>3, <2>3 DEF EndAttempt, CompletionFails, panelVars
    <2>4. CASE UNCHANGED vars
        BY <1>3, <2>4 DEF vars, purchaseVars, panelVars
    <2>5. QED
        BY <1>1, <1>2, <1>4, <1>5, <1>6, <2>1, <2>2, <2>3, <2>4 DEF Next

(***************************************************************************)
(* Names                                                                   *)
(***************************************************************************)

\* What a customer's names are.
LEMMA NamesOfAre ==
    ASSUME NEW c, NEW n
    PROVE  n \in NamesOf(c) <=>
                \/ \E q \in Purchase : Owner[q] = c /\ Pending(q) /\ username[q] = n
                \/ link[c].name = n /\ n # None
BY DEF NamesOf

\* The names of the customers stay, and so does what is stored with them.
LEMMA NamesAgreeUnlessNamed ==
    ASSUME NoSetupGivenUp, NamesAgree, UNCHANGED <<named, username, link>>,
           \A p \in Purchase : named[p] => status'[p] \in {"paid", "completed"},
           \A p \in Purchase : allocation'[p] # None => named[p],
           pc' \in {"lookup", "user", "create", "finalize"} =>
                named[task'] /\ seen'.name = username[task'],
           pc' \in {"create", "finalize"} => result'.name \in NamesOf(Owner[task']),
           \A c \in Customer : panelUser'[c] \in NamesOf(c) \cup {None}
    PROVE  NamesAgree'
<1>1. \A p \in Purchase : Pending(p)' <=> Pending(p)
    BY DEF Pending, NamesAgree
<1>2. \A c : NamesOf(c)' = NamesOf(c)
    BY <1>1 DEF NamesOf
<1>3. QED
    BY <1>2 DEF NamesAgree

\* The name a setup stores is the customer's only one from then on.
LEMMA NamesAfterSubmit ==
    ASSUME Typing, AccountsExist, NoSetupGivenUp, NamesAgree, NEW p \in Purchase,
           NEW n \in Name \cup {None}, NEW h \in Host, SubmitSetup(p, n, h)
    PROVE  NamesAgree'
<1>0. /\ TypeOK /\ Owner[p] \in Customer /\ ~named[p]
      /\ status[p] \in {"paid", "completed"}
    BY ConstantsAssumption DEF Typing, SubmitSetup, TypeOK
<1>1. PICK who \in Identity :
            /\ who.name # None
            /\ username' = [username EXCEPT ![p] = who.name]
            /\ \/ Linked(Owner[p]) /\ who = link[Owner[p]]
               \/ /\ who.account = None /\ ~Linked(Owner[p])
                  /\ \E q \in Purchase \ {p} :
                        Owner[q] = Owner[p] /\ Pending(q) /\ username[q] = who.name
               \/ /\ who.account = None /\ ~Linked(Owner[p])
                  /\ \A q \in Purchase \ {p} : Owner[q] = Owner[p] => ~Pending(q)
                  /\ ~NameTaken(p, who.name)
    BY SubmittedName
<1>2. /\ UNCHANGED <<status, link, allocation, panelUser, pc, task, seen, result>>
      /\ named' = [named EXCEPT ![p] = TRUE]
    BY DEF SubmitSetup, panelVars, workerVars
<1>3. \A q \in Purchase \ {p} :
            /\ username'[q] = username[q] /\ named'[q] = named[q]
            /\ Pending(q)' <=> Pending(q)
    BY <1>0, <1>1, <1>2 DEF TypeOK, Pending
<1>4. username'[p] = who.name /\ named'[p] /\ Pending(p)' /\ ~Pending(p)
    BY <1>0, <1>1, <1>2 DEF TypeOK, Pending
<1>5. \A c \in Customer : NamesOf(c)' = NamesOf(c) \cup (IF c = Owner[p] THEN {who.name} ELSE {})
    <2>1. ASSUME NEW c \in Customer, NEW m \in NamesOf(c)'
          PROVE  m \in NamesOf(c) \/ (c = Owner[p] /\ m = who.name)
        BY <1>2, <1>3, <1>4, <2>1 DEF NamesOf
    <2>2. ASSUME NEW c \in Customer, NEW m \in NamesOf(c)
          PROVE  m \in NamesOf(c)'
        <3>1. CASE \E q \in Purchase : Owner[q] = c /\ Pending(q) /\ username[q] = m
            <4>1. PICK q \in Purchase \ {p} : Owner[q] = c /\ Pending(q) /\ username[q] = m
                BY <1>4, <3>1
            <4>2. QED
                BY <1>3, <4>1 DEF NamesOf
        <3>2. CASE link[c].name = m /\ m # None
            BY <1>2, <3>2 DEF NamesOf
        <3>3. QED
            BY <2>2, <3>1, <3>2, NamesOfAre
    <2>3. who.name \in NamesOf(Owner[p])'
        BY <1>4 DEF NamesOf
    <2>4. QED
        BY <2>1, <2>2, <2>3
<1>6. \/ who.name \in NamesOf(Owner[p])
      \/ NamesOf(Owner[p]) = {} /\ \A d \in Customer \ {Owner[p]} : who.name \notin NamesOf(d)
    <2>1. CASE who = link[Owner[p]]
        BY <1>1, <2>1 DEF NamesOf
    <2>2. CASE \E q \in Purchase \ {p} :
                    Owner[q] = Owner[p] /\ Pending(q) /\ username[q] = who.name
        BY <2>2 DEF NamesOf
    <2>3. CASE /\ ~Linked(Owner[p]) /\ ~NameTaken(p, who.name)
               /\ \A q \in Purchase \ {p} : Owner[q] = Owner[p] => ~Pending(q)
        <3>1. NamesOf(Owner[p]) = {}
            BY <1>4, <2>3 DEF NamesOf, Linked, Nobody
        <3>2. /\ \A c \in Customer \ {Owner[p]} : link[c].name # who.name
              /\ \A q \in Purchase \ {p} : Pending(q) => username[q] # who.name
            BY <2>3, NotTaken
        <3>3. \A d \in Customer \ {Owner[p]} : who.name \notin NamesOf(d)
            BY <1>4, <3>2 DEF NamesOf
        <3>4. QED
            BY <3>1, <3>3
    <2>4. QED
        BY <1>1, <2>1, <2>2, <2>3
<1>7. \A c, d \in Customer : \A a \in NamesOf(c)', b \in NamesOf(d)' : c = d <=> a = b
    <2>1. \A c, d \in Customer : \A a \in NamesOf(c), b \in NamesOf(d) : c = d <=> a = b
        BY DEF NamesAgree
    <2>2. \A c \in Customer \ {Owner[p]} : NamesOf(c)' = NamesOf(c)
        BY <1>5
    <2>3. NamesOf(Owner[p])' = NamesOf(Owner[p]) \cup {who.name}
        BY <1>0, <1>5
    <2>4. CASE who.name \in NamesOf(Owner[p])
        <3>1. \A c \in Customer : NamesOf(c)' = NamesOf(c)
            BY <1>5, <2>4
        <3>2. QED
            BY <2>1, <3>1
    <2>5. CASE /\ NamesOf(Owner[p]) = {}
               /\ \A d \in Customer \ {Owner[p]} : who.name \notin NamesOf(d)
        <3>1. NamesOf(Owner[p])' = {who.name}
            BY <2>3, <2>5
        <3>2. QED
            BY <1>0, <2>1, <2>2, <2>5, <3>1
    <2>6. QED
        BY <1>6, <2>4, <2>5
<1>8. \A c \in Customer : NamesOf(c) \subseteq NamesOf(c)'
    BY <1>5
<1>9. /\ \A q \in Purchase : named'[q] => status'[q] \in {"paid", "completed"} /\ username'[q] # None
      /\ \A q \in Purchase : allocation'[q] # None => named'[q]
    BY <1>0, <1>1, <1>2, <1>3, <1>4 DEF NamesAgree
<1>10. pc \in {"lookup", "user", "create", "finalize"} =>
            /\ task \in Purchase \ {p} /\ Owner[task] \in Customer
            /\ named[task] /\ seen.name = username[task]
    <2>1. pc # "idle" => task \in Purchase
        BY DEF Typing, TypeOK, WorkerKnows
    <2>2. pc \in {"lookup", "user", "create", "finalize"} =>
                named[task] /\ seen.name = username[task]
        BY DEF NamesAgree
    <2>3. QED
        BY <1>0, <2>1, <2>2, ConstantsAssumption
<1>11. /\ pc' \in {"lookup", "user", "create", "finalize"} =>
                named'[task'] /\ seen'.name = username'[task']
       /\ pc' \in {"create", "finalize"} => (result.name \in NamesOf(Owner[task]))'
    <2>1. pc \in {"lookup", "user", "create", "finalize"} =>
                named'[task] /\ seen.name = username'[task]
        BY <1>3, <1>10
    <2>2. pc \in {"create", "finalize"} => (result.name \in NamesOf(Owner[task]))'
        BY <1>2, <1>8, <1>10 DEF NamesAgree
    <2>3. QED
        BY <1>2, <2>1, <2>2
<1>12. \A c \in Customer : panelUser'[c] \in NamesOf(c)' \cup {None}
    BY <1>2, <1>8 DEF NamesAgree
<1>13. QED
    BY <1>7, <1>9, <1>11, <1>12 DEF NamesAgree

\* A setup is given only a name nobody else has, and the name the customer has
\* already.
LEMMA NamesAgreeStep ==
    Typing /\ NothingBeforePayment /\ AccountsExist /\ NamesAgree /\ [Next]_vars => NamesAgree'
<1> SUFFICES ASSUME Typing, NothingBeforePayment, AccountsExist, NamesAgree, [Next]_vars,
                    NoSetupGivenUp'
             PROVE  NamesAgree'
    BY DEF NamesAgree
<1>0. /\ TypeOK /\ WorkerKnows /\ NoSetupGivenUp
      /\ pc # "idle" => task \in Purchase /\ Owner[task] \in Customer
      /\ pc \in {"lookup", "user", "create", "finalize"} => pc # "idle"
    BY TroubleStays, ConstantsAssumption DEF Typing, TypeOK, WorkerKnows, NoSetupGivenUp
<1>01. /\ \A p \in Purchase : named[p] =>
                status[p] \in {"paid", "completed"} /\ username[p] # None /\ Pending(p)
       /\ \A p \in Purchase : allocation[p] # None => named[p]
       /\ pc \in {"lookup", "user", "create", "finalize"} =>
                named[task] /\ seen.name = username[task]
       /\ pc \in {"create", "finalize"} => result.name \in NamesOf(Owner[task])
       /\ \A c \in Customer : panelUser[c] \in NamesOf(c) \cup {None}
       /\ \A c, d \in Customer : \A m \in NamesOf(c), n \in NamesOf(d) : c = d <=> m = n
    BY <1>0 DEF NamesAgree, Pending
<1>02. pc \in {"lookup", "user", "create", "finalize"} => seen.name \in NamesOf(Owner[task])
    BY <1>0, <1>01 DEF NamesOf
<1>03. CASE UNCHANGED <<named, username, link, status, allocation, panelUser, pc, task, seen, result>>
    BY <1>0, <1>01, <1>03, NamesAgreeUnlessNamed
<1>04. ASSUME OnlyPanel, pc \in {"lookup", "user", "create"},
              pc' \in {"user", "create", "finalize", "failed", "refused"},
              pc' \in {"create", "finalize"} => result'.name \in NamesOf(Owner[task]),
              \A c \in Customer : panelUser'[c] \in NamesOf(c) \cup {None}
       PROVE  NamesAgree'
    <2>1. UNCHANGED <<named, username, link, status, allocation, task, seen>>
        BY <1>04 DEF OnlyPanel, purchaseVars, setupVars
    <2>2. pc' \in {"lookup", "user", "create", "finalize"} =>
                named[task'] /\ seen'.name = username[task']
        BY <1>01, <1>04, <2>1
    <2>3. QED
        BY <1>0, <1>01, <1>04, <2>1, <2>2, NamesAgreeUnlessNamed
<1>1. ASSUME NEW p \in Purchase, Buy(p) \/ ReleaseReady(p) PROVE NamesAgree'
    <2>1. UNCHANGED <<named, username, link, allocation, panelUser, pc, task, seen, result>>
        BY <1>1 DEF Buy, ReleaseReady, setupVars, panelVars, workerVars
    <2>2. \A q \in Purchase : named[q] => status'[q] \in {"paid", "completed"}
        BY <1>0, <1>01, <1>1 DEF Buy, ReleaseReady, TypeOK
    <2>3. QED
        BY <1>0, <1>01, <2>1, <2>2, NamesAgreeUnlessNamed
<1>2. ASSUME NEW p \in Purchase, NEW n \in Name \cup {None}, NEW h \in Host, SubmitSetup(p, n, h)
      PROVE  NamesAgree'
    BY <1>0, <1>2, NamesAfterSubmit
<1>3. ASSUME NEW p \in Purchase, Lease(p) PROVE NamesAgree'
    <2>1. /\ UNCHANGED <<named, username, link, status, allocation, panelUser>>
          /\ task' = p /\ pc' \in {"lookup", "refused"}
          /\ pc' = "lookup" => named[p]
          /\ seen'.name = username[p]
        BY <1>3 DEF Lease, setupVars, panelVars, ContractOk
    <2>2. QED
        BY <1>0, <1>01, <2>1, NamesAgreeUnlessNamed
<1>4. ASSUME NEW p \in Purchase,
             SubscriptionEnds(p) \/ ReopenSetup(p)
                \/ \E s \in PurchaseStatus, n \in BOOLEAN : Edit(p, s, n)
      PROVE  FALSE
    BY <1>4 DEF SubscriptionEnds, ReopenSetup, Edit, Meets, NoSetupGivenUp
<1>5. CASE LookupServer
    <2>1. /\ OnlyPanel /\ UNCHANGED panelUser /\ pc = "lookup" /\ pc' \in {"user", "finalize"}
          /\ pc' = "finalize" => result'.name = seen.name
        BY <1>5 DEF LookupServer, panelVars
    <2>2. QED
        BY <1>01, <1>02, <1>04, <2>1
<1>6. CASE ReuseUser
    <2>1. /\ OnlyPanel /\ UNCHANGED panelUser /\ pc = "user" /\ pc' = "create"
          /\ \/ result'.name = seen.name
             \/ panelUser[Owner[task]] # None /\ result'.name = panelUser[Owner[task]]
        BY <1>6 DEF ReuseUser, panelVars, Known
    <2>2. result'.name \in NamesOf(Owner[task])
        BY <1>0, <1>01, <1>02, <2>1
    <2>3. QED
        BY <1>01, <1>04, <2>1, <2>2
<1>7. CASE CreateUser
    <2>1. /\ OnlyPanel /\ pc = "user" /\ pc' \in {"create", "failed", "refused"}
          /\ \/ pc' = "refused" /\ UNCHANGED panelUser
             \/ /\ panelUser' = [panelUser EXCEPT ![Owner[task]] = seen.name]
                /\ result'.name = seen.name
        BY <1>7 DEF CreateUser, panelVars, Known
    <2>2. \A c \in Customer : panelUser'[c] \in NamesOf(c) \cup {None}
        BY <1>0, <1>01, <1>02, <2>1 DEF TypeOK
    <2>3. QED
        BY <1>02, <1>04, <2>1, <2>2
<1>8. CASE CreateServer
    <2>1. /\ OnlyPanel /\ UNCHANGED panelUser /\ pc = "create"
          /\ pc' \in {"finalize", "failed", "refused"}
        BY <1>8 DEF CreateServer
    <2>2. result'.name = result.name
        BY <1>0, <1>8 DEF CreateServer, TypeOK
    <2>3. QED
        BY <1>01, <1>04, <2>1, <2>2
<1>9. CASE RequestFails
    <2>1. /\ OnlyPanel /\ UNCHANGED panelUser /\ pc \in {"lookup", "user", "create"}
          /\ pc' = "failed"
        BY <1>9 DEF RequestFails, panelVars
    <2>2. QED
        BY <1>01, <1>04, <2>1
<1>10. CASE EndAttempt \/ CompletionFails
    <2>1. /\ UNCHANGED <<named, username, link, status, allocation, panelUser>> /\ pc' = "idle"
        BY <1>10 DEF EndAttempt, CompletionFails, GiveBack, WorkerDone, setupVars, panelVars
    <2>2. QED
        BY <1>0, <1>01, <2>1, NamesAgreeUnlessNamed
<1>11. CASE Complete
    <2>1. /\ UNCHANGED <<named, status, panelUser>> /\ pc' = "idle"
          /\ task \in Purchase /\ Owner[task] \in Customer /\ named[task]
          /\ result.name \in NamesOf(Owner[task]) /\ result.name # None
        BY <1>0, <1>01, <1>11 DEF Complete, WorkerDone, panelVars, WorkerKnows
    <2>2. /\ \A q \in Purchase : username'[q] = IF q = task THEN result.name ELSE username[q]
          /\ \A c \in Customer :
                link'[c].name = IF c = Owner[task] THEN result.name ELSE link[c].name
          /\ \A q \in Purchase : allocation'[q] # None => named[q]
        BY <1>0, <1>01, <1>11, <2>1 DEF Complete, TypeOK
    <2>3. \A q \in Purchase : (Pending(q)' <=> Pending(q)) /\ (Pending(q) <=> named[q])
        BY <1>01, <2>1, <2>2 DEF Pending
    <2>4. \A c \in Customer : NamesOf(c)' = NamesOf(c)
        <3>1. ASSUME NEW c \in Customer, NEW m \in NamesOf(c)' PROVE m \in NamesOf(c)
            BY <2>1, <2>2, <2>3, <3>1 DEF NamesOf
        <3>2. ASSUME NEW c \in Customer, NEW m \in NamesOf(c) PROVE m \in NamesOf(c)'
            <4>1. CASE c = Owner[task]
                <5>1. m = result.name
                    BY <1>01, <2>1, <3>2, <4>1
                <5>2. QED
                    BY <2>1, <2>2, <4>1, <5>1 DEF NamesOf
            <4>2. CASE c # Owner[task]
                BY <2>1, <2>2, <2>3, <3>2, <4>2 DEF NamesOf
            <4>3. QED
                BY <4>1, <4>2
        <3>3. QED
            BY <3>1, <3>2
    <2>5. /\ \A p \in Purchase : named'[p] =>
                status'[p] \in {"paid", "completed"} /\ username'[p] # None
          /\ \A p \in Purchase : allocation'[p] # None => named'[p]
          /\ \A c \in Customer : panelUser'[c] \in NamesOf(c)' \cup {None}
        BY <1>01, <2>1, <2>2, <2>4
    <2>6. \A c, d \in Customer : \A m \in NamesOf(c)', n \in NamesOf(d)' : c = d <=> m = n
        BY <1>01, <2>4
    <2>7. QED
        BY <2>1, <2>5, <2>6 DEF NamesAgree
<1>12. QED
    <2>1. ASSUME NEW p \in Purchase, Requeue(p) \/ RemoveServer(p) PROVE NamesAgree'
        BY <1>03, <2>1 DEF Requeue, RemoveServer, purchaseVars, setupVars, panelVars, workerVars
    <2>2. CASE UNCHANGED vars
        BY <1>03, <2>2 DEF vars, purchaseVars, setupVars, panelVars, workerVars
    <2>3. QED
        BY <1>1, <1>2, <1>3, <1>4, <1>5, <1>6, <1>7, <1>8, <1>9, <1>10, <1>11, <2>1, <2>2 DEF Next

\* A name comes to a row with the panel's answer.
LEMMA NamesAreThePanelsStep ==
    /\ Typing /\ NothingBeforePayment /\ AccountsExist /\ NamesAreThePanels
    /\ [Next]_vars
    => NamesAreThePanels'
<1> SUFFICES ASSUME Typing, NothingBeforePayment, AccountsExist, NamesAreThePanels, [Next]_vars,
                    trouble' \cap {"edit", "lost"} = {}
             PROVE  NamesAreThePanels'
    BY DEF NamesAreThePanels
<1>0. /\ TypeOK /\ WorkerKnows
      /\ pc # "idle" => task \in Purchase /\ Owner[task] \in Customer /\ job[task] = "leased"
      /\ \A p \in Purchase : Owner[p] \in Customer
    BY ConstantsAssumption DEF Typing, TypeOK, WorkerKnows
<1>01. /\ \A p \in Purchase : account[p] # None => username[p] = panelUser[Owner[p]]
       /\ \A c \in Customer : link[c].account # None => link[c].name = panelUser[c]
       /\ seen.account # None => seen.name = panelUser[Owner[task]]
       /\ \A p \in Purchase : server[p] # None /\ slot[p] = "held" =>
                pc = "finalize" /\ task = p
       /\ pc = "create" \/ (pc = "finalize" /\ slot[task] = "held") =>
                result.name = panelUser[Owner[task]]
    BY TroubleStays DEF NamesAreThePanels
<1>02. ~Meets("lost") /\ ~Meets("edit")
    BY DEF Meets
<1>1. CASE UNCHANGED <<account, username, panelUser, link, server, slot, workerVars>>
    BY <1>01, <1>1 DEF NamesAreThePanels, workerVars
<1>2. ASSUME NEW p \in Purchase, Buy(p) PROVE NamesAreThePanels'
    <2>1. /\ UNCHANGED <<account, username, panelUser, link, server, pc, task, seen, result>>
          /\ server[p] = None /\ (pc # "idle" => p # task)
        BY <1>0, <1>2 DEF Buy, setupVars, panelVars, workerVars, NothingBeforePayment
    <2>2. \A q \in Purchase \ {p} : slot'[q] = slot[q]
        BY <1>0, <1>2 DEF Buy, TypeOK
    <2>3. QED
        BY <1>0, <1>01, <2>1, <2>2 DEF NamesAreThePanels
<1>3. ASSUME NEW p \in Purchase, SubscriptionEnds(p) \/ RemoveServer(p) PROVE NamesAreThePanels'
    <2>1. /\ UNCHANGED <<account, username, panelUser, link, pc, task, seen, result>>
          /\ \A q \in Purchase : slot'[q] = "held" => slot[q] = "held"
          /\ \A q \in Purchase : server'[q] \in {server[q], None}
        BY <1>0, <1>3 DEF SubscriptionEnds, RemoveServer, purchaseVars, setupVars, panelVars,
           workerVars,
            TypeOK
    <2>2. QED
        BY <1>0, <1>01, <2>1 DEF NamesAreThePanels
<1>4. ASSUME NEW p \in Purchase, NEW n \in Name \cup {None}, NEW h \in Host, SubmitSetup(p, n, h)
      PROVE  NamesAreThePanels'
    <2>1. PICK who \in Identity :
            /\ username' = [username EXCEPT ![p] = who.name]
            /\ account' = [account EXCEPT ![p] = who.account]
            /\ who.account = None \/ who = link[Owner[p]]
        BY <1>4, SubmittedName
    <2>2. UNCHANGED <<panelUser, link, server, slot, pc, task, seen, result>>
        BY <1>4 DEF SubmitSetup, panelVars, workerVars
    <2>3. \A q \in Purchase : account'[q] # None => username'[q] = panelUser[Owner[q]]
        BY <1>0, <1>01, <2>1 DEF TypeOK
    <2>4. QED
        BY <1>01, <2>2, <2>3 DEF NamesAreThePanels
<1>5. ASSUME NEW p \in Purchase, ReopenSetup(p) PROVE NamesAreThePanels'
    <2>1. /\ UNCHANGED <<account, panelUser, link, server, slot, pc, task, seen, result>>
          /\ account[p] = None /\ \A q \in Purchase \ {p} : username'[q] = username[q]
        BY <1>0, <1>5 DEF ReopenSetup, panelVars, workerVars, TypeOK
    <2>2. QED
        BY <1>01, <2>1 DEF NamesAreThePanels
<1>6. ASSUME NEW p \in Purchase, Lease(p) PROVE NamesAreThePanels'
    <2>1. /\ UNCHANGED <<account, username, panelUser, link, server, slot>> /\ pc = "idle"
          /\ task' = p /\ pc' \in {"lookup", "refused"}
          /\ seen' = [account |-> account[p], name |-> username[p]]
        BY <1>6 DEF Lease, setupVars, panelVars
    <2>2. QED
        BY <1>01, <2>1 DEF NamesAreThePanels
<1>7. CASE LookupServer
    <2>1. /\ UNCHANGED <<account, username, panelUser, link, server, slot, task, seen>>
          /\ pc = "lookup" /\ pc' \in {"user", "finalize"}
          /\ pc' = "finalize" => server[task] # None
        BY <1>7 DEF LookupServer, OnlyPanel, purchaseVars, setupVars, panelVars
    <2>2. QED
        BY <1>0, <1>01, <2>1 DEF NamesAreThePanels
<1>8. CASE ReuseUser
    <2>1. /\ UNCHANGED <<account, username, panelUser, link, server, slot, task, seen>>
          /\ pc = "user" /\ pc' = "create"
          /\ \/ seen.account # None /\ result'.name = seen.name
             \/ result'.name = panelUser[Owner[task]]
        BY <1>8 DEF ReuseUser, OnlyPanel, purchaseVars, setupVars, panelVars, Known
    <2>2. QED
        BY <1>01, <2>1 DEF NamesAreThePanels
<1>9. CASE CreateUser
    <2>1. /\ UNCHANGED <<account, username, link, server, slot, task, seen>>
          /\ pc = "user" /\ seen.account = None /\ panelUser[Owner[task]] = None
          /\ \/ pc' = "refused" /\ UNCHANGED panelUser
             \/ /\ pc' = "create" /\ result'.name = seen.name
                /\ panelUser' = [panelUser EXCEPT ![Owner[task]] = seen.name]
        BY <1>02, <1>9 DEF CreateUser, OnlyPanel, purchaseVars, setupVars, panelVars, Known
    <2>2. /\ \A p \in Purchase : account[p] # None => panelUser'[Owner[p]] = panelUser[Owner[p]]
          /\ \A c \in Customer : link[c].account # None => panelUser'[c] = panelUser[c]
          /\ pc' = "create" => panelUser'[Owner[task]] = seen.name
        BY <1>0, <2>1 DEF AccountsExist, TypeOK
    <2>3. QED
        BY <1>01, <2>1, <2>2 DEF NamesAreThePanels
<1>10. CASE CreateServer
    <2>1. /\ UNCHANGED <<account, username, panelUser, link, slot, task, seen>>
          /\ pc = "create" /\ task \in Purchase
          /\ \/ pc' = "refused" /\ UNCHANGED server
             \/ pc' = "finalize" /\ \A q \in Purchase \ {task} : server'[q] = server[q]
        BY <1>0, <1>02, <1>10 DEF CreateServer, OnlyPanel, purchaseVars, setupVars, TypeOK
    <2>2. result'.name = result.name
        BY <1>0, <1>10 DEF CreateServer, TypeOK
    <2>3. QED
        BY <1>01, <2>1, <2>2 DEF NamesAreThePanels
<1>11. CASE EndAttempt
    <2>1. /\ UNCHANGED <<account, username, panelUser, link, server, slot>>
          /\ pc \in {"refused", "failed"} /\ pc' = "idle" /\ seen' = Nobody
        BY <1>11 DEF EndAttempt, GiveBack, WorkerDone, setupVars, panelVars
    <2>2. QED
        BY <1>01, <2>1 DEF NamesAreThePanels, Nobody
<1>12. CASE CompletionFails
    <2>1. /\ UNCHANGED <<account, username, panelUser, link, server, slot>>
          /\ pc = "finalize" /\ CompletionRefused /\ pc' = "idle" /\ seen' = Nobody
        BY <1>12 DEF CompletionFails, GiveBack, WorkerDone, setupVars, panelVars
    <2>2. slot[task] # "held"
        <3>1. SUFFICES ASSUME slot[task] = "held", NEW c \in Customer \ {Owner[task]},
                              link[c].name = result.name
                       PROVE  FALSE
            BY <2>1 DEF CompletionRefused
        <3>2. result.name = panelUser[Owner[task]] /\ result.name # None
            BY <1>0, <1>01, <2>1, <3>1 DEF WorkerKnows
        <3>3. link[c].name = panelUser[c]
            BY <1>01, <3>1, <3>2 DEF AccountsExist
        <3>4. QED
            BY <1>0, <2>1, <3>1, <3>2, <3>3 DEF AccountsExist
    <2>3. QED
        BY <1>01, <2>1, <2>2 DEF NamesAreThePanels, Nobody
<1>13. CASE Complete
    <2>1. /\ UNCHANGED <<panelUser, server>> /\ task \in Purchase /\ Owner[task] \in Customer
          /\ pc = "finalize" /\ slot[task] = "held" /\ pc' = "idle" /\ seen' = Nobody
        BY <1>0, <1>13 DEF Complete, CompletionRefused, WorkerDone, panelVars
    <2>2. result.name = panelUser[Owner[task]]
        BY <1>01, <2>1
    <2>3. /\ \A q \in Purchase \ {task} :
                account'[q] = account[q] /\ username'[q] = username[q] /\ slot'[q] = slot[q]
          /\ username'[task] = result.name /\ slot'[task] = "allocated"
          /\ \A c \in Customer \ {Owner[task]} : link'[c] = link[c]
          /\ link'[Owner[task]].name = result.name
        BY <1>0, <1>13, <2>1 DEF Complete, TypeOK
    <2>4. QED
        BY <1>01, <2>1, <2>2, <2>3 DEF NamesAreThePanels, Nobody
<1>14. QED
    <2>1. ASSUME NEW p \in Purchase, ReleaseReady(p) \/ Requeue(p) PROVE NamesAreThePanels'
        BY <1>1, <2>1 DEF ReleaseReady, Requeue, setupVars, panelVars
    <2>2. ~RequestFails /\ \A p \in Purchase, s \in PurchaseStatus, n \in BOOLEAN : ~Edit(p, s, n)
        BY <1>02 DEF RequestFails, Edit
    <2>3. CASE UNCHANGED vars
        BY <1>1, <2>3 DEF vars, purchaseVars, setupVars, panelVars
    <2>4. QED
        BY <1>2, <1>3, <1>4, <1>5, <1>6, <1>7, <1>8, <1>9, <1>10, <1>11, <1>12, <1>13,
            <2>1, <2>2, <2>3 DEF Next

(***************************************************************************)
(* Theorems                                                                *)
(***************************************************************************)

\* The invariant holds at the start.
LEMMA IndInvInit == Init => IndInv
<1> SUFFICES ASSUME Init PROVE IndInv
    OBVIOUS
<1>1. Typing
    BY TypingInit
<1>2. NothingBeforePayment /\ HostsAreApart
    BY DEF Init, NothingBeforePayment, HostsAreApart
<1>3. AccountsExist /\ ServersAreApart
    BY DEF Init, AccountsExist, ServersAreApart, Nobody
<1>4. AllocationsAreApart /\ NamesAreThePanels
    BY DEF Init, AllocationsAreApart, NamesAreThePanels, Nobody
<1>5. NamesAgree
    <2>1. \A c \in Customer : NamesOf(c) = {}
        BY DEF Init, NamesOf, Pending, Nobody
    <2>2. QED
        BY <2>1 DEF Init, NamesAgree
<1>6. QED
    BY <1>1, <1>2, <1>3, <1>4, <1>5 DEF IndInv

\* The invariant is inductive: every setup, every request of the worker, every
\* step of Stripe, the admin and the operator keeps it.
THEOREM Invariance == Spec => []IndInv
<1>1. IndInv /\ [Next]_vars => IndInv'
    BY TypingStep, NothingBeforePaymentStep, AccountsExistStep, ServersAreApartStep,
        HostsAreApartStep, AllocationsAreApartStep, NamesAgreeStep, NamesAreThePanelsStep
    DEF IndInv
<1>2. QED
    BY IndInvInit, <1>1, PTL DEF Spec

\* Every variable keeps its type; a staged password belongs to a setup without a
\* panel user, and the worker's job is the only one that is leased.
THEOREM TypeCorrect == Spec => []TypeOK
<1>1. IndInv => TypeOK
    BY DEF IndInv, Typing
<1>2. QED
    BY <1>1, Invariance, PTL

\* Links, rows and servers carry the panel user of their own customer, whatever
\* names customers enter and whatever answers are lost.
THEOREM AccountsAreOwn == Spec => []OwnAccount
<1>1. IndInv => OwnAccount
    BY DEF IndInv, Typing
<1>2. QED
    BY <1>1, Invariance, PTL

\* No two rows that are neither cancelled nor expired hold one host name, and
\* without an edit no two of them record one allocation.
THEOREM ExclusiveClaims == Spec => []ClaimsAreExclusive
<1>1. IndInv => ClaimsAreExclusive
    BY DEF IndInv, HostsAreApart, AllocationsAreApart, ClaimsAreExclusive
<1>2. QED
    BY <1>1, Invariance, PTL

\* As long as no setup was given up, a customer has at most one name and shares it
\* with nobody.
THEOREM NamesAreUnique == Spec => []OneNameOneCustomer
<1>1. IndInv => OneNameOneCustomer
    <2>1. SUFFICES ASSUME IndInv, NoSetupGivenUp, NEW c \in Customer, NEW d \in Customer
                   PROVE  /\ Cardinality(NamesOf(c)) <= 1
                          /\ c # d => NamesOf(c) \cap NamesOf(d) = {}
        BY DEF OneNameOneCustomer, NoSetupGivenUp
    <2>2. \A m \in NamesOf(c), n \in NamesOf(d) : c = d <=> m = n
        BY <2>1 DEF IndInv, NamesAgree
    <2>3. \A m, n \in NamesOf(c) : m = n
        BY <2>1 DEF IndInv, NamesAgree
    <2>4. Cardinality(NamesOf(c)) <= 1
        <3>1. CASE NamesOf(c) = {}
            BY <3>1, FS_EmptySet
        <3>2. CASE NamesOf(c) # {}
            <4>1. PICK m : NamesOf(c) = {m}
                BY <2>3, <3>2
            <4>2. Cardinality({m}) = 1
                BY FS_Singleton
            <4>3. QED
                BY <4>1, <4>2
        <3>3. QED
            BY <3>1, <3>2
    <2>5. QED
        BY <2>2, <2>4
<1>2. QED
    BY <1>1, Invariance, PTL

\* The user name of a provisioned purchase is the one its customer has on the
\* panel, unless an edit or a lost answer on top of a setup that was given up came
\* between.
THEOREM MailedNameIsThePanels == Spec => []MailedLoginWorks
<1>1. IndInv => MailedLoginWorks
    <2>1. SUFFICES ASSUME IndInv, "edit" \notin trouble,
                          "lost" \in trouble => trouble \cap {"reopen", "ends"} = {},
                          NEW p \in Purchase, allocation[p] # None
                   PROVE  username[p] = panelUser[Owner[p]]
        BY DEF MailedLoginWorks
    <2>2. account[p] # None /\ panelUser[Owner[p]] # None /\ Owner[p] \in Customer
        BY <2>1, ConstantsAssumption DEF IndInv, AccountsExist
    <2>3. CASE "lost" \notin trouble
        BY <2>1, <2>2, <2>3 DEF IndInv, NamesAreThePanels
    <2>4. CASE "lost" \in trouble
        <3>1. NoSetupGivenUp
            BY <2>1, <2>4 DEF NoSetupGivenUp
        <3>2. Pending(p)
            BY <2>1, <3>1 DEF IndInv, NamesAgree, Pending
        <3>3. username[p] \in NamesOf(Owner[p]) /\ panelUser[Owner[p]] \in NamesOf(Owner[p])
            BY <2>1, <2>2, <3>1, <3>2 DEF IndInv, NamesAgree, NamesOf
        <3>4. QED
            BY <2>1, <2>2, <3>1, <3>3 DEF IndInv, NamesAgree
    <2>5. QED
        BY <2>3, <2>4
<1>2. QED
    BY <1>1, Invariance, PTL

=============================================================================
