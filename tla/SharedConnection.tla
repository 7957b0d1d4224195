--------------------------- MODULE SharedConnection ---------------------------
(***************************************************************************)
(* The one SQLite connection that all handlers of the process share.       *)
(*                                                                         *)
(* Source: db/index.js, db/queries.js and db/transactions.js.  A statement *)
(* is one step, whoever issues it; the connection does not know for whom.  *)
(* So a statement that somebody issues while a transaction of somebody     *)
(* else is open becomes a part of that transaction, a COMMIT or ROLLBACK   *)
(* ends whatever transaction is open, and a BEGIN fails when one is open.  *)
(***************************************************************************)

CONSTANTS
    Request,   \* the requests that issue statements
    Nobody     \* no request; no content

ASSUME NobodyAssumption == Nobody \notin Request

VARIABLES
    db,        \* what a SELECT sees
    kept,      \* what it saw before the open transaction began
    opener,    \* whose BEGIN opened it, Nobody when the connection autocommits
    writers    \* whose statements are in it

connection == <<db, kept, opener, writers>>

Open == opener # Nobody

\* The connection on a database with this content.
Connected(content) ==
    /\ db = content
    /\ kept = Nobody
    /\ opener = Nobody
    /\ writers = {}

\* Mutant of Writes: a statement outside a transaction waits for a COMMIT, too.
WritesLater(r, new) ==
    /\ db' = new
    /\ writers' = writers \cup {r}
    /\ kept' = IF Open THEN kept ELSE db
    /\ UNCHANGED opener

\* A statement of r that changes the tables to new.
Writes(r, new) ==
    /\ db' = new
    /\ writers' = IF Open THEN writers \cup {r} ELSE {}
    /\ UNCHANGED <<kept, opener>>

\* BEGIN IMMEDIATE TRANSACTION of r.
Begins(r) ==
    /\ ~Open
    /\ kept' = db
    /\ opener' = r
    /\ UNCHANGED <<db, writers>>

\* "cannot start a transaction within a transaction"
BeginFails == Open /\ UNCHANGED connection

\* No transaction is open any more.
Ends ==
    /\ kept' = Nobody
    /\ opener' = Nobody
    /\ writers' = {}

\* COMMIT
Commits == Open /\ Ends /\ UNCHANGED db

\* "cannot commit - no transaction is active"
CommitFails == ~Open /\ UNCHANGED connection

\* What is left when the open transaction is undone.
Undone == IF Open THEN kept ELSE db

\* ROLLBACK; the error when no transaction is active is swallowed.
RollsBack == Ends /\ db' = Undone

\* Undoing the open transaction undoes statements of others than r as well.
HurtsOthers(r) == ~(writers \subseteq {r})

ConnectionTypeOK(Content) ==
    /\ db \in Content
    /\ kept \in Content \cup {Nobody}
    /\ opener \in Request \cup {Nobody}
    /\ writers \subseteq Request
    /\ ~Open => kept = Nobody /\ writers = {}

=============================================================================
