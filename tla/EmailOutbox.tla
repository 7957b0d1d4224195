---------------------------- MODULE EmailOutbox ----------------------------
(***************************************************************************)
(* The e-mail outbox: the emailOutbox table, the worker's e-mail lane and  *)
(* the provider.                                                           *)
(*                                                                         *)
(* Source: backend/services/emailOutbox.js, services/emailProvider.js and  *)
(* workers/fulfillmentWorker.js.  A message stands for an idempotency key; *)
(* texts and recipients are left out.                                      *)
(*                                                                         *)
(* A database statement, or the lease transaction, is one step.  Every     *)
(* request to the provider separates two steps: another iteration may find *)
(* the lease expired while the first one still waits for its answer.       *)
(*                                                                         *)
(* Time is two facts: a lease has run out (LeaseRunsOut) and availableAt   *)
(* has passed (RetryFallsDue).                                             *)
(***************************************************************************)
EXTENDS Naturals, FiniteSets

CONSTANTS
    Message,        \* idempotency keys of the outbox
    NoMessage,      \* what an idle worker works on
    Worker,         \* concurrent runs of runEmailOutboxWorkerIteration
    MaxAttempts,    \* DEFAULT_EMAIL_OUTBOX_MAX_ATTEMPTS
    RecoveryLimit,  \* DEFAULT_EMAIL_OUTBOX_RECOVERY_LIMIT
    MaxFaults       \* bound: process crashes and failing statements

ASSUME ConstantsAssumption ==
    /\ NoMessage \notin Message
    /\ MaxAttempts \in Nat \ {0}
    /\ RecoveryLimit \in Nat \ {0}
    /\ MaxFaults \in Nat

VARIABLES
    (* emailOutbox *)
    state,       \* "none" before the row exists
    lastError,   \* why the last attempt failed, "none" for NULL
    attempts,
    lease,       \* leaseKey, 0 for NULL
    leaseLive,   \* leaseExpiresAt is in the future
    due,         \* availableAt has passed
    (* the worker's iteration, in memory *)
    pc,          \* what the iteration does next
    stale,       \* the expired rows it still has to recover, with their lease keys
    task,        \* message.id
    key,         \* message.leaseKey
    tried,       \* message.attempts of the leased snapshot
    answer,      \* what the provider call came to
    issued,      \* lease keys issued for a message; generateOpaqueToken never repeats one
    (* the provider *)
    accepted,    \* the leases under which it accepted a copy of the message
    orphan,      \* leases whose request outlived the process
    (* bound *)
    faults

rowVars == <<state, lastError, attempts, lease, leaseLive, due>>
workerVars == <<pc, stale, task, key, tried, answer, issued>>
providerVars == <<accepted, orphan>>

vars == <<rowVars, workerVars, providerVars, faults>>

OutboxState == {"queued", "sending", "sent", "failed"}

\* delivery errors are retryable or not; the third is the text of
\* getExpiredLeaseFailureMessage.
Failure == {"retryable", "permanent", "lease_expired"}

Init ==
    /\ state = [m \in Message |-> "none"]
    /\ lastError = [m \in Message |-> "none"]
    /\ attempts = [m \in Message |-> 0]
    /\ lease = [m \in Message |-> 0]
    /\ leaseLive = [m \in Message |-> FALSE]
    /\ due = [m \in Message |-> FALSE]
    /\ pc = [w \in Worker |-> "idle"]
    /\ stale = [w \in Worker |-> {}]
    /\ task = [w \in Worker |-> NoMessage]
    /\ key = [w \in Worker |-> 0]
    /\ tried = [w \in Worker |-> 0]
    /\ answer = [w \in Worker |-> "none"]
    /\ issued = [m \in Message |-> 0]
    /\ accepted = [m \in Message |-> {}]
    /\ orphan = [m \in Message |-> {}]
    /\ faults = 0

(***************************************************************************)
(* Enqueueing                                                              *)
(***************************************************************************)

\* Mutant of Enqueue: the second request for a key queues the row again.
EnqueueAgain(m) ==
    /\ state[m] # "sending"
    /\ state' = [state EXCEPT ![m] = "queued"]
    /\ due' = [due EXCEPT ![m] = TRUE]
    /\ UNCHANGED <<lastError, attempts, lease, leaseLive, workerVars, providerVars, faults>>

\* INSERT .. ON CONFLICT(idempotencyKey) DO NOTHING: only the first request
\* for a key makes a row, whatever became of that row since.
Enqueue(m) ==
    /\ state' = [state EXCEPT ![m] = IF @ = "none" THEN "queued" ELSE @]
    /\ due' = [due EXCEPT ![m] = @ \/ state[m] = "none"]
    /\ UNCHANGED <<lastError, attempts, lease, leaseLive, workerVars, providerVars, faults>>

(***************************************************************************)
(* The start of an iteration: recovery of expired leases                   *)
(***************************************************************************)

\* Mutant of Expired: only rows with an attempt left are looked for.
ExpiredWithAttempts(m) ==
    state[m] = "sending" /\ ~leaseLive[m] /\ attempts[m] < MaxAttempts

Expired(m) == state[m] = "sending" /\ ~leaseLive[m]

\* recoverExpiredEmailOutboxLeases selects the expired rows, outside of any
\* transaction.
BeginIteration(w) ==
    /\ pc[w] = "idle"
    /\ \E rows \in SUBSET {m \in Message : Expired(m)} :
            /\ \/ rows = {m \in Message : Expired(m)}
               \/ Cardinality(rows) = RecoveryLimit
            /\ stale' = [stale EXCEPT ![w] = {<<m, lease[m]>> : m \in rows}]
    /\ pc' = [pc EXCEPT ![w] = "recover"]
    /\ UNCHANGED <<rowVars, task, key, tried, answer, issued, providerVars, faults>>

\* reconcileDelivery: the provider proves acceptance when it finds exactly one
\* message with the key.  It may also answer nothing: the log provider
\* never does, Postmark's search may fail or lag behind.
Proof(m, proof) == proof => \E k \in accepted[m] : accepted[m] = {k}

Reconcile(w, m, k, proof) ==
    /\ pc[w] = "recover"
    /\ <<m, k>> \in stale[w]
    /\ Proof(m, proof)
    /\ stale' = [stale EXCEPT ![w] = @ \ {<<m, k>>}]
    /\ task' = [task EXCEPT ![w] = m]
    /\ key' = [key EXCEPT ![w] = k]
    /\ answer' = [answer EXCEPT ![w] = IF proof THEN "ok" ELSE "none"]
    /\ pc' = [pc EXCEPT ![w] = "settle"]
    /\ UNCHANGED <<rowVars, tried, issued, providerVars, faults>>

\* WHERE id = ? AND state = 'sending' AND leaseKey = ?
OwnsLease(w) == state[task[w]] = "sending" /\ lease[task[w]] = key[w]

\* The row leaves the state sending and its lease columns are cleared.
EndLease(m, newState, error) ==
    /\ state' = [state EXCEPT ![m] = newState]
    /\ lastError' = [lastError EXCEPT ![m] = error]
    /\ lease' = [lease EXCEPT ![m] = 0]
    /\ leaseLive' = [leaseLive EXCEPT ![m] = FALSE]

RowUnchanged == UNCHANGED rowVars

\* Mutant of ForgetMessage: the iteration keeps its message.
KeepMessage(w, next) ==
    /\ pc' = [pc EXCEPT ![w] = next]
    /\ answer' = [answer EXCEPT ![w] = "none"]
    /\ UNCHANGED <<task, key, tried, issued>>

\* The iteration forgets its message and goes on at the given point.
ForgetMessage(w, next) ==
    /\ pc' = [pc EXCEPT ![w] = next]
    /\ task' = [task EXCEPT ![w] = NoMessage]
    /\ key' = [key EXCEPT ![w] = 0]
    /\ tried' = [tried EXCEPT ![w] = 0]
    /\ answer' = [answer EXCEPT ![w] = "none"]
    /\ UNCHANGED issued

\* Mutant of FailClosed: the failed row keeps its attempts.
FailOpen(m) ==
    /\ EndLease(m, "failed", "lease_expired")
    /\ due' = [due EXCEPT ![m] = TRUE]
    /\ UNCHANGED attempts

\* Automatic resend skipped: the attempts are used up.
FailClosed(m) ==
    /\ EndLease(m, "failed", "lease_expired")
    /\ attempts' = [attempts EXCEPT ![m] = IF @ < MaxAttempts THEN MaxAttempts ELSE @]
    /\ due' = [due EXCEPT ![m] = TRUE]

\* Mutant of Recover: an expired lease counts as sent.
RecoverAsSent(w) ==
    /\ pc[w] = "settle"
    /\ IF OwnsLease(w)
       THEN EndLease(task[w], "sent", "none") /\ UNCHANGED <<attempts, due>>
       ELSE RowUnchanged
    /\ ForgetMessage(w, "recover")
    /\ UNCHANGED <<stale, providerVars, faults>>

\* What the iteration does with one expired row once the provider has answered.
Recover(w) ==
    /\ pc[w] = "settle"
    /\ \/ /\ OwnsLease(w)
          /\ answer[w] = "ok"
          /\ EndLease(task[w], "sent", "none")
          /\ UNCHANGED <<attempts, due>>
       \/ /\ OwnsLease(w)
          /\ answer[w] = "none"
          /\ FailClosed(task[w])
       \/ /\ ~OwnsLease(w)
          /\ RowUnchanged
    /\ ForgetMessage(w, "recover")
    /\ UNCHANGED <<stale, providerVars, faults>>

(***************************************************************************)
(* The message of an iteration                                             *)
(***************************************************************************)

\* Mutant of Leasable: a failed row is always worth another attempt.
LeasableAgain(m) == due[m] /\ state[m] \in {"queued", "failed"}

Leasable(m) ==
    /\ due[m]
    /\ state[m] = "queued" \/ (state[m] = "failed" /\ attempts[m] < MaxAttempts)

\* leaseNextEmailOutboxMessage, after the recovery.
Lease(w, m) ==
    /\ pc[w] = "recover"
    /\ stale[w] = {}
    /\ Leasable(m)
    /\ state' = [state EXCEPT ![m] = "sending"]
    /\ lastError' = [lastError EXCEPT ![m] = "none"]
    /\ attempts' = [attempts EXCEPT ![m] = @ + 1]
    /\ issued' = [issued EXCEPT ![m] = @ + 1]
    /\ lease' = [lease EXCEPT ![m] = issued[m] + 1]
    /\ leaseLive' = [leaseLive EXCEPT ![m] = TRUE]
    /\ pc' = [pc EXCEPT ![w] = "send"]
    /\ task' = [task EXCEPT ![w] = m]
    /\ key' = [key EXCEPT ![w] = issued[m] + 1]
    /\ tried' = [tried EXCEPT ![w] = attempts[m] + 1]
    /\ UNCHANGED <<due, stale, answer, providerVars, faults>>

NothingDue(w) ==
    /\ pc[w] = "recover"
    /\ stale[w] = {}
    /\ \A m \in Message : ~Leasable(m)
    /\ pc' = [pc EXCEPT ![w] = "idle"]
    /\ UNCHANGED <<rowVars, stale, task, key, tried, answer, issued, providerVars, faults>>

\* sendEmailMessage.  A success means that the provider has the message.  After
\* an error it may have it all the same: the connection broke or a 5xx came
\* (retryable), or the body of the answer could not be read (a plain error,
\* not retryable).
Send(w, arrives, outcome) ==
    /\ pc[w] = "send"
    /\ outcome = "ok" => arrives
    /\ accepted' = [accepted EXCEPT
            ![task[w]] = IF arrives THEN @ \cup {key[w]} ELSE @]
    /\ answer' = [answer EXCEPT ![w] = outcome]
    /\ pc' = [pc EXCEPT ![w] = "answered"]
    /\ UNCHANGED <<rowVars, stale, task, key, tried, issued, orphan, faults>>

MarkSent(w) ==
    /\ pc[w] = "answered"
    /\ answer[w] = "ok"
    /\ \/ OwnsLease(w) /\ EndLease(task[w], "sent", "none") /\ UNCHANGED <<attempts, due>>
       \/ ~OwnsLease(w) /\ RowUnchanged
    /\ ForgetMessage(w, "idle")
    /\ UNCHANGED <<stale, providerVars, faults>>

\* The update itself fails: the catch block of processEmailOutboxMessage takes
\* this for a delivery error that is not retryable.
MarkSentThrows(w) ==
    /\ faults < MaxFaults
    /\ pc[w] = "answered"
    /\ answer[w] = "ok"
    /\ answer' = [answer EXCEPT ![w] = "permanent"]
    /\ faults' = faults + 1
    /\ UNCHANGED <<rowVars, pc, stale, task, key, tried, issued, providerVars>>

\* markEmailOutboxFailed: the retry delay is for retryable failures with an
\* attempt left; every other failed row is available at once.
MarkFailed(w) ==
    /\ pc[w] = "answered"
    /\ answer[w] \in {"retryable", "permanent"}
    /\ \/ /\ OwnsLease(w)
          /\ EndLease(task[w], "failed", answer[w])
          /\ due' = [due EXCEPT
                ![task[w]] = ~(answer[w] = "retryable" /\ tried[w] < MaxAttempts)]
          /\ UNCHANGED attempts
       \/ /\ ~OwnsLease(w)
          /\ RowUnchanged
    /\ ForgetMessage(w, "idle")
    /\ UNCHANGED <<stale, providerVars, faults>>

\* A statement of the recovery, of the lease or of markEmailOutboxFailed fails:
\* the error ends the tick.
IterationThrows(w) ==
    /\ faults < MaxFaults
    /\ \/ pc[w] \in {"recover", "settle"}
       \/ pc[w] = "answered" /\ answer[w] # "ok"
    /\ faults' = faults + 1
    /\ stale' = [stale EXCEPT ![w] = {}]
    /\ ForgetMessage(w, "idle")
    /\ UNCHANGED <<rowVars, providerVars>>

(***************************************************************************)
(* Time and crashes                                                        *)
(***************************************************************************)

LeaseRunsOut(m) ==
    /\ leaseLive[m]
    /\ leaseLive' = [leaseLive EXCEPT ![m] = FALSE]
    /\ UNCHANGED <<state, lastError, attempts, lease, due, workerVars, providerVars, faults>>

RetryFallsDue(m) ==
    /\ state[m] = "failed"
    /\ ~due[m]
    /\ due' = [due EXCEPT ![m] = TRUE]
    /\ UNCHANGED <<state, lastError, attempts, lease, leaseLive, workerVars, providerVars,
                   faults>>

\* The process dies.  Iterations are gone; a request may still be on its way.
Restart ==
    /\ faults < MaxFaults
    /\ faults' = faults + 1
    /\ pc' = [w \in Worker |-> "idle"]
    /\ stale' = [w \in Worker |-> {}]
    /\ task' = [w \in Worker |-> NoMessage]
    /\ key' = [w \in Worker |-> 0]
    /\ tried' = [w \in Worker |-> 0]
    /\ answer' = [w \in Worker |-> "none"]
    /\ orphan' = [m \in Message |->
            orphan[m] \cup {key[w] : w \in {v \in Worker : pc[v] = "send" /\ task[v] = m}}]
    /\ UNCHANGED <<rowVars, issued, accepted>>

\* The provider accepts a request whose sender is gone.
OrphanArrives(m, k) ==
    /\ k \in orphan[m]
    /\ orphan' = [orphan EXCEPT ![m] = @ \ {k}]
    /\ accepted' = [accepted EXCEPT ![m] = @ \cup {k}]
    /\ UNCHANGED <<rowVars, workerVars, faults>>

(***************************************************************************)
(* The specification                                                       *)
(***************************************************************************)

WorkerStep(w) ==
    \/ BeginIteration(w)
    \/ \E row \in stale[w], proof \in BOOLEAN : Reconcile(w, row[1], row[2], proof)
    \/ Recover(w)
    \/ \E m \in Message : Lease(w, m)
    \/ NothingDue(w)
    \/ \E arrives \in BOOLEAN, outcome \in {"ok", "retryable", "permanent"} :
            Send(w, arrives, outcome)
    \/ MarkSent(w)
    \/ MarkFailed(w)

TimeStep(m) == LeaseRunsOut(m) \/ RetryFallsDue(m)

Next ==
    \/ \E m \in Message : Enqueue(m) \/ TimeStep(m) \/ \E k \in orphan[m] : OrphanArrives(m, k)
    \/ \E w \in Worker : WorkerStep(w) \/ MarkSentThrows(w) \/ IterationThrows(w)
    \/ Restart

Spec == Init /\ [][Next]_vars

\* tick re-arms its timer whatever an iteration did, the provider request ends
\* (Node's fetch gives up on a silent connection), and time passes.
Fairness ==
    /\ \A w \in Worker : WF_vars(WorkerStep(w))
    /\ \A m \in Message : WF_vars(TimeStep(m))

FairSpec == Spec /\ Fairness

(***************************************************************************)
(* Properties                                                              *)
(***************************************************************************)

TypeOK ==
    /\ state \in [Message -> OutboxState \cup {"none"}]
    /\ lastError \in [Message -> Failure \cup {"none"}]
    /\ attempts \in [Message -> Nat]
    /\ lease \in [Message -> Nat]
    /\ leaseLive \in [Message -> BOOLEAN]
    /\ due \in [Message -> BOOLEAN]
    /\ pc \in [Worker -> {"idle", "recover", "settle", "send", "answered"}]
    /\ stale \in [Worker -> SUBSET (Message \X Nat)]
    /\ task \in [Worker -> Message \cup {NoMessage}]
    /\ \A w \in Worker : task[w] = NoMessage <=> pc[w] \in {"idle", "recover"}
    /\ key \in [Worker -> Nat]
    /\ tried \in [Worker -> Nat]
    /\ answer \in [Worker -> {"none", "ok", "retryable", "permanent"}]
    /\ issued \in [Message -> Nat]
    /\ accepted \in [Message -> SUBSET Nat]
    /\ orphan \in [Message -> SUBSET Nat]
    /\ faults \in Nat

\* The iteration holds a message it was leased.
Sending(w) == pc[w] \in {"send", "answered"}

\* A customer never gets more copies of a message than there are attempts,
\* however leases, lost answers, crashes and late requests fall together.
CopiesAreBounded ==
    \A m \in Message : Cardinality(accepted[m] \cup orphan[m]) <= MaxAttempts

\* A message is in the hands of one sender at a time, counting requests that
\* outlived their process, and no lease is used for two requests: an
\* expired lease is never the reason of a second copy.
OneSenderAtATime ==
    /\ \A v, w \in Worker : v # w /\ Sending(v) /\ Sending(w) => task[v] # task[w]
    /\ \A w \in Worker : Sending(w) => orphan[task[w]] = {}
    /\ \A w \in Worker : pc[w] = "send" => key[w] \notin accepted[task[w]]

\* The row says sent only if the provider has the message, also when it was
\* marked by the recovery.
SentWasAccepted == \A m \in Message : state[m] = "sent" => accepted[m] # {}

\* Automatic resend skipped to avoid duplicate customer mail: a row closed by the
\* recovery is never sent again.
FailsClosed ==
    [][\A m \in Message :
            state[m] = "failed" /\ lastError[m] = "lease_expired" => state'[m] = "failed"]_vars

Settled(m) == state[m] = "sent" \/ (state[m] = "failed" /\ attempts[m] >= MaxAttempts)

\* Rows do not hang: every queued message is sent or has used up its attempts,
\* also after a crash or a failing statement.
MessageSettles == \A m \in Message : state[m] = "queued" ~> Settled(m)

(***************************************************************************)
(* The inductive invariant: what makes the safety properties hold.         *)
(***************************************************************************)

\* A row has a lease exactly while it is sending; a fresh row has no attempts.
LeasedIsSending ==
    \A m \in Message :
        /\ state[m] = "sending" <=> lease[m] # 0
        /\ leaseLive[m] => state[m] = "sending"
        /\ state[m] \in {"none", "queued"} => attempts[m] = 0

\* Every lease was an attempt, and only a leased row is sent.
LeasesAreAttempts ==
    \A m \in Message :
        /\ lease[m] <= issued[m]
        /\ issued[m] <= attempts[m]
        /\ attempts[m] <= MaxAttempts
        /\ accepted[m] \cup orphan[m] \subseteq 1..issued[m]

\* A sender has its lease, or its row will never be leased again; the same
\* for the rows of requests that outlived their process.
SenderOwnsOrSettled ==
    /\ \A w \in Worker : Sending(w) =>
            /\ OwnsLease(w) \/ Settled(task[w])
            /\ key[w] \in 1..issued[task[w]]
    /\ \A m \in Message : orphan[m] # {} => state[m] = "sending" \/ Settled(m)

\* A success reported to an iteration is known to the provider.
SuccessIsAccepted ==
    \A w \in Worker : answer[w] = "ok" => task[w] # NoMessage /\ accepted[task[w]] # {}

\* The recovery uses up the attempts.
ClosedIsSpent ==
    \A m \in Message :
        state[m] = "failed" /\ lastError[m] = "lease_expired" => attempts[m] >= MaxAttempts

IndInv ==
    /\ TypeOK
    /\ LeasedIsSending
    /\ LeasesAreAttempts
    /\ SenderOwnsOrSettled
    /\ OneSenderAtATime
    /\ SuccessIsAccepted
    /\ SentWasAccepted
    /\ ClosedIsSpent

(***************************************************************************)
(* Refinement                                                              *)
(***************************************************************************)

\* What the promise sees of a row.
Outcome(rowState, tries) ==
    CASE rowState = "none" -> "none"
      [] rowState = "sent" -> "sent"
      [] rowState = "failed" /\ tries >= MaxAttempts -> "given_up"
      [] OTHER -> "open"

Promise == INSTANCE DeliveryPromise WITH
    MaxCopies <- MaxAttempts,
    outcome <- [m \in Message |-> Outcome(state[m], attempts[m])],
    copies <- accepted

\* The outbox implements DeliveryPromise: every row ends as sent or given up and
\* stays so, with a bounded number of copies.
KeepsPromise == Promise!Spec

=============================================================================
