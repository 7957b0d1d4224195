------------------------- MODULE EmailOutboxProofs -------------------------
(***************************************************************************)
(* Proofs about EmailOutbox, for every value of its constants: typing      *)
(* first, then the inductive invariant IndInv, then what follows from it,  *)
(* and the refinement of DeliveryPromise.                                  *)
(***************************************************************************)
EXTENDS EmailOutbox, FiniteSetTheorems, TLAPS

(***************************************************************************)
(* Typing                                                                  *)
(***************************************************************************)

\* Ending a lease keeps the columns it writes in their types.
LEMMA EndLeaseType ==
    ASSUME TypeOK, NEW m \in Message, NEW newState \in OutboxState,
           NEW error \in Failure \cup {"none"}, EndLease(m, newState, error)
    PROVE  /\ state' \in [Message -> OutboxState \cup {"none"}]
           /\ lastError' \in [Message -> Failure \cup {"none"}]
           /\ lease' \in [Message -> Nat]
           /\ leaseLive' \in [Message -> BOOLEAN]
BY DEF EndLease, TypeOK

\* So does forgetting the message.
LEMMA ForgetMessageType ==
    ASSUME TypeOK, NEW w \in Worker, NEW next \in {"idle", "recover"},
           ForgetMessage(w, next)
    PROVE  /\ pc' \in [Worker -> {"idle", "recover", "settle", "send", "answered"}]
           /\ task' \in [Worker -> Message \cup {NoMessage}]
           /\ \A v \in Worker : task'[v] = NoMessage <=> pc'[v] \in {"idle", "recover"}
           /\ key' \in [Worker -> Nat]
           /\ tried' \in [Worker -> Nat]
           /\ answer' \in [Worker -> {"none", "ok", "retryable", "permanent"}]
           /\ issued' \in [Message -> Nat]
BY DEF ForgetMessage, TypeOK

\* Every action keeps every variable in its type.
LEMMA TypeStep == TypeOK /\ [Next]_vars => TypeOK'
<1> SUFFICES ASSUME TypeOK, [Next]_vars PROVE TypeOK'
    OBVIOUS
<1> USE ConstantsAssumption
<1>1. ASSUME NEW m \in Message, Enqueue(m) PROVE TypeOK'
    <2>1. state' \in [Message -> OutboxState \cup {"none"}]
        BY <1>1 DEF Enqueue, TypeOK, OutboxState
    <2>2. due' \in [Message -> BOOLEAN]
        BY <1>1 DEF Enqueue, TypeOK
    <2>3. QED
        BY <1>1, <2>1, <2>2 DEF Enqueue, TypeOK, workerVars, providerVars
<1>2. ASSUME NEW w \in Worker, BeginIteration(w) PROVE TypeOK'
    <2>1. stale' \in [Worker -> SUBSET (Message \X Nat)]
        BY <1>2 DEF BeginIteration, TypeOK
    <2>2. QED
        BY <1>2, <2>1 DEF BeginIteration, TypeOK, rowVars, providerVars
<1>3. ASSUME NEW w \in Worker, NEW row \in stale[w], NEW proof \in BOOLEAN,
             Reconcile(w, row[1], row[2], proof)
      PROVE  TypeOK'
    <2>1. row \in Message \X Nat
        BY <1>3 DEF TypeOK
    <2>2. stale' \in [Worker -> SUBSET (Message \X Nat)]
        BY <1>3 DEF Reconcile, TypeOK
    <2>3. QED
        BY <1>3, <2>1, <2>2 DEF Reconcile, TypeOK, rowVars, providerVars
<1>4. ASSUME NEW w \in Worker, Recover(w) PROVE TypeOK'
    <2>1. task[w] \in Message
        BY <1>4 DEF Recover, TypeOK
    <2>2. ForgetMessage(w, "recover")
        BY <1>4 DEF Recover
    <2>3. CASE RowUnchanged
        BY <1>4, <2>2, <2>3, ForgetMessageType DEF Recover, RowUnchanged, TypeOK, rowVars,
            providerVars
    <2>4. CASE EndLease(task[w], "sent", "none") /\ UNCHANGED <<attempts, due>>
        BY <1>4, <2>1, <2>2, <2>4, EndLeaseType, ForgetMessageType
        DEF Recover, TypeOK, OutboxState, providerVars
    <2>5. CASE FailClosed(task[w])
        <3>1. EndLease(task[w], "failed", "lease_expired")
            BY <2>5 DEF FailClosed
        <3>2. "failed" \in OutboxState /\ "lease_expired" \in Failure
            BY DEF OutboxState, Failure
        <3>3. attempts' \in [Message -> Nat] /\ due' \in [Message -> BOOLEAN]
            BY <2>5 DEF FailClosed, TypeOK
        <3>4. QED
            BY <1>4, <2>1, <2>2, <3>1, <3>2, <3>3, EndLeaseType, ForgetMessageType
            DEF Recover, TypeOK, providerVars
    <2>6. QED
        BY <1>4, <2>3, <2>4, <2>5 DEF Recover
<1>5. ASSUME NEW w \in Worker, NEW m \in Message, Lease(w, m) PROVE TypeOK'
    BY <1>5 DEF Lease, TypeOK, OutboxState, providerVars
<1>6. ASSUME NEW w \in Worker, NothingDue(w) PROVE TypeOK'
    BY <1>6 DEF NothingDue, TypeOK, rowVars, providerVars
<1>7. ASSUME NEW w \in Worker, NEW arrives \in BOOLEAN,
             NEW outcome \in {"ok", "retryable", "permanent"}, Send(w, arrives, outcome)
      PROVE  TypeOK'
    <2>1. accepted' \in [Message -> SUBSET Nat]
        BY <1>7 DEF Send, TypeOK
    <2>2. QED
        BY <1>7, <2>1 DEF Send, TypeOK, rowVars
<1>8. ASSUME NEW w \in Worker, MarkSent(w) PROVE TypeOK'
    <2>1. task[w] \in Message
        BY <1>8 DEF MarkSent, TypeOK
    <2>2. ForgetMessage(w, "idle")
        BY <1>8 DEF MarkSent
    <2>3. CASE RowUnchanged
        BY <1>8, <2>2, <2>3, ForgetMessageType DEF MarkSent, RowUnchanged, TypeOK, rowVars,
            providerVars
    <2>4. CASE EndLease(task[w], "sent", "none") /\ UNCHANGED <<attempts, due>>
        BY <1>8, <2>1, <2>2, <2>4, EndLeaseType, ForgetMessageType
        DEF MarkSent, TypeOK, OutboxState, providerVars
    <2>5. QED
        BY <1>8, <2>3, <2>4 DEF MarkSent
<1>9. ASSUME NEW w \in Worker, MarkSentThrows(w) PROVE TypeOK'
    BY <1>9 DEF MarkSentThrows, TypeOK, rowVars, providerVars
<1>10. ASSUME NEW w \in Worker, MarkFailed(w) PROVE TypeOK'
    <2>1. task[w] \in Message
        BY <1>10 DEF MarkFailed, TypeOK
    <2>2. ForgetMessage(w, "idle")
        BY <1>10 DEF MarkFailed
    <2>3. CASE RowUnchanged
        BY <1>10, <2>2, <2>3, ForgetMessageType DEF MarkFailed, RowUnchanged, TypeOK, rowVars,
            providerVars
    <2>4. CASE OwnsLease(w) /\ ~RowUnchanged
        <3>1. EndLease(task[w], "failed", answer[w])
            BY <1>10, <2>4 DEF MarkFailed
        <3>2. "failed" \in OutboxState /\ answer[w] \in Failure
            BY <1>10 DEF MarkFailed, OutboxState, Failure
        <3>3. attempts' \in [Message -> Nat] /\ due' \in [Message -> BOOLEAN]
            BY <1>10, <2>4 DEF MarkFailed, TypeOK
        <3>4. QED
            BY <1>10, <2>1, <2>2, <3>1, <3>2, <3>3, EndLeaseType, ForgetMessageType
            DEF MarkFailed, TypeOK, providerVars
    <2>5. QED
        BY <1>10, <2>3, <2>4 DEF MarkFailed
<1>11. ASSUME NEW w \in Worker, IterationThrows(w) PROVE TypeOK'
    BY <1>11, ForgetMessageType DEF IterationThrows, TypeOK, rowVars, providerVars
<1>12. ASSUME NEW m \in Message, TimeStep(m) PROVE TypeOK'
    BY <1>12 DEF TimeStep, LeaseRunsOut, RetryFallsDue, TypeOK, workerVars, providerVars
<1>13. CASE Restart
    <2>1. orphan' \in [Message -> SUBSET Nat]
        BY <1>13 DEF Restart, TypeOK
    <2>2. QED
        BY <1>13, <2>1 DEF Restart, TypeOK, rowVars
<1>14. ASSUME NEW m \in Message, NEW k \in orphan[m], OrphanArrives(m, k) PROVE TypeOK'
    BY <1>14 DEF OrphanArrives, TypeOK, rowVars, workerVars
<1>15. CASE UNCHANGED vars
    BY <1>15 DEF vars, rowVars, workerVars, providerVars, TypeOK
<1>16. QED
    BY <1>1, <1>2, <1>3, <1>4, <1>5, <1>6, <1>7, <1>8, <1>9, <1>10, <1>11, <1>12, <1>13,
        <1>14, <1>15
    DEF Next, WorkerStep

(***************************************************************************)
(* The inductive invariant                                                 *)
(***************************************************************************)

\* The invariant holds of an empty outbox,
LEMMA InitIndInv == Init => IndInv
<1> SUFFICES ASSUME Init PROVE IndInv
    OBVIOUS
<1> USE ConstantsAssumption
<1>1. TypeOK
    BY DEF Init, TypeOK
<1>2. LeasedIsSending /\ LeasesAreAttempts /\ ClosedIsSpent /\ SentWasAccepted
    BY DEF Init, LeasedIsSending, LeasesAreAttempts, ClosedIsSpent, SentWasAccepted
<1>3. SenderOwnsOrSettled /\ OneSenderAtATime /\ SuccessIsAccepted
    BY DEF Init, SenderOwnsOrSettled, OneSenderAtATime, SuccessIsAccepted, Sending
<1>4. QED
    BY <1>1, <1>2, <1>3 DEF IndInv

\* An iteration past its recovery works on a message.
LEMMA TaskType ==
    ASSUME TypeOK, NEW w \in Worker, pc[w] \in {"settle", "send", "answered"}
    PROVE  task[w] \in Message /\ task[w] # NoMessage
<1>1. task[w] \in Message \cup {NoMessage} /\ task[w] # NoMessage
    BY DEF TypeOK
<1>2. QED
    BY <1>1

\* An iteration forgets its message without touching the row or the provider.
LEMMA ForgetStep ==
    ASSUME IndInv, TypeOK', NEW w \in Worker, NEW next \in {"idle", "recover"},
           ForgetMessage(w, next), UNCHANGED <<rowVars, providerVars>>
    PROVE  IndInv'
<1> USE DEF ForgetMessage, rowVars, providerVars, TypeOK
<1>1. \A v \in Worker : Sending(v)' => v # w /\ Sending(v) /\ task'[v] = task[v]
                                           /\ key'[v] = key[v] /\ pc'[v] = pc[v]
    BY DEF Sending
<1>2. LeasedIsSending' /\ LeasesAreAttempts' /\ ClosedIsSpent' /\ SentWasAccepted'
    BY DEF IndInv, LeasedIsSending, LeasesAreAttempts, ClosedIsSpent, SentWasAccepted
<1>3. SenderOwnsOrSettled'
    BY <1>1 DEF IndInv, SenderOwnsOrSettled, OwnsLease, Settled
<1>4. OneSenderAtATime'
    BY <1>1 DEF IndInv, OneSenderAtATime, Sending
<1>5. SuccessIsAccepted'
    BY DEF IndInv, SuccessIsAccepted
<1>6. QED
    BY <1>2, <1>3, <1>4, <1>5 DEF IndInv

\* An iteration ends the lease it owns: either it is the sender of the message,
\* or the row is settled by this step and nobody sends it again.
LEMMA EndLeaseStep ==
    ASSUME IndInv, TypeOK', NEW w \in Worker, NEW next \in {"idle", "recover"},
           NEW newState \in {"sent", "failed"}, NEW error \in Failure \cup {"none"},
           task[w] # NoMessage,
           OwnsLease(w), EndLease(task[w], newState, error), ForgetMessage(w, next),
           UNCHANGED providerVars,
           \A m \in Message :
               /\ attempts[m] <= attempts'[m]
               /\ attempts'[m] <= MaxAttempts
               /\ m # task[w] => attempts'[m] = attempts[m],
           newState = "sent" => accepted[task[w]] # {},
           error = "lease_expired" => attempts'[task[w]] >= MaxAttempts,
           Sending(w) \/ newState = "sent" \/ attempts'[task[w]] >= MaxAttempts
    PROVE  IndInv'
<1> USE DEF ForgetMessage, EndLease, providerVars, TypeOK
<1>1. PICK m \in Message : m = task[w]
    BY DEF IndInv
<1>2. \A v \in Worker : Sending(v)' => v # w /\ Sending(v) /\ task'[v] = task[v]
                                           /\ key'[v] = key[v] /\ pc'[v] = pc[v]
    BY DEF Sending
<1>3. Settled(m)' \/ Sending(w)
    BY <1>1 DEF Settled, IndInv
<1>4. \A n \in Message : n # m => (Settled(n) => Settled(n)') /\ state'[n] = state[n]
                                    /\ lease'[n] = lease[n]
    BY <1>1 DEF Settled, IndInv
<1>5. LeasedIsSending'
    <2>1. /\ state'[m] # "sending" /\ lease'[m] = 0 /\ ~leaseLive'[m]
          /\ state'[m] \notin {"none", "queued"}
        BY <1>1 DEF IndInv
    <2>2. \A n \in Message : n # m => /\ state'[n] = state[n] /\ lease'[n] = lease[n]
                                      /\ leaseLive'[n] = leaseLive[n]
                                      /\ attempts'[n] = attempts[n]
        BY <1>1 DEF IndInv
    <2>3. QED
        BY <2>1, <2>2 DEF LeasedIsSending, IndInv
<1>6. LeasesAreAttempts'
    <2>1. \A n \in Message : lease'[n] <= lease[n]
        BY <1>1 DEF IndInv
    <2>2. QED
        BY <2>1 DEF LeasesAreAttempts, IndInv
<1>7. ClosedIsSpent' /\ SentWasAccepted'
    BY <1>1 DEF IndInv, ClosedIsSpent, SentWasAccepted
<1>8. SenderOwnsOrSettled'
    <2>1. ASSUME NEW v \in Worker, Sending(v)' PROVE OwnsLease(v)' \/ Settled(task[v])'
        <3>1. Sending(v) /\ v # w /\ task'[v] = task[v] /\ key'[v] = key[v]
            BY <1>2, <2>1
        <3>2. task[v] \in Message
            BY <3>1 DEF Sending, IndInv
        <3>3. CASE task[v] = m
            <4>1. Settled(m)'
                BY <1>1, <1>3, <3>1, <3>3 DEF IndInv, OneSenderAtATime
            <4>2. QED
                BY <3>1, <3>3, <4>1 DEF Settled
        <3>4. CASE task[v] # m
            <4>1. OwnsLease(v) \/ Settled(task[v])
                BY <3>1 DEF IndInv, SenderOwnsOrSettled
            <4>2. QED
                BY <1>4, <3>1, <3>2, <3>4, <4>1 DEF OwnsLease, Settled
        <3>5. QED
            BY <3>3, <3>4
    <2>2. \A n \in Message : orphan'[n] # {} => state'[n] = "sending" \/ Settled(n)'
        BY <1>1, <1>3, <1>4 DEF IndInv, SenderOwnsOrSettled, OneSenderAtATime
    <2>3. \A v \in Worker : Sending(v)' => key'[v] \in 1..issued'[task'[v]]
        BY <1>2 DEF IndInv, SenderOwnsOrSettled
    <2>4. QED
        BY <1>2, <2>1, <2>2, <2>3 DEF SenderOwnsOrSettled
<1>9. OneSenderAtATime'
    BY <1>2 DEF IndInv, OneSenderAtATime, Sending
<1>10. SuccessIsAccepted'
    BY DEF IndInv, SuccessIsAccepted
<1>11. QED
    BY <1>5, <1>6, <1>7, <1>8, <1>9, <1>10 DEF IndInv

\* and every step of the lane, of the provider and of a crash keeps it.
LEMMA IndInvStep == IndInv /\ [Next]_vars => IndInv'
<1> SUFFICES ASSUME IndInv, [Next]_vars PROVE IndInv'
    OBVIOUS
<1> USE ConstantsAssumption
<1>0. TypeOK /\ TypeOK'
    BY TypeStep DEF IndInv
<1>1. ASSUME NEW m \in Message, Enqueue(m) PROVE IndInv'
    <2> USE <1>0, <1>1 DEF Enqueue, TypeOK, workerVars, providerVars
    <2>1. LeasedIsSending' /\ LeasesAreAttempts' /\ ClosedIsSpent' /\ SentWasAccepted'
        BY DEF IndInv, LeasedIsSending, LeasesAreAttempts, ClosedIsSpent, SentWasAccepted
    <2>2. SenderOwnsOrSettled'
        BY DEF IndInv, SenderOwnsOrSettled, OwnsLease, Settled, Sending
    <2>3. OneSenderAtATime' /\ SuccessIsAccepted'
        BY DEF IndInv, OneSenderAtATime, SuccessIsAccepted, Sending
    <2>4. QED
        BY <2>1, <2>2, <2>3 DEF IndInv
<1>2. ASSUME NEW w \in Worker, BeginIteration(w) \/ NothingDue(w) PROVE IndInv'
    <2> USE <1>0, <1>2 DEF BeginIteration, NothingDue, TypeOK, rowVars, providerVars
    <2>1. \A v \in Worker : Sending(v)' <=> Sending(v)
        BY DEF Sending
    <2>2. LeasedIsSending' /\ LeasesAreAttempts' /\ ClosedIsSpent' /\ SentWasAccepted'
        BY DEF IndInv, LeasedIsSending, LeasesAreAttempts, ClosedIsSpent, SentWasAccepted
    <2>3. SenderOwnsOrSettled'
        BY <2>1 DEF IndInv, SenderOwnsOrSettled, OwnsLease, Settled
    <2>4. OneSenderAtATime' /\ SuccessIsAccepted'
        BY <2>1 DEF IndInv, OneSenderAtATime, SuccessIsAccepted
    <2>5. QED
        BY <2>2, <2>3, <2>4 DEF IndInv
<1>3. ASSUME NEW w \in Worker, NEW row \in stale[w], NEW proof \in BOOLEAN,
             Reconcile(w, row[1], row[2], proof)
      PROVE  IndInv'
    <2> USE <1>0, <1>3 DEF Reconcile, TypeOK, rowVars, providerVars
    <2>0. row \in Message \X Nat
        OBVIOUS
    <2>1. \A v \in Worker : Sending(v)' => v # w /\ Sending(v) /\ task'[v] = task[v]
                                               /\ key'[v] = key[v] /\ pc'[v] = pc[v]
        BY DEF Sending
    <2>2. LeasedIsSending' /\ LeasesAreAttempts' /\ ClosedIsSpent' /\ SentWasAccepted'
        BY DEF IndInv, LeasedIsSending, LeasesAreAttempts, ClosedIsSpent, SentWasAccepted
    <2>3. SenderOwnsOrSettled'
        BY <2>1 DEF IndInv, SenderOwnsOrSettled, OwnsLease, Settled
    <2>4. OneSenderAtATime'
        BY <2>1 DEF IndInv, OneSenderAtATime, Sending
    <2>5. SuccessIsAccepted'
        BY <2>0 DEF IndInv, SuccessIsAccepted, Proof
    <2>6. QED
        BY <2>2, <2>3, <2>4, <2>5 DEF IndInv
<1>4. ASSUME NEW w \in Worker, Recover(w) PROVE IndInv'
    <2>0. pc[w] = "settle"
        BY <1>4 DEF Recover
    <2>1. task[w] \in Message /\ task[w] # NoMessage
        BY <1>0, <2>0, TaskType
    <2>2. ForgetMessage(w, "recover") /\ UNCHANGED providerVars
        BY <1>4 DEF Recover, providerVars
    <2>3. CASE RowUnchanged
        BY <1>0, <2>2, <2>3, ForgetStep DEF RowUnchanged
    <2>4. CASE /\ OwnsLease(w)
               /\ answer[w] = "ok"
               /\ EndLease(task[w], "sent", "none")
               /\ UNCHANGED <<attempts, due>>
        <3>1. accepted[task[w]] # {}
            BY <2>4 DEF IndInv, SuccessIsAccepted
        <3>2. \A m \in Message : /\ attempts[m] <= attempts'[m]
                                 /\ attempts'[m] <= MaxAttempts
                                 /\ m # task[w] => attempts'[m] = attempts[m]
            BY <1>0, <2>4 DEF IndInv, LeasesAreAttempts, TypeOK
        <3>3. QED
            BY <1>0, <2>1, <2>2, <2>4, <3>1, <3>2, EndLeaseStep
    <2>5. CASE OwnsLease(w) /\ FailClosed(task[w])
        <3>1. /\ \A m \in Message : /\ attempts[m] <= attempts'[m]
                                    /\ attempts'[m] <= MaxAttempts
                                    /\ m # task[w] => attempts'[m] = attempts[m]
              /\ attempts'[task[w]] >= MaxAttempts
            BY <1>0, <2>1, <2>5 DEF FailClosed, IndInv, LeasesAreAttempts, TypeOK
        <3>2. EndLease(task[w], "failed", "lease_expired") /\ "lease_expired" \in Failure
            BY <2>5 DEF FailClosed, Failure
        <3>3. QED
            BY <1>0, <2>1, <2>2, <2>5, <3>1, <3>2, EndLeaseStep
    <2>6. QED
        BY <1>4, <2>3, <2>4, <2>5 DEF Recover
<1>5. ASSUME NEW w \in Worker, NEW m \in Message, Lease(w, m) PROVE IndInv'
    <2> USE <1>0, <1>5 DEF Lease, TypeOK, providerVars
    <2>1. state[m] # "sending" /\ ~Settled(m) /\ attempts[m] < MaxAttempts
        BY DEF Leasable, Settled, IndInv, LeasedIsSending
    <2>2. orphan[m] = {} /\ \A v \in Worker : Sending(v) => task[v] # m
        BY <2>1 DEF IndInv, SenderOwnsOrSettled, OwnsLease
    <2>3. \A v \in Worker : v # w => /\ Sending(v)' <=> Sending(v)
                                     /\ task'[v] = task[v] /\ key'[v] = key[v]
                                     /\ pc'[v] = pc[v]
        BY DEF Sending
    <2>4. task'[w] = m /\ key'[w] = issued[m] + 1 /\ ~Sending(w)
        BY DEF Sending
    <2>5. LeasedIsSending'
        BY DEF IndInv, LeasedIsSending
    <2>6. LeasesAreAttempts'
        <3>1. lease'[m] <= issued'[m] /\ issued'[m] <= attempts'[m] /\ attempts'[m] <= MaxAttempts
            BY <2>1 DEF IndInv, LeasesAreAttempts
        <3>2. accepted'[m] \cup orphan'[m] \subseteq 1..issued'[m]
            <4>1. accepted[m] \cup orphan[m] \subseteq 1..issued[m] /\ issued[m] \in Nat
                BY DEF IndInv, LeasesAreAttempts
            <4>2. 1..issued[m] \subseteq 1..(issued[m] + 1)
                BY <4>1
            <4>3. QED
                BY <4>1, <4>2
        <3>3. QED
            BY <3>1, <3>2 DEF IndInv, LeasesAreAttempts
    <2>7. ClosedIsSpent' /\ SentWasAccepted' /\ SuccessIsAccepted'
        BY DEF IndInv, ClosedIsSpent, SentWasAccepted, SuccessIsAccepted
    <2>8. SenderOwnsOrSettled'
        <3>1. OwnsLease(w)' /\ key'[w] \in 1..issued'[task'[w]]
            BY <2>4 DEF OwnsLease
        <3>2. ASSUME NEW v \in Worker, v # w, Sending(v)'
              PROVE  (OwnsLease(v) \/ Settled(task[v]))' /\ key'[v] \in 1..issued'[task'[v]]
            <4>1. Sending(v) /\ task[v] # m /\ task[v] \in Message
                BY <2>2, <2>3, <3>2 DEF Sending
            <4>2. (OwnsLease(v) \/ Settled(task[v])) /\ key[v] \in 1..issued[task[v]]
                BY <4>1 DEF IndInv, SenderOwnsOrSettled
            <4>3. QED
                BY <2>3, <3>2, <4>1, <4>2 DEF OwnsLease, Settled
        <3>3. \A n \in Message : orphan'[n] # {} => state'[n] = "sending" \/ Settled(n)'
            BY <2>2 DEF IndInv, SenderOwnsOrSettled, Settled
        <3>4. QED
            BY <3>1, <3>2, <3>3 DEF SenderOwnsOrSettled
    <2>9. OneSenderAtATime'
        <3>1. key'[w] \notin accepted'[m]
            BY <2>4 DEF IndInv, LeasesAreAttempts
        <3>2. QED
            BY <2>2, <2>3, <2>4, <3>1 DEF IndInv, OneSenderAtATime
    <2>10. QED
        BY <2>5, <2>6, <2>7, <2>8, <2>9 DEF IndInv
<1>6. ASSUME NEW w \in Worker, NEW arrives \in BOOLEAN,
             NEW outcome \in {"ok", "retryable", "permanent"}, Send(w, arrives, outcome)
      PROVE  IndInv'
    <2> USE <1>0, <1>6 DEF Send, TypeOK, rowVars
    <2>1. \A v \in Worker : /\ Sending(v)' <=> Sending(v)
                            /\ pc'[v] = "send" => pc[v] = "send" /\ v # w
        BY DEF Sending
    <2>2. task[w] \in Message /\ Sending(w) /\ key[w] \in 1..issued[task[w]]
        BY DEF Sending, IndInv, SenderOwnsOrSettled
    <2>3. LeasedIsSending' /\ ClosedIsSpent'
        BY DEF IndInv, LeasedIsSending, ClosedIsSpent
    <2>4. LeasesAreAttempts'
        BY <2>2 DEF IndInv, LeasesAreAttempts
    <2>5. SentWasAccepted' /\ SuccessIsAccepted'
        <3>1. \A n \in Message : accepted[n] \subseteq accepted'[n]
            OBVIOUS
        <3>2. outcome = "ok" => accepted'[task[w]] # {}
            BY <2>2
        <3>3. SentWasAccepted'
            BY <3>1 DEF IndInv, SentWasAccepted
        <3>4. ASSUME NEW v \in Worker, answer'[v] = "ok"
              PROVE  task'[v] # NoMessage /\ accepted'[task'[v]] # {}
            <4>1. CASE v = w
                BY <2>2, <3>2, <3>4, <4>1
            <4>2. CASE v # w
                <5>1. answer[v] = "ok" /\ task'[v] = task[v]
                    BY <3>4, <4>2
                <5>2. task[v] # NoMessage /\ accepted[task[v]] # {}
                    BY <5>1 DEF IndInv, SuccessIsAccepted
                <5>3. QED
                    BY <3>1, <5>1, <5>2
            <4>3. QED
                BY <4>1, <4>2
        <3>5. QED
            BY <3>3, <3>4 DEF SuccessIsAccepted
    <2>6. SenderOwnsOrSettled'
        BY <2>1 DEF IndInv, SenderOwnsOrSettled, OwnsLease, Settled
    <2>7. OneSenderAtATime'
        BY <2>1, <2>2 DEF IndInv, OneSenderAtATime, Sending
    <2>8. QED
        BY <2>3, <2>4, <2>5, <2>6, <2>7 DEF IndInv
<1>7. ASSUME NEW w \in Worker, MarkSent(w) PROVE IndInv'
    <2>0. pc[w] = "answered"
        BY <1>7 DEF MarkSent
    <2>1. task[w] \in Message /\ task[w] # NoMessage /\ Sending(w)
        BY <1>0, <2>0, TaskType DEF Sending
    <2>2. ForgetMessage(w, "idle") /\ UNCHANGED providerVars
        BY <1>7 DEF MarkSent, providerVars
    <2>3. CASE RowUnchanged
        BY <1>0, <2>2, <2>3, ForgetStep DEF RowUnchanged
    <2>4. CASE OwnsLease(w) /\ EndLease(task[w], "sent", "none") /\ UNCHANGED <<attempts, due>>
        <3>1. accepted[task[w]] # {}
            BY <1>7 DEF MarkSent, IndInv, SuccessIsAccepted
        <3>2. \A m \in Message : /\ attempts[m] <= attempts'[m]
                                 /\ attempts'[m] <= MaxAttempts
                                 /\ m # task[w] => attempts'[m] = attempts[m]
            BY <1>0, <2>4 DEF IndInv, LeasesAreAttempts, TypeOK
        <3>3. QED
            BY <1>0, <2>1, <2>2, <2>4, <3>1, <3>2, EndLeaseStep
    <2>5. QED
        BY <1>7, <2>3, <2>4 DEF MarkSent
<1>8. ASSUME NEW w \in Worker, MarkSentThrows(w) PROVE IndInv'
    <2> USE <1>0, <1>8 DEF MarkSentThrows, TypeOK, rowVars, providerVars
    <2>1. LeasedIsSending' /\ LeasesAreAttempts' /\ ClosedIsSpent' /\ SentWasAccepted'
        BY DEF IndInv, LeasedIsSending, LeasesAreAttempts, ClosedIsSpent, SentWasAccepted
    <2>2. SenderOwnsOrSettled'
        BY DEF IndInv, SenderOwnsOrSettled, OwnsLease, Settled, Sending
    <2>3. OneSenderAtATime' /\ SuccessIsAccepted'
        BY DEF IndInv, OneSenderAtATime, SuccessIsAccepted, Sending
    <2>4. QED
        BY <2>1, <2>2, <2>3 DEF IndInv
<1>9. ASSUME NEW w \in Worker, MarkFailed(w) PROVE IndInv'
    <2>0. pc[w] = "answered"
        BY <1>9 DEF MarkFailed
    <2>1. task[w] \in Message /\ task[w] # NoMessage /\ Sending(w)
        BY <1>0, <2>0, TaskType DEF Sending
    <2>2. ForgetMessage(w, "idle") /\ UNCHANGED providerVars
        BY <1>9 DEF MarkFailed, providerVars
    <2>3. CASE RowUnchanged
        BY <1>0, <2>2, <2>3, ForgetStep DEF RowUnchanged
    <2>4. CASE OwnsLease(w) /\ EndLease(task[w], "failed", answer[w]) /\ UNCHANGED attempts
        <3>1. answer[w] \in Failure /\ answer[w] # "lease_expired"
            BY <1>9 DEF MarkFailed, Failure
        <3>2. \A m \in Message : /\ attempts[m] <= attempts'[m]
                                 /\ attempts'[m] <= MaxAttempts
                                 /\ m # task[w] => attempts'[m] = attempts[m]
            BY <1>0, <2>4 DEF IndInv, LeasesAreAttempts, TypeOK
        <3>3. QED
            BY <1>0, <2>1, <2>2, <2>4, <3>1, <3>2, EndLeaseStep
    <2>5. QED
        BY <1>9, <2>3, <2>4 DEF MarkFailed
<1>10. ASSUME NEW w \in Worker, IterationThrows(w) PROVE IndInv'
    BY <1>0, <1>10, ForgetStep DEF IterationThrows
<1>11. ASSUME NEW m \in Message, TimeStep(m) PROVE IndInv'
    <2> USE <1>0, <1>11 DEF TimeStep, LeaseRunsOut, RetryFallsDue, TypeOK, workerVars,
            providerVars
    <2>1. LeasedIsSending' /\ LeasesAreAttempts' /\ ClosedIsSpent' /\ SentWasAccepted'
        BY DEF IndInv, LeasedIsSending, LeasesAreAttempts, ClosedIsSpent, SentWasAccepted
    <2>2. SenderOwnsOrSettled'
        BY DEF IndInv, SenderOwnsOrSettled, OwnsLease, Settled, Sending
    <2>3. OneSenderAtATime' /\ SuccessIsAccepted'
        BY DEF IndInv, OneSenderAtATime, SuccessIsAccepted, Sending
    <2>4. QED
        BY <2>1, <2>2, <2>3 DEF IndInv
<1>12. CASE Restart
    <2> USE <1>0, <1>12 DEF Restart, TypeOK, rowVars
    <2>1. LeasedIsSending' /\ ClosedIsSpent' /\ SentWasAccepted'
        BY DEF IndInv, LeasedIsSending, ClosedIsSpent, SentWasAccepted
    <2>2. \A m \in Message : \A k \in orphan'[m] :
              k \in orphan[m] \/ \E w \in Worker : Sending(w) /\ task[w] = m /\ key[w] = k
        BY DEF Sending
    <2>3. LeasesAreAttempts'
        <3>1. ASSUME NEW m \in Message, NEW k \in orphan'[m] PROVE k \in 1..issued[m]
            <4>1. CASE k \in orphan[m]
                BY <4>1 DEF IndInv, LeasesAreAttempts
            <4>2. CASE \E w \in Worker : Sending(w) /\ task[w] = m /\ key[w] = k
                BY <4>2 DEF IndInv, SenderOwnsOrSettled
            <4>3. QED
                BY <2>2, <4>1, <4>2
        <3>2. QED
            BY <3>1 DEF IndInv, LeasesAreAttempts
    <2>4. SenderOwnsOrSettled'
        <3>1. \A m \in Message : orphan'[m] # {} => state[m] = "sending" \/ Settled(m)
            BY <2>2 DEF IndInv, SenderOwnsOrSettled, OwnsLease
        <3>2. QED
            BY <3>1 DEF SenderOwnsOrSettled, Sending, Settled
    <2>5. OneSenderAtATime' /\ SuccessIsAccepted'
        BY DEF OneSenderAtATime, SuccessIsAccepted, Sending
    <2>6. QED
        BY <2>1, <2>3, <2>4, <2>5 DEF IndInv
<1>13. ASSUME NEW m \in Message, NEW k \in orphan[m], OrphanArrives(m, k) PROVE IndInv'
    <2> USE <1>0, <1>13 DEF OrphanArrives, TypeOK, rowVars, workerVars
    <2>1. LeasedIsSending' /\ LeasesAreAttempts' /\ ClosedIsSpent'
        BY DEF IndInv, LeasedIsSending, LeasesAreAttempts, ClosedIsSpent
    <2>2. SenderOwnsOrSettled'
        BY DEF IndInv, SenderOwnsOrSettled, OwnsLease, Settled, Sending
    <2>3. OneSenderAtATime'
        BY DEF IndInv, OneSenderAtATime, Sending
    <2>4. SuccessIsAccepted' /\ SentWasAccepted'
        BY DEF IndInv, SuccessIsAccepted, SentWasAccepted
    <2>5. QED
        BY <2>1, <2>2, <2>3, <2>4 DEF IndInv
<1>14. CASE UNCHANGED vars
    <2> USE <1>0, <1>14 DEF vars, rowVars, workerVars, providerVars
    <2>1. LeasedIsSending' /\ LeasesAreAttempts' /\ ClosedIsSpent' /\ SentWasAccepted'
        BY DEF IndInv, LeasedIsSending, LeasesAreAttempts, ClosedIsSpent, SentWasAccepted
    <2>2. SenderOwnsOrSettled' /\ OneSenderAtATime' /\ SuccessIsAccepted'
        BY DEF IndInv, SenderOwnsOrSettled, OneSenderAtATime, SuccessIsAccepted, OwnsLease,
            Settled, Sending
    <2>3. QED
        BY <2>1, <2>2 DEF IndInv
<1>15. QED
    BY <1>1, <1>2, <1>3, <1>4, <1>5, <1>6, <1>7, <1>8, <1>9, <1>10, <1>11, <1>12, <1>13,
        <1>14
    DEF Next, WorkerStep

\* The invariant is inductive, for any number of messages, workers and attempts.
THEOREM Invariance == Spec => []IndInv
<1>1. Init => IndInv
    BY InitIndInv
<1>2. IndInv /\ [Next]_vars => IndInv'
    BY IndInvStep
<1>3. QED
    BY <1>1, <1>2, PTL DEF Spec

\* Every column and every worker variable keeps its type.
THEOREM TypeCorrect == Spec => []TypeOK
<1>1. IndInv => TypeOK
    BY DEF IndInv
<1>2. QED
    BY <1>1, Invariance, PTL

\* Whatever number of messages, iterations, crashes and lost answers: the provider
\* gets no more copies of a message than there are attempts.
THEOREM BoundedCopies == Spec => []CopiesAreBounded
<1>1. IndInv => CopiesAreBounded
    <2> SUFFICES ASSUME IndInv, NEW m \in Message
                 PROVE  Cardinality(accepted[m] \cup orphan[m]) <= MaxAttempts
        BY DEF CopiesAreBounded
    <2>1. accepted[m] \cup orphan[m] \subseteq 1..issued[m] /\ issued[m] <= MaxAttempts
        BY ConstantsAssumption DEF IndInv, TypeOK, LeasesAreAttempts
    <2>2. issued[m] \in Nat
        BY DEF IndInv, TypeOK
    <2>3. IsFiniteSet(1..issued[m]) /\ Cardinality(1..issued[m]) = issued[m]
        BY <2>2, FS_Interval
    <2>4. /\ IsFiniteSet(accepted[m] \cup orphan[m])
          /\ Cardinality(accepted[m] \cup orphan[m]) <= issued[m]
        <3>1. accepted[m] \cup orphan[m] \in SUBSET (1..issued[m])
            BY <2>1
        <3>2. QED
            BY <2>3, <3>1, FS_Subset, Zenon
    <2>5. Cardinality(accepted[m] \cup orphan[m]) \in Nat
        BY <2>4, FS_CardinalityType
    <2>6. QED
        BY <2>1, <2>2, <2>4, <2>5, ConstantsAssumption
<1>2. QED
    BY <1>1, Invariance, PTL

\* One sender at a time, counting requests that outlived their process.
THEOREM SingleSender == Spec => []OneSenderAtATime
<1>1. IndInv => OneSenderAtATime
    BY DEF IndInv
<1>2. QED
    BY <1>1, Invariance, PTL

\* A row that says sent was accepted by the provider.
THEOREM SentIsTrue == Spec => []SentWasAccepted
<1>1. IndInv => SentWasAccepted
    BY DEF IndInv
<1>2. QED
    BY <1>1, Invariance, PTL

\* A row that the recovery has closed stays closed.
THEOREM ClosedForGood == Spec => FailsClosed
<1>1. IndInv /\ [Next]_vars =>
          \A m \in Message :
              state[m] = "failed" /\ lastError[m] = "lease_expired" => state'[m] = "failed"
    <2> SUFFICES ASSUME IndInv, [Next]_vars, NEW m \in Message, state[m] = "failed",
                        lastError[m] = "lease_expired"
                 PROVE  state'[m] = "failed"
        OBVIOUS
    <2> USE DEF IndInv, TypeOK
    <2>1. \A w \in Worker : ~Lease(w, m)
        BY ConstantsAssumption DEF Lease, Leasable, ClosedIsSpent
    <2>2. \A w \in Worker : OwnsLease(w) => task[w] # m
        BY DEF OwnsLease
    <2>3. ASSUME NEW w \in Worker, WorkerStep(w) PROVE state'[m] = "failed"
        <3>1. CASE Recover(w) \/ MarkSent(w) \/ MarkFailed(w)
            BY <2>2, <3>1
            DEF Recover, MarkSent, MarkFailed, EndLease, FailClosed, RowUnchanged, rowVars
        <3>2. ASSUME NEW n \in Message, Lease(w, n) PROVE state'[m] = "failed"
            BY <2>1, <3>2 DEF Lease
        <3>3. CASE \/ BeginIteration(w) \/ NothingDue(w)
                   \/ \E row \in stale[w], proof \in BOOLEAN :
                            Reconcile(w, row[1], row[2], proof)
                   \/ \E arrives \in BOOLEAN, outcome \in {"ok", "retryable", "permanent"} :
                            Send(w, arrives, outcome)
            BY <3>3 DEF BeginIteration, NothingDue, Reconcile, Send, rowVars
        <3>4. QED
            BY <2>3, <3>1, <3>2, <3>3 DEF WorkerStep
    <2>4. QED
        BY <2>3
        DEF Next, Enqueue, TimeStep, LeaseRunsOut, RetryFallsDue, OrphanArrives,
            MarkSentThrows, IterationThrows, Restart, vars, rowVars
<1>2. QED
    BY <1>1, Invariance, PTL DEF Spec, FailsClosed

(***************************************************************************)
(* Refinement                                                              *)
(***************************************************************************)

\* A step that leaves the row and the accepted copies alone is a stutter.
LEMMA PromiseStutter ==
    ASSUME state' = state, attempts' = attempts, accepted' = accepted
    PROVE  UNCHANGED Promise!vars
BY DEF Promise!vars, Outcome

\* Ending a lease settles the row or leaves it open.
LEMMA PromiseEndLease ==
    ASSUME IndInv, NEW w \in Worker, NEW newState \in {"sent", "failed"}, NEW error,
           task[w] \in Message, OwnsLease(w), EndLease(task[w], newState, error),
           accepted' = accepted, newState = "sent" => accepted[task[w]] # {},
           attempts' \in [Message -> Nat],
           \A m \in Message : m # task[w] => attempts'[m] = attempts[m]
    PROVE  [Promise!Next]_Promise!vars
<1> DEFINE outcome == [m \in Message |-> Outcome(state[m], attempts[m])]
<1> USE DEF IndInv, TypeOK
<1>1. PICK m \in Message : m = task[w]
    OBVIOUS
<1>2. outcome[m] = "open"
    BY <1>1 DEF OwnsLease, Outcome
<1>3. state' = [state EXCEPT ![m] = newState]
    BY <1>1 DEF EndLease
<1>4. outcome' = [outcome EXCEPT ![m] = Outcome(newState, attempts'[m])]
    BY <1>1, <1>3 DEF Outcome
<1>5. CASE newState = "sent"
    <2>1. Promise!Confirm(m)
        BY <1>1, <1>2, <1>4, <1>5 DEF Promise!Confirm, Outcome
    <2>2. QED
        BY <2>1 DEF Promise!Next
<1>6. CASE newState = "failed" /\ attempts'[m] >= MaxAttempts
    <2>1. Promise!GiveUp(m)
        BY <1>2, <1>4, <1>6 DEF Promise!GiveUp, Outcome
    <2>2. QED
        BY <2>1 DEF Promise!Next
<1>7. CASE newState = "failed" /\ ~(attempts'[m] >= MaxAttempts)
    <2>1. outcome' = outcome
        BY <1>2, <1>4, <1>7 DEF Outcome
    <2>2. QED
        BY <2>1 DEF Promise!vars
<1>8. QED
    BY <1>5, <1>6, <1>7

\* Every step of the outbox is a step of the promise or none.
LEMMA PromiseStep == IndInv /\ [Next]_vars => [Promise!Next]_Promise!vars
<1> SUFFICES ASSUME IndInv, [Next]_vars PROVE [Promise!Next]_Promise!vars
    OBVIOUS
<1> USE ConstantsAssumption DEF IndInv, TypeOK
<1> DEFINE outcome == [m \in Message |-> Outcome(state[m], attempts[m])]
<1>1. ASSUME NEW m \in Message, Enqueue(m) PROVE [Promise!Next]_Promise!vars
    <2>1. CASE state[m] = "none"
        <3>1. outcome[m] = "none" /\ outcome' = [outcome EXCEPT ![m] = "open"]
            BY <1>1, <2>1 DEF Enqueue, Outcome
        <3>2. Promise!Request(m)
            BY <1>1, <3>1 DEF Enqueue, providerVars, Promise!Request
        <3>3. QED
            BY <3>2 DEF Promise!Next
    <2>2. CASE state[m] # "none"
        BY <1>1, <2>2, PromiseStutter DEF Enqueue, providerVars
    <2>3. QED
        BY <2>1, <2>2
<1>2. ASSUME NEW m \in Message, NEW k \in 1..issued[m], state[m] # "none",
             accepted' = [accepted EXCEPT ![m] = @ \cup {k}],
             state' = state, attempts' = attempts
      PROVE  [Promise!Next]_Promise!vars
    <2>1. k \in 1..MaxAttempts
        BY DEF LeasesAreAttempts
    <2>2. outcome[m] # "none" /\ outcome' = outcome
        BY <1>2 DEF Outcome
    <2>3. CASE k \in accepted[m]
        BY <1>2, <2>3, PromiseStutter
    <2>4. CASE k \notin accepted[m]
        <3>1. Promise!Arrive(m, k)
            BY <1>2, <2>2, <2>4 DEF Promise!Arrive
        <3>2. QED
            BY <2>1, <3>1 DEF Promise!Next
    <2>5. QED
        BY <2>3, <2>4
<1>3. ASSUME NEW m \in Message, NEW k \in orphan[m], OrphanArrives(m, k)
      PROVE  [Promise!Next]_Promise!vars
    <2>1. k \in 1..issued[m] /\ state[m] # "none"
        BY DEF LeasesAreAttempts, SenderOwnsOrSettled, Settled
    <2>2. QED
        BY <1>2, <1>3, <2>1 DEF OrphanArrives, rowVars
<1>4. ASSUME NEW w \in Worker, NEW arrives \in BOOLEAN,
             NEW outc \in {"ok", "retryable", "permanent"}, Send(w, arrives, outc)
      PROVE  [Promise!Next]_Promise!vars
    <2>1. Sending(w) /\ task[w] \in Message
        BY <1>4 DEF Send, Sending
    <2>2. key[w] \in 1..issued[task[w]] /\ state[task[w]] # "none"
        BY <2>1 DEF SenderOwnsOrSettled, OwnsLease, Settled
    <2>3. CASE arrives
        BY <1>2, <1>4, <2>1, <2>2, <2>3 DEF Send, rowVars
    <2>4. CASE ~arrives
        BY <1>4, <2>4, PromiseStutter DEF Send, rowVars
    <2>5. QED
        BY <2>3, <2>4
<1>5. ASSUME NEW w \in Worker, NEW m \in Message, Lease(w, m)
      PROVE  [Promise!Next]_Promise!vars
    <2>1. outcome' = outcome
        BY <1>5 DEF Lease, Leasable, Outcome
    <2>2. QED
        BY <1>5, <2>1 DEF Lease, providerVars, Promise!vars
<1>6. ASSUME NEW w \in Worker, Recover(w) PROVE [Promise!Next]_Promise!vars
    <2>1. task[w] \in Message /\ accepted' = accepted
        BY <1>6, TaskType DEF Recover, providerVars
    <2>2. CASE RowUnchanged
        BY <2>1, <2>2, PromiseStutter DEF RowUnchanged, rowVars
    <2>3. CASE /\ OwnsLease(w)
               /\ answer[w] = "ok"
               /\ EndLease(task[w], "sent", "none")
               /\ UNCHANGED <<attempts, due>>
        BY <2>1, <2>3, PromiseEndLease DEF SuccessIsAccepted
    <2>4. CASE OwnsLease(w) /\ FailClosed(task[w])
        <3>1. /\ attempts' \in [Message -> Nat]
              /\ \A m \in Message : m # task[w] => attempts'[m] = attempts[m]
              /\ EndLease(task[w], "failed", "lease_expired")
            BY <2>4 DEF FailClosed
        <3>2. QED
            BY <2>1, <2>4, <3>1, PromiseEndLease
    <2>5. QED
        BY <1>6, <2>2, <2>3, <2>4 DEF Recover
<1>7. ASSUME NEW w \in Worker, MarkSent(w) PROVE [Promise!Next]_Promise!vars
    <2>1. task[w] \in Message /\ accepted' = accepted /\ answer[w] = "ok"
        BY <1>7, TaskType DEF MarkSent, providerVars
    <2>2. CASE RowUnchanged
        BY <2>1, <2>2, PromiseStutter DEF RowUnchanged, rowVars
    <2>3. CASE OwnsLease(w) /\ EndLease(task[w], "sent", "none") /\ UNCHANGED <<attempts, due>>
        BY <2>1, <2>3, PromiseEndLease DEF SuccessIsAccepted
    <2>4. QED
        BY <1>7, <2>2, <2>3 DEF MarkSent
<1>8. ASSUME NEW w \in Worker, MarkFailed(w) PROVE [Promise!Next]_Promise!vars
    <2>1. task[w] \in Message /\ accepted' = accepted
        BY <1>8, TaskType DEF MarkFailed, providerVars
    <2>2. CASE RowUnchanged
        BY <2>1, <2>2, PromiseStutter DEF RowUnchanged, rowVars
    <2>3. CASE OwnsLease(w) /\ EndLease(task[w], "failed", answer[w]) /\ UNCHANGED attempts
        BY <2>1, <2>3, PromiseEndLease
    <2>4. QED
        BY <1>8, <2>2, <2>3 DEF MarkFailed
<1>9. ASSUME NEW w \in Worker,
             \/ BeginIteration(w) \/ NothingDue(w) \/ MarkSentThrows(w) \/ IterationThrows(w)
             \/ \E row \in stale[w], proof \in BOOLEAN : Reconcile(w, row[1], row[2], proof)
      PROVE  UNCHANGED Promise!vars
    BY <1>9, PromiseStutter
    DEF BeginIteration, NothingDue, MarkSentThrows, IterationThrows, Reconcile, rowVars,
        providerVars
<1>10. ASSUME NEW m \in Message, TimeStep(m) PROVE UNCHANGED Promise!vars
    BY <1>10, PromiseStutter DEF TimeStep, LeaseRunsOut, RetryFallsDue, providerVars
<1>11. CASE Restart
    BY <1>11, PromiseStutter DEF Restart, rowVars
<1>12. CASE UNCHANGED vars
    BY <1>12, PromiseStutter DEF vars, rowVars, providerVars
<1>13. QED
    BY <1>1, <1>3, <1>4, <1>5, <1>6, <1>7, <1>8, <1>9, <1>10, <1>11, <1>12
    DEF Next, WorkerStep

\* The outbox keeps its promise.
THEOREM Refinement == Spec => KeepsPromise
<1>1. Init => Promise!Init
    BY DEF Init, Promise!Init, Outcome
<1>2. IndInv /\ [Next]_vars => [Promise!Next]_Promise!vars
    BY PromiseStep
<1>3. QED
    BY <1>1, <1>2, Invariance, PTL DEF Spec, KeepsPromise, Promise!Spec

=============================================================================
