------------------------ MODULE ProvisioningContract ------------------------
(***************************************************************************)
(* What the provisioning pipeline promises for every purchase, without     *)
(* leases, workers, lookups or crashes: a job is attempted a bounded       *)
(* number of times between two interventions, a second server comes only   *)
(* of a request whose outcome an attempt has lost, and the job is done     *)
(* only when a server exists.                                              *)
(*                                                                         *)
(* Translated from the outcomes of workers/fulfillmentWorker.js; the plan  *)
(* calls them the minimal worker contract.                                 *)
(***************************************************************************)
EXTENDS Naturals

CONSTANTS
    Purchase,
    MaxAutoRetries

VARIABLES
    phase,     \* idle, queued, working, parked or done
    tries,     \* attempts since the job was last queued by a person
    servers,   \* servers that exist for the purchase
    lost       \* requests for a server of which an attempt has not heard the outcome

vars == <<phase, tries, servers, lost>>

Init ==
    /\ phase = [p \in Purchase |-> "idle"]
    /\ tries = [p \in Purchase |-> 0]
    /\ servers = [p \in Purchase |-> 0]
    /\ lost = [p \in Purchase |-> 0]

\* The customer submits the setup, or the operator starts a parked job over.
Submit(p) ==
    /\ phase[p] \in {"idle", "parked"}
    /\ phase' = [phase EXCEPT ![p] = "queued"]
    /\ tries' = [tries EXCEPT ![p] = 0]
    /\ UNCHANGED <<servers, lost>>

Attempt(p) ==
    /\ phase[p] = "queued"
    /\ tries[p] <= MaxAutoRetries
    /\ phase' = [phase EXCEPT ![p] = "working"]
    /\ tries' = [tries EXCEPT ![p] = @ + 1]
    /\ UNCHANGED <<servers, lost>>

\* A server is made, for the attempt under way or, at any time, for a lost request.
Provision(p) ==
    /\ phase[p] = "working" \/ lost[p] > 0
    /\ servers[p] <= lost[p]
    /\ servers' = [servers EXCEPT ![p] = @ + 1]
    /\ UNCHANGED <<phase, tries, lost>>

\* The attempt does not know whether there will be a server, and fails.
LoseRequest(p) ==
    /\ phase[p] = "working"
    /\ lost' = [lost EXCEPT ![p] = @ + 1]
    /\ UNCHANGED <<phase, tries, servers>>

TryAgain(p) ==
    /\ phase[p] = "working"
    /\ tries[p] <= MaxAutoRetries
    /\ phase' = [phase EXCEPT ![p] = "queued"]
    /\ UNCHANGED <<tries, servers, lost>>

\* Admin review or dead letter: the server, if there is one, is kept.
Park(p) ==
    /\ phase[p] = "working"
    /\ phase' = [phase EXCEPT ![p] = "parked"]
    /\ UNCHANGED <<tries, servers, lost>>

Finish(p) ==
    /\ phase[p] = "working"
    /\ servers[p] > 0
    /\ phase' = [phase EXCEPT ![p] = "done"]
    /\ UNCHANGED <<tries, servers, lost>>

Next ==
    \E p \in Purchase :
        \/ Submit(p)
        \/ Attempt(p)
        \/ Provision(p)
        \/ LoseRequest(p)
        \/ TryAgain(p)
        \/ Park(p)
        \/ Finish(p)

Spec == Init /\ [][Next]_vars

=============================================================================
