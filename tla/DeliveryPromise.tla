-------------------------- MODULE DeliveryPromise --------------------------
(***************************************************************************)
(* What the e-mail outbox promises for every message, without leases,      *)
(* workers or provider answers: the row ends as sent or as given up and    *)
(* stays there, it is sent only when a copy reached the provider, and the  *)
(* provider gets a bounded number of copies.                               *)
(*                                                                         *)
(* Translated from the outcomes of services/emailOutbox.js.                *)
(***************************************************************************)
EXTENDS Naturals

CONSTANTS
    Message,
    MaxCopies

VARIABLES
    outcome,   \* none, open, sent or given_up
    copies     \* which of the possible copies the provider has accepted

vars == <<outcome, copies>>

Init ==
    /\ outcome = [m \in Message |-> "none"]
    /\ copies = [m \in Message |-> {}]

Request(m) ==
    /\ outcome[m] = "none"
    /\ outcome' = [outcome EXCEPT ![m] = "open"]
    /\ UNCHANGED copies

\* A copy may still arrive when the row has been given up.
Arrive(m, c) ==
    /\ outcome[m] # "none"
    /\ c \notin copies[m]
    /\ copies' = [copies EXCEPT ![m] = @ \cup {c}]
    /\ UNCHANGED outcome

Confirm(m) ==
    /\ outcome[m] = "open"
    /\ copies[m] # {}
    /\ outcome' = [outcome EXCEPT ![m] = "sent"]
    /\ UNCHANGED copies

GiveUp(m) ==
    /\ outcome[m] = "open"
    /\ outcome' = [outcome EXCEPT ![m] = "given_up"]
    /\ UNCHANGED copies

Next ==
    \E m \in Message :
        Request(m) \/ Confirm(m) \/ GiveUp(m) \/ \E c \in 1..MaxCopies : Arrive(m, c)

Spec == Init /\ [][Next]_vars

=============================================================================
