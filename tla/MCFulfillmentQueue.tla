------------------------- MODULE MCFulfillmentQueue -------------------------
(***************************************************************************)
(* Model checking of FulfillmentQueue.                                     *)
(***************************************************************************)
EXTENDS FulfillmentQueue, TLC

\* Workers are interchangeable.  Purchases are not: one of them may
\* belong to a repeat customer.  Used for safety only.
Symmetry == Permutations(Worker)

=============================================================================
