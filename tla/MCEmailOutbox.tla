--------------------------- MODULE MCEmailOutbox ---------------------------
(***************************************************************************)
(* Model checking of EmailOutbox.                                          *)
(***************************************************************************)
EXTENDS EmailOutbox, TLC

\* Messages and iterations are interchangeable.  Used for safety only.
Symmetry == Permutations(Worker) \cup Permutations(Message)

=============================================================================
