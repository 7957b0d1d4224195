---------------------- MODULE MCLifecycleEnforcement ----------------------
(***************************************************************************)
(* Model checking of LifecycleEnforcement.  The ids of purchases order the *)
(* worker's queries, so that there is no symmetry.                         *)
(***************************************************************************)
EXTENDS LifecycleEnforcement

=============================================================================
