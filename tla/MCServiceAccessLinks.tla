------------------------ MODULE MCServiceAccessLinks ------------------------
(***************************************************************************)
(* Model checking of ServiceAccessLinks.                                   *)
(***************************************************************************)
EXTENDS ServiceAccessLinks

=============================================================================
