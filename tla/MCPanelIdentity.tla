-------------------------- MODULE MCPanelIdentity --------------------------
(***************************************************************************)
(* Model checking of PanelIdentity: three purchases, the first two of one  *)
(* customer.                                                               *)
(***************************************************************************)
EXTENDS PanelIdentity

CONSTANTS ann, bob

MCPurchase == 1 .. 3

MCOwner == [p \in MCPurchase |-> IF p < 3 THEN ann ELSE bob]

MCAllocation == 1 .. 2

=============================================================================
