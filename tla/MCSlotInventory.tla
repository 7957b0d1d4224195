-------------------------- MODULE MCSlotInventory --------------------------
(***************************************************************************)
(* Model checking of SlotInventory.                                        *)
(***************************************************************************)
EXTENDS SlotInventory, TLC

\* Purchases, slots and handlers are interchangeable.
Symmetry == Permutations(Purchase) \cup Permutations(Slot) \cup Permutations(Handler)

=============================================================================
