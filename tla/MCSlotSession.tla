--------------------------- MODULE MCSlotSession ---------------------------
(* A small instance of SlotSession for TLC. *)
EXTENDS SlotSession

CONSTANTS i1, i2, i3

ThreeSlots == {i1, i2, i3}
=============================================================================
