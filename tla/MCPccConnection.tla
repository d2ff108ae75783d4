-------------------------- MODULE MCPccConnection --------------------------
(* Small instances of PccConnection for TLC. *)
EXTENDS PccConnection, TLC

CONSTANTS i1, i2, i3

TwoSlots == {i1, i2}
ThreeSlots == {i1, i2, i3}
SlotSymmetry == Permutations(Slots)

\* Credits are short, just enough, or plenty; the sessions are at most as many
\* as the processors, or more.
ShortOrPlenty == {-1, 2}
AnyUnused == {-1, 0, 1, 2}
FewOrMany == {1, 3}
=============================================================================
