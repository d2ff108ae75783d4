--------------------------- MODULE MCMemSemaphore ---------------------------
(* Instances of MemSemaphore for TLC. *)
EXTENDS MemSemaphore

CONSTANTS g1, g2, g3, g4, w1, w2, w3, w4

FourGoroutines == {g1, g2, g3, g4}
FourWaiters == {w1, w2, w3, w4}
TwoGoroutines == {g1, g2}
=============================================================================
