--------------------------- MODULE MCCoordinator ---------------------------
(* Small instances of Coordinator for TLC. *)
EXTENDS Coordinator, TLC

CONSTANTS b1, b2

BootSymmetry == Permutations(Boot)
=============================================================================
