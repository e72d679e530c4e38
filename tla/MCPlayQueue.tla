----------------------------- MODULE MCPlayQueue -----------------------------
(* Small instances of PlayQueue for TLC.                                   *)
EXTENDS PlayQueue, TLC

CONSTANTS i1, i2, i3

\* Items are only compared with each other.
ItemSymmetry == Permutations(Items)
=============================================================================
