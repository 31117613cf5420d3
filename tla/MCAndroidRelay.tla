--------------------------- MODULE MCAndroidRelay ---------------------------
(* TLC instances of AndroidRelay. *)
EXTENDS AndroidRelay, TLC

EventSymmetry == Permutations(Event)
=============================================================================
