---------------------------- MODULE MCHsmSession ----------------------------
(* Two sessions of either kind on one or two root keys. *)
EXTENDS HsmSession, TLC

Symmetry == Permutations(Sessions) \cup Permutations(Roots) \cup Permutations(Timers)
=============================================================================
