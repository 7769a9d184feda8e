----------------------------- MODULE MCSteering -----------------------------
(* Small instances of Steering for TLC. *)
EXTENDS Steering, TLC

Symmetry == Permutations(Steer) \cup Permutations(Run)
=============================================================================
