--------------------------- MODULE MCTriggerLanes ---------------------------
(* Small instances of TriggerLanes for TLC. *)
EXTENDS TriggerLanes, TLC

CONSTANTS l1, u1, c1, c2

OneLane == [d \in Delivery |-> l1]
OneOwner == [l \in Lane |-> u1]
CallSymmetry == Permutations(Call)
=============================================================================
