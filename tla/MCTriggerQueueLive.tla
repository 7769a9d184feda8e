------------------------- MODULE MCTriggerQueueLive -------------------------
(* A small instance of TriggerQueueLive for TLC. *)
EXTENDS TriggerQueueLive

CONSTANTS d1, d2, l1, u1, r1, w1, w2, t1, t2, t3

OneLane == [d \in Delivery |-> l1]
OneOwner == [l \in Lane |-> u1]
OneHome == [w \in Worker |-> r1]
=============================================================================
