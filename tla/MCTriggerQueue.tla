--------------------------- MODULE MCTriggerQueue ---------------------------
(* Small instances of TriggerQueue for TLC. *)
EXTENDS TriggerQueue, TLC

CONSTANTS d1, d2, l1, u1, r1, r2, w1, w2, t1, t2, t3

\* One lane, two deliveries, one worker on each of two replicas.
OneLane == [d \in Delivery |-> l1]
OneOwner == [l \in Lane |-> u1]
WorkerHome == (w1 :> r1) @@ (w2 :> r2)
SharedHome == [w \in Worker |-> r1]

TokenSymmetry == Permutations(Token)
LaneSymmetry == Permutations(Token) \cup Permutations(Delivery) \cup Permutations(Worker)
=============================================================================
