------------------------------ MODULE LaneOrder ------------------------------
(***************************************************************************)
(* What the durable trigger queue promises to a producer, without leases,  *)
(* workers, lane documents or replicas (packages/api/src/agents/triggers/  *)
(* README.md, "Guarantees"): a delivery is admitted, is published at the   *)
(* tail of its ordering lane, and settles only when nothing published      *)
(* before it in its lane is still unsettled.  A dead letter may be         *)
(* admitted again; it then gets a new place, at the tail.                  *)
(*                                                                         *)
(* TriggerQueue and TriggerLanes both implement this module.               *)
(***************************************************************************)
EXTENDS Naturals

CONSTANTS Delivery,   \* the durable rows, by _id
          Lane,       \* ordering keys
          LaneOf,     \* [Delivery -> Lane]
          Sequence    \* the positive lane sequences a run may allocate

VARIABLES place,  \* [Delivery -> Place]
          seq     \* [Delivery -> lane sequence, 0 when the row has none]

Place == {"absent", "staging", "queued", "succeeded", "dead"}

SameLane(d, e) == LaneOf[d] = LaneOf[e]

\* Published and not settled before d in d's lane.
Ahead(d) == {e \in Delivery : /\ SameLane(d, e)
                              /\ place[e] = "queued"
                              /\ seq[e] < seq[d]}

Init == /\ place = [d \in Delivery |-> "absent"]
        /\ seq = [d \in Delivery |-> 0]

Admit(d) == /\ place[d] \in {"absent", "dead"}
            /\ place' = [place EXCEPT ![d] = "staging"]
            /\ seq' = [seq EXCEPT ![d] = 0]

\* The new sequence is above every queued delivery of the lane.
Publish(d) == \E n \in Sequence :
  /\ place[d] = "staging"
  /\ \A e \in Delivery : SameLane(d, e) /\ place[e] = "queued" => seq[e] < n
  /\ place' = [place EXCEPT ![d] = "queued"]
  /\ seq' = [seq EXCEPT ![d] = n]

Settle(d) == \E outcome \in {"succeeded", "dead"} :
  /\ place[d] = "queued"
  /\ Ahead(d) = {}
  /\ place' = [place EXCEPT ![d] = outcome]
  /\ UNCHANGED seq

\* A row leaves the collection: its retention ends, or its account is purged.
Forget(D) == /\ place' = [d \in Delivery |-> IF d \in D THEN "absent" ELSE place[d]]
             /\ seq' = [d \in Delivery |-> IF d \in D THEN 0 ELSE seq[d]]

Next == \/ \E d \in Delivery : Admit(d) \/ Publish(d) \/ Settle(d)
        \/ \E D \in SUBSET Delivery : Forget(D)

Spec == Init /\ [][Next]_<<place, seq>>
=============================================================================
