------------------------ MODULE TriggerLanesOverlap ------------------------
(***************************************************************************)
(* TriggerLanes with a history variable: the lanes that some overlap of    *)
(* store calls has upset.  Three overlaps do (README, section 7); nothing  *)
(* in packages/data-schemas/src/methods/triggerDelivery.ts prevents them.  *)
(* Of every other lane TriggerLanesProofs shows that it numbers and        *)
(* publishes its deliveries in order, whatever happens in the upset ones.  *)
(*                                                                         *)
(* `upset` only watches: it guards no step and changes no variable of      *)
(* TriggerLanes.                                                           *)
(***************************************************************************)
EXTENDS TriggerLanes

VARIABLE upset
watchedVars == <<vars, upset>>

\* The steps at which a call works with a reservation that it read or made.
Reading == {"laneMarker", "recheck", "publish", "reread", "release", "withdraw", "abandon"}
Holds(c, d) == pc[c] \in Reading /\ snap[c].publisher = d

Existing(l) == account[OwnerOf[l]] # "gone"
Published(d) == status[d] \notin {"absent", "staging"}
Waiting(d) == status[d] \in {"pending", "dead"}

\* The call c reserves for the row it selected the very sequence under which
\* that row has been published since, while rows wait in the lane: the lane
\* was dropped in between and starts to count again.  A second publisher of
\* the row takes the reservation for the one it has published, and a
\* reclamation that read the old tail takes the new one for it.
ReservesAgain(c) ==
  /\ pc[c] = "acquire" /\ pc'[c] = "recheck" /\ Existing(lane[c])
  /\ Published(next[c]) /\ laneSequence[next[c]] = value'[lane[c]]
  /\ \E d \in Delivery : LaneOf[d] = lane[c] /\ Waiting(d)

\* A dead letter is requeued while a call still holds a reservation of it, and
\* will publish it under that sequence.
RequeuesHeld(d) ==
  /\ status[d] = "dead" /\ status'[d] = "staging"
  /\ \E c \in Call : Holds(c, d)

\* The call c gives the sequence of its reservation back when the row has been
\* published under it, or another call is about to.  With no deletion given up
\* it does so only for an account that will be deleted.
WithdrawsHeld(c) ==
  /\ MaxRollbacks > 0
  /\ pc[c] = "withdraw" /\ pc'[c] # "withdraw"
  /\ Existing(lane[c]) /\ value'[lane[c]] # value[lane[c]]
  /\ \/ status[next[c]] # "staging"
     \/ \E e \in Call \ {c} : Holds(e, next[c])

Upsets(l) == \/ \E c \in Call : lane[c] = l /\ (ReservesAgain(c) \/ WithdrawsHeld(c))
             \/ \E d \in Delivery : LaneOf[d] = l /\ RequeuesHeld(d)

WatchedInit == Init /\ upset = {}
WatchedNext == Next /\ upset' = upset \cup {l \in Lane : Upsets(l)}
WatchedSpec == WatchedInit /\ [][WatchedNext]_watchedVars

-----------------------------------------------------------------------------
(* Properties. *)


\* CounterCoversLane in every lane that is not upset.
CounterCoversUnlessUpset ==
  \A d \in Delivery :
    /\ LaneOf[d] \notin upset
    /\ status[d] \in {"pending", "dead"}
    /\ ~Marked(UserOf(d)) /\ account[UserOf(d)] # "gone"
    => laneSequence[d] <= value[LaneOf[d]]

\* SequencesDiffer in every lane that is not upset.
SequencesDifferUnlessUpset ==
  \A d, e \in Delivery :
    /\ d # e /\ LaneOf[d] = LaneOf[e] /\ LaneOf[d] \notin upset
    /\ status[d] = "pending" /\ status[e] = "pending"
    /\ account[UserOf(d)] # "gone"
    => laneSequence[d] # laneSequence[e]

\* KeepsPromise where the rows of a lane are forgotten, besides by the end of
\* the account, by the step that upsets the lane, and not before.
OutOfOrder(d) == Forgotten(d) \/ LaneOf[d] \in upset

Order == INSTANCE LaneOrder WITH
  place <- [d \in Delivery |-> IF OutOfOrder(d) THEN "absent"
                               ELSE IF status[d] = "pending" THEN "queued"
                               ELSE status[d]],
  seq <- [d \in Delivery |-> IF OutOfOrder(d) THEN 0 ELSE laneSequence[d]],
  Sequence <- 1 .. MaxSeq

KeepsPromiseUnlessUpset == Order!Spec
=============================================================================
