----------------------- MODULE TriggerQueueRefinement -----------------------
(***************************************************************************)
(* TriggerQueue implements LaneOrder: every step of the runner is a step   *)
(* of the promise, or none at all.                                         *)
(***************************************************************************)
EXTENDS TriggerQueueProofs

\* A worker that settles its delivery with a valid claim past the ordering
\* check is a Settle of the promise: nothing is ahead of the delivery.
LEMMA SettleStep ==
  ASSUME Inv, NEW w \in Worker, Fenced(w), pc[w] \in Engaged,
         NEW outcome \in {"succeeded", "dead"}, Unlease(job[w], outcome),
         UNCHANGED laneSequence
  PROVE  Promise!Settle(job[w])
<1>1. job[w] \in Delivery /\ tok[w] # None
  BY TriggerQueueAssumption DEF Inv, TypeInv, Jobs, Holding, Engaged, Step
<1>2. /\ status \in [Delivery -> Status]
      /\ laneSequence \in [Delivery -> Nat]
  BY DEF Inv, TypeInv, TypeOK
<1>3. Place[job[w]] = "queued"
  BY <1>1 DEF Place, Unsettled, Fenced
<1>4. Promise!Ahead(job[w]) = {}
  <2> SUFFICES ASSUME NEW e \in Delivery, LaneOf[job[w]] = LaneOf[e],
                      Place[e] = "queued", laneSequence[e] < laneSequence[job[w]]
               PROVE FALSE
    BY DEF Promise!Ahead, Promise!SameLane
  <2>1. Unsettled(e)
    BY <1>2 DEF Place, Unsettled, Status
  <2>2. laneSequence[e] >= laneSequence[job[w]]
    BY <2>1 DEF Inv, OrderInv, SameLane
  <2>3. laneSequence[e] \in Nat /\ laneSequence[job[w]] \in Nat
    BY <1>1, <1>2
  <2> QED
    BY <2>2, <2>3
<1>5. Place' = [Place EXCEPT ![job[w]] = outcome]
  BY <1>1, <1>2 DEF Place, Unsettled, Unlease
<1> QED
  BY <1>1, <1>3, <1>4, <1>5 DEF Promise!Settle

\* Publication gives a row the tail of its lane.
LEMMA PublishStep ==
  ASSUME Inv, NEW d \in Delivery, Publish(d)
  PROVE  Promise!Publish(d)
<1> DEFINE n == tail[LaneOf[d]] + 1
<1>1. /\ status \in [Delivery -> Status]
      /\ laneSequence \in [Delivery -> Nat]
      /\ tail \in [Lane -> Nat]
      /\ LaneOf[d] \in Lane
      /\ MaxSeq \in Nat
  BY TriggerQueueAssumption DEF Inv, TypeInv, TypeOK
<1>2. n \in 1 .. MaxSeq
  BY <1>1 DEF Publish
<1>3. ASSUME NEW e \in Delivery, LaneOf[d] = LaneOf[e], Place[e] = "queued"
      PROVE  laneSequence[e] < n
  <2>1. Unsettled(e)
    BY <1>1, <1>3 DEF Place, Unsettled, Status
  <2>2. laneSequence[e] <= tail[LaneOf[d]]
    BY <1>3, <2>1 DEF Inv, SequenceInv
  <2> QED
    BY <1>1, <2>2
<1>4. Place[d] = "staging" /\ Place' = [Place EXCEPT ![d] = "queued"]
  BY <1>1 DEF Publish, Place, Unsettled
<1>5. laneSequence' = [laneSequence EXCEPT ![d] = n]
  BY DEF Publish
<1> QED
  BY <1>2, <1>3, <1>4, <1>5 DEF Promise!Publish, Promise!SameLane

\* A row that is admitted, or admitted again after its death.
LEMMA AdmitStep ==
  ASSUME Inv, NEW d \in Delivery, Enqueue(d) \/ Requeue(d)
  PROVE  Promise!Admit(d)
<1>1. status \in [Delivery -> Status]
  BY DEF Inv, TypeInv, TypeOK
<1> QED
  BY <1>1 DEF Promise!Admit, Enqueue, Requeue, Place, Unsettled

LEMMA ExpireStep ==
  ASSUME Inv, NEW d \in Delivery, Expire(d)
  PROVE  Promise!Forget({d})
<1>1. status \in [Delivery -> Status] /\ laneSequence \in [Delivery -> Nat]
  BY DEF Inv, TypeInv, TypeOK
<1> QED
  BY <1>1 DEF Promise!Forget, Expire, Place, Unsettled

LEMMA SimulationStep ==
  Inv /\ [Next]_vars => [Promise!Next]_<<Place, laneSequence>>
<1> SUFFICES ASSUME Inv, [Next]_vars
             PROVE  Promise!Next \/ UNCHANGED <<Place, laneSequence>>
  OBVIOUS
<1> DEFINE Simulated == Promise!Next \/ UNCHANGED <<Place, laneSequence>>
<1>0. /\ status \in [Delivery -> Status]
      /\ \A w \in Worker : pc[w] \in Engaged \cup Settling => job[w] \in Delivery
  BY DEF Inv, TypeInv, TypeOK, Jobs, Holding, Engaged, Settling, Step
<1>1. ASSUME NEW d \in Delivery, Enqueue(d) \/ Requeue(d) PROVE Simulated
  BY <1>1, AdmitStep DEF Promise!Next
<1>2. ASSUME NEW d \in Delivery, Publish(d) PROVE Simulated
  BY <1>2, PublishStep DEF Promise!Next
<1>3. ASSUME NEW d \in Delivery, Expire(d) PROVE Simulated
  BY <1>3, ExpireStep DEF Promise!Next
<1>4. ASSUME NEW w \in Worker, DeadLetter(w) PROVE Simulated
  <2>1. Promise!Settle(job[w])
    BY <1>4, SettleStep DEF DeadLetter, Engaged
  <2> QED
    BY <1>0, <1>4, <2>1 DEF Promise!Next, DeadLetter, Engaged
<1>5. ASSUME NEW w \in Worker, DeadLetterExhausted(w) PROVE Simulated
  <2>1. Promise!Settle(job[w])
    BY <1>5, SettleStep DEF DeadLetterExhausted, Engaged
  <2> QED
    BY <1>0, <1>5, <2>1 DEF Promise!Next, DeadLetterExhausted, Engaged
<1>6. ASSUME NEW w \in Worker, Fenced(w), pc[w] = "complete", RecordSuccess(w)
      PROVE Simulated
  <2>1. Promise!Settle(job[w])
    BY <1>6, SettleStep DEF RecordSuccess, Engaged
  <2> QED
    BY <1>0, <1>6, <2>1 DEF Promise!Next, Engaged
<1>7. ASSUME NEW w \in Worker, Complete(w) PROVE Simulated
  BY <1>6, <1>7 DEF Complete
<1>8. ASSUME NEW w \in Worker, CompleteThrows(w) PROVE Simulated
  BY <1>6, <1>8 DEF CompleteThrows, rows, Place, Unsettled
<1>9. ASSUME NEW d \in Delivery, BecomeDue(d) PROVE Simulated
  BY <1>9 DEF BecomeDue, Place, Unsettled, rows
<1>10. ASSUME NEW d \in Delivery, AgeLease(d) PROVE Simulated
  BY <1>10 DEF AgeLease, Place, Unsettled, rows
<1>11. ASSUME NEW l \in Lane, ReclaimLane(l) PROVE Simulated
  BY <1>11 DEF ReclaimLane, Place, Unsettled, rows
<1>12. ASSUME NEW w \in Worker, StartPass(w) PROVE Simulated
  BY <1>12 DEF StartPass, Place, Unsettled, rows
<1>13. ASSUME NEW w \in Worker, NEW d \in Delivery, Claim(w, d) PROVE Simulated
  BY <1>0, <1>13 DEF Claim, Claimable, Place, Unsettled, rows
<1>14. ASSUME NEW w \in Worker, ClaimNothing(w) PROVE Simulated
  BY <1>14 DEF ClaimNothing, Place, Unsettled, rows
<1>15. ASSUME NEW w \in Worker, EnterDelivery(w) PROVE Simulated
  BY <1>15 DEF EnterDelivery, Place, Unsettled, rows
<1>16. ASSUME NEW w \in Worker, OrderBlocked(w) PROVE Simulated
  BY <1>16 DEF OrderBlocked, Place, Unsettled, rows
<1>17. ASSUME NEW w \in Worker, OrderClear(w) PROVE Simulated
  BY <1>17 DEF OrderClear, Place, Unsettled, rows
<1>18. ASSUME NEW w \in Worker, BeginAttempt(w) PROVE Simulated
  BY <1>18 DEF BeginAttempt, Place, Unsettled, rows
<1>19. ASSUME NEW w \in Worker, BeginRefused(w) PROVE Simulated
  BY <1>19 DEF BeginRefused, Place, Unsettled, rows
<1>20. ASSUME NEW w \in Worker, DispatchReturns(w) PROVE Simulated
  BY <1>20 DEF DispatchReturns, Place, Unsettled, rows
<1>21. ASSUME NEW w \in Worker, NEW e \in {"deferred", "retryable", "final"},
              DispatchThrows(w, e)
       PROVE Simulated
  BY <1>21 DEF DispatchThrows, Place, Unsettled, rows
<1>22. ASSUME NEW w \in Worker, Release(w) PROVE Simulated
  BY <1>0, <1>22 DEF Release, Fenced, Unlease, Place, Unsettled, Settling, rows
<1>23. ASSUME NEW w \in Worker, Defer(w) PROVE Simulated
  BY <1>0, <1>23 DEF Defer, Fenced, Unlease, Place, Unsettled, Settling, rows
<1>24. ASSUME NEW w \in Worker, Retry(w) PROVE Simulated
  BY <1>0, <1>24 DEF Retry, Fenced, Unlease, Place, Unsettled, Settling, rows
<1>25. ASSUME NEW w \in Worker, LostFence(w) PROVE Simulated
  BY <1>25 DEF LostFence, Place, Unsettled, rows
<1>26. ASSUME NEW w \in Worker, StoreFails(w) PROVE Simulated
  BY <1>26 DEF StoreFails, Place, Unsettled, rows
<1>27. ASSUME NEW w \in Worker, BeginReplyLost(w) PROVE Simulated
  BY <1>27 DEF BeginReplyLost, Place, Unsettled, rows
<1>28. ASSUME NEW r \in Replica, StopEngine(r) PROVE Simulated
  BY <1>28 DEF StopEngine, Place, Unsettled, rows
<1>29. ASSUME NEW r \in Replica, Restart(r) PROVE Simulated
  BY <1>29 DEF Restart, Place, Unsettled, rows
<1>30. ASSUME NEW r \in Replica, NEW u \in User, CancelUser(r, u) PROVE Simulated
  BY <1>30 DEF CancelUser, Place, Unsettled, rows
<1>31. ASSUME NEW r \in Replica, NEW u \in User,
              ReleaseUserCancellation(r, u)
       PROVE Simulated
  BY <1>31 DEF ReleaseUserCancellation, Place, Unsettled, rows
<1>32. CASE UNCHANGED vars
  BY <1>32 DEF vars, rows, Place, Unsettled
<1> HIDE DEF Simulated
<1> QED
    BY <1>1, <1>2, <1>3, <1>4, <1>5, <1>7, <1>8, <1>9, <1>10, <1>11, <1>12,
     <1>13, <1>14, <1>15, <1>16, <1>17, <1>18, <1>19, <1>20, <1>21, <1>22,
     <1>23, <1>24, <1>25, <1>26, <1>27, <1>28, <1>29, <1>30, <1>31, <1>32
     DEF Next, Produce, Elapse, Decide, Attempt, SettleClaim, Fail, Manage, Simulated

\* Deliveries of a lane settle in the order in which they were published, and
\* a row is published at the tail, whatever leases, takeovers, restarts and
\* lost replies there are: TriggerQueue implements LaneOrder.
THEOREM KeepsPromiseHolds == Spec => KeepsPromise
<1>1. Init => Promise!Init
  BY DEF Init, Promise!Init, Place, Unsettled
<1>2. Inv /\ [Next]_vars => [Promise!Next]_<<Place, laneSequence>>
  BY SimulationStep
<1> QED
  BY Invariance, <1>1, <1>2, PTL DEF Spec, KeepsPromise, Promise!Spec
=============================================================================
