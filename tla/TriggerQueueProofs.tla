------------------------- MODULE TriggerQueueProofs -------------------------
(***************************************************************************)
(* Theorems about TriggerQueue, for every number of deliveries, lanes,     *)
(* users, replicas and workers and every attempt limit.                    *)
(***************************************************************************)
EXTENDS TriggerQueue, TLAPS

\* The steps at which a worker holds a claimed record, and those after
\* beginAttempt returned an attempt number.
Holding == Step \ {"idle", "claiming"}
Begun   == {"running", "complete", "retry", "dead", "defer"}

\* A worker has a record exactly while it works on one.
Jobs ==
  \A w \in Worker :
    /\ pc[w] \in Holding => job[w] \in Delivery /\ tok[w] \in Token
    /\ pc[w] \notin Holding => job[w] = None /\ tok[w] = None
    /\ pc[w] \in Begun => attempt[w] \in Nat \ {0}

TypeInv == TypeOK /\ Jobs

LEMMA TypeInit == Init => TypeInv
  BY TriggerQueueAssumption DEF Init, TypeInv, TypeOK, Jobs, Holding, Begun, Status,
     Phase, Error, Step

LEMMA TypeStep == TypeInv /\ [Next]_vars => TypeInv'
<1> SUFFICES ASSUME TypeInv, [Next]_vars PROVE TypeInv'
  OBVIOUS
<1> USE TriggerQueueAssumption DEF TypeInv, TypeOK, Jobs, Holding, Begun, Status, Phase,
     Error, Step, rows, engine, workers
<1>1. ASSUME NEW d \in Delivery, Enqueue(d) PROVE TypeInv'
  BY <1>1 DEF Enqueue
<1>2. ASSUME NEW d \in Delivery, Publish(d) PROVE TypeInv'
  BY <1>2 DEF Publish
<1>3. ASSUME NEW d \in Delivery, Requeue(d) PROVE TypeInv'
  BY <1>3 DEF Requeue
<1>4. ASSUME NEW d \in Delivery, Expire(d) PROVE TypeInv'
  BY <1>4 DEF Expire
<1>5. ASSUME NEW l \in Lane, ReclaimLane(l) PROVE TypeInv'
  BY <1>5 DEF ReclaimLane
<1>6. ASSUME NEW d \in Delivery, BecomeDue(d) PROVE TypeInv'
  BY <1>6 DEF BecomeDue
<1>7. ASSUME NEW d \in Delivery, AgeLease(d) PROVE TypeInv'
  BY <1>7, SMTT(30) DEF AgeLease
<1>8. ASSUME NEW w \in Worker, StartPass(w) PROVE TypeInv'
  BY <1>8 DEF StartPass, Goto
<1>9. ASSUME NEW w \in Worker, NEW d \in Delivery, Claim(w, d) PROVE TypeInv'
  BY <1>9 DEF Claim
<1>10. ASSUME NEW w \in Worker, ClaimNothing(w) PROVE TypeInv'
  BY <1>10 DEF ClaimNothing, Finish
<1>11. ASSUME NEW w \in Worker, EnterDelivery(w) PROVE TypeInv'
  BY <1>11 DEF EnterDelivery, Goto
<1>12. ASSUME NEW w \in Worker, OrderBlocked(w) PROVE TypeInv'
  BY <1>12 DEF OrderBlocked, Goto
<1>13. ASSUME NEW w \in Worker, OrderClear(w) PROVE TypeInv'
  BY <1>13, SMTT(30) DEF OrderClear, Goto
<1>14. ASSUME NEW w \in Worker, BeginAttempt(w) PROVE TypeInv'
  BY <1>14 DEF BeginAttempt, Cancelled
<1>15. ASSUME NEW w \in Worker, BeginRefused(w) PROVE TypeInv'
  BY <1>15 DEF BeginRefused, Finish
<1>16. ASSUME NEW w \in Worker, DispatchReturns(w) PROVE TypeInv'
  BY <1>16 DEF DispatchReturns, Goto
<1>17. ASSUME NEW w \in Worker, NEW e \in {"deferred", "retryable", "final"},
              DispatchThrows(w, e)
       PROVE TypeInv'
  BY <1>17 DEF DispatchThrows
<1>18. ASSUME NEW w \in Worker, Release(w) PROVE TypeInv'
  BY <1>18 DEF Release, Unlease, Finish
<1>19. ASSUME NEW w \in Worker, Defer(w) PROVE TypeInv'
  <2>1. /\ job[w] \in Delivery
        /\ attempt[w] \in Nat \ {0}
        /\ attempts[job[w]] = attempt[w]
    BY <1>19 DEF Defer
  <2>2. attempts[job[w]] - 1 \in Nat
    BY <2>1
  <2>3. attempts' \in [Delivery -> Nat]
    BY <1>19, <2>1, <2>2 DEF Defer
  <2> QED
    BY <1>19, <2>1, <2>3 DEF Defer, Unlease, Finish
<1>20. ASSUME NEW w \in Worker, Retry(w) PROVE TypeInv'
  BY <1>20 DEF Retry, Unlease, Finish
<1>21. ASSUME NEW w \in Worker, DeadLetter(w) PROVE TypeInv'
  BY <1>21 DEF DeadLetter, Unlease, Finish
<1>22. ASSUME NEW w \in Worker, DeadLetterExhausted(w) PROVE TypeInv'
  BY <1>22 DEF DeadLetterExhausted, Unlease, Finish
<1>23. ASSUME NEW w \in Worker, Complete(w) PROVE TypeInv'
  BY <1>23 DEF Complete, RecordSuccess, Unlease, Finish
<1>24. ASSUME NEW w \in Worker, CompleteThrows(w) PROVE TypeInv'
  BY <1>24, SMTT(30) DEF CompleteThrows, RecordSuccess, Unlease
<1>25. ASSUME NEW w \in Worker, LostFence(w) PROVE TypeInv'
  BY <1>25 DEF LostFence, Finish
<1>26. ASSUME NEW w \in Worker, StoreFails(w) PROVE TypeInv'
  BY <1>26 DEF StoreFails, Finish
<1>27. ASSUME NEW w \in Worker, BeginReplyLost(w) PROVE TypeInv'
  BY <1>27, SMTT(30) DEF BeginReplyLost, Finish
<1>28. ASSUME NEW r \in Replica, StopEngine(r) PROVE TypeInv'
  BY <1>28 DEF StopEngine
<1>29. ASSUME NEW r \in Replica, NEW u \in User, CancelUser(r, u) PROVE TypeInv'
  BY <1>29 DEF CancelUser
<1>30. ASSUME NEW r \in Replica, NEW u \in User, ReleaseUserCancellation(r, u) PROVE TypeInv'
  BY <1>30 DEF ReleaseUserCancellation
<1>31. ASSUME NEW r \in Replica, Restart(r) PROVE TypeInv'
  BY <1>31 DEF Restart
<1>32. CASE UNCHANGED vars
  BY <1>32 DEF vars
<1> HIDE DEF TypeInv
<1> QED
  BY <1>1, <1>2, <1>3, <1>4, <1>5, <1>6, <1>7, <1>8, <1>9, <1>10, <1>11, <1>12, <1>13,
     <1>14, <1>15, <1>16, <1>17, <1>18, <1>19, <1>20, <1>21, <1>22, <1>23, <1>24, <1>25,
     <1>26, <1>27, <1>28, <1>29, <1>30, <1>31, <1>32
     DEF Next, Produce, Elapse, Decide, Attempt, SettleClaim, Fail, Manage

\* Every row, counter and worker stays in its type: attempts never goes below
\* zero although deferral decrements it.
THEOREM TypeCorrect == Spec => []TypeOK
<1>1. Spec => []TypeInv
  BY TypeInit, TypeStep, PTL DEF Spec
<1>2. TypeInv => TypeOK
  BY DEF TypeInv
<1> QED
  BY <1>1, <1>2, PTL

-----------------------------------------------------------------------------
(* Claims: a token is held by one row and remembered by one worker. *)

ClaimInv ==
  /\ \A d \in Delivery : status[d] = "leased" <=> claimToken[d] # None
  /\ \A d, e \in Delivery : d # e /\ claimToken[d] = claimToken[e] => claimToken[d] = None
  /\ \A v, w \in Worker : v # w /\ tok[v] = tok[w] => tok[v] = None
  /\ \A w \in Worker, d \in Delivery :
       claimToken[d] = tok[w] /\ tok[w] # None => d = job[w]

LEMMA ClaimStep == TypeInv /\ ClaimInv /\ [Next]_vars => ClaimInv'
<1> SUFFICES ASSUME TypeInv, ClaimInv, [Next]_vars PROVE ClaimInv'
  OBVIOUS
<1> USE TriggerQueueAssumption DEF TypeInv, TypeOK, Jobs, Holding, ClaimInv, Status, Step,
     Settling, Fenced, BeginFence, Exhausted, LastAttempt, rows, engine, workers
<1>1. ASSUME NEW d \in Delivery, Enqueue(d) PROVE ClaimInv'
  BY <1>1 DEF Enqueue
<1>2. ASSUME NEW d \in Delivery, Publish(d) PROVE ClaimInv'
  BY <1>2 DEF Publish
<1>3. ASSUME NEW d \in Delivery, Requeue(d) PROVE ClaimInv'
  BY <1>3 DEF Requeue
<1>4. ASSUME NEW d \in Delivery, Expire(d) PROVE ClaimInv'
  BY <1>4 DEF Expire
<1>5. ASSUME NEW l \in Lane, ReclaimLane(l) PROVE ClaimInv'
  BY <1>5 DEF ReclaimLane
<1>6. ASSUME NEW d \in Delivery, BecomeDue(d) PROVE ClaimInv'
  BY <1>6 DEF BecomeDue
<1>7. ASSUME NEW d \in Delivery, AgeLease(d) PROVE ClaimInv'
  BY <1>7 DEF AgeLease
<1>8. ASSUME NEW w \in Worker, StartPass(w) PROVE ClaimInv'
  BY <1>8 DEF StartPass, Goto
<1>9. ASSUME NEW w \in Worker, NEW d \in Delivery, Claim(w, d) PROVE ClaimInv'
  BY <1>9 DEF Claim, InUse
<1>10. ASSUME NEW w \in Worker, ClaimNothing(w) PROVE ClaimInv'
  BY <1>10 DEF ClaimNothing, Finish
<1>11. ASSUME NEW w \in Worker, EnterDelivery(w) PROVE ClaimInv'
  BY <1>11 DEF EnterDelivery, Goto
<1>12. ASSUME NEW w \in Worker, OrderBlocked(w) PROVE ClaimInv'
  BY <1>12 DEF OrderBlocked, Goto
<1>13. ASSUME NEW w \in Worker, OrderClear(w) PROVE ClaimInv'
  BY <1>13 DEF OrderClear, Goto
<1>14. ASSUME NEW w \in Worker, BeginAttempt(w) PROVE ClaimInv'
  BY <1>14 DEF BeginAttempt
<1>15. ASSUME NEW w \in Worker, BeginRefused(w) PROVE ClaimInv'
  BY <1>15 DEF BeginRefused, Finish
<1>16. ASSUME NEW w \in Worker, DispatchReturns(w) PROVE ClaimInv'
  BY <1>16 DEF DispatchReturns, Goto
<1>17. ASSUME NEW w \in Worker, NEW e \in {"deferred", "retryable", "final"}, DispatchThrows(w,
              e)
       PROVE ClaimInv'
  BY <1>17 DEF DispatchThrows
<1>18. ASSUME NEW w \in Worker, Release(w) PROVE ClaimInv'
  BY <1>18 DEF Release, Unlease, Finish
<1>19. ASSUME NEW w \in Worker, Defer(w) PROVE ClaimInv'
  BY <1>19 DEF Defer, Unlease, Finish
<1>20. ASSUME NEW w \in Worker, Retry(w) PROVE ClaimInv'
  BY <1>20 DEF Retry, Unlease, Finish
<1>21. ASSUME NEW w \in Worker, DeadLetter(w) PROVE ClaimInv'
  BY <1>21 DEF DeadLetter, Unlease, Finish
<1>22. ASSUME NEW w \in Worker, DeadLetterExhausted(w) PROVE ClaimInv'
  BY <1>22 DEF DeadLetterExhausted, Unlease, Finish
<1>23. ASSUME NEW w \in Worker, Complete(w) PROVE ClaimInv'
  BY <1>23 DEF Complete, RecordSuccess, Unlease, Finish
<1>24. ASSUME NEW w \in Worker, CompleteThrows(w) PROVE ClaimInv'
  <2>1. UNCHANGED <<tok, job>>
    BY <1>24 DEF CompleteThrows
  <2>2. CASE Fenced(w) /\ RecordSuccess(w)
    BY <1>24, <2>1, <2>2 DEF CompleteThrows, RecordSuccess, Unlease
  <2>3. CASE UNCHANGED rows
    BY <2>1, <2>3
  <2> QED
    BY <1>24, <2>2, <2>3 DEF CompleteThrows
<1>25. ASSUME NEW w \in Worker, LostFence(w) PROVE ClaimInv'
  BY <1>25 DEF LostFence, Finish
<1>26. ASSUME NEW w \in Worker, StoreFails(w) PROVE ClaimInv'
  BY <1>26 DEF StoreFails, Finish
<1>27. ASSUME NEW w \in Worker, BeginReplyLost(w) PROVE ClaimInv'
  BY <1>27 DEF BeginReplyLost, Finish
<1>28. ASSUME NEW r \in Replica, StopEngine(r) PROVE ClaimInv'
  BY <1>28 DEF StopEngine
<1>29. ASSUME NEW r \in Replica, NEW u \in User, CancelUser(r, u) PROVE ClaimInv'
  BY <1>29 DEF CancelUser
<1>30. ASSUME NEW r \in Replica, NEW u \in User, ReleaseUserCancellation(r,
              u)
       PROVE ClaimInv'
  BY <1>30 DEF ReleaseUserCancellation
<1>31. ASSUME NEW r \in Replica, Restart(r) PROVE ClaimInv'
  BY <1>31 DEF Restart
<1>32. CASE UNCHANGED vars
  BY <1>32 DEF vars
<1> HIDE DEF ClaimInv
<1> QED
  BY <1>1, <1>2, <1>3, <1>4, <1>5, <1>6, <1>7, <1>8, <1>9, <1>10, <1>11, <1>12,
     <1>13, <1>14, <1>15, <1>16, <1>17, <1>18, <1>19, <1>20, <1>21, <1>22, <1>23,
     <1>24, <1>25, <1>26, <1>27, <1>28, <1>29, <1>30, <1>31, <1>32
     DEF Next, Produce, Elapse, Decide, Attempt, SettleClaim, Fail, Manage

-----------------------------------------------------------------------------
(* Lanes: unsettled rows of a lane have different sequences up to its tail. *)

SequenceInv ==
  /\ \A d \in Delivery : Unsettled(d) => laneSequence[d] <= tail[LaneOf[d]]
  /\ \A d, e \in Delivery :
       /\ d # e /\ SameLane(d, e)
       /\ Unsettled(d) /\ Unsettled(e)
       => laneSequence[d] # laneSequence[e]

LEMMA SequenceStep == TypeInv /\ SequenceInv /\ [Next]_vars => SequenceInv'
<1> SUFFICES ASSUME TypeInv, SequenceInv, [Next]_vars PROVE SequenceInv'
  OBVIOUS
<1> USE TriggerQueueAssumption DEF TypeInv, TypeOK, Jobs, Holding, SequenceInv, Unsettled,
     SameLane, Status, Step, Settling, Fenced, BeginFence, Exhausted, LastAttempt, rows, engine, workers
<1>1. ASSUME NEW d \in Delivery, Enqueue(d) PROVE SequenceInv'
  BY <1>1 DEF Enqueue
<1>2. ASSUME NEW d \in Delivery, Publish(d) PROVE SequenceInv'
  BY <1>2 DEF Publish
<1>3. ASSUME NEW d \in Delivery, Requeue(d) PROVE SequenceInv'
  BY <1>3 DEF Requeue
<1>4. ASSUME NEW d \in Delivery, Expire(d) PROVE SequenceInv'
  BY <1>4 DEF Expire
<1>5. ASSUME NEW l \in Lane, ReclaimLane(l) PROVE SequenceInv'
  BY <1>5 DEF ReclaimLane
<1>6. ASSUME NEW d \in Delivery, BecomeDue(d) PROVE SequenceInv'
  BY <1>6 DEF BecomeDue
<1>7. ASSUME NEW d \in Delivery, AgeLease(d) PROVE SequenceInv'
  BY <1>7 DEF AgeLease
<1>8. ASSUME NEW w \in Worker, StartPass(w) PROVE SequenceInv'
  BY <1>8 DEF StartPass, Goto
<1>9. ASSUME NEW w \in Worker, NEW d \in Delivery, Claim(w, d) PROVE SequenceInv'
  BY <1>9 DEF Claim, InUse, Claimable
<1>10. ASSUME NEW w \in Worker, ClaimNothing(w) PROVE SequenceInv'
  BY <1>10 DEF ClaimNothing, Finish
<1>11. ASSUME NEW w \in Worker, EnterDelivery(w) PROVE SequenceInv'
  BY <1>11 DEF EnterDelivery, Goto
<1>12. ASSUME NEW w \in Worker, OrderBlocked(w) PROVE SequenceInv'
  BY <1>12 DEF OrderBlocked, Goto
<1>13. ASSUME NEW w \in Worker, OrderClear(w) PROVE SequenceInv'
  BY <1>13 DEF OrderClear, Goto
<1>14. ASSUME NEW w \in Worker, BeginAttempt(w) PROVE SequenceInv'
  BY <1>14 DEF BeginAttempt
<1>15. ASSUME NEW w \in Worker, BeginRefused(w) PROVE SequenceInv'
  BY <1>15 DEF BeginRefused, Finish
<1>16. ASSUME NEW w \in Worker, DispatchReturns(w) PROVE SequenceInv'
  BY <1>16 DEF DispatchReturns, Goto
<1>17. ASSUME NEW w \in Worker, NEW e \in {"deferred", "retryable", "final"}, DispatchThrows(w,
              e)
       PROVE SequenceInv'
  BY <1>17 DEF DispatchThrows
<1>18. ASSUME NEW w \in Worker, Release(w) PROVE SequenceInv'
  BY <1>18 DEF Release, Unlease, Finish
<1>19. ASSUME NEW w \in Worker, Defer(w) PROVE SequenceInv'
  BY <1>19 DEF Defer, Unlease, Finish
<1>20. ASSUME NEW w \in Worker, Retry(w) PROVE SequenceInv'
  BY <1>20 DEF Retry, Unlease, Finish
<1>21. ASSUME NEW w \in Worker, DeadLetter(w) PROVE SequenceInv'
  BY <1>21 DEF DeadLetter, Unlease, Finish
<1>22. ASSUME NEW w \in Worker, DeadLetterExhausted(w) PROVE SequenceInv'
  BY <1>22 DEF DeadLetterExhausted, Unlease, Finish
<1>23. ASSUME NEW w \in Worker, Complete(w) PROVE SequenceInv'
  BY <1>23 DEF Complete, RecordSuccess, Unlease, Finish
<1>24. ASSUME NEW w \in Worker, CompleteThrows(w) PROVE SequenceInv'
  BY <1>24 DEF CompleteThrows, RecordSuccess, Unlease
<1>25. ASSUME NEW w \in Worker, LostFence(w) PROVE SequenceInv'
  BY <1>25 DEF LostFence, Finish
<1>26. ASSUME NEW w \in Worker, StoreFails(w) PROVE SequenceInv'
  BY <1>26 DEF StoreFails, Finish
<1>27. ASSUME NEW w \in Worker, BeginReplyLost(w) PROVE SequenceInv'
  BY <1>27 DEF BeginReplyLost, Finish
<1>28. ASSUME NEW r \in Replica, StopEngine(r) PROVE SequenceInv'
  BY <1>28 DEF StopEngine
<1>29. ASSUME NEW r \in Replica, NEW u \in User, CancelUser(r, u) PROVE SequenceInv'
  BY <1>29 DEF CancelUser
<1>30. ASSUME NEW r \in Replica, NEW u \in User, ReleaseUserCancellation(r,
              u)
       PROVE SequenceInv'
  BY <1>30 DEF ReleaseUserCancellation
<1>31. ASSUME NEW r \in Replica, Restart(r) PROVE SequenceInv'
  BY <1>31 DEF Restart
<1>32. CASE UNCHANGED vars
  BY <1>32 DEF vars
<1> HIDE DEF SequenceInv
<1> QED
  BY <1>1, <1>2, <1>3, <1>4, <1>5, <1>6, <1>7, <1>8, <1>9, <1>10, <1>11, <1>12,
     <1>13, <1>14, <1>15, <1>16, <1>17, <1>18, <1>19, <1>20, <1>21, <1>22, <1>23,
     <1>24, <1>25, <1>26, <1>27, <1>28, <1>29, <1>30, <1>31, <1>32
     DEF Next, Produce, Elapse, Decide, Attempt, SettleClaim, Fail, Manage

-----------------------------------------------------------------------------
(* Order: what the ordering check saw stays true while the claim is valid. *)

OrderInv ==
  \A w \in Worker, e \in Delivery :
    /\ pc[w] \in Engaged
    /\ Fenced(w)
    /\ SameLane(job[w], e) /\ Unsettled(e)
    => laneSequence[e] >= laneSequence[job[w]]

LEMMA OrderStep ==
  TypeInv /\ ClaimInv /\ SequenceInv /\ OrderInv /\ [Next]_vars => OrderInv'
<1> SUFFICES ASSUME TypeInv, ClaimInv, SequenceInv, OrderInv, [Next]_vars PROVE OrderInv'
  OBVIOUS
<1> USE TriggerQueueAssumption DEF TypeInv, TypeOK, Jobs, Holding, ClaimInv, SequenceInv,
     OrderInv, Unsettled, SameLane, Status, Step, Settling, Engaged, Fenced, BeginFence, Exhausted,
     LastAttempt, rows, engine, workers
<1>1. ASSUME NEW d \in Delivery, Enqueue(d) PROVE OrderInv'
  BY <1>1 DEF Enqueue
<1>2. ASSUME NEW d \in Delivery, Publish(d) PROVE OrderInv'
  BY <1>2 DEF Publish
<1>3. ASSUME NEW d \in Delivery, Requeue(d) PROVE OrderInv'
  BY <1>3 DEF Requeue
<1>4. ASSUME NEW d \in Delivery, Expire(d) PROVE OrderInv'
  BY <1>4 DEF Expire
<1>5. ASSUME NEW l \in Lane, ReclaimLane(l) PROVE OrderInv'
  BY <1>5 DEF ReclaimLane
<1>6. ASSUME NEW d \in Delivery, BecomeDue(d) PROVE OrderInv'
  BY <1>6 DEF BecomeDue
<1>7. ASSUME NEW d \in Delivery, AgeLease(d) PROVE OrderInv'
  BY <1>7 DEF AgeLease
<1>8. ASSUME NEW w \in Worker, StartPass(w) PROVE OrderInv'
  BY <1>8 DEF StartPass, Goto
<1>9. ASSUME NEW w \in Worker, NEW d \in Delivery, Claim(w, d) PROVE OrderInv'
  BY <1>9 DEF Claim, Claimable, InUse
<1>10. ASSUME NEW w \in Worker, ClaimNothing(w) PROVE OrderInv'
  BY <1>10 DEF ClaimNothing, Finish
<1>11. ASSUME NEW w \in Worker, EnterDelivery(w) PROVE OrderInv'
  BY <1>11 DEF EnterDelivery, Goto
<1>12. ASSUME NEW w \in Worker, OrderBlocked(w) PROVE OrderInv'
  BY <1>12 DEF OrderBlocked, Goto
<1>13. ASSUME NEW w \in Worker, OrderClear(w) PROVE OrderInv'
  BY <1>13, SMTT(30) DEF OrderClear, Goto, Earlier
<1>14. ASSUME NEW w \in Worker, BeginAttempt(w) PROVE OrderInv'
  BY <1>14 DEF BeginAttempt
<1>15. ASSUME NEW w \in Worker, BeginRefused(w) PROVE OrderInv'
  BY <1>15 DEF BeginRefused, Finish
<1>16. ASSUME NEW w \in Worker, DispatchReturns(w) PROVE OrderInv'
  BY <1>16 DEF DispatchReturns, Goto
<1>17. ASSUME NEW w \in Worker, NEW e \in {"deferred", "retryable", "final"}, DispatchThrows(w,
              e)
       PROVE OrderInv'
  BY <1>17 DEF DispatchThrows
<1>18. ASSUME NEW w \in Worker, Release(w) PROVE OrderInv'
  BY <1>18 DEF Release, Unlease, Finish
<1>19. ASSUME NEW w \in Worker, Defer(w) PROVE OrderInv'
  BY <1>19 DEF Defer, Unlease, Finish
<1>20. ASSUME NEW w \in Worker, Retry(w) PROVE OrderInv'
  BY <1>20 DEF Retry, Unlease, Finish
<1>21. ASSUME NEW w \in Worker, DeadLetter(w) PROVE OrderInv'
  BY <1>21 DEF DeadLetter, Unlease, Finish
<1>22. ASSUME NEW w \in Worker, DeadLetterExhausted(w) PROVE OrderInv'
  BY <1>22 DEF DeadLetterExhausted, Unlease, Finish
<1>23. ASSUME NEW w \in Worker, Complete(w) PROVE OrderInv'
  BY <1>23 DEF Complete, RecordSuccess, Unlease, Finish
<1>24. ASSUME NEW w \in Worker, CompleteThrows(w) PROVE OrderInv'
  BY <1>24 DEF CompleteThrows, RecordSuccess, Unlease
<1>25. ASSUME NEW w \in Worker, LostFence(w) PROVE OrderInv'
  BY <1>25 DEF LostFence, Finish
<1>26. ASSUME NEW w \in Worker, StoreFails(w) PROVE OrderInv'
  BY <1>26 DEF StoreFails, Finish
<1>27. ASSUME NEW w \in Worker, BeginReplyLost(w) PROVE OrderInv'
  BY <1>27 DEF BeginReplyLost, Finish
<1>28. ASSUME NEW r \in Replica, StopEngine(r) PROVE OrderInv'
  BY <1>28 DEF StopEngine
<1>29. ASSUME NEW r \in Replica, NEW u \in User, CancelUser(r, u) PROVE OrderInv'
  BY <1>29 DEF CancelUser
<1>30. ASSUME NEW r \in Replica, NEW u \in User, ReleaseUserCancellation(r,
              u)
       PROVE OrderInv'
  BY <1>30 DEF ReleaseUserCancellation
<1>31. ASSUME NEW r \in Replica, Restart(r) PROVE OrderInv'
  BY <1>31 DEF Restart
<1>32. CASE UNCHANGED vars
  BY <1>32 DEF vars
<1> HIDE DEF OrderInv
<1> QED
  BY <1>1, <1>2, <1>3, <1>4, <1>5, <1>6, <1>7, <1>8, <1>9, <1>10, <1>11, <1>12,
     <1>13, <1>14, <1>15, <1>16, <1>17, <1>18, <1>19, <1>20, <1>21, <1>22, <1>23,
     <1>24, <1>25, <1>26, <1>27, <1>28, <1>29, <1>30, <1>31, <1>32
     DEF Next, Produce, Elapse, Decide, Attempt, SettleClaim, Fail, Manage

-----------------------------------------------------------------------------
(* Budget: what a worker knows about the attempts of its row. *)

Spent ==
  \A w \in Worker :
    /\ pc[w] = "begin" => seen[w] < MaxAttempts
    /\ pc[w] = "exhausted" => seen[w] >= MaxAttempts
    /\ pc[w] \in Begun => attempt[w] = seen[w] + 1 /\ attempt[w] <= MaxAttempts
    /\ pc[w] = "dead" => failure[w] = "final" \/ attempt[w] = MaxAttempts

BudgetInv == AttemptBudget /\ ClaimKnowsAttempts /\ DeadForCause /\ Spent

\* A claim found exhausted has spent exactly the whole budget.
LEMMA ExhaustedIsSpent ==
  ASSUME TypeInv, BudgetInv, NEW w \in Worker, DeadLetterExhausted(w)
  PROVE  job[w] \in Delivery /\ attempts[job[w]] = MaxAttempts
<1>1. job[w] \in Delivery
  BY DEF TypeInv, Jobs, Holding, Step, DeadLetterExhausted
<1>2. attempts[job[w]] = seen[w]
  BY <1>1 DEF BudgetInv, ClaimKnowsAttempts, DeadLetterExhausted
<1>3. seen[w] >= MaxAttempts
  BY DEF BudgetInv, Spent, DeadLetterExhausted
<1>4. attempts[job[w]] \in Nat /\ attempts[job[w]] <= MaxAttempts
  BY <1>1 DEF TypeInv, TypeOK, BudgetInv, AttemptBudget
<1>5. attempts[job[w]] = MaxAttempts
  BY <1>2, <1>3, <1>4, TriggerQueueAssumption
<1> QED
  BY <1>1, <1>5

LEMMA BudgetStep == TypeInv /\ ClaimInv /\ BudgetInv /\ [Next]_vars => BudgetInv'
<1> SUFFICES ASSUME TypeInv, ClaimInv, BudgetInv, [Next]_vars PROVE BudgetInv'
  OBVIOUS
<1> USE TriggerQueueAssumption DEF TypeInv, TypeOK, Jobs, Holding, Begun, ClaimInv,
     BudgetInv, AttemptBudget, ClaimKnowsAttempts, DeadForCause, Spent, Status, Step,
     Settling, Fenced, BeginFence, Exhausted, LastAttempt, rows, engine, workers
<1>1. ASSUME NEW d \in Delivery, Enqueue(d) PROVE BudgetInv'
  BY <1>1 DEF Enqueue
<1>2. ASSUME NEW d \in Delivery, Publish(d) PROVE BudgetInv'
  BY <1>2 DEF Publish
<1>3. ASSUME NEW d \in Delivery, Requeue(d) PROVE BudgetInv'
  BY <1>3 DEF Requeue
<1>4. ASSUME NEW d \in Delivery, Expire(d) PROVE BudgetInv'
  BY <1>4 DEF Expire
<1>5. ASSUME NEW l \in Lane, ReclaimLane(l) PROVE BudgetInv'
  BY <1>5 DEF ReclaimLane
<1>6. ASSUME NEW d \in Delivery, BecomeDue(d) PROVE BudgetInv'
  BY <1>6 DEF BecomeDue
<1>7. ASSUME NEW d \in Delivery, AgeLease(d) PROVE BudgetInv'
  BY <1>7 DEF AgeLease
<1>8. ASSUME NEW w \in Worker, StartPass(w) PROVE BudgetInv'
  BY <1>8 DEF StartPass, Goto
<1>9. ASSUME NEW w \in Worker, NEW d \in Delivery, Claim(w, d) PROVE BudgetInv'
  BY <1>9 DEF Claim, Claimable, InUse
<1>10. ASSUME NEW w \in Worker, ClaimNothing(w) PROVE BudgetInv'
  BY <1>10 DEF ClaimNothing, Finish
<1>11. ASSUME NEW w \in Worker, EnterDelivery(w) PROVE BudgetInv'
  BY <1>11 DEF EnterDelivery, Goto
<1>12. ASSUME NEW w \in Worker, OrderBlocked(w) PROVE BudgetInv'
  BY <1>12 DEF OrderBlocked, Goto
<1>13. ASSUME NEW w \in Worker, OrderClear(w) PROVE BudgetInv'
  BY <1>13 DEF OrderClear, Goto
<1>14. ASSUME NEW w \in Worker, BeginAttempt(w) PROVE BudgetInv'
  BY <1>14 DEF BeginAttempt
<1>15. ASSUME NEW w \in Worker, BeginRefused(w) PROVE BudgetInv'
  BY <1>15 DEF BeginRefused, Finish
<1>16. ASSUME NEW w \in Worker, DispatchReturns(w) PROVE BudgetInv'
  BY <1>16 DEF DispatchReturns, Goto
<1>17. ASSUME NEW w \in Worker, NEW e \in {"deferred", "retryable", "final"}, DispatchThrows(w,
              e)
       PROVE BudgetInv'
  BY <1>17 DEF DispatchThrows
<1>18. ASSUME NEW w \in Worker, Release(w) PROVE BudgetInv'
  BY <1>18 DEF Release, Unlease, Finish
<1>19. ASSUME NEW w \in Worker, Defer(w) PROVE BudgetInv'
  BY <1>19 DEF Defer, Unlease, Finish
<1>20. ASSUME NEW w \in Worker, Retry(w) PROVE BudgetInv'
  BY <1>20 DEF Retry, Unlease, Finish
<1>21. ASSUME NEW w \in Worker, DeadLetter(w) PROVE BudgetInv'
  BY <1>21 DEF DeadLetter, Unlease, Finish
<1>22. ASSUME NEW w \in Worker, DeadLetterExhausted(w) PROVE BudgetInv'
  <2>1. job[w] \in Delivery /\ attempts[job[w]] = MaxAttempts
    BY <1>22, ExhaustedIsSpent
  <2>2. /\ status' = [status EXCEPT ![job[w]] = "dead"]
        /\ claimToken' = [claimToken EXCEPT ![job[w]] = None]
        /\ UNCHANGED attempts
        /\ \A d \in Delivery : d # job[w] => lastError'[d] = lastError[d]
        /\ Finish(w)
    BY <1>22 DEF DeadLetterExhausted, Unlease
  <2> QED
    BY <2>1, <2>2 DEF Finish
<1>23. ASSUME NEW w \in Worker, Complete(w) PROVE BudgetInv'
  BY <1>23 DEF Complete, RecordSuccess, Unlease, Finish
<1>24. ASSUME NEW w \in Worker, CompleteThrows(w) PROVE BudgetInv'
  BY <1>24 DEF CompleteThrows, RecordSuccess, Unlease
<1>25. ASSUME NEW w \in Worker, LostFence(w) PROVE BudgetInv'
  BY <1>25 DEF LostFence, Finish
<1>26. ASSUME NEW w \in Worker, StoreFails(w) PROVE BudgetInv'
  BY <1>26 DEF StoreFails, Finish
<1>27. ASSUME NEW w \in Worker, BeginReplyLost(w) PROVE BudgetInv'
  BY <1>27 DEF BeginReplyLost, Finish
<1>28. ASSUME NEW r \in Replica, StopEngine(r) PROVE BudgetInv'
  BY <1>28 DEF StopEngine
<1>29. ASSUME NEW r \in Replica, NEW u \in User, CancelUser(r, u) PROVE BudgetInv'
  BY <1>29 DEF CancelUser
<1>30. ASSUME NEW r \in Replica, NEW u \in User, ReleaseUserCancellation(r,
              u)
       PROVE BudgetInv'
  BY <1>30 DEF ReleaseUserCancellation
<1>31. ASSUME NEW r \in Replica, Restart(r) PROVE BudgetInv'
  BY <1>31 DEF Restart
<1>32. CASE UNCHANGED vars
  BY <1>32 DEF vars
<1> HIDE DEF BudgetInv
<1> QED
  BY <1>1, <1>2, <1>3, <1>4, <1>5, <1>6, <1>7, <1>8, <1>9, <1>10, <1>11, <1>12,
     <1>13, <1>14, <1>15, <1>16, <1>17, <1>18, <1>19, <1>20, <1>21, <1>22, <1>23,
     <1>24, <1>25, <1>26, <1>27, <1>28, <1>29, <1>30, <1>31, <1>32
     DEF Next, Produce, Elapse, Decide, Attempt, SettleClaim, Fail, Manage

-----------------------------------------------------------------------------
(* The theorems. *)

Inv == TypeInv /\ ClaimInv /\ SequenceInv /\ OrderInv /\ BudgetInv

LEMMA InvInit == Init => Inv
<1> SUFFICES ASSUME Init PROVE Inv
  OBVIOUS
<1>1. TypeInv
  BY TypeInit
<1>2. ClaimInv /\ SequenceInv /\ OrderInv /\ BudgetInv
  BY TriggerQueueAssumption DEF Init, ClaimInv, SequenceInv, OrderInv, BudgetInv, Unsettled,
     AttemptBudget, ClaimKnowsAttempts, DeadForCause, Spent, Begun, Engaged
<1> QED
  BY <1>1, <1>2 DEF Inv

LEMMA Invariance == Spec => []Inv
<1>1. Inv /\ [Next]_vars => Inv'
  BY TypeStep, ClaimStep, SequenceStep, OrderStep, BudgetStep DEF Inv
<1> QED
  BY InvInit, <1>1, PTL DEF Spec

\* The lane lock nobody takes: although the ordering check and beginAttempt are
\* separate calls, no two valid claims of a lane get past the check.
THEOREM LaneSerialHolds == Spec => []LaneSerial
<1>1. Inv => LaneSerial
  <2> SUFFICES ASSUME Inv,
                      NEW v \in Worker, NEW w \in Worker, v # w,
                      pc[v] \in Engaged, pc[w] \in Engaged,
                      Fenced(v), Fenced(w),
                      SameLane(job[v], job[w])
               PROVE FALSE
    BY DEF LaneSerial
  <2>1. /\ job[v] \in Delivery /\ job[w] \in Delivery
        /\ tok[v] # None /\ tok[w] # None
        /\ laneSequence[job[v]] \in Nat /\ laneSequence[job[w]] \in Nat
    BY TriggerQueueAssumption DEF Inv, TypeInv, TypeOK, Jobs, Holding, Engaged, Step
  <2>2. job[v] # job[w]
    BY <2>1 DEF Inv, ClaimInv, Fenced
  <2>3. Unsettled(job[v]) /\ Unsettled(job[w])
    BY DEF Fenced, Unsettled
  <2>4. laneSequence[job[v]] # laneSequence[job[w]]
    BY <2>1, <2>2, <2>3 DEF Inv, SequenceInv
  <2>5. /\ laneSequence[job[w]] >= laneSequence[job[v]]
        /\ laneSequence[job[v]] >= laneSequence[job[w]]
    BY <2>1, <2>3 DEF Inv, OrderInv, SameLane
  <2> QED
    BY <2>1, <2>4, <2>5
<1> QED
  BY Invariance, <1>1, PTL

\* No row is attempted more often than maxAttempts allows, whatever claims are
\* lost, taken over or left behind.
THEOREM AttemptBudgetHolds == Spec => []AttemptBudget
<1>1. Inv => AttemptBudget
  BY DEF Inv, BudgetInv
<1> QED
  BY Invariance, <1>1, PTL

\* A worker with a valid claim knows the exact number of attempts of its row.
THEOREM ClaimKnowsAttemptsHolds == Spec => []ClaimKnowsAttempts
<1>1. Inv => ClaimKnowsAttempts
  BY DEF Inv, BudgetInv
<1> QED
  BY Invariance, <1>1, PTL

\* A dead letter has spent its budget or met a final failure.
THEOREM DeadForCauseHolds == Spec => []DeadForCause
<1>1. Inv => DeadForCause
  BY DEF Inv, BudgetInv
<1> QED
  BY Invariance, <1>1, PTL

\* The steps by which worker w ends its own claim.
Settles(w) == \/ Release(w) \/ Defer(w) \/ Retry(w) \/ DeadLetter(w)
              \/ DeadLetterExhausted(w) \/ Complete(w) \/ CompleteThrows(w)

SettledByHolder ==
  \A d \in Delivery : status[d] = "leased" /\ status'[d] # "leased" =>
    \E w \in Worker : job[w] = d /\ Fenced(w) /\ Settles(w)

LEMMA HolderStep == TypeInv /\ [Next]_vars => SettledByHolder
<1> SUFFICES ASSUME TypeInv, [Next]_vars PROVE SettledByHolder
  OBVIOUS
<1> USE TriggerQueueAssumption DEF TypeInv, TypeOK, Jobs, Holding, SettledByHolder, Status,
     Step, rows, engine, workers
<1>1. ASSUME NEW d \in Delivery, Enqueue(d) PROVE SettledByHolder
  BY <1>1 DEF Enqueue
<1>2. ASSUME NEW d \in Delivery, Publish(d) PROVE SettledByHolder
  BY <1>2 DEF Publish
<1>3. ASSUME NEW d \in Delivery, Requeue(d) PROVE SettledByHolder
  BY <1>3 DEF Requeue
<1>4. ASSUME NEW d \in Delivery, Expire(d) PROVE SettledByHolder
  BY <1>4 DEF Expire
<1>5. ASSUME NEW l \in Lane, ReclaimLane(l) PROVE SettledByHolder
  BY <1>5 DEF ReclaimLane
<1>6. ASSUME NEW d \in Delivery, BecomeDue(d) PROVE SettledByHolder
  BY <1>6 DEF BecomeDue
<1>7. ASSUME NEW d \in Delivery, AgeLease(d) PROVE SettledByHolder
  BY <1>7 DEF AgeLease
<1>8. ASSUME NEW w \in Worker, StartPass(w) PROVE SettledByHolder
  BY <1>8 DEF StartPass, Goto
<1>9. ASSUME NEW w \in Worker, NEW d \in Delivery, Claim(w, d) PROVE SettledByHolder
  BY <1>9 DEF Claim, InUse, Claimable
<1>10. ASSUME NEW w \in Worker, ClaimNothing(w) PROVE SettledByHolder
  BY <1>10 DEF ClaimNothing, Finish
<1>11. ASSUME NEW w \in Worker, EnterDelivery(w) PROVE SettledByHolder
  BY <1>11 DEF EnterDelivery, Goto
<1>12. ASSUME NEW w \in Worker, OrderBlocked(w) PROVE SettledByHolder
  BY <1>12 DEF OrderBlocked, Goto
<1>13. ASSUME NEW w \in Worker, OrderClear(w) PROVE SettledByHolder
  BY <1>13 DEF OrderClear, Goto
<1>14. ASSUME NEW w \in Worker, BeginAttempt(w) PROVE SettledByHolder
  BY <1>14 DEF BeginAttempt
<1>15. ASSUME NEW w \in Worker, BeginRefused(w) PROVE SettledByHolder
  BY <1>15 DEF BeginRefused, Finish
<1>16. ASSUME NEW w \in Worker, DispatchReturns(w) PROVE SettledByHolder
  BY <1>16 DEF DispatchReturns, Goto
<1>17. ASSUME NEW w \in Worker, NEW e \in {"deferred", "retryable", "final"}, DispatchThrows(w,
              e)
       PROVE SettledByHolder
  BY <1>17 DEF DispatchThrows
<1>18. ASSUME NEW w \in Worker, Release(w) PROVE SettledByHolder
  BY <1>18 DEF Release, Unlease, Settles
<1>19. ASSUME NEW w \in Worker, Defer(w) PROVE SettledByHolder
  BY <1>19 DEF Defer, Unlease, Settles
<1>20. ASSUME NEW w \in Worker, Retry(w) PROVE SettledByHolder
  BY <1>20 DEF Retry, Unlease, Settles
<1>21. ASSUME NEW w \in Worker, DeadLetter(w) PROVE SettledByHolder
  BY <1>21 DEF DeadLetter, Unlease, Settles
<1>22. ASSUME NEW w \in Worker, DeadLetterExhausted(w) PROVE SettledByHolder
  BY <1>22 DEF DeadLetterExhausted, Unlease, Settles
<1>23. ASSUME NEW w \in Worker, Complete(w) PROVE SettledByHolder
  BY <1>23 DEF Complete, Unlease, Settles, RecordSuccess
<1>24. ASSUME NEW w \in Worker, CompleteThrows(w) PROVE SettledByHolder
  <2>1. CASE Fenced(w) /\ RecordSuccess(w)
    BY <1>24, <2>1 DEF RecordSuccess, Unlease, Settles
  <2>2. CASE UNCHANGED rows
    BY <2>2
  <2> QED
    BY <1>24, <2>1, <2>2 DEF CompleteThrows
<1>25. ASSUME NEW w \in Worker, LostFence(w) PROVE SettledByHolder
  BY <1>25 DEF LostFence, Finish
<1>26. ASSUME NEW w \in Worker, StoreFails(w) PROVE SettledByHolder
  BY <1>26 DEF StoreFails, Finish
<1>27. ASSUME NEW w \in Worker, BeginReplyLost(w) PROVE SettledByHolder
  BY <1>27 DEF BeginReplyLost, Finish
<1>28. ASSUME NEW r \in Replica, StopEngine(r) PROVE SettledByHolder
  BY <1>28 DEF StopEngine
<1>29. ASSUME NEW r \in Replica, NEW u \in User, CancelUser(r, u) PROVE SettledByHolder
  BY <1>29 DEF CancelUser
<1>30. ASSUME NEW r \in Replica, NEW u \in User, ReleaseUserCancellation(r,
              u)
       PROVE SettledByHolder
  BY <1>30 DEF ReleaseUserCancellation
<1>31. ASSUME NEW r \in Replica, Restart(r) PROVE SettledByHolder
  BY <1>31 DEF Restart
<1>32. CASE UNCHANGED vars
  BY <1>32 DEF vars
<1> HIDE DEF SettledByHolder
<1> QED
  BY <1>1, <1>2, <1>3, <1>4, <1>5, <1>6, <1>7, <1>8, <1>9, <1>10, <1>11, <1>12,
     <1>13, <1>14, <1>15, <1>16, <1>17, <1>18, <1>19, <1>20, <1>21, <1>22, <1>23,
     <1>24, <1>25, <1>26, <1>27, <1>28, <1>29, <1>30, <1>31, <1>32
     DEF Next, Produce, Elapse, Decide, Attempt, SettleClaim, Fail, Manage

\* Whatever ends a lease is a settling update of the worker whose token the row
\* carries: a worker that lost its claim changes nothing.
THEOREM OnlyTheClaimSettlesHolds == Spec => OnlyTheClaimSettles
<1>1. TypeInv /\ [Next]_vars =>
        [\A d \in Delivery :
           status[d] = "leased" /\ status'[d] # "leased" =>
             \E w \in Worker : job[w] = d /\ tok[w] = claimToken[d]
                               /\ pc[w] \in Settling]_vars
  BY HolderStep DEF SettledByHolder, Settles, Fenced, Settling, Release, Defer, Retry,
     DeadLetter, DeadLetterExhausted, Complete, CompleteThrows
<1>2. Inv => TypeInv
  BY DEF Inv
<1> QED
  BY Invariance, <1>1, <1>2, PTL DEF Spec, OnlyTheClaimSettles

\* A deferral costs nothing: it hands the row back with the attempts the claim
\* found.
THEOREM DeferralIsFreeHolds == Spec => DeferralIsFree
<1>1. Inv /\ [Next]_vars =>
        [\A w \in Worker :
           pc[w] = "defer" /\ Fenced(w) /\ status'[job[w]] = "pending"
             => attempts'[job[w]] = seen[w]]_vars
  <2> SUFFICES ASSUME Inv, [Next]_vars,
                      NEW w \in Worker, pc[w] = "defer", Fenced(w),
                      status'[job[w]] = "pending"
               PROVE attempts'[job[w]] = seen[w]
    OBVIOUS
  <2>1. /\ job[w] \in Delivery /\ tok[w] # None
        /\ attempts[job[w]] = seen[w] + 1
        /\ seen[w] \in Nat /\ attempts \in [Delivery -> Nat]
    BY TriggerQueueAssumption DEF Inv, TypeInv, TypeOK, Jobs, Holding, Step, BudgetInv,
       ClaimKnowsAttempts, Spent, Begun
  <2>2. PICK v \in Worker : job[v] = job[w] /\ Fenced(v) /\ Settles(v)
    BY <2>1, HolderStep DEF Inv, SettledByHolder, Fenced
  <2>3. v = w
    BY <2>1, <2>2 DEF Inv, ClaimInv, Fenced
  <2>4. Defer(w)
    BY <2>2, <2>3 DEF Settles, Release, Retry, DeadLetter, DeadLetterExhausted, Complete,
       CompleteThrows
  <2> QED
    BY <2>1, <2>4 DEF Defer
<1> QED
  BY Invariance, <1>1, PTL DEF Spec, DeferralIsFree
=============================================================================
