-------------------------- MODULE TriggerQueueLive --------------------------
(***************************************************************************)
(* TriggerQueue with the fairness of the engine and of maintenance, and a  *)
(* budget for what may go wrong: a store call that fails, a process that   *)
(* stops or dies, a drain, a deferral by the host, a worker slower than    *)
(* its own lease.  Every behaviour with finitely many of these is one of   *)
(* some budget.                                                            *)
(***************************************************************************)
EXTENDS TriggerQueue

CONSTANT MaxFaults  \* bound: faults in a run

VARIABLE faults

liveVars == <<vars, faults>>

\* A worker still holds the claim of d.
Held(d) == \E w \in Worker : job[w] = d /\ tok[w] = claimToken[d]

\* Time passes over a lease nobody holds any more.
AgeOrphan(d) == ~Held(d) /\ AgeLease(d)

Outcome(w) == \E e \in {"retryable", "final"} : DispatchThrows(w, e)

Perform(w) == \/ BeginAttempt(w) \/ BeginRefused(w)
              \/ DispatchReturns(w) \/ Outcome(w)

Fault == \/ Manage
         \/ \E d \in Delivery : Held(d) /\ AgeLease(d)
         \/ \E w \in Worker : Fail(w) \/ DispatchThrows(w, "deferred")

\* drainUser's finally is no fault: it ends one.
EndDrain == \E r \in Replica, u \in User : ReleaseUserCancellation(r, u)

Regular == \/ Produce \/ EndDrain
           \/ \E d \in Delivery : BecomeDue(d) \/ AgeOrphan(d)
           \/ \E w \in Worker : Decide(w) \/ Perform(w) \/ SettleClaim(w)

LiveInit == Init /\ faults = 0

LiveNext == \/ Regular /\ UNCHANGED faults
            \/ Fault /\ faults < MaxFaults /\ faults' = faults + 1

\* - A process goes on with what it has begun: the polling timer and the
\*   free slot start passes, store calls answer, and a dispatch ends because
\*   the host aborts it after its timeout.
\* - The claim sorts by availableAt, and everything that gives a row back
\*   moves its availableAt on: each claimable row gets its turn.
\* - Clocks advance, and every drain ends (userDrainTimeoutMs).
FairSpec ==
  /\ LiveInit
  /\ [][LiveNext]_liveVars
  /\ \A w \in Worker : /\ WF_vars(Decide(w))
                       /\ WF_vars(Perform(w))
                       /\ WF_vars(SettleClaim(w))
  /\ \A d \in Delivery : /\ SF_vars(\E w \in Worker : Claim(w, d))
                         /\ WF_vars(BecomeDue(d))
                         /\ WF_vars(AgeOrphan(d))
  /\ WF_vars(EndDrain)

-----------------------------------------------------------------------------
\* A published delivery settles in the end, whichever worker, process or call
\* was lost with its claim, and although it may have to wait for its lane;
\* unless every process has stopped.
PublishedSettles ==
  \A d \in Delivery : Unsettled(d) ~> ~Unsettled(d) \/ \A r \in Replica : stopped[r]
=============================================================================
