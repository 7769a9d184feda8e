---------------------------- MODULE TriggerQueue ----------------------------
(***************************************************************************)
(* The delivery runner of packages/api/src/agents/triggers/engine.ts and   *)
(* the lease operations of                                                 *)
(* packages/data-schemas/src/methods/triggerDelivery.ts it calls.          *)
(*                                                                         *)
(* Replicas run workers (the concurrent processDelivery calls, at most     *)
(* `concurrency` of them per process).  Every database call is one step;   *)
(* what a process does between two awaits belongs to the step that starts  *)
(* the next call.  Lane publication is one atomic step here: TriggerLanes  *)
(* models the protocol that implements it.                                 *)
(*                                                                         *)
(* Time is abstracted to what the code compares.  A pending row is due or  *)
(* not (availableAt <= now); `due` is kept for pending rows only.  A lease is "live" for every clock, "skewed"  *)
(* when replicas may disagree about leaseUntil > now, or "expired", when   *)
(* LEASE_SKEW_MARGIN_MS has passed as well and the row can be reclaimed.   *)
(***************************************************************************)
EXTENDS Naturals, FiniteSets

CONSTANTS Delivery,     \* rows, by _id
          Lane,         \* ordering keys
          LaneOf,       \* [Delivery -> Lane]
          User,
          OwnerOf,      \* [Lane -> User]: the lane key hashes the principal
          Replica,
          Worker,
          ReplicaOf,    \* [Worker -> Replica]
          Token,        \* claim tokens; one not in use stands for a new UUID
          None,
          MaxAttempts,  \* options.maxAttempts
          MaxSeq        \* bound: lane sequences allocated in a run

ASSUME TriggerQueueAssumption ==
  /\ LaneOf \in [Delivery -> Lane]
  /\ OwnerOf \in [Lane -> User]
  /\ ReplicaOf \in [Worker -> Replica]
  /\ None \notin Token
  /\ None \notin Delivery
  /\ MaxAttempts \in Nat \ {0}
  /\ MaxSeq \in Nat

VARIABLES
  \* the AgentTriggerDelivery collection
  status, laneSequence, attempts, due, lease, claimToken, lastError,
  \* the lane counters (AgentTriggerLaneSequence.value)
  tail,
  \* processes
  stopped, cancelled,
  \* workers: program counter, claimed record (delivery, token, attempts),
  \* the attempt begun, whether beginAttempt's `now` was before leaseUntil,
  \* the aborted signal, the failure to record
  pc, job, tok, seen, attempt, inTime, aborted, failure

rows    == <<status, laneSequence, attempts, due, lease, claimToken, lastError>>
engine  == <<stopped, cancelled>>
workers == <<pc, job, tok, seen, attempt, inTime, aborted, failure>>
vars    == <<rows, tail, engine, workers>>

Status == {"absent", "staging", "pending", "leased", "succeeded", "dead"}
Phase  == {"none", "live", "skewed", "expired"}
Error  == {"none", "deferred", "retryable", "final"}
Step   == {"idle", "claiming", "entry", "order", "exhausted", "release",
           "blocked", "begin", "running", "complete", "defer", "retry", "dead"}

TypeOK ==
  /\ status \in [Delivery -> Status]
  /\ laneSequence \in [Delivery -> Nat]
  /\ attempts \in [Delivery -> Nat]
  /\ due \in [Delivery -> BOOLEAN]
  /\ lease \in [Delivery -> Phase]
  /\ claimToken \in [Delivery -> Token \cup {None}]
  /\ lastError \in [Delivery -> Error]
  /\ tail \in [Lane -> Nat]
  /\ stopped \in [Replica -> BOOLEAN]
  /\ cancelled \in [Replica -> SUBSET User]
  /\ pc \in [Worker -> Step]
  /\ job \in [Worker -> Delivery \cup {None}]
  /\ tok \in [Worker -> Token \cup {None}]
  /\ seen \in [Worker -> Nat]
  /\ attempt \in [Worker -> Nat]
  /\ inTime \in [Worker -> BOOLEAN]
  /\ aborted \in [Worker -> BOOLEAN]
  /\ failure \in [Worker -> Error]

-----------------------------------------------------------------------------
SameLane(d, e) == LaneOf[d] = LaneOf[e]

UserOf(d) == OwnerOf[LaneOf[d]]

Unsettled(d) == status[d] \in {"pending", "leased"}

\* Mutant: a row waiting for its retry does not block its lane.
EarlierLeasedOnly(d) == {e \in Delivery : /\ SameLane(d, e)
                                          /\ status[e] = "leased"
                                          /\ laneSequence[e] < laneSequence[d]}

\* findEarlierAgentTriggerDelivery: what blocks d in its lane.
Earlier(d) == {e \in Delivery : /\ SameLane(d, e)
                                /\ Unsettled(e)
                                /\ laneSequence[e] < laneSequence[d]}

\* Mutant: the filter forgets the claim token.
FencedByStatus(w) == status[job[w]] = "leased"

\* The filter every settling update uses: status, claim token (and leaseBy,
\* which the token implies).
Fenced(w) == /\ status[job[w]] = "leased"
             /\ claimToken[job[w]] = tok[w]

\* Mutant: beginAttempt filters on the lease only.
BeginFenceNoToken(w) == status[job[w]] = "leased" /\ inTime[w]

\* The filter of beginAgentTriggerDeliveryAttempt.
BeginFence(w) == Fenced(w) /\ inTime[w]

\* Mutant: off by one.
ExhaustedOffByOne(w) == seen[w] > MaxAttempts

\* The claim found the budget spent.
Exhausted(w) == seen[w] >= MaxAttempts

\* Mutant: off by one.
LastAttemptOffByOne(w) == attempt[w] + 1 >= MaxAttempts

\* No attempt is left after this one.
LastAttempt(w) == attempt[w] >= MaxAttempts

Cancelled(w) == UserOf(job[w]) \in cancelled[ReplicaOf[w]]

\* A token another row or any worker still knows; the token d was claimed with
\* before is as good as new once no worker remembers it.
InUse(d) == {claimToken[e] : e \in Delivery \ {d}} \cup {tok[w] : w \in Worker}

Init ==
  /\ status = [d \in Delivery |-> "absent"]
  /\ laneSequence = [d \in Delivery |-> 0]
  /\ attempts = [d \in Delivery |-> 0]
  /\ due = [d \in Delivery |-> FALSE]
  /\ lease = [d \in Delivery |-> "none"]
  /\ claimToken = [d \in Delivery |-> None]
  /\ lastError = [d \in Delivery |-> "none"]
  /\ tail = [l \in Lane |-> 0]
  /\ stopped = [r \in Replica |-> FALSE]
  /\ cancelled = [r \in Replica |-> {}]
  /\ pc = [w \in Worker |-> "idle"]
  /\ job = [w \in Worker |-> None]
  /\ tok = [w \in Worker |-> None]
  /\ seen = [w \in Worker |-> 0]
  /\ attempt = [w \in Worker |-> 0]
  /\ inTime = [w \in Worker |-> FALSE]
  /\ aborted = [w \in Worker |-> FALSE]
  /\ failure = [w \in Worker |-> "none"]

-----------------------------------------------------------------------------
(* Admission and lane upkeep, each as the one step its protocol amounts to. *)

\* enqueueAgentTriggerDelivery: the staging row is durable first.
Enqueue(d) ==
  /\ status[d] = "absent"
  /\ status' = [status EXCEPT ![d] = "staging"]
  /\ laneSequence' = [laneSequence EXCEPT ![d] = 0]
  /\ attempts' = [attempts EXCEPT ![d] = 0]
  /\ lastError' = [lastError EXCEPT ![d] = "none"]
  /\ UNCHANGED <<due, lease, claimToken, tail, engine, workers>>

\* publishStagedDelivery: allocate the next lane sequence and publish.
Publish(d) ==
  /\ status[d] = "staging"
  /\ tail[LaneOf[d]] < MaxSeq
  /\ tail' = [tail EXCEPT ![LaneOf[d]] = @ + 1]
  /\ status' = [status EXCEPT ![d] = "pending"]
  /\ laneSequence' = [laneSequence EXCEPT ![d] = tail[LaneOf[d]] + 1]
  /\ \E b \in BOOLEAN : due' = [due EXCEPT ![d] = b]
  /\ UNCHANGED <<attempts, lease, claimToken, lastError, engine, workers>>

\* requeueAgentTriggerDelivery: a dead letter is a new admission.
Requeue(d) ==
  /\ status[d] = "dead"
  /\ status' = [status EXCEPT ![d] = "staging"]
  /\ laneSequence' = [laneSequence EXCEPT ![d] = 0]
  /\ attempts' = [attempts EXCEPT ![d] = 0]
  /\ lastError' = [lastError EXCEPT ![d] = "none"]
  /\ UNCHANGED <<due, lease, claimToken, tail, engine, workers>>

\* Mutant: a running delivery does not retain its lane.
ReclaimLaneTooEarly(l) ==
  /\ tail[l] > 0
  /\ \A d \in Delivery : LaneOf[d] = l =>
       status[d] \notin {"staging", "pending", "dead"}
  /\ tail' = [tail EXCEPT ![l] = 0]
  /\ UNCHANGED <<rows, engine, workers>>

\* reclaimLaneIfInactive: the counter of a lane that retains no job is deleted.
ReclaimLane(l) ==
  /\ tail[l] > 0
  /\ \A d \in Delivery : LaneOf[d] = l =>
       status[d] \notin {"staging", "pending", "leased", "dead"}
  /\ tail' = [tail EXCEPT ![l] = 0]
  /\ UNCHANGED <<rows, engine, workers>>

\* The TTL index removes a success after SUCCESS_RETENTION_MS.
Expire(d) ==
  /\ status[d] = "succeeded"
  /\ status' = [status EXCEPT ![d] = "absent"]
  /\ laneSequence' = [laneSequence EXCEPT ![d] = 0]
  /\ UNCHANGED <<attempts, due, lease, claimToken, lastError, tail, engine, workers>>

\* Time passes: availableAt is reached, a lease ages.
BecomeDue(d) ==
  /\ status[d] = "pending"
  /\ ~due[d]
  /\ due' = [due EXCEPT ![d] = TRUE]
  /\ UNCHANGED <<status, laneSequence, attempts, lease, claimToken, lastError,
                 tail, engine, workers>>

AgeLease(d) ==
  /\ status[d] = "leased"
  /\ \/ lease[d] = "live" /\ lease' = [lease EXCEPT ![d] = "skewed"]
     \/ lease[d] = "skewed" /\ lease' = [lease EXCEPT ![d] = "expired"]
  /\ UNCHANGED <<status, laneSequence, attempts, due, claimToken, lastError,
                 tail, engine, workers>>

-----------------------------------------------------------------------------
(* Worker steps. *)

\* The task ends and its slot is free.
Finish(w) ==
  /\ pc' = [pc EXCEPT ![w] = "idle"]
  /\ job' = [job EXCEPT ![w] = None]
  /\ tok' = [tok EXCEPT ![w] = None]
  /\ seen' = [seen EXCEPT ![w] = 0]
  /\ attempt' = [attempt EXCEPT ![w] = 0]
  /\ inTime' = [inTime EXCEPT ![w] = FALSE]
  /\ aborted' = [aborted EXCEPT ![w] = FALSE]
  /\ failure' = [failure EXCEPT ![w] = "none"]

Goto(w, s) == /\ pc' = [pc EXCEPT ![w] = s]
              /\ UNCHANGED <<job, tok, seen, attempt, inTime, aborted, failure>>

\* runClaimPass looks at `stopped` before it sends its claims.
StartPass(w) ==
  /\ pc[w] = "idle"
  /\ ~stopped[ReplicaOf[w]]
  /\ Goto(w, "claiming")
  /\ UNCHANGED <<rows, tail, engine>>

\* Mutant: the claim looks at pending rows only.
ClaimablePending(d) == status[d] = "pending" /\ due[d]

\* The claim's filter: a due row, or one whose lease ran out.
Claimable(d) == \/ status[d] = "pending" /\ due[d]
                \/ status[d] = "leased" /\ lease[d] = "expired"

\* claimNextAgentTriggerDelivery with a fresh token.
Claim(w, d) ==
  /\ pc[w] = "claiming"
  /\ Claimable(d)
  /\ \E t \in Token \ InUse(d) :
       /\ claimToken' = [claimToken EXCEPT ![d] = t]
       /\ tok' = [tok EXCEPT ![w] = t]
  /\ status' = [status EXCEPT ![d] = "leased"]
  /\ lease' = [lease EXCEPT ![d] = "live"]
  /\ due' = [due EXCEPT ![d] = FALSE]
  /\ pc' = [pc EXCEPT ![w] = "entry"]
  /\ job' = [job EXCEPT ![w] = d]
  /\ seen' = [seen EXCEPT ![w] = attempts[d]]
  /\ UNCHANGED <<laneSequence, attempts, lastError, tail, engine,
                 attempt, inTime, aborted, failure>>

ClaimNothing(w) ==
  /\ pc[w] = "claiming"
  /\ ~\E d \in Delivery : Claimable(d)
  /\ Finish(w)
  /\ UNCHANGED <<rows, tail, engine>>

\* processDelivery: the first look at cancelledUsers.
EnterDelivery(w) ==
  /\ pc[w] = "entry"
  /\ Goto(w, IF Cancelled(w) THEN "release" ELSE "order")
  /\ UNCHANGED <<rows, tail, engine>>

\* findEarlierUnsettled found a block: release until the recheck time.
OrderBlocked(w) ==
  /\ pc[w] = "order"
  /\ Earlier(job[w]) # {}
  /\ Goto(w, "blocked")
  /\ UNCHANGED <<rows, tail, engine>>

\* Nothing earlier: the attempt limit, `stopped` and cancelledUsers are looked
\* at in this order before beginAttempt is sent with the process's clock.
OrderClear(w) ==
  /\ pc[w] = "order"
  /\ Earlier(job[w]) = {}
  /\ \/ /\ Exhausted(w)
        /\ Goto(w, "exhausted")
     \/ /\ ~Exhausted(w)
        /\ stopped[ReplicaOf[w]] \/ Cancelled(w)
        /\ Goto(w, "release")
     \/ /\ ~Exhausted(w)
        /\ ~stopped[ReplicaOf[w]]
        /\ ~Cancelled(w)
        /\ \E b \in BOOLEAN :
             /\ lease[job[w]] = "live" => b
             /\ lease[job[w]] \in {"expired", "none"} => ~b
             /\ inTime' = [inTime EXCEPT ![w] = b]
        /\ pc' = [pc EXCEPT ![w] = "begin"]
        /\ UNCHANGED <<job, tok, seen, attempt, aborted, failure>>
  /\ UNCHANGED <<rows, tail, engine>>

\* beginAgentTriggerDeliveryAttempt, then the dispatch starts at once; its
\* signal is already aborted when the process stopped or cancelled meanwhile.
BeginAttempt(w) ==
  /\ pc[w] = "begin"
  /\ BeginFence(w)
  /\ attempts' = [attempts EXCEPT ![job[w]] = @ + 1]
  /\ attempt' = [attempt EXCEPT ![w] = attempts[job[w]] + 1]
  /\ pc' = [pc EXCEPT ![w] = "running"]
  /\ aborted' = [aborted EXCEPT ![w] = stopped[ReplicaOf[w]] \/ Cancelled(w)]
  /\ inTime' = [inTime EXCEPT ![w] = FALSE]
  /\ UNCHANGED <<status, laneSequence, due, lease, claimToken, lastError, tail,
                 engine, job, tok, seen, failure>>

BeginRefused(w) ==
  /\ pc[w] = "begin"
  /\ ~BeginFence(w)
  /\ Finish(w)
  /\ UNCHANGED <<rows, tail, engine>>

\* The host accepted the event.
DispatchReturns(w) ==
  /\ pc[w] = "running"
  /\ Goto(w, "complete")
  /\ UNCHANGED <<rows, tail, engine>>

\* The host threw: which settling update follows.
DispatchThrows(w, e) ==
  /\ pc[w] = "running"
  /\ pc' = [pc EXCEPT ![w] =
       IF e = "deferred" \/ (aborted[w] /\ Cancelled(w)) THEN "defer"
       ELSE IF e = "final" \/ LastAttempt(w) THEN "dead"
       ELSE "retry"]
  /\ failure' = [failure EXCEPT ![w] = e]
  /\ UNCHANGED <<rows, tail, engine, job, tok, seen, attempt, inTime, aborted>>

\* A settled or released row loses its lease fields.
Unlease(d, s) == /\ status' = [status EXCEPT ![d] = s]
                 /\ lease' = [lease EXCEPT ![d] = "none"]
                 /\ claimToken' = [claimToken EXCEPT ![d] = None]

\* releaseAgentTriggerDelivery: eligible now (cancelled, stopped) or at the
\* ordering recheck.
Release(w) ==
  /\ pc[w] \in {"release", "blocked"}
  /\ Fenced(w)
  /\ Unlease(job[w], "pending")
  /\ due' = [due EXCEPT ![job[w]] = pc[w] = "release"]
  /\ Finish(w)
  /\ UNCHANGED <<laneSequence, attempts, lastError, tail, engine>>

\* Mutant: the update is not fenced.
DeferUnfenced(w) ==
  /\ pc[w] = "defer"
  /\ attempts' = [attempts EXCEPT ![job[w]] = @ - 1]
  /\ Unlease(job[w], "pending")
  /\ due' = [due EXCEPT ![job[w]] = FALSE]
  /\ Finish(w)
  /\ UNCHANGED <<laneSequence, lastError, tail, engine>>

\* Mutant: the attempt is not given back.
DeferKeepingAttempt(w) ==
  /\ pc[w] = "defer"
  /\ Fenced(w)
  /\ attempts[job[w]] = attempt[w]
  /\ Unlease(job[w], "pending")
  /\ due' = [due EXCEPT ![job[w]] = FALSE]
  /\ Finish(w)
  /\ UNCHANGED <<laneSequence, attempts, lastError, tail, engine>>

\* deferAgentTriggerDeliveryAttempt gives the attempt back.
Defer(w) ==
  /\ pc[w] = "defer"
  /\ Fenced(w)
  /\ attempts[job[w]] = attempt[w]
  /\ attempts' = [attempts EXCEPT ![job[w]] = @ - 1]
  /\ Unlease(job[w], "pending")
  /\ due' = [due EXCEPT ![job[w]] = FALSE]
  /\ Finish(w)
  /\ UNCHANGED <<laneSequence, lastError, tail, engine>>

\* retryAgentTriggerDelivery
Retry(w) ==
  /\ pc[w] = "retry"
  /\ Fenced(w)
  /\ Unlease(job[w], "pending")
  /\ due' = [due EXCEPT ![job[w]] = FALSE]
  /\ lastError' = [lastError EXCEPT ![job[w]] = failure[w]]
  /\ Finish(w)
  /\ UNCHANGED <<laneSequence, attempts, tail, engine>>

\* deadLetterAgentTriggerDelivery after a failed dispatch.
DeadLetter(w) ==
  /\ pc[w] = "dead"
  /\ Fenced(w)
  /\ Unlease(job[w], "dead")
  /\ lastError' = [lastError EXCEPT ![job[w]] = failure[w]]
  /\ Finish(w)
  /\ UNCHANGED <<laneSequence, attempts, due, tail, engine>>

\* deadLetterAgentTriggerDelivery of a claim whose budget was already spent:
\* the recorded error is kept, or a retryable one is made up.
DeadLetterExhausted(w) ==
  /\ pc[w] = "exhausted"
  /\ Fenced(w)
  /\ Unlease(job[w], "dead")
  /\ lastError' = [lastError EXCEPT ![job[w]] = IF @ = "none" THEN "retryable" ELSE @]
  /\ Finish(w)
  /\ UNCHANGED <<laneSequence, attempts, due, tail, engine>>

\* The update of completeAgentTriggerDelivery.
RecordSuccess(w) == /\ Unlease(job[w], "succeeded")
                    /\ lastError' = [lastError EXCEPT ![job[w]] = "none"]
                    /\ UNCHANGED <<laneSequence, attempts, due>>

Complete(w) ==
  /\ pc[w] = "complete"
  /\ Fenced(w)
  /\ RecordSuccess(w)
  /\ Finish(w)
  /\ UNCHANGED <<tail, engine>>

\* complete threw, and nothing says whether its update was applied: the
\* outcome is recorded as an ambiguous failure and retried, whatever the
\* attempt number.
CompleteThrows(w) ==
  /\ pc[w] = "complete"
  /\ \/ Fenced(w) /\ RecordSuccess(w)
     \/ UNCHANGED rows
  /\ pc' = [pc EXCEPT ![w] = "retry"]
  /\ failure' = [failure EXCEPT ![w] = "retryable"]
  /\ UNCHANGED <<tail, engine, job, tok, seen, attempt, inTime, aborted>>

Settling == {"release", "blocked", "defer", "retry", "dead", "exhausted", "complete"}

\* The fence no longer matches: the update changes nothing.
LostFence(w) ==
  /\ pc[w] \in Settling
  /\ ~Fenced(w) \/ (pc[w] = "defer" /\ attempts[job[w]] # attempt[w])
  /\ Finish(w)
  /\ UNCHANGED <<rows, tail, engine>>

-----------------------------------------------------------------------------
(* Failures of a database call, of a process, and the process's own flags. *)

\* A store call other than complete throws: processDelivery ends (its caller
\* logs).  The update may have been applied before the connection failed:
\* that is the step itself, except for beginAttempt and the claim.
StoreFails(w) ==
  /\ pc[w] \in (Settling \ {"complete"}) \cup {"claiming", "entry", "order", "begin"}
  /\ Finish(w)
  /\ UNCHANGED <<rows, tail, engine>>

\* beginAttempt was applied and its reply was lost.
BeginReplyLost(w) ==
  /\ pc[w] = "begin"
  /\ BeginFence(w)
  /\ attempts' = [attempts EXCEPT ![job[w]] = @ + 1]
  /\ Finish(w)
  /\ UNCHANGED <<status, laneSequence, due, lease, claimToken, lastError, tail, engine>>

\* engine.stop: no new claim, running dispatches are aborted.
StopEngine(r) ==
  /\ ~stopped[r]
  /\ stopped' = [stopped EXCEPT ![r] = TRUE]
  /\ aborted' = [w \in Worker |->
                   aborted[w] \/ (ReplicaOf[w] = r /\ pc[w] = "running")]
  /\ UNCHANGED <<rows, tail, cancelled, pc, job, tok, seen, attempt, inTime, failure>>

\* engine.cancelUser, called by drainUser.
CancelUser(r, u) ==
  /\ u \notin cancelled[r]
  /\ cancelled' = [cancelled EXCEPT ![r] = @ \cup {u}]
  /\ aborted' = [w \in Worker |->
       aborted[w] \/ /\ ReplicaOf[w] = r
                     /\ pc[w] = "running"
                     /\ UserOf(job[w]) = u]
  /\ UNCHANGED <<rows, tail, stopped, pc, job, tok, seen, attempt, inTime, failure>>

\* drainUser's finally.  Concurrent drains of one user share the set entry, so
\* the first to end removes it under the others.
ReleaseUserCancellation(r, u) ==
  /\ u \in cancelled[r]
  /\ cancelled' = [cancelled EXCEPT ![r] = @ \ {u}]
  /\ UNCHANGED <<rows, tail, stopped, workers>>

\* A process dies, or exits after stop, and a new one starts in its place.
Restart(r) ==
  LET dead == {w \in Worker : ReplicaOf[w] = r}
      Reset(f, v) == [w \in Worker |-> IF w \in dead THEN v ELSE f[w]] IN
  /\ stopped' = [stopped EXCEPT ![r] = FALSE]
  /\ cancelled' = [cancelled EXCEPT ![r] = {}]
  /\ pc' = Reset(pc, "idle")
  /\ job' = Reset(job, None)
  /\ tok' = Reset(tok, None)
  /\ seen' = Reset(seen, 0)
  /\ attempt' = Reset(attempt, 0)
  /\ inTime' = Reset(inTime, FALSE)
  /\ aborted' = Reset(aborted, FALSE)
  /\ failure' = Reset(failure, "none")
  /\ UNCHANGED <<rows, tail>>

-----------------------------------------------------------------------------
Produce == \/ \E d \in Delivery : Enqueue(d) \/ Publish(d) \/ Requeue(d) \/ Expire(d)
           \/ \E l \in Lane : ReclaimLane(l)

Elapse == \E d \in Delivery : BecomeDue(d) \/ AgeLease(d)

Decide(w) == \/ StartPass(w) \/ ClaimNothing(w) \/ EnterDelivery(w)
             \/ OrderBlocked(w) \/ OrderClear(w)
             \/ \E d \in Delivery : Claim(w, d)

Attempt(w) == \/ BeginAttempt(w) \/ BeginRefused(w) \/ DispatchReturns(w)
              \/ \E e \in {"deferred", "retryable", "final"} : DispatchThrows(w, e)

SettleClaim(w) == \/ Release(w) \/ Defer(w) \/ Retry(w) \/ DeadLetter(w)
                  \/ DeadLetterExhausted(w) \/ Complete(w) \/ LostFence(w)

Fail(w) == CompleteThrows(w) \/ StoreFails(w) \/ BeginReplyLost(w)

Manage == \E r \in Replica :
            \/ StopEngine(r) \/ Restart(r)
            \/ \E u \in User : CancelUser(r, u) \/ ReleaseUserCancellation(r, u)

Next == \/ Produce \/ Elapse \/ Manage
        \/ \E w \in Worker : Decide(w) \/ Attempt(w) \/ SettleClaim(w) \/ Fail(w)

Spec == Init /\ [][Next]_vars

-----------------------------------------------------------------------------
(* Properties. *)

\* Past the ordering check, on the way to or inside an attempt.
Engaged == {"begin", "running", "complete", "retry", "dead", "defer", "exhausted"}

\* At most one worker per lane holds a valid claim past the ordering check,
\* although findEarlierUnsettled and beginAttempt are separate calls and any
\* number of workers may hold claims in the lane.
LaneSerial ==
  \A v, w \in Worker :
    /\ v # w
    /\ pc[v] \in Engaged /\ pc[w] \in Engaged
    /\ Fenced(v) /\ Fenced(w)
    => ~SameLane(job[v], job[w])

\* A retry budget is never overrun: not by a worker whose claim was taken
\* over, nor by one that read `attempts` before another attempt began.
AttemptBudget == \A d \in Delivery : attempts[d] <= MaxAttempts

\* A valid claim knows the row's attempt count: before the attempt it is the
\* count it read with the claim, afterwards the count beginAttempt returned.
ClaimKnowsAttempts ==
  \A w \in Worker : pc[w] # "idle" /\ pc[w] # "claiming" /\ Fenced(w) =>
    attempts[job[w]] = IF pc[w] \in {"running", "complete", "retry", "dead", "defer"}
                       THEN attempt[w] ELSE seen[w]

\* Only a spent budget or a failure the host called final makes a dead letter.
DeadForCause ==
  \A d \in Delivery : status[d] = "dead" =>
    attempts[d] = MaxAttempts \/ lastError[d] = "final"

\* Deferral (account deletion, runtime not ready) costs nothing: the row goes
\* back with the attempts its claim found, even at the last attempt.
DeferralIsFree ==
  [][\A w \in Worker :
       pc[w] = "defer" /\ Fenced(w) /\ status'[job[w]] = "pending"
         => attempts'[job[w]] = seen[w]]_vars

\* A settled or released row was held by the worker that did it: whatever
\* happens to a row that is leased happens through its current claim.
OnlyTheClaimSettles ==
  [][\A d \in Delivery :
       status[d] = "leased" /\ status'[d] # "leased" =>
         \E w \in Worker : job[w] = d /\ tok[w] = claimToken[d]
                           /\ pc[w] \in Settling]_vars

\* The rows seen as the promise of LaneOrder: a lease is invisible there.
Place == [d \in Delivery |-> IF Unsettled(d) THEN "queued" ELSE status[d]]

Promise == INSTANCE LaneOrder WITH
  place <- Place,
  seq <- laneSequence,
  Sequence <- 1 .. MaxSeq

\* Leases, workers, reclaimed claims and lost replies keep the promise:
\* deliveries of a lane settle in the order they were published.
KeepsPromise == Promise!Spec
=============================================================================
