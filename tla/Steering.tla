------------------------------ MODULE Steering ------------------------------
(***************************************************************************)
(* Words sent to a running generation ("steers"), the review pauses of the *)
(* generation and its end: the job store contract as                       *)
(* packages/api/src/stream/implementations/InMemoryJobStore.ts implements  *)
(* it, the lifecycle above it (ApprovalLifecycle.ts,                       *)
(* GenerationJobManager.ts), and the controllers that drive a run          *)
(* (agents/steering/runtime.ts, api/server/controllers/agents/request.js   *)
(* and resume.js).                                                         *)
(*                                                                         *)
(* One conversation.  Its job is one record that each new generation       *)
(* overwrites.  A store method is one step; controllers interleave between *)
(* their calls.  A run is one controller driving one segment of a          *)
(* generation: the first segment, or what follows an approved pause.       *)
(*                                                                         *)
(* A read followed by a compare-and-set that repeats every field the read  *)
(* decided on is one step (resolve, abort, claim, expire).  Left out:      *)
(* protocol 1, foreign owners, attachments and quotes, preemption, the     *)
(* event stream, and the time to live of parked items and of receipts.     *)
(***************************************************************************)
EXTENDS Naturals, SequencesExt

CONSTANTS Steer,      \* clientSteerIds, each with one steerId
          Run,        \* controllers that may drive at the same time
          None,
          MaxDepth,   \* STEER_QUEUE_MAX_DEPTH
          Faults,     \* what may go wrong, see FaultKind
          MaxGen,     \* bound: generations of the conversation
          MaxAction   \* bound: review pauses

\* A durable write of applied words fails or its reply is lost, a restore
\* fails, releasing a pause is applied but reported as failed, a run hangs.
FaultKind == {"append", "reply", "restore", "release", "crash"}

ASSUME SteeringAssumption ==
  /\ Faults \subseteq FaultKind
  /\ None \notin Steer
  /\ {MaxDepth, MaxGen, MaxAction} \subseteq Nat

VARIABLES
  \* SerializableJobData: gen is createdAt, pending is
  \* terminalPersistencePending (under requires_action the pause barrier),
  \* action the review asked for, recovered is recoveredSteerId
  job,
  epoch,     \* lastGenerationEpoch
  queue, claimed, parked,  \* steerQueues, claimedSteers, parkedSteers; the
                           \* claimed words keep the order of their batch
  lease,     \* recoveringCreatedAt of a parked item (0: none)
  receipt,   \* state of the receipt of each clientSteerId
  accepted,  \* generationCreatedAt of the receipt (0: none)
  run,       \* controllers
  actions,   \* review pauses so far
  rows,      \* messages in the database: the row of a recovery has the
             \* steerId, whichever attempt saves it
  saved,     \* history: pauses whose rows and recovery were persisted
  voiced     \* history: times the words became part of a response

storeVars == <<queue, claimed, parked, lease, receipt, accepted>>
vars == <<job, epoch, storeVars, run, actions, rows, saved, voiced>>

Status == {"none", "running", "requires_action", "complete", "error", "aborted"}
Terminal == {"complete", "error", "aborted"}
ReceiptState == {"none", "queued", "claimed", "leftover", "delivered",
                 "cancelled", "recovered"}
Pc == {"idle", "driving", "restoring", "settling", "committing", "failing",
       "releasing", "erring", "finalizing", "consuming", "publishing"}

Job == [gen : 0 .. MaxGen, status : Status, pending : BOOLEAN,
        action : 0 .. MaxAction, recovered : Steer \cup {None}]
NoJob == [gen |-> 0, status |-> "none", pending |-> FALSE, action |-> 0,
          recovered |-> None]
RunState == [pc : Pc, gen : 0 .. MaxGen, batch : Seq(Steer),
             action : 0 .. MaxAction, recovering : Steer \cup {None}]
Idle == [pc |-> "idle", gen |-> 0, batch |-> <<>>, action |-> 0,
         recovering |-> None]

Typed ==
  /\ job \in Job
  /\ epoch \in 0 .. MaxGen
  /\ queue \in Seq(Steer)
  /\ claimed \subseteq Steer /\ parked \subseteq Steer
  /\ lease \in [Steer -> 0 .. MaxGen]
  /\ receipt \in [Steer -> ReceiptState]
  /\ accepted \in [Steer -> 0 .. MaxGen]
  /\ run \in [Run -> RunState]
  /\ actions \in 0 .. MaxAction
  /\ rows \subseteq Steer
  /\ saved \subseteq 1 .. MaxAction
  /\ voiced \in [Steer -> Nat]

\* A running generation carries neither a decided action nor a barrier: the
\* transition that leaves the pause clears both.
RunningIsClear == job.status = "running" => ~job.pending /\ job.action = 0

TypeOK == Typed /\ RunningIsClear

Init ==
  /\ job = NoJob /\ epoch = 0
  /\ queue = <<>> /\ claimed = {} /\ parked = {}
  /\ lease = [s \in Steer |-> 0]
  /\ receipt = [s \in Steer |-> "none"]
  /\ accepted = [s \in Steer |-> 0]
  /\ run = [r \in Run |-> Idle]
  /\ actions = 0 /\ rows = {} /\ saved = {}
  /\ voiced = [s \in Steer |-> 0]

-----------------------------------------------------------------------------
(* The store.                                                              *)

Waiting == ToSet(queue) \cup claimed
Running(g) == job.status = "running" /\ job.gen = g
\* Mutant: the pause counts as open while its rows are still being saved.
PausedUnbarred == job.status = "requires_action"

Paused == job.status = "requires_action" /\ ~job.pending
Barrier(g, a) == /\ job.status = "requires_action" /\ job.pending
                 /\ job.gen = g /\ job.action = a

\* Receipts of the given words get the state st.
Settled(S, st) == [s \in Steer |-> IF s \in S THEN st ELSE receipt[s]]

\* Mutant: words in flight are forgotten.
ParkQueued ==
  /\ parked' = parked \cup ToSet(queue)
  /\ receipt' = Settled(ToSet(queue), "leftover")
  /\ queue' = <<>> /\ claimed' = {}
  /\ UNCHANGED <<lease, accepted>>

\* What accepted words the generation did not use are put aside for the
\* user to send again.
Park ==
  /\ parked' = parked \cup Waiting
  /\ receipt' = Settled(Waiting, "leftover")
  /\ queue' = <<>> /\ claimed' = {}
  /\ UNCHANGED <<lease, accepted>>

\* Terminal transitions park in the same store operation.
End(status, pending) ==
  /\ Park
  /\ job' = [job EXCEPT !.status = status, !.pending = pending]

Goto(r, pc) == run' = [run EXCEPT ![r].pc = pc]
Leave(r) == run' = [run EXCEPT ![r] = Idle]

-----------------------------------------------------------------------------
(* Requests of the user.                                                   *)

\* A retry of the request finds the receipt and changes nothing.
Enqueue(s) ==
  /\ receipt[s] = "none"
  /\ job.status = "running"
  /\ Len(queue) < MaxDepth
  /\ queue' = Append(queue, s)
  /\ receipt' = [receipt EXCEPT ![s] = "queued"]
  /\ accepted' = [accepted EXCEPT ![s] = job.gen]
  /\ UNCHANGED <<job, epoch, claimed, parked, lease, run, actions, rows, saved, voiced>>

\* Cancelling words that wait in the queue.
Cancel(s) ==
  /\ job.status # "none"
  /\ receipt[s] = "queued" /\ accepted[s] = job.gen
  /\ \E i \in 1 .. Len(queue) :
       /\ queue[i] = s
       /\ queue' = SubSeq(queue, 1, i - 1) \o SubSeq(queue, i + 1, Len(queue))
  /\ receipt' = [receipt EXCEPT ![s] = "cancelled"]
  /\ UNCHANGED <<job, epoch, claimed, parked, lease, accepted, run, actions, rows, saved, voiced>>

\* A recovery that drives a turn owns its source.
Recovering(s) == job.recovered = s /\ job.status \in {"running", "requires_action"}

\* Cancelling words that were put aside.
Discard(s) ==
  /\ receipt[s] = "leftover"
  /\ ~Recovering(s)
  /\ parked' = parked \ {s}
  /\ receipt' = [receipt EXCEPT ![s] = "cancelled"]
  /\ UNCHANGED <<job, epoch, queue, claimed, lease, accepted, run, actions, rows, saved, voiced>>

\* A new turn, plain or resubmitting the words s, replaces whatever
\* generation there is.  What waited is put aside; the source is leased.
CreateJob(r, s) ==
  /\ run[r].pc = "idle"
  /\ epoch < MaxGen
  /\ s \in {None} \cup parked \cup Waiting
  /\ epoch' = epoch + 1
  /\ job' = [NoJob EXCEPT !.gen = epoch + 1, !.status = "running", !.recovered = s]
  /\ parked' = parked \cup Waiting
  /\ receipt' = Settled(Waiting, "leftover")
  /\ queue' = <<>> /\ claimed' = {}
  /\ lease' = [t \in Steer |-> IF t = s THEN epoch + 1 ELSE 0]
  /\ run' = [run EXCEPT ![r] = [Idle EXCEPT !.pc = "driving", !.gen = epoch + 1,
                                            !.recovering = s]]
  /\ UNCHANGED <<accepted, actions, rows, saved, voiced>>

\* Mutant: the transition does not clear the action it decided.
ResolveKeepsAction(r, a) ==
  /\ run[r].pc = "idle"
  /\ Paused
  /\ job.action = a
  /\ job' = [job EXCEPT !.status = "running"]
  /\ run' = [run EXCEPT ![r] = [Idle EXCEPT !.pc = "driving", !.gen = job.gen]]
  /\ UNCHANGED <<epoch, storeVars, actions, rows, saved, voiced>>

\* The decision about the pause a; a decision about an earlier pause of the
\* same generation is refused.
Resolve(r, a) ==
  /\ run[r].pc = "idle"
  /\ Paused
  /\ job.action = a
  /\ job' = [job EXCEPT !.status = "running", !.action = 0]
  /\ run' = [run EXCEPT ![r] = [Idle EXCEPT !.pc = "driving", !.gen = job.gen]]
  /\ UNCHANGED <<epoch, storeVars, actions, rows, saved, voiced>>

\* Stop: waits for the pause barrier, then ends the generation.  Rows are
\* saved before the marker is cleared.
Abort ==
  /\ job.status = "running" \/ Paused
  /\ End("aborted", TRUE)
  /\ UNCHANGED <<epoch, run, actions, rows, saved, voiced>>

-----------------------------------------------------------------------------
(* A run: words at a tool boundary.                                        *)

\* The words that a recovery resubmits are the text of its user message.
UserRow(r) == {run[r].recovering} \ {None}

\* The user message is saved while the run goes on, whatever became of the
\* generation; a failure is only logged.
SaveUserRow(r) ==
  /\ run[r].pc \in {"driving", "restoring"}
  /\ rows' = rows \cup UserRow(r)
  /\ UNCHANGED <<job, epoch, storeVars, run, actions, saved, voiced>>

\* Mutant: words count as delivered when they are drained.
DrainDelivered(r) ==
  /\ run[r].pc = "driving" /\ run[r].batch = <<>>
  /\ Running(run[r].gen)
  /\ queue # <<>>
  /\ queue' = <<>>
  /\ receipt' = Settled(ToSet(queue), "delivered")
  /\ UNCHANGED <<job, epoch, claimed, parked, lease, accepted, run, actions, rows, saved, voiced>>

Drain(r) ==
  /\ run[r].pc = "driving" /\ run[r].batch = <<>>
  /\ Running(run[r].gen)
  /\ queue # <<>>
  /\ queue' = <<>>
  /\ claimed' = claimed \cup ToSet(queue)
  /\ receipt' = Settled(ToSet(queue), "claimed")
  /\ run' = [run EXCEPT ![r].batch = queue]
  /\ UNCHANGED <<job, epoch, parked, lease, accepted, actions, rows, saved, voiced>>

\* The append that makes words part of the response is fenced by the
\* generation, the claim and the receipt.
Appends(r, s) ==
  /\ Running(run[r].gen)
  /\ s \in claimed
  /\ receipt[s] = "claimed" /\ accepted[s] = job.gen

\* Mutant: the claim of applied words is kept.
MarkKeepingClaim(s) ==
  /\ receipt' = [receipt EXCEPT ![s] = "delivered"]
  /\ UNCHANGED <<job, epoch, queue, claimed, parked, lease, accepted, actions, rows, saved>>

MarkDelivered(s) ==
  /\ claimed' = claimed \ {s}
  /\ receipt' = [receipt EXCEPT ![s] = "delivered"]
  /\ UNCHANGED <<job, epoch, queue, parked, lease, accepted, actions, rows, saved>>

Applying(r) == run[r].pc = "driving" /\ run[r].batch # <<>>

Apply(r) ==
  /\ Applying(r)
  /\ LET s == Head(run[r].batch) IN
       /\ Appends(r, s)
       /\ MarkDelivered(s)
       /\ voiced' = [voiced EXCEPT ![s] = @ + 1]
  /\ run' = [run EXCEPT ![r].batch = Tail(@)]

\* The append is refused, or fails: the rest of the batch is given back.
ApplyRefused(r) ==
  /\ Applying(r)
  /\ ~Appends(r, Head(run[r].batch)) \/ "append" \in Faults
  /\ Goto(r, "restoring")
  /\ UNCHANGED <<job, epoch, storeVars, actions, rows, saved, voiced>>

\* The append is made and its reply is lost: the local part is rolled back.
ApplyReplyLost(r) ==
  /\ "reply" \in Faults
  /\ Applying(r)
  /\ Appends(r, Head(run[r].batch))
  /\ MarkDelivered(Head(run[r].batch))
  /\ Goto(r, "restoring")
  /\ UNCHANGED voiced

\* All of the batch must still be claimed; it goes to the front of the queue.
Restores(r) ==
  /\ Running(run[r].gen)
  /\ \A s \in ToSet(run[r].batch) :
       s \in claimed /\ receipt[s] = "claimed" /\ accepted[s] = job.gen

\* Mutant: what is given back goes behind what came later.
RestoreBehind(r) ==
  /\ run[r].pc = "restoring"
  /\ Restores(r)
  /\ queue' = queue \o run[r].batch
  /\ claimed' = claimed \ ToSet(run[r].batch)
  /\ receipt' = Settled(ToSet(run[r].batch), "queued")
  /\ run' = [run EXCEPT ![r].pc = "driving", ![r].batch = <<>>]
  /\ UNCHANGED <<job, epoch, parked, lease, accepted, actions, rows, saved, voiced>>

Restore(r) ==
  /\ run[r].pc = "restoring"
  /\ Restores(r)
  /\ queue' = run[r].batch \o queue
  /\ claimed' = claimed \ ToSet(run[r].batch)
  /\ receipt' = Settled(ToSet(run[r].batch), "queued")
  /\ run' = [run EXCEPT ![r].pc = "driving", ![r].batch = <<>>]
  /\ UNCHANGED <<job, epoch, parked, lease, accepted, actions, rows, saved, voiced>>

RestoreRefused(r) ==
  /\ run[r].pc = "restoring"
  /\ ~Restores(r) \/ "restore" \in Faults
  /\ run' = [run EXCEPT ![r].pc = "driving", ![r].batch = <<>>]
  /\ UNCHANGED <<job, epoch, storeVars, actions, rows, saved, voiced>>

-----------------------------------------------------------------------------
(* A run: review pauses.  The barrier keeps the pause from being decided   *)
(* until the rows of the unfinished turn are saved.                        *)

Pause(r) ==
  /\ run[r].pc = "driving" /\ run[r].batch = <<>>
  /\ Running(run[r].gen)
  /\ actions < MaxAction
  /\ actions' = actions + 1
  /\ job' = [job EXCEPT !.status = "requires_action", !.pending = TRUE,
                        !.action = actions + 1]
  /\ run' = [run EXCEPT ![r].pc = "settling", ![r].action = actions + 1]
  /\ UNCHANGED <<epoch, storeVars, rows, saved, voiced>>

\* Saving the rows, by the owner of the barrier: the user's, then the
\* unfinished response.
SaveRows(r) ==
  /\ run[r].pc = "settling"
  /\ IF Barrier(run[r].gen, run[r].action)
     THEN \/ Goto(r, "committing") /\ rows' = rows \cup UserRow(r)
          \/ Goto(r, "failing") /\ rows' \in {rows, rows \cup UserRow(r)}
     ELSE Leave(r) /\ UNCHANGED rows
  /\ UNCHANGED <<job, epoch, storeVars, actions, saved, voiced>>

\* The resubmitted words are a message of the conversation now; their
\* source goes.  A missing source is taken for one that has gone already.
Consumes(r) ==
  LET s == run[r].recovering IN
    /\ job.gen = run[r].gen /\ job.recovered = s
    /\ parked # {} => s \in parked /\ lease[s] = job.gen /\ receipt[s] = "leftover"

Consume(r) ==
  LET s == run[r].recovering IN
    /\ Consumes(r)
    /\ parked' = parked \ {s}
    /\ receipt' = IF s \in parked THEN [receipt EXCEPT ![s] = "recovered"] ELSE receipt
    /\ UNCHANGED <<queue, claimed, lease, accepted>>

NoSource(r) == run[r].recovering = None /\ UNCHANGED storeVars
CommitFails(r) == run[r].recovering # None /\ ~Consumes(r) /\ UNCHANGED storeVars
Commits(r) == NoSource(r) \/ (run[r].recovering # None /\ Consume(r))

CommitPaused(r) ==
  /\ run[r].pc = "committing"
  /\ \/ /\ Commits(r)
        /\ Goto(r, "releasing")
        /\ saved' = saved \cup {run[r].action}
     \/ CommitFails(r) /\ Goto(r, "failing") /\ UNCHANGED saved
  /\ UNCHANGED <<job, epoch, actions, rows, voiced>>

ReleasePause(r) ==
  /\ run[r].pc = "releasing"
  /\ IF Barrier(run[r].gen, run[r].action)
     THEN job' = [job EXCEPT !.pending = FALSE] ELSE UNCHANGED job
  /\ \/ Leave(r)
     \/ "release" \in Faults /\ Goto(r, "erring")
  /\ UNCHANGED <<epoch, storeVars, actions, rows, saved, voiced>>

\* Mutant: the failure is not fenced by the barrier.
FailUnfenced(r) ==
  /\ run[r].pc = "failing"
  /\ End("error", FALSE)
  /\ Leave(r)
  /\ UNCHANGED <<epoch, actions, rows, saved, voiced>>

\* A required write failed: the generation fails from the barrier itself.
FailPause(r) ==
  /\ run[r].pc = "failing"
  /\ IF Barrier(run[r].gen, run[r].action)
     THEN End("error", FALSE) ELSE UNCHANGED <<job, storeVars>>
  /\ Leave(r)
  /\ UNCHANGED <<epoch, actions, rows, saved, voiced>>

\* Mutant: a barrier times out only while its owner is alive.
TimeoutOfTheLiving ==
  /\ job.status = "requires_action" /\ job.pending
  /\ \E r \in Run : run[r].pc # "idle" /\ run[r].action = job.action
  /\ End("error", FALSE)
  /\ UNCHANGED <<epoch, run, actions, rows, saved, voiced>>

\* PAUSE_PERSISTENCE_TIMEOUT_MS is over, whatever its owner still does.
TimeoutPause ==
  /\ job.status = "requires_action" /\ job.pending
  /\ End("error", FALSE)
  /\ UNCHANGED <<epoch, run, actions, rows, saved, voiced>>

Expire ==
  /\ Paused
  /\ End("aborted", FALSE)
  /\ UNCHANGED <<epoch, run, actions, rows, saved, voiced>>

-----------------------------------------------------------------------------
(* A run: its end.                                                         *)

\* Generation is over: the terminal claim precedes the final rows.
ClaimTerminal(r) ==
  /\ run[r].pc = "driving" /\ run[r].batch = <<>>
  /\ IF Running(run[r].gen)
     THEN End("complete", TRUE) /\ Goto(r, "finalizing")
     ELSE Leave(r) /\ UNCHANGED <<job, storeVars>>
  /\ UNCHANGED <<epoch, actions, rows, saved, voiced>>

\* The controller failed; it ends its generation also when that is paused.
ClaimError(r) ==
  /\ run[r].pc \in {"driving", "erring"} /\ run[r].batch = <<>>
  /\ ~(job.gen = run[r].gen /\ job.status = "requires_action" /\ job.pending)
  /\ IF Running(run[r].gen) \/ (Paused /\ job.gen = run[r].gen)
     THEN End("error", FALSE) ELSE UNCHANGED <<job, storeVars>>
  /\ Leave(r)
  /\ UNCHANGED <<epoch, actions, rows, saved, voiced>>

\* Mutant: a failed save of the user row is overlooked.
SaveOverlooked(r) ==
  /\ run[r].pc = "finalizing"
  /\ rows' \in {rows, rows \cup UserRow(r)}
  /\ Goto(r, "consuming")
  /\ UNCHANGED <<job, epoch, storeVars, actions, saved, voiced>>

\* The user row is saved, then the recovered source is consumed; a failure
\* of either ends in a conservative final event.
SaveFinal(r) ==
  /\ run[r].pc = "finalizing"
  /\ \/ Goto(r, "consuming") /\ rows' = rows \cup UserRow(r)
     \/ Goto(r, "publishing") /\ UNCHANGED rows
  /\ UNCHANGED <<job, epoch, storeVars, actions, saved, voiced>>

CommitFinal(r) ==
  /\ run[r].pc = "consuming"
  /\ Commits(r) \/ CommitFails(r)
  /\ Goto(r, "publishing")
  /\ UNCHANGED <<job, epoch, actions, rows, saved, voiced>>

Publish(r) ==
  /\ run[r].pc = "publishing"
  /\ job' = IF job.gen = run[r].gen THEN [job EXCEPT !.pending = FALSE] ELSE job
  /\ Leave(r)
  /\ UNCHANGED <<epoch, storeVars, actions, rows, saved, voiced>>

\* The marker of an abort, or one whose owner is gone, is cleared.
FinalizeTerminal ==
  /\ job.status \in Terminal /\ job.pending
  /\ job' = [job EXCEPT !.pending = FALSE]
  /\ UNCHANGED <<epoch, storeVars, run, actions, rows, saved, voiced>>

\* A finished job is deleted with what it still holds.
DeleteJob ==
  /\ job.status \in Terminal
  /\ job' = NoJob
  /\ queue' = <<>> /\ claimed' = {}
  /\ UNCHANGED <<epoch, parked, lease, receipt, accepted, run, actions, rows, saved, voiced>>

\* Mutant: cleanup drops accepted words with the job.
ReapDropping ==
  /\ job.status = "running"
  /\ job' = NoJob
  /\ queue' = <<>> /\ claimed' = {}
  /\ UNCHANGED <<epoch, parked, lease, receipt, accepted, run, actions, rows, saved, voiced>>

\* A running job without activity is put away by cleanup.
ReapStale ==
  /\ job.status = "running"
  /\ Park
  /\ job' = NoJob
  /\ UNCHANGED <<epoch, run, actions, rows, saved, voiced>>

Crash(r) ==
  /\ "crash" \in Faults
  /\ run[r].pc # "idle"
  /\ Leave(r)
  /\ UNCHANGED <<job, epoch, storeVars, actions, rows, saved, voiced>>

-----------------------------------------------------------------------------
Request ==
  \/ \E s \in Steer : Enqueue(s) \/ Cancel(s) \/ Discard(s)
  \/ \E r \in Run : \/ \E s \in Steer \cup {None} : CreateJob(r, s)
                    \/ \E a \in 1 .. MaxAction : Resolve(r, a)
  \/ Abort

Inject(r) ==
  Drain(r) \/ Apply(r) \/ ApplyRefused(r) \/ ApplyReplyLost(r)
           \/ Restore(r) \/ RestoreRefused(r)
SettlePause(r) ==
  SaveRows(r) \/ CommitPaused(r) \/ ReleasePause(r) \/ FailPause(r)
Conclude(r) == ClaimTerminal(r) \/ ClaimError(r) \/ SaveFinal(r) \/ CommitFinal(r)
               \/ Publish(r)

Drive(r) == SaveUserRow(r) \/ Inject(r) \/ Pause(r) \/ SettlePause(r) \/ Conclude(r) \/ Crash(r)
Sweep == TimeoutPause \/ Expire \/ FinalizeTerminal \/ DeleteJob \/ ReapStale

Next == Request \/ Sweep \/ \E r \in Run : Drive(r)
Spec == Init /\ [][Next]_vars

\* Cleanup reaps a running job whose controller hangs or is gone.
ReapHung ==
  /\ \A r \in Run : run[r].pc = "idle" \/ run[r].gen # job.gen
  /\ ReapStale

\* Controllers that do not hang go on, and a generation does not call tools
\* for ever; the sweep runs periodically, and every pause has an expiry.
Fairness ==
  /\ WF_vars(TimeoutPause) /\ WF_vars(Expire) /\ WF_vars(ReapHung)
  /\ \A r \in Run : /\ WF_vars(Inject(r) \/ SettlePause(r) \/ Conclude(r))
                    /\ SF_vars(ClaimTerminal(r))
FairSpec == Spec /\ Fairness

-----------------------------------------------------------------------------
(* What the receipts promise.                                              *)

\* normalizeSteerReceipt: what a reader of the receipt is told.
Normalized(s) ==
  LET sameActive == /\ job.gen = accepted[s]
                    /\ job.status \in {"running", "requires_action"} IN
  IF \/ receipt[s] = "claimed" /\ ~sameActive
     \/ receipt[s] = "queued" /\ ~(sameActive /\ s \in ToSet(queue))
  THEN "leftover" ELSE receipt[s]

\* Accepted words are where their receipt says, so a reader is never told
\* that words were left over which wait, nor that words wait which are gone;
\* what is left over can be sent again.
ReceiptTellsPlace ==
  \A s \in Steer :
    /\ Normalized(s) = receipt[s]
    /\ (receipt[s] = "queued") <=> (s \in ToSet(queue))
    /\ (receipt[s] = "claimed") <=> (s \in claimed)
    /\ (receipt[s] = "leftover") <=> (s \in parked)

\* Words enter the conversation once, as part of a response or as a message
\* of their own, whatever generations are replaced, stopped or recovered,
\* and however often a recovery is tried.
VoicedOnce == \A s \in Steer : voiced[s] + (IF s \in rows THEN 1 ELSE 0) <= 1

\* The source of a recovery goes only when the words are a message: it is
\* the only durable copy of them.
RecoveredIsSaved == \A s \in Steer : receipt[s] = "recovered" => s \in rows

\* One controller owns a generation: the next segment starts when the pause
\* of the last one has been released.
OneOwner ==
  \A r1, r2 \in Run :
    /\ run[r1].pc \notin {"idle", "erring"} /\ run[r2].pc \notin {"idle", "erring"}
    /\ run[r1].gen = run[r2].gen
    => r1 = r2

\* A paused turn goes on only when its rows, and the message that sent left
\* over words again, are saved.
PauseIsSaved ==
  [][job.status = "requires_action" /\ job'.status = "running" /\ job'.gen = job.gen
     => job.action \in saved]_vars

\* What a receipt calls delivered was said.
DeliveredIsVoiced == \A s \in Steer : receipt[s] = "delivered" => voiced[s] = 1

\* Accepted words do not wait for ever: they are said, or the user has them
\* back.
AcceptedSettles ==
  \A s \in Steer : receipt[s] \in {"queued", "claimed"}
                  ~> receipt[s] \notin {"queued", "claimed"}

\* Once a new turn has leased left over words, and until that turn has saved
\* its rows, the words cannot be cancelled.
RecoveryOwnsItsSource ==
  [][\A r \in Run :
       /\ run[r].pc \in {"finalizing", "consuming"}
       /\ run[r].gen = job.gen /\ job.pending
       /\ run[r].recovering # None
       => ~(/\ receipt[run[r].recovering] = "leftover"
            /\ receipt'[run[r].recovering] = "cancelled")]_vars

\* A generation is failed by the controller that drives it, or from the
\* barrier of its pause: a pause that was released, and what another
\* controller resumed from it, is not failed by the one that paused.
OnlyTheDriverFails ==
  [][job.status # "error" /\ job'.status = "error" =>
       \/ job.status = "requires_action" /\ job.pending
       \/ \E r \in Run : /\ run[r].pc = "driving" /\ Running(run[r].gen)
                         /\ run'[r] # run[r]]_vars

-----------------------------------------------------------------------------
(* Steering implements SteerLedger: where the accepted words are.          *)

Place(s) ==
  IF s \in Waiting THEN "waiting"
  ELSE IF s \in parked THEN "aside"
  ELSE CASE receipt[s] = "none" -> "new"
         [] receipt[s] = "delivered" -> "said"
         [] receipt[s] = "cancelled" -> "withdrawn"
         [] receipt[s] = "recovered" -> "resent"
         [] OTHER -> "lost"

Ledger == INSTANCE SteerLedger WITH place <- [s \in Steer |-> Place(s)]

\* Accepted words are never lost, never wait again once put aside, and are
\* said, withdrawn or sent again once.
KeepsLedger == Ledger!Spec
=============================================================================
