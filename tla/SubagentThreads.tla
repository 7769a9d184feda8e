--------------------------- MODULE SubagentThreads ---------------------------
(***************************************************************************)
(* packages/api/src/agents/subagentThreads.ts: child tasks that run in     *)
(* conversations ("threads") below a root conversation, each under a       *)
(* lease on its thread, and the deletion of all conversations of their     *)
(* owner behind an admission fence.  The leases and fences are fields of   *)
(* documents (data-schemas methods/conversation.ts and methods/user.ts).   *)
(*                                                                         *)
(* A call of the database is executed in one step; what was captured       *)
(* before it (the time, a deadline) and what is decided on its answer are  *)
(* other steps, and any time may pass between them.  Timers may fire       *)
(* early, late or never: nothing here relies on their intervals.           *)
(*                                                                         *)
(* One owner and one root; clocks agree.  Left out: threads below threads, *)
(* the control transport, wakeups, activity streams, usage, and event      *)
(* children, which take the same lease in triggers/lease.ts.               *)
(***************************************************************************)
EXTENDS Naturals, FiniteSets

CONSTANTS Task,        \* executions of a task, each with its own lease token
          Thread,
          ThreadOf,    \* [Task -> Thread]
          AttemptOf,   \* attemptKey of a task: retries share it
          Continuing,  \* tasks that ask for an existing thread
          Root,        \* the parent conversation
          Deletion,    \* calls of withOwnerDeletionFence
          None,
          Ttl,         \* leaseTtlMs
          Window,      \* ownerDrainTimeoutMs + ownerFenceGraceMs
          MaxFences,   \* MAX_SUBAGENT_ADMISSION_FENCES
          MaxTime,     \* bound: readings of the clock
          MaxBegun,    \* bound: tasks and deletions that begin
          MaxFaults    \* bound: processes that die, calls that fail, lost replies

ASSUME SubagentAssumption ==
  /\ ThreadOf \in [Task -> Thread]
  /\ \A c, e \in Task : AttemptOf[c] = AttemptOf[e] => ThreadOf[c] = ThreadOf[e]
  /\ Continuing \subseteq Task
  /\ Root \notin Thread /\ None \notin Task
  /\ {Ttl, Window, MaxFences, MaxTime, MaxBegun, MaxFaults} \subseteq Nat /\ Ttl > 0 /\ Window > 0

VARIABLES
  now,
  exists,    \* conversations
  lease,     \* subagentThreadLease of a thread
  fences,    \* subagentAdmissionFences: expiresAt of each deletion's (0: none)
  input,     \* tasks whose user message is saved
  result,    \* status of the assistant message of each task
  task,      \* locals of a task
  renewal,   \* a task's renewals under way: its own and the heartbeat's
  deletion,  \* locals of a deletion
  beat,      \* renewal of a deletion's fence under way
  faults,
  kept       \* history: tasks whose lease has not run out since it was taken
             \* (it may have been deleted before it did), and that have written
             \* no result without it

rows == <<input, result>>
docs == <<exists, lease>>
taskVars == <<task, renewal>>
deletionVars == <<deletion, beat>>
vars == <<now, docs, fences, rows, taskVars, deletionVars, kept, faults>>

Time == 0 .. MaxTime
Late == 0 .. MaxTime + Ttl + Window
Conv == Thread \cup {Root}
Slot == {"main", "beat"}

TaskPc == {"idle", "parent", "reserve", "acquire", "acquiring",
           "recheck", "read", "close", "touchClosed", "seed", "parentAgain",
           "begin", "run", "ending", "failing", "settle", "orphan", "save",
           "touch", "rollback", "releasing", "ended"}
\* An error and a cancellation are one outcome here.
Status == {"none", "completed", "failed"}
TaskState == [pc : TaskPc,
              made : BOOLEAN,       \* createdThread
              at : Time,            \* now of the acquisition
              shared : BOOLEAN,     \* lease.shared is set
              until : Late,         \* shared.expiresAt
              lost : BOOLEAN,       \* shared.lost
              outcome : Status]
Fresh == [pc |-> "idle", made |-> FALSE, at |-> 0, shared |-> FALSE, until |-> 0,
          lost |-> FALSE, outcome |-> "none"]
Renewal == [stage : {"none", "sent", "yes", "no"}, at : Time, deadline : Late]
Quiet == [stage |-> "none", at |-> 0, deadline |-> 0]
Refused == [Quiet EXCEPT !.stage = "no"]
NoLease == [token |-> None, until |-> 0]

DeletionPc == {"idle", "fencing", "draining", "finding", "deleting",
               "descending", "rows", "stopping", "restoring", "redraining",
               "releasing", "ended"}
DeletionState == [pc : DeletionPc,
                  fencedUntil : Late,
                  lapsed : BOOLEAN,        \* fenceLapsed
                  wave : SUBSET Conv,
                  deleted : SUBSET Conv,
                  ok : BOOLEAN]            \* it reports success
Unstarted == [pc |-> "idle", fencedUntil |-> 0, lapsed |-> FALSE, wave |-> {},
              deleted |-> {}, ok |-> FALSE]
Beat == [stage : {"none", "sent", "absent", "again", "yes"}, deadline : Late, to : Late]
NoBeat == [stage |-> "none", deadline |-> 0, to |-> 0]

TypeOK ==
  /\ now \in Time
  /\ exists \subseteq Conv
  /\ lease \in [Thread -> [token : Task \cup {None}, until : Late]]
  /\ fences \in [Deletion -> Late]
  /\ input \subseteq Task
  /\ result \in [Task -> Status]
  /\ task \in [Task -> TaskState]
  /\ renewal \in [Task -> [Slot -> Renewal]]
  /\ deletion \in [Deletion -> DeletionState]
  /\ beat \in [Deletion -> Beat]
  /\ kept \subseteq Task /\ faults \in 0 .. MaxFaults

Init ==
  /\ now = 0
  /\ exists = {Root} \cup {ThreadOf[c] : c \in Continuing}
  /\ lease = [t \in Thread |-> NoLease]
  /\ fences = [d \in Deletion |-> 0]
  /\ input = {} /\ result = [c \in Task |-> "none"]
  /\ task = [c \in Task |-> Fresh]
  /\ renewal = [c \in Task |-> [k \in Slot |-> Quiet]]
  /\ deletion = [d \in Deletion |-> Unstarted]
  /\ beat = [d \in Deletion |-> NoBeat]
  /\ kept = {} /\ faults = 0

-----------------------------------------------------------------------------
(* The documents.                                                          *)

\* isSubagentOwnerAdmissible
Admissible == \A d \in Deletion : fences[d] <= now

LiveLeases == {t \in Thread : lease[t].token # None /\ lease[t].until > now}

\* The rows of the given tasks are deleted.
ForgetRows(C) ==
  /\ input' = input \ C
  /\ result' = [c \in Task |-> IF c \in C THEN "none" ELSE result[c]]

\* Conversations are deleted, and the leases in them.
DeleteConvs(C) ==
  /\ exists' = exists \ C
  /\ lease' = [t \in Thread |-> IF t \in C THEN NoLease ELSE lease[t]]

\* fenceSubagentAdmission: expired fences are pruned, and a new one is
\* admitted under the cap.
Pruned == [d \in Deletion |-> IF fences[d] <= now THEN 0 ELSE fences[d]]
MayFence == Cardinality({d \in Deletion : Pruned[d] # 0}) < MaxFences
PushFence(d, to) ==
  fences' = IF MayFence THEN [Pruned EXCEPT ![d] = to] ELSE Pruned

\* A thread is deleted with its messages.
DeleteThread(t) ==
  /\ DeleteConvs({t})
  /\ ForgetRows({c \in Task : ThreadOf[c] = t})

Tick ==
  /\ now < MaxTime
  /\ now' = now + 1
  /\ kept' = {c \in kept : lease[ThreadOf[c]].token = c => lease[ThreadOf[c]].until > now'}
  /\ UNCHANGED <<docs, fences, rows, taskVars, deletionVars>>

\* The lease c took is in the database and has been live ever since.
Kept(c) == c \in kept /\ lease[ThreadOf[c]].token = c

-----------------------------------------------------------------------------
(* A task: run in start, prepareThread, the three persist methods.         *)

MayBegin == Cardinality({c \in Task : task[c].pc # "idle"})
            + Cardinality({d \in Deletion : deletion[d].pc # "idle"}) < MaxBegun

Goto(c, pc) == task' = [task EXCEPT ![c].pc = pc]
At(c, pc) == task[c].pc = pc

\* Where a task goes when the call it makes at pc throws.
Rescue(c) ==
  LET pc == task[c].pc
      unsettled == IF task[c].outcome = "completed" THEN "failing" ELSE "releasing"
  IN CASE pc \in {"parent", "reserve", "acquire", "acquiring"} -> "failing"
       [] pc \in {"recheck", "read", "close", "seed", "parentAgain"} -> "rollback"
       [] pc \in {"settle", "save"} -> unsettled
       [] pc \in {"orphan"} -> unsettled
       [] pc \in {"touch", "touchClosed"} -> "releasing"
       [] pc = "rollback" -> "failing"
       [] pc = "releasing" -> "ended"
       [] OTHER -> pc

Onward(c, pc, heard) == Goto(c, IF heard THEN pc ELSE Rescue(c))

Crash(c) ==
  /\ task[c].pc \notin {"idle", "ended"}
  /\ task' = [task EXCEPT ![c] = [Fresh EXCEPT !.pc = "ended"]]
  /\ renewal' = [renewal EXCEPT ![c] = [k \in Slot |-> Quiet]]
  /\ UNCHANGED <<now, docs, fences, rows, deletionVars, kept>>

CallFails(c) ==
  /\ Rescue(c) # task[c].pc
  /\ At(c, "releasing") => renewal[c]["beat"] = Quiet
  /\ Goto(c, Rescue(c))
  /\ UNCHANGED <<now, docs, fences, rows, renewal, deletionVars, kept>>

ProbeOwner(c) ==
  /\ At(c, "idle") /\ MayBegin
  /\ Goto(c, IF Admissible THEN "parent" ELSE "failing")
  /\ UNCHANGED <<now, docs, fences, rows, renewal, deletionVars, kept>>

ReadParent(c) ==
  /\ At(c, "parent")
  /\ Goto(c, IF Root \notin exists THEN "failing"
             ELSE IF ThreadOf[c] \in exists THEN "acquire"
             ELSE IF c \in Continuing THEN "failing" ELSE "reserve")
  /\ UNCHANGED <<now, docs, fences, rows, renewal, deletionVars, kept>>

Reserve(c, heard) ==
  /\ At(c, "reserve")
  /\ exists' = exists \cup {ThreadOf[c]}
  /\ task' = [task EXCEPT ![c].pc = IF heard THEN "acquire" ELSE "failing",
                          ![c].made = heard /\ ThreadOf[c] \notin exists]
  /\ UNCHANGED <<now, lease, fences, rows, renewal, deletionVars, kept>>

SendAcquire(c) ==
  /\ At(c, "acquire")
  /\ task' = [task EXCEPT ![c].pc = "acquiring", ![c].at = now]
  /\ UNCHANGED <<now, docs, fences, rows, renewal, deletionVars, kept>>

\* acquireSubagentThreadLease and what follows its answer.  A lease whose
\* answer is lost has no one to release it.
MayAcquire(c) ==
  /\ ThreadOf[c] \in exists
  /\ lease[ThreadOf[c]].token \in {None, c} \/ lease[ThreadOf[c]].until <= task[c].at
Acquire(c, heard) ==
  LET until == task[c].at + Ttl
  IN /\ At(c, "acquiring") /\ MayAcquire(c)
     /\ lease' = [lease EXCEPT ![ThreadOf[c]] = [token |-> c, until |-> until]]
     /\ kept' = IF until > now THEN kept \cup {c} ELSE kept
     /\ task' = [task EXCEPT ![c] =
                   IF heard THEN [@ EXCEPT !.pc = "recheck", !.at = 0,
                                           !.shared = TRUE, !.until = until]
                   ELSE [@ EXCEPT !.pc = "failing", !.at = 0]]
     /\ UNCHANGED <<now, exists, fences, rows, renewal, deletionVars>>

AcquireRefused(c) ==
  /\ At(c, "acquiring") /\ ~MayAcquire(c)
  /\ task' = [task EXCEPT ![c].pc = "failing", ![c].at = 0]
  /\ UNCHANGED <<now, docs, fences, rows, renewal, deletionVars, kept>>

\* Mutant: the owner is not looked at again.
RecheckNothing(c) ==
  /\ At(c, "recheck")
  /\ Goto(c, "read")
  /\ UNCHANGED <<now, docs, fences, rows, renewal, deletionVars, kept>>

\* The owner is looked at again now that the lease can be seen.
Recheck(c) ==
  /\ At(c, "recheck")
  /\ Goto(c, IF Admissible THEN "read" ELSE "rollback")
  /\ UNCHANGED <<now, docs, fences, rows, renewal, deletionVars, kept>>

\* A prior run of the attempt is replayed, or its rows are closed.
Prior(c) == {e \in Task : AttemptOf[e] = AttemptOf[c] /\ (e \in input \/ result[e] # "none")}
\* Mutant: only what runs is looked for, not what has ended.
ReadTranscriptForRunning(c) ==
  /\ At(c, "read")
  /\ Goto(c, IF \E e \in Prior(c) : result[e] = "none" THEN "close" ELSE "seed")
  /\ UNCHANGED <<now, docs, fences, rows, renewal, deletionVars, kept>>

ReadTranscript(c) ==
  /\ At(c, "read")
  /\ Goto(c, IF \E e \in Prior(c) : result[e] # "none" THEN "releasing"
             ELSE IF Prior(c) # {} THEN "close" ELSE "seed")
  /\ UNCHANGED <<now, docs, fences, rows, renewal, deletionVars, kept>>

WriteResult(c, status) ==
  /\ result' = [result EXCEPT ![c] = status]
  /\ kept' = IF Kept(c) THEN kept ELSE kept \ {c}

Close(c, heard) ==
  /\ At(c, "close")
  /\ WriteResult(c, "failed")
  /\ Onward(c, "touchClosed", heard)
  /\ UNCHANGED <<now, docs, fences, input, renewal, deletionVars>>

Seed(c, heard) ==
  /\ At(c, "seed")
  /\ input' = input \cup {c}
  /\ Onward(c, "parentAgain", heard)
  /\ UNCHANGED <<now, docs, fences, result, renewal, deletionVars, kept>>

\* Mutant: the parent is not read again.
ParentAgainTrusted(c) ==
  /\ At(c, "parentAgain")
  /\ Goto(c, "begin")
  /\ UNCHANGED <<now, docs, fences, rows, renewal, deletionVars, kept>>

ParentAgain(c) ==
  /\ At(c, "parentAgain")
  /\ Goto(c, IF Root \in exists THEN "begin" ELSE "rollback")
  /\ UNCHANGED <<now, docs, fences, rows, renewal, deletionVars, kept>>

\* rollbackPreparation
Rollback(c) ==
  /\ At(c, "rollback")
  /\ IF task[c].made THEN DeleteThread(ThreadOf[c])
     ELSE ForgetRows({c}) /\ UNCHANGED docs
  /\ Goto(c, "failing")
  /\ UNCHANGED <<now, fences, renewal, deletionVars, kept>>

\* The child's own work ends, or it is cancelled.
RunEnds(c) ==
  /\ At(c, "run")
  /\ \E pc \in {"ending", "failing"} : Goto(c, pc)
  /\ UNCHANGED <<now, docs, fences, rows, renewal, deletionVars, kept>>

-----------------------------------------------------------------------------
(* Renewals of a lease: the task's own (renewSharedLease), which it waits  *)
(* for, and the heartbeat's.                                               *)

Renewing == {"begin", "ending", "failing"}

\* What the task does with the answer to its own renewal.
Renewed(c, ok) ==
  CASE task[c].pc = "begin" -> [task[c] EXCEPT !.pc = IF ok THEN "run" ELSE "failing"]
    [] task[c].pc = "ending" ->
         IF ok THEN [task[c] EXCEPT !.pc = "settle", !.outcome = "completed"]
         ELSE [task[c] EXCEPT !.pc = "failing"]
    [] task[c].pc = "failing" ->
         [task[c] EXCEPT !.pc = IF ok THEN "settle" ELSE "releasing",
                         !.outcome = "failed"]

\* Nothing to renew, or refused at once: the lease is lost, the owner is
\* fenced, or the task was cancelled before it began.
NoRenewal(c) ==
  /\ task[c].pc \in Renewing /\ renewal[c]["main"] = Quiet
  /\ \/ /\ At(c, "failing") /\ ~task[c].shared
        /\ task' = [task EXCEPT ![c] = Renewed(c, TRUE)]
     \/ /\ task[c].shared
        /\ task[c].lost \/ ~Admissible \/ At(c, "begin")
        /\ task' = [task EXCEPT ![c] = Renewed(c, FALSE)]
  /\ UNCHANGED <<now, docs, fences, rows, renewal, deletionVars, kept>>

OwnerUnread(c) ==
  /\ task[c].pc \in Renewing /\ renewal[c]["main"] = Quiet
  /\ task[c].shared /\ ~task[c].lost
  /\ task' = [task EXCEPT ![c] = Renewed(c, FALSE)]
  /\ UNCHANGED <<now, docs, fences, rows, renewal, deletionVars, kept>>

Send(c, k) ==
  renewal' = [renewal EXCEPT ![c][k] =
                [stage |-> "sent", at |-> now, deadline |-> task[c].until]]

SendRenewal(c) ==
  /\ task[c].pc \in Renewing /\ renewal[c]["main"] = Quiet
  /\ task[c].shared /\ ~task[c].lost /\ Admissible
  /\ Send(c, "main")
  /\ UNCHANGED <<now, docs, fences, rows, task, deletionVars, kept>>

\* startSharedLeaseHeartbeat: the heartbeat of a task whose owner is fenced
\* cancels it, and renews its lease while it stops.
Heartbeat(c) ==
  /\ task[c].shared /\ ~task[c].lost /\ task[c].pc \notin {"releasing", "ended"}
  /\ renewal[c]["beat"] = Quiet
  /\ Send(c, "beat")
  /\ UNCHANGED <<now, docs, fences, rows, task, deletionVars, kept>>

\* Mutant: a renewal adds to what is left of the lease.
RenewFromExpiry(c, k) ==
  LET t == ThreadOf[c]
      matched == lease[t].token = c /\ lease[t].until > renewal[c][k].at
  IN /\ renewal[c][k].stage = "sent"
     /\ renewal' = [renewal EXCEPT ![c][k] = IF matched THEN [@ EXCEPT !.stage = "yes"]
                                             ELSE Refused]
     /\ lease' = IF matched THEN [lease EXCEPT ![t].until = @ + Ttl] ELSE lease
     /\ UNCHANGED <<now, exists, fences, rows, task, deletionVars, kept>>

\* renewSubagentThreadLease in the database
Renew(c, k) ==
  LET t == ThreadOf[c]
      until == renewal[c][k].at + Ttl
      matched == lease[t].token = c /\ lease[t].until > renewal[c][k].at
  IN /\ renewal[c][k].stage = "sent"
     /\ renewal' = [renewal EXCEPT ![c][k] = IF matched THEN [@ EXCEPT !.stage = "yes"]
                                             ELSE Refused]
     /\ lease' = IF matched THEN [lease EXCEPT ![t].until = until] ELSE lease
     /\ kept' = IF matched /\ until <= now THEN kept \ {c} ELSE kept
     /\ UNCHANGED <<now, exists, fences, rows, task, deletionVars>>

RenewalFails(c, k) ==
  /\ renewal[c][k].stage \in {"sent", "yes"}
  /\ renewal' = [renewal EXCEPT ![c][k] = Refused]
  /\ UNCHANGED <<now, docs, fences, rows, task, deletionVars, kept>>

\* Mutant: it does not matter when the answer comes.
AnyTime(c, k) == renewal[c][k].stage = "yes"

\* The answer: an answer that comes after the lease had run out is no answer.
InTime(c, k) == renewal[c][k].stage = "yes" /\ now < renewal[c][k].deadline
Answered(c, k) ==
  /\ renewal[c][k].stage \in {"yes", "no"}
  /\ LET ok == InTime(c, k)
         told == IF k = "main" THEN Renewed(c, ok) ELSE task[c]
     IN task' = [task EXCEPT ![c] =
                   IF ok THEN [told EXCEPT !.until = renewal[c][k].at + Ttl]
                   ELSE [told EXCEPT !.lost = TRUE]]
  /\ renewal' = [renewal EXCEPT ![c][k] = Quiet]
  /\ UNCHANGED <<now, docs, fences, rows, deletionVars, kept>>

-----------------------------------------------------------------------------
(* Settlement.                                                             *)

\* currentConversation and taskInputExists: a completed result needs the
\* conversation, the others the task's own message too.
Settle(c) ==
  LET live == ThreadOf[c] \in exists /\ Admissible
      done == task[c].outcome = "completed"
  IN /\ At(c, "settle")
     /\ Goto(c, IF live /\ Root \notin exists THEN "orphan"
                ELSE IF live /\ (done \/ c \in input) THEN "save"
                ELSE Rescue(c))
     /\ UNCHANGED <<now, docs, fences, rows, renewal, deletionVars, kept>>

\* The parent is gone: its child goes too, and nothing is saved.
Orphan(c) ==
  /\ At(c, "orphan")
  /\ DeleteThread(ThreadOf[c])
  /\ Goto(c, Rescue(c))
  /\ UNCHANGED <<now, fences, renewal, deletionVars, kept>>

Save(c, heard) ==
  /\ At(c, "save")
  /\ WriteResult(c, task[c].outcome)
  /\ Onward(c, "touch", heard)
  /\ UNCHANGED <<now, docs, fences, input, renewal, deletionVars>>

\* touchAfterMessage: rows saved in a thread that is gone are taken back.
Touch(c) ==
  /\ task[c].pc \in {"touch", "touchClosed"}
  /\ IF ThreadOf[c] \in exists
     THEN UNCHANGED rows /\ Goto(c, "releasing")
     ELSE /\ ForgetRows({c})
          /\ Goto(c, IF At(c, "touchClosed") THEN "rollback"
                     ELSE IF task[c].outcome = "completed" THEN "failing"
                     ELSE "releasing")
  /\ UNCHANGED <<now, docs, fences, renewal, deletionVars, kept>>

\* stopAndReleaseSharedLease: after the heartbeat under way.
Release(c) ==
  /\ At(c, "releasing") /\ renewal[c]["beat"] = Quiet
  /\ lease' = IF task[c].shared /\ lease[ThreadOf[c]].token = c
              THEN [lease EXCEPT ![ThreadOf[c]] = NoLease] ELSE lease
  /\ task' = [task EXCEPT ![c] = [Fresh EXCEPT !.pc = "ended"]]
  /\ UNCHANGED <<now, exists, fences, rows, renewal, deletionVars, kept>>

-----------------------------------------------------------------------------
(* A deletion: withOwnerDeletionFence around deleteConvos.                 *)

DAt(d, pc) == deletion[d].pc = pc
DGoto(d, pc) == deletion' = [deletion EXCEPT ![d].pc = pc]
\* deleteConvos is over.
Leave(d, pc) == deletion' = [deletion EXCEPT ![d].pc = pc, ![d].wave = {}, ![d].deleted = {}]
\* withOwnerDeletionFence is over.
End(d) ==
  deletion' = [deletion EXCEPT ![d] = [Unstarted EXCEPT !.pc = "ended", !.ok = deletion[d].ok]]
FenceHeld(d) == ~deletion[d].lapsed /\ now < deletion[d].fencedUntil

CaptureFence(d) ==
  /\ DAt(d, "idle") /\ MayBegin
  /\ deletion' = [deletion EXCEPT ![d].pc = "fencing", ![d].fencedUntil = now + Window]
  /\ UNCHANGED <<now, docs, fences, rows, taskVars, beat, kept>>

TakeFence(d, heard) ==
  /\ DAt(d, "fencing")
  /\ PushFence(d, deletion[d].fencedUntil)
  /\ IF MayFence /\ heard THEN DGoto(d, "draining") ELSE End(d)
  /\ UNCHANGED <<now, docs, rows, taskVars, beat, kept>>

\* cancelAndDrainForOwner has found no live lease, and the fence is looked at.
Drained(d) ==
  /\ LiveLeases = {}
  /\ \/ DAt(d, "draining") /\ DGoto(d, IF FenceHeld(d) THEN "finding" ELSE "releasing")
     \/ /\ DAt(d, "redraining")
        /\ deletion' = [deletion EXCEPT ![d].pc = "releasing", ![d].ok = FenceHeld(d)]
  /\ UNCHANGED <<now, docs, fences, rows, taskVars, beat, kept>>

DrainTimesOut(d) ==
  /\ LiveLeases # {} /\ deletion[d].pc \in {"draining", "redraining"}
  /\ DGoto(d, "releasing")
  /\ UNCHANGED <<now, docs, fences, rows, taskVars, beat, kept>>

Find(d) ==
  /\ DAt(d, "finding")
  /\ IF exists = {} THEN DGoto(d, "releasing")
     ELSE deletion' = [deletion EXCEPT ![d].pc = "deleting", ![d].wave = exists]
  /\ UNCHANGED <<now, docs, fences, rows, taskVars, beat, kept>>

DeleteWave(d, heard) ==
  /\ DAt(d, "deleting")
  /\ DeleteConvs(deletion[d].wave)
  /\ IF heard
     THEN deletion' = [deletion EXCEPT ![d].pc = "descending",
                                       ![d].deleted = @ \cup deletion[d].wave]
     ELSE Leave(d, "releasing")
  /\ UNCHANGED <<now, fences, rows, taskVars, beat, kept>>

\* Children of the wave that were not seen before.
Descend(d) ==
  LET next == {t \in Thread \cap exists : Root \in deletion[d].wave} \ deletion[d].deleted
  IN /\ DAt(d, "descending")
     /\ deletion' = [deletion EXCEPT ![d].pc = IF next = {} THEN "rows" ELSE "deleting",
                                     ![d].wave = next]
     /\ UNCHANGED <<now, docs, fences, rows, taskVars, beat, kept>>

DeleteRows(d) ==
  /\ DAt(d, "rows")
  /\ ForgetRows({c \in Task : ThreadOf[c] \in deletion[d].deleted})
  /\ Leave(d, "stopping")
  /\ UNCHANGED <<now, docs, fences, taskVars, beat, kept>>

\* stopRenewal has waited for the renewal under way.
Judge(d) ==
  /\ DAt(d, "stopping") /\ beat[d] = NoBeat
  /\ IF FenceHeld(d)
     THEN /\ deletion' = [deletion EXCEPT ![d].pc = "releasing", ![d].ok = TRUE]
          /\ UNCHANGED beat
     ELSE /\ DGoto(d, "restoring")
          /\ beat' = [beat EXCEPT ![d] = [stage |-> "sent", deadline |-> now + Window,
                                          to |-> now + Window]]
  /\ UNCHANGED <<now, docs, fences, rows, taskVars, kept>>

\* The renewal of the fence, every third of the window.
Beating == {"draining", "finding", "deleting", "descending", "rows"}
\* Mutant: the fence is believed extended when its renewal is sent.
BeatFenceAhead(d) ==
  /\ deletion[d].pc \in Beating /\ beat[d] = NoBeat
  /\ beat' = [beat EXCEPT ![d] = [stage |-> "sent", deadline |-> deletion[d].fencedUntil,
                                  to |-> now + Window]]
  /\ deletion' = [deletion EXCEPT ![d].fencedUntil = now + Window]
  /\ UNCHANGED <<now, docs, fences, rows, taskVars, kept>>

BeatFence(d) ==
  /\ deletion[d].pc \in Beating /\ beat[d] = NoBeat
  /\ beat' = [beat EXCEPT ![d] = [stage |-> "sent", deadline |-> deletion[d].fencedUntil,
                                  to |-> now + Window]]
  /\ UNCHANGED <<now, docs, fences, rows, taskVars, deletion, kept>>

\* renewSubagentAdmission in the database
RenewFence(d) ==
  /\ beat[d].stage = "sent"
  /\ fences' = IF fences[d] # 0 THEN [fences EXCEPT ![d] = beat[d].to] ELSE fences
  /\ beat' = [beat EXCEPT ![d].stage = IF fences[d] # 0 THEN "yes" ELSE "absent"]
  /\ UNCHANGED <<now, docs, rows, taskVars, deletion, kept>>

\* The fence was gone: it is taken again, unless it is being released.
FenceGone(d) ==
  /\ beat[d].stage = "absent"
  /\ deletion' = [deletion EXCEPT ![d].lapsed = TRUE]
  /\ beat' = [beat EXCEPT ![d] = IF deletion[d].pc \in {"releasing", "ended"} THEN NoBeat
                                 ELSE [@ EXCEPT !.stage = "again"]]
  /\ UNCHANGED <<now, docs, fences, rows, taskVars, kept>>

FenceAgain(d) ==
  /\ beat[d].stage = "again"
  /\ PushFence(d, beat[d].to)
  /\ beat' = [beat EXCEPT ![d] = IF MayFence THEN [@ EXCEPT !.stage = "yes"] ELSE NoBeat]
  /\ UNCHANGED <<now, docs, rows, taskVars, deletion, kept>>

\* A renewal counts if it was answered before the deadline it moves.
FenceAnswered(d) ==
  /\ beat[d].stage = "yes"
  /\ LET ok == now < beat[d].deadline
         told == IF ok THEN [deletion[d] EXCEPT !.fencedUntil = beat[d].to]
                 ELSE [deletion[d] EXCEPT !.lapsed = TRUE]
     IN deletion' = [deletion EXCEPT ![d] =
          IF ~DAt(d, "restoring") THEN told
          ELSE IF ok THEN [told EXCEPT !.lapsed = FALSE, !.pc = "redraining"]
          ELSE [told EXCEPT !.pc = "releasing"]]
  /\ beat' = [beat EXCEPT ![d] = NoBeat]
  /\ UNCHANGED <<now, docs, fences, rows, taskVars, kept>>

\* A restoration whose fence was refused fails; a refused beat is only logged.
RestoreRefused(d) ==
  /\ DAt(d, "restoring") /\ beat[d] = NoBeat
  /\ DGoto(d, "releasing")
  /\ UNCHANGED <<now, docs, fences, rows, taskVars, beat, kept>>

\* Mutant: the renewal under way is not waited for.
ReleaseFenceAtOnce(d) ==
  /\ DAt(d, "releasing")
  /\ fences' = [fences EXCEPT ![d] = 0]
  /\ End(d)
  /\ UNCHANGED <<now, docs, rows, taskVars, beat, kept>>

ReleaseFence(d) ==
  /\ DAt(d, "releasing") /\ beat[d] = NoBeat
  /\ fences' = [fences EXCEPT ![d] = 0]
  /\ End(d)
  /\ UNCHANGED <<now, docs, rows, taskVars, beat, kept>>

DeletionCallFails(d) ==
  /\ \/ deletion[d].pc \in {"fencing", "draining", "finding", "deleting", "descending",
                            "redraining"}
        /\ IF DAt(d, "fencing") THEN End(d) ELSE Leave(d, "releasing")
     \/ DAt(d, "rows") /\ Leave(d, "stopping")
     \/ DAt(d, "releasing") /\ beat[d] = NoBeat /\ End(d)
  /\ UNCHANGED <<now, docs, fences, rows, taskVars, beat, kept>>

BeatFails(d) ==
  /\ beat[d].stage \in {"sent", "again", "yes"}
  /\ beat' = [beat EXCEPT ![d] = NoBeat]
  /\ UNCHANGED <<now, docs, fences, rows, taskVars, deletion, kept>>

DeletionCrash(d) ==
  /\ deletion[d].pc \notin {"idle", "ended"}
  /\ End(d)
  /\ beat' = [beat EXCEPT ![d] = NoBeat]
  /\ UNCHANGED <<now, docs, fences, rows, taskVars, kept>>

-----------------------------------------------------------------------------
TaskStep(c) ==
  \/ ProbeOwner(c) \/ ReadParent(c) \/ Reserve(c, TRUE)
  \/ SendAcquire(c) \/ Acquire(c, TRUE) \/ AcquireRefused(c) \/ Recheck(c)
  \/ ReadTranscript(c) \/ Close(c, TRUE) \/ Seed(c, TRUE) \/ ParentAgain(c)
  \/ Rollback(c) \/ RunEnds(c) \/ NoRenewal(c) \/ SendRenewal(c) \/ Heartbeat(c)
  \/ \E k \in Slot : Renew(c, k) \/ Answered(c, k)
  \/ Settle(c) \/ Orphan(c) \/ Save(c, TRUE) \/ Touch(c) \/ Release(c)

\* A process dies, a call fails unexecuted, or its answer is lost.
TaskFault(c) ==
  \/ Crash(c) \/ CallFails(c) \/ OwnerUnread(c)
  \/ \E k \in Slot : RenewalFails(c, k)
  \/ Reserve(c, FALSE) \/ Acquire(c, FALSE)
  \/ Close(c, FALSE) \/ Seed(c, FALSE) \/ Save(c, FALSE)

DeletionStep(d) ==
  \/ CaptureFence(d) \/ TakeFence(d, TRUE) \/ Drained(d) \/ DrainTimesOut(d)
  \/ Find(d) \/ DeleteWave(d, TRUE) \/ Descend(d) \/ DeleteRows(d) \/ Judge(d)
  \/ BeatFence(d) \/ RenewFence(d) \/ FenceGone(d) \/ FenceAgain(d) \/ FenceAnswered(d)
  \/ RestoreRefused(d) \/ ReleaseFence(d)

DeletionFault(d) ==
  \/ DeletionCrash(d) \/ DeletionCallFails(d) \/ BeatFails(d)
  \/ TakeFence(d, FALSE) \/ DeleteWave(d, FALSE)

Step == Tick \/ (\E c \in Task : TaskStep(c)) \/ (\E d \in Deletion : DeletionStep(d))
Fault == (\E c \in Task : TaskFault(c)) \/ (\E d \in Deletion : DeletionFault(d))

Next ==
  \/ Step /\ UNCHANGED faults
  \/ Fault /\ faults < MaxFaults /\ faults' = faults + 1

Spec == Init /\ [][Next]_vars

-----------------------------------------------------------------------------
(* Properties.                                                             *)

\* What a task does between the recheck of its owner and its settlement.
Working == {"read", "close", "touchClosed", "seed", "parentAgain", "begin", "run",
            "ending", "settle", "orphan", "save", "touch"}
Deleting == {"finding", "deleting", "descending", "rows", "stopping"}

\* While a deletion whose fence is held deletes, no task that still holds the
\* lease it took is past the recheck of its owner: it was drained, or it is
\* refused.  prepareThread's recheck, withOwnerDeletionFence.
DrainedIsStopped ==
  \A d \in Deletion, c \in Task :
    deletion[d].pc \in Deleting /\ FenceHeld(d) /\ task[c].shared /\ Kept(c)
      => task[c].pc \notin Working

\* A deletion that believes in its fence has it in the database: a renewal
\* that came late, was refused or found its fence gone is not believed.
HeldFenceIsStored ==
  \A d \in Deletion :
    deletion[d].pc \in Deleting \cup {"draining", "redraining"} /\ FenceHeld(d)
      => fences[d] >= deletion[d].fencedUntil

\* A child starts to work only when the lease it took has not run out since,
\* and when what is stored of it lasts until the deadline against which its
\* renewal was answered in time, however late that renewal and the heartbeats
\* before it were executed.  The lease may have been deleted meanwhile, with its
\* thread: by a deletion whose fence had a gap, or by another run of the task
\* that takes the thread back.  Such a deletion may have seen the thread as free
\* and have succeeded; the child starts all the same.  renewSharedLeaseFence.
StartsUnderLease ==
  [][\A c \in Task :
       At(c, "begin") /\ task'[c].pc = "run" =>
         /\ c \in kept
         /\ lease[ThreadOf[c]].token = c
              => lease[ThreadOf[c]].until >= renewal[c]["main"].deadline]_vars

\* A deletion reports success only when no child whose lease has not run out
\* is at work, also when its fence had a gap.  withOwnerDeletionFence.
NoWorkOutlivesDeletion ==
  [][\A d \in Deletion, c \in Task :
       ~deletion[d].ok /\ deletion'[d].ok => ~(At(c, "run") /\ c \in kept)]_vars

\* An attempt has one result, whichever of its runs wrote it: of two, one was
\* written after the lease of its run had run out or was taken by another.
\* prepareThread's replay of a prior attempt, behind the lease of the thread.
OneResult ==
  \A c, e \in Task :
    /\ c # e /\ AttemptOf[c] = AttemptOf[e]
    /\ result[c] # "none" /\ result[e] # "none"
    => ~({c, e} \subseteq kept)

\* When a deletion is over, nothing writes a fence for it any more: the renewal
\* under way was waited for.  A fence nobody lifts keeps the owner's children
\* out until it expires.
NoLeakedFence ==
  [][\A d \in Deletion : DAt(d, "ended") => fences'[d] <= fences[d]]_vars

\* After a deletion that reported success, when nothing failed and nobody works
\* any more, nothing is left of the root and of a thread only one task went to:
\* a thread made late finds its parent gone, a result saved late its thread.  Of
\* two tasks in a thread each may leave it to the other, and it stays.
NothingLeft ==
  /\ faults = 0
  /\ \A c \in Task : task[c].pc \in {"idle", "ended"}
  /\ \A d \in Deletion : deletion[d].pc \in {"idle", "ended"}
  /\ \E d \in Deletion : deletion[d].ok
  => /\ Root \notin exists
     /\ \A c \in Task :
          (\A e \in Task \ {c} : ThreadOf[e] = ThreadOf[c] => At(e, "idle"))
            => ThreadOf[c] \notin exists /\ c \notin input /\ result[c] = "none"
=============================================================================
