---------------------------- MODULE TriggerLanes ----------------------------
(***************************************************************************)
(* How staged deliveries get their place in a lane:                        *)
(* packages/data-schemas/src/methods/triggerDelivery.ts, publication,      *)
(* repair, reclamation and account purge of the ordering lanes.            *)
(*                                                                         *)
(* A call is one invocation of a store method on some replica (enqueue,    *)
(* requeue, maintenance, completion).  Each database operation is a step   *)
(* of its own and calls interleave between them; a call may disappear      *)
(* between any two of its steps (its process died or the database failed). *)
(* The rows, the lane documents and the purge markers are the collections. *)
(*                                                                         *)
(* A lane document belongs to one user, since the ordering key hashes the  *)
(* principal.  Date values that the code compares are readings of `now`.   *)
(* Leases are abstracted: a published row settles when nothing earlier in  *)
(* its lane is unsettled, which is what TriggerQueue shows of the runner.  *)
(***************************************************************************)
EXTENDS Naturals, FiniteSets

CONSTANTS Delivery,      \* row _ids: naturals, for the sort by (updatedAt, _id)
          Lane,
          LaneOf,        \* [Delivery -> Lane]
          User,
          OwnerOf,       \* [Lane -> User]
          Deletable,     \* the users who try to delete their account
          Call,
          None,
          MaxTime,       \* bound: readings of the clock
          MaxSeq,        \* bound: lane.value
          MaxRequeues,   \* bound: requeues of dead letters
          MaxRollbacks,  \* bound: account deletions given up
          MaxLosses      \* bound: calls that disappear half way

ASSUME TriggerLanesAssumption ==
  /\ Delivery \subseteq Nat
  /\ LaneOf \in [Delivery -> Lane]
  /\ OwnerOf \in [Lane -> User]
  /\ None \notin Delivery \cup Lane
  /\ Deletable \subseteq User
  /\ MaxTime \in Nat \ {0}
  /\ {MaxSeq, MaxRequeues, MaxRollbacks, MaxLosses} \subseteq Nat

VARIABLES
  \* AgentTriggerDelivery: status, laneSequence, updatedAt while staging,
  \* laneCleanupPendingAt (0: unset)
  status, laneSequence, stagedAt, cleanupPending,
  \* AgentTriggerLaneSequence: value (0: no document), publisherDeliveryId,
  \* tailDeliveryId, cleanupRequestedAt (0: unset)
  value, publisher, tailRow, cleanup,
  \* the account (User document and its deletion fence), the purge marker
  \* (of the deletion under way, or left by one given up), the collections
  \* the running purge has emptied, and the clock
  account, marker, purged, now,
  requeues, rollbacks, losses,
  \* calls: program counter, the row and lane worked on, the lane document or
  \* date read, the row selected for publication
  pc, row, lane, snap, next

rowVars  == <<status, laneSequence, stagedAt, cleanupPending>>
laneVars == <<value, publisher, tailRow, cleanup>>
userVars == <<account, marker, purged>>
bounds   == <<now, requeues, rollbacks, losses>>
callVars == <<pc, row, lane, snap, next>>
vars     == <<rowVars, laneVars, userVars, bounds, callVars>>

Status == {"absent", "staging", "pending", "succeeded", "dead"}
Step == {"idle", "create", "load", "marker", "lane", "laneMarker", "select",
         "acquire", "recheck", "withdraw", "publish", "reread", "release",
         "abandon", "requestCleanup", "clearPending", "reclaim", "retained",
         "unrequest", "delete"}

\* What a call keeps of a lane document or of a pending cleanup.
Snapshot == [value : 0 .. MaxSeq, publisher : Delivery \cup {None},
             tail : Delivery \cup {None}, cleanup : 0 .. MaxTime]
Blank == [value |-> 0, publisher |-> None, tail |-> None, cleanup |-> 0]

TypeOK ==
  /\ status \in [Delivery -> Status]
  /\ laneSequence \in [Delivery -> 0 .. MaxSeq]
  /\ stagedAt \in [Delivery -> 0 .. MaxTime]
  /\ cleanupPending \in [Delivery -> 0 .. MaxTime]
  /\ value \in [Lane -> 0 .. MaxSeq]
  /\ publisher \in [Lane -> Delivery \cup {None}]
  /\ tailRow \in [Lane -> Delivery \cup {None}]
  /\ cleanup \in [Lane -> 0 .. MaxTime]
  /\ account \in [User -> {"active", "fenced", "armed", "cancelling", "gone"}]
  /\ marker \in [User -> {"none", "current", "stale"}]
  /\ purged \in [User -> SUBSET {"rows", "lanes"}]
  /\ now \in 1 .. MaxTime
  /\ requeues \in 0 .. MaxRequeues
  /\ rollbacks \in 0 .. MaxRollbacks
  /\ losses \in 0 .. MaxLosses
  /\ pc \in [Call -> Step]
  /\ row \in [Call -> Delivery \cup {None}]
  /\ lane \in [Call -> Lane \cup {None}]
  /\ snap \in [Call -> Snapshot]
  /\ next \in [Call -> Delivery \cup {None}]

-----------------------------------------------------------------------------
Document(l) == [value |-> value[l], publisher |-> publisher[l],
                tail |-> tailRow[l], cleanup |-> cleanup[l]]

Exists(l) == value[l] > 0

Staged(l) == {d \in Delivery : LaneOf[d] = l /\ status[d] = "staging"}

\* The sort order of publishStagedDelivery: updatedAt, then _id.
Before(d, e) == \/ stagedAt[d] < stagedAt[e]
                \/ stagedAt[d] = stagedAt[e] /\ d < e

Oldest(l) == CHOOSE d \in Staged(l) : \A e \in Staged(l) \ {d} : Before(d, e)

UserOf(d) == OwnerOf[LaneOf[d]]

\* UserPurge().exists({_id: user})
Marked(u) == marker[u] # "none"

\* The filter of the publisher updates: {_id, value, publisherDeliveryId}.
PublisherFence(c) == /\ value[lane[c]] = snap[c].value
                     /\ publisher[lane[c]] = snap[c].publisher

Init ==
  /\ status = [d \in Delivery |-> "absent"]
  /\ laneSequence = [d \in Delivery |-> 0]
  /\ stagedAt = [d \in Delivery |-> 0]
  /\ cleanupPending = [d \in Delivery |-> 0]
  /\ value = [l \in Lane |-> 0]
  /\ publisher = [l \in Lane |-> None]
  /\ tailRow = [l \in Lane |-> None]
  /\ cleanup = [l \in Lane |-> 0]
  /\ account = [u \in User |-> "active"]
  /\ marker = [u \in User |-> "none"]
  /\ purged = [u \in User |-> {}]
  /\ now = 1
  /\ requeues = 0
  /\ rollbacks = 0
  /\ losses = 0
  /\ pc = [c \in Call |-> "idle"]
  /\ row = [c \in Call |-> None]
  /\ lane = [c \in Call |-> None]
  /\ snap = [c \in Call |-> Blank]
  /\ next = [c \in Call |-> None]

-----------------------------------------------------------------------------
(* Program counters. *)

Goto(c, s) == /\ pc' = [pc EXCEPT ![c] = s]
              /\ UNCHANGED <<row, lane, snap, next>>

Return(c) == /\ pc' = [pc EXCEPT ![c] = "idle"]
             /\ row' = [row EXCEPT ![c] = None]
             /\ lane' = [lane EXCEPT ![c] = None]
             /\ snap' = [snap EXCEPT ![c] = Blank]
             /\ next' = [next EXCEPT ![c] = None]

\* A call starts (or loops) at step s with nothing read.
Begin(c, s, d, l) == /\ pc' = [pc EXCEPT ![c] = s]
                     /\ row' = [row EXCEPT ![c] = d]
                     /\ lane' = [lane EXCEPT ![c] = l]
                     /\ snap' = [snap EXCEPT ![c] = Blank]
                     /\ next' = [next EXCEPT ![c] = None]

\* recoverLanePublisher returns: to the loop of publishStagedDelivery, or to
\* the maintenance scan, which has no row of its own.
Continue(c) == IF row[c] = None THEN Return(c)
               ELSE Begin(c, "load", row[c], lane[c])

Tick == /\ now < MaxTime
        /\ now' = now + 1
        /\ UNCHANGED <<rowVars, laneVars, userVars, requeues, rollbacks, losses, callVars>>

\* The process of a call dies, or one of its database operations throws.
Vanish(c) == /\ pc[c] # "idle"
             /\ losses < MaxLosses
             /\ losses' = losses + 1
             /\ Return(c)
             /\ UNCHANGED <<rowVars, laneVars, userVars, now, requeues, rollbacks>>

-----------------------------------------------------------------------------
(* Calls start. *)

\* service.enqueue found the principal active; the row is created later.
StartEnqueue(c, d) ==
  /\ pc[c] = "idle"
  /\ account[UserOf(d)] = "active"
  /\ status[d] = "absent"
  /\ Begin(c, "create", d, LaneOf[d])
  /\ UNCHANGED <<rowVars, laneVars, userVars, bounds>>

\* The unique key decides: insert the staging row, help the one another call
\* inserted, or return the published one.
Create(c) ==
  /\ pc[c] = "create"
  /\ LET d == row[c] IN
     \/ /\ status[d] = "absent"
        /\ status' = [status EXCEPT ![d] = "staging"]
        /\ laneSequence' = [laneSequence EXCEPT ![d] = 0]
        /\ stagedAt' = [stagedAt EXCEPT ![d] = now]
        /\ cleanupPending' = [cleanupPending EXCEPT ![d] = 0]
        /\ Goto(c, "load")
     \/ /\ status[d] = "staging"
        /\ Goto(c, "load")
        /\ UNCHANGED rowVars
     \/ /\ status[d] \notin {"absent", "staging"}
        /\ Return(c)
        /\ UNCHANGED rowVars
  /\ UNCHANGED <<laneVars, userVars, bounds>>

\* Maintenance, or a replayed enqueue, helps a staging row.
HelpStaged(c, d) ==
  /\ pc[c] = "idle"
  /\ status[d] = "staging"
  /\ Begin(c, "load", d, LaneOf[d])
  /\ UNCHANGED <<rowVars, laneVars, userVars, bounds>>

\* recoverAgentTriggerLanePublications, first pass: a reserved lane.
RecoverLane(c, l) ==
  /\ pc[c] = "idle"
  /\ Exists(l) /\ publisher[l] # None
  /\ pc' = [pc EXCEPT ![c] = "laneMarker"]
  /\ lane' = [lane EXCEPT ![c] = l]
  /\ snap' = [snap EXCEPT ![c] = Document(l)]
  /\ UNCHANGED <<row, next, rowVars, laneVars, userVars, bounds>>

\* requeueAgentTriggerDelivery
Requeue(c, d) ==
  /\ pc[c] = "idle"
  /\ status[d] = "dead"
  /\ requeues < MaxRequeues
  /\ requeues' = requeues + 1
  /\ status' = [status EXCEPT ![d] = "staging"]
  /\ laneSequence' = [laneSequence EXCEPT ![d] = 0]
  /\ stagedAt' = [stagedAt EXCEPT ![d] = now]
  /\ cleanupPending' = [cleanupPending EXCEPT ![d] = 0]
  /\ Begin(c, "load", d, LaneOf[d])
  /\ UNCHANGED <<laneVars, userVars, now, rollbacks, losses>>

-----------------------------------------------------------------------------
(* publishStagedDelivery: one turn of its loop. *)

LoadRow(c) ==
  /\ pc[c] = "load"
  /\ IF status[row[c]] = "staging" THEN Goto(c, "marker") ELSE Return(c)
  /\ UNCHANGED <<rowVars, laneVars, userVars, bounds>>

CheckMarker(c) ==
  /\ pc[c] = "marker"
  /\ IF Marked(UserOf(row[c])) THEN Return(c) ELSE Goto(c, "lane")
  /\ UNCHANGED <<rowVars, laneVars, userVars, bounds>>

\* Mutant: a reserved lane is left to the call that reserved it.
ReadLaneWithoutHelp(c) ==
  /\ pc[c] = "lane"
  /\ IF publisher[lane[c]] = None THEN Goto(c, "select") ELSE Return(c)
  /\ UNCHANGED <<rowVars, laneVars, userVars, bounds>>

\* A reserved lane is helped before anything is selected.
ReadLane(c) ==
  /\ pc[c] = "lane"
  /\ IF publisher[lane[c]] = None
     THEN Goto(c, "select")
     ELSE /\ pc' = [pc EXCEPT ![c] = "laneMarker"]
          /\ snap' = [snap EXCEPT ![c] = Document(lane[c])]
          /\ UNCHANGED <<row, lane, next>>
  /\ UNCHANGED <<rowVars, laneVars, userVars, bounds>>

CheckLaneMarker(c) ==
  /\ pc[c] = "laneMarker"
  /\ IF Marked(OwnerOf[lane[c]]) THEN Return(c) ELSE Goto(c, "publish")
  /\ UNCHANGED <<rowVars, laneVars, userVars, bounds>>

SelectOldest(c) ==
  /\ pc[c] = "select"
  /\ IF Staged(lane[c]) = {}
     THEN Begin(c, "load", row[c], lane[c])
     ELSE /\ pc' = [pc EXCEPT ![c] = "acquire"]
          /\ next' = [next EXCEPT ![c] = Oldest(lane[c])]
          /\ UNCHANGED <<row, lane, snap>>
  /\ UNCHANGED <<rowVars, laneVars, userVars, bounds>>

\* Mutant: the upsert's filter forgets the reservation.
MayReserveAlways(l) == TRUE

\* The upsert's filter: {_id, publisherDeliveryId: {$exists: false}}.
MayReserve(l) == publisher[l] = None

\* The upsert: reserve the next sequence for the selected row, creating the
\* document if need be; a reserved lane makes it fail on the duplicate _id.
Acquire(c) ==
  /\ pc[c] = "acquire"
  /\ LET l == lane[c] IN
     \/ /\ MayReserve(l)
        /\ value[l] < MaxSeq
        /\ value' = [value EXCEPT ![l] = @ + 1]
        /\ publisher' = [publisher EXCEPT ![l] = next[c]]
        /\ cleanup' = [cleanup EXCEPT ![l] = 0]
        /\ UNCHANGED tailRow
        /\ snap' = [snap EXCEPT ![c] =
             [value |-> value[l] + 1, publisher |-> next[c],
              tail |-> tailRow[l], cleanup |-> 0]]
        /\ pc' = [pc EXCEPT ![c] = "recheck"]
        /\ UNCHANGED <<row, lane, next>>
     \/ /\ ~MayReserve(l)
        /\ Begin(c, "load", row[c], l)
        /\ UNCHANGED laneVars
  /\ UNCHANGED <<rowVars, userVars, bounds>>

\* The marker may have appeared between the first check and the upsert.
Recheck(c) ==
  /\ pc[c] = "recheck"
  /\ Goto(c, IF Marked(UserOf(next[c])) THEN "withdraw" ELSE "publish")
  /\ UNCHANGED <<rowVars, laneVars, userVars, bounds>>

-----------------------------------------------------------------------------
(* recoverLanePublisher and abandonLanePublisher. *)

\* The row leaves staging with the reserved sequence, whoever reserved it.
PublishReserved(c) ==
  /\ pc[c] = "publish"
  /\ LET d == snap[c].publisher IN
     IF status[d] = "staging"
     THEN /\ status' = [status EXCEPT ![d] = "pending"]
          /\ laneSequence' = [laneSequence EXCEPT ![d] = snap[c].value]
          /\ UNCHANGED <<stagedAt, cleanupPending>>
          /\ Goto(c, "release")
     ELSE /\ Goto(c, "reread")
          /\ UNCHANGED rowVars
  /\ UNCHANGED <<laneVars, userVars, bounds>>

\* Mutant: only the call's own update counts as publication.
CommittedByThisCall(c) == FALSE

\* The row read after a failed update was published under this reservation.
Committed(c) == LET d == snap[c].publisher IN
  /\ status[d] \notin {"absent", "staging"}
  /\ laneSequence[d] = snap[c].value

\* Was it published by another call?  A row that is in staging again throws.
Reread(c) ==
  /\ pc[c] = "reread"
  /\ IF status[snap[c].publisher] = "staging" THEN Return(c)
     ELSE Goto(c, IF Committed(c) THEN "release" ELSE "abandon")
  /\ UNCHANGED <<rowVars, laneVars, userVars, bounds>>

ReleasePublisher(c) ==
  /\ pc[c] = "release"
  /\ IF PublisherFence(c)
     THEN /\ tailRow' = [tailRow EXCEPT ![lane[c]] = snap[c].publisher]
          /\ publisher' = [publisher EXCEPT ![lane[c]] = None]
          /\ UNCHANGED <<value, cleanup>>
     ELSE UNCHANGED laneVars
  /\ Continue(c)
  /\ UNCHANGED <<rowVars, userVars, bounds>>

DropLane(l) == /\ value' = [value EXCEPT ![l] = 0]
               /\ publisher' = [publisher EXCEPT ![l] = None]
               /\ tailRow' = [tailRow EXCEPT ![l] = None]
               /\ cleanup' = [cleanup EXCEPT ![l] = 0]

\* Mutant: the sequence is given back without looking whose it is.
AbandonUnfenced(c) ==
  /\ pc[c] \in {"withdraw", "abandon"}
  /\ value' = [value EXCEPT ![lane[c]] = @ - 1]
  /\ publisher' = [publisher EXCEPT ![lane[c]] = None]
  /\ cleanup' = [cleanup EXCEPT ![lane[c]] = now]
  /\ UNCHANGED tailRow
  /\ IF pc[c] = "withdraw" THEN Return(c) ELSE Continue(c)
  /\ UNCHANGED <<rowVars, userVars, bounds>>

\* Give the reserved sequence back: delete a document that only held it, or
\* decrement and ask for a cleanup.  After the recheck the call returns;
\* inside recoverLanePublisher it goes on.
AbandonPublisher(c) ==
  /\ pc[c] \in {"withdraw", "abandon"}
  /\ \/ /\ PublisherFence(c)
        /\ snap[c].value = 1
        /\ DropLane(lane[c])
     \/ /\ PublisherFence(c)
        /\ snap[c].value > 1
        /\ value' = [value EXCEPT ![lane[c]] = @ - 1]
        /\ publisher' = [publisher EXCEPT ![lane[c]] = None]
        /\ cleanup' = [cleanup EXCEPT ![lane[c]] = now]
        /\ UNCHANGED tailRow
     \/ /\ ~PublisherFence(c)
        /\ UNCHANGED laneVars
  /\ IF pc[c] = "withdraw" THEN Return(c) ELSE Continue(c)
  /\ UNCHANGED <<rowVars, userVars, bounds>>

-----------------------------------------------------------------------------
(* Settlement (the runner) and reclamation. *)

Earlier(d) == {e \in Delivery : /\ LaneOf[e] = LaneOf[d]
                                /\ status[e] = "pending"
                                /\ laneSequence[e] < laneSequence[d]}

\* completeAgentTriggerDelivery; the cleanup request follows in the same call.
Succeed(c, d) ==
  /\ pc[c] = "idle"
  /\ status[d] = "pending" /\ Earlier(d) = {}
  /\ status' = [status EXCEPT ![d] = "succeeded"]
  /\ cleanupPending' = [cleanupPending EXCEPT ![d] = now]
  /\ pc' = [pc EXCEPT ![c] = "requestCleanup"]
  /\ row' = [row EXCEPT ![c] = d]
  /\ lane' = [lane EXCEPT ![c] = LaneOf[d]]
  /\ snap' = [snap EXCEPT ![c].cleanup = now]
  /\ UNCHANGED <<laneSequence, stagedAt, next, laneVars, userVars, bounds>>

DeadLetter(d) ==
  /\ status[d] = "pending" /\ Earlier(d) = {}
  /\ status' = [status EXCEPT ![d] = "dead"]
  /\ UNCHANGED <<laneSequence, stagedAt, cleanupPending, laneVars, userVars, bounds,
                 callVars>>

\* reclaimInactiveAgentTriggerLanes: a request a completion did not deliver.
PickPendingCleanup(c, d) ==
  /\ pc[c] = "idle"
  /\ status[d] = "succeeded" /\ cleanupPending[d] # 0
  /\ pc' = [pc EXCEPT ![c] = "requestCleanup"]
  /\ row' = [row EXCEPT ![c] = d]
  /\ lane' = [lane EXCEPT ![c] = LaneOf[d]]
  /\ snap' = [snap EXCEPT ![c].cleanup = cleanupPending[d]]
  /\ UNCHANGED <<next, rowVars, laneVars, userVars, bounds>>

\* reclaimInactiveAgentTriggerLanes: a lane that asks for it.
PickLane(c, l) ==
  /\ pc[c] = "idle"
  /\ cleanup[l] # 0
  /\ Begin(c, "reclaim", None, l)
  /\ UNCHANGED <<rowVars, laneVars, userVars, bounds>>

\* fulfillLaneCleanupRequest
RequestCleanup(c) ==
  /\ pc[c] = "requestCleanup"
  /\ IF Exists(lane[c])
     THEN cleanup' = [cleanup EXCEPT ![lane[c]] = snap[c].cleanup]
     ELSE UNCHANGED cleanup
  /\ Goto(c, "clearPending")
  /\ UNCHANGED <<value, publisher, tailRow, rowVars, userVars, bounds>>

ClearPending(c) ==
  /\ pc[c] = "clearPending"
  /\ IF status[row[c]] = "succeeded" /\ cleanupPending[row[c]] = snap[c].cleanup
     THEN cleanupPending' = [cleanupPending EXCEPT ![row[c]] = 0]
     ELSE UNCHANGED cleanupPending
  /\ Begin(c, "reclaim", None, lane[c])
  /\ UNCHANGED <<status, laneSequence, stagedAt, laneVars, userVars, bounds>>

\* reclaimLaneIfInactive: read the request, look for retained rows, then take
\* the request back or delete the document if nothing happened in between.
ReadRequest(c) ==
  /\ pc[c] = "reclaim"
  /\ IF cleanup[lane[c]] = 0 THEN Return(c)
     ELSE /\ pc' = [pc EXCEPT ![c] = "retained"]
          /\ snap' = [snap EXCEPT ![c] = Document(lane[c])]
          /\ UNCHANGED <<row, lane, next>>
  /\ UNCHANGED <<rowVars, laneVars, userVars, bounds>>

\* Mutant: dead letters do not retain their lane.
RetainedUnsettled(l) == {d \in Delivery : /\ LaneOf[d] = l
                                          /\ status[d] \in {"staging", "pending"}}

\* What keeps a lane document: a leased row counts as pending here.
Retained(l) == {d \in Delivery : /\ LaneOf[d] = l
                                 /\ status[d] \in {"staging", "pending", "dead"}}

CheckRetained(c) ==
  /\ pc[c] = "retained"
  /\ Goto(c, IF Retained(lane[c]) = {} THEN "delete" ELSE "unrequest")
  /\ UNCHANGED <<rowVars, laneVars, userVars, bounds>>

Unrequest(c) ==
  /\ pc[c] = "unrequest"
  /\ cleanup' = [cleanup EXCEPT ![lane[c]] =
                   IF @ = snap[c].cleanup THEN 0 ELSE @]
  /\ Return(c)
  /\ UNCHANGED <<value, publisher, tailRow, rowVars, userVars, bounds>>

\* The filter of the delete: tail, request and no reservation.
DeleteFence(c) == /\ tailRow[lane[c]] = snap[c].tail
                  /\ cleanup[lane[c]] = snap[c].cleanup
                  /\ publisher[lane[c]] = None

DeleteLane(c) ==
  /\ pc[c] = "delete"
  /\ IF DeleteFence(c) THEN DropLane(lane[c]) ELSE UNCHANGED laneVars
  /\ Return(c)
  /\ UNCHANGED <<rowVars, userVars, bounds>>

-----------------------------------------------------------------------------
(* Account deletion: fence, marker, commit, purge; or rollback. *)

\* A step of the deletion of u's account.
Deletion(u, from, to) == /\ account[u] = from
                         /\ account' = [account EXCEPT ![u] = to]

BeginDeletion(u) ==
  /\ u \in Deletable
  /\ Deletion(u, "active", "fenced")
  /\ UNCHANGED <<marker, purged, rowVars, laneVars, bounds, callVars>>

ArmPurge(u) ==
  /\ Deletion(u, "fenced", "armed")
  /\ marker' = [marker EXCEPT ![u] = "current"]
  /\ UNCHANGED <<purged, rowVars, laneVars, bounds, callVars>>

\* The deletion failed before its commit: the marker is disarmed first (which
\* may fail and is only logged), then the fence is released.
DisarmPurge(u) ==
  /\ rollbacks < MaxRollbacks
  /\ rollbacks' = rollbacks + 1
  /\ Deletion(u, "fenced", "cancelling") \/ Deletion(u, "armed", "cancelling")
  /\ \/ UNCHANGED marker
     \/ marker[u] = "current" /\ marker' = [marker EXCEPT ![u] = "none"]
  /\ UNCHANGED <<purged, rowVars, laneVars, now, requeues, losses, callVars>>

CancelDeletion(u) ==
  /\ Deletion(u, "cancelling", "active")
  /\ marker' = [marker EXCEPT ![u] = IF @ = "current" THEN "stale" ELSE @]
  /\ UNCHANGED <<purged, rowVars, laneVars, bounds, callVars>>

\* Mutant: recovery looks at the markers of users who are gone only.
DropMarkerOfTheGone(u) ==
  /\ marker[u] = "stale" /\ account[u] = "gone"
  /\ marker' = [marker EXCEPT ![u] = "none"]
  /\ UNCHANGED <<account, purged, rowVars, laneVars, bounds, callVars>>

\* recoverAgentTriggerUserPurges: the user exists under another fence or none.
DropStaleMarker(u) ==
  /\ marker[u] = "stale"
  /\ marker' = [marker EXCEPT ![u] = "none"]
  /\ UNCHANGED <<account, purged, rowVars, laneVars, bounds, callVars>>

CommitDeletion(u) ==
  /\ Deletion(u, "armed", "gone")
  /\ UNCHANGED <<marker, purged, rowVars, laneVars, bounds, callVars>>

\* deleteAgentTriggerDeliveriesByUser, by the deletion or by the recovery of
\* its marker: both deleteMany in any order, then the marker.
PurgeRows(u) ==
  /\ account[u] = "gone" /\ Marked(u)
  /\ LET D == {d \in Delivery : UserOf(d) = u}
         Reset(f, v) == [d \in Delivery |-> IF d \in D THEN v ELSE f[d]] IN
     /\ status' = Reset(status, "absent")
     /\ laneSequence' = Reset(laneSequence, 0)
     /\ stagedAt' = Reset(stagedAt, 0)
     /\ cleanupPending' = Reset(cleanupPending, 0)
  /\ purged' = [purged EXCEPT ![u] = @ \cup {"rows"}]
  /\ UNCHANGED <<account, marker, laneVars, bounds, callVars>>

PurgeLanes(u) ==
  /\ account[u] = "gone" /\ Marked(u)
  /\ LET Reset(f, v) == [l \in Lane |-> IF OwnerOf[l] = u THEN v ELSE f[l]] IN
     /\ value' = Reset(value, 0)
     /\ publisher' = Reset(publisher, None)
     /\ tailRow' = Reset(tailRow, None)
     /\ cleanup' = Reset(cleanup, 0)
  /\ purged' = [purged EXCEPT ![u] = @ \cup {"lanes"}]
  /\ UNCHANGED <<account, marker, rowVars, bounds, callVars>>

FinishPurge(u) ==
  /\ purged[u] = {"rows", "lanes"}
  /\ marker' = [marker EXCEPT ![u] = "none"]
  /\ purged' = [purged EXCEPT ![u] = {}]
  /\ UNCHANGED <<account, rowVars, laneVars, bounds, callVars>>

-----------------------------------------------------------------------------
Start(c) == \/ \E d \in Delivery : \/ StartEnqueue(c, d) \/ HelpStaged(c, d)
                                   \/ Requeue(c, d) \/ Succeed(c, d)
                                   \/ PickPendingCleanup(c, d)
            \/ \E l \in Lane : RecoverLane(c, l) \/ PickLane(c, l)

Advance(c) == \/ Create(c) \/ LoadRow(c) \/ CheckMarker(c) \/ ReadLane(c)
              \/ CheckLaneMarker(c) \/ SelectOldest(c) \/ Acquire(c) \/ Recheck(c)
              \/ PublishReserved(c) \/ Reread(c) \/ ReleasePublisher(c)
              \/ AbandonPublisher(c) \/ RequestCleanup(c) \/ ClearPending(c)
              \/ ReadRequest(c) \/ CheckRetained(c) \/ Unrequest(c) \/ DeleteLane(c)

Delete(u) == \/ BeginDeletion(u) \/ ArmPurge(u) \/ DisarmPurge(u)
             \/ CancelDeletion(u) \/ DropStaleMarker(u) \/ CommitDeletion(u)
             \/ PurgeRows(u) \/ PurgeLanes(u) \/ FinishPurge(u)

Next == \/ \E c \in Call : Start(c) \/ Advance(c) \/ Vanish(c)
        \/ \E d \in Delivery : DeadLetter(d)
        \/ \E u \in User : Delete(u)
        \/ Tick

Spec == Init /\ [][Next]_vars

\* A call that has started goes on (or vanishes); maintenance runs every
\* purgeRecoveryIntervalMs on every replica and gets round to every staging
\* row and every leftover marker.
FairSpec == /\ Spec
            /\ \A c \in Call : WF_vars(Advance(c))
            /\ \A d \in Delivery : SF_vars(\E c \in Call : HelpStaged(c, d))
            /\ \A u \in User : WF_vars(DropStaleMarker(u))

-----------------------------------------------------------------------------
(* Properties. *)

\* The counter of a lane covers every published row of it, also while a
\* reservation is being withdrawn or the lane is being reclaimed: the next
\* reservation is above all of them.  From the purge marker on it need not:
\* the purge may remove the lanes before the rows, and a call it overtook may
\* publish a row of an account that is gone.
CounterCoversLane ==
  \A d \in Delivery :
    /\ status[d] \in {"pending", "dead"}
    /\ ~Marked(UserOf(d)) /\ account[UserOf(d)] # "gone"
    => laneSequence[d] <= value[LaneOf[d]]

\* No two deliveries waiting in a lane share a sequence: neither would see the
\* other as earlier, and both would run at once.
SequencesDiffer ==
  \A d, e \in Delivery :
    /\ d # e /\ LaneOf[d] = LaneOf[e]
    /\ status[d] = "pending" /\ status[e] = "pending"
    /\ account[UserOf(d)] # "gone"
    => laneSequence[d] # laneSequence[e]

\* While store calls do not overlap, a row of an account that exists is
\* published as the tail of its lane: also by a call that finds a reservation a
\* lost call left, after a requeue, and after a deletion that was given up.
\* Two overlapping calls and a requeue break this (README, section 7), and with
\* it what triggers/README.md:58-60 says of a lane.
PublishedAtTail ==
  [][\A d \in Delivery :
       /\ status[d] = "staging" /\ status'[d] = "pending"
       /\ account[UserOf(d)] # "gone"
       => \A e \in Delivery : LaneOf[e] = LaneOf[d] /\ status[e] = "pending" =>
            laneSequence[e] < laneSequence'[d]]_vars

\* A durable staging row does not stay invisible: whatever call disappeared
\* between insert, reservation and publication, the row is published, unless a
\* deletion of its account gets in the way.
StagedIsPublished ==
  \A d \in Delivery :
    status[d] = "staging" ~>
      status[d] # "staging" \/ account[UserOf(d)] # "active"

\* The rows seen as the promise of LaneOrder; the rows of an account are
\* forgotten from the commit of its deletion on, whatever the purge still does.
Forgotten(d) == account[UserOf(d)] = "gone"

Promise == INSTANCE LaneOrder WITH
  place <- [d \in Delivery |-> IF Forgotten(d) THEN "absent"
                               ELSE IF status[d] = "pending" THEN "queued"
                               ELSE status[d]],
  seq <- [d \in Delivery |-> IF Forgotten(d) THEN 0 ELSE laneSequence[d]],
  Sequence <- 1 .. MaxSeq

KeepsPromise == Promise!Spec
=============================================================================
