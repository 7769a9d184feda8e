------------------------ MODULE SubagentThreadsProofs ------------------------
(***************************************************************************)
(* Theorems about SubagentThreads, for every set of tasks, threads and     *)
(* deletions, every time to live and window, and any number of faults.     *)
(***************************************************************************)
EXTENDS SubagentThreads, TLAPS

-----------------------------------------------------------------------------
(* Types.                                                                  *)

\* A task waits for its own renewal only where it asks for one, and renews
\* only a lease it has.
RenewalInv ==
  \A c \in Task :
    /\ renewal[c]["main"] # Quiet => task[c].pc \in Renewing /\ task[c].shared
    /\ renewal[c]["beat"] # Quiet => task[c].shared

TypeInv == TypeOK /\ RenewalInv

LEMMA TypeInit == Init => TypeInv
  BY SubagentAssumption
     DEF Init, TypeInv, TypeOK, RenewalInv, Conv, Late, Time, Fresh, TaskState, TaskPc,
         Status, Renewal, Quiet, NoLease, Slot, Unstarted, DeletionState, DeletionPc,
         NoBeat, Beat

\* TypeInv without the count of faults.
Typed ==
  /\ now \in Time
  /\ exists \subseteq Conv
  /\ lease \in [Thread -> [token : Task \cup {None}, until : Late]]
  /\ fences \in [Deletion -> Late]
  /\ input \subseteq Task
  /\ result \in [Task -> Status]
  /\ task \in [Task -> TaskState]
  /\ renewal \in [Task -> [Slot -> Renewal]]
  /\ deletion \in [Deletion -> DeletionState]
  /\ beat \in [Deletion -> Beat]
  /\ kept \subseteq Task
  /\ RenewalInv

LEMMA TypedIs == TypeInv <=> Typed /\ faults \in 0 .. MaxFaults
  BY DEF TypeInv, TypeOK, Typed

LEMMA Numbers ==
  /\ Ttl \in Nat /\ Window \in Nat /\ MaxTime \in Nat /\ MaxFaults \in Nat
  /\ Ttl > 0 /\ Window > 0
  /\ 0 \in Time /\ 0 \in Late
<1>1. Ttl \in Nat /\ Window \in Nat /\ MaxTime \in Nat /\ MaxFaults \in Nat
  BY SubagentAssumption
<1> QED
  BY <1>1, SubagentAssumption DEF Time, Late

LEMMA TimesAreTyped ==
  \A t \in Time : t + Ttl \in Late /\ t + Window \in Late /\ t \in Late
  BY SubagentAssumption DEF Time, Late

LEMMA RescueType ==
  ASSUME NEW c \in Task, Typed
  PROVE  /\ Rescue(c) \in TaskPc
         /\ task[c].pc \in Renewing => Rescue(c) = task[c].pc
<1>1. task[c].pc \in TaskPc
  BY DEF Typed, TaskState
<1> QED
  BY <1>1 DEF Rescue, TaskPc, Renewing

LEMMA RenewedType ==
  ASSUME NEW c \in Task, Typed, task[c].pc \in Renewing, NEW ok \in BOOLEAN
  PROVE  /\ Renewed(c, ok) \in TaskState
         /\ Renewed(c, ok).shared = task[c].shared
         /\ Renewed(c, ok).until = task[c].until
         /\ Renewed(c, ok).at = task[c].at
         /\ Renewed(c, ok).pc \in {"run", "failing", "settle", "releasing"}
         /\ Renewed(c, ok).pc = "run" => ok
         /\ ~ok => Renewed(c, ok).pc \in {"failing", "releasing"}
         /\ ~ok /\ task[c].pc = "failing" => Renewed(c, ok).pc = "releasing"
<1>1. task[c] \in TaskState
  BY DEF Typed
<1> QED
  BY <1>1 DEF Renewed, Renewing, TaskState, TaskPc, Status

\* A task that goes elsewhere, from where it has no renewal under way.
LEMMA GotoType ==
  ASSUME NEW c \in Task, Typed, task[c].pc \notin Renewing,
         NEW pc \in TaskPc, Goto(c, pc), UNCHANGED renewal
  PROVE  task' \in [Task -> TaskState] /\ RenewalInv'
<1>1. task \in [Task -> TaskState]
  BY DEF Typed
<1>2. task' = [task EXCEPT ![c] = [task[c] EXCEPT !.pc = pc]]
  BY <1>1 DEF Goto, TaskState
<1>3. [task[c] EXCEPT !.pc = pc] \in TaskState
  BY <1>1 DEF TaskState
<1>4. \A e \in Task : task'[e].shared = task[e].shared
                        /\ (e # c => task'[e] = task[e]) /\ task'[c].pc = pc
  BY <1>1, <1>2, <1>3 DEF TaskState
<1> QED
  BY <1>1, <1>2, <1>3, <1>4 DEF Typed, RenewalInv

LEMMA DocsType ==
  ASSUME Typed, NEW C \in SUBSET Conv
  PROVE  DeleteConvs(C) => /\ exists' \subseteq Conv
                           /\ lease' \in [Thread -> [token : Task \cup {None}, until : Late]]
  BY SubagentAssumption DEF Typed, DeleteConvs, NoLease, Late

LEMMA RowsType ==
  ASSUME Typed, NEW C
  PROVE  ForgetRows(C) => input' \subseteq Task /\ result' \in [Task -> Status]
  BY DEF Typed, ForgetRows, Status


\* Steps of a task that only move it.
Move(c) ==
  \/ ProbeOwner(c) \/ ReadParent(c) \/ Recheck(c) \/ ReadTranscript(c) \/ ParentAgain(c)
  \/ RunEnds(c) \/ Settle(c) \/ CallFails(c)

LEMMA MoveType ==
  ASSUME NEW c \in Task, Typed, Move(c)
  PROVE  Typed'
<1>1. task[c].pc \notin Renewing
  BY DEF Move, ProbeOwner, ReadParent, Recheck, ReadTranscript, ParentAgain, RunEnds,
         Settle, CallFails, Renewing, At, Rescue
<1>2. PICK pc \in TaskPc : Goto(c, pc)
  <2>1. CASE RunEnds(c)
    BY <2>1 DEF RunEnds, TaskPc
  <2>2. CASE Settle(c) \/ CallFails(c)
    BY <2>2, RescueType DEF Settle, CallFails, TaskPc
  <2>3. CASE ProbeOwner(c) \/ ReadParent(c)
    BY <2>3 DEF ProbeOwner, ReadParent, TaskPc
  <2>4. CASE Recheck(c) \/ ReadTranscript(c) \/ ParentAgain(c)
    BY <2>4 DEF Recheck, ReadTranscript, ParentAgain, TaskPc
  <2> QED
    BY <2>1, <2>2, <2>3, <2>4 DEF Move
<1>3. UNCHANGED <<now, docs, fences, rows, renewal, deletionVars, kept>>
  BY DEF Move, ProbeOwner, ReadParent, Recheck, ReadTranscript, ParentAgain, RunEnds,
         Settle, CallFails
<1> QED
  BY <1>1, <1>2, <1>3, GotoType DEF Typed, docs, rows, deletionVars

\* Steps of a task that also write conversations, leases or rows.
Write(c) ==
  \/ SendAcquire(c) \/ AcquireRefused(c) \/ Rollback(c) \/ Orphan(c) \/ Touch(c)
  \/ Release(c)
  \/ \E heard \in BOOLEAN : \/ Reserve(c, heard) \/ Acquire(c, heard)
                            \/ Close(c, heard) \/ Seed(c, heard) \/ Save(c, heard)

LEMMA WriteType ==
  ASSUME NEW c \in Task, Typed, Write(c)
  PROVE  Typed'
<1> USE DEF docs, rows, deletionVars, taskVars
<1>1. ThreadOf[c] \in Thread /\ {ThreadOf[c]} \in SUBSET Conv
  BY SubagentAssumption DEF Conv
<1>2. task[c].pc \notin Renewing => renewal[c]["main"] = Quiet
  BY DEF Typed, RenewalInv
<1>3. CASE SendAcquire(c) \/ AcquireRefused(c)
  <2> DEFINE S(pc, at) == [task[c] EXCEPT !.pc = pc, !.at = at]
  <2>0. S("acquiring", now) \in TaskState /\ S("failing", 0) \in TaskState
    BY Numbers, ZenonT(30) DEF Typed, TaskState, TaskPc
  <2>1. task' \in [Task -> TaskState]
    <3>1. task' \in {[task EXCEPT ![c] = S("acquiring", now)], [task EXCEPT ![c] = S("failing", 0)]}
      BY <1>3 DEF SendAcquire, AcquireRefused, Typed
    <3> HIDE DEF S
    <3> QED
      BY <2>0, <3>1 DEF Typed
  <2>2. RenewalInv'
    BY <1>2, <1>3, <2>1 DEF SendAcquire, AcquireRefused, Typed, TaskState, RenewalInv, At,
                      Renewing
  <2> QED
    BY <1>3, <2>1, <2>2 DEF SendAcquire, AcquireRefused, Typed
<1>4. CASE Rollback(c)
  <2>1. exists' \subseteq Conv /\ lease' \in [Thread -> [token : Task \cup {None}, until : Late]]
    BY <1>1, <1>4, DocsType DEF Rollback, DeleteThread, Typed
  <2>2. input' \subseteq Task /\ result' \in [Task -> Status]
    BY <1>4, RowsType DEF Rollback, DeleteThread
  <2>3. task' \in [Task -> TaskState] /\ RenewalInv'
    BY <1>4, GotoType DEF Rollback, At, Renewing, TaskPc
  <2> QED
    BY <1>4, <2>1, <2>2, <2>3 DEF Rollback, Typed
<1>5. CASE Orphan(c)
  <2>1. exists' \subseteq Conv /\ lease' \in [Thread -> [token : Task \cup {None}, until : Late]]
    BY <1>1, <1>5, DocsType DEF Orphan, DeleteThread
  <2>2. input' \subseteq Task /\ result' \in [Task -> Status]
    BY <1>5, RowsType DEF Orphan, DeleteThread
  <2>3. task' \in [Task -> TaskState] /\ RenewalInv'
    BY <1>5, GotoType, RescueType DEF Orphan, At, Renewing
  <2> QED
    BY <1>5, <2>1, <2>2, <2>3 DEF Orphan, Typed
<1>6. CASE Touch(c)
  <2>1. input' \subseteq Task /\ result' \in [Task -> Status]
    BY <1>6, RowsType DEF Touch, Typed
  <2>2. task' \in [Task -> TaskState] /\ RenewalInv'
    BY <1>6, GotoType DEF Touch, At, Renewing, TaskPc
  <2> QED
    BY <1>6, <2>1, <2>2 DEF Touch, Typed
<1>7. CASE Release(c)
  <2>1. lease' \in [Thread -> [token : Task \cup {None}, until : Late]]
    BY <1>1, <1>7, SubagentAssumption DEF Release, Typed, NoLease, Late
  <2>2. task' \in [Task -> TaskState]
    <3>1. [Fresh EXCEPT !.pc = "ended"] \in TaskState
      BY Numbers DEF TaskState, TaskPc, Fresh, Status
    <3> QED
      BY <1>7, <3>1 DEF Release, Typed
  <2>3. RenewalInv'
    BY <1>2, <1>7, <2>2 DEF Release, Typed, RenewalInv, At, Renewing
  <2> QED
    BY <1>7, <2>1, <2>2, <2>3 DEF Release, Typed
<1>8. ASSUME NEW heard \in BOOLEAN, Reserve(c, heard)
      PROVE  Typed'
  <2> DEFINE S(pc, made) == [task[c] EXCEPT !.pc = pc, !.made = made]
  <2>0. \A made \in BOOLEAN : S("acquire", made) \in TaskState /\ S("failing", made) \in TaskState
    BY ZenonT(30) DEF Typed, TaskState, TaskPc
  <2>1. task' \in [Task -> TaskState]
    <3> DEFINE made == heard /\ ThreadOf[c] \notin exists
    <3>1. task' = [task EXCEPT ![c] = S(IF heard THEN "acquire" ELSE "failing", made)]
      BY <1>8 DEF Reserve, Typed
    <3>2. made \in BOOLEAN
      OBVIOUS
    <3> HIDE DEF S, made
    <3> QED
      BY <2>0, <3>1, <3>2 DEF Typed
  <2>2. RenewalInv'
    BY <1>2, <1>8, <2>1 DEF Reserve, Typed, TaskState, RenewalInv, At, Renewing
  <2> QED
    BY <1>1, <1>8, <2>1, <2>2 DEF Reserve, Typed
<1>9. ASSUME NEW heard \in BOOLEAN, Acquire(c, heard)
      PROVE  Typed'
  <2>1. task[c] \in TaskState /\ task[c].at + Ttl \in Late
    BY TimesAreTyped DEF Typed, TaskState
  <2> DEFINE got == [task[c] EXCEPT !.pc = "recheck", !.at = 0, !.shared = TRUE,
                                    !.until = task[c].at + Ttl]
             not == [task[c] EXCEPT !.pc = "failing", !.at = 0]
  <2>2. task' \in [Task -> TaskState]
    <3>1. got \in TaskState /\ not \in TaskState
      BY <2>1, Numbers DEF TaskState, TaskPc
    <3>2. task' = [task EXCEPT ![c] = IF heard THEN got ELSE not]
      BY <1>9 DEF Acquire, Typed
    <3> HIDE DEF got, not
    <3> QED
      BY <3>1, <3>2 DEF Typed
  <2>3. lease' \in [Thread -> [token : Task \cup {None}, until : Late]]
    BY <1>1, <1>9, <2>1 DEF Acquire, Typed
  <2>4. RenewalInv'
    BY <1>2, <1>9, <2>2, <2>1 DEF Acquire, Typed, TaskState, RenewalInv, At, Renewing
  <2> QED
    BY <1>9, <2>2, <2>3, <2>4 DEF Acquire, Typed
<1>10. ASSUME NEW heard \in BOOLEAN, Close(c, heard) \/ Seed(c, heard) \/ Save(c, heard)
       PROVE  Typed'
  <2>1. task' \in [Task -> TaskState] /\ RenewalInv'
    BY <1>10, GotoType, RescueType
       DEF Close, Seed, Save, Onward, At, Renewing, TaskPc
  <2>2. input' \subseteq Task /\ result' \in [Task -> Status]
    BY <1>10 DEF Close, Seed, Save, WriteResult, Typed, Status, TaskState
  <2>3. kept' \subseteq Task
    BY <1>10 DEF Close, Seed, Save, WriteResult, Typed
  <2> QED
    BY <1>10, <2>1, <2>2, <2>3 DEF Close, Seed, Save, Typed
<1> QED
  BY <1>3, <1>4, <1>5, <1>6, <1>7, <1>8, <1>9, <1>10 DEF Write

\* Steps that renew the lease of a task, and its death.
Keep(c) ==
  \/ NoRenewal(c) \/ OwnerUnread(c) \/ SendRenewal(c) \/ Heartbeat(c) \/ Crash(c)
  \/ \E k \in Slot : Renew(c, k) \/ RenewalFails(c, k) \/ Answered(c, k)

LEMMA SlotType ==
  ASSUME NEW c \in Task, NEW k \in Slot, Typed, NEW r \in Renewal,
         renewal' = [renewal EXCEPT ![c][k] = r]
  PROVE  /\ renewal' \in [Task -> [Slot -> Renewal]]
         /\ renewal'[c][k] = r
         /\ \A e \in Task, j \in Slot : e # c \/ j # k => renewal'[e][j] = renewal[e][j]
<1>1. renewal \in [Task -> [Slot -> Renewal]] /\ renewal[c] \in [Slot -> Renewal]
  BY DEF Typed
<1>2. renewal' = [renewal EXCEPT ![c] = [renewal[c] EXCEPT ![k] = r]]
  BY <1>1
<1>3. [renewal[c] EXCEPT ![k] = r] \in [Slot -> Renewal]
  BY <1>1
<1> QED
  BY <1>1, <1>2, <1>3

LEMMA KeepType ==
  ASSUME NEW c \in Task, Typed, Keep(c)
  PROVE  Typed'
<1> USE DEF docs, rows, deletionVars, taskVars
<1>1. task[c] \in TaskState /\ ThreadOf[c] \in Thread /\ task \in [Task -> TaskState]
  BY SubagentAssumption DEF Typed
<1>2. "main" \in Slot /\ "beat" \in Slot /\ Quiet \in Renewal /\ Refused \in Renewal
      /\ Refused # Quiet
  BY Numbers DEF Slot, Quiet, Refused, Renewal
<1>3. CASE NoRenewal(c) \/ OwnerUnread(c)
  <2>1. PICK ok \in BOOLEAN : task' = [task EXCEPT ![c] = Renewed(c, ok)]
    BY <1>3 DEF NoRenewal, OwnerUnread
  <2>2. task[c].pc \in Renewing /\ renewal[c]["main"] = Quiet
    BY <1>3 DEF NoRenewal, OwnerUnread
  <2>3. Renewed(c, ok) \in TaskState /\ Renewed(c, ok).shared = task[c].shared
    BY <2>2, RenewedType
  <2>4. task' \in [Task -> TaskState] /\ RenewalInv'
    BY <1>1, <1>3, <2>1, <2>2, <2>3 DEF NoRenewal, OwnerUnread, Typed, RenewalInv
  <2> QED
    BY <1>3, <2>4 DEF NoRenewal, OwnerUnread, Typed
<1>4. CASE SendRenewal(c) \/ Heartbeat(c)
  <2> DEFINE r == [stage |-> "sent", at |-> now, deadline |-> task[c].until]
  <2>1. r \in Renewal
    BY <1>1 DEF Renewal, TaskState, Typed
  <2>2. PICK k \in Slot : /\ renewal' = [renewal EXCEPT ![c][k] = r]
                          /\ k = "main" => task[c].pc \in Renewing
    BY <1>2, <1>4 DEF SendRenewal, Heartbeat, Send
  <2>3. task[c].shared
    BY <1>4 DEF SendRenewal, Heartbeat
  <2> HIDE DEF r
  <2>4. renewal' \in [Task -> [Slot -> Renewal]] /\ RenewalInv'
    BY <1>2, <1>4, <2>1, <2>2, <2>3, SlotType
       DEF SendRenewal, Heartbeat, Typed, RenewalInv
  <2> QED
    BY <1>4, <2>4 DEF SendRenewal, Heartbeat, Typed
<1>5. CASE Crash(c)
  <2>1. [Fresh EXCEPT !.pc = "ended"] \in TaskState
    BY Numbers DEF TaskState, TaskPc, Fresh, Status
  <2>2. [k \in Slot |-> Quiet] \in [Slot -> Renewal]
    BY <1>2
  <2>3. task' \in [Task -> TaskState] /\ renewal' \in [Task -> [Slot -> Renewal]]
    BY <1>5, <2>1, <2>2 DEF Crash, Typed
  <2>4. RenewalInv'
    BY <1>2, <1>5 DEF Crash, Typed, RenewalInv
  <2> QED
    BY <1>5, <2>3, <2>4 DEF Crash, Typed
<1>6. ASSUME NEW k \in Slot, Renew(c, k)
      PROVE  Typed'
  <2>1. renewal[c][k] \in Renewal /\ renewal[c][k] # Quiet
    BY <1>6 DEF Renew, Typed, Quiet
  <2>2. PICK r \in Renewal : renewal' = [renewal EXCEPT ![c][k] = r]
    <3>1. [renewal[c][k] EXCEPT !.stage = "yes"] \in Renewal
      BY <2>1 DEF Renewal
    <3> QED
      BY <1>2, <1>6, <3>1 DEF Renew
  <2>3. renewal' \in [Task -> [Slot -> Renewal]]
        /\ \A e \in Task, j \in Slot : e # c \/ j # k => renewal'[e][j] = renewal[e][j]
    BY <2>2, SlotType, ZenonT(30)
  <2>5. RenewalInv'
    BY <1>2, <1>6, <2>1, <2>3 DEF Renew, Typed, RenewalInv
  <2>4. lease' \in [Thread -> [token : Task \cup {None}, until : Late]]
    <3>1. renewal[c][k].at + Ttl \in Late
      BY <2>1, TimesAreTyped DEF Renewal
    <3> QED
      BY <1>1, <1>6, <3>1, SMTT(30) DEF Renew, Typed
  <2> QED
    BY <1>6, <2>3, <2>4, <2>5 DEF Renew, Typed
<1>7. ASSUME NEW k \in Slot, RenewalFails(c, k)
      PROVE  Typed'
  <2>1. renewal[c][k] # Quiet
    BY <1>7 DEF RenewalFails, Quiet
  <2>2. renewal' \in [Task -> [Slot -> Renewal]] /\ RenewalInv'
    BY <1>2, <1>7, <2>1, SlotType DEF RenewalFails, Typed, RenewalInv, Slot
  <2> QED
    BY <1>7, <2>2 DEF RenewalFails, Typed
<1>8. ASSUME NEW k \in Slot, Answered(c, k)
      PROVE  Typed'
  <2>1. renewal[c][k] \in Renewal /\ renewal[c][k] # Quiet
    BY <1>8 DEF Answered, Typed, Quiet
  <2> DEFINE ok == InTime(c, k)
             told == IF k = "main" THEN Renewed(c, ok) ELSE task[c]
             s == IF ok THEN [told EXCEPT !.until = renewal[c][k].at + Ttl]
                  ELSE [told EXCEPT !.lost = TRUE]
  <2>2. k = "main" => task[c].pc \in Renewing
    BY <2>1 DEF Typed, RenewalInv
  <2>3. told \in TaskState /\ told.shared = task[c].shared
    <3>1. ok \in BOOLEAN
      BY DEF InTime
    <3> HIDE DEF ok
    <3> QED
      BY <1>1, <2>2, <3>1, RenewedType
  <2>4. s \in TaskState /\ s.shared = task[c].shared /\ (k = "beat" => s.pc = task[c].pc)
    <3>1. renewal[c][k].at + Ttl \in Late
      BY <2>1, TimesAreTyped DEF Renewal
    <3>2. k = "beat" => told = task[c]
      OBVIOUS
    <3> HIDE DEF told
    <3> QED
      BY <2>3, <3>1, <3>2 DEF TaskState
  <2>5. task' = [task EXCEPT ![c] = s] /\ renewal' = [renewal EXCEPT ![c][k] = Quiet]
    BY <1>8 DEF Answered
  <2> HIDE DEF s
  <2>6. task' \in [Task -> TaskState] /\ renewal' \in [Task -> [Slot -> Renewal]]
    BY <1>1, <1>2, <2>4, <2>5, SlotType
  <2>7. RenewalInv'
    BY <1>1, <1>2, <2>1, <2>4, <2>5, <2>6, SlotType DEF Typed, RenewalInv, Slot
  <2> QED
    BY <1>8, <2>6, <2>7 DEF Answered, Typed
<1> QED
  BY <1>3, <1>4, <1>5, <1>6, <1>7, <1>8 DEF Keep

LEMMA TaskKinds ==
  ASSUME NEW c \in Task, TaskStep(c) \/ TaskFault(c)
  PROVE  Move(c) \/ Write(c) \/ Keep(c)
  BY DEF TaskStep, TaskFault, Move, Write, Keep

\* Steps of a deletion outside its renewals.
Delete(d) ==
  \/ CaptureFence(d) \/ Drained(d) \/ DrainTimesOut(d) \/ Find(d) \/ Descend(d)
  \/ DeleteRows(d) \/ RestoreRefused(d) \/ ReleaseFence(d) \/ DeletionCallFails(d)
  \/ \E heard \in BOOLEAN : TakeFence(d, heard) \/ DeleteWave(d, heard)

\* Steps of a deletion's renewals, and its death.
Refence(d) ==
  \/ Judge(d) \/ BeatFence(d) \/ RenewFence(d) \/ FenceGone(d) \/ FenceAgain(d)
  \/ FenceAnswered(d) \/ BeatFails(d) \/ DeletionCrash(d)

LEMMA DeletionKinds ==
  ASSUME NEW d \in Deletion, DeletionStep(d) \/ DeletionFault(d)
  PROVE  Delete(d) \/ Refence(d)
  BY DEF DeletionStep, DeletionFault, Delete, Refence

LEMMA FencesType ==
  ASSUME Typed, NEW d \in Deletion, NEW to \in Late, PushFence(d, to)
  PROVE  fences' \in [Deletion -> Late]
  BY Numbers DEF Typed, PushFence, Pruned

LEMMA EndType ==
  ASSUME Typed, NEW d \in Deletion, End(d)
  PROVE  deletion' \in [Deletion -> DeletionState]
<1>1. [Unstarted EXCEPT !.pc = "ended", !.ok = deletion[d].ok] \in DeletionState
  BY Numbers DEF Typed, DeletionState, DeletionPc, Unstarted
<1> QED
  BY <1>1 DEF End, Typed

LEMMA LeaveType ==
  ASSUME Typed, NEW d \in Deletion, NEW pc \in DeletionPc, Leave(d, pc)
  PROVE  deletion' \in [Deletion -> DeletionState]
<1>1. [deletion[d] EXCEPT !.pc = pc, !.wave = {}, !.deleted = {}] \in DeletionState
  BY DEF Typed, DeletionState
<1>2. deletion' = [deletion EXCEPT ![d] =
                     [deletion[d] EXCEPT !.pc = pc, !.wave = {}, !.deleted = {}]]
  BY DEF Leave, Typed, DeletionState
<1> QED
  BY <1>1, <1>2 DEF Typed

LEMMA DGotoType ==
  ASSUME Typed, NEW d \in Deletion, NEW pc \in DeletionPc, DGoto(d, pc)
  PROVE  deletion' \in [Deletion -> DeletionState]
<1>1. [deletion[d] EXCEPT !.pc = pc] \in DeletionState
  BY DEF Typed, DeletionState
<1> QED
  BY <1>1 DEF Typed, DGoto, DeletionState

LEMMA DeleteType ==
  ASSUME NEW d \in Deletion, Typed, Delete(d)
  PROVE  Typed'
<1> USE DEF docs, rows, deletionVars, taskVars
<1>1. deletion[d] \in DeletionState /\ deletion \in [Deletion -> DeletionState]
  BY DEF Typed
<1>2. UNCHANGED <<task, renewal>> => RenewalInv'
  BY DEF Typed, RenewalInv
<1>3. CASE CaptureFence(d)
  <2> DEFINE s == [deletion[d] EXCEPT !.pc = "fencing", !.fencedUntil = now + Window]
  <2>1. s \in DeletionState
    BY <1>1, TimesAreTyped DEF DeletionState, DeletionPc, Typed
  <2>2. deletion' = [deletion EXCEPT ![d] = s]
    BY <1>1, <1>3 DEF CaptureFence, DeletionState
  <2>3. deletion' \in [Deletion -> DeletionState]
    BY <1>1, <2>1, <2>2
  <2> QED
    BY <1>2, <1>3, <2>3 DEF CaptureFence, Typed
<1>4. CASE Drained(d)
  <2>1. deletion' \in [Deletion -> DeletionState]
    <3>1. CASE DAt(d, "draining")
      BY <1>4, <3>1, DGotoType DEF Drained, DAt, DeletionPc
    <3>2. CASE ~DAt(d, "draining")
      <4> DEFINE s == [deletion[d] EXCEPT !.pc = "releasing", !.ok = FenceHeld(d)]
      <4>1. s \in DeletionState
        BY <1>1 DEF DeletionState, DeletionPc, FenceHeld
      <4>2. deletion' = [deletion EXCEPT ![d] = s]
        BY <1>1, <1>4, <3>2 DEF Drained, DeletionState
      <4> QED
        BY <1>1, <4>1, <4>2
    <3> QED
      BY <3>1, <3>2
  <2> QED
    BY <1>2, <1>4, <2>1 DEF Drained, Typed
<1>5. CASE DrainTimesOut(d) \/ RestoreRefused(d)
  <2>1. deletion' \in [Deletion -> DeletionState]
    BY <1>5, DGotoType DEF DrainTimesOut, RestoreRefused, DeletionPc
  <2> QED
    BY <1>2, <1>5, <2>1 DEF DrainTimesOut, RestoreRefused, Typed
<1>6. CASE Find(d)
  <2>1. deletion' \in [Deletion -> DeletionState]
    <3> DEFINE s == [deletion[d] EXCEPT !.pc = "deleting", !.wave = exists]
    <3>1. s \in DeletionState
      BY <1>1 DEF DeletionState, DeletionPc, Typed
    <3>2. DGoto(d, "releasing") \/ deletion' = [deletion EXCEPT ![d] = s]
      BY <1>1, <1>6 DEF Find, DeletionState
    <3> HIDE DEF s
    <3> QED
      BY <1>1, <3>1, <3>2, DGotoType DEF DeletionPc
  <2> QED
    BY <1>2, <1>6, <2>1 DEF Find, Typed
<1>7. CASE Descend(d)
  <2>1. deletion' \in [Deletion -> DeletionState]
    <3> DEFINE next == {t \in Thread \cap exists : Root \in deletion[d].wave}
                         \ deletion[d].deleted
               s == [deletion[d] EXCEPT !.pc = IF next = {} THEN "rows" ELSE "deleting",
                                        !.wave = next]
    <3>1. next \subseteq Conv
      BY DEF Typed
    <3>2. deletion' = [deletion EXCEPT ![d] = s]
      BY <1>1, <1>7 DEF Descend, DeletionState
    <3> HIDE DEF next
    <3>3. s \in DeletionState
      BY <1>1, <3>1 DEF DeletionState, DeletionPc
    <3> HIDE DEF s
    <3> QED
      BY <1>1, <3>2, <3>3
  <2> QED
    BY <1>2, <1>7, <2>1 DEF Descend, Typed
<1>8. CASE DeleteRows(d)
  <2>1. deletion' \in [Deletion -> DeletionState]
    BY <1>8, LeaveType DEF DeleteRows, DeletionPc
  <2>2. input' \subseteq Task /\ result' \in [Task -> Status]
    BY <1>8, RowsType DEF DeleteRows
  <2> QED
    BY <1>2, <1>8, <2>1, <2>2 DEF DeleteRows, Typed
<1>9. CASE ReleaseFence(d)
  <2>1. deletion' \in [Deletion -> DeletionState]
    BY <1>9, EndType DEF ReleaseFence
  <2> QED
    BY <1>2, <1>9, <2>1, Numbers DEF ReleaseFence, Typed
<1>10. CASE DeletionCallFails(d)
  <2>1. deletion' \in [Deletion -> DeletionState]
    BY <1>10, EndType, LeaveType DEF DeletionCallFails, DeletionPc
  <2> QED
    BY <1>2, <1>10, <2>1 DEF DeletionCallFails, Typed
<1>11. ASSUME NEW heard \in BOOLEAN, TakeFence(d, heard)
       PROVE  Typed'
  <2>1. deletion' \in [Deletion -> DeletionState]
    BY <1>11, EndType, DGotoType DEF TakeFence, DeletionPc
  <2>2. fences' \in [Deletion -> Late]
    BY <1>1, <1>11, FencesType DEF TakeFence, DeletionState
  <2> QED
    BY <1>2, <1>11, <2>1, <2>2 DEF TakeFence, Typed
<1>12. ASSUME NEW heard \in BOOLEAN, DeleteWave(d, heard)
       PROVE  Typed'
  <2>1. deletion' \in [Deletion -> DeletionState]
    <3> DEFINE s == [deletion[d] EXCEPT !.pc = "descending",
                                        !.deleted = @ \cup deletion[d].wave]
    <3>1. s \in DeletionState
      BY <1>1 DEF DeletionState, DeletionPc
    <3>2. Leave(d, "releasing") \/ deletion' = [deletion EXCEPT ![d] = s]
      BY <1>1, <1>12 DEF DeleteWave, DeletionState
    <3> HIDE DEF s
    <3> QED
      BY <1>1, <3>1, <3>2, LeaveType DEF DeletionPc
  <2>2. exists' \subseteq Conv /\ lease' \in [Thread -> [token : Task \cup {None}, until : Late]]
    BY <1>1, <1>12, DocsType DEF DeleteWave, DeletionState
  <2> QED
    BY <1>2, <1>12, <2>1, <2>2 DEF DeleteWave, Typed
<1> QED
  BY <1>3, <1>4, <1>5, <1>6, <1>7, <1>8, <1>9, <1>10, <1>11, <1>12 DEF Delete

LEMMA RefenceType ==
  ASSUME NEW d \in Deletion, Typed, Refence(d)
  PROVE  Typed'
<1> USE DEF docs, rows, deletionVars, taskVars
<1>1. /\ deletion[d] \in DeletionState /\ deletion \in [Deletion -> DeletionState]
      /\ beat[d] \in Beat /\ beat \in [Deletion -> Beat]
  BY DEF Typed
<1>2. UNCHANGED <<task, renewal>> => RenewalInv'
  BY DEF Typed, RenewalInv
<1>3. NoBeat \in Beat /\ "yes" \in {"none", "sent", "absent", "again", "yes"}
  BY Numbers DEF NoBeat, Beat
<1>4. CASE Judge(d) \/ BeatFence(d)
  <2> DEFINE b(deadline) == [stage |-> "sent", deadline |-> deadline, to |-> now + Window]
  <2>1. b(now + Window) \in Beat /\ b(deletion[d].fencedUntil) \in Beat
    BY <1>1, TimesAreTyped DEF Beat, DeletionState, Typed
  <2>2. beat' \in {beat, [beat EXCEPT ![d] = b(now + Window)],
                   [beat EXCEPT ![d] = b(deletion[d].fencedUntil)]}
    BY <1>4 DEF Judge, BeatFence
  <2>3. beat' \in [Deletion -> Beat]
    <3> HIDE DEF b
    <3> QED
      BY <1>1, <2>1, <2>2
  <2>4. deletion' \in [Deletion -> DeletionState]
    <3> DEFINE s == [deletion[d] EXCEPT !.pc = "releasing", !.ok = TRUE]
    <3>1. s \in DeletionState
      BY <1>1 DEF DeletionState, DeletionPc
    <3>2. \/ deletion' = [deletion EXCEPT ![d] = s]
          \/ DGoto(d, "restoring")
          \/ UNCHANGED deletion
      BY <1>1, <1>4 DEF Judge, BeatFence, DeletionState
    <3> HIDE DEF s
    <3> QED
      BY <1>1, <3>1, <3>2, DGotoType DEF DeletionPc
  <2> QED
    BY <1>2, <1>4, <2>3, <2>4 DEF Judge, BeatFence, Typed
<1>5. CASE RenewFence(d)
  <2> DEFINE b(stage) == [beat[d] EXCEPT !.stage = stage]
  <2>1. b("yes") \in Beat /\ b("absent") \in Beat /\ beat[d].to \in Late
    BY <1>1 DEF Beat
  <2>2. beat' = [beat EXCEPT ![d] = b(IF fences[d] # 0 THEN "yes" ELSE "absent")]
    BY <1>1, <1>5 DEF RenewFence, Beat
  <2>3. beat' \in [Deletion -> Beat]
    <3> HIDE DEF b
    <3> QED
      BY <1>1, <2>1, <2>2
  <2> QED
    BY <1>2, <1>5, <2>1, <2>3 DEF RenewFence, Typed
<1>6. CASE FenceGone(d)
  <2>1. [beat[d] EXCEPT !.stage = "again"] \in Beat
    BY <1>1 DEF Beat
  <2>2. beat' \in [Deletion -> Beat]
    BY <1>1, <1>3, <1>6, <2>1 DEF FenceGone
  <2>3. deletion' \in [Deletion -> DeletionState]
    <3>1. [deletion[d] EXCEPT !.lapsed = TRUE] \in DeletionState
      BY <1>1 DEF DeletionState
    <3>2. deletion' = [deletion EXCEPT ![d] = [deletion[d] EXCEPT !.lapsed = TRUE]]
      BY <1>1, <1>6 DEF FenceGone, DeletionState
    <3> QED
      BY <1>1, <3>1, <3>2
  <2> QED
    BY <1>2, <1>6, <2>2, <2>3 DEF FenceGone, Typed
<1>7. CASE FenceAgain(d)
  <2>1. [beat[d] EXCEPT !.stage = "yes"] \in Beat /\ beat[d].to \in Late
    BY <1>1 DEF Beat
  <2>2. beat' \in [Deletion -> Beat]
    BY <1>1, <1>3, <1>7, <2>1 DEF FenceAgain
  <2>3. fences' \in [Deletion -> Late]
    BY <1>7, <2>1, FencesType DEF FenceAgain
  <2> QED
    BY <1>2, <1>7, <2>2, <2>3 DEF FenceAgain, Typed
<1>8. CASE FenceAnswered(d)
  <2> DEFINE told == IF now < beat[d].deadline
                     THEN [deletion[d] EXCEPT !.fencedUntil = beat[d].to]
                     ELSE [deletion[d] EXCEPT !.lapsed = TRUE]
  <2>1. told \in DeletionState
    BY <1>1 DEF DeletionState, Beat
  <2>2. deletion' \in {[deletion EXCEPT ![d] = told],
                       [deletion EXCEPT ![d] = [told EXCEPT !.lapsed = FALSE, !.pc = "redraining"]],
                       [deletion EXCEPT ![d] = [told EXCEPT !.pc = "releasing"]]}
    BY <1>8 DEF FenceAnswered
  <2>3. deletion' \in [Deletion -> DeletionState]
    <3> HIDE DEF told
    <3>1. /\ [told EXCEPT !.lapsed = FALSE, !.pc = "redraining"] \in DeletionState
          /\ [told EXCEPT !.pc = "releasing"] \in DeletionState
      BY <2>1 DEF DeletionState, DeletionPc
    <3> QED
      BY <1>1, <2>1, <2>2, <3>1
  <2>4. beat' \in [Deletion -> Beat]
    BY <1>1, <1>3, <1>8 DEF FenceAnswered
  <2> QED
    BY <1>2, <1>8, <2>3, <2>4 DEF FenceAnswered, Typed
<1>9. CASE BeatFails(d) \/ DeletionCrash(d)
  <2>1. beat' \in [Deletion -> Beat]
    BY <1>1, <1>3, <1>9 DEF BeatFails, DeletionCrash
  <2>2. deletion' \in [Deletion -> DeletionState]
    BY <1>1, <1>9, EndType DEF BeatFails, DeletionCrash
  <2> QED
    BY <1>2, <1>9, <2>1, <2>2 DEF BeatFails, DeletionCrash, Typed
<1> QED
  BY <1>4, <1>5, <1>6, <1>7, <1>8, <1>9 DEF Refence

LEMMA TickType == Typed /\ Tick => Typed'
<1> SUFFICES ASSUME Typed, Tick PROVE Typed'
  OBVIOUS
<1>1. now' \in Time
  BY Numbers DEF Tick, Typed, Time
<1>2. RenewalInv'
  BY DEF Tick, Typed, RenewalInv, taskVars
<1> QED
  BY <1>1, <1>2 DEF Tick, Typed, docs, rows, deletionVars, taskVars

LEMMA StillType == Typed /\ UNCHANGED vars => Typed'
  BY DEF Typed, RenewalInv, vars, docs, rows, deletionVars, taskVars

\* A step is the clock's, a task's or a deletion's, or none.
LEMMA Steps ==
  ASSUME [Next]_vars
  PROVE  \/ Tick
         \/ \E c \in Task : Move(c) \/ Write(c) \/ Keep(c)
         \/ \E d \in Deletion : Delete(d) \/ Refence(d)
         \/ UNCHANGED vars
  BY TaskKinds, DeletionKinds DEF Next, Step, Fault

LEMMA TypeStep == TypeInv /\ [Next]_vars => TypeInv'
<1> SUFFICES ASSUME TypeInv, [Next]_vars PROVE TypeInv'
  OBVIOUS
<1>1. Typed
  BY TypedIs
<1>2. Typed'
  BY <1>1, Steps, MoveType, WriteType, KeepType, DeleteType, RefenceType, TickType,
     StillType
<1>3. faults' \in 0 .. MaxFaults
  BY Numbers, TypedIs DEF Next, vars
<1>4. TypeInv' <=> Typed' /\ faults' \in 0 .. MaxFaults
  BY DEF TypeInv, TypeOK, Typed
<1> QED
  BY <1>2, <1>3, <1>4

\* The state has its type: times stay within the clock and the lifetimes,
\* whatever is renewed, and a task waits for a renewal of its own only where
\* it asks for one.
THEOREM TypeCorrect == Spec => []TypeOK
<1>1. Init => TypeInv
  BY TypeInit
<1>2. TypeInv /\ [Next]_vars => TypeInv'
  BY TypeStep
<1>3. TypeInv => TypeOK
  BY DEF TypeInv
<1> QED
  BY <1>1, <1>2, <1>3, PTL DEF Spec

-----------------------------------------------------------------------------
(* Fences.                                                                 *)

LEMMA TaskFrame ==
  ASSUME NEW c \in Task, Move(c) \/ Write(c) \/ Keep(c)
  PROVE  UNCHANGED <<now, fences, deletion, beat>>
<1>1. CASE Move(c)
  BY <1>1 DEF Move, ProbeOwner, ReadParent, Recheck, ReadTranscript, ParentAgain, RunEnds,
              Settle, CallFails, deletionVars
<1>2. CASE Write(c)
  BY <1>2 DEF Write, SendAcquire, AcquireRefused, Rollback, Orphan, Touch, Release,
              Reserve, Acquire, Close, Seed, Save, deletionVars
<1>3. CASE Keep(c)
  BY <1>3 DEF Keep, NoRenewal, OwnerUnread, SendRenewal, Heartbeat, Crash, Renew,
              RenewalFails, Answered, deletionVars
<1> QED
  BY <1>1, <1>2, <1>3

Fenced == Deleting \cup {"draining", "redraining"}

\* What a deletion knows of its fence.  A renewal under way reaches at least as
\* far as the fence it renews; once it was executed its fence is stored, or has
\* been pruned because it ran out.
FenceInvOf(d) ==
  /\ deletion[d].fencedUntil <= now + Window
  /\ deletion[d].pc \in {"idle", "fencing", "ended"} => beat[d] = NoBeat
  /\ deletion[d].pc = "redraining" => beat[d] = NoBeat
  /\ beat[d].stage # "none" =>
       /\ beat[d].to >= deletion[d].fencedUntil
       /\ beat[d].to <= now + Window
       /\ beat[d].deadline = IF deletion[d].pc = "restoring" THEN beat[d].to
                             ELSE deletion[d].fencedUntil
  /\ beat[d].stage = "yes" => fences[d] = beat[d].to \/ now >= beat[d].to
  /\ deletion[d].pc \in Fenced /\ FenceHeld(d) => fences[d] >= deletion[d].fencedUntil

FenceInv == \A d \in Deletion : FenceInvOf(d)

LEMMA FenceInit == Init => FenceInv
  BY Numbers DEF Init, FenceInv, FenceInvOf, Unstarted, NoBeat, Fenced, Deleting

\* Any step of another deletion at most prunes a fence that ran out.
Untouched(d) ==
  /\ UNCHANGED now
  /\ deletion'[d] = deletion[d] /\ beat'[d] = beat[d]
  /\ fences'[d] = fences[d] \/ (fences[d] <= now /\ fences'[d] = 0)

LEMMA UntouchedKeeps ==
  ASSUME NEW d \in Deletion, TypeInv, FenceInvOf(d), Untouched(d)
  PROVE  FenceInvOf(d)'
<1>1. /\ now \in Nat /\ fences[d] \in Nat /\ deletion[d].fencedUntil \in Nat
      /\ beat[d].to \in Nat
  BY DEF TypeInv, TypeOK, Time, Late, DeletionState, Beat
<1> QED
  BY <1>1 DEF FenceInvOf, Untouched, FenceHeld

LEMMA OthersAreUntouched ==
  ASSUME NEW d \in Deletion, NEW x \in Deletion \ {d}, TypeInv, Delete(x) \/ Refence(x)
  PROVE  Untouched(d)
<1>1. /\ deletion \in [Deletion -> DeletionState] /\ beat \in [Deletion -> Beat]
      /\ fences \in [Deletion -> Late]
  BY DEF TypeInv, TypeOK
<1>2. ASSUME NEW to, PushFence(x, to)
      PROVE  fences'[d] = fences[d] \/ (fences[d] <= now /\ fences'[d] = 0)
  BY <1>1, <1>2 DEF PushFence, Pruned
<1>3. CASE Delete(x)
  BY <1>1, <1>2, <1>3
     DEF Delete, CaptureFence, Drained, DrainTimesOut, Find, Descend, DeleteRows,
         RestoreRefused, ReleaseFence, DeletionCallFails, TakeFence, DeleteWave,
         DGoto, Leave, End, Untouched
<1>4. CASE Refence(x)
  BY <1>1, <1>2, <1>4
     DEF Refence, Judge, BeatFence, RenewFence, FenceGone, FenceAgain, FenceAnswered,
         BeatFails, DeletionCrash, DGoto, End, Untouched
<1> QED
  BY <1>3, <1>4

LEMMA DeleteKeepsFence ==
  ASSUME NEW d \in Deletion, TypeInv, FenceInvOf(d), Delete(d)
  PROVE  FenceInvOf(d)'
<1>1. /\ deletion \in [Deletion -> DeletionState] /\ beat \in [Deletion -> Beat]
      /\ fences \in [Deletion -> Late] /\ now \in Nat /\ Window \in Nat
      /\ fences[d] \in Nat /\ deletion[d].fencedUntil \in Nat /\ beat[d].to \in Nat
      /\ deletion[d] \in DeletionState
  BY Numbers DEF TypeInv, TypeOK, Time, Late, DeletionState, Beat
<1>2. CASE CaptureFence(d)
  BY <1>1, <1>2 DEF CaptureFence, DAt, FenceInvOf, Fenced, Deleting, DeletionState, NoBeat
<1>3. CASE Drained(d)
  BY <1>1, <1>3 DEF Drained, DAt, DGoto, FenceInvOf, Fenced, Deleting, FenceHeld,
                    DeletionState, docs, rows, taskVars
<1>4. CASE DrainTimesOut(d) \/ RestoreRefused(d)
  BY <1>1, <1>4 DEF DrainTimesOut, RestoreRefused, DAt, DGoto, FenceInvOf, Fenced, Deleting,
                    FenceHeld, DeletionState, NoBeat
<1>5. CASE Find(d) \/ Descend(d)
  BY <1>1, <1>5 DEF Find, Descend, DAt, DGoto, FenceInvOf, Fenced, Deleting, FenceHeld,
                    DeletionState
<1>6. CASE DeleteRows(d)
  BY <1>1, <1>6 DEF DeleteRows, Leave, DAt, FenceInvOf, Fenced, Deleting, FenceHeld,
                    DeletionState
<1>7. CASE ReleaseFence(d)
  BY <1>1, <1>7, Numbers DEF ReleaseFence, End, Unstarted, NoBeat, FenceInvOf, Fenced, Deleting
<1>8. CASE DeletionCallFails(d)
  <2>1. UNCHANGED <<now, fences, beat>>
    BY <1>8 DEF DeletionCallFails
  <2>2. CASE End(d) /\ beat[d] = NoBeat
    BY <1>1, <2>1, <2>2, Numbers DEF End, Unstarted, NoBeat, FenceInvOf, Fenced, Deleting
  <2>3. CASE Leave(d, "releasing") /\ deletion[d].pc # "restoring"
    BY <1>1, <2>1, <2>3 DEF Leave, FenceInvOf, Fenced, Deleting, FenceHeld, DeletionState
  <2>4. CASE Leave(d, "stopping") /\ deletion[d].pc = "rows"
    BY <1>1, <2>1, <2>4 DEF Leave, FenceInvOf, Fenced, Deleting, FenceHeld, DeletionState
  <2> QED
    BY <1>8, <2>2, <2>3, <2>4 DEF DeletionCallFails, DAt, FenceInvOf
<1>9. ASSUME NEW heard \in BOOLEAN, TakeFence(d, heard)
      PROVE  FenceInvOf(d)'
  <2>1. beat[d] = NoBeat /\ beat' = beat /\ now' = now
    BY <1>9 DEF TakeFence, FenceInvOf, DAt
  <2>2. CASE DGoto(d, "draining") /\ MayFence
    <3>1. fences'[d] = deletion[d].fencedUntil
      BY <1>1, <1>9, <2>2 DEF TakeFence, PushFence, Pruned
    <3> QED
      BY <1>1, <2>1, <2>2, <3>1 DEF DGoto, FenceInvOf, NoBeat, DeletionState
  <2>3. CASE End(d)
    BY <1>1, <2>1, <2>3, Numbers DEF End, Unstarted, FenceInvOf, NoBeat, Fenced, Deleting
  <2> QED
    BY <1>9, <2>2, <2>3 DEF TakeFence
<1>10. ASSUME NEW heard \in BOOLEAN, DeleteWave(d, heard)
       PROVE  FenceInvOf(d)'
  BY <1>1, <1>10 DEF DeleteWave, Leave, DAt, FenceInvOf, Fenced, Deleting, FenceHeld,
                     DeletionState
<1> QED
  BY <1>2, <1>3, <1>4, <1>5, <1>6, <1>7, <1>8, <1>9, <1>10 DEF Delete

LEMMA RefenceKeepsFence ==
  ASSUME NEW d \in Deletion, TypeInv, FenceInvOf(d), Refence(d)
  PROVE  FenceInvOf(d)'
<1>1. /\ deletion \in [Deletion -> DeletionState] /\ beat \in [Deletion -> Beat]
      /\ fences \in [Deletion -> Late] /\ now \in Nat /\ Window \in Nat /\ Window > 0
      /\ fences[d] \in Nat /\ deletion[d].fencedUntil \in Nat /\ beat[d].to \in Nat
      /\ beat[d].deadline \in Nat
      /\ deletion[d] \in DeletionState /\ beat[d] \in Beat
  BY Numbers DEF TypeInv, TypeOK, Time, Late, DeletionState, Beat
<1>2. CASE Judge(d)
  BY <1>1, <1>2 DEF Judge, DAt, DGoto, NoBeat, FenceInvOf, Fenced, Deleting, DeletionState
<1>3. CASE BeatFence(d)
  BY <1>1, <1>3 DEF BeatFence, Beating, NoBeat, FenceInvOf, FenceHeld
<1>4. CASE RenewFence(d)
  BY <1>1, <1>4 DEF RenewFence, NoBeat, FenceInvOf, FenceHeld, Beat
<1>5. CASE FenceGone(d)
  BY <1>1, <1>5 DEF FenceGone, NoBeat, FenceInvOf, FenceHeld, Beat, DeletionState
<1>6. CASE FenceAgain(d)
  <2>1. CASE MayFence
    <3>1. fences'[d] = beat[d].to
      BY <1>1, <1>6, <2>1 DEF FenceAgain, PushFence, Pruned
    <3> QED
      BY <1>1, <1>6, <2>1, <3>1 DEF FenceAgain, NoBeat, FenceInvOf, FenceHeld, Beat
  <2>2. CASE ~MayFence
    <3>1. fences'[d] = fences[d] \/ (fences[d] <= now /\ fences'[d] = 0)
      BY <1>1, <1>6, <2>2 DEF FenceAgain, PushFence, Pruned
    <3> QED
      BY <1>1, <1>6, <2>2, <3>1 DEF FenceAgain, NoBeat, FenceInvOf, FenceHeld, Beat
  <2> QED
    BY <2>1, <2>2
<1>7. CASE FenceAnswered(d)
  BY <1>1, <1>7 DEF FenceAnswered, DAt, NoBeat, FenceInvOf, FenceHeld, Fenced, Deleting, Beat,
                    DeletionState
<1>8. CASE BeatFails(d)
  BY <1>1, <1>8 DEF BeatFails, NoBeat, FenceInvOf, FenceHeld
<1>9. CASE DeletionCrash(d)
  BY <1>1, <1>9, Numbers DEF DeletionCrash, End, Unstarted, NoBeat, FenceInvOf, Fenced, Deleting
<1> QED
  BY <1>2, <1>3, <1>4, <1>5, <1>6, <1>7, <1>8, <1>9 DEF Refence

LEMMA FenceStep == TypeInv /\ FenceInv /\ [Next]_vars => FenceInv'
<1> SUFFICES ASSUME TypeInv, FenceInv, [Next]_vars, NEW d \in Deletion
             PROVE  FenceInvOf(d)'
  BY DEF FenceInv
<1>1. FenceInvOf(d)
  BY DEF FenceInv
<1>2. CASE Tick
  <2>1. /\ now \in Nat /\ fences[d] \in Nat /\ deletion[d].fencedUntil \in Nat
        /\ beat[d].to \in Nat /\ Window \in Nat
    BY Numbers DEF TypeInv, TypeOK, Time, Late, DeletionState, Beat
  <2> QED
    BY <1>1, <1>2, <2>1 DEF Tick, FenceInvOf, FenceHeld, deletionVars
<1>3. CASE \E c \in Task : Move(c) \/ Write(c) \/ Keep(c)
  BY <1>1, <1>3, TaskFrame DEF FenceInvOf, FenceHeld
<1>4. CASE \E x \in Deletion : Delete(x) \/ Refence(x)
  BY <1>1, <1>4, DeleteKeepsFence, RefenceKeepsFence, OthersAreUntouched, UntouchedKeeps
<1>5. CASE UNCHANGED vars
  BY <1>1, <1>5 DEF FenceInvOf, FenceHeld, vars, deletionVars
<1> QED
  BY <1>2, <1>3, <1>4, <1>5, Steps

\* A deletion that takes its fence for held has it in the database: no renewal
\* is believed that came late, was refused or found its fence gone.
THEOREM HeldFenceIsStoredHolds == Spec => []HeldFenceIsStored
<1>1. Init => TypeInv /\ FenceInv
  BY TypeInit, FenceInit
<1>2. TypeInv /\ FenceInv /\ [Next]_vars => (TypeInv /\ FenceInv)'
  BY TypeStep, FenceStep
<1>3. FenceInv => HeldFenceIsStored
  BY DEF FenceInv, FenceInvOf, HeldFenceIsStored, Fenced
<1> QED
  BY <1>1, <1>2, <1>3, PTL DEF Spec

LEMMA NoLeakedFenceStep ==
  TypeInv /\ FenceInv /\ [Next]_vars
    => \A d \in Deletion : DAt(d, "ended") => fences'[d] <= fences[d]
<1> SUFFICES ASSUME TypeInv, FenceInv, [Next]_vars, NEW d \in Deletion, DAt(d, "ended")
             PROVE  fences'[d] <= fences[d]
  OBVIOUS
<1>1. fences \in [Deletion -> Late] /\ fences[d] \in Nat /\ beat[d] = NoBeat
  BY DEF TypeInv, TypeOK, Late, FenceInv, FenceInvOf, DAt
<1>2. CASE Tick \/ UNCHANGED vars
  BY <1>1, <1>2 DEF Tick, vars
<1>3. CASE \E c \in Task : Move(c) \/ Write(c) \/ Keep(c)
  BY <1>1, <1>3, TaskFrame
<1>4. ASSUME NEW x \in Deletion, x # d, Delete(x) \/ Refence(x)
      PROVE  fences'[d] <= fences[d]
  BY <1>1, <1>4, OthersAreUntouched DEF Untouched
<1>5. CASE Delete(d)
  BY <1>1, <1>5 DEF Delete, CaptureFence, Drained, DrainTimesOut, Find, Descend, DeleteRows,
                    RestoreRefused, ReleaseFence, DeletionCallFails, TakeFence, DeleteWave, DAt
<1>6. CASE Refence(d)
  BY <1>1, <1>6 DEF Refence, Judge, BeatFence, RenewFence, FenceGone, FenceAgain,
                    FenceAnswered, BeatFails, DeletionCrash, DAt, NoBeat
<1> QED
  BY <1>2, <1>3, <1>4, <1>5, <1>6, Steps

\* Nothing writes a fence for a deletion that is over, so none stays behind
\* that nobody lifts.
THEOREM NoLeakedFenceHolds == Spec => NoLeakedFence
<1>1. Init => TypeInv /\ FenceInv
  BY TypeInit, FenceInit
<1>2. TypeInv /\ FenceInv /\ [Next]_vars => (TypeInv /\ FenceInv)'
  BY TypeStep, FenceStep
<1>3. TypeInv /\ FenceInv /\ [Next]_vars
        => [\A d \in Deletion : DAt(d, "ended") => fences'[d] <= fences[d]]_vars
  BY NoLeakedFenceStep
<1> QED
  BY <1>1, <1>2, <1>3, PTL DEF Spec, NoLeakedFence

-----------------------------------------------------------------------------
(* Leases.                                                                 *)

Before == {"idle", "parent", "reserve", "acquire", "acquiring"}
Preparing == {"recheck", "read", "seed", "parentAgain", "begin"}

\* When the lease a task believes in runs out: while it renews it, as it was
\* when the renewal was sent.
Deadline(c) == IF renewal[c]["main"] = Quiet THEN task[c].until
               ELSE renewal[c]["main"].deadline

\* No time is ahead of the clock by more than a lifetime.
TimesOf(c) ==
  /\ task[c].at <= now /\ task[c].until <= now + Ttl
  /\ \A k \in Slot : renewal[c][k].at <= now /\ renewal[c][k].deadline <= now + Ttl

\* A lease that has been kept is live.
KeptOf(c) ==
  /\ task[c].pc \in Before => ~task[c].shared /\ c \notin kept
  /\ Kept(c) => lease[ThreadOf[c]].until > now

\* Before the child works only heartbeats have been executed, one at a time:
\* what is stored lasts as long as what the task believes, and so does what any
\* renewal under way will store.
StartOf(c) ==
  task[c].pc \in Preparing =>
    /\ now < Deadline(c) => c \in kept
    /\ lease[ThreadOf[c]].token = c => lease[ThreadOf[c]].until >= Deadline(c)
    /\ \A k \in Slot : renewal[c][k].stage = "sent" => renewal[c][k].at + Ttl >= Deadline(c)
    /\ renewal[c]["main"] = Quiet /\ renewal[c]["beat"].stage \in {"sent", "yes"} =>
         /\ renewal[c]["beat"].deadline = task[c].until
         /\ renewal[c]["beat"].stage = "yes" /\ lease[ThreadOf[c]].token = c =>
              lease[ThreadOf[c]].until >= renewal[c]["beat"].at + Ttl

LeaseInvOf(c) == TimesOf(c) /\ KeptOf(c) /\ StartOf(c)
LeaseInv == \A c \in Task : LeaseInvOf(c)

LEMMA LeaseInit == Init => LeaseInv
  BY Numbers, SubagentAssumption
     DEF Init, LeaseInv, LeaseInvOf, TimesOf, KeptOf, StartOf, Fresh, Quiet, NoLease, Before,
         Preparing, Kept, Slot

\* What a task has is left alone, but its lease may be gone.
Left(c) ==
  /\ UNCHANGED now
  /\ task'[c] = task[c] /\ renewal'[c] = renewal[c]
  /\ c \in kept' <=> c \in kept
  /\ lease'[ThreadOf[c]].token = c => lease'[ThreadOf[c]] = lease[ThreadOf[c]]

LEMMA LeftKeeps ==
  ASSUME NEW c \in Task, LeaseInvOf(c), Left(c)
  PROVE  LeaseInvOf(c)'
  BY DEF LeaseInvOf, TimesOf, KeptOf, StartOf, Left, Kept, Deadline

LEMMA DeletionsLeave ==
  ASSUME NEW c \in Task, NEW d \in Deletion, Typed, Delete(d) \/ Refence(d)
  PROVE  Left(c)
<1> USE DEF docs, rows, taskVars, deletionVars
<1>1. lease \in [Thread -> [token : Task \cup {None}, until : Late]] /\ ThreadOf[c] \in Thread
      /\ NoLease.token # c
  BY SubagentAssumption DEF Typed, NoLease
<1>2. UNCHANGED <<now, task, renewal, kept>>
  <2>1. CASE Delete(d)
    BY <2>1 DEF Delete, CaptureFence, Drained, DrainTimesOut, Find, Descend, DeleteRows,
                RestoreRefused, ReleaseFence, DeletionCallFails, TakeFence, DeleteWave
  <2>2. CASE Refence(d)
    BY <2>2 DEF Refence, Judge, BeatFence, RenewFence, FenceGone, FenceAgain,
                FenceAnswered, BeatFails, DeletionCrash
  <2> QED
    BY <2>1, <2>2
<1>3. lease' = lease \/ \E C : DeleteConvs(C)
  <2>1. CASE Delete(d)
    BY <2>1 DEF Delete, CaptureFence, Drained, DrainTimesOut, Find, Descend, DeleteRows,
                RestoreRefused, ReleaseFence, DeletionCallFails, TakeFence, DeleteWave
  <2>2. CASE Refence(d)
    BY <2>2 DEF Refence, Judge, BeatFence, RenewFence, FenceGone, FenceAgain,
                FenceAnswered, BeatFails, DeletionCrash
  <2> QED
    BY <2>1, <2>2
<1> QED
  BY <1>1, <1>2, <1>3 DEF Left, DeleteConvs

LEMMA TasksLeave ==
  ASSUME NEW c \in Task, NEW e \in Task \ {c}, Typed, Move(e) \/ Write(e) \/ Keep(e)
  PROVE  Left(c)
<1> USE DEF docs, rows, taskVars, deletionVars
<1>1. /\ lease \in [Thread -> [token : Task \cup {None}, until : Late]]
      /\ ThreadOf[c] \in Thread /\ ThreadOf[e] \in Thread
      /\ NoLease.token # c
      /\ task \in [Task -> TaskState] /\ renewal \in [Task -> [Slot -> Renewal]]
      /\ now' = now
  BY SubagentAssumption, TaskFrame DEF Typed, NoLease
<1>2. CASE Move(e)
  BY <1>1, <1>2 DEF Move, ProbeOwner, ReadParent, Recheck, ReadTranscript, ParentAgain,
                    RunEnds, Settle, CallFails, Goto, Left
<1>3. CASE Write(e)
  <2>1. task'[c] = task[c] /\ renewal' = renewal /\ (c \in kept' <=> c \in kept)
    BY <1>1, <1>3
       DEF Write, SendAcquire, AcquireRefused, Rollback, Orphan, Touch, Release, Reserve,
           Acquire, Close, Seed, Save, WriteResult, Onward, Goto
  <2>2. \/ lease' = lease \/ DeleteThread(ThreadOf[e])
        \/ lease' = [lease EXCEPT ![ThreadOf[e]] = NoLease]
        \/ \E until : lease' = [lease EXCEPT ![ThreadOf[e]] =
                                  [token |-> e, until |-> until]]
    <3>1. CASE \E heard \in BOOLEAN : Acquire(e, heard)
      BY <3>1 DEF Acquire
    <3>2. CASE Release(e)
      BY <3>2 DEF Release
    <3>3. CASE Rollback(e) \/ Orphan(e) \/ Touch(e) \/ SendAcquire(e) \/ AcquireRefused(e)
      BY <3>3 DEF Rollback, Orphan, Touch, SendAcquire, AcquireRefused
    <3>4. CASE \E heard \in BOOLEAN : \/ Reserve(e, heard) \/ Close(e, heard)
                                      \/ Seed(e, heard) \/ Save(e, heard)
      BY <3>4 DEF Reserve, Close, Seed, Save
    <3> QED
      BY <1>3, <3>1, <3>2, <3>3, <3>4 DEF Write
  <2>3. lease'[ThreadOf[c]].token = c => lease'[ThreadOf[c]] = lease[ThreadOf[c]]
    <3>1. ASSUME NEW until,
                 lease' = [lease EXCEPT ![ThreadOf[e]] = [token |-> e, until |-> until]]
          PROVE  lease'[ThreadOf[c]].token = c => lease'[ThreadOf[c]] = lease[ThreadOf[c]]
      BY <1>1, <3>1
    <3>2. CASE DeleteThread(ThreadOf[e]) \/ lease' = [lease EXCEPT ![ThreadOf[e]] = NoLease]
      BY <1>1, <3>2 DEF DeleteThread, DeleteConvs
    <3> QED
      BY <2>2, <3>1, <3>2
  <2> QED
    BY <1>1, <2>1, <2>3 DEF Left
<1>4. CASE Keep(e)
  <2>1. CASE NoRenewal(e) \/ OwnerUnread(e) \/ SendRenewal(e) \/ Heartbeat(e) \/ Crash(e)
    BY <1>1, <2>1 DEF NoRenewal, OwnerUnread, SendRenewal, Heartbeat, Send, Crash, Left
  <2>2. ASSUME NEW k \in Slot, Renew(e, k)
        PROVE  Left(c)
    BY <1>1, <2>2 DEF Renew, Left
  <2>3. ASSUME NEW k \in Slot, RenewalFails(e, k) \/ Answered(e, k)
        PROVE  Left(c)
    BY <1>1, <2>3 DEF RenewalFails, Answered, Left
  <2> QED
    BY <1>4, <2>1, <2>2, <2>3 DEF Keep
<1> QED
  BY <1>2, <1>3, <1>4

\* What a task moves to by itself.
LEMMA MoveGoes ==
  ASSUME NEW c \in Task, Typed, Move(c)
  PROVE  \E pc \in TaskPc :
           /\ Goto(c, pc)
           /\ pc \in Before => task[c].pc \in Before
           /\ pc \in Preparing => task[c].pc \in Preparing
           /\ task[c].pc # "run" => pc # "run"
<1>1. CASE ProbeOwner(c) \/ ReadParent(c)
  BY <1>1 DEF ProbeOwner, ReadParent, At, Before, Preparing, TaskPc
<1>2. CASE Recheck(c) \/ ReadTranscript(c) \/ ParentAgain(c)
  BY <1>2 DEF Recheck, ReadTranscript, ParentAgain, At, Before, Preparing, TaskPc
<1>3. CASE RunEnds(c)
  BY <1>3 DEF RunEnds, At, Before, Preparing, TaskPc
<1>4. CASE CallFails(c) \/ Settle(c)
  <2>1. /\ Rescue(c) \in TaskPc /\ task[c].pc \in TaskPc
        /\ Rescue(c) # task[c].pc => Rescue(c) \notin Before \cup Preparing \cup {"run"}
    BY RescueType DEF Rescue, Typed, TaskState, TaskPc, Before, Preparing
  <2> QED
    BY <1>4, <2>1 DEF CallFails, Settle, At, Rescue, Before, Preparing, TaskPc
<1> QED
  BY <1>1, <1>2, <1>3, <1>4 DEF Move

LEMMA MoveKeepsLease ==
  ASSUME NEW c \in Task, Typed, LeaseInvOf(c), Move(c)
  PROVE  LeaseInvOf(c)'
<1>1. UNCHANGED <<now, lease, renewal, kept>>
  BY DEF Move, ProbeOwner, ReadParent, Recheck, ReadTranscript, ParentAgain, RunEnds,
         Settle, CallFails, docs
<1>2. PICK pc \in TaskPc : /\ Goto(c, pc)
                           /\ pc \in Before => task[c].pc \in Before
                           /\ pc \in Preparing => task[c].pc \in Preparing
  BY MoveGoes
<1>3. /\ task'[c].pc = pc /\ task'[c].at = task[c].at /\ task'[c].until = task[c].until
      /\ task'[c].shared = task[c].shared
  BY <1>2 DEF Goto, Typed, TaskState
<1> QED
  BY <1>1, <1>2, <1>3 DEF LeaseInvOf, TimesOf, KeptOf, StartOf, Kept, Deadline

LEMMA WriteKeepsLease ==
  ASSUME NEW c \in Task, Typed, LeaseInvOf(c), Write(c)
  PROVE  LeaseInvOf(c)'
<1> USE DEF docs, rows, deletionVars, taskVars
<1>1. /\ task \in [Task -> TaskState] /\ task[c] \in TaskState /\ ThreadOf[c] \in Thread
      /\ lease \in [Thread -> [token : Task \cup {None}, until : Late]]
      /\ now \in Nat /\ now' = now /\ Ttl \in Nat /\ task[c].at \in Nat /\ task[c].until \in Nat
      /\ renewal' = renewal
  <2>1. now' = now
    BY TaskFrame
  <2>2. renewal' = renewal
    BY DEF Write, SendAcquire, AcquireRefused, Rollback, Orphan, Touch, Release,
           Reserve, Acquire, Close, Seed, Save
  <2>3. ThreadOf[c] \in Thread
    BY SubagentAssumption
  <2> QED
    BY <2>1, <2>2, <2>3, Numbers DEF Typed, TaskState, Time, Late
\* A step that ends the preparation, and may give the lease up.
<1>2. ASSUME task'[c].pc \notin Before \cup Preparing, kept' \subseteq kept,
             \/ task'[c].at \in {0, task[c].at} /\ task'[c].until \in {0, task[c].until},
             lease'[ThreadOf[c]] \in {lease[ThreadOf[c]], NoLease}
      PROVE  LeaseInvOf(c)'
  BY <1>1, <1>2, SubagentAssumption
     DEF LeaseInvOf, TimesOf, KeptOf, StartOf, Kept, NoLease
<1>3. CASE SendAcquire(c)
  <2>1. task'[c].pc = "acquiring" /\ task'[c].at = now /\ task'[c].until = task[c].until
        /\ task'[c].shared = task[c].shared
    BY <1>1, <1>3 DEF SendAcquire, TaskState
  <2> QED
    BY <1>1, <1>3, <2>1 DEF SendAcquire, At, LeaseInvOf, TimesOf, KeptOf, StartOf, Kept,
                            Before, Preparing
<1>4. CASE AcquireRefused(c)
  <2>1. task'[c].pc = "failing" /\ task'[c].at = 0 /\ task'[c].until = task[c].until
    BY <1>1, <1>4 DEF AcquireRefused, TaskState
  <2> QED
    BY <1>1, <1>2, <1>4, <2>1 DEF AcquireRefused, Before, Preparing
<1>5. CASE Rollback(c) \/ Orphan(c) \/ Touch(c)
  <2>1. PICK pc : Goto(c, pc) /\ pc \notin Before \cup Preparing
    BY <1>5, RescueType DEF Rollback, Orphan, Touch, Rescue, At, Before, Preparing
  <2>2. lease'[ThreadOf[c]] \in {lease[ThreadOf[c]], NoLease} /\ kept' = kept
    BY <1>1, <1>5 DEF Rollback, Orphan, Touch, DeleteThread, DeleteConvs
  <2>3. task'[c].pc = pc /\ task'[c].at = task[c].at /\ task'[c].until = task[c].until
    BY <1>1, <2>1 DEF Goto, TaskState
  <2> QED
    BY <1>2, <2>1, <2>2, <2>3
<1>6. CASE Release(c)
  BY <1>1, <1>2, <1>6 DEF Release, Fresh, Before, Preparing
<1>7. ASSUME NEW heard \in BOOLEAN, Reserve(c, heard)
      PROVE  LeaseInvOf(c)'
  <2>1. /\ task'[c].pc \in {"acquire", "failing"} /\ task'[c].at = task[c].at
        /\ task'[c].until = task[c].until /\ task'[c].shared = task[c].shared
    BY <1>1, <1>7 DEF Reserve, TaskState
  <2> QED
    BY <1>1, <1>7, <2>1 DEF Reserve, At, LeaseInvOf, TimesOf, KeptOf, StartOf, Kept,
                            Before, Preparing
<1>8. ASSUME NEW heard \in BOOLEAN, Close(c, heard) \/ Save(c, heard)
      PROVE  LeaseInvOf(c)'
  <2>1. PICK pc : Goto(c, pc) /\ pc \notin Before \cup Preparing
    BY <1>8, RescueType DEF Close, Save, Onward, Rescue, At, Before, Preparing
  <2>2. task'[c].pc = pc /\ task'[c].at = task[c].at /\ task'[c].until = task[c].until
    BY <1>1, <2>1 DEF Goto, TaskState
  <2>3. kept' \subseteq kept
    BY <1>8 DEF Close, Save, WriteResult
  <2> QED
    BY <1>2, <1>8, <2>1, <2>2, <2>3 DEF Close, Save
<1>9. ASSUME NEW heard \in BOOLEAN, Seed(c, heard)
      PROVE  LeaseInvOf(c)'
  <2>1. PICK pc \in {"parentAgain", "rollback"} : Goto(c, pc)
    BY <1>9 DEF Seed, Onward, Rescue, At
  <2>2. /\ task'[c].pc = pc /\ task'[c].at = task[c].at /\ task'[c].until = task[c].until
        /\ task'[c].shared = task[c].shared
    BY <1>1, <2>1 DEF Goto, TaskState
  <2> QED
    BY <1>1, <1>9, <2>1, <2>2 DEF Seed, At, LeaseInvOf, TimesOf, KeptOf, StartOf, Kept,
                                  Deadline, Before, Preparing
<1>10. CASE Acquire(c, FALSE)
  <2>1. /\ task'[c].pc = "failing" /\ task'[c].at = 0 /\ task'[c].until = task[c].until
        /\ c \notin kept
        /\ lease'[ThreadOf[c]] = [token |-> c, until |-> task[c].at + Ttl]
    BY <1>1, <1>10 DEF Acquire, TaskState, At, LeaseInvOf, KeptOf, Before
  <2>2. Kept(c)' => lease'[ThreadOf[c]].until > now'
    BY <1>1, <1>10, <2>1 DEF Acquire, Kept
  <2> QED
    BY <1>1, <2>1, <2>2 DEF LeaseInvOf, TimesOf, KeptOf, StartOf, Before, Preparing
<1>11. CASE Acquire(c, TRUE)
  <2>1. /\ task'[c].pc = "recheck" /\ task'[c].at = 0 /\ task'[c].until = task[c].at + Ttl
        /\ c \notin kept /\ task[c].at <= now
        /\ lease'[ThreadOf[c]] = [token |-> c, until |-> task[c].at + Ttl]
    BY <1>1, <1>11 DEF Acquire, TaskState, At, LeaseInvOf, TimesOf, KeptOf, Before
  <2>2. renewal[c]["main"] = Quiet /\ renewal[c]["beat"] = Quiet
    BY <1>11, <2>1 DEF Typed, RenewalInv, LeaseInvOf, KeptOf, Acquire, At, Before
  <2>3. Kept(c)' => lease'[ThreadOf[c]].until > now'
    BY <1>1, <1>11, <2>1 DEF Acquire, Kept
  <2>4. now < task[c].at + Ttl => c \in kept'
    BY <1>1, <1>11 DEF Acquire
  <2>5. TimesOf(c)'
    BY <1>1, <2>1 DEF LeaseInvOf, TimesOf
  <2>6. StartOf(c)'
    BY <1>1, <2>1, <2>2, <2>4 DEF StartOf, Deadline, Quiet, Slot
  <2> QED
    BY <2>1, <2>3, <2>5, <2>6 DEF LeaseInvOf, KeptOf, Before
<1> QED
  BY <1>3, <1>4, <1>5, <1>6, <1>7, <1>8, <1>9, <1>10, <1>11 DEF Write

LEMMA SlotChange ==
  ASSUME NEW c \in Task, NEW k \in Slot, NEW r, Typed,
         renewal' = [renewal EXCEPT ![c][k] = r]
  PROVE  /\ renewal'[c][k] = r
         /\ \A j \in Slot \ {k} : renewal'[c][j] = renewal[c][j]
  BY DEF Typed

LEMMA KeepKeepsLease ==
  ASSUME NEW c \in Task, Typed, LeaseInvOf(c), Keep(c)
  PROVE  LeaseInvOf(c)'
<1> USE DEF docs, rows, deletionVars, taskVars
<1>1. /\ task \in [Task -> TaskState] /\ task[c] \in TaskState /\ ThreadOf[c] \in Thread
      /\ lease \in [Thread -> [token : Task \cup {None}, until : Late]]
      /\ now \in Nat /\ now' = now /\ Ttl \in Nat /\ Ttl > 0
      /\ task[c].at \in Nat /\ task[c].until \in Nat
      /\ renewal \in [Task -> [Slot -> Renewal]]
      /\ Slot = {"main", "beat"}
  <2>1. now' = now
    BY TaskFrame
  <2>2. ThreadOf[c] \in Thread
    BY SubagentAssumption
  <2> QED
    BY <2>1, <2>2, Numbers DEF Typed, TaskState, Time, Late, Slot
<1>2. \A k \in Slot : renewal[c][k].at \in Nat /\ renewal[c][k].deadline \in Nat
                      /\ renewal[c][k] \in Renewal
  BY <1>1 DEF Renewal, Time, Late
<1>3. /\ TimesOf(c) /\ KeptOf(c) /\ StartOf(c)
      /\ "main" \in Slot /\ "beat" \in Slot
  BY <1>1 DEF LeaseInvOf
<1>4. CASE NoRenewal(c) \/ OwnerUnread(c)
  <2>1. PICK ok \in BOOLEAN : task' = [task EXCEPT ![c] = Renewed(c, ok)]
    BY <1>4 DEF NoRenewal, OwnerUnread
  <2>2. task[c].pc \in Renewing /\ UNCHANGED <<renewal, lease, kept>>
    BY <1>4 DEF NoRenewal, OwnerUnread
  <2>3. /\ task'[c].pc \in {"run", "failing", "settle", "releasing"}
        /\ task'[c].at = task[c].at /\ task'[c].until = task[c].until
    BY <1>1, <2>1, <2>2, RenewedType
  <2> QED
    BY <1>1, <1>3, <2>2, <2>3 DEF LeaseInvOf, TimesOf, KeptOf, StartOf, Kept, Before, Preparing
<1>5. CASE SendRenewal(c)
  <2> DEFINE r == [stage |-> "sent", at |-> now, deadline |-> task[c].until]
  <2>1. renewal'[c]["main"] = r /\ renewal'[c]["beat"] = renewal[c]["beat"]
    BY <1>1, <1>3, <1>5, SlotChange DEF SendRenewal, Send
  <2>2. renewal[c]["main"] = Quiet /\ r # Quiet /\ UNCHANGED <<task, lease, kept>>
    BY <1>5 DEF SendRenewal, Quiet
  <2>3. TimesOf(c)'
    BY <1>1, <1>2, <1>3, <2>1, <2>2 DEF TimesOf
  <2>4. Deadline(c)' = Deadline(c) /\ Deadline(c) = task[c].until
    BY <2>1, <2>2 DEF Deadline
  <2>5. StartOf(c)'
    BY <1>1, <1>2, <1>3, <2>1, <2>2, <2>4 DEF StartOf, TimesOf
  <2> QED
    BY <1>1, <1>3, <2>2, <2>3, <2>5 DEF LeaseInvOf, KeptOf, Kept
<1>6. CASE Heartbeat(c)
  <2> DEFINE r == [stage |-> "sent", at |-> now, deadline |-> task[c].until]
  <2>1. renewal'[c]["beat"] = r /\ renewal'[c]["main"] = renewal[c]["main"]
    BY <1>1, <1>3, <1>6, SlotChange DEF Heartbeat, Send
  <2>2. UNCHANGED <<task, lease, kept>>
    BY <1>6 DEF Heartbeat
  <2>3. TimesOf(c)'
    BY <1>1, <1>2, <1>3, <2>1, <2>2 DEF TimesOf
  <2>4. Deadline(c)' = Deadline(c) /\ Deadline(c) <= now + Ttl
    BY <1>1, <1>3, <2>1, <2>2 DEF Deadline, TimesOf
  <2>5. StartOf(c)'
    BY <1>1, <1>2, <1>3, <2>1, <2>2, <2>4 DEF StartOf
  <2> QED
    BY <1>1, <1>3, <2>2, <2>3, <2>5 DEF LeaseInvOf, KeptOf, Kept
<1>7. CASE Crash(c)
  <2>1. /\ task'[c] = [Fresh EXCEPT !.pc = "ended"] /\ UNCHANGED <<lease, kept>>
        /\ \A k \in Slot : renewal'[c][k] = Quiet
    BY <1>1, <1>7 DEF Crash
  <2> QED
    BY <1>1, <1>3, <2>1
       DEF LeaseInvOf, TimesOf, KeptOf, StartOf, Kept, Before, Preparing, Fresh, Quiet
\* A renewal under way that fails in whatever way.
<1>10. ASSUME NEW k \in Slot, renewal[c][k] # Quiet, renewal'[c][k] = Refused,
              UNCHANGED <<task, lease, kept>>,
              \A j \in Slot \ {k} : renewal'[c][j] = renewal[c][j]
       PROVE  LeaseInvOf(c)'
  <2>1. /\ Refused # Quiet /\ Refused.at = 0 /\ Refused.deadline = 0 /\ Refused.stage = "no"
    BY DEF Refused, Quiet
  <2>2. TimesOf(c)'
    BY <1>1, <1>3, <1>10, <2>1 DEF TimesOf
  <2>3. KeptOf(c)'
    BY <1>1, <1>3, <1>10 DEF KeptOf, Kept
  <2>4. CASE k = "main"
    <3>1. Deadline(c)' = 0 /\ renewal'[c]["main"] # Quiet
      BY <1>10, <2>1, <2>4 DEF Deadline
    <3>2. ASSUME NEW j \in Slot, renewal'[c][j].stage = "sent"
          PROVE  renewal'[c][j].at + Ttl >= 0
      <4>1. renewal'[c][j] = renewal[c][j]
        BY <1>10, <2>1, <3>2
      <4> QED
        BY <1>1, <1>2, <4>1
    <3>3. lease'[ThreadOf[c]].until >= 0
      BY <1>1, <1>10 DEF Late
    <3>4. ~(now' < 0)
      BY <1>1
    <3> QED
      BY <2>2, <2>3, <3>1, <3>2, <3>3, <3>4 DEF LeaseInvOf, StartOf
  <2>5. CASE k = "beat"
    <3>1. Deadline(c)' = Deadline(c) /\ renewal'[c]["main"] = renewal[c]["main"]
      BY <1>1, <1>10, <2>5 DEF Deadline
    <3>2. StartOf(c)'
      BY <1>1, <1>3, <1>10, <2>1, <2>5, <3>1 DEF StartOf
    <3> QED
      BY <2>2, <2>3, <3>2 DEF LeaseInvOf
  <2> QED
    BY <1>1, <2>4, <2>5
<1>8. ASSUME NEW k \in Slot, Renew(c, k)
      PROVE  LeaseInvOf(c)'
  <2> DEFINE l == lease[ThreadOf[c]]
             r == renewal[c][k]
             matched == l.token = c /\ l.until > r.at
  <2>1. UNCHANGED task /\ r.stage = "sent"
    BY <1>8 DEF Renew
  <2>2. r \in Renewal /\ r # Quiet /\ r.at \in Nat /\ r.at <= now /\ r.deadline <= now + Ttl
    BY <1>2, <1>3, <2>1 DEF Quiet, TimesOf
  <2>3. ASSUME matched
        PROVE  LeaseInvOf(c)'
    <3>1. /\ renewal'[c][k] = [r EXCEPT !.stage = "yes"]
          /\ \A j \in Slot \ {k} : renewal'[c][j] = renewal[c][j]
      BY <1>8, <2>3, SlotChange DEF Renew
    <3>2. lease'[ThreadOf[c]].token = c /\ lease'[ThreadOf[c]].until = r.at + Ttl
      BY <1>1, <1>8, <2>3 DEF Renew
    <3>3. kept' = IF r.at + Ttl <= now THEN kept \ {c} ELSE kept
      BY <1>8, <2>3 DEF Renew
    <3>4. /\ renewal'[c][k].at = r.at /\ renewal'[c][k].deadline = r.deadline
          /\ renewal'[c][k].stage = "yes" /\ renewal'[c][k] # Quiet
      BY <2>2, <3>1 DEF Renewal, Quiet
    <3> HIDE DEF matched, l
    <3>5. TimesOf(c)'
      BY <1>1, <1>3, <2>1, <2>2, <3>1, <3>4 DEF TimesOf
    <3>6. KeptOf(c)'
      BY <1>1, <1>3, <2>1, <2>2, <3>2, <3>3 DEF KeptOf, Kept
    <3>7. Deadline(c)' = Deadline(c) /\ Deadline(c) \in Nat
          /\ (renewal'[c]["main"] = Quiet <=> renewal[c]["main"] = Quiet)
      BY <1>1, <1>2, <2>1, <2>2, <3>1, <3>4 DEF Deadline
    <3>8. ASSUME task[c].pc \in Preparing
          PROVE  /\ now < Deadline(c) => c \in kept'
                 /\ lease'[ThreadOf[c]].until >= Deadline(c)
      <4>1. r.at + Ttl >= Deadline(c) /\ (now < Deadline(c) => c \in kept)
        BY <1>3, <2>1, <3>8 DEF StartOf
      <4> QED
        BY <1>1, <2>2, <3>2, <3>3, <3>7, <4>1
    <3>9. ASSUME task[c].pc \in Preparing, NEW j \in Slot, renewal'[c][j].stage = "sent"
          PROVE  renewal'[c][j].at + Ttl >= Deadline(c)
      BY <1>3, <3>1, <3>4, <3>9 DEF StartOf
    <3>10. ASSUME task[c].pc \in Preparing, renewal'[c]["main"] = Quiet,
                  renewal'[c]["beat"].stage \in {"sent", "yes"}
           PROVE  /\ renewal'[c]["beat"].deadline = task[c].until
                  /\ lease'[ThreadOf[c]].until >= renewal'[c]["beat"].at + Ttl
      <4>1. k = "beat"
        BY <1>1, <3>4, <3>10
      <4>2. r.deadline = task[c].until
        BY <1>3, <2>1, <3>7, <3>10, <4>1 DEF StartOf
      <4> QED
        BY <1>1, <2>2, <3>2, <3>4, <4>1, <4>2
    <3>11. StartOf(c)'
      BY <1>1, <2>1, <3>7, <3>8, <3>9, <3>10 DEF StartOf
    <3> QED
      BY <3>5, <3>6, <3>11 DEF LeaseInvOf
  <2>4. ASSUME ~matched
        PROVE  LeaseInvOf(c)'
    <3>1. renewal' = [renewal EXCEPT ![c][k] = Refused] /\ UNCHANGED <<lease, kept>>
      BY <1>8, <2>4 DEF Renew
    <3>2. /\ renewal'[c][k] = Refused
          /\ \A j \in Slot \ {k} : renewal'[c][j] = renewal[c][j]
      BY <1>1, <3>1
    <3> QED
      BY <1>10, <2>1, <2>2, <3>1, <3>2
  <2> HIDE DEF matched
  <2> QED
    BY <2>3, <2>4
<1>9. ASSUME NEW k \in Slot, RenewalFails(c, k)
      PROVE  LeaseInvOf(c)'
  <2>1. /\ renewal' = [renewal EXCEPT ![c][k] = Refused] /\ UNCHANGED <<task, lease, kept>>
        /\ renewal[c][k] # Quiet
    BY <1>9 DEF RenewalFails, Quiet
  <2>2. /\ renewal'[c][k] = Refused
        /\ \A j \in Slot \ {k} : renewal'[c][j] = renewal[c][j]
    BY <1>1, <2>1
  <2> QED
    BY <1>10, <2>1, <2>2
<1>11. CASE Answered(c, "main")
  <2> DEFINE r == renewal[c]["main"]
             ok == InTime(c, "main")
             told == Renewed(c, ok)
  <2>1. /\ r.stage \in {"yes", "no"} /\ r # Quiet /\ UNCHANGED <<lease, kept>>
        /\ task' = [task EXCEPT ![c] = IF ok THEN [told EXCEPT !.until = r.at + Ttl]
                                       ELSE [told EXCEPT !.lost = TRUE]]
        /\ renewal' = [renewal EXCEPT ![c]["main"] = Quiet]
    BY <1>11 DEF Answered, Quiet
  <2>2. task[c].pc \in Renewing /\ ok \in BOOLEAN
    BY <2>1 DEF Typed, RenewalInv, InTime
  <2> HIDE DEF ok
  <2>3. /\ told \in TaskState /\ told.until = task[c].until /\ told.at = task[c].at
        /\ told.pc \in {"run", "failing", "settle", "releasing"}
    BY <2>2, RenewedType
  <2> HIDE DEF told
  <2>4. /\ task'[c].until = (IF ok THEN r.at + Ttl ELSE task[c].until)
        /\ task'[c].at = task[c].at
        /\ task'[c].pc \in {"run", "failing", "settle", "releasing"}
    BY <1>1, <2>1, <2>2, <2>3 DEF TaskState
  <2>5. /\ renewal'[c]["main"] = Quiet /\ renewal'[c]["beat"] = renewal[c]["beat"]
    BY <1>1, <2>1
  <2>6. /\ r.at \in Nat /\ r.at <= now
    BY <1>2, <1>3 DEF TimesOf
  <2> HIDE DEF r
  <2>7. TimesOf(c)'
    BY <1>1, <1>3, <2>4, <2>5, <2>6 DEF TimesOf, Quiet
  <2> QED
    BY <1>1, <1>3, <2>1, <2>4, <2>7 DEF LeaseInvOf, KeptOf, StartOf, Kept, Before, Preparing
<1>12. CASE Answered(c, "beat")
  <2> DEFINE r == renewal[c]["beat"]
             ok == InTime(c, "beat")
  <2>1. /\ r.stage \in {"yes", "no"} /\ UNCHANGED <<lease, kept>>
        /\ task' = [task EXCEPT ![c] = IF ok THEN [task[c] EXCEPT !.until = r.at + Ttl]
                                       ELSE [task[c] EXCEPT !.lost = TRUE]]
        /\ renewal' = [renewal EXCEPT ![c]["beat"] = Quiet]
    BY <1>12 DEF Answered
  <2>2. ok => r.stage = "yes" /\ now < r.deadline
    BY DEF InTime
  <2>3. r.at \in Nat /\ r.at <= now /\ r.deadline \in Nat
    BY <1>2, <1>3 DEF TimesOf
  <2> HIDE DEF ok
  <2>4. /\ task'[c].until = (IF ok THEN r.at + Ttl ELSE task[c].until)
        /\ task'[c].at = task[c].at /\ task'[c].pc = task[c].pc
        /\ task'[c].shared = task[c].shared
    BY <1>1, <2>1 DEF TaskState
  <2>5. renewal'[c]["beat"] = Quiet /\ renewal'[c]["main"] = renewal[c]["main"]
    BY <1>1, <2>1
  <2>6. TimesOf(c)'
    BY <1>1, <1>3, <2>3, <2>4, <2>5 DEF TimesOf, Quiet
  <2>7. KeptOf(c)'
    BY <1>1, <1>3, <2>1, <2>4 DEF KeptOf, Kept
  <2>8. CASE renewal[c]["main"] # Quiet \/ ~ok
    <3>1. Deadline(c)' = Deadline(c)
      BY <2>4, <2>5, <2>8 DEF Deadline
    <3>2. StartOf(c)'
      BY <1>1, <1>3, <2>1, <2>4, <2>5, <3>1 DEF StartOf, Quiet
    <3> QED
      BY <2>6, <2>7, <3>2 DEF LeaseInvOf
  <2>9. CASE renewal[c]["main"] = Quiet /\ ok
    <3>1. Deadline(c)' = r.at + Ttl /\ Deadline(c) = task[c].until
      BY <2>4, <2>5, <2>9 DEF Deadline
    <3>2. task[c].pc \in Preparing =>
            /\ r.deadline = task[c].until
            /\ c \in kept
            /\ lease[ThreadOf[c]].token = c => lease[ThreadOf[c]].until >= r.at + Ttl
      BY <1>3, <2>2, <2>9, <3>1 DEF StartOf
    <3>3. \A k \in Slot : renewal'[c][k].stage # "sent"
      BY <1>1, <2>5, <2>9 DEF Quiet
    <3>4. StartOf(c)'
      BY <1>1, <2>1, <2>4, <2>5, <3>1, <3>2, <3>3 DEF StartOf, Quiet
    <3> QED
      BY <2>6, <2>7, <3>4 DEF LeaseInvOf
  <2> QED
    BY <2>8, <2>9
<1> QED
  BY <1>1, <1>4, <1>5, <1>6, <1>7, <1>8, <1>9, <1>11, <1>12 DEF Keep

LEMMA TickKeepsLease ==
  ASSUME NEW c \in Task, Typed, LeaseInvOf(c), Tick
  PROVE  LeaseInvOf(c)'
<1>1. /\ now \in Nat /\ now' = now + 1 /\ Ttl \in Nat /\ ThreadOf[c] \in Thread
      /\ lease \in [Thread -> [token : Task \cup {None}, until : Late]]
      /\ task[c] \in TaskState /\ \A k \in Slot : renewal[c][k] \in Renewal
      /\ UNCHANGED <<lease, task, renewal>>
  BY Numbers, SubagentAssumption DEF Tick, Typed, Time, docs, taskVars
<1>2. /\ task[c].at \in Nat /\ task[c].until \in Nat /\ lease[ThreadOf[c]].until \in Nat
      /\ \A k \in Slot : renewal[c][k].at \in Nat /\ renewal[c][k].deadline \in Nat
  BY <1>1, Numbers DEF TaskState, Renewal, Time, Late
<1>3. /\ c \in kept' => c \in kept
      /\ c \in kept' /\ lease[ThreadOf[c]].token = c => lease[ThreadOf[c]].until > now'
      /\ c \in kept /\ (lease[ThreadOf[c]].token = c => lease[ThreadOf[c]].until > now')
           => c \in kept'
  BY DEF Tick
<1>4. TimesOf(c)'
  BY <1>1, <1>2 DEF LeaseInvOf, TimesOf
<1>5. KeptOf(c)'
  BY <1>1, <1>2, <1>3 DEF LeaseInvOf, KeptOf, Kept
<1>6. Deadline(c)' = Deadline(c) /\ Deadline(c) \in Nat
  <2>1. "main" \in Slot
    BY DEF Slot
  <2> QED
    BY <1>1, <1>2, <2>1 DEF Deadline
<1>7. StartOf(c)'
  BY <1>1, <1>2, <1>3, <1>6 DEF LeaseInvOf, StartOf
<1> QED
  BY <1>4, <1>5, <1>7 DEF LeaseInvOf

LEMMA LeaseStep == TypeInv /\ LeaseInv /\ [Next]_vars => LeaseInv'
<1> SUFFICES ASSUME TypeInv, LeaseInv, [Next]_vars, NEW c \in Task
             PROVE  LeaseInvOf(c)'
  BY DEF LeaseInv
<1>1. Typed /\ LeaseInvOf(c)
  BY TypedIs DEF LeaseInv
<1>2. CASE Tick
  BY <1>1, <1>2, TickKeepsLease
<1>3. ASSUME NEW e \in Task, Move(e) \/ Write(e) \/ Keep(e)
      PROVE  LeaseInvOf(c)'
  <2>1. CASE e = c
    BY <1>1, <1>3, <2>1, MoveKeepsLease, WriteKeepsLease, KeepKeepsLease
  <2>2. CASE e # c
    BY <1>1, <1>3, <2>2, TasksLeave, LeftKeeps
  <2> QED
    BY <2>1, <2>2
<1>4. ASSUME NEW d \in Deletion, Delete(d) \/ Refence(d)
      PROVE  LeaseInvOf(c)'
  BY <1>1, <1>4, DeletionsLeave, LeftKeeps
<1>5. CASE UNCHANGED vars
  BY <1>1, <1>5 DEF vars, docs, taskVars, LeaseInvOf, TimesOf, KeptOf, StartOf, Kept, Deadline
<1> QED
  BY <1>2, <1>3, <1>4, <1>5, Steps

LEMMA StartsUnderLeaseStep ==
  ASSUME TypeInv, LeaseInv, [Next]_vars, NEW c \in Task, At(c, "begin"), task'[c].pc = "run"
  PROVE  /\ c \in kept
         /\ lease[ThreadOf[c]].token = c
              => lease[ThreadOf[c]].until >= renewal[c]["main"].deadline
<1> USE DEF docs, rows, deletionVars, taskVars
<1>1. /\ Typed /\ LeaseInvOf(c) /\ task \in [Task -> TaskState] /\ task[c] \in TaskState
      /\ task[c].pc = "begin" /\ task'[c] # task[c]
  BY TypedIs DEF LeaseInv, Typed, At
<1>2. Move(c) \/ Write(c) \/ Keep(c)
  <2>1. CASE Tick \/ UNCHANGED vars
    BY <1>1, <2>1 DEF Tick, vars
  <2>2. ASSUME NEW e \in Task \ {c}, Move(e) \/ Write(e) \/ Keep(e)
        PROVE  FALSE
    BY <1>1, <2>2, TasksLeave DEF Left
  <2>3. ASSUME NEW d \in Deletion, Delete(d) \/ Refence(d)
        PROVE  FALSE
    BY <1>1, <2>3, DeletionsLeave DEF Left
  <2> QED
    BY <2>1, <2>2, <2>3, Steps
<1>3. ASSUME Move(c)
      PROVE  FALSE
  <2>1. PICK pc \in TaskPc : Goto(c, pc) /\ pc # "run"
    BY <1>1, <1>3, MoveGoes
  <2>2. task'[c].pc = pc
    BY <1>1, <2>1 DEF Goto, TaskState
  <2> QED
    BY <2>1, <2>2
<1>4. ~Write(c)
  <2>1. ~(SendAcquire(c) \/ AcquireRefused(c) \/ Rollback(c) \/ Orphan(c) \/ Touch(c) \/ Release(c))
    BY <1>1 DEF SendAcquire, AcquireRefused, Rollback, Orphan, Touch, Release, At
  <2>2. \A heard \in BOOLEAN :
          ~(Reserve(c, heard) \/ Acquire(c, heard) \/ Close(c, heard) \/ Seed(c, heard) \/ Save(c, heard))
    BY <1>1 DEF Reserve, Acquire, Close, Seed, Save, At
  <2> QED
    BY <2>1, <2>2 DEF Write
<1>5. CASE NoRenewal(c) \/ OwnerUnread(c)
  <2>1. task' = [task EXCEPT ![c] = Renewed(c, FALSE)]
    BY <1>1, <1>5 DEF NoRenewal, OwnerUnread, At
  <2>2. Renewed(c, FALSE).pc \in {"failing", "releasing"}
    BY <1>1, RenewedType DEF Renewing
  <2> QED
    BY <1>1, <2>1, <2>2
<1>6. CASE SendRenewal(c) \/ Heartbeat(c) \/ \E k \in Slot : Renew(c, k) \/ RenewalFails(c, k)
  BY <1>1, <1>6 DEF SendRenewal, Heartbeat, Renew, RenewalFails
<1>7. CASE Crash(c)
  BY <1>1, <1>7 DEF Crash, Fresh
<1>8. CASE Answered(c, "beat")
  BY <1>1, <1>8 DEF Answered, TaskState
<1>9. CASE Answered(c, "main")
  <2>1. InTime(c, "main")
    <3>1. ASSUME ~InTime(c, "main")
          PROVE  FALSE
      <4>3. InTime(c, "main") = FALSE
        BY <3>1 DEF InTime
      <4>1. task' = [task EXCEPT ![c] = [Renewed(c, FALSE) EXCEPT !.lost = TRUE]]
        BY <1>9, <4>3 DEF Answered
      <4>2. Renewed(c, FALSE) \in TaskState
            /\ Renewed(c, FALSE).pc \in {"failing", "releasing"}
        BY <1>1, RenewedType DEF Renewing
      <4> QED
        BY <1>1, <4>1, <4>2 DEF TaskState
    <3> QED
      BY <3>1
  <2>2. renewal[c]["main"].stage = "yes" /\ now < renewal[c]["main"].deadline
    BY <2>1 DEF InTime
  <2>3. Deadline(c) = renewal[c]["main"].deadline
    BY <2>2 DEF Deadline, Quiet
  <2> QED
    BY <1>1, <2>2, <2>3 DEF LeaseInvOf, StartOf, Preparing
<1> QED
  BY <1>2, <1>3, <1>4, <1>5, <1>6, <1>7, <1>8, <1>9 DEF Keep, Slot

\* A child starts to work only when the lease it took has not run out since, and
\* when what is stored of it, unless it was deleted with its thread, lasts until
\* the deadline of the renewal that lets it start.  renewSharedLeaseFence.
THEOREM StartsUnderLeaseHolds == Spec => StartsUnderLease
<1>1. Init => TypeInv /\ LeaseInv
  BY TypeInit, LeaseInit
<1>2. TypeInv /\ LeaseInv /\ [Next]_vars => TypeInv' /\ LeaseInv'
  BY TypeStep, LeaseStep
<1>3. TypeInv /\ LeaseInv /\ [Next]_vars
        => [\A c \in Task :
              At(c, "begin") /\ task'[c].pc = "run" =>
                /\ c \in kept
                /\ lease[ThreadOf[c]].token = c
                     => lease[ThreadOf[c]].until >= renewal[c]["main"].deadline]_vars
  BY StartsUnderLeaseStep
<1> QED
  BY <1>1, <1>2, <1>3, PTL DEF Spec, StartsUnderLease

-----------------------------------------------------------------------------
(* Drains.                                                                 *)

\* Where a task whose owner is fenced may be while it has its lease.
Stopped == {"recheck", "rollback", "failing", "releasing", "ended"}

Closed(d) == deletion[d].pc \in Deleting /\ FenceHeld(d)
Holds(c) == task[c].shared /\ Kept(c)

\* A deletion that deletes behind its fence has drained every lease, and no task
\* that took one since is past the recheck of its owner or renews it.
DrainInvOf(d, c) ==
  Closed(d) /\ Holds(c) => task[c].pc \in Stopped /\ renewal[c]["main"] = Quiet
DrainInv == \A d \in Deletion, c \in Task : DrainInvOf(d, c)

LEMMA DrainInit == Init => DrainInv
  BY DEF Init, DrainInv, DrainInvOf, Closed, Unstarted, Deleting

LEMMA ClosedShutsOut ==
  ASSUME NEW d \in Deletion, TypeInv, FenceInvOf(d), Closed(d)
  PROVE  ~Admissible
<1>1. now \in Nat /\ fences[d] \in Nat /\ deletion[d].fencedUntil \in Nat
  BY DEF TypeInv, TypeOK, Time, Late, DeletionState
<1> QED
  BY <1>1 DEF Closed, FenceInvOf, Fenced, FenceHeld, Admissible

\* A deletion closes its owner's threads only when no lease is live.
LEMMA ClosesWhenDrained ==
  ASSUME NEW d \in Deletion, TypeInv, FenceInvOf(d), Delete(d) \/ Refence(d), Closed(d)'
  PROVE  Closed(d) \/ LiveLeases = {}
<1>1. /\ deletion \in [Deletion -> DeletionState] /\ deletion[d] \in DeletionState
      /\ now \in Nat /\ beat[d] \in Beat
  BY DEF TypeInv, TypeOK, Time
<1>2. now' = now
  BY DEF Delete, Refence, CaptureFence, Drained, DrainTimesOut, Find, Descend, DeleteRows,
         RestoreRefused, ReleaseFence, DeletionCallFails, TakeFence, DeleteWave, Judge,
         BeatFence, RenewFence, FenceGone, FenceAgain, FenceAnswered, BeatFails, DeletionCrash
<1>goes. ~End(d) /\ ~Leave(d, "releasing")
      /\ \A pc : DGoto(d, pc) => pc \in Deleting
  <2>1. End(d) => deletion'[d].pc = "ended"
    BY <1>1 DEF End, Unstarted
  <2>2. Leave(d, "releasing") => deletion'[d].pc = "releasing"
    BY <1>1 DEF Leave, DeletionState
  <2>3. \A pc : DGoto(d, pc) => deletion'[d].pc = pc
    BY <1>1 DEF DGoto, DeletionState
  <2> QED
    BY <2>1, <2>2, <2>3 DEF Closed, Deleting
<1>3. CASE CaptureFence(d)
  BY <1>1, <1>3 DEF CaptureFence, Closed, Deleting, DeletionState
<1>4. CASE Drained(d)
  BY <1>4 DEF Drained
<1>5. CASE DrainTimesOut(d) \/ RestoreRefused(d) \/ ReleaseFence(d) \/ DeletionCrash(d)
  BY <1>goes, <1>5 DEF DrainTimesOut, RestoreRefused, ReleaseFence, DeletionCrash, Deleting
<1>6. CASE Find(d) \/ Descend(d) \/ DeleteRows(d)
  BY <1>1, <1>2, <1>6 DEF Find, Descend, DeleteRows, Leave, DGoto, DAt, Closed, Deleting,
                          FenceHeld, DeletionState
<1>7. CASE DeletionCallFails(d)
  <2>1. DAt(d, "rows") /\ Leave(d, "stopping")
    BY <1>goes, <1>7 DEF DeletionCallFails
  <2> QED
    BY <1>1, <1>2, <2>1 DEF Leave, DAt, Closed, Deleting, FenceHeld, DeletionState
<1>8. ASSUME NEW heard \in BOOLEAN, TakeFence(d, heard)
      PROVE  FALSE
  BY <1>goes, <1>8 DEF TakeFence, Deleting
<1>9. ASSUME NEW heard \in BOOLEAN, DeleteWave(d, heard)
      PROVE  Closed(d)
  BY <1>1, <1>2, <1>9 DEF DeleteWave, Leave, DAt, Closed, Deleting, FenceHeld, DeletionState
<1>10. CASE Judge(d)
  BY <1>1, <1>2, <1>10 DEF Judge, DGoto, Closed, Deleting, FenceHeld, DeletionState
<1>11. CASE BeatFence(d) \/ RenewFence(d) \/ FenceAgain(d) \/ BeatFails(d)
  BY <1>2, <1>11 DEF BeatFence, RenewFence, FenceAgain, BeatFails, Closed, FenceHeld
<1>12. CASE FenceGone(d)
  BY <1>1, <1>2, <1>12 DEF FenceGone, Closed, FenceHeld, DeletionState
<1>13. CASE FenceAnswered(d)
  <2>1. CASE DAt(d, "restoring")
    BY <1>1, <1>13, <2>1 DEF FenceAnswered, Closed, Deleting, DeletionState
  <2>2. CASE ~DAt(d, "restoring")
    <3>1. beat[d].deadline = deletion[d].fencedUntil
      BY <1>13, <2>2 DEF FenceAnswered, FenceInvOf, DAt
    <3>2. /\ deletion'[d].pc = deletion[d].pc
          /\ deletion'[d].lapsed \/ (now < beat[d].deadline /\ deletion'[d].lapsed = deletion[d].lapsed)
      BY <1>1, <1>13, <2>2 DEF FenceAnswered, DeletionState
    <3> QED
      BY <3>1, <3>2 DEF Closed, FenceHeld
  <2> QED
    BY <2>1, <2>2
<1> QED
  BY <1>3, <1>4, <1>5, <1>6, <1>7, <1>8, <1>9, <1>10, <1>11, <1>12, <1>13
     DEF Delete, Refence

LEMMA MoveKeepsDrain ==
  ASSUME NEW d \in Deletion, NEW c \in Task, TypeInv, LeaseInvOf(c), Closed(d), ~Admissible,
         DrainInvOf(d, c), Move(c), Holds(c)'
  PROVE  task'[c].pc \in Stopped /\ renewal'[c]["main"] = Quiet
<1> USE DEF docs, rows, deletionVars, taskVars
<1>1. /\ Typed /\ task \in [Task -> TaskState] /\ task[c] \in TaskState
      /\ UNCHANGED <<renewal, lease, kept>>
  BY TypedIs DEF Typed, Move, ProbeOwner, ReadParent, Recheck, ReadTranscript, ParentAgain,
                 RunEnds, Settle, CallFails
<1>2. PICK pc \in TaskPc : Goto(c, pc)
  BY <1>1, MoveGoes
<1>3. task'[c].pc = pc /\ task'[c].shared = task[c].shared
  BY <1>1, <1>2 DEF Goto, TaskState
<1>4. task[c].pc \in Stopped /\ renewal[c]["main"] = Quiet
  BY <1>1, <1>3 DEF DrainInvOf, Holds, Kept
<1>5. CASE Recheck(c)
  <2>1. Goto(c, "rollback")
    BY <1>5 DEF Recheck
  <2>2. task'[c].pc = "rollback"
    BY <1>1, <2>1 DEF Goto, TaskState
  <2> QED
    BY <1>1, <1>4, <2>2 DEF Stopped
<1>6. CASE CallFails(c)
  <2>1. Goto(c, Rescue(c)) /\ Rescue(c) \in Stopped
    BY <1>4, <1>6 DEF CallFails, Rescue, Stopped
  <2>2. task'[c].pc = Rescue(c)
    BY <1>1, <2>1 DEF Goto, TaskState
  <2> QED
    BY <1>1, <1>4, <2>1, <2>2
<1>7. ~(ProbeOwner(c) \/ ReadParent(c) \/ ReadTranscript(c) \/ ParentAgain(c) \/ RunEnds(c)
        \/ Settle(c))
  BY <1>4 DEF ProbeOwner, ReadParent, ReadTranscript, ParentAgain, RunEnds, Settle, At, Stopped
<1> QED
  BY <1>5, <1>6, <1>7 DEF Move

LEMMA WriteKeepsDrain ==
  ASSUME NEW d \in Deletion, NEW c \in Task, TypeInv, LeaseInvOf(c), Closed(d),
         DrainInvOf(d, c), Write(c), Holds(c)'
  PROVE  task'[c].pc \in Stopped /\ renewal'[c]["main"] = Quiet
<1> USE DEF docs, rows, deletionVars, taskVars
<1>1. /\ Typed /\ task \in [Task -> TaskState] /\ task[c] \in TaskState /\ ThreadOf[c] \in Thread
      /\ lease \in [Thread -> [token : Task \cup {None}, until : Late]] /\ NoLease.token # c
      /\ RenewalInv
  BY TypedIs, SubagentAssumption DEF Typed, NoLease
<1>2. UNCHANGED renewal
  BY DEF Write, SendAcquire, AcquireRefused, Rollback, Orphan, Touch, Release,
         Reserve, Acquire, Close, Seed, Save
<1>3. CASE Acquire(c, TRUE)
  <2>1. task'[c].pc = "recheck"
    BY <1>1, <1>3 DEF Acquire, TaskState
  <2>2. renewal[c]["main"] = Quiet
    BY <1>1, <1>3 DEF RenewalInv, Acquire, At, Renewing
  <2> QED
    BY <1>2, <2>1, <2>2 DEF Stopped
<1>4. CASE Acquire(c, FALSE) \/ SendAcquire(c) \/ AcquireRefused(c)
           \/ \E heard \in BOOLEAN : Reserve(c, heard)
  <2>1. task[c].pc \in Before
    BY <1>4 DEF Acquire, SendAcquire, AcquireRefused, Reserve, At, Before
  <2>2. ~task[c].shared
    BY <2>1 DEF LeaseInvOf, KeptOf
  <2>3. task'[c].shared = task[c].shared
    <3>1. CASE Acquire(c, FALSE)
      BY <1>1, <3>1 DEF Acquire, TaskState
    <3>2. CASE SendAcquire(c) \/ AcquireRefused(c)
      BY <1>1, <3>2 DEF SendAcquire, AcquireRefused, TaskState
    <3>3. CASE \E heard \in BOOLEAN : Reserve(c, heard)
      BY <1>1, <3>3 DEF Reserve, TaskState
    <3> QED
      BY <1>4, <3>1, <3>2, <3>3
  <2> QED
    BY <2>2, <2>3 DEF Holds
<1>5. CASE Release(c)
  <2>1. task'[c].shared = FALSE
    BY <1>1, <1>5 DEF Release, Fresh
  <2> QED
    BY <2>1 DEF Holds
<1>6. ASSUME NEW pc, Goto(c, pc), c \in kept' => c \in kept,
             lease'[ThreadOf[c]].token = c => lease[ThreadOf[c]].token = c
      PROVE  /\ task'[c].pc = pc /\ task[c].pc \in Stopped
             /\ renewal'[c]["main"] = Quiet
  BY <1>1, <1>2, <1>6 DEF Goto, TaskState, DrainInvOf, Holds, Kept
<1>7. CASE Rollback(c) \/ Orphan(c) \/ Touch(c)
  <2>1. PICK pc : Goto(c, pc) /\ (At(c, "rollback") => pc = "failing")
    BY <1>7 DEF Rollback, Orphan, Touch, At
  <2>2. kept' = kept /\ (lease'[ThreadOf[c]].token = c => lease[ThreadOf[c]].token = c)
    BY <1>1, <1>7 DEF Rollback, Orphan, Touch, DeleteThread, DeleteConvs
  <2>3. task'[c].pc = pc /\ task[c].pc \in Stopped /\ renewal'[c]["main"] = Quiet
    BY <1>6, <2>1, <2>2
  <2>4. At(c, "rollback")
    BY <1>7, <2>3 DEF Rollback, Orphan, Touch, At, Stopped
  <2> QED
    BY <2>1, <2>3, <2>4 DEF Stopped
<1>8. ASSUME NEW heard \in BOOLEAN, Close(c, heard) \/ Seed(c, heard) \/ Save(c, heard)
      PROVE  FALSE
  <2>1. PICK pc : Goto(c, pc) /\ UNCHANGED lease /\ (c \in kept' => c \in kept)
    BY <1>8 DEF Close, Seed, Save, Onward, WriteResult
  <2>2. task[c].pc \in Stopped
    BY <1>6, <2>1
  <2> QED
    BY <1>8, <2>2 DEF Close, Seed, Save, At, Stopped
<1> QED
  BY <1>3, <1>4, <1>5, <1>7, <1>8 DEF Write

LEMMA KeepKeepsDrain ==
  ASSUME NEW d \in Deletion, NEW c \in Task, TypeInv, Closed(d), ~Admissible,
         DrainInvOf(d, c), Keep(c), Holds(c)'
  PROVE  task'[c].pc \in Stopped /\ renewal'[c]["main"] = Quiet
<1> USE DEF docs, rows, deletionVars, taskVars
<1>1. /\ Typed /\ task \in [Task -> TaskState] /\ task[c] \in TaskState /\ ThreadOf[c] \in Thread
      /\ lease \in [Thread -> [token : Task \cup {None}, until : Late]]
      /\ renewal \in [Task -> [Slot -> Renewal]] /\ "main" \in Slot /\ Slot = {"main", "beat"}
  BY TypedIs, SubagentAssumption DEF Typed, Slot
<1>2. ASSUME task'[c].shared = task[c].shared, c \in kept' => c \in kept,
             lease'[ThreadOf[c]].token = lease[ThreadOf[c]].token
      PROVE  task[c].pc \in Stopped /\ renewal[c]["main"] = Quiet /\ task[c].shared
  BY <1>2 DEF DrainInvOf, Holds, Kept
<1>3. CASE NoRenewal(c) \/ OwnerUnread(c)
  <2>1. PICK ok \in BOOLEAN : task' = [task EXCEPT ![c] = Renewed(c, ok)]
    BY <1>3 DEF NoRenewal, OwnerUnread
  <2>2. task[c].pc \in Renewing /\ UNCHANGED <<renewal, lease, kept>>
    BY <1>3 DEF NoRenewal, OwnerUnread
  <2>3. task'[c].shared = task[c].shared
    BY <1>1, <2>1, <2>2, RenewedType
  <2>4. task[c].pc = "failing" /\ task[c].shared /\ renewal[c]["main"] = Quiet
    BY <1>2, <2>2, <2>3 DEF Stopped, Renewing
  <2>5. task' = [task EXCEPT ![c] = Renewed(c, FALSE)]
    BY <1>3, <2>4 DEF NoRenewal, OwnerUnread
  <2>6. task'[c].pc = "releasing"
    BY <1>1, <2>2, <2>4, <2>5, RenewedType
  <2> QED
    BY <2>2, <2>4, <2>6 DEF Stopped
<1>4. CASE SendRenewal(c)
  BY <1>4 DEF SendRenewal
<1>5. CASE Crash(c)
  BY <1>1, <1>5 DEF Crash, Fresh, Holds
<1>6. CASE Heartbeat(c)
  <2>1. UNCHANGED <<task, lease, kept>> /\ renewal'[c]["main"] = renewal[c]["main"]
    BY <1>1, <1>6 DEF Heartbeat, Send
  <2> QED
    BY <1>2, <2>1
<1>7. ASSUME NEW k \in Slot, Renew(c, k) \/ RenewalFails(c, k)
      PROVE  task'[c].pc \in Stopped /\ renewal'[c]["main"] = Quiet
  <2>1. /\ UNCHANGED task /\ (c \in kept' => c \in kept)
        /\ renewal[c][k].stage \in {"sent", "yes"}
        /\ k # "main" => renewal'[c]["main"] = renewal[c]["main"]
    BY <1>1, <1>7 DEF Renew, RenewalFails
  <2>2. lease'[ThreadOf[c]].token = lease[ThreadOf[c]].token
    BY <1>1, <1>7 DEF Renew, RenewalFails
  <2>3. task[c].pc \in Stopped /\ renewal[c]["main"] = Quiet
    BY <1>2, <2>1, <2>2
  <2>4. k # "main"
    BY <2>1, <2>3 DEF Quiet
  <2> QED
    BY <2>1, <2>3, <2>4
<1>8. CASE Answered(c, "main")
  <2>1. renewal[c]["main"] # Quiet /\ UNCHANGED <<lease, kept>>
    BY <1>8 DEF Answered, Quiet
  <2>2. task'[c].shared = task[c].shared
    <3> DEFINE ok == InTime(c, "main")
               told == Renewed(c, ok)
    <3>1. task' = [task EXCEPT ![c] = IF ok THEN [told EXCEPT !.until = renewal[c]["main"].at + Ttl]
                                      ELSE [told EXCEPT !.lost = TRUE]]
      BY <1>8 DEF Answered
    <3>2. ok \in BOOLEAN /\ task[c].pc \in Renewing
      BY <1>1, <2>1 DEF InTime, Typed, RenewalInv
    <3> HIDE DEF ok
    <3>3. told \in TaskState /\ told.shared = task[c].shared
      BY <1>1, <3>2, RenewedType
    <3> HIDE DEF told
    <3> QED
      BY <1>1, <3>1, <3>2, <3>3 DEF TaskState
  <2> QED
    BY <1>2, <2>1, <2>2
<1>9. CASE Answered(c, "beat")
  <2>1. /\ UNCHANGED <<lease, kept>> /\ renewal'[c]["main"] = renewal[c]["main"]
        /\ task'[c].shared = task[c].shared /\ task'[c].pc = task[c].pc
    BY <1>1, <1>9 DEF Answered, TaskState
  <2> QED
    BY <1>2, <2>1
<1> QED
  BY <1>1, <1>3, <1>4, <1>5, <1>6, <1>7, <1>8, <1>9 DEF Keep

LEMMA DrainStep == TypeInv /\ FenceInv /\ LeaseInv /\ DrainInv /\ [Next]_vars => DrainInv'
<1> SUFFICES ASSUME TypeInv, FenceInv, LeaseInv, DrainInv, [Next]_vars,
                    NEW d \in Deletion, NEW c \in Task
             PROVE  DrainInvOf(d, c)'
  BY DEF DrainInv
<1>1. Typed /\ FenceInvOf(d) /\ LeaseInvOf(c) /\ DrainInvOf(d, c)
  BY TypedIs DEF FenceInv, LeaseInv, DrainInv
\* Nothing of c changes, but its lease may be gone.
<1>2. ASSUME Left(c), Closed(d)' => Closed(d) \/ LiveLeases = {}
      PROVE  DrainInvOf(d, c)'
  <2>1. Holds(c)' => Holds(c) /\ LiveLeases # {}
    <3>1. ThreadOf[c] \in Thread /\ c # None
      BY SubagentAssumption
    <3> QED
      BY <1>1, <1>2, <3>1 DEF Left, Holds, Kept, LeaseInvOf, KeptOf, LiveLeases
  <2> QED
    BY <1>1, <1>2, <2>1 DEF DrainInvOf, Left
<1>3. CASE Tick
  <2>1. now \in Nat /\ now' = now + 1 /\ UNCHANGED <<task, renewal, lease, deletion>>
        /\ (c \in kept' => c \in kept) /\ deletion[d].fencedUntil \in Nat
    BY <1>1, <1>3 DEF Tick, Typed, Time, Late, DeletionState, docs, taskVars, deletionVars
  <2> QED
    BY <1>1, <2>1 DEF DrainInvOf, Closed, FenceHeld, Holds, Kept
<1>4. ASSUME NEW e \in Task, Move(e) \/ Write(e) \/ Keep(e)
      PROVE  DrainInvOf(d, c)'
  <2>1. UNCHANGED <<now, deletion>>
    BY <1>4, TaskFrame
  <2>2. Closed(d)' => Closed(d)
    BY <2>1 DEF Closed, FenceHeld
  <2>3. CASE e # c
    BY <1>1, <1>2, <1>4, <2>2, <2>3, TasksLeave
  <2>4. CASE e = c
    <3> SUFFICES ASSUME Closed(d), Holds(c)'
                 PROVE  task'[c].pc \in Stopped /\ renewal'[c]["main"] = Quiet
      BY <2>2 DEF DrainInvOf
    <3>1. ~Admissible
      BY <1>1, ClosedShutsOut
    <3> QED
      BY <1>1, <1>4, <2>4, <3>1, MoveKeepsDrain, WriteKeepsDrain, KeepKeepsDrain
  <2> QED
    BY <2>3, <2>4
<1>5. ASSUME NEW x \in Deletion, Delete(x) \/ Refence(x)
      PROVE  DrainInvOf(d, c)'
  <2>1. Left(c)
    BY <1>1, <1>5, DeletionsLeave
  <2>2. CASE x = d
    BY <1>1, <1>2, <1>5, <2>1, <2>2, ClosesWhenDrained
  <2>3. CASE x # d
    <3>1. Untouched(d)
      BY <1>5, <2>3, OthersAreUntouched
    <3> QED
      BY <1>2, <2>1, <3>1 DEF Untouched, Closed, FenceHeld
  <2> QED
    BY <2>2, <2>3
<1>6. CASE UNCHANGED vars
  BY <1>1, <1>6 DEF vars, docs, taskVars, deletionVars, DrainInvOf, Closed, FenceHeld, Holds, Kept
<1> QED
  BY <1>3, <1>4, <1>5, <1>6, Steps

\* While a deletion whose fence is held deletes, no task with the lease it took
\* is past the recheck of its owner, whatever was late, lost or repeated.
\* prepareThread's recheck and withOwnerDeletionFence.
THEOREM DrainedIsStoppedHolds == Spec => []DrainedIsStopped
<1> DEFINE Inv == TypeInv /\ FenceInv /\ LeaseInv /\ DrainInv
<1>1. Init => Inv
  BY TypeInit, FenceInit, LeaseInit, DrainInit
<1>2. Inv /\ [Next]_vars => Inv'
  BY TypeStep, FenceStep, LeaseStep, DrainStep
<1>3. Inv => DrainedIsStopped
  BY DEF DrainInv, DrainInvOf, DrainedIsStopped, Closed, Holds, Stopped, Working
<1> HIDE DEF Inv
<1> QED
  BY <1>1, <1>2, <1>3, PTL DEF Spec

-----------------------------------------------------------------------------
(* Results.                                                                *)

Unread == Before \cup {"recheck", "read"}

\* What a task that is yet to write a result has or does.
MayWrite(c) ==
  \/ task[c].pc \in {"close", "touchClosed", "seed", "parentAgain", "begin", "run",
                     "ending", "save", "touch"}
  \/ task[c].outcome = "completed"
  \/ c \in input

Runs(c, e) == c # e /\ AttemptOf[c] = AttemptOf[e]

\* A run that has not read the transcript has written nothing and is not to.
UnreadInvOf(c) ==
  /\ task[c].pc \in Unread => ~MayWrite(c)
  /\ task[c].pc \in Before => result[c] = "none"

\* A run that holds the lease after another wrote a result is not to write one.
ReadInvOf(c, e) ==
  Runs(c, e) /\ result[c] # "none" /\ c \in kept /\ Kept(e) => ~MayWrite(e)

ResultInv ==
  /\ \A c \in Task : UnreadInvOf(c)
  /\ \A c, e \in Task : ReadInvOf(c, e)
  /\ OneResult

LEMMA ResultInit == Init => ResultInv
  BY DEF Init, ResultInv, UnreadInvOf, ReadInvOf, OneResult, MayWrite, Unread, Before, Fresh

\* Steps of others at most delete the rows of a task.
LEMMA OthersForgetRows ==
  ASSUME NEW c \in Task, Typed,
         \/ \E e \in Task \ {c} : Move(e) \/ Write(e) \/ Keep(e)
         \/ \E d \in Deletion : Delete(d) \/ Refence(d)
  PROVE  (c \in input' => c \in input) /\ result'[c] \in {result[c], "none"}
<1> USE DEF docs, rows, taskVars, deletionVars
<1>1. result \in [Task -> Status]
  BY DEF Typed
<1>2. ASSUME NEW C, ForgetRows(C)
      PROVE  (c \in input' => c \in input) /\ result'[c] \in {result[c], "none"}
  BY <1>1, <1>2 DEF ForgetRows
<1>3. ASSUME NEW e \in Task \ {c}, Move(e)
      PROVE  UNCHANGED rows
  BY <1>3 DEF Move, ProbeOwner, ReadParent, Recheck, ReadTranscript, ParentAgain, RunEnds,
              Settle, CallFails
<1>4. ASSUME NEW e \in Task \ {c}, Keep(e)
      PROVE  UNCHANGED rows
  BY <1>4 DEF Keep, NoRenewal, OwnerUnread, SendRenewal, Heartbeat, Crash, Renew,
              RenewalFails, Answered
<1>5. ASSUME NEW e \in Task \ {c}, Write(e)
      PROVE  (c \in input' => c \in input) /\ result'[c] \in {result[c], "none"}
  <2>1. CASE SendAcquire(e) \/ AcquireRefused(e) \/ Release(e)
    BY <2>1 DEF SendAcquire, AcquireRefused, Release
  <2>2. CASE Rollback(e) \/ Orphan(e) \/ Touch(e)
    BY <1>2, <2>2 DEF Rollback, Orphan, Touch, DeleteThread
  <2>3. ASSUME NEW heard \in BOOLEAN, Reserve(e, heard) \/ Acquire(e, heard)
        PROVE  UNCHANGED rows
    BY <2>3 DEF Reserve, Acquire
  <2>4. ASSUME NEW heard \in BOOLEAN, Close(e, heard) \/ Seed(e, heard) \/ Save(e, heard)
        PROVE  (c \in input' => c \in input) /\ result'[c] = result[c]
    BY <1>1, <2>4 DEF Close, Seed, Save, WriteResult
  <2> QED
    BY <1>5, <2>1, <2>2, <2>3, <2>4 DEF Write
<1>6. ASSUME NEW d \in Deletion, Delete(d)
      PROVE  (c \in input' => c \in input) /\ result'[c] \in {result[c], "none"}
  BY <1>2, <1>6 DEF Delete, CaptureFence, Drained, DrainTimesOut, Find, Descend, DeleteRows,
                    RestoreRefused, ReleaseFence, DeletionCallFails, TakeFence, DeleteWave
<1>7. ASSUME NEW d \in Deletion, Refence(d)
      PROVE  UNCHANGED rows
  BY <1>7 DEF Refence, Judge, BeatFence, RenewFence, FenceGone, FenceAgain, FenceAnswered,
              BeatFails, DeletionCrash
<1> QED
  BY <1>3, <1>4, <1>5, <1>6, <1>7

\* A run goes to where it may write a result only past the transcript.
LEMMA MoveMayWrite ==
  ASSUME NEW c \in Task, Typed, Move(c), MayWrite(c)'
  PROVE  \/ MayWrite(c)
         \/ /\ At(c, "read") /\ task'[c].pc \notin Unread
            /\ \A e \in Task : Runs(e, c) => result[e] = "none"
<1> USE DEF docs, rows, taskVars, deletionVars
<1>1. /\ task \in [Task -> TaskState] /\ task[c] \in TaskState
      /\ UNCHANGED input
  BY DEF Typed, Move, ProbeOwner, ReadParent, Recheck, ReadTranscript, ParentAgain, RunEnds,
         Settle, CallFails
<1>2. PICK pc \in TaskPc : Goto(c, pc)
  BY MoveGoes
<1>3. /\ task'[c].pc = pc /\ task'[c].outcome = task[c].outcome
      /\ \A q : Goto(c, q) => q = pc
  <2>1. \A q : Goto(c, q) => task'[c].pc = q
    BY <1>1 DEF Goto, TaskState
  <2>2. task'[c].outcome = task[c].outcome
    BY <1>1, <1>2 DEF Goto, TaskState
  <2> QED
    BY <1>2, <2>1, <2>2
<1>4. ASSUME pc \notin {"close", "touchClosed", "seed", "parentAgain", "begin", "run",
                        "ending", "save", "touch"}
      PROVE  MayWrite(c)
  BY <1>1, <1>3, <1>4 DEF MayWrite
<1>5. CASE ProbeOwner(c) \/ ReadParent(c)
  BY <1>3, <1>4, <1>5 DEF ProbeOwner, ReadParent
<1>6. CASE Recheck(c)
  BY <1>3, <1>4, <1>6 DEF Recheck
<1>7. CASE ReadTranscript(c)
  <2>1. (\E e \in Prior(c) : result[e] # "none") => pc = "releasing"
    BY <1>3, <1>7 DEF ReadTranscript
  <2>2. pc \in {"releasing", "close", "seed"}
    BY <1>3, <1>7 DEF ReadTranscript
  <2> QED
    BY <1>3, <1>4, <1>7, <2>1, <2>2 DEF ReadTranscript, Prior, Runs, Unread, Before
<1>8. CASE ParentAgain(c) \/ RunEnds(c)
  BY <1>8 DEF ParentAgain, RunEnds, At, MayWrite
<1>9. CASE Settle(c)
  <2>1. Rescue(c) \in {"failing", "releasing"}
    BY <1>9 DEF Settle, At, Rescue
  <2> QED
    BY <1>3, <1>4, <1>9, <2>1 DEF Settle, MayWrite
<1>10. CASE CallFails(c)
  <2>1. Rescue(c) = pc /\ pc # task[c].pc
    BY <1>3, <1>10 DEF CallFails
  <2>2. pc \in {"failing", "rollback", "releasing", "ended"}
    BY <2>1 DEF Rescue
  <2> QED
    BY <1>4, <2>2
<1> QED
  BY <1>5, <1>6, <1>7, <1>8, <1>9, <1>10 DEF Move

LEMMA WriteMayWrite ==
  ASSUME NEW c \in Task, Typed, Write(c), MayWrite(c)'
  PROVE  MayWrite(c)
<1> USE DEF docs, rows, taskVars, deletionVars
<1>1. task \in [Task -> TaskState] /\ task[c] \in TaskState
  BY DEF Typed
<1>2. CASE SendAcquire(c) \/ AcquireRefused(c)
  <2>1. /\ task'[c].pc \in {"acquiring", "failing"} /\ task'[c].outcome = task[c].outcome
        /\ UNCHANGED input
    BY <1>1, <1>2 DEF SendAcquire, AcquireRefused, TaskState
  <2> QED
    BY <2>1 DEF MayWrite
<1>3. ASSUME NEW heard \in BOOLEAN, Reserve(c, heard)
      PROVE  MayWrite(c)
  <2>1. /\ task'[c].pc \in {"acquire", "failing"} /\ task'[c].outcome = task[c].outcome
        /\ UNCHANGED input
    BY <1>1, <1>3 DEF Reserve, TaskState
  <2> QED
    BY <2>1 DEF MayWrite
<1>4. ASSUME NEW heard \in BOOLEAN, Acquire(c, heard)
      PROVE  MayWrite(c)
  <2>1. /\ task'[c].pc \in {"recheck", "failing"} /\ task'[c].outcome = task[c].outcome
        /\ UNCHANGED input
    BY <1>1, <1>4 DEF Acquire, TaskState
  <2> QED
    BY <2>1 DEF MayWrite
<1>5. CASE Release(c)
  <2>1. task'[c].pc = "ended" /\ task'[c].outcome = "none" /\ UNCHANGED input
    BY <1>1, <1>5 DEF Release, Fresh
  <2> QED
    BY <2>1 DEF MayWrite
<1>6. CASE Rollback(c) \/ Orphan(c)
  <2>1. PICK pc \in {"failing", "releasing"} : Goto(c, pc)
    BY <1>6 DEF Rollback, Orphan, Rescue, At
  <2>2. task'[c].pc = pc /\ task'[c].outcome = task[c].outcome
    BY <1>1, <2>1 DEF Goto, TaskState
  <2>3. c \in input' => c \in input
    BY <1>6 DEF Rollback, Orphan, DeleteThread, ForgetRows
  <2> QED
    BY <2>2, <2>3 DEF MayWrite
<1>7. CASE Touch(c)
  BY <1>7 DEF Touch, MayWrite
<1>8. ASSUME NEW heard \in BOOLEAN, Close(c, heard) \/ Seed(c, heard) \/ Save(c, heard)
      PROVE  MayWrite(c)
  BY <1>8 DEF Close, Seed, Save, At, MayWrite
<1> QED
  BY <1>2, <1>3, <1>4, <1>5, <1>6, <1>7, <1>8 DEF Write

LEMMA KeepMayWrite ==
  ASSUME NEW c \in Task, Typed, Keep(c), MayWrite(c)'
  PROVE  MayWrite(c)
<1> USE DEF docs, rows, taskVars, deletionVars
<1>1. /\ task \in [Task -> TaskState] /\ task[c] \in TaskState /\ UNCHANGED input
  BY DEF Typed, Keep, NoRenewal, OwnerUnread, SendRenewal, Heartbeat, Crash, Renew,
         RenewalFails, Answered
<1>2. ASSUME NEW ok \in BOOLEAN, task[c].pc \in Renewing,
             task'[c].pc = Renewed(c, ok).pc, task'[c].outcome = Renewed(c, ok).outcome
      PROVE  MayWrite(c)
  BY <1>1, <1>2 DEF Renewed, Renewing, MayWrite, TaskState
<1>3. CASE NoRenewal(c) \/ OwnerUnread(c)
  <2>1. PICK ok \in BOOLEAN : task' = [task EXCEPT ![c] = Renewed(c, ok)]
    BY <1>3 DEF NoRenewal, OwnerUnread
  <2>2. task[c].pc \in Renewing
    BY <1>3 DEF NoRenewal, OwnerUnread
  <2> QED
    BY <1>1, <1>2, <2>1, <2>2
<1>4. CASE SendRenewal(c) \/ Heartbeat(c) \/ \E k \in Slot : Renew(c, k) \/ RenewalFails(c, k)
  BY <1>1, <1>4 DEF SendRenewal, Heartbeat, Renew, RenewalFails, MayWrite
<1>5. CASE Crash(c)
  <2>1. task'[c].pc = "ended" /\ task'[c].outcome = "none"
    BY <1>1, <1>5 DEF Crash, Fresh
  <2> QED
    BY <1>1, <2>1 DEF MayWrite
<1>6. CASE Answered(c, "main")
  <2> DEFINE ok == InTime(c, "main")
             told == Renewed(c, ok)
  <2>1. task' = [task EXCEPT ![c] = IF ok THEN [told EXCEPT !.until = renewal[c]["main"].at + Ttl]
                                    ELSE [told EXCEPT !.lost = TRUE]]
    BY <1>6 DEF Answered
  <2>2. ok \in BOOLEAN /\ task[c].pc \in Renewing
    BY <1>6 DEF InTime, Answered, Quiet, Typed, RenewalInv
  <2> HIDE DEF ok
  <2>3. told \in TaskState
    BY <1>1, <2>2, RenewedType
  <2> HIDE DEF told
  <2>4. task'[c].pc = told.pc /\ task'[c].outcome = told.outcome
    BY <1>1, <2>1, <2>2, <2>3 DEF TaskState
  <2> QED
    BY <1>2, <2>2, <2>4 DEF told
<1>7. CASE Answered(c, "beat")
  <2>1. task'[c].pc = task[c].pc /\ task'[c].outcome = task[c].outcome
    BY <1>1, <1>7 DEF Answered, TaskState
  <2> QED
    BY <1>1, <2>1 DEF MayWrite
<1> QED
  BY <1>3, <1>4, <1>5, <1>6, <1>7 DEF Keep, Slot

\* A run comes to hold a lease by acquiring it.
LEMMA Keeps ==
  ASSUME NEW c \in Task, Typed, [Next]_vars
  PROVE  /\ c \in kept' => c \in kept \/ At(c, "acquiring")
         /\ Kept(c)' => Kept(c) \/ At(c, "acquiring")
<1> USE DEF docs, rows, taskVars, deletionVars
<1>1. /\ lease \in [Thread -> [token : Task \cup {None}, until : Late]]
      /\ ThreadOf[c] \in Thread /\ NoLease.token # c
  BY SubagentAssumption DEF Typed, NoLease
<1>2. CASE Tick \/ UNCHANGED vars
  BY <1>2 DEF Tick, vars, Kept
<1>3. ASSUME Left(c)
      PROVE  (c \in kept' => c \in kept) /\ (Kept(c)' => Kept(c))
  BY <1>3 DEF Left, Kept
<1>4. ASSUME NEW d \in Deletion, Delete(d) \/ Refence(d)
      PROVE  Left(c)
  BY <1>4, DeletionsLeave
<1>5. ASSUME NEW e \in Task \ {c}, Move(e) \/ Write(e) \/ Keep(e)
      PROVE  Left(c)
  BY <1>5, TasksLeave
<1>6. ASSUME c \in kept' => c \in kept,
             lease'[ThreadOf[c]].token = c => lease[ThreadOf[c]].token = c
      PROVE  (c \in kept' => c \in kept) /\ (Kept(c)' => Kept(c))
  BY <1>6 DEF Kept
<1>7. CASE Move(c)
  BY <1>6, <1>7 DEF Move, ProbeOwner, ReadParent, Recheck, ReadTranscript, ParentAgain,
                    RunEnds, Settle, CallFails
<1>8. CASE Keep(c)
  <2>1. CASE NoRenewal(c) \/ OwnerUnread(c) \/ SendRenewal(c) \/ Heartbeat(c) \/ Crash(c)
             \/ \E k \in Slot : RenewalFails(c, k) \/ Answered(c, k)
    BY <1>6, <2>1 DEF NoRenewal, OwnerUnread, SendRenewal, Heartbeat, Crash, RenewalFails,
                      Answered
  <2>2. ASSUME NEW k \in Slot, Renew(c, k)
        PROVE  /\ c \in kept' => c \in kept
               /\ lease'[ThreadOf[c]].token = c => lease[ThreadOf[c]].token = c
    BY <1>1, <2>2 DEF Renew
  <2> QED
    BY <1>6, <1>8, <2>1, <2>2 DEF Keep
<1>9. CASE Write(c)
  <2>1. CASE \E heard \in BOOLEAN : Acquire(c, heard)
    BY <2>1 DEF Acquire
  <2>2. CASE SendAcquire(c) \/ AcquireRefused(c) \/ \E heard \in BOOLEAN : Reserve(c, heard)
    BY <1>6, <2>2 DEF SendAcquire, AcquireRefused, Reserve
  <2>3. CASE Rollback(c) \/ Orphan(c) \/ Touch(c) \/ Release(c)
    BY <1>1, <1>6, <2>3 DEF Rollback, Orphan, Touch, Release, DeleteThread, DeleteConvs
  <2>4. CASE \E heard \in BOOLEAN : Close(c, heard) \/ Seed(c, heard) \/ Save(c, heard)
    BY <1>6, <2>4 DEF Close, Seed, Save, WriteResult
  <2> QED
    BY <1>9, <2>1, <2>2, <2>3, <2>4 DEF Write
<1> QED
  BY <1>2, <1>3, <1>4, <1>5, <1>7, <1>8, <1>9, Steps

LEMMA MayWriteSteps ==
  ASSUME NEW c \in Task, Typed, [Next]_vars, MayWrite(c)'
  PROVE  \/ MayWrite(c)
         \/ /\ At(c, "read") /\ task'[c].pc \notin Unread
            /\ \A e \in Task : Runs(e, c) => result[e] = "none"
<1>1. CASE Tick \/ UNCHANGED vars
  BY <1>1 DEF Tick, vars, rows, taskVars, MayWrite
<1>2. ASSUME Left(c), c \in input' => c \in input
      PROVE  MayWrite(c)
  BY <1>2 DEF Left, MayWrite
<1>3. ASSUME NEW d \in Deletion, Delete(d) \/ Refence(d)
      PROVE  MayWrite(c)
  BY <1>2, <1>3, DeletionsLeave, OthersForgetRows
<1>4. ASSUME NEW e \in Task \ {c}, Move(e) \/ Write(e) \/ Keep(e)
      PROVE  MayWrite(c)
  BY <1>2, <1>4, TasksLeave, OthersForgetRows
<1> QED
  BY <1>1, <1>3, <1>4, Steps, MoveMayWrite, WriteMayWrite, KeepMayWrite

\* A task does not return to where it has not read the transcript.
LEMMA UnreadSteps ==
  ASSUME NEW c \in Task, Typed, [Next]_vars
  PROVE  /\ task'[c].pc \in Before => task[c].pc \in Before
         /\ task'[c].pc \in Unread => task[c].pc \in Unread
<1> USE DEF docs, rows, taskVars, deletionVars
<1>1. task \in [Task -> TaskState] /\ task[c] \in TaskState
  BY DEF Typed
<1>2. CASE task'[c].pc = task[c].pc
  BY <1>2
<1>3. CASE Tick \/ UNCHANGED vars
  BY <1>2, <1>3 DEF Tick, vars
<1>4. ASSUME NEW d \in Deletion, Delete(d) \/ Refence(d)
      PROVE  task'[c].pc = task[c].pc
  BY <1>4, DeletionsLeave DEF Left
<1>5. ASSUME NEW e \in Task \ {c}, Move(e) \/ Write(e) \/ Keep(e)
      PROVE  task'[c].pc = task[c].pc
  BY <1>5, TasksLeave DEF Left
<1>6. CASE Move(c)
  <2>1. PICK pc \in TaskPc : Goto(c, pc) /\ (pc \in Before => task[c].pc \in Before)
    BY <1>6, MoveGoes
  <2>2. \A q : Goto(c, q) => task'[c].pc = q
    BY <1>1 DEF Goto, TaskState
  <2>3. CASE Recheck(c)
    BY <2>1, <2>2, <2>3 DEF Recheck, At, Unread
  <2>4. CASE ProbeOwner(c) \/ ReadParent(c)
    BY <2>4 DEF ProbeOwner, ReadParent, At, Unread, Before
  <2>5. CASE ReadTranscript(c) \/ ParentAgain(c) \/ RunEnds(c)
    BY <2>2, <2>5 DEF ReadTranscript, ParentAgain, RunEnds, Unread, Before
  <2>6. CASE Settle(c) \/ CallFails(c)
    <3>1. /\ At(c, "settle") => Rescue(c) \in {"failing", "releasing"}
          /\ Rescue(c) # task[c].pc => Rescue(c) \notin Unread
      BY DEF Rescue, At, Unread, Before
    <3> QED
      BY <2>2, <2>6, <3>1 DEF Settle, CallFails, Unread, Before
  <2> QED
    BY <1>6, <2>3, <2>4, <2>5, <2>6 DEF Move
<1>7. CASE Write(c)
  <2>1. CASE SendAcquire(c) \/ AcquireRefused(c)
             \/ \E heard \in BOOLEAN : Reserve(c, heard) \/ Acquire(c, heard)
    <3>1. task[c].pc \in Before
      BY <2>1 DEF SendAcquire, AcquireRefused, Reserve, Acquire, At, Before
    <3> QED
      BY <3>1 DEF Unread
  <2>2. CASE Release(c)
    BY <1>1, <2>2 DEF Release, Fresh, Unread, Before
  <2>3. ASSUME NEW heard \in BOOLEAN,
               \/ Rollback(c) \/ Orphan(c) \/ Touch(c)
               \/ Close(c, heard) \/ Seed(c, heard) \/ Save(c, heard)
        PROVE  task'[c].pc \notin Unread
    <3>1. PICK pc : Goto(c, pc) /\ pc \notin Unread
      BY <2>3 DEF Rollback, Orphan, Touch, Close, Seed, Save, Onward, Rescue, At, Unread, Before
    <3> QED
      BY <1>1, <3>1 DEF Goto, TaskState
  <2>4. Before \subseteq Unread
    BY DEF Unread
  <2> QED
    BY <1>7, <2>1, <2>2, <2>3, <2>4 DEF Write
<1>8. CASE Keep(c)
  <2>1. ASSUME NEW ok \in BOOLEAN, task[c].pc \in Renewing, task'[c].pc = Renewed(c, ok).pc
        PROVE  task'[c].pc \notin Unread
    BY <2>1, RenewedType DEF Unread, Before
  <2>2. CASE NoRenewal(c) \/ OwnerUnread(c)
    <3>1. PICK ok \in BOOLEAN : task' = [task EXCEPT ![c] = Renewed(c, ok)]
      BY <2>2 DEF NoRenewal, OwnerUnread
    <3>2. task[c].pc \in Renewing
      BY <2>2 DEF NoRenewal, OwnerUnread
    <3>3. task'[c].pc = Renewed(c, ok).pc
      BY <1>1, <3>1
    <3> QED
      BY <2>1, <3>2, <3>3 DEF Unread
  <2>3. CASE SendRenewal(c) \/ Heartbeat(c)
             \/ \E k \in Slot : Renew(c, k) \/ RenewalFails(c, k)
    BY <1>2, <2>3 DEF SendRenewal, Heartbeat, Renew, RenewalFails
  <2>4. CASE Crash(c)
    BY <1>1, <2>4 DEF Crash, Fresh, Unread, Before
  <2>5. CASE Answered(c, "main")
    <3> DEFINE ok == InTime(c, "main")
               told == Renewed(c, ok)
    <3>1. task' = [task EXCEPT ![c] = IF ok THEN [told EXCEPT !.until = renewal[c]["main"].at + Ttl]
                                      ELSE [told EXCEPT !.lost = TRUE]]
      BY <2>5 DEF Answered
    <3>2. ok \in BOOLEAN /\ task[c].pc \in Renewing
      BY <2>5 DEF InTime, Answered, Quiet, Typed, RenewalInv
    <3> HIDE DEF ok
    <3>3. told \in TaskState
      BY <1>1, <3>2, RenewedType
    <3> HIDE DEF told
    <3>4. task'[c].pc = told.pc
      BY <1>1, <3>1, <3>2, <3>3 DEF TaskState
    <3>5. task'[c].pc \notin Unread
      BY <2>1, <3>2, <3>4 DEF told
    <3> QED
      BY <3>5 DEF Unread
  <2>6. CASE Answered(c, "beat")
    <3>1. task'[c].pc = task[c].pc
      BY <1>1, <2>6 DEF Answered, TaskState
    <3> QED
      BY <1>2, <3>1
  <2> QED
    BY <1>8, <2>2, <2>3, <2>4, <2>5, <2>6 DEF Keep, Slot
<1> QED
  BY <1>2, <1>3, <1>4, <1>5, <1>6, <1>7, <1>8, Steps

\* What a run does that writes a result: it is kept only if it holds its lease.
Writes(c) ==
  /\ MayWrite(c) /\ UNCHANGED lease
  /\ c \in kept' => Kept(c)
  /\ \A e \in Task \ {c} : result'[e] = result[e]

LEMMA ResultSteps ==
  ASSUME NEW c \in Task, Typed, [Next]_vars, result'[c] # "none"
  PROVE  result[c] # "none" \/ Writes(c)
<1> USE DEF docs, rows, taskVars, deletionVars
<1>1. result \in [Task -> Status]
  BY DEF Typed
<1>2. CASE Tick \/ UNCHANGED vars
  BY <1>2 DEF Tick, vars
<1>3. CASE \/ \E e \in Task \ {c} : Move(e) \/ Write(e) \/ Keep(e)
           \/ \E d \in Deletion : Delete(d) \/ Refence(d)
  BY <1>3, OthersForgetRows
<1>4. CASE Move(c) \/ Keep(c)
  <2>1. UNCHANGED result
    BY <1>4 DEF Move, ProbeOwner, ReadParent, Recheck, ReadTranscript, ParentAgain, RunEnds,
                Settle, CallFails, Keep, NoRenewal, OwnerUnread, SendRenewal, Heartbeat,
                Crash, Renew, RenewalFails, Answered
  <2> QED
    BY <2>1
<1>5. CASE Write(c)
  <2>1. ASSUME NEW heard \in BOOLEAN, Close(c, heard) \/ Save(c, heard)
        PROVE  Writes(c)
    BY <1>1, <2>1 DEF Close, Save, WriteResult, Writes, MayWrite, At, Kept
  <2>2. CASE Rollback(c) \/ Orphan(c) \/ Touch(c)
    BY <1>1, <2>2 DEF Rollback, Orphan, Touch, DeleteThread, ForgetRows
  <2>3. CASE SendAcquire(c) \/ AcquireRefused(c) \/ Release(c)
             \/ \E heard \in BOOLEAN : Reserve(c, heard) \/ Acquire(c, heard) \/ Seed(c, heard)
    BY <2>3 DEF SendAcquire, AcquireRefused, Release, Reserve, Acquire, Seed
  <2> QED
    BY <1>5, <2>1, <2>2, <2>3 DEF Write
<1> QED
  BY <1>2, <1>3, <1>4, <1>5, Steps

LEMMA ResultStep == TypeInv /\ ResultInv /\ [Next]_vars => ResultInv'
<1> SUFFICES ASSUME TypeInv, ResultInv, [Next]_vars PROVE ResultInv'
  OBVIOUS
<1>1. Typed /\ (\A c \in Task : UnreadInvOf(c)) /\ (\A c, e \in Task : ReadInvOf(c, e)) /\ OneResult
  BY TypedIs DEF ResultInv
<1>2. ASSUME NEW c \in Task
      PROVE  UnreadInvOf(c)'
  <2>1. task'[c].pc \in Unread => ~MayWrite(c)'
    BY <1>1, UnreadSteps, MayWriteSteps DEF UnreadInvOf, At
  <2>2. task'[c].pc \in Before => result'[c] = "none"
    BY <1>1, UnreadSteps, ResultSteps DEF UnreadInvOf, Writes, Unread
  <2> QED
    BY <2>1, <2>2 DEF UnreadInvOf
<1>3. ASSUME NEW c \in Task, c \in kept', result[c] # "none"
      PROVE  c \in kept
  BY <1>1, <1>3, Keeps DEF UnreadInvOf, At, Before
<1>4. ASSUME NEW c \in Task, NEW e \in Task, Runs(c, e), result'[c] # "none", c \in kept',
             Kept(e)', MayWrite(e)'
      PROVE  FALSE
  <2>1. CASE Writes(c)
    <3>1. lease[ThreadOf[c]].token = c
      BY <1>4, <2>1 DEF Writes, Kept
    <3>2. lease[ThreadOf[e]].token = e
      BY <1>4, <2>1 DEF Writes, Kept
    <3> QED
      BY <1>4, <3>1, <3>2, SubagentAssumption DEF Runs
  <2>2. CASE ~Writes(c)
    <3>1. result[c] # "none" /\ c \in kept
      BY <1>1, <1>3, <1>4, <2>2, ResultSteps
    <3>2. MayWrite(e)
      BY <1>1, <1>4, <3>1, MayWriteSteps
    <3>3. Kept(e)
      BY <1>1, <1>4, <3>2, Keeps DEF UnreadInvOf, At, Unread, Before
    <3> QED
      BY <1>1, <1>4, <3>1, <3>2, <3>3 DEF ReadInvOf
  <2> QED
    BY <2>1, <2>2
<1>5. ASSUME NEW c \in Task, NEW e \in Task, Runs(c, e), result'[c] # "none",
             result'[e] # "none", c \in kept', e \in kept', Writes(c)
      PROVE  FALSE
  <2>1. result[e] # "none" /\ Kept(c) /\ MayWrite(c)
    BY <1>5 DEF Writes, Runs
  <2>2. e \in kept
    BY <1>3, <1>5, <2>1
  <2> QED
    BY <1>1, <1>5, <2>1, <2>2 DEF ReadInvOf, Runs
<1>6. ASSUME NEW c \in Task, NEW e \in Task, Runs(c, e), result'[c] # "none",
             result'[e] # "none", c \in kept', e \in kept'
      PROVE  FALSE
  <2>1. result[c] # "none" /\ result[e] # "none"
    BY <1>1, <1>5, <1>6, ResultSteps DEF Runs
  <2>2. c \in kept /\ e \in kept
    BY <1>3, <1>6, <2>1
  <2> QED
    BY <1>1, <1>6, <2>1, <2>2 DEF OneResult, Runs
<1> QED
  BY <1>2, <1>4, <1>6 DEF ResultInv, ReadInvOf, OneResult, Runs

\* An attempt has one result, unless a run of it wrote when its lease was no
\* longer its own: who takes the lease after a result was written reads it and
\* goes away.  prepareThread's replay of a prior attempt.
THEOREM OneResultHolds == Spec => []OneResult
<1>1. Init => TypeInv /\ ResultInv
  BY TypeInit, ResultInit
<1>2. TypeInv /\ ResultInv /\ [Next]_vars => TypeInv' /\ ResultInv'
  BY TypeStep, ResultStep
<1>3. ResultInv => OneResult
  BY DEF ResultInv
<1> QED
  BY <1>1, <1>2, <1>3, PTL DEF Spec
==============================================================================
