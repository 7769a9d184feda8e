------------------------- MODULE SubagentThreadsLeft -------------------------
(***************************************************************************)
(* What a deletion that reports success leaves behind (NothingLeft), for   *)
(* every set of tasks, threads and deletions.  The invariant speaks of     *)
(* behaviours in which nothing failed, and of a thread only one task went  *)
(* to: it names, at every point of that task and of the deletions, who     *)
(* will delete what is still there.                                        *)
(***************************************************************************)
EXTENDS SubagentThreadsProofs

-----------------------------------------------------------------------------
(* The invariant.                                                          *)

\* Nobody else has ever gone to the thread of c.
Alone(c) == \A e \in Task \ {c} : ThreadOf[e] = ThreadOf[c] => At(e, "idle")

HasRows(c) == c \in input \/ result[c] # "none"

\* A deletion has found the thread, or is about to, below the root it deleted.
Catching(t) ==
  \E d \in Deletion : \/ DAt(d, "descending") /\ Root \in deletion[d].wave
                      \/ DAt(d, "deleting") /\ t \in deletion[d].wave

\* A deletion that deleted the thread has its rows still to delete.
Sweeping(t) ==
  \E d \in Deletion : /\ deletion[d].pc \in {"descending", "deleting", "rows"}
                      /\ t \in deletion[d].deleted

\* No deletion has met the thread, which was never made.
Unseen(t) ==
  /\ t \notin exists
  /\ \A d \in Deletion : t \notin deletion[d].wave \cup deletion[d].deleted

Entering == {"acquire", "acquiring", "recheck", "read", "seed", "parentAgain"}

\* Until a task has seen its parent for the second time, it is in a thread
\* that is there, or the parent is gone.
EntersOf(c) ==
  LET t == ThreadOf[c] pc == task[c].pc IN
  /\ lease[t].token \in {None, c}
  /\ pc \in {"idle", "parent", "reserve"} \cup (Entering \ {"parentAgain"}) => ~HasRows(c)
  /\ pc \notin {"close", "touchClosed"}
  /\ pc \in {"idle", "parent"} => t \in exists \/ Root \notin exists \/ Unseen(t)
  /\ pc = "reserve" => Unseen(t)
  /\ pc \in Entering => t \in exists \/ Root \notin exists

\* A thread below a root that is gone is still to be found by a deletion, or to
\* be rolled back by the task that made it.
CaughtOf(c) ==
  LET t == ThreadOf[c] IN
  t \in exists =>
    /\ \A d \in Deletion : t \notin deletion[d].deleted
    /\ Root \notin exists =>
         Catching(t) \/ (task[c].made /\ task[c].pc \in Entering \cup {"rollback"})

\* Rows in a thread that is gone are still to be deleted, by the deletion or by
\* the task that wrote them.
SweptOf(c) ==
  ThreadOf[c] \notin exists /\ HasRows(c) =>
    Sweeping(ThreadOf[c]) \/ task[c].pc \in {"parentAgain", "rollback", "touch"}

AloneInvOf(c) == EntersOf(c) /\ CaughtOf(c) /\ SweptOf(c)

\* The root goes in the first wave of a deletion that finds it.
PastRoot(d) ==
  \/ deletion[d].pc \in {"descending", "rows", "stopping", "restoring", "redraining"}
  \/ deletion[d].ok

RootInvOf(d) ==
  /\ DAt(d, "deleting") /\ Root \in exists => Root \in deletion[d].wave
  /\ PastRoot(d) => Root \notin exists

LeftInv ==
  faults = 0 =>
    /\ \A c \in Task : At(c, "idle") => ~HasRows(c)
    /\ \A d \in Deletion : RootInvOf(d)
    /\ \A c \in Task : Alone(c) => AloneInvOf(c)

LEMMA LeftInit == Init => LeftInv
<1> SUFFICES ASSUME Init PROVE LeftInv
  OBVIOUS
<1>1. \A c \in Task : At(c, "idle") /\ ~HasRows(c) /\ task[c] = Fresh
  BY DEF Init, At, Fresh, HasRows
<1>2. \A d \in Deletion : deletion[d] = Unstarted
  BY DEF Init
<1>3. Root \in exists /\ \A c \in Task : ThreadOf[c] \in Thread /\ lease[ThreadOf[c]] = NoLease
  BY SubagentAssumption DEF Init
<1>4. \A d \in Deletion : RootInvOf(d)
  BY <1>2 DEF RootInvOf, PastRoot, DAt, Unstarted
<1>5. ASSUME NEW c \in Task
      PROVE  AloneInvOf(c)
  <2>1. EntersOf(c)
    BY <1>1, <1>2, <1>3 DEF EntersOf, At, Unseen, Unstarted, NoLease, Entering
  <2>2. CaughtOf(c) /\ SweptOf(c)
    BY <1>1, <1>2, <1>3 DEF CaughtOf, SweptOf, Unstarted
  <2> QED
    BY <2>1, <2>2 DEF AloneInvOf
<1> QED
  BY <1>1, <1>4, <1>5 DEF LeftInv

-----------------------------------------------------------------------------
(* Deletions.                                                              *)

Holding == {"deleting", "descending", "rows"}

\* A step that leaves what deletions have in hand, and what they may find.
Idles(d) ==
  /\ deletion'[d].wave \subseteq deletion[d].wave
  /\ deletion'[d].deleted \subseteq deletion[d].deleted
  /\ {deletion[d].pc, deletion'[d].pc} \cap Holding # {} =>
       /\ deletion'[d].pc = deletion[d].pc
       /\ deletion'[d].wave = deletion[d].wave
       /\ deletion'[d].deleted = deletion[d].deleted
  /\ PastRoot(d)' => PastRoot(d)

Aside == UNCHANGED <<docs, rows, task>> /\ \A d \in Deletion : Idles(d)

LEMMA AsideKeeps ==
  ASSUME Aside
  PROVE  /\ \A d \in Deletion : RootInvOf(d) => RootInvOf(d)'
         /\ \A c \in Task : AloneInvOf(c) => AloneInvOf(c)'
<1> USE DEF docs, rows
<1>1. UNCHANGED <<exists, lease, input, result, task>>
  BY DEF Aside
<1>2. ASSUME NEW d \in Deletion, RootInvOf(d)
      PROVE  RootInvOf(d)'
  BY <1>1, <1>2 DEF Aside, Idles, RootInvOf, Holding, DAt
<1>3. ASSUME NEW t, Unseen(t)
      PROVE  Unseen(t)'
  BY <1>1, <1>3 DEF Aside, Idles, Unseen
<1>4. ASSUME NEW t, Catching(t)
      PROVE  Catching(t)'
  BY <1>4 DEF Aside, Idles, Catching, DAt, Holding
<1>5. ASSUME NEW t, Sweeping(t)
      PROVE  Sweeping(t)'
  BY <1>5 DEF Aside, Idles, Sweeping, Holding
<1>6. ASSUME NEW c \in Task, AloneInvOf(c)
      PROVE  AloneInvOf(c)'
  <2>1. EntersOf(c)'
    BY <1>1, <1>3, <1>6 DEF AloneInvOf, EntersOf, HasRows
  <2>2. CaughtOf(c)'
    BY <1>1, <1>4, <1>6 DEF AloneInvOf, CaughtOf, Aside, Idles
  <2>3. SweptOf(c)'
    BY <1>1, <1>5, <1>6 DEF AloneInvOf, SweptOf, HasRows
  <2> QED
    BY <2>1, <2>2, <2>3 DEF AloneInvOf
<1> QED
  BY <1>2, <1>6

LEMMA AsideSteps ==
  ASSUME NEW d \in Deletion, Typed,
         \/ CaptureFence(d) \/ TakeFence(d, TRUE) \/ Drained(d) \/ DrainTimesOut(d)
         \/ Judge(d) \/ BeatFence(d) \/ RenewFence(d) \/ FenceGone(d) \/ FenceAgain(d)
         \/ FenceAnswered(d) \/ RestoreRefused(d) \/ ReleaseFence(d)
  PROVE  Aside
<1> USE DEF docs, rows, taskVars, deletionVars
<1>1. /\ deletion \in [Deletion -> DeletionState] /\ deletion[d] \in DeletionState
      /\ \A x \in Deletion : deletion[x] \in DeletionState
  BY DEF Typed
<1>2. UNCHANGED <<docs, rows, task>>
  BY DEF CaptureFence, TakeFence, Drained, DrainTimesOut, Judge, BeatFence, RenewFence,
         FenceGone, FenceAgain, FenceAnswered, RestoreRefused, ReleaseFence
<1>3. ASSUME deletion' = deletion
      PROVE  Aside
  BY <1>2, <1>3 DEF Aside, Idles, PastRoot
<1>4. ASSUME \A x \in Deletion \ {d} : deletion'[x] = deletion[x], Idles(d)
      PROVE  Aside
  BY <1>2, <1>4 DEF Aside, Idles, PastRoot
\* It moves on, with what it has.
<1>5. ASSUME NEW pc, DGoto(d, pc), {pc, deletion[d].pc} \cap Holding = {},
             pc \in {"stopping", "restoring", "redraining"} => PastRoot(d)
      PROVE  Aside
  <2>1. /\ \A x \in Deletion \ {d} : deletion'[x] = deletion[x]
        /\ deletion'[d].pc = pc /\ deletion'[d].wave = deletion[d].wave
        /\ deletion'[d].deleted = deletion[d].deleted /\ deletion'[d].ok = deletion[d].ok
    BY <1>1, <1>5 DEF DGoto, DeletionState
  <2>2. Idles(d)
    BY <1>5, <2>1 DEF Idles, PastRoot, Holding
  <2> QED
    BY <1>4, <2>1, <2>2
\* It is over.
<1>6. ASSUME End(d), deletion[d].pc \notin Holding
      PROVE  Aside
  <2>1. /\ \A x \in Deletion \ {d} : deletion'[x] = deletion[x]
        /\ deletion'[d].pc = "ended" /\ deletion'[d].wave = {}
        /\ deletion'[d].deleted = {} /\ deletion'[d].ok = deletion[d].ok
    BY <1>1, <1>6 DEF End, Unstarted
  <2>2. Idles(d)
    BY <1>6, <2>1 DEF Idles, PastRoot, Holding
  <2> QED
    BY <1>4, <2>1, <2>2
<1>7. CASE CaptureFence(d)
  <2>1. /\ \A x \in Deletion \ {d} : deletion'[x] = deletion[x]
        /\ deletion'[d].pc = "fencing" /\ deletion'[d].wave = deletion[d].wave
        /\ deletion'[d].deleted = deletion[d].deleted /\ deletion'[d].ok = deletion[d].ok
    BY <1>1, <1>7 DEF CaptureFence, DeletionState
  <2>2. Idles(d)
    BY <1>7, <2>1 DEF CaptureFence, DAt, Idles, PastRoot, Holding
  <2> QED
    BY <1>4, <2>1, <2>2
<1>8. CASE TakeFence(d, TRUE)
  BY <1>5, <1>6, <1>8 DEF TakeFence, DAt, Holding
<1>9. CASE Drained(d)
  <2>1. CASE DAt(d, "draining")
    BY <1>5, <1>9, <2>1 DEF Drained, DAt, Holding
  <2>2. CASE DAt(d, "redraining")
    <3>1. /\ \A x \in Deletion \ {d} : deletion'[x] = deletion[x]
          /\ deletion'[d].pc = "releasing" /\ deletion'[d].wave = deletion[d].wave
          /\ deletion'[d].deleted = deletion[d].deleted
      BY <1>1, <1>9, <2>2 DEF Drained, DAt, DeletionState
    <3>2. Idles(d)
      BY <2>2, <3>1 DEF DAt, Idles, PastRoot, Holding
    <3> QED
      BY <1>4, <3>1, <3>2
  <2> QED
    BY <1>9, <2>1, <2>2 DEF Drained
<1>10. CASE DrainTimesOut(d)
  BY <1>5, <1>10 DEF DrainTimesOut, Holding
<1>11. CASE Judge(d)
  <2>1. CASE FenceHeld(d)
    <3>1. /\ \A x \in Deletion \ {d} : deletion'[x] = deletion[x]
          /\ deletion'[d].pc = "releasing" /\ deletion'[d].wave = deletion[d].wave
          /\ deletion'[d].deleted = deletion[d].deleted
      BY <1>1, <1>11, <2>1 DEF Judge, DeletionState
    <3>2. Idles(d)
      BY <1>11, <3>1 DEF Judge, DAt, Idles, PastRoot, Holding
    <3> QED
      BY <1>4, <3>1, <3>2
  <2>2. CASE ~FenceHeld(d)
    BY <1>5, <1>11, <2>2 DEF Judge, DAt, Holding, PastRoot
  <2> QED
    BY <2>1, <2>2
<1>12. CASE BeatFence(d) \/ RenewFence(d) \/ FenceAgain(d)
  BY <1>3, <1>12 DEF BeatFence, RenewFence, FenceAgain
<1>13. CASE FenceGone(d)
  <2>1. /\ \A x \in Deletion \ {d} : deletion'[x] = deletion[x]
        /\ deletion'[d].pc = deletion[d].pc /\ deletion'[d].wave = deletion[d].wave
        /\ deletion'[d].deleted = deletion[d].deleted /\ deletion'[d].ok = deletion[d].ok
    BY <1>1, <1>13 DEF FenceGone, DeletionState
  <2>2. Idles(d)
    BY <2>1 DEF Idles, PastRoot
  <2> QED
    BY <1>4, <2>1, <2>2
<1>14. CASE FenceAnswered(d)
  <2>1. /\ \A x \in Deletion \ {d} : deletion'[x] = deletion[x]
        /\ deletion'[d].wave = deletion[d].wave
        /\ deletion'[d].deleted = deletion[d].deleted /\ deletion'[d].ok = deletion[d].ok
        /\ IF DAt(d, "restoring") THEN deletion'[d].pc \in {"redraining", "releasing"}
           ELSE deletion'[d].pc = deletion[d].pc
    BY <1>1, <1>14 DEF FenceAnswered, DeletionState, DAt
  <2>2. Idles(d)
    BY <2>1 DEF Idles, PastRoot, DAt, Holding
  <2> QED
    BY <1>4, <2>1, <2>2
<1>15. CASE RestoreRefused(d)
  BY <1>5, <1>15 DEF RestoreRefused, DAt, Holding
<1>16. CASE ReleaseFence(d)
  BY <1>6, <1>16 DEF ReleaseFence, DAt, Holding
<1> QED
  BY <1>7, <1>8, <1>9, <1>10, <1>11, <1>12, <1>13, <1>14, <1>15, <1>16

LEMMA FindKeeps ==
  ASSUME NEW d \in Deletion, Typed, Find(d)
  PROVE  /\ \A x \in Deletion : RootInvOf(x) => RootInvOf(x)'
         /\ \A c \in Task : AloneInvOf(c) => AloneInvOf(c)'
<1> USE DEF docs, rows, taskVars, deletionVars
<1>1. deletion \in [Deletion -> DeletionState] /\ deletion[d].pc = "finding"
  BY DEF Typed, Find, DAt
<1>2. UNCHANGED <<exists, lease, input, result, task>>
  BY DEF Find
<1>3. CASE exists = {}
  <2>1. /\ \A x \in Deletion \ {d} : deletion'[x] = deletion[x]
        /\ deletion'[d].pc = "releasing" /\ deletion'[d].wave = deletion[d].wave
        /\ deletion'[d].deleted = deletion[d].deleted /\ deletion'[d].ok = deletion[d].ok
    BY <1>1, <1>3 DEF Find, DGoto, DeletionState
  <2>2. Aside
    BY <1>1, <1>2, <2>1 DEF Aside, Idles, PastRoot, Holding
  <2> QED
    BY <2>2, AsideKeeps
<1>4. CASE exists # {}
  <2>1. /\ \A x \in Deletion \ {d} : deletion'[x] = deletion[x]
        /\ deletion'[d].pc = "deleting" /\ deletion'[d].wave = exists
        /\ deletion'[d].deleted = deletion[d].deleted /\ deletion'[d].ok = deletion[d].ok
    BY <1>1, <1>4 DEF Find, DeletionState
  <2>2. ASSUME NEW x \in Deletion, RootInvOf(x)
        PROVE  RootInvOf(x)'
    BY <1>1, <1>2, <2>1, <2>2 DEF RootInvOf, PastRoot, DAt
  <2>3. ASSUME NEW t
        PROVE  /\ Unseen(t) => Unseen(t)'
               /\ Catching(t) => Catching(t)'
               /\ Sweeping(t) => Sweeping(t)'
    <3>1. Unseen(t) => Unseen(t)'
      BY <1>2, <2>1 DEF Unseen
    <3>2. Catching(t) => Catching(t)'
      BY <1>1, <2>1 DEF Catching, DAt
    <3>3. Sweeping(t) => Sweeping(t)'
      BY <1>1, <2>1 DEF Sweeping
    <3> QED
      BY <3>1, <3>2, <3>3
  <2>4. ASSUME NEW c \in Task, AloneInvOf(c)
        PROVE  AloneInvOf(c)'
    <3>1. EntersOf(c)'
      BY <1>2, <2>3, <2>4 DEF AloneInvOf, EntersOf, HasRows
    <3>2. CaughtOf(c)'
      BY <1>2, <2>1, <2>3, <2>4 DEF AloneInvOf, CaughtOf
    <3>3. SweptOf(c)'
      BY <1>2, <2>3, <2>4 DEF AloneInvOf, SweptOf, HasRows
    <3> QED
      BY <3>1, <3>2, <3>3 DEF AloneInvOf
  <2> QED
    BY <2>2, <2>4
<1> QED
  BY <1>3, <1>4

\* A deletion deletes what it has found: from then on the root is gone.
LEMMA DeleteWaveKeeps ==
  ASSUME NEW d \in Deletion, Typed, RootInvOf(d), DeleteWave(d, TRUE)
  PROVE  /\ \A x \in Deletion : RootInvOf(x) => RootInvOf(x)'
         /\ \A c \in Task : AloneInvOf(c) => AloneInvOf(c)'
<1> USE DEF docs, rows, taskVars, deletionVars
<1>1. deletion \in [Deletion -> DeletionState] /\ deletion[d].pc = "deleting"
  BY DEF Typed, DeleteWave, DAt
<1>2. /\ UNCHANGED <<input, result, task>>
      /\ exists' = exists \ deletion[d].wave
      /\ \A t \in Thread : lease'[t] \in {lease[t], NoLease}
  BY DEF DeleteWave, DeleteConvs, Typed
<1>3. /\ \A x \in Deletion \ {d} : deletion'[x] = deletion[x]
      /\ deletion'[d].pc = "descending" /\ deletion'[d].wave = deletion[d].wave
      /\ deletion'[d].deleted = deletion[d].deleted \cup deletion[d].wave
      /\ deletion'[d].ok = deletion[d].ok
  BY <1>1 DEF DeleteWave, DeletionState
<1>4. Root \notin exists' /\ (Root \in exists => Root \in deletion[d].wave)
  BY <1>1, <1>2 DEF RootInvOf, DAt
<1>5. ASSUME NEW x \in Deletion, RootInvOf(x)
      PROVE  RootInvOf(x)'
  BY <1>4 DEF RootInvOf
<1>6. ASSUME NEW c \in Task, AloneInvOf(c)
      PROVE  AloneInvOf(c)'
  <2> DEFINE t == ThreadOf[c]
  <2>0. t \in Thread
    BY SubagentAssumption
  <2>1. EntersOf(c)'
    <3>1. lease'[t].token \in {lease[t].token, None}
      BY <1>2, <2>0 DEF NoLease
    <3>2. Unseen(t) => Unseen(t)'
      BY <1>2, <1>3 DEF Unseen
    <3> QED
      BY <1>2, <1>4, <1>6, <3>1, <3>2 DEF AloneInvOf, EntersOf, HasRows
  <2>2. CaughtOf(c)'
    <3> SUFFICES ASSUME t \in exists'
                 PROVE  /\ \A x \in Deletion : t \notin deletion'[x].deleted
                        /\ Catching(t)' \/ (task[c].made /\ task[c].pc \in Entering \cup {"rollback"})
      BY <1>2 DEF CaughtOf
    <3>1. t \in exists /\ t \notin deletion[d].wave
      BY <1>2
    <3>2. \A x \in Deletion : t \notin deletion'[x].deleted
      BY <1>3, <1>6, <3>1 DEF AloneInvOf, CaughtOf
    <3>3. CASE Root \in exists
      BY <1>3, <1>4, <3>2, <3>3 DEF Catching, DAt
    <3>4. CASE Root \notin exists /\ Catching(t)
      BY <1>1, <1>3, <3>1, <3>2, <3>4 DEF Catching, DAt
    <3> QED
      BY <1>6, <3>1, <3>2, <3>3, <3>4 DEF AloneInvOf, CaughtOf
  <2>3. SweptOf(c)'
    <3>1. CASE t \in exists
      BY <1>2, <1>3, <3>1 DEF SweptOf, Sweeping
    <3>2. CASE Sweeping(t)
      BY <1>3, <3>2 DEF SweptOf, Sweeping
    <3> QED
      BY <1>2, <1>6, <3>1, <3>2 DEF AloneInvOf, SweptOf, HasRows
  <2> QED
    BY <2>1, <2>2, <2>3 DEF AloneInvOf
<1> QED
  BY <1>5, <1>6

\* A deletion finds every thread below the root that it has not deleted.
LEMMA DescendKeeps ==
  ASSUME NEW d \in Deletion, Typed, RootInvOf(d), Descend(d)
  PROVE  /\ \A x \in Deletion : RootInvOf(x) => RootInvOf(x)'
         /\ \A c \in Task : AloneInvOf(c) => AloneInvOf(c)'
<1> USE DEF docs, rows, taskVars, deletionVars
<1> DEFINE next == {t \in Thread \cap exists : Root \in deletion[d].wave} \ deletion[d].deleted
<1>1. deletion \in [Deletion -> DeletionState] /\ deletion[d].pc = "descending"
  BY DEF Typed, Descend, DAt
<1>2. UNCHANGED <<exists, lease, input, result, task>>
  BY DEF Descend
<1>3. /\ \A x \in Deletion \ {d} : deletion'[x] = deletion[x]
      /\ deletion'[d].pc = IF next = {} THEN "rows" ELSE "deleting"
      /\ deletion'[d].wave = next
      /\ deletion'[d].deleted = deletion[d].deleted /\ deletion'[d].ok = deletion[d].ok
  BY <1>1 DEF Descend, DeletionState
<1>4. Root \notin exists
  BY <1>1 DEF RootInvOf, PastRoot
<1>5. ASSUME NEW x \in Deletion, RootInvOf(x)
      PROVE  RootInvOf(x)'
  BY <1>2, <1>4 DEF RootInvOf
<1>6. ASSUME NEW c \in Task, AloneInvOf(c)
      PROVE  AloneInvOf(c)'
  <2> DEFINE t == ThreadOf[c]
  <2>0. t \in Thread
    BY SubagentAssumption
  <2>1. EntersOf(c)'
    <3>1. Unseen(t) => Unseen(t)'
      BY <1>2, <1>3 DEF Unseen
    <3> QED
      BY <1>2, <1>6, <3>1 DEF AloneInvOf, EntersOf, HasRows
  <2>2. CaughtOf(c)'
    <3>1. ASSUME t \in exists, Catching(t), \A x \in Deletion : t \notin deletion[x].deleted
          PROVE  Catching(t)'
      <4>1. PICK x \in Deletion : \/ DAt(x, "descending") /\ Root \in deletion[x].wave
                                  \/ DAt(x, "deleting") /\ t \in deletion[x].wave
        BY <3>1 DEF Catching
      <4>2. CASE x = d
        <5>1. t \in next
          BY <1>1, <2>0, <3>1, <4>1, <4>2 DEF DAt
        <5>2. deletion'[d].pc = "deleting" /\ t \in deletion'[d].wave
          BY <1>3, <5>1
        <5> QED
          BY <5>2 DEF Catching, DAt
      <4>3. CASE x # d
        BY <1>3, <4>1, <4>3 DEF Catching, DAt
      <4> QED
        BY <4>2, <4>3
    <3> QED
      BY <1>2, <1>3, <1>6, <3>1 DEF AloneInvOf, CaughtOf
  <2>3. SweptOf(c)'
    <3>1. Sweeping(t) => Sweeping(t)'
      BY <1>3 DEF Sweeping
    <3> QED
      BY <1>2, <1>6, <3>1 DEF AloneInvOf, SweptOf, HasRows
  <2> QED
    BY <2>1, <2>2, <2>3 DEF AloneInvOf
<1> QED
  BY <1>5, <1>6

\* A deletion deletes the rows of what it deleted.
LEMMA DeleteRowsKeeps ==
  ASSUME NEW d \in Deletion, Typed, RootInvOf(d), DeleteRows(d)
  PROVE  /\ \A x \in Deletion : RootInvOf(x) => RootInvOf(x)'
         /\ \A c \in Task : AloneInvOf(c) => AloneInvOf(c)'
<1> USE DEF docs, rows, taskVars, deletionVars
<1>1. deletion \in [Deletion -> DeletionState] /\ deletion[d].pc = "rows"
  BY DEF Typed, DeleteRows, DAt
<1>2. UNCHANGED <<exists, lease, task>>
  BY DEF DeleteRows
<1>3. /\ \A x \in Deletion \ {d} : deletion'[x] = deletion[x]
      /\ deletion'[d].pc = "stopping" /\ deletion'[d].wave = {} /\ deletion'[d].deleted = {}
      /\ deletion'[d].ok = deletion[d].ok
  BY <1>1 DEF DeleteRows, Leave, DeletionState
<1>4. Root \notin exists
  BY <1>1 DEF RootInvOf, PastRoot
<1>5. ASSUME NEW c \in Task
      PROVE  /\ HasRows(c)' => HasRows(c)
             /\ ThreadOf[c] \in deletion[d].deleted => ~HasRows(c)'
  BY DEF DeleteRows, ForgetRows, HasRows, Typed
<1>6. ASSUME NEW x \in Deletion, RootInvOf(x)
      PROVE  RootInvOf(x)'
  BY <1>2, <1>4 DEF RootInvOf
<1>7. ASSUME NEW c \in Task, AloneInvOf(c)
      PROVE  AloneInvOf(c)'
  <2> DEFINE t == ThreadOf[c]
  <2>1. EntersOf(c)'
    <3>1. Unseen(t) => Unseen(t)'
      BY <1>2, <1>3 DEF Unseen
    <3> QED
      BY <1>2, <1>5, <1>7, <3>1 DEF AloneInvOf, EntersOf
  <2>2. CaughtOf(c)'
    <3>1. Catching(t) => Catching(t)'
      BY <1>1, <1>3 DEF Catching, DAt
    <3> QED
      BY <1>2, <1>3, <1>7, <3>1 DEF AloneInvOf, CaughtOf
  <2>3. SweptOf(c)'
    <3>1. Sweeping(t) => Sweeping(t)' \/ t \in deletion[d].deleted
      BY <1>1, <1>3 DEF Sweeping
    <3> QED
      BY <1>2, <1>5, <1>7, <3>1 DEF AloneInvOf, SweptOf
  <2> QED
    BY <2>1, <2>2, <2>3 DEF AloneInvOf
<1> QED
  BY <1>6, <1>7

LEMMA DeletionKeepsLeft ==
  ASSUME NEW d \in Deletion, Typed, \A x \in Deletion : RootInvOf(x), DeletionStep(d)
  PROVE  /\ \A x \in Deletion : RootInvOf(x)'
         /\ \A c \in Task : AloneInvOf(c) => AloneInvOf(c)'
<1>1. CASE Find(d)
  BY <1>1, FindKeeps
<1>2. CASE DeleteWave(d, TRUE)
  BY <1>2, DeleteWaveKeeps
<1>3. CASE Descend(d)
  BY <1>3, DescendKeeps
<1>4. CASE DeleteRows(d)
  BY <1>4, DeleteRowsKeeps
<1> QED
  BY <1>1, <1>2, <1>3, <1>4, AsideSteps, AsideKeeps DEF DeletionStep
-----------------------------------------------------------------------------
(* Tasks.                                                                  *)

\* Nothing changes of what is said of c.
Same(c) ==
  /\ UNCHANGED deletion
  /\ task'[c].pc = task[c].pc /\ task'[c].made = task[c].made
  /\ lease'[ThreadOf[c]].token = lease[ThreadOf[c]].token
  /\ ThreadOf[c] \in exists' <=> ThreadOf[c] \in exists
  /\ Root \in exists' <=> Root \in exists
  /\ HasRows(c)' <=> HasRows(c)

LEMMA SameKeeps ==
  ASSUME NEW c \in Task, AloneInvOf(c), Same(c)
  PROVE  AloneInvOf(c)'
<1> DEFINE t == ThreadOf[c]
<1>1. /\ Catching(t)' <=> Catching(t)
      /\ Sweeping(t)' <=> Sweeping(t)
      /\ Unseen(t)' <=> Unseen(t)
  BY DEF Same, Catching, Sweeping, Unseen, DAt
<1>2. EntersOf(c)'
  BY <1>1 DEF AloneInvOf, EntersOf, Same
<1>3. CaughtOf(c)' /\ SweptOf(c)'
  BY <1>1 DEF AloneInvOf, CaughtOf, SweptOf, Same
<1> QED
  BY <1>2, <1>3 DEF AloneInvOf

\* Tasks make threads and delete them, and leave the root.
LEMMA TasksLeaveRoot ==
  ASSUME NEW e \in Task, Typed, Move(e) \/ Write(e) \/ Keep(e)
  PROVE  Root \in exists' <=> Root \in exists
<1> USE DEF docs, rows, taskVars, deletionVars
<1>1. ThreadOf[e] # Root
  BY SubagentAssumption
<1>2. CASE Move(e)
  BY <1>2 DEF Move, ProbeOwner, ReadParent, Recheck, ReadTranscript, ParentAgain,
              RunEnds, Settle, CallFails
<1>3. CASE Keep(e)
  BY <1>3 DEF Keep, NoRenewal, OwnerUnread, SendRenewal, Heartbeat, Crash, Renew,
              RenewalFails, Answered
<1>4. CASE Write(e)
  <2>1. CASE SendAcquire(e) \/ AcquireRefused(e) \/ Touch(e) \/ Release(e)
    BY <2>1 DEF SendAcquire, AcquireRefused, Touch, Release
  <2>2. CASE Rollback(e) \/ Orphan(e)
    BY <1>1, <2>2 DEF Rollback, Orphan, DeleteThread, DeleteConvs
  <2>3. ASSUME NEW heard \in BOOLEAN,
               \/ Reserve(e, heard) \/ Acquire(e, heard) \/ Close(e, heard)
               \/ Seed(e, heard) \/ Save(e, heard)
        PROVE  Root \in exists' <=> Root \in exists
    BY <1>1, <2>3 DEF Reserve, Acquire, Close, Seed, Save
  <2> QED
    BY <1>4, <2>1, <2>2, <2>3 DEF Write
<1> QED
  BY <1>2, <1>3, <1>4

\* A task in another thread leaves the thread of c and its rows, and so does
\* one in the same thread that has not begun.
LEMMA OthersKeep ==
  ASSUME NEW c \in Task, NEW e \in Task \ {c}, Typed, TaskStep(e), AloneInvOf(c),
         ThreadOf[e] # ThreadOf[c] \/ (At(e, "idle") /\ At(e, "idle")')
  PROVE  Same(c)
<1> USE DEF docs, rows, taskVars, deletionVars
<1>0. Move(e) \/ Write(e) \/ Keep(e)
  BY TaskKinds
<1>1. /\ UNCHANGED deletion /\ task'[c] = task[c]
      /\ Root \in exists' <=> Root \in exists
  BY <1>0, TaskFrame, TasksLeave, TasksLeaveRoot DEF Left
<1>2. /\ task \in [Task -> TaskState] /\ result \in [Task -> Status] /\ c # e
      /\ lease \in [Thread -> [token : Task \cup {None}, until : Late]]
      /\ ThreadOf[c] \in Thread /\ ThreadOf[e] \in Thread /\ task[e].pc \in TaskPc
  BY SubagentAssumption DEF Typed, TaskState
<1>3. ASSUME lease'[ThreadOf[c]].token = lease[ThreadOf[c]].token,
             ThreadOf[c] \in exists' <=> ThreadOf[c] \in exists, UNCHANGED rows
      PROVE  Same(c)
  BY <1>1, <1>3 DEF Same, HasRows
<1>4. CASE \E k \in Slot : Renew(e, k)
  BY <1>2, <1>3, <1>4 DEF Renew
<1>5. CASE \/ ProbeOwner(e) \/ ReadParent(e) \/ SendAcquire(e) \/ AcquireRefused(e)
           \/ Recheck(e) \/ ReadTranscript(e) \/ ParentAgain(e) \/ RunEnds(e)
           \/ NoRenewal(e) \/ SendRenewal(e) \/ Heartbeat(e) \/ Settle(e)
           \/ \E k \in Slot : Answered(e, k)
  BY <1>3, <1>5 DEF ProbeOwner, ReadParent, SendAcquire, AcquireRefused, Recheck,
                    ReadTranscript, ParentAgain, RunEnds, NoRenewal, SendRenewal, Heartbeat,
                    Settle, Answered
<1>6. CASE \/ Reserve(e, TRUE) \/ Acquire(e, TRUE) \/ Close(e, TRUE) \/ Seed(e, TRUE)
           \/ Rollback(e) \/ Orphan(e) \/ Save(e, TRUE) \/ Touch(e) \/ Release(e)
  <2>1. ThreadOf[e] # ThreadOf[c]
    BY <1>6 DEF At, Reserve, Acquire, Close, Seed, Rollback, Orphan, Save, Touch, Release
  <2>2. CASE Reserve(e, TRUE) \/ Acquire(e, TRUE) \/ Release(e)
    BY <1>2, <1>3, <2>1, <2>2 DEF Reserve, Acquire, Release
  <2>3. CASE Close(e, TRUE) \/ Seed(e, TRUE) \/ Save(e, TRUE)
    <3>1. UNCHANGED docs /\ (HasRows(c)' <=> HasRows(c))
      BY <1>2, <2>3 DEF Close, Seed, Save, WriteResult, HasRows
    <3> QED
      BY <1>1, <3>1 DEF Same
  <2>4. ASSUME NEW C, ForgetRows(C), c \notin C
        PROVE  HasRows(c)' <=> HasRows(c)
    BY <1>2, <2>4 DEF ForgetRows, HasRows
  <2>5. CASE Rollback(e) \/ Orphan(e) \/ Touch(e)
    <3>1. UNCHANGED docs \/ DeleteThread(ThreadOf[e])
      BY <2>5 DEF Rollback, Orphan, Touch
    <3>2. /\ lease'[ThreadOf[c]] = lease[ThreadOf[c]]
          /\ ThreadOf[c] \in exists' <=> ThreadOf[c] \in exists
      BY <1>2, <2>1, <3>1 DEF DeleteThread, DeleteConvs
    <3>3. UNCHANGED rows \/ ForgetRows({e}) \/ DeleteThread(ThreadOf[e])
      BY <2>5 DEF Rollback, Orphan, Touch
    <3>4. HasRows(c)' <=> HasRows(c)
      BY <1>2, <2>1, <2>4, <3>3 DEF DeleteThread, HasRows
    <3> QED
      BY <1>1, <3>2, <3>4 DEF Same
  <2> QED
    BY <1>6, <2>2, <2>3, <2>5
<1> QED
  BY <1>4, <1>5, <1>6 DEF TaskStep

LEMMA Goes ==
  ASSUME NEW c \in Task, Typed, NEW pc, Goto(c, pc)
  PROVE  task'[c].pc = pc /\ task'[c].made = task[c].made
  BY DEF Typed, Goto, TaskState

\* Past its preparation a task goes on, in a thread it leaves as it is.
WorkingOn == {"begin", "run", "ending", "failing", "settle", "orphan", "save", "releasing", "ended"}

LEMMA WorkingOnKeeps ==
  ASSUME NEW c \in Task, AloneInvOf(c), UNCHANGED <<deletion, exists>>,
         task[c].pc \in WorkingOn \cup {"touch"}, task'[c].pc \in WorkingOn,
         lease'[ThreadOf[c]].token \in {None, c},
         HasRows(c)' => HasRows(c) /\ (ThreadOf[c] \in exists \/ task[c].pc \in WorkingOn)
  PROVE  AloneInvOf(c)'
<1> DEFINE t == ThreadOf[c]
<1>1. Catching(t)' <=> Catching(t)
  BY DEF Catching, DAt
<1>2. Sweeping(t)' <=> Sweeping(t)
  BY DEF Sweeping
<1>3. EntersOf(c)'
  BY DEF EntersOf, WorkingOn, Entering
<1>4. CaughtOf(c)'
  BY <1>1 DEF AloneInvOf, CaughtOf, WorkingOn, Entering
<1>5. SweptOf(c)'
  BY <1>2 DEF AloneInvOf, SweptOf, WorkingOn
<1> QED
  BY <1>3, <1>4, <1>5 DEF AloneInvOf

\* A task that deletes its thread leaves no rows in it.
LEMMA DeleteThreadKeeps ==
  ASSUME NEW c \in Task, Typed, UNCHANGED deletion, DeleteThread(ThreadOf[c]),
         task'[c].pc \in WorkingOn
  PROVE  AloneInvOf(c)'
<1> DEFINE t == ThreadOf[c]
<1>1. t \in Thread
  BY SubagentAssumption
<1>2. t \notin exists' /\ lease'[t].token = None /\ ~HasRows(c)'
  BY <1>1 DEF DeleteThread, DeleteConvs, ForgetRows, NoLease, Typed, HasRows
<1> QED
  BY <1>2 DEF AloneInvOf, EntersOf, CaughtOf, SweptOf, WorkingOn, Entering

\* The steps that lead a task into its thread.
LEMMA BeginKeeps ==
  ASSUME NEW c \in Task, Typed, AloneInvOf(c), ProbeOwner(c) \/ ReadParent(c) \/ Reserve(c, TRUE)
  PROVE  AloneInvOf(c)'
<1> USE DEF docs, rows, deletionVars
<1> DEFINE t == ThreadOf[c]
<1>0. UNCHANGED <<deletion, lease, input, result>>
  BY DEF ProbeOwner, ReadParent, Reserve
<1>1. (Catching(t)' <=> Catching(t)) /\ (Sweeping(t)' <=> Sweeping(t))
      /\ (HasRows(c)' <=> HasRows(c))
  BY <1>0 DEF Catching, Sweeping, DAt, HasRows
<1>2. CASE ProbeOwner(c)
  <2>1. /\ task[c].pc = "idle" /\ task'[c].pc \in {"parent", "failing"} /\ UNCHANGED exists
    BY <1>2, Goes DEF ProbeOwner, At
  <2>2. Unseen(t) => Unseen(t)'
    BY <1>0, <2>1 DEF Unseen
  <2>3. EntersOf(c)'
    BY <1>0, <1>1, <2>1, <2>2 DEF AloneInvOf, EntersOf, Entering
  <2>4. CaughtOf(c)' /\ SweptOf(c)'
    BY <1>0, <1>1, <2>1 DEF AloneInvOf, CaughtOf, SweptOf, EntersOf, Entering
  <2> QED
    BY <2>3, <2>4 DEF AloneInvOf
<1>3. CASE ReadParent(c)
  <2>1. /\ task[c].pc = "parent" /\ UNCHANGED exists
        /\ \/ task'[c].pc = "failing"
           \/ task'[c].pc = "acquire" /\ t \in exists
           \/ task'[c].pc = "reserve" /\ t \notin exists /\ Root \in exists
    BY <1>3, Goes DEF ReadParent, At
  <2>2. Unseen(t) => Unseen(t)'
    BY <1>0, <2>1 DEF Unseen
  <2>3. EntersOf(c)'
    BY <1>0, <1>1, <2>1, <2>2 DEF AloneInvOf, EntersOf, Entering
  <2>4. CaughtOf(c)' /\ SweptOf(c)'
    BY <1>0, <1>1, <2>1 DEF AloneInvOf, CaughtOf, SweptOf, EntersOf, Entering
  <2> QED
    BY <2>3, <2>4 DEF AloneInvOf
<1>4. CASE Reserve(c, TRUE)
  <2>1. Unseen(t)
    BY <1>4 DEF Reserve, At, AloneInvOf, EntersOf
  <2>2. /\ task[c].pc = "reserve" /\ task'[c].pc = "acquire" /\ task'[c].made
        /\ exists' = exists \cup {t}
    BY <1>4, <2>1 DEF Reserve, At, Unseen, Typed, TaskState
  <2>3. EntersOf(c)'
    BY <1>0, <1>1, <2>2 DEF AloneInvOf, EntersOf, Entering
  <2>4. CaughtOf(c)' /\ SweptOf(c)'
    BY <1>0, <2>1, <2>2 DEF CaughtOf, SweptOf, Unseen, Entering
  <2> QED
    BY <2>3, <2>4 DEF AloneInvOf
<1> QED
  BY <1>2, <1>3, <1>4

\* The steps of its preparation, in a thread where nobody else has been.
LEMMA PrepareKeeps ==
  ASSUME NEW c \in Task, Typed, Alone(c), AloneInvOf(c),
         \A e \in Task : At(e, "idle") => ~HasRows(e),
         \/ SendAcquire(c) \/ Acquire(c, TRUE) \/ AcquireRefused(c) \/ Recheck(c)
         \/ ReadTranscript(c) \/ Seed(c, TRUE) \/ ParentAgain(c)
  PROVE  AloneInvOf(c)'
<1> USE DEF docs, rows, deletionVars
<1> DEFINE t == ThreadOf[c]
<1>0. /\ UNCHANGED <<deletion, exists>>
      /\ t \in Thread /\ task \in [Task -> TaskState] /\ task[c] \in TaskState
  BY SubagentAssumption DEF SendAcquire, Acquire, AcquireRefused, Recheck, ReadTranscript, Seed,
                            ParentAgain, Typed
<1>1. (Catching(t)' <=> Catching(t)) /\ (Sweeping(t)' <=> Sweeping(t))
  BY <1>0 DEF Catching, Sweeping, DAt
\* What a step of this kind has to show.
<1>2. ASSUME task[c].pc \in Entering, task'[c].made = task[c].made,
             lease'[t].token \in {None, c},
             \/ task'[c].pc \in Entering \ {"parentAgain"} /\ ~HasRows(c)'
             \/ task'[c].pc \in {"parentAgain", "rollback"}
             \/ task'[c].pc = "failing" /\ ~HasRows(c)' /\ t \notin exists
             \/ task'[c].pc = "begin" /\ t \in exists /\ Root \in exists
      PROVE  AloneInvOf(c)'
  <2>1. EntersOf(c)'
    BY <1>0, <1>2 DEF AloneInvOf, EntersOf, Entering
  <2>2. CaughtOf(c)'
    BY <1>0, <1>1, <1>2 DEF AloneInvOf, CaughtOf, Entering
  <2>3. SweptOf(c)'
    BY <1>0, <1>1, <1>2 DEF AloneInvOf, SweptOf, Entering
  <2> QED
    BY <2>1, <2>2, <2>3 DEF AloneInvOf
<1>3. task[c].pc \in Entering \ {"parentAgain"} => ~HasRows(c)
  BY DEF AloneInvOf, EntersOf
<1>4. CASE SendAcquire(c)
  <2>1. /\ task[c].pc = "acquire" /\ task'[c].pc = "acquiring" /\ task'[c].made = task[c].made
        /\ UNCHANGED <<lease, input, result>>
    BY <1>0, <1>4 DEF SendAcquire, At, TaskState
  <2> QED
    BY <1>2, <1>3, <2>1 DEF Entering, HasRows, AloneInvOf, EntersOf
<1>5. CASE Acquire(c, TRUE)
  <2>1. /\ task[c].pc = "acquiring" /\ task'[c].pc = "recheck" /\ task'[c].made = task[c].made
        /\ lease'[t].token = c /\ UNCHANGED <<input, result>>
    BY <1>0, <1>5 DEF Acquire, At, TaskState, Typed
  <2> QED
    BY <1>2, <1>3, <2>1 DEF Entering, HasRows
<1>6. CASE AcquireRefused(c)
  <2>1. /\ task[c].pc = "acquiring" /\ task'[c].pc = "failing" /\ task'[c].made = task[c].made
        /\ UNCHANGED <<lease, input, result>>
    BY <1>0, <1>6 DEF AcquireRefused, At, TaskState
  <2>2. t \notin exists
    BY <1>6 DEF AcquireRefused, MayAcquire, AloneInvOf, EntersOf
  <2> QED
    BY <1>2, <1>3, <2>1, <2>2 DEF Entering, HasRows, AloneInvOf, EntersOf
<1>7. CASE Recheck(c)
  <2>1. /\ task[c].pc = "recheck" /\ task'[c].pc \in {"read", "rollback"}
        /\ task'[c].made = task[c].made /\ UNCHANGED <<lease, input, result>>
    BY <1>7, Goes DEF Recheck, At
  <2> QED
    BY <1>2, <1>3, <2>1 DEF Entering, HasRows, AloneInvOf, EntersOf
<1>8. CASE ReadTranscript(c)
  <2>1. Prior(c) = {}
    <3>1. ~HasRows(c)
      BY <1>3, <1>8 DEF ReadTranscript, At, Entering
    <3>2. ASSUME NEW e \in Prior(c)
          PROVE  FALSE
      <4>1. ThreadOf[e] = t /\ HasRows(e) /\ e \in Task
        BY <3>2, SubagentAssumption DEF Prior, HasRows
      <4> QED
        BY <3>1, <4>1 DEF Alone
    <3> QED
      BY <3>2
  <2>2. /\ task[c].pc = "read" /\ task'[c].pc = "seed"
        /\ task'[c].made = task[c].made /\ UNCHANGED <<lease, input, result>>
    BY <1>8, <2>1, Goes DEF ReadTranscript, At
  <2> QED
    BY <1>2, <1>3, <2>2 DEF Entering, HasRows, AloneInvOf, EntersOf
<1>9. CASE Seed(c, TRUE)
  <2>1. /\ task[c].pc = "seed" /\ task'[c].pc = "parentAgain"
        /\ task'[c].made = task[c].made /\ UNCHANGED lease
    BY <1>9, Goes DEF Seed, Onward, At
  <2> QED
    BY <1>2, <2>1 DEF Entering, AloneInvOf, EntersOf
<1>10. CASE ParentAgain(c)
  <2>1. /\ task[c].pc = "parentAgain" /\ UNCHANGED lease /\ task'[c].made = task[c].made
        /\ task'[c].pc = IF Root \in exists THEN "begin" ELSE "rollback"
    BY <1>10, Goes DEF ParentAgain, At
  <2> QED
    BY <1>2, <2>1 DEF Entering, AloneInvOf, EntersOf
<1> QED
  BY <1>4, <1>5, <1>6, <1>7, <1>8, <1>9, <1>10

LEMMA RollbackKeeps ==
  ASSUME NEW c \in Task, Typed, AloneInvOf(c), Rollback(c)
  PROVE  AloneInvOf(c)'
<1> USE DEF docs, rows, deletionVars
<1> DEFINE t == ThreadOf[c]
<1>1. /\ task[c].pc = "rollback" /\ task'[c].pc = "failing" /\ task'[c].made = task[c].made
      /\ UNCHANGED deletion
  BY Goes DEF Rollback, At
<1>2. CASE task[c].made
  BY <1>1, <1>2, DeleteThreadKeeps DEF Rollback, WorkingOn
<1>3. CASE ~task[c].made
  <2>1. ~HasRows(c)' /\ UNCHANGED <<exists, lease>>
    BY <1>3 DEF Rollback, ForgetRows, HasRows, Typed
  <2>2. Catching(t)' <=> Catching(t)
    BY <1>1 DEF Catching, DAt
  <2>3. EntersOf(c)' /\ SweptOf(c)'
    BY <1>1, <2>1 DEF AloneInvOf, EntersOf, SweptOf, Entering
  <2>4. CaughtOf(c)'
    BY <1>1, <1>3, <2>1, <2>2 DEF AloneInvOf, CaughtOf
  <2> QED
    BY <2>3, <2>4 DEF AloneInvOf
<1> QED
  BY <1>2, <1>3

\* The steps of its work, its renewals and its settlement.
LEMMA WorkKeeps ==
  ASSUME NEW c \in Task, Typed, AloneInvOf(c),
         \/ RunEnds(c) \/ NoRenewal(c) \/ SendRenewal(c) \/ Heartbeat(c)
         \/ \E k \in Slot : Renew(c, k) \/ Answered(c, k)
         \/ Settle(c) \/ Orphan(c) \/ Save(c, TRUE) \/ Touch(c) \/ Release(c)
  PROVE  AloneInvOf(c)'
<1> USE DEF docs, rows, taskVars, deletionVars
<1> DEFINE t == ThreadOf[c]
<1>0. /\ UNCHANGED deletion
      /\ t \in Thread /\ task \in [Task -> TaskState] /\ task[c] \in TaskState
      /\ lease \in [Thread -> [token : Task \cup {None}, until : Late]]
      /\ renewal \in [Task -> [Slot -> Renewal]] /\ Slot = {"main", "beat"}
      /\ lease[t].token \in {None, c}
  BY SubagentAssumption
     DEF RunEnds, NoRenewal, SendRenewal, Heartbeat, Renew, Answered, Settle, Orphan, Save,
         Touch, Release, Typed, AloneInvOf, EntersOf, Slot
<1>1. ASSUME task[c].pc \in WorkingOn, task'[c].pc \in WorkingOn,
             UNCHANGED <<exists, lease, input, result>>
      PROVE  AloneInvOf(c)'
  BY <1>0, <1>1, WorkingOnKeeps DEF HasRows
<1>2. ASSUME task[c].pc \in Renewing, NEW ok \in BOOLEAN, task'[c].pc = Renewed(c, ok).pc,
             UNCHANGED <<exists, lease, input, result>>
      PROVE  AloneInvOf(c)'
  <2>1. task[c].pc \in WorkingOn /\ task'[c].pc \in WorkingOn
    BY <1>2, RenewedType DEF Renewing, WorkingOn
  <2> QED
    BY <1>1, <1>2, <2>1
<1>3. ASSUME task'[c].pc = task[c].pc, task'[c].made = task[c].made,
             lease'[t].token = lease[t].token, UNCHANGED <<exists, input, result>>
      PROVE  AloneInvOf(c)'
  BY <1>0, <1>3, SameKeeps DEF Same, HasRows
<1>4. CASE RunEnds(c)
  <2>1. /\ task[c].pc = "run" /\ task'[c].pc \in {"ending", "failing"}
        /\ UNCHANGED <<exists, lease, input, result>>
    BY <1>4, Goes DEF RunEnds, At
  <2> QED
    BY <1>1, <2>1 DEF WorkingOn
<1>5. CASE NoRenewal(c)
  <2>1. PICK ok \in BOOLEAN : task' = [task EXCEPT ![c] = Renewed(c, ok)]
    BY <1>5 DEF NoRenewal
  <2>2. task'[c].pc = Renewed(c, ok).pc
    BY <1>0, <2>1
  <2> QED
    BY <1>2, <1>5, <2>2 DEF NoRenewal
<1>6. CASE SendRenewal(c) \/ Heartbeat(c)
  BY <1>3, <1>6 DEF SendRenewal, Heartbeat
<1>7. ASSUME NEW k \in Slot, Renew(c, k)
      PROVE  AloneInvOf(c)'
  BY <1>0, <1>3, <1>7 DEF Renew
<1>8. CASE Answered(c, "main")
  <2> DEFINE ok == InTime(c, "main")
             told == Renewed(c, ok)
  <2>1. task' = [task EXCEPT ![c] = IF ok THEN [told EXCEPT !.until = renewal[c]["main"].at + Ttl]
                                    ELSE [told EXCEPT !.lost = TRUE]]
    BY <1>8 DEF Answered
  <2>2. ok \in BOOLEAN /\ task[c].pc \in Renewing
    BY <1>8 DEF InTime, Answered, Quiet, Typed, RenewalInv
  <2> HIDE DEF ok
  <2>3. told \in TaskState
    BY <2>2, RenewedType
  <2> HIDE DEF told
  <2>4. task'[c].pc = told.pc
    BY <1>0, <2>1, <2>2, <2>3 DEF TaskState
  <2> QED
    BY <1>2, <1>8, <2>2, <2>4 DEF Answered, told
<1>9. CASE Answered(c, "beat")
  <2>1. task'[c].pc = task[c].pc /\ task'[c].made = task[c].made
    BY <1>0, <1>9 DEF Answered, TaskState
  <2> QED
    BY <1>3, <1>9, <2>1 DEF Answered
<1>10. CASE Settle(c)
  <2>1. Rescue(c) \in {"failing", "releasing"}
    BY <1>10 DEF Settle, At, Rescue
  <2>2. /\ task[c].pc = "settle" /\ task'[c].pc \in {"orphan", "save", "failing", "releasing"}
        /\ UNCHANGED <<exists, lease, input, result>>
    BY <1>10, <2>1, Goes DEF Settle, At
  <2> QED
    BY <1>1, <2>2 DEF WorkingOn
<1>11. CASE Orphan(c)
  <2>1. Rescue(c) \in {"failing", "releasing"}
    BY <1>11 DEF Orphan, At, Rescue
  <2>2. task'[c].pc \in WorkingOn
    BY <1>11, <2>1, Goes DEF Orphan, WorkingOn
  <2> QED
    BY <1>0, <1>11, <2>2, DeleteThreadKeeps DEF Orphan
<1>12. CASE Save(c, TRUE)
  <2>1. /\ task[c].pc = "save" /\ task'[c].pc = "touch" /\ UNCHANGED <<exists, lease>>
    BY <1>12, Goes DEF Save, Onward, At
  <2>2. Catching(t)' <=> Catching(t)
    BY <1>0 DEF Catching, DAt
  <2>3. EntersOf(c)' /\ SweptOf(c)'
    BY <1>0, <2>1 DEF EntersOf, SweptOf, Entering
  <2>4. CaughtOf(c)'
    BY <1>0, <2>1, <2>2 DEF AloneInvOf, CaughtOf, Entering
  <2> QED
    BY <2>3, <2>4 DEF AloneInvOf
<1>13. CASE Touch(c)
  <2>1. task[c].pc = "touch"
    BY <1>13 DEF Touch, AloneInvOf, EntersOf
  <2>2. CASE t \in exists
    <3>1. task'[c].pc = "releasing" /\ UNCHANGED <<exists, lease, input, result>>
      BY <1>13, <2>2, Goes DEF Touch
    <3> QED
      BY <1>0, <2>1, <2>2, <3>1, WorkingOnKeeps DEF WorkingOn, HasRows
  <2>3. CASE t \notin exists
    <3>1. ~HasRows(c)' /\ UNCHANGED <<exists, lease>>
      BY <1>13, <2>3 DEF Touch, ForgetRows, HasRows, Typed
    <3>2. task'[c].pc \in {"failing", "releasing"}
      BY <1>13, <2>1, <2>3, Goes DEF Touch, At
    <3> QED
      BY <1>0, <2>1, <3>1, <3>2, WorkingOnKeeps DEF WorkingOn
  <2> QED
    BY <2>2, <2>3
<1>14. CASE Release(c)
  <2>1. task[c].pc = "releasing" /\ task'[c].pc = "ended" /\ UNCHANGED <<exists, input, result>>
    BY <1>0, <1>14 DEF Release, At, Fresh
  <2>2. lease'[t].token \in {None, c}
    BY <1>0, <1>14 DEF Release, NoLease
  <2> QED
    BY <1>0, <2>1, <2>2, WorkingOnKeeps DEF WorkingOn, HasRows
<1> QED
  BY <1>0, <1>4, <1>5, <1>6, <1>7, <1>8, <1>9, <1>10, <1>11, <1>12, <1>13, <1>14

LEMMA OwnKeeps ==
  ASSUME NEW c \in Task, Typed, Alone(c), AloneInvOf(c),
         \A e \in Task : At(e, "idle") => ~HasRows(e), TaskStep(c)
  PROVE  AloneInvOf(c)'
<1>1. ~Close(c, TRUE)
  BY DEF Close, At, AloneInvOf, EntersOf
<1> QED
  BY <1>1, BeginKeeps, PrepareKeeps, RollbackKeeps, WorkKeeps DEF TaskStep

\* A task that has begun does not become idle again, and one that has not has
\* written nothing.
LEMMA IdleSteps ==
  ASSUME NEW c \in Task, Typed, Step, At(c, "idle")'
  PROVE  At(c, "idle") /\ (HasRows(c)' => HasRows(c))
<1> USE DEF docs, rows, taskVars, deletionVars
<1>1. task \in [Task -> TaskState]
  BY DEF Typed
<1>2. CASE Tick
  BY <1>2 DEF Tick, At, HasRows
<1>3. ASSUME NEW d \in Deletion, DeletionStep(d)
      PROVE  At(c, "idle") /\ (HasRows(c)' => HasRows(c))
  BY <1>3, DeletionKinds, DeletionsLeave, OthersForgetRows DEF Left, At, HasRows
<1>4. ASSUME NEW e \in Task \ {c}, TaskStep(e)
      PROVE  At(c, "idle") /\ (HasRows(c)' => HasRows(c))
  BY <1>4, TaskKinds, TasksLeave, OthersForgetRows DEF Left, At, HasRows
<1>5. CASE TaskStep(c)
  <2>1. \A pc : Goto(c, pc) => pc = "idle"
    BY Goes DEF At
  <2>2. CASE SendRenewal(c) \/ Heartbeat(c) \/ \E k \in Slot : Renew(c, k)
    BY <2>2 DEF SendRenewal, Heartbeat, Renew, At, HasRows
  <2>3. CASE Answered(c, "beat")
    <3>1. task'[c].pc = task[c].pc /\ UNCHANGED <<input, result>>
      BY <1>1, <2>3 DEF Answered, TaskState
    <3> QED
      BY <3>1 DEF At, HasRows
  <2>4. CASE NoRenewal(c) \/ Answered(c, "main")
    <3>1. task[c].pc \in Renewing
      <4>1. CASE NoRenewal(c)
        BY <4>1 DEF NoRenewal
      <4>2. CASE Answered(c, "main")
        BY <4>2 DEF Answered, Quiet, Typed, RenewalInv
      <4> QED
        BY <2>4, <4>1, <4>2
    <3>2. PICK ok \in BOOLEAN : task'[c].pc = Renewed(c, ok).pc
      <4>1. CASE NoRenewal(c)
        BY <1>1, <4>1 DEF NoRenewal
      <4>2. CASE Answered(c, "main")
        <5> DEFINE ok == InTime(c, "main")
                   told == Renewed(c, ok)
        <5>1. task' = [task EXCEPT ![c] = IF ok THEN [told EXCEPT !.until = renewal[c]["main"].at + Ttl]
                                          ELSE [told EXCEPT !.lost = TRUE]]
          BY <4>2 DEF Answered
        <5>2. ok \in BOOLEAN
          BY DEF InTime
        <5> HIDE DEF ok
        <5>3. told \in TaskState
          BY <3>1, <5>2, RenewedType
        <5> HIDE DEF told
        <5>4. task'[c].pc = told.pc
          BY <1>1, <5>1, <5>3 DEF TaskState
        <5> QED
          BY <5>2, <5>4 DEF told
      <4> QED
        BY <2>4, <4>1, <4>2
    <3> QED
      BY <3>1, <3>2, RenewedType DEF At
  <2>5. CASE Reserve(c, TRUE) \/ SendAcquire(c) \/ Acquire(c, TRUE) \/ AcquireRefused(c) \/ Release(c)
    <3>1. task[c] \in TaskState
      BY <1>1
    <3>2. CASE Reserve(c, TRUE)
      <4>1. task'[c].pc = "acquire"
        BY <1>1, <3>1, <3>2 DEF Reserve, TaskState
      <4> QED
        BY <4>1 DEF At
    <3>3. CASE SendAcquire(c)
      <4>1. task'[c].pc = "acquiring"
        BY <1>1, <3>1, <3>3 DEF SendAcquire, TaskState
      <4> QED
        BY <4>1 DEF At
    <3>4. CASE Acquire(c, TRUE)
      <4>1. task'[c].pc = "recheck"
        BY <1>1, <3>1, <3>4 DEF Acquire, TaskState
      <4> QED
        BY <4>1 DEF At
    <3>5. CASE AcquireRefused(c)
      <4>1. task'[c].pc = "failing"
        BY <1>1, <3>1, <3>5 DEF AcquireRefused, TaskState
      <4> QED
        BY <4>1 DEF At
    <3>6. CASE Release(c)
      <4>1. task'[c].pc = "ended"
        BY <1>1, <3>6 DEF Release, Fresh
      <4> QED
        BY <4>1 DEF At
    <3> QED
      BY <2>5, <3>2, <3>3, <3>4, <3>5, <3>6
  <2>6. CASE \/ ProbeOwner(c) \/ ReadParent(c) \/ Recheck(c) \/ ReadTranscript(c) \/ ParentAgain(c)
             \/ Close(c, TRUE) \/ Seed(c, TRUE) \/ Rollback(c) \/ RunEnds(c) \/ Save(c, TRUE)
    BY <2>1, <2>6 DEF ProbeOwner, ReadParent, Recheck, ReadTranscript, ParentAgain, Close, Seed,
                      Onward, Rollback, RunEnds, Save
  <2>7. CASE Settle(c) \/ Orphan(c) \/ Touch(c)
    <3>1. At(c, "settle") \/ At(c, "orphan") => Rescue(c) \in {"failing", "releasing"}
      BY DEF At, Rescue
    <3> QED
      BY <2>1, <2>7, <3>1 DEF Settle, Orphan, Touch
  <2> QED
    BY <1>5, <2>2, <2>3, <2>4, <2>5, <2>6, <2>7 DEF TaskStep, Slot
<1> QED
  BY <1>2, <1>3, <1>4, <1>5 DEF Step

-----------------------------------------------------------------------------
(* The theorem.                                                            *)

LEMMA LeftStep == TypeInv /\ LeftInv /\ [Next]_vars => LeftInv'
<1> SUFFICES ASSUME TypeInv, LeftInv, [Next]_vars, faults' = 0
             PROVE  /\ \A c \in Task : At(c, "idle")' => ~HasRows(c)'
                    /\ \A d \in Deletion : RootInvOf(d)'
                    /\ \A c \in Task : Alone(c)' => AloneInvOf(c)'
  BY DEF LeftInv
<1> USE DEF docs, rows, taskVars, deletionVars
<1>1. Typed /\ faults \in Nat
  BY Numbers, TypedIs
<1>2. faults = 0 /\ (Step \/ UNCHANGED vars)
  BY <1>1 DEF Next, vars
<1>3. /\ \A c \in Task : At(c, "idle") => ~HasRows(c)
      /\ \A d \in Deletion : RootInvOf(d)
      /\ \A c \in Task : Alone(c) => AloneInvOf(c)
  BY <1>2 DEF LeftInv
<1>4. CASE Tick \/ UNCHANGED vars
  <2>1. UNCHANGED <<exists, lease, input, result, task, deletion>>
    BY <1>4 DEF Tick, vars
  <2>2. Aside
    BY <2>1 DEF Aside, Idles, PastRoot
  <2> QED
    BY <1>3, <2>1, <2>2, AsideKeeps DEF At, HasRows, Alone
<1>5. ASSUME Step, NEW c \in Task, At(c, "idle")'
      PROVE  ~HasRows(c)'
  BY <1>1, <1>3, <1>5, IdleSteps
<1>6. ASSUME Step, NEW c \in Task, Alone(c)'
      PROVE  Alone(c) /\ AloneInvOf(c)
  BY <1>1, <1>3, <1>6, IdleSteps DEF Alone
<1>7. ASSUME NEW d \in Deletion, DeletionStep(d)
      PROVE  /\ \A x \in Deletion : RootInvOf(x)'
             /\ \A c \in Task : Alone(c)' => AloneInvOf(c)'
  BY <1>1, <1>3, <1>6, <1>7, DeletionKeepsLeft DEF Step
<1>8. ASSUME NEW e \in Task, TaskStep(e)
      PROVE  /\ \A x \in Deletion : RootInvOf(x)'
             /\ \A c \in Task : Alone(c)' => AloneInvOf(c)'
  <2>1. UNCHANGED deletion /\ (Root \in exists' <=> Root \in exists)
    BY <1>1, <1>8, TaskKinds, TaskFrame, TasksLeaveRoot
  <2>2. \A x \in Deletion : RootInvOf(x)'
    BY <1>3, <2>1 DEF RootInvOf, PastRoot, DAt
  <2>3. ASSUME NEW c \in Task, Alone(c)'
        PROVE  AloneInvOf(c)'
    <3>1. Step /\ Alone(c) /\ AloneInvOf(c)
      BY <1>6, <1>8, <2>3 DEF Step
    <3>2. CASE e = c
      BY <1>1, <1>3, <1>8, <3>1, <3>2, OwnKeeps
    <3>3. CASE e # c
      BY <1>1, <1>8, <2>3, <3>1, <3>3, OthersKeep, SameKeeps DEF Alone
    <3> QED
      BY <3>2, <3>3
  <2> QED
    BY <2>2, <2>3
<1> QED
  BY <1>2, <1>4, <1>5, <1>7, <1>8 DEF Step

\* After a deletion that reported success, when nothing failed and nobody works
\* any more, nothing is left of the root, nor of a thread only one task went to,
\* whatever the order in which tasks and deletions, however many, took their
\* steps.  deleteConvos with prepareThread's second look at the parent,
\* touchAfterMessage and persistTerminalMessage.
THEOREM NothingLeftHolds == Spec => []NothingLeft
<1> DEFINE Inv == TypeInv /\ LeftInv
<1>1. Init => Inv
  BY TypeInit, LeftInit
<1>2. Inv /\ [Next]_vars => Inv'
  BY TypeStep, LeftStep
<1>3. Inv => NothingLeft
  <2> SUFFICES ASSUME Inv, faults = 0,
                      \A c \in Task : task[c].pc \in {"idle", "ended"},
                      \A d \in Deletion : deletion[d].pc \in {"idle", "ended"},
                      NEW d \in Deletion, deletion[d].ok
               PROVE  /\ Root \notin exists
                      /\ \A c \in Task : Alone(c) =>
                           ThreadOf[c] \notin exists /\ c \notin input /\ result[c] = "none"
    BY DEF NothingLeft, Alone
  <2>1. Root \notin exists
    BY DEF LeftInv, RootInvOf, PastRoot
  <2>2. \A t : ~Catching(t) /\ ~Sweeping(t)
    BY DEF Catching, Sweeping, DAt
  <2>3. ASSUME NEW c \in Task, Alone(c)
        PROVE  ThreadOf[c] \notin exists /\ ~HasRows(c)
    <3>1. AloneInvOf(c)
      BY <2>3 DEF LeftInv
    <3>2. ThreadOf[c] \notin exists
      BY <2>1, <2>2, <3>1 DEF AloneInvOf, CaughtOf, Entering
    <3> QED
      BY <2>2, <3>1, <3>2 DEF AloneInvOf, SweptOf
  <2> QED
    BY <2>1, <2>3 DEF HasRows
<1> HIDE DEF Inv
<1> QED
  BY <1>1, <1>2, <1>3, PTL DEF Spec
=============================================================================
