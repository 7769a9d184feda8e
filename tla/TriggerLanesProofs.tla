------------------------- MODULE TriggerLanesProofs -------------------------
(***************************************************************************)
(* What TLAPS proves of TriggerLanes, for any rows, lanes, users, calls    *)
(* and bounds: the types, and that every lane which none of the overlaps   *)
(* of TriggerLanesOverlap has upset numbers and publishes its deliveries   *)
(* in order: no other interleaving of any number of calls, requeues,       *)
(* deletions given up, purges and lost calls puts a lane out of order.     *)
(*                                                                         *)
(* Plan: what a call keeps fits its step (TypeInv); every step is of one   *)
(* Kind, which says what it does to the rows, the lanes, the users and the *)
(* calls; each part of OrderInv is preserved by every Kind of step.        *)
(***************************************************************************)
EXTENDS TriggerLanesOverlap, WellFoundedInduction, TLAPS

LEMMA LeastNumber ==
  ASSUME NEW S, S \subseteq Nat, S # {}
  PROVE  \E m \in S : \A n \in S : m <= n
<1> DEFINE Less == OpToRel(<, Nat)
<1>1. \A x, y \in Nat : <<x, y>> \in Less <=> x < y
  BY DEF OpToRel
<1>2. IsWellFoundedOn(Less, Nat)
  BY NatLessThanWellFounded
<1> HIDE DEF Less
<1>3. PICK m \in S : \A n \in S : ~ (<<n, m>> \in Less)
  BY <1>2, WFMin
<1>4. ASSUME NEW n \in S PROVE m <= n
  <2>1. m \in Nat /\ n \in Nat
    OBVIOUS
  <2>2. <<n, m>> \notin Less
    BY <1>3
  <2>3. ~(n < m)
    BY <1>1, <2>1, <2>2
  <2> QED BY <2>1, <2>3
<1> QED BY <1>4

\* A lane with staging rows has an oldest one.
LEMMA OldestIsStaged ==
  ASSUME TypeOK, NEW l, Staged(l) # {}
  PROVE  Oldest(l) \in Staged(l)
<1> DEFINE Times == {stagedAt[d] : d \in Staged(l)}
<1>1. Staged(l) \subseteq Delivery /\ Delivery \subseteq Nat
      /\ \A d \in Delivery : stagedAt[d] \in Nat
  BY TriggerLanesAssumption DEF TypeOK, Staged
<1>2. PICK t \in Times : \A s \in Times : t <= s
  <2>1. Times \subseteq Nat /\ Times # {}
    BY <1>1
  <2> HIDE DEF Times
  <2> QED BY <2>1, LeastNumber
<1> DEFINE First == {d \in Staged(l) : stagedAt[d] = t}
<1>3. PICK d \in First : \A e \in First : d <= e
  <2>1. First \subseteq Nat /\ First # {}
    BY <1>1, <1>2
  <2> HIDE DEF First
  <2> QED BY <2>1, LeastNumber
<1>4. d \in Staged(l) /\ d \in Nat /\ t \in Nat /\ stagedAt[d] = t
  BY <1>1, <1>3
<1>5. ASSUME NEW e \in Staged(l), e # d PROVE Before(d, e)
  <2>1. e \in Nat /\ stagedAt[e] \in Nat /\ t <= stagedAt[e]
    BY <1>1, <1>2
  <2>2. stagedAt[e] = t => d <= e
    BY <1>3
  <2> HIDE DEF Times, First
  <2> QED BY <1>4, <1>5, <2>1, <2>2 DEF Before
<1> QED
  BY <1>4, <1>5 DEF Oldest

-----------------------------------------------------------------------------
(* Types: what a call keeps fits its step, whatever the other calls do. *)

HasRow == {"create", "load", "marker", "lane", "select", "acquire", "requestCleanup",
           "clearPending"}

\* What a call at step s keeps: a row d and a lane l, what it read r, what it
\* selected n.
Fits(s, d, l, r, n) ==
  /\ s = "idle" => d = None
  /\ s # "idle" => l \in Lane
  /\ d # None => LaneOf[d] = l
  /\ s \in HasRow => d # None
  /\ s = "acquire" => n # None /\ LaneOf[n] = l
  /\ s \in Reading => r.publisher # None /\ LaneOf[r.publisher] = l /\ r.value > 0
  /\ s \in {"recheck", "withdraw"} => n = r.publisher
  /\ s \in {"retained", "delete"} /\ r.tail # None => LaneOf[r.tail] = l

CallInv == \A c \in Call : Fits(pc[c], row[c], lane[c], snap[c], next[c])

\* A reservation and a tail are rows of the lane; without a document neither.
LaneInv == \A l \in Lane :
  /\ publisher[l] # None => Exists(l) /\ LaneOf[publisher[l]] = l
  /\ tailRow[l] # None => Exists(l) /\ LaneOf[tailRow[l]] = l

Maybe == Delivery \cup {None}
RowTypes == /\ status \in [Delivery -> Status]
            /\ laneSequence \in [Delivery -> 0 .. MaxSeq]
            /\ stagedAt \in [Delivery -> 0 .. MaxTime]
            /\ cleanupPending \in [Delivery -> 0 .. MaxTime]
LaneTypes == /\ value \in [Lane -> 0 .. MaxSeq]
             /\ publisher \in [Lane -> Maybe]
             /\ tailRow \in [Lane -> Maybe]
             /\ cleanup \in [Lane -> 0 .. MaxTime]
UserTypes == /\ account \in [User -> {"active", "fenced", "armed", "cancelling", "gone"}]
             /\ marker \in [User -> {"none", "current", "stale"}]
             /\ purged \in [User -> SUBSET {"rows", "lanes"}]
BoundTypes == /\ now \in 1 .. MaxTime
              /\ requeues \in 0 .. MaxRequeues
              /\ rollbacks \in 0 .. MaxRollbacks
              /\ losses \in 0 .. MaxLosses
CallTypes == /\ pc \in [Call -> Step]
             /\ row \in [Call -> Maybe]
             /\ lane \in [Call -> Lane \cup {None}]
             /\ snap \in [Call -> Snapshot]
             /\ next \in [Call -> Maybe]

LEMMA TypeParts ==
  TypeOK <=> RowTypes /\ LaneTypes /\ UserTypes /\ BoundTypes /\ CallTypes
  BY DEF TypeOK, RowTypes, LaneTypes, UserTypes, BoundTypes, CallTypes, Maybe

LEMMA TypePartsNext ==
  TypeOK' <=> RowTypes' /\ LaneTypes' /\ UserTypes' /\ BoundTypes' /\ CallTypes'
  BY DEF TypeOK, RowTypes, LaneTypes, UserTypes, BoundTypes, CallTypes, Maybe

TypeInv == TypeOK /\ CallInv /\ LaneInv

LEMMA Constants ==
  /\ LaneOf \in [Delivery -> Lane] /\ OwnerOf \in [Lane -> User]
  /\ None \notin Delivery /\ None \notin Lane
  /\ MaxTime \in Nat \ {0} /\ MaxSeq \in Nat /\ MaxRequeues \in Nat
  /\ MaxRollbacks \in Nat /\ MaxLosses \in Nat
  BY TriggerLanesAssumption

LEMMA BlankType == Blank \in Snapshot /\ Blank.publisher = None /\ Blank.tail = None
<1>1. 0 \in 0 .. MaxSeq /\ 0 \in 0 .. MaxTime
  BY Constants
<1> QED BY <1>1 DEF Blank, Snapshot

LEMMA DocumentType ==
  ASSUME LaneTypes, NEW l \in Lane
  PROVE  Document(l) \in Snapshot
  BY DEF LaneTypes, Maybe, Document, Snapshot

LEMMA TypeInit == Init => TypeInv
<1> SUFFICES ASSUME Init PROVE TypeInv
  OBVIOUS
<1>1. 0 \in 0 .. MaxSeq /\ 0 \in 0 .. MaxTime /\ 1 \in 1 .. MaxTime
      /\ 0 \in 0 .. MaxRequeues /\ 0 \in 0 .. MaxRollbacks /\ 0 \in 0 .. MaxLosses
  BY Constants
<1>2. RowTypes /\ LaneTypes /\ UserTypes /\ BoundTypes
  BY <1>1 DEF Init, RowTypes, LaneTypes, UserTypes, BoundTypes, Status, Maybe
<1>3. CallTypes
  BY BlankType DEF Init, CallTypes, Step, Maybe
<1>4. CallInv /\ LaneInv
  BY DEF Init, CallInv, LaneInv, Fits, HasRow, Reading
<1> QED BY <1>2, <1>3, <1>4, TypeParts DEF TypeInv

\* The call c goes to step s and keeps d, l, r and n.
Moves(c, s, d, l, r, n) ==
  /\ pc' = [pc EXCEPT ![c] = s]
  /\ row' = [row EXCEPT ![c] = d]
  /\ lane' = [lane EXCEPT ![c] = l]
  /\ snap' = [snap EXCEPT ![c] = r]
  /\ next' = [next EXCEPT ![c] = n]

LEMMA MovesType ==
  ASSUME CallTypes, CallInv, NEW c \in Call, NEW s \in Step, NEW d \in Maybe,
         NEW l \in Lane \cup {None}, NEW r \in Snapshot, NEW n \in Maybe,
         Fits(s, d, l, r, n), Moves(c, s, d, l, r, n)
  PROVE  CallTypes' /\ CallInv'
<1>1. CallTypes'
  BY DEF CallTypes, Moves
<1>2. ASSUME NEW e \in Call PROVE Fits(pc'[e], row'[e], lane'[e], snap'[e], next'[e])
  <2>1. CASE e = c
    <3>1. pc'[e] = s /\ row'[e] = d /\ lane'[e] = l /\ snap'[e] = r /\ next'[e] = n
      BY <2>1 DEF CallTypes, Moves
    <3> QED BY <3>1
  <2>2. CASE e # c
    <3>1. pc'[e] = pc[e] /\ row'[e] = row[e] /\ lane'[e] = lane[e] /\ snap'[e] = snap[e]
          /\ next'[e] = next[e]
      BY <2>2 DEF CallTypes, Moves
    <3>2. Fits(pc[e], row[e], lane[e], snap[e], next[e])
      BY DEF CallInv
    <3> QED BY <3>1, <3>2
  <2> QED BY <2>1, <2>2
<1> QED BY <1>1, <1>2 DEF CallInv

LEMMA GotoMoves ==
  ASSUME CallTypes, NEW c \in Call, NEW s, Goto(c, s)
  PROVE  Moves(c, s, row[c], lane[c], snap[c], next[c])
  BY DEF CallTypes, Goto, Moves

LEMMA CallParts ==
  ASSUME CallTypes, NEW c \in Call
  PROVE  /\ pc[c] \in Step /\ row[c] \in Maybe /\ lane[c] \in Lane \cup {None}
         /\ snap[c] \in Snapshot /\ next[c] \in Maybe
  BY DEF CallTypes

LEMMA GotoType ==
  ASSUME CallTypes, CallInv, NEW c \in Call, NEW s \in Step, Goto(c, s),
         Fits(s, row[c], lane[c], snap[c], next[c])
  PROVE  CallTypes' /\ CallInv'
<1>1. Moves(c, s, row[c], lane[c], snap[c], next[c])
  BY GotoMoves
<1> QED BY <1>1, MovesType, CallParts

LEMMA ReturnMoves == ASSUME NEW c, Return(c) PROVE Moves(c, "idle", None, None, Blank, None)
  BY DEF Return, Moves

LEMMA ReturnType ==
  ASSUME CallTypes, CallInv, NEW c \in Call, Return(c)
  PROVE  CallTypes' /\ CallInv'
<1>1. "idle" \in Step /\ None \in Maybe
  BY DEF Step, Maybe
<1>2. Fits("idle", None, None, Blank, None)
  BY DEF Fits, HasRow, Reading
<1> QED BY <1>1, <1>2, ReturnMoves, MovesType, BlankType

\* Where a call begins, or begins again.
Beginning == {"create", "load", "reclaim"}

LEMMA BeginMoves ==
  ASSUME NEW c, NEW s, NEW d, NEW l, Begin(c, s, d, l) PROVE Moves(c, s, d, l, Blank, None)
  BY DEF Begin, Moves

LEMMA BeginType ==
  ASSUME CallTypes, CallInv, NEW c \in Call, NEW s \in Beginning, NEW d \in Maybe,
         NEW l \in Lane, Begin(c, s, d, l), d # None => LaneOf[d] = l,
         s \in {"create", "load"} => d # None
  PROVE  CallTypes' /\ CallInv'
<1>1. s \in Step /\ None \in Maybe
  BY DEF Step, Maybe, Beginning
<1>2. Fits(s, d, l, Blank, None)
  BY DEF Fits, HasRow, Reading, Beginning
<1> QED BY <1>1, <1>2, BeginMoves, MovesType, BlankType

LEMMA ContinueType ==
  ASSUME CallTypes, CallInv, NEW c \in Call, pc[c] # "idle", Continue(c)
  PROVE  CallTypes' /\ CallInv'
<1>1. CASE row[c] = None
  BY <1>1, ReturnType DEF Continue
<1>2. CASE row[c] # None
  <2>1. lane[c] \in Lane /\ LaneOf[row[c]] = lane[c]
    BY <1>2 DEF CallInv, Fits
  <2>2. Begin(c, "load", row[c], lane[c]) /\ row[c] \in Maybe
    BY <1>2, CallParts DEF Continue
  <2> QED BY <1>2, <2>1, <2>2, BeginType DEF Beginning
<1> QED BY <1>1, <1>2

RestStays == UNCHANGED <<rowVars, laneVars, userVars, bounds>>

LEMMA StaysType ==
  /\ RowTypes /\ UNCHANGED rowVars => RowTypes'
  /\ LaneTypes /\ UNCHANGED laneVars => LaneTypes'
  /\ LaneInv /\ UNCHANGED laneVars => LaneInv'
  /\ UserTypes /\ UNCHANGED userVars => UserTypes'
  /\ BoundTypes /\ UNCHANGED bounds => BoundTypes'
  /\ CallTypes /\ CallInv /\ UNCHANGED callVars => CallTypes' /\ CallInv'
<1>1. RowTypes /\ UNCHANGED rowVars => RowTypes'
  BY DEF rowVars, RowTypes
<1>2. LaneTypes /\ UNCHANGED laneVars => LaneTypes'
  BY DEF laneVars, LaneTypes
<1>3. LaneInv /\ UNCHANGED laneVars => LaneInv'
  BY DEF laneVars, LaneInv, Exists
<1>4. UserTypes /\ UNCHANGED userVars => UserTypes'
  BY DEF userVars, UserTypes
<1>5. BoundTypes /\ UNCHANGED bounds => BoundTypes'
  BY DEF bounds, BoundTypes
<1>6. CallTypes /\ CallInv /\ UNCHANGED callVars => CallTypes' /\ CallInv'
  BY DEF callVars, CallTypes, CallInv
<1> QED BY <1>1, <1>2, <1>3, <1>4, <1>5, <1>6

\* The parts of the typed state, and what each step has to show of the next.
Parts == /\ RowTypes /\ LaneTypes /\ UserTypes /\ BoundTypes /\ CallTypes
         /\ CallInv /\ LaneInv

LEMMA PartsType == (TypeInv <=> Parts) /\ (TypeInv' <=> Parts')
  BY TypeParts, TypePartsNext DEF TypeInv, Parts

LEMMA MovesOnly ==
  ASSUME Parts, RestStays, CallTypes' /\ CallInv' PROVE Parts'
  BY StaysType DEF Parts, RestStays

\* What CallInv says of one call.
LEMMA CallFits ==
  ASSUME Parts, NEW c \in Call
  PROVE  /\ Fits(pc[c], row[c], lane[c], snap[c], next[c])
         /\ pc[c] \in Step /\ row[c] \in Maybe /\ lane[c] \in Lane \cup {None}
         /\ snap[c] \in Snapshot /\ next[c] \in Maybe
  BY CallParts DEF Parts, CallInv

LEMMA MaybeIs == \A d \in Maybe : d # None => d \in Delivery
  BY DEF Maybe

LEMMA DeliveryIs ==
  ASSUME NEW d \in Delivery
  PROVE  d \in Maybe /\ d # None /\ LaneOf[d] \in Lane
  BY Constants DEF Maybe

LEMMA StartType ==
  ASSUME Parts, NEW c \in Call, Start(c)
  PROVE  Parts'
<1>0. pc[c] = "idle" /\ row[c] = None
  BY CallFits DEF Start, StartEnqueue, HelpStaged, Requeue, Succeed, PickPendingCleanup,
                  RecoverLane, PickLane, Fits
<1>1. ASSUME NEW d \in Delivery, StartEnqueue(c, d) PROVE Parts'
  <2>1. RestStays /\ Begin(c, "create", d, LaneOf[d])
    BY <1>1 DEF StartEnqueue, RestStays
  <2> QED BY <2>1, DeliveryIs, BeginType, MovesOnly DEF Parts, Beginning
<1>2. ASSUME NEW d \in Delivery, HelpStaged(c, d) PROVE Parts'
  <2>1. RestStays /\ Begin(c, "load", d, LaneOf[d])
    BY <1>2 DEF HelpStaged, RestStays
  <2> QED BY <2>1, DeliveryIs, BeginType, MovesOnly DEF Parts, Beginning
<1>3. ASSUME NEW d \in Delivery, Requeue(c, d) PROVE Parts'
  <2>1. CallTypes' /\ CallInv'
    BY <1>3, DeliveryIs, BeginType DEF Parts, Beginning, Requeue
  <2>2. RowTypes'
    <3>1. 0 \in 0 .. MaxSeq /\ 0 \in 0 .. MaxTime /\ now \in 0 .. MaxTime
      BY Constants DEF Parts, BoundTypes
    <3> QED BY <1>3, <3>1 DEF Parts, RowTypes, Requeue, Status
  <2>3. BoundTypes'
    BY <1>3, Constants DEF Parts, BoundTypes, Requeue
  <2> QED BY <1>3, <2>1, <2>2, <2>3, StaysType DEF Parts, Requeue
<1>4. ASSUME NEW d \in Delivery, NEW t \in 0 .. MaxTime,
             pc' = [pc EXCEPT ![c] = "requestCleanup"], row' = [row EXCEPT ![c] = d],
             lane' = [lane EXCEPT ![c] = LaneOf[d]], snap' = [snap EXCEPT ![c].cleanup = t],
             next' = next
      PROVE  CallTypes' /\ CallInv'
  <2> DEFINE r == [snap[c] EXCEPT !.cleanup = t]
  <2>1. r \in Snapshot /\ next[c] \in Maybe
    BY CallFits DEF Snapshot
  <2>2. Moves(c, "requestCleanup", d, LaneOf[d], r, next[c])
    BY <1>4 DEF Moves, Parts, CallTypes
  <2> HIDE DEF r
  <2>3. Fits("requestCleanup", d, LaneOf[d], r, next[c])
    BY DeliveryIs DEF Fits, HasRow, Reading
  <2>4. "requestCleanup" \in Step
    BY DEF Step
  <2> QED BY <2>1, <2>2, <2>3, <2>4, DeliveryIs, MovesType DEF Parts
<1>5. ASSUME NEW d \in Delivery, Succeed(c, d) PROVE Parts'
  <2>1. now \in 0 .. MaxTime
    BY Constants DEF Parts, BoundTypes
  <2>2. CallTypes' /\ CallInv'
    BY <1>4, <1>5, <2>1 DEF Succeed
  <2>3. RowTypes'
    BY <1>5, <2>1 DEF Parts, RowTypes, Succeed, Status
  <2> QED BY <1>5, <2>2, <2>3, StaysType DEF Parts, Succeed
<1>6. ASSUME NEW d \in Delivery, PickPendingCleanup(c, d) PROVE Parts'
  <2>1. cleanupPending[d] \in 0 .. MaxTime
    BY DEF Parts, RowTypes
  <2>2. CallTypes' /\ CallInv'
    BY <1>4, <1>6, <2>1 DEF PickPendingCleanup
  <2> QED BY <1>6, <2>2, MovesOnly DEF PickPendingCleanup, RestStays
<1>7. ASSUME NEW l \in Lane, RecoverLane(c, l) PROVE Parts'
  <2>1. Moves(c, "laneMarker", row[c], l, Document(l), next[c])
    BY <1>7 DEF RecoverLane, Moves, Parts, CallTypes
  <2>2. Fits("laneMarker", row[c], l, Document(l), next[c])
    <3>1. LaneOf[publisher[l]] = l /\ publisher[l] # None /\ value[l] > 0
      BY <1>7 DEF RecoverLane, Parts, LaneInv, Exists
    <3> QED BY <3>1, <1>0 DEF Fits, HasRow, Reading, Document
  <2>3. CallTypes' /\ CallInv'
    BY <2>1, <2>2, CallFits, DocumentType, MovesType DEF Parts, Step
  <2> QED BY <1>7, <2>3, MovesOnly DEF RecoverLane, RestStays
<1>8. ASSUME NEW l \in Lane, PickLane(c, l) PROVE Parts'
  <2>1. RestStays /\ Begin(c, "reclaim", None, l)
    BY <1>8 DEF PickLane, RestStays
  <2> QED BY <2>1, BeginType, MovesOnly DEF Parts, Beginning, Maybe
<1> QED
  BY <1>1, <1>2, <1>3, <1>5, <1>6, <1>7, <1>8 DEF Start

LEMMA QuietType ==
  ASSUME Parts, NEW c \in Call, RestStays,
         \/ Return(c)
         \/ Continue(c) /\ pc[c] # "idle"
         \/ \E s \in Step : Goto(c, s) /\ Fits(s, row[c], lane[c], snap[c], next[c])
         \/ Begin(c, "load", row[c], lane[c]) /\ pc[c] \in HasRow
  PROVE  Parts'
<1>1. CASE Return(c)
  BY <1>1, ReturnType, MovesOnly DEF Parts
<1>2. CASE Continue(c) /\ pc[c] # "idle"
  BY <1>2, ContinueType, MovesOnly DEF Parts
<1>3. CASE \E s \in Step : Goto(c, s) /\ Fits(s, row[c], lane[c], snap[c], next[c])
  BY <1>3, GotoType, MovesOnly DEF Parts
<1>4. CASE Begin(c, "load", row[c], lane[c]) /\ pc[c] \in HasRow
  <2>1. row[c] # None /\ LaneOf[row[c]] = lane[c] /\ lane[c] \in Lane
    BY <1>4, CallFits DEF Fits, HasRow
  <2> QED BY <1>4, <2>1, CallFits, BeginType, MovesOnly DEF Parts, Beginning
<1> QED BY <1>1, <1>2, <1>3, <1>4

\* A step that only moves the call on, or ends or restarts it.
Turns(c) == \/ Return(c)
            \/ Continue(c) /\ pc[c] # "idle"
            \/ \E s \in Step : Goto(c, s) /\ Fits(s, row[c], lane[c], snap[c], next[c])
            \/ Begin(c, "load", row[c], lane[c]) /\ pc[c] \in HasRow

LEMMA AdvanceType ==
  ASSUME Parts, NEW c \in Call, Advance(c)
  PROVE  Parts'
<1> DEFINE l == lane[c]
<1>0. /\ Fits(pc[c], row[c], l, snap[c], next[c])
      /\ pc[c] \in Step /\ row[c] \in Maybe /\ snap[c] \in Snapshot /\ next[c] \in Maybe
      /\ snap[c].value \in 0 .. MaxSeq /\ snap[c].publisher \in Maybe
      /\ snap[c].cleanup \in 0 .. MaxTime
  BY CallFits DEF Snapshot, Maybe
<1>1. ASSUME pc[c] # "idle" PROVE l \in Lane
  BY <1>0, <1>1 DEF Fits
<1>2. ASSUME RestStays, Turns(c) PROVE Parts'
  BY <1>2, QuietType DEF Turns
<1>3. ASSUME Turns(c) PROVE CallTypes' /\ CallInv'
  <2>1. CASE Return(c)
    BY <2>1, ReturnType DEF Parts
  <2>2. CASE Continue(c) /\ pc[c] # "idle"
    BY <2>2, ContinueType DEF Parts
  <2>3. CASE \E s \in Step : Goto(c, s) /\ Fits(s, row[c], lane[c], snap[c], next[c])
    BY <2>3, GotoType DEF Parts
  <2>4. CASE Begin(c, "load", row[c], lane[c]) /\ pc[c] \in HasRow
    <3>1. row[c] # None /\ LaneOf[row[c]] = lane[c] /\ lane[c] \in Lane
      BY <2>4, CallFits DEF Fits, HasRow
    <3> QED BY <2>4, <3>1, <1>0, BeginType DEF Parts, Beginning
  <2> QED BY <1>3, <2>1, <2>2, <2>3, <2>4 DEF Turns
<1>4. CASE Create(c)
  <2>1. Turns(c)
    <3>1. Goto(c, "load") \/ Return(c)
      BY <1>4 DEF Create
    <3>2. Fits("load", row[c], l, snap[c], next[c]) /\ "load" \in Step
      BY <1>0, <1>4 DEF Fits, HasRow, Reading, Create, Step
    <3> QED BY <3>1, <3>2 DEF Turns
  <2>2. RowTypes'
    <3>1. 0 \in 0 .. MaxSeq /\ 0 \in 0 .. MaxTime /\ now \in 0 .. MaxTime
      BY Constants DEF Parts, BoundTypes
    <3> QED BY <1>4, <3>1 DEF Parts, RowTypes, rowVars, Create, Status
  <2> QED BY <1>3, <1>4, <2>1, <2>2, StaysType DEF Parts, Create
<1>5. CASE LoadRow(c) \/ CheckMarker(c)
  <2>1. Turns(c)
    <3>1. pc[c] \in {"load", "marker"} /\ (Goto(c, "marker") \/ Goto(c, "lane") \/ Return(c))
      BY <1>5 DEF LoadRow, CheckMarker
    <3>2. \A s \in {"marker", "lane"} : Fits(s, row[c], l, snap[c], next[c]) /\ s \in Step
      BY <1>0, <3>1 DEF Fits, HasRow, Reading, Step
    <3> QED BY <3>1, <3>2 DEF Turns
  <2> QED BY <1>2, <1>5, <2>1 DEF LoadRow, CheckMarker, RestStays
<1>6. CASE ReadLane(c)
  <2>1. CASE publisher[l] = None
    <3>1. Fits("select", row[c], l, snap[c], next[c]) /\ "select" \in Step
      BY <1>0, <1>6 DEF Fits, HasRow, Reading, Step, ReadLane
    <3> QED BY <1>2, <1>6, <2>1, <3>1 DEF ReadLane, RestStays, Turns
  <2>2. CASE publisher[l] # None
    <3>1. Moves(c, "laneMarker", row[c], l, Document(l), next[c])
      BY <1>6, <2>2 DEF ReadLane, Moves, Parts, CallTypes
    <3>2. Fits("laneMarker", row[c], l, Document(l), next[c])
      <4>1. LaneOf[publisher[l]] = l /\ value[l] > 0
        BY <1>1, <1>6, <2>2 DEF ReadLane, Parts, LaneInv, Exists
      <4> QED BY <1>0, <1>1, <1>6, <2>2, <4>1
              DEF Fits, HasRow, Reading, Document, ReadLane
    <3>3. CallTypes' /\ CallInv'
      BY <1>0, <1>1, <1>6, <3>1, <3>2, DocumentType, MovesType DEF Parts, Step, ReadLane
    <3> QED BY <1>6, <3>3, MovesOnly DEF ReadLane, RestStays
  <2> QED BY <2>1, <2>2
<1>7. CASE CheckLaneMarker(c) \/ Recheck(c)
  <2>1. Turns(c)
    <3>1. pc[c] \in {"laneMarker", "recheck"}
          /\ \/ Goto(c, "publish") \/ Return(c)
             \/ pc[c] = "recheck" /\ Goto(c, "withdraw")
      BY <1>7 DEF CheckLaneMarker, Recheck
    <3>2. Fits("publish", row[c], l, snap[c], next[c]) /\ "publish" \in Step
      BY <1>0, <3>1 DEF Fits, HasRow, Reading, Step
    <3>3. pc[c] = "recheck" => Fits("withdraw", row[c], l, snap[c], next[c])
      BY <1>0 DEF Fits, HasRow, Reading
    <3> QED BY <3>1, <3>2, <3>3 DEF Turns, Step
  <2> QED BY <1>2, <1>7, <2>1 DEF CheckLaneMarker, Recheck, RestStays
<1>8. CASE SelectOldest(c)
  <2>1. CASE Staged(l) = {}
    BY <1>2, <1>8, <2>1 DEF SelectOldest, RestStays, Turns, HasRow
  <2>2. CASE Staged(l) # {}
    <3> DEFINE d == Oldest(l)
    <3>1. d \in Delivery /\ LaneOf[d] = l
      BY <2>2, OldestIsStaged, PartsType DEF TypeInv, Staged
    <3>2. Moves(c, "acquire", row[c], l, snap[c], d)
      BY <1>8, <2>2 DEF SelectOldest, Moves, Parts, CallTypes
    <3> HIDE DEF d
    <3>3. Fits("acquire", row[c], l, snap[c], d)
      BY <1>0, <1>8, <3>1, DeliveryIs DEF Fits, HasRow, Reading, SelectOldest
    <3>4. CallTypes' /\ CallInv'
      BY <1>0, <1>1, <1>8, <3>1, <3>2, <3>3, DeliveryIs, MovesType
         DEF Parts, Step, SelectOldest
    <3> QED BY <1>8, <3>4, MovesOnly DEF SelectOldest, RestStays
  <2> QED BY <2>1, <2>2
<1>9. CASE Acquire(c)
  <2>0. l \in Lane /\ next[c] \in Delivery /\ next[c] # None /\ LaneOf[next[c]] = l
    BY <1>0, <1>1, <1>9, MaybeIs DEF Fits, Acquire
  <2>1. CASE ~MayReserve(l)
    BY <1>2, <1>9, <2>1 DEF Acquire, RestStays, Turns, HasRow
  <2>2. CASE MayReserve(l)
    <3> DEFINE r == [value |-> value[l] + 1, publisher |-> next[c],
                     tail |-> tailRow[l], cleanup |-> 0]
    <3>1. value[l] \in 0 .. MaxSeq /\ value[l] < MaxSeq /\ tailRow[l] \in Maybe
          /\ value[l] + 1 \in 0 .. MaxSeq /\ value[l] + 1 > 0 /\ 0 \in 0 .. MaxTime
      BY <1>9, <2>0, <2>2, Constants DEF Acquire, Parts, LaneTypes
    <3>2. r \in Snapshot /\ r.publisher = next[c] /\ r.value > 0
      BY <2>0, <3>1, <1>0 DEF Snapshot, Maybe
    <3>3. Moves(c, "recheck", row[c], l, r, next[c])
      BY <1>9, <2>2 DEF Acquire, Moves, Parts, CallTypes
    <3> HIDE DEF r
    <3>4. Fits("recheck", row[c], l, r, next[c])
      BY <1>0, <1>9, <2>0, <3>2 DEF Fits, HasRow, Reading, Acquire
    <3>5. CallTypes' /\ CallInv'
      BY <1>0, <2>0, <3>2, <3>3, <3>4, MovesType DEF Parts, Step
    <3>6. LaneTypes' /\ LaneInv'
      BY <1>9, <2>0, <2>2, <3>1, DeliveryIs
         DEF Acquire, Parts, LaneTypes, LaneInv, Exists
    <3> QED BY <1>9, <3>5, <3>6, StaysType DEF Acquire, Parts
  <2> QED BY <2>1, <2>2
<1>10. CASE PublishReserved(c)
  <2>1. Turns(c)
    <3>1. \A s \in {"release", "reread"} : Fits(s, row[c], l, snap[c], next[c]) /\ s \in Step
      BY <1>0, <1>10 DEF Fits, HasRow, Reading, Step, PublishReserved
    <3> QED BY <1>10, <3>1 DEF PublishReserved, Turns
  <2>2. RowTypes'
    BY <1>0, <1>10 DEF PublishReserved, Parts, RowTypes, rowVars, Status
  <2> QED BY <1>3, <1>10, <2>1, <2>2, StaysType DEF PublishReserved, Parts
<1>11. CASE Reread(c)
  <2>1. Turns(c)
    <3>1. \A s \in {"release", "abandon"} : Fits(s, row[c], l, snap[c], next[c]) /\ s \in Step
      BY <1>0, <1>11 DEF Fits, HasRow, Reading, Step, Reread
    <3> QED BY <1>11, <3>1 DEF Reread, Turns
  <2> QED BY <1>2, <1>11, <2>1 DEF Reread, RestStays
<1>12. CASE ReleasePublisher(c)
  <2>1. CallTypes' /\ CallInv'
    BY <1>3, <1>12 DEF ReleasePublisher, Turns
  <2>2. LaneTypes' /\ LaneInv'
    <3>1. CASE PublisherFence(c)
      <4>1. snap[c].publisher # None /\ LaneOf[snap[c].publisher] = l /\ l \in Lane
            /\ value[l] > 0
        BY <1>0, <1>1, <1>12, <3>1 DEF ReleasePublisher, Fits, Reading, PublisherFence
      <4>2. UNCHANGED <<value, cleanup>>
            /\ tailRow' = [tailRow EXCEPT ![l] = snap[c].publisher]
            /\ publisher' = [publisher EXCEPT ![l] = None]
        BY <1>12, <3>1 DEF ReleasePublisher
      <4>3. LaneTypes'
        BY <1>0, <4>2 DEF Parts, LaneTypes, Maybe
      <4>4. LaneInv'
        BY <4>1, <4>2 DEF Parts, LaneTypes, LaneInv, Exists
      <4> QED BY <4>3, <4>4
    <3>2. CASE ~PublisherFence(c)
      BY <1>12, <3>2, StaysType DEF ReleasePublisher, Parts
    <3> QED BY <3>1, <3>2
  <2> QED BY <1>12, <2>1, <2>2, StaysType DEF ReleasePublisher, Parts
<1>13. ASSUME NEW k \in Lane, DropLane(k) PROVE LaneTypes' /\ LaneInv'
  <2>1. 0 \in 0 .. MaxSeq /\ 0 \in 0 .. MaxTime
    BY Constants
  <2> QED BY <1>13, <2>1 DEF DropLane, Parts, LaneTypes, LaneInv, Exists, Maybe
<1>14. CASE AbandonPublisher(c)
  <2>1. CallTypes' /\ CallInv'
    BY <1>3, <1>14 DEF AbandonPublisher, Turns
  <2>2. LaneTypes' /\ LaneInv'
    <3>0. l \in Lane
      BY <1>1, <1>14 DEF AbandonPublisher
    <3>1. CASE DropLane(l)
      BY <1>13, <3>0, <3>1
    <3>2. CASE PublisherFence(c) /\ snap[c].value > 1
               /\ value' = [value EXCEPT ![l] = @ - 1]
               /\ publisher' = [publisher EXCEPT ![l] = None]
               /\ cleanup' = [cleanup EXCEPT ![l] = now] /\ UNCHANGED tailRow
      <4>1. value[l] \in 0 .. MaxSeq /\ value[l] > 1 /\ MaxSeq \in Nat
        BY <3>0, <3>2, Constants DEF PublisherFence, Parts, LaneTypes
      <4>2. value[l] - 1 \in 0 .. MaxSeq /\ value[l] - 1 > 0 /\ now \in 0 .. MaxTime
        BY <4>1, Constants DEF Parts, BoundTypes
      <4>3. LaneTypes'
        BY <3>2, <4>2 DEF Parts, LaneTypes, Maybe
      <4>4. LaneInv'
        BY <3>2, <4>2 DEF Parts, LaneTypes, LaneInv, Exists
      <4> QED BY <4>3, <4>4
    <3>3. CASE UNCHANGED laneVars
      BY <3>3, StaysType DEF Parts
    <3> QED BY <1>14, <3>1, <3>2, <3>3 DEF AbandonPublisher
  <2> QED BY <1>14, <2>1, <2>2, StaysType DEF AbandonPublisher, Parts
<1>15. CASE RequestCleanup(c)
  <2>1. Turns(c)
    <3>1. Fits("clearPending", row[c], l, snap[c], next[c]) /\ "clearPending" \in Step
      BY <1>0, <1>15 DEF Fits, HasRow, Reading, Step, RequestCleanup
    <3> QED BY <1>15, <3>1 DEF RequestCleanup, Turns
  <2>2. LaneTypes' /\ LaneInv'
    BY <1>0, <1>15 DEF RequestCleanup, Parts, LaneTypes, LaneInv, Exists
  <2> QED BY <1>3, <1>15, <2>1, <2>2, StaysType DEF RequestCleanup, Parts
<1>16. CASE ClearPending(c)
  <2>1. CallTypes' /\ CallInv'
    BY <1>1, <1>16, BeginType DEF ClearPending, Parts, Beginning, Maybe
  <2>2. RowTypes'
    <3>1. 0 \in 0 .. MaxTime
      BY Constants
    <3> QED BY <1>16, <3>1 DEF ClearPending, Parts, RowTypes
  <2> QED BY <1>16, <2>1, <2>2, StaysType DEF ClearPending, Parts
<1>17. CASE ReadRequest(c)
  <2>1. CASE cleanup[l] = 0
    BY <1>2, <1>17, <2>1 DEF ReadRequest, RestStays, Turns
  <2>2. CASE cleanup[l] # 0
    <3>1. Moves(c, "retained", row[c], l, Document(l), next[c])
      BY <1>17, <2>2 DEF ReadRequest, Moves, Parts, CallTypes
    <3>2. Fits("retained", row[c], l, Document(l), next[c])
      <4>1. tailRow[l] # None => LaneOf[tailRow[l]] = l
        BY <1>1, <1>17 DEF ReadRequest, Parts, LaneInv
      <4> QED BY <1>0, <1>1, <1>17, <4>1 DEF Fits, HasRow, Reading, Document, ReadRequest
    <3>3. CallTypes' /\ CallInv'
      BY <1>0, <1>1, <1>17, <3>1, <3>2, DocumentType, MovesType
         DEF Parts, Step, ReadRequest
    <3> QED BY <1>17, <3>3, MovesOnly DEF ReadRequest, RestStays
  <2> QED BY <2>1, <2>2
<1>18. CASE CheckRetained(c)
  <2>1. Turns(c)
    <3>1. \A s \in {"delete", "unrequest"} : Fits(s, row[c], l, snap[c], next[c]) /\ s \in Step
      BY <1>0, <1>18 DEF Fits, HasRow, Reading, Step, CheckRetained
    <3> QED BY <1>18, <3>1 DEF CheckRetained, Turns
  <2> QED BY <1>2, <1>18, <2>1 DEF CheckRetained, RestStays
<1>19. CASE Unrequest(c)
  <2>1. 0 \in 0 .. MaxTime
    BY Constants
  <2>2. LaneTypes' /\ LaneInv'
    BY <1>19, <2>1 DEF Unrequest, Parts, LaneTypes, LaneInv, Exists
  <2> QED BY <1>3, <1>19, <2>2, StaysType DEF Unrequest, Parts, Turns
<1>20. CASE DeleteLane(c)
  <2>1. LaneTypes' /\ LaneInv'
    <3>1. CASE DropLane(l)
      BY <1>1, <1>13, <1>20, <3>1 DEF DeleteLane
    <3>2. CASE UNCHANGED laneVars
      BY <3>2, StaysType DEF Parts
    <3> QED BY <1>20, <3>1, <3>2 DEF DeleteLane
  <2> QED BY <1>3, <1>20, <2>1, StaysType DEF DeleteLane, Parts, Turns
<1> QED
  BY <1>4, <1>5, <1>6, <1>7, <1>8, <1>9, <1>10, <1>11, <1>12, <1>14, <1>15, <1>16,
     <1>17, <1>18, <1>19, <1>20 DEF Advance

LEMMA DeleteType ==
  ASSUME Parts, NEW u \in User, Delete(u)
  PROVE  Parts'
<1>1. ASSUME UNCHANGED <<rowVars, laneVars, callVars>>, UserTypes', BoundTypes' PROVE Parts'
  BY <1>1, StaysType DEF Parts
<1>2. CASE DisarmPurge(u)
  <2>1. UserTypes' /\ BoundTypes'
    BY <1>2, Constants DEF DisarmPurge, Deletion, Parts, UserTypes, BoundTypes
  <2> QED BY <1>1, <1>2, <2>1 DEF DisarmPurge
<1>3. CASE BeginDeletion(u) \/ ArmPurge(u) \/ CancelDeletion(u)
  <2>1. UserTypes'
    BY <1>3 DEF BeginDeletion, ArmPurge, CancelDeletion, Deletion, Parts, UserTypes
  <2> QED
    BY <1>1, <1>3, <2>1, StaysType DEF BeginDeletion, ArmPurge, CancelDeletion, Parts
<1>4. CASE DropStaleMarker(u) \/ CommitDeletion(u) \/ FinishPurge(u)
  <2>1. UserTypes'
    BY <1>4 DEF DropStaleMarker, CommitDeletion, FinishPurge, Deletion, Parts, UserTypes
  <2> QED
    BY <1>1, <1>4, <2>1, StaysType DEF DropStaleMarker, CommitDeletion, FinishPurge, Parts
<1>5. CASE PurgeRows(u)
  <2>1. RowTypes'
    <3>1. 0 \in 0 .. MaxSeq /\ 0 \in 0 .. MaxTime
      BY Constants
    <3> QED BY <1>5, <3>1 DEF PurgeRows, Parts, RowTypes, Status
  <2>2. UserTypes'
    BY <1>5 DEF PurgeRows, Parts, UserTypes
  <2> QED BY <1>5, <2>1, <2>2, StaysType DEF PurgeRows, Parts
<1>6. CASE PurgeLanes(u)
  <2>1. LaneTypes' /\ LaneInv'
    <3>1. 0 \in 0 .. MaxSeq /\ 0 \in 0 .. MaxTime
      BY Constants
    <3> QED BY <1>6, <3>1 DEF PurgeLanes, Parts, LaneTypes, LaneInv, Exists, Maybe
  <2>2. UserTypes'
    BY <1>6 DEF PurgeLanes, Parts, UserTypes
  <2> QED BY <1>6, <2>1, <2>2, StaysType DEF PurgeLanes, Parts
<1> QED
  BY <1>2, <1>3, <1>4, <1>5, <1>6 DEF Delete

LEMMA TypeStep == TypeInv /\ [Next]_vars => TypeInv'
<1> SUFFICES ASSUME Parts, [Next]_vars PROVE Parts'
  BY PartsType
<1>1. ASSUME NEW c \in Call, Start(c) \/ Advance(c) PROVE Parts'
  BY <1>1, StartType, AdvanceType
<1>2. ASSUME NEW c \in Call, Vanish(c) PROVE Parts'
  <2>1. CallTypes' /\ CallInv'
    BY <1>2, ReturnType DEF Vanish, Parts
  <2>2. BoundTypes'
    BY <1>2, Constants DEF Vanish, Parts, BoundTypes
  <2> QED BY <1>2, <2>1, <2>2, StaysType DEF Vanish, Parts
<1>3. ASSUME NEW d \in Delivery, DeadLetter(d) PROVE Parts'
  <2>1. RowTypes'
    BY <1>3 DEF DeadLetter, Parts, RowTypes, Status
  <2> QED BY <1>3, <2>1, StaysType DEF DeadLetter, Parts
<1>4. ASSUME NEW u \in User, Delete(u) PROVE Parts'
  BY <1>4, DeleteType
<1>5. CASE Tick
  <2>1. BoundTypes'
    BY <1>5, Constants DEF Tick, Parts, BoundTypes
  <2> QED BY <1>5, <2>1, StaysType DEF Tick, Parts
<1>6. CASE UNCHANGED vars
  <2>1. UNCHANGED <<rowVars, laneVars, userVars, bounds, callVars>>
    BY <1>6 DEF vars
  <2> QED BY <2>1, StaysType DEF Parts
<1> QED
  BY <1>1, <1>2, <1>3, <1>4, <1>5, <1>6 DEF Next

\* Every row, lane document, marker, clock and call keeps its type, whatever is
\* lost, requeued, given up or reclaimed: in particular a call selects an oldest
\* row only when there is one, and a row or lane it works on is its own.
THEOREM TypeCorrect == Spec => []TypeOK
<1>1. Spec => []TypeInv
  BY TypeInit, TypeStep, PTL DEF Spec
<1> QED BY <1>1, PTL DEF TypeInv

-----------------------------------------------------------------------------
(* Kinds of steps: all that the rest of this module needs of Next. *)

Same(c) == pc'[c] = pc[c] /\ lane'[c] = lane[c] /\ snap'[c] = snap[c] /\ next'[c] = next[c]
Keeps(c) == lane'[c] = lane[c] /\ snap'[c] = snap[c] /\ next'[c] = next[c]
Apart(c) == \A e \in Call \ {c} : Same(e)

\* Steps at which a call has read or selected nothing it still relies on.
Away == Step \ (Reading \cup {"acquire", "retained", "delete"})
Retire == \A c \in Call : Same(c) \/ pc'[c] \in Away

RowsStay == UNCHANGED <<status, laneSequence>>
LanesStay == UNCHANGED <<value, publisher, tailRow>>
UsersStay == UNCHANGED <<account, marker, purged>>
Becomes(d, s, n) == /\ status' = [status EXCEPT ![d] = s]
                    /\ laneSequence' = [laneSequence EXCEPT ![d] = n]

Passes == RowsStay /\ LanesStay /\ UsersStay /\ Retire
Quiet(c) == RowsStay /\ LanesStay /\ UsersStay /\ Apart(c)

Looks(c) == /\ Quiet(c)
            /\ pc'[c] = "laneMarker" /\ lane'[c] \in Lane
            /\ publisher[lane'[c]] # None
            /\ snap'[c] = Document(lane'[c])

Selects(c) == /\ Quiet(c)
              /\ pc[c] # "idle" /\ pc'[c] = "acquire"
              /\ lane'[c] = lane[c] /\ next'[c] \in Staged(lane[c])

Enters(c) == /\ Quiet(c) /\ Keeps(c)
             /\ pc[c] \in Reading /\ pc'[c] = "publish"
             /\ ~Marked(OwnerOf[lane[c]])

TurnsBack(c) == /\ Quiet(c) /\ Keeps(c)
                /\ pc[c] = "recheck" /\ pc'[c] = "withdraw"
                /\ Marked(OwnerOf[lane[c]])

FindsPublished(c) == /\ Quiet(c) /\ Keeps(c)
                     /\ pc[c] \in Reading /\ status[snap[c].publisher] # "staging"
                     /\ \/ pc'[c] = "reread"
                        \/ pc'[c] = "release" /\ Committed(c)
                        \/ pc'[c] = "abandon" /\ ~Committed(c)

Asks(c) == /\ Quiet(c)
           /\ pc[c] # "idle" /\ pc'[c] = "retained"
           /\ lane'[c] = lane[c] /\ snap'[c] = Document(lane[c])

Judges(c) == /\ Quiet(c) /\ Keeps(c)
             /\ pc[c] = "retained" /\ pc'[c] = "delete"
             /\ Retained(lane[c]) = {}

Stages(d) == /\ LanesStay /\ UsersStay /\ Retire
             /\ status[d] \in {"absent", "dead"}
             /\ Becomes(d, "staging", 0)

Publishes(c) == /\ LanesStay /\ UsersStay /\ Apart(c) /\ Keeps(c)
                /\ pc[c] = "publish" /\ pc'[c] = "release"
                /\ status[snap[c].publisher] = "staging"
                /\ Becomes(snap[c].publisher, "pending", snap[c].value)

Settles(d) == /\ LanesStay /\ UsersStay /\ Retire
              /\ status[d] = "pending" /\ Earlier(d) = {}
              /\ \E s \in {"succeeded", "dead"} : Becomes(d, s, laneSequence[d])

Reserves(c) == /\ RowsStay /\ UsersStay /\ Apart(c)
               /\ pc[c] = "acquire" /\ pc'[c] = "recheck" /\ lane'[c] = lane[c]
               /\ publisher[lane[c]] = None /\ UNCHANGED tailRow
               /\ value' = [value EXCEPT ![lane[c]] = @ + 1]
               /\ publisher' = [publisher EXCEPT ![lane[c]] = next[c]]
               /\ snap'[c].value = value[lane[c]] + 1 /\ snap'[c].publisher = next[c]

Releases(c) == /\ RowsStay /\ UsersStay /\ Retire
               /\ pc[c] = "release" /\ PublisherFence(c)
               /\ UNCHANGED value
               /\ publisher' = [publisher EXCEPT ![lane[c]] = None]
               /\ tailRow' = [tailRow EXCEPT ![lane[c]] = snap[c].publisher]

Drops(l) == /\ value' = [value EXCEPT ![l] = 0]
            /\ publisher' = [publisher EXCEPT ![l] = None]
            /\ tailRow' = [tailRow EXCEPT ![l] = None]

Abandons(c) == /\ RowsStay /\ UsersStay /\ Retire
               /\ pc[c] \in {"withdraw", "abandon"} /\ pc'[c] \in Away
               /\ AbandonPublisher(c)
               /\ PublisherFence(c)
               /\ \/ snap[c].value = 1 /\ Drops(lane[c])
                  \/ /\ snap[c].value > 1 /\ UNCHANGED tailRow
                     /\ value' = [value EXCEPT ![lane[c]] = @ - 1]
                     /\ publisher' = [publisher EXCEPT ![lane[c]] = None]

Deletes(c) == /\ RowsStay /\ UsersStay /\ Retire
              /\ pc[c] = "delete" /\ DeleteFence(c) /\ Drops(lane[c])

Purges(u) == /\ account[u] = "gone" /\ UNCHANGED <<account, marker>> /\ Retire
             /\ \A d \in Delivery : \/ status'[d] = status[d] /\ laneSequence'[d] = laneSequence[d]
                                    \/ UserOf(d) = u /\ status'[d] = "absent" /\ laneSequence'[d] = 0
             /\ \A l \in Lane : \/ /\ value'[l] = value[l] /\ publisher'[l] = publisher[l]
                                   /\ tailRow'[l] = tailRow[l]
                                \/ OwnerOf[l] = u /\ publisher'[l] = None /\ tailRow'[l] = None
             /\ purged' \in [User -> SUBSET {"rows", "lanes"}]
             /\ \A v \in User \ {u} : purged'[v] = purged[v]

Manages(u) == /\ RowsStay /\ LanesStay /\ Retire
              /\ \/ BeginDeletion(u) \/ ArmPurge(u) \/ DisarmPurge(u) \/ CancelDeletion(u)
                 \/ DropStaleMarker(u) \/ CommitDeletion(u) \/ FinishPurge(u)

CallKind(c) == \/ Looks(c) \/ Selects(c) \/ Enters(c) \/ TurnsBack(c) \/ FindsPublished(c)
               \/ Asks(c) \/ Judges(c) \/ Publishes(c) \/ Reserves(c) \/ Releases(c)
               \/ Abandons(c) \/ Deletes(c)

\* Every step of the specification is of one of these kinds.
Kind == \/ Passes
        \/ \E c \in Call : CallKind(c)
        \/ \E d \in Delivery : Stages(d) \/ Settles(d)
        \/ \E u \in User : Purges(u) \/ Manages(u)

LEMMA MovesSame ==
  ASSUME CallTypes, NEW c \in Call, NEW s, NEW d, NEW l, NEW r, NEW n, Moves(c, s, d, l, r, n)
  PROVE  /\ Apart(c)
         /\ pc'[c] = s /\ lane'[c] = l /\ snap'[c] = r /\ next'[c] = n
         /\ s \in Away => Retire
  BY DEF CallTypes, Moves, Apart, Same, Retire

LEMMA GotoSame ==
  ASSUME CallTypes, NEW c \in Call, NEW s, Goto(c, s)
  PROVE  Apart(c) /\ Keeps(c) /\ pc'[c] = s /\ (s \in Away => Retire)
  BY GotoMoves, MovesSame DEF Keeps

LEMMA AwaySteps ==
  {"idle", "create", "load", "marker", "lane", "select", "requestCleanup", "clearPending",
   "reclaim", "unrequest"} \subseteq Away
  BY DEF Away, Step, Reading

LEMMA ReturnRetires == ASSUME CallTypes, NEW c \in Call, Return(c) PROVE Retire
  BY ReturnMoves, MovesSame, AwaySteps

LEMMA BeginRetires ==
  ASSUME CallTypes, NEW c \in Call, NEW s \in Beginning, NEW d, NEW l, Begin(c, s, d, l)
  PROVE  Retire
  BY BeginMoves, MovesSame, AwaySteps DEF Beginning

LEMMA ContinueRetires == ASSUME CallTypes, NEW c \in Call, Continue(c) PROVE Retire
  BY ReturnRetires, BeginRetires DEF Continue, Beginning

LEMMA StillRetires == CallTypes /\ UNCHANGED callVars => Retire
  BY DEF CallTypes, callVars, Retire, Same

LEMMA StartKind ==
  ASSUME Parts, NEW c \in Call, Start(c)
  PROVE  Kind
<1>0. CallTypes
  BY DEF Parts
<1>1. ASSUME RestStays, Retire PROVE Kind
  BY <1>1 DEF RestStays, Kind, Passes, RowsStay, LanesStay, UsersStay, rowVars, laneVars, userVars
<1>2. ASSUME NEW d \in Delivery, StartEnqueue(c, d) \/ HelpStaged(c, d) PROVE Kind
  BY <1>0, <1>1, <1>2, BeginRetires DEF StartEnqueue, HelpStaged, RestStays, Beginning
<1>3. ASSUME NEW d \in Delivery, Requeue(c, d) PROVE Kind
  <2>1. Retire
    BY <1>0, <1>3, BeginRetires DEF Requeue, Beginning
  <2>2. Stages(d)
    BY <1>3, <2>1 DEF Requeue, Stages, LanesStay, UsersStay, laneVars, userVars, Becomes
  <2> QED BY <2>2 DEF Kind
<1>4. ASSUME NEW d \in Delivery, Succeed(c, d) PROVE Kind
  <2>1. Retire
    BY <1>0, <1>4, AwaySteps DEF Succeed, Retire, Same, CallTypes
  <2>2. Becomes(d, "succeeded", laneSequence[d])
    BY <1>4 DEF Succeed, Becomes, Parts, RowTypes
  <2>3. Settles(d)
    BY <1>4, <2>1, <2>2 DEF Succeed, Settles, LanesStay, UsersStay, laneVars, userVars
  <2> QED BY <2>3 DEF Kind
<1>5. ASSUME NEW d \in Delivery, PickPendingCleanup(c, d) PROVE Kind
  <2>1. Retire
    BY <1>0, <1>5, AwaySteps DEF PickPendingCleanup, Retire, Same, CallTypes
  <2> QED BY <1>1, <1>5, <2>1 DEF PickPendingCleanup, RestStays
<1>6. ASSUME NEW l \in Lane, RecoverLane(c, l) PROVE Kind
  <2>1. Moves(c, "laneMarker", row[c], l, Document(l), next[c])
    BY <1>6 DEF RecoverLane, Moves, Parts, CallTypes
  <2>2. Apart(c) /\ pc'[c] = "laneMarker" /\ lane'[c] = l /\ snap'[c] = Document(l)
    BY <1>0, <2>1, MovesSame
  <2>3. Looks(c)
    BY <1>6, <2>2 DEF RecoverLane, Looks, Quiet, RowsStay, LanesStay, UsersStay,
                      rowVars, laneVars, userVars
  <2> QED BY <2>3 DEF Kind, CallKind
<1>7. ASSUME NEW l \in Lane, PickLane(c, l) PROVE Kind
  BY <1>0, <1>1, <1>7, BeginRetires DEF PickLane, RestStays, Beginning
<1> QED
  BY <1>2, <1>3, <1>4, <1>5, <1>6, <1>7 DEF Start

LEMMA AdvanceKind ==
  ASSUME Parts, NEW c \in Call, Advance(c)
  PROVE  Kind
<1> DEFINE l == lane[c]
<1>0. CallTypes /\ Fits(pc[c], row[c], l, snap[c], next[c]) /\ next[c] \in Maybe
  BY CallFits DEF Parts
<1>1. ASSUME RestStays PROVE RowsStay /\ LanesStay /\ UsersStay
  BY <1>1 DEF RestStays, RowsStay, LanesStay, UsersStay, rowVars, laneVars, userVars
<1>2. ASSUME RowsStay, LanesStay, UsersStay, Retire PROVE Kind
  BY <1>2 DEF Kind, Passes
<1>3. ASSUME NEW s, Goto(c, s)
      PROVE  Apart(c) /\ Keeps(c) /\ pc'[c] = s /\ (s \in Away => Retire)
  BY <1>0, <1>3, GotoSame
<1>4. Return(c) \/ Continue(c) \/ Begin(c, "load", row[c], l) => Retire
  BY <1>0, ReturnRetires, ContinueRetires, BeginRetires DEF Beginning
<1>5. CASE Create(c)
  <2>1. Retire /\ LanesStay /\ UsersStay
    BY <1>3, <1>4, <1>5, AwaySteps DEF Create, LanesStay, UsersStay, laneVars, userVars
  <2>2. CASE UNCHANGED rowVars
    BY <1>2, <2>1, <2>2 DEF RowsStay, rowVars
  <2>3. CASE ~UNCHANGED rowVars
    <3>1. row[c] \in Delivery
      BY <1>0, <1>5, CallFits, MaybeIs DEF Create, Fits, HasRow
    <3>2. Stages(row[c])
      BY <1>5, <2>1, <2>3 DEF Create, Stages, Becomes
    <3> QED BY <3>1, <3>2 DEF Kind
  <2> QED BY <2>2, <2>3
<1>6. CASE LoadRow(c) \/ CheckMarker(c)
  <2>1. Retire
    BY <1>3, <1>4, <1>6, AwaySteps DEF LoadRow, CheckMarker
  <2> QED BY <1>1, <1>2, <1>6, <2>1 DEF LoadRow, CheckMarker, RestStays
<1>7. CASE ReadLane(c)
  <2>0. RowsStay /\ LanesStay /\ UsersStay
    BY <1>1, <1>7 DEF ReadLane, RestStays
  <2>1. CASE publisher[l] = None
    <3>1. Goto(c, "select")
      BY <1>7, <2>1 DEF ReadLane
    <3> QED BY <1>2, <1>3, <2>0, <3>1, AwaySteps
  <2>2. CASE publisher[l] # None
    <3>1. Moves(c, "laneMarker", row[c], l, Document(l), next[c])
      BY <1>7, <2>2 DEF ReadLane, Moves, Parts, CallTypes
    <3>2. Apart(c) /\ pc'[c] = "laneMarker" /\ lane'[c] = l /\ snap'[c] = Document(l)
      BY <1>0, <3>1, MovesSame
    <3>3. l \in Lane
      BY <1>0, <1>7 DEF ReadLane, Fits
    <3>4. Looks(c)
      BY <2>0, <2>2, <3>2, <3>3 DEF Looks, Quiet
    <3> QED BY <3>4 DEF Kind, CallKind
  <2> QED BY <2>1, <2>2
<1>8. CASE CheckLaneMarker(c) \/ Recheck(c)
  <2>0. RowsStay /\ LanesStay /\ UsersStay /\ pc[c] \in Reading
    BY <1>1, <1>8 DEF CheckLaneMarker, Recheck, RestStays, Reading
  <2>1. CASE Return(c)
    BY <1>2, <1>4, <2>0, <2>1
  <2>2. pc[c] = "recheck" => UserOf(next[c]) = OwnerOf[l]
    BY <1>0 DEF Fits, Reading, UserOf
  <2>3. CASE Goto(c, "publish") /\ ~Marked(OwnerOf[l])
    <3>1. Enters(c)
      BY <1>3, <2>0, <2>3 DEF Enters, Quiet
    <3> QED BY <3>1 DEF Kind, CallKind
  <2>4. CASE Goto(c, "withdraw") /\ pc[c] = "recheck" /\ Marked(OwnerOf[l])
    <3>1. TurnsBack(c)
      BY <1>3, <2>0, <2>4 DEF TurnsBack, Quiet
    <3> QED BY <3>1 DEF Kind, CallKind
  <2> QED BY <1>8, <2>1, <2>2, <2>3, <2>4 DEF CheckLaneMarker, Recheck
<1>9. CASE SelectOldest(c)
  <2>0. RowsStay /\ LanesStay /\ UsersStay
    BY <1>1, <1>9 DEF SelectOldest, RestStays
  <2>1. CASE Staged(l) = {}
    BY <1>2, <1>4, <1>9, <2>0, <2>1 DEF SelectOldest
  <2>2. CASE Staged(l) # {}
    <3>1. Oldest(l) \in Staged(l)
      BY <2>2, OldestIsStaged, PartsType DEF TypeInv
    <3>2. Moves(c, "acquire", row[c], l, snap[c], Oldest(l))
      BY <1>9, <2>2 DEF SelectOldest, Moves, Parts, CallTypes
    <3>3. Apart(c) /\ pc'[c] = "acquire" /\ lane'[c] = l /\ next'[c] = Oldest(l)
      BY <1>0, <3>2, MovesSame
    <3>4. Selects(c)
      BY <1>9, <2>0, <3>1, <3>3 DEF Selects, Quiet, SelectOldest
    <3> QED BY <3>4 DEF Kind, CallKind
  <2> QED BY <2>1, <2>2
<1>10. CASE Acquire(c)
  <2>0. RowsStay /\ UsersStay
    BY <1>10 DEF Acquire, RowsStay, UsersStay, rowVars, userVars
  <2>1. CASE ~MayReserve(l)
    BY <1>2, <1>4, <1>10, <2>0, <2>1 DEF Acquire, LanesStay, laneVars
  <2>2. CASE MayReserve(l)
    <3> DEFINE r == [value |-> value[l] + 1, publisher |-> next[c],
                     tail |-> tailRow[l], cleanup |-> 0]
    <3>1. Moves(c, "recheck", row[c], l, r, next[c])
      BY <1>10, <2>2 DEF Acquire, Moves, Parts, CallTypes
    <3>2. r.value = value[l] + 1 /\ r.publisher = next[c]
      OBVIOUS
    <3> HIDE DEF r
    <3>3. Apart(c) /\ pc'[c] = "recheck" /\ lane'[c] = l /\ snap'[c] = r
      BY <1>0, <3>1, MovesSame
    <3>4. Reserves(c)
      BY <1>10, <2>0, <2>2, <3>2, <3>3 DEF Acquire, MayReserve, Reserves
    <3> QED BY <3>4 DEF Kind, CallKind
  <2> QED BY <2>1, <2>2
<1>11. CASE PublishReserved(c)
  <2>0. LanesStay /\ UsersStay /\ pc[c] \in Reading
    BY <1>11 DEF PublishReserved, LanesStay, UsersStay, laneVars, userVars, Reading
  <2>1. CASE status[snap[c].publisher] = "staging"
    <3>1. Goto(c, "release") /\ pc[c] = "publish"
          /\ Becomes(snap[c].publisher, "pending", snap[c].value)
      BY <1>11, <2>1 DEF PublishReserved, Becomes
    <3>2. Publishes(c)
      BY <1>3, <2>0, <2>1, <3>1 DEF Publishes
    <3> QED BY <3>2 DEF Kind, CallKind
  <2>2. CASE status[snap[c].publisher] # "staging"
    <3>1. Goto(c, "reread") /\ RowsStay
      BY <1>11, <2>2 DEF PublishReserved, RowsStay, rowVars
    <3>2. FindsPublished(c)
      BY <1>3, <2>0, <2>2, <3>1 DEF FindsPublished, Quiet
    <3> QED BY <3>2 DEF Kind, CallKind
  <2> QED BY <2>1, <2>2
<1>12. CASE Reread(c)
  <2>0. RowsStay /\ LanesStay /\ UsersStay /\ pc[c] \in Reading
    BY <1>1, <1>12 DEF Reread, RestStays, Reading
  <2>1. CASE status[snap[c].publisher] = "staging"
    BY <1>2, <1>4, <1>12, <2>0, <2>1 DEF Reread
  <2>2. CASE status[snap[c].publisher] # "staging"
    <3>1. Goto(c, IF Committed(c) THEN "release" ELSE "abandon")
      BY <1>12, <2>2 DEF Reread
    <3>2. FindsPublished(c)
      BY <1>3, <2>0, <2>2, <3>1 DEF FindsPublished, Quiet
    <3> QED BY <3>2 DEF Kind, CallKind
  <2> QED BY <2>1, <2>2
<1>13. CASE ReleasePublisher(c)
  <2>0. RowsStay /\ UsersStay /\ Retire
    BY <1>4, <1>13 DEF ReleasePublisher, RowsStay, UsersStay, rowVars, userVars
  <2>1. CASE PublisherFence(c)
    <3>1. Releases(c)
      BY <1>13, <2>0, <2>1 DEF ReleasePublisher, Releases
    <3> QED BY <3>1 DEF Kind, CallKind
  <2>2. CASE ~PublisherFence(c)
    BY <1>2, <1>13, <2>0, <2>2 DEF ReleasePublisher, LanesStay, laneVars
  <2> QED BY <2>1, <2>2
<1>14. CASE AbandonPublisher(c)
  <2>0. RowsStay /\ UsersStay /\ Retire
    BY <1>4, <1>14 DEF AbandonPublisher, RowsStay, UsersStay, rowVars, userVars
  <2>1. CASE PublisherFence(c)
    <3>0. pc'[c] \in Away
      BY <1>0, <1>14, ReturnMoves, BeginMoves, MovesSame, AwaySteps
         DEF AbandonPublisher, Continue
    <3>1. Abandons(c)
      BY <1>14, <2>0, <2>1, <3>0 DEF AbandonPublisher, Abandons, Drops, DropLane
    <3> QED BY <3>1 DEF Kind, CallKind
  <2>2. CASE ~PublisherFence(c)
    BY <1>2, <1>14, <2>0, <2>2 DEF AbandonPublisher, LanesStay, laneVars
  <2> QED BY <2>1, <2>2
<1>15. CASE RequestCleanup(c) \/ Unrequest(c)
  <2>1. RowsStay /\ LanesStay /\ UsersStay
    BY <1>15 DEF RequestCleanup, Unrequest, RowsStay, LanesStay, UsersStay, rowVars, userVars
  <2>2. Retire
    BY <1>3, <1>4, <1>15, AwaySteps DEF RequestCleanup, Unrequest
  <2> QED BY <1>2, <2>1, <2>2
<1>16. CASE ClearPending(c)
  <2>1. RowsStay /\ LanesStay /\ UsersStay
    BY <1>16 DEF ClearPending, RowsStay, LanesStay, UsersStay, laneVars, userVars
  <2>2. Retire
    BY <1>0, <1>16, BeginRetires DEF ClearPending, Beginning
  <2> QED BY <1>2, <2>1, <2>2
<1>17. CASE ReadRequest(c)
  <2>0. RowsStay /\ LanesStay /\ UsersStay
    BY <1>1, <1>17 DEF ReadRequest, RestStays
  <2>1. CASE cleanup[l] = 0
    BY <1>2, <1>4, <1>17, <2>0, <2>1 DEF ReadRequest
  <2>2. CASE cleanup[l] # 0
    <3>1. Moves(c, "retained", row[c], l, Document(l), next[c])
      BY <1>17, <2>2 DEF ReadRequest, Moves, Parts, CallTypes
    <3>2. Asks(c)
      BY <1>0, <1>17, <2>0, <3>1, MovesSame DEF Asks, Quiet, ReadRequest
    <3> QED BY <3>2 DEF Kind, CallKind
  <2> QED BY <2>1, <2>2
<1>18. CASE CheckRetained(c)
  <2>0. RowsStay /\ LanesStay /\ UsersStay
    BY <1>1, <1>18 DEF CheckRetained, RestStays
  <2>1. CASE Retained(l) = {}
    <3>1. Goto(c, "delete") /\ pc[c] = "retained"
      BY <1>18, <2>1 DEF CheckRetained
    <3>2. Judges(c)
      BY <1>3, <2>0, <2>1, <3>1 DEF Judges, Quiet
    <3> QED BY <3>2 DEF Kind, CallKind
  <2>2. CASE Retained(l) # {}
    <3>1. Goto(c, "unrequest")
      BY <1>18, <2>2 DEF CheckRetained
    <3> QED BY <1>2, <1>3, <2>0, <3>1, AwaySteps
  <2> QED BY <2>1, <2>2
<1>19. CASE DeleteLane(c)
  <2>0. RowsStay /\ UsersStay /\ Retire
    BY <1>4, <1>19 DEF DeleteLane, RowsStay, UsersStay, rowVars, userVars
  <2>1. CASE DeleteFence(c)
    <3>1. Deletes(c)
      BY <1>19, <2>0, <2>1 DEF DeleteLane, Deletes, Drops, DropLane
    <3> QED BY <3>1 DEF Kind, CallKind
  <2>2. CASE ~DeleteFence(c)
    BY <1>2, <1>19, <2>0, <2>2 DEF DeleteLane, LanesStay, laneVars
  <2> QED BY <2>1, <2>2
<1> QED
  BY <1>5, <1>6, <1>7, <1>8, <1>9, <1>10, <1>11, <1>12, <1>13, <1>14, <1>15, <1>16,
     <1>17, <1>18, <1>19 DEF Advance

LEMMA Kinds == TypeInv /\ [Next]_vars => Kind
<1> SUFFICES ASSUME Parts, [Next]_vars PROVE Kind
  BY PartsType
<1>0. CallTypes /\ (UNCHANGED callVars => Retire)
  BY StillRetires DEF Parts
<1>1. ASSUME NEW c \in Call, Start(c) \/ Advance(c) PROVE Kind
  BY <1>1, StartKind, AdvanceKind
<1>2. ASSUME NEW c \in Call, Vanish(c) PROVE Kind
  BY <1>0, <1>2, ReturnRetires
     DEF Vanish, Kind, Passes, RowsStay, LanesStay, UsersStay, rowVars, laneVars, userVars
<1>3. ASSUME NEW d \in Delivery, DeadLetter(d) PROVE Kind
  <2>1. Becomes(d, "dead", laneSequence[d])
    BY <1>3 DEF DeadLetter, Becomes, Parts, RowTypes
  <2>2. Settles(d)
    BY <1>0, <1>3, <2>1 DEF DeadLetter, Settles, LanesStay, UsersStay, laneVars, userVars
  <2> QED BY <2>2 DEF Kind
<1>4. ASSUME NEW u \in User, Delete(u) PROVE Kind
  <2>1. CASE PurgeRows(u)
    <3>1. Purges(u)
      <4>1. Retire /\ account[u] = "gone" /\ UNCHANGED <<account, marker>>
        BY <1>0, <2>1 DEF PurgeRows
      <4>2. \A d \in Delivery : \/ status'[d] = status[d] /\ laneSequence'[d] = laneSequence[d]
                                \/ UserOf(d) = u /\ status'[d] = "absent" /\ laneSequence'[d] = 0
        BY <2>1 DEF PurgeRows
      <4>3. \A l \in Lane : /\ value'[l] = value[l] /\ publisher'[l] = publisher[l]
                            /\ tailRow'[l] = tailRow[l]
        BY <2>1 DEF PurgeRows, laneVars
      <4>4. purged' \in [User -> SUBSET {"rows", "lanes"}]
            /\ \A v \in User \ {u} : purged'[v] = purged[v]
        BY <2>1 DEF PurgeRows, Parts, UserTypes
      <4> QED BY <4>1, <4>2, <4>3, <4>4 DEF Purges
    <3> QED BY <3>1 DEF Kind
  <2>2. CASE PurgeLanes(u)
    <3>1. Purges(u)
      <4>1. Retire /\ account[u] = "gone" /\ UNCHANGED <<account, marker>>
        BY <1>0, <2>2 DEF PurgeLanes
      <4>2. \A d \in Delivery : status'[d] = status[d] /\ laneSequence'[d] = laneSequence[d]
        BY <2>2 DEF PurgeLanes, rowVars
      <4>3. \A l \in Lane : \/ /\ value'[l] = value[l] /\ publisher'[l] = publisher[l]
                               /\ tailRow'[l] = tailRow[l]
                            \/ OwnerOf[l] = u /\ publisher'[l] = None /\ tailRow'[l] = None
        BY <2>2 DEF PurgeLanes
      <4>4. purged' \in [User -> SUBSET {"rows", "lanes"}]
            /\ \A v \in User \ {u} : purged'[v] = purged[v]
        BY <2>2 DEF PurgeLanes, Parts, UserTypes
      <4> QED BY <4>1, <4>2, <4>3, <4>4 DEF Purges
    <3> QED BY <3>1 DEF Kind
  <2>3. CASE Manages(u)
    BY <2>3 DEF Kind
  <2>4. ~(PurgeRows(u) \/ PurgeLanes(u)) => Manages(u)
    <3>1. ASSUME UNCHANGED <<rowVars, laneVars, callVars>>
          PROVE  RowsStay /\ LanesStay /\ Retire
      BY <1>0, <3>1 DEF RowsStay, LanesStay, rowVars, laneVars
    <3> QED
      BY <1>4, <3>1 DEF Delete, Manages, BeginDeletion, ArmPurge, DisarmPurge, CancelDeletion,
                        DropStaleMarker, CommitDeletion, FinishPurge
  <2> QED BY <2>1, <2>2, <2>3, <2>4
<1>5. CASE Tick
  BY <1>0, <1>5
     DEF Tick, Kind, Passes, RowsStay, LanesStay, UsersStay, rowVars, laneVars, userVars
<1>6. CASE UNCHANGED vars
  BY <1>0, <1>6
     DEF vars, Kind, Passes, RowsStay, LanesStay, UsersStay, rowVars, laneVars, userVars
<1> QED
  BY <1>1, <1>2, <1>3, <1>4, <1>5, <1>6 DEF Next

-----------------------------------------------------------------------------
(* What a step does to the users and to a row. *)

\* An account whose rows the lanes still have to number in order: it exists,
\* and no marker announces its purge, unless that may yet be given up.
Valid(l) == Existing(l) /\ (~Marked(OwnerOf[l]) \/ MaxRollbacks > 0)

\* A system that gives up no deletion marks only accounts it will delete.
AccountInv == MaxRollbacks = 0 =>
  \A u \in User : /\ account[u] # "cancelling" /\ marker[u] # "stale"
                  /\ marker[u] = "current" => account[u] \in {"armed", "gone"}
PurgeInv == \A u \in User : purged[u] # {} => account[u] = "gone"

UsersGo == /\ \A u \in User : account[u] = "gone" => account'[u] = "gone"
           /\ \A l \in Lane : Valid(l)' => Valid(l)
           /\ AccountInv' /\ PurgeInv'

LEMMA UsersStep ==
  ASSUME TypeInv, AccountInv, PurgeInv, Kind
  PROVE  UsersGo
<1>0. /\ \A l \in Lane : OwnerOf[l] \in User
      /\ MaxRollbacks \in Nat /\ rollbacks \in Nat
      /\ account \in [User -> {"active", "fenced", "armed", "cancelling", "gone"}]
      /\ marker \in [User -> {"none", "current", "stale"}]
      /\ purged \in [User -> SUBSET {"rows", "lanes"}]
  BY Constants DEF TypeInv, TypeOK
<1>1. CASE UsersStay
  BY <1>0, <1>1 DEF UsersStay, UsersGo, Valid, Existing, Marked, AccountInv, PurgeInv
<1>2. ASSUME NEW u \in User, Purges(u) PROVE UsersGo
  <2>1. PurgeInv'
    BY <1>0, <1>2 DEF Purges, PurgeInv
  <2> QED BY <1>0, <1>2, <2>1 DEF Purges, UsersGo, Valid, Existing, Marked, AccountInv
<1>3. ASSUME NEW u \in User, Manages(u) PROVE UsersGo
  <2>1. CASE BeginDeletion(u) \/ ArmPurge(u)
    <3>1. UNCHANGED purged /\ \A v \in User : account[v] = "gone" => account'[v] = "gone"
      BY <1>0, <2>1 DEF BeginDeletion, ArmPurge, Deletion
    <3>2. \A v \in User : account'[v] = "gone" <=> account[v] = "gone"
      BY <1>0, <2>1 DEF BeginDeletion, ArmPurge, Deletion
    <3>3. \A v \in User : Marked(v) => Marked(v)'
      BY <1>0, <2>1 DEF BeginDeletion, ArmPurge, Deletion, Marked
    <3>4. AccountInv'
      BY <1>0, <2>1 DEF BeginDeletion, ArmPurge, Deletion, AccountInv
    <3>5. PurgeInv'
      BY <3>1 DEF PurgeInv
    <3>6. \A l \in Lane : Valid(l)' => Valid(l)
      BY <1>0, <3>2, <3>3 DEF Valid, Existing
    <3> QED BY <3>1, <3>4, <3>5, <3>6 DEF UsersGo
  <2>2. CASE DisarmPurge(u) \/ CancelDeletion(u) \/ DropStaleMarker(u)
    <3>1. UNCHANGED purged /\ \A v \in User : account[v] = "gone" => account'[v] = "gone"
      BY <1>0, <2>2 DEF DisarmPurge, CancelDeletion, DropStaleMarker, Deletion
    <3>2. \A v \in User : account'[v] = "gone" <=> account[v] = "gone"
      BY <1>0, <2>2 DEF DisarmPurge, CancelDeletion, DropStaleMarker, Deletion
    <3>3. MaxRollbacks > 0
      BY <1>0, <2>2
         DEF DisarmPurge, CancelDeletion, DropStaleMarker, Deletion, AccountInv
    <3>4. AccountInv'
      BY <1>0, <3>3 DEF AccountInv
    <3>5. PurgeInv'
      BY <3>1 DEF PurgeInv
    <3>6. \A l \in Lane : Valid(l)' => Valid(l)
      BY <1>0, <3>2, <3>3 DEF Valid, Existing
    <3> QED BY <3>1, <3>4, <3>5, <3>6 DEF UsersGo
  <2>3. CASE CommitDeletion(u) \/ FinishPurge(u)
    <3>1. \A v \in User : account[v] = "gone" => account'[v] = "gone"
      BY <1>0, <2>3 DEF CommitDeletion, FinishPurge, Deletion
    <3>2. account'[u] = "gone"
      BY <1>0, <2>3 DEF CommitDeletion, FinishPurge, Deletion, PurgeInv
    <3>3. \A v \in User \ {u} : account'[v] = account[v] /\ marker'[v] = marker[v]
      BY <1>0, <2>3 DEF CommitDeletion, FinishPurge, Deletion
    <3>4. AccountInv'
      BY <1>0, <2>3, <3>2 DEF CommitDeletion, FinishPurge, Deletion, AccountInv
    <3>5. PurgeInv'
      BY <1>0, <2>3, <3>1 DEF CommitDeletion, FinishPurge, Deletion, PurgeInv
    <3>6. \A l \in Lane : Valid(l)' => Valid(l)
      BY <1>0, <3>2, <3>3 DEF Valid, Existing, Marked
    <3> QED BY <3>1, <3>4, <3>5, <3>6 DEF UsersGo
  <2> QED BY <1>3, <2>1, <2>2, <2>3 DEF Manages
<1> QED
  BY <1>1, <1>2, <1>3
     DEF Kind, Passes, CallKind, Looks, Selects, Enters, TurnsBack, FindsPublished, Asks,
         Judges, Quiet, Publishes, Reserves, Releases, Abandons, Deletes, Stages, Settles

\* What a step does to a row d.
RowGoes(d) ==
  \/ status'[d] = status[d] /\ laneSequence'[d] = laneSequence[d]
  \/ Stages(d) /\ status'[d] = "staging" /\ laneSequence'[d] = 0
  \/ \E c \in Call : /\ Publishes(c) /\ snap[c].publisher = d
                     /\ status'[d] = "pending" /\ laneSequence'[d] = snap[c].value
                     /\ snap[c].value > 0
  \/ /\ status[d] = "pending" /\ status'[d] \in {"succeeded", "dead"}
     /\ laneSequence'[d] = laneSequence[d]
  \/ account[UserOf(d)] = "gone" /\ status'[d] = "absent" /\ laneSequence'[d] = 0

LEMMA ReadsRow ==
  ASSUME Parts, NEW c \in Call
  PROVE  /\ pc[c] # "idle" => lane[c] \in Lane
         /\ pc[c] = "acquire" => next[c] \in Delivery /\ LaneOf[next[c]] = lane[c]
         /\ pc[c] \in Reading => /\ snap[c].publisher \in Delivery
                                 /\ LaneOf[snap[c].publisher] = lane[c] /\ lane[c] \in Lane
                                 /\ snap[c].value \in Nat /\ snap[c].value > 0
         /\ pc[c] \in {"recheck", "withdraw"} => next[c] = snap[c].publisher
         /\ pc[c] \in {"retained", "delete"} =>
              /\ lane[c] \in Lane /\ snap[c].tail \in Maybe
              /\ snap[c].tail # None => /\ snap[c].tail \in Delivery
                                        /\ LaneOf[snap[c].tail] = lane[c]
<1>1. /\ Fits(pc[c], row[c], lane[c], snap[c], next[c])
      /\ snap[c].publisher \in Maybe /\ snap[c].tail \in Maybe /\ snap[c].value \in 0 .. MaxSeq
      /\ next[c] \in Maybe
  BY CallFits DEF Snapshot, Maybe
<1>2. snap[c].value \in Nat
  BY <1>1, Constants
<1> QED BY <1>1, <1>2, MaybeIs DEF Fits, Reading

LEMMA RowsStep ==
  ASSUME TypeInv, Kind, NEW d \in Delivery
  PROVE  RowGoes(d)
<1>0. Parts /\ status \in [Delivery -> Status] /\ laneSequence \in [Delivery -> 0 .. MaxSeq]
  BY PartsType DEF TypeInv, TypeOK
<1>1. CASE RowsStay
  BY <1>1 DEF RowsStay, RowGoes
<1>2. ASSUME NEW e \in Delivery, Stages(e) PROVE RowGoes(d)
  BY <1>0, <1>2 DEF Stages, Becomes, RowGoes
<1>3. ASSUME NEW e \in Delivery, Settles(e) PROVE RowGoes(d)
  BY <1>0, <1>3 DEF Settles, Becomes, RowGoes
<1>4. ASSUME NEW c \in Call, Publishes(c) PROVE RowGoes(d)
  <2>1. snap[c].value > 0
    BY <1>0, <1>4, ReadsRow DEF Publishes, Reading
  <2> QED BY <1>0, <1>4, <2>1 DEF Publishes, Becomes, RowGoes
<1>5. ASSUME NEW u \in User, Purges(u) PROVE RowGoes(d)
  BY <1>5 DEF Purges, RowGoes
<1> QED
  BY <1>1, <1>2, <1>3, <1>4, <1>5
     DEF Kind, Passes, CallKind, Looks, Selects, Enters, TurnsBack, FindsPublished, Asks,
         Judges, Quiet, Reserves, Releases, Abandons, Deletes, Manages

-----------------------------------------------------------------------------
(* What a step does to a lane and to a call; numbers and presence. *)

\* A row has a sequence from its publication on.
NumberInv == \A d \in Delivery : Published(d) <=> laneSequence[d] > 0

\* A row that a lane or a call refers to is there while its account exists.
Present(d) == d # None => status[d] # "absent"
PresentCall(c) == /\ pc[c] = "acquire" => status[next[c]] # "absent"
                  /\ pc[c] \in Reading => status[snap[c].publisher] # "absent"
                  /\ pc[c] \in {"retained", "delete"} => Present(snap[c].tail)
PresentInv ==
  /\ \A l \in Lane : Existing(l) => Present(publisher[l]) /\ Present(tailRow[l])
  /\ \A c \in Call : pc[c] # "idle" /\ Existing(lane[c]) => PresentCall(c)

LEMMA NumberStep == TypeInv /\ NumberInv /\ Kind => NumberInv'
<1> SUFFICES ASSUME TypeInv, NumberInv, Kind, NEW d \in Delivery
             PROVE  Published(d)' <=> laneSequence'[d] > 0
  BY DEF NumberInv
<1>1. RowGoes(d) /\ laneSequence[d] \in Nat
  BY RowsStep, Constants DEF TypeInv, TypeOK
<1> QED BY <1>1 DEF RowGoes, NumberInv, Published

LEMMA StaysPresent ==
  ASSUME TypeInv, Kind, UsersGo, NEW d \in Delivery, status[d] # "absent",
         Existing(LaneOf[d])'
  PROVE  status'[d] # "absent"
<1>1. RowGoes(d) /\ OwnerOf[LaneOf[d]] \in User
  BY RowsStep, Constants
<1> QED BY <1>1 DEF RowGoes, UsersGo, Existing, UserOf

Tends(c) == Reserves(c) \/ Releases(c) \/ Abandons(c) \/ Deletes(c)

\* What a step does to a lane l.
LaneGoes(l) ==
  \/ value'[l] = value[l] /\ publisher'[l] = publisher[l] /\ tailRow'[l] = tailRow[l]
  \/ \E c \in Call : lane[c] = l /\ Tends(c)
  \/ ~Existing(l) /\ publisher'[l] = None /\ tailRow'[l] = None

LEMMA LanesStep ==
  ASSUME TypeInv, Kind, NEW l \in Lane
  PROVE  LaneGoes(l)
<1>0. /\ value \in [Lane -> 0 .. MaxSeq] /\ publisher \in [Lane -> Maybe]
      /\ tailRow \in [Lane -> Maybe]
  BY DEF TypeInv, TypeOK, Maybe
<1>1. CASE LanesStay
  BY <1>1 DEF LanesStay, LaneGoes
<1>2. ASSUME NEW c \in Call, Reserves(c) \/ Releases(c) \/ Abandons(c) \/ Deletes(c)
      PROVE  LaneGoes(l)
  <2>1. CASE lane[c] = l
    BY <1>2, <2>1 DEF LaneGoes, Tends
  <2>2. CASE lane[c] # l
    BY <1>0, <1>2, <2>2 DEF Reserves, Releases, Abandons, Deletes, Drops, LaneGoes
  <2> QED BY <2>1, <2>2
<1>3. ASSUME NEW u \in User, Purges(u) PROVE LaneGoes(l)
  BY <1>3 DEF Purges, LaneGoes, Existing
<1> QED
  BY <1>1, <1>2, <1>3
     DEF Kind, Passes, CallKind, Looks, Selects, Enters, TurnsBack, FindsPublished, Asks,
         Judges, Quiet, Publishes, Stages, Settles, Manages

\* A call that goes on with what it has.
GoesOn(c) == \/ Same(c) \/ Enters(c) \/ TurnsBack(c) \/ FindsPublished(c) \/ Judges(c)
             \/ Publishes(c)

\* What a step does to a call c.
CallGoes(c) == \/ pc'[c] \in Away
               \/ Looks(c) \/ Selects(c) \/ Asks(c) \/ Reserves(c)
               \/ GoesOn(c)

LEMMA CallsStep ==
  ASSUME TypeInv, Kind, NEW c \in Call
  PROVE  CallGoes(c)
<1>1. CASE Retire
  BY <1>1 DEF Retire, CallGoes, GoesOn
<1>2. ASSUME NEW e \in Call, CallKind(e), ~Retire PROVE CallGoes(c)
  BY <1>2 DEF CallKind, CallGoes, GoesOn, Looks, Selects, Enters, TurnsBack, FindsPublished, Asks,
              Judges, Quiet, Publishes, Reserves, Releases, Abandons, Deletes, Apart
<1> QED
  BY <1>1, <1>2 DEF Kind, Passes, Stages, Settles, Purges, Manages

LEMMA PresentStep ==
  TypeInv /\ TypeInv' /\ UsersGo /\ PresentInv /\ Kind => PresentInv'
<1> SUFFICES ASSUME TypeInv, TypeInv', UsersGo, PresentInv, Kind PROVE PresentInv'
  OBVIOUS
<1>0. Parts /\ (\A l \in Lane : OwnerOf[l] \in User)
      /\ publisher \in [Lane -> Maybe] /\ tailRow \in [Lane -> Maybe]
  BY PartsType, Constants DEF TypeInv, TypeOK, Maybe
<1>1. \A l \in Lane : Existing(l)' => Existing(l)
  BY <1>0 DEF UsersGo, Existing
<1>2. ASSUME NEW l \in Lane, Existing(l)', NEW d \in Delivery, LaneOf[d] = l,
             status[d] # "absent"
      PROVE  status'[d] # "absent"
  BY <1>2, StaysPresent
<1>3. ASSUME NEW l \in Lane, Existing(l)' PROVE Present(publisher[l])' /\ Present(tailRow[l])'
  <2>1. LaneGoes(l) /\ Existing(l)
    BY <1>1, <1>3, LanesStep
  <2>2. /\ publisher[l] # None => publisher[l] \in Delivery /\ LaneOf[publisher[l]] = l
        /\ tailRow[l] # None => tailRow[l] \in Delivery /\ LaneOf[tailRow[l]] = l
    BY <1>0, MaybeIs DEF Parts, LaneInv
  <2>3. ASSUME NEW d \in Maybe, d # None => LaneOf[d] = l, Present(d)
        PROVE  d # None => status'[d] # "absent"
    BY <1>2, <1>3, <2>3, MaybeIs DEF Present
  <2>4. Present(publisher[l]) /\ Present(tailRow[l])
    BY <2>1 DEF PresentInv
  <2>5. (publisher'[l] # None => status'[publisher'[l]] # "absent")
        /\ (tailRow'[l] # None => status'[tailRow'[l]] # "absent")
    <3>1. CASE publisher'[l] = publisher[l] /\ tailRow'[l] = tailRow[l]
      BY <1>0, <2>2, <2>3, <2>4, <3>1
    <3>2. ASSUME NEW c \in Call, lane[c] = l, Reserves(c)
          PROVE  (publisher'[l] # None => status'[publisher'[l]] # "absent")
                 /\ (tailRow'[l] # None => status'[tailRow'[l]] # "absent")
      <4>1. next[c] \in Delivery /\ LaneOf[next[c]] = l /\ pc[c] = "acquire"
            /\ publisher'[l] = next[c] /\ tailRow'[l] = tailRow[l]
        BY <1>0, <3>2, ReadsRow DEF Reserves
      <4>2. status[next[c]] # "absent"
        BY <2>1, <3>2, <4>1 DEF PresentInv, PresentCall
      <4>3. status'[next[c]] # "absent"
        BY <1>2, <1>3, <4>1, <4>2
      <4> QED BY <1>0, <2>2, <2>3, <2>4, <4>1, <4>3
    <3>3. ASSUME NEW c \in Call, lane[c] = l, Releases(c)
          PROVE  (publisher'[l] # None => status'[publisher'[l]] # "absent")
                 /\ (tailRow'[l] # None => status'[tailRow'[l]] # "absent")
      <4>1. publisher'[l] = None /\ tailRow'[l] = publisher[l]
        BY <1>0, <3>3 DEF Releases, PublisherFence
      <4> QED BY <1>0, <2>2, <2>3, <2>4, <4>1
    <3>4. ASSUME NEW c \in Call, lane[c] = l, Abandons(c) \/ Deletes(c)
          PROVE  (publisher'[l] # None => status'[publisher'[l]] # "absent")
                 /\ (tailRow'[l] # None => status'[tailRow'[l]] # "absent")
      <4>1. publisher'[l] = None /\ tailRow'[l] \in {None, tailRow[l]}
        BY <1>0, <3>4 DEF Abandons, Deletes, Drops
      <4> QED BY <1>0, <2>2, <2>3, <2>4, <4>1
    <3> QED BY <1>0, <1>3, <2>1, <3>1, <3>2, <3>3, <3>4 DEF LaneGoes, Tends
  <2> QED BY <2>5 DEF Present
<1>4. ASSUME NEW c \in Call, pc'[c] # "idle", Existing(lane[c])' PROVE PresentCall(c)'
  <2>0. CallGoes(c) /\ Parts'
    BY CallsStep, PartsType
  <2>1. CASE pc'[c] \in Away
    BY <2>1 DEF Away, PresentCall
  <2>2. /\ pc'[c] \in Reading => lane'[c] \in Lane
        /\ pc'[c] \in {"acquire", "retained", "delete"} => lane'[c] \in Lane
    <3>1. Fits(pc'[c], row'[c], lane'[c], snap'[c], next'[c])
      BY <2>0 DEF Parts, CallInv
    <3> QED BY <3>1 DEF Fits, Reading
  <2>3. CASE pc'[c] \notin Away
    <3>0. lane'[c] \in Lane
      <4>1. pc'[c] \in Step
        BY <2>0, CallParts DEF Parts, CallTypes
      <4> QED BY <2>2, <2>3, <4>1 DEF Away
    <3>1. PICK l \in Lane : l = lane'[c] /\ Existing(l) /\ Existing(l)'
      BY <1>1, <1>4, <3>0 DEF Existing
    <3>2. \A k \in Lane : Existing(k) => Present(publisher[k]) /\ Present(tailRow[k])
      BY DEF PresentInv
    <3>3. CASE Looks(c)
      BY <1>0, <3>1, <3>2, <3>3, MaybeIs
         DEF Looks, PresentCall, Present, Document, Reading, Quiet, RowsStay
    <3>4. CASE Selects(c)
      BY <3>4 DEF Selects, Quiet, RowsStay, Staged, PresentCall, Reading
    <3>5. CASE Asks(c)
      BY <3>1, <3>2, <3>5 DEF Asks, Quiet, RowsStay, PresentCall, Present, Document, Reading
    <3>6. CASE Reserves(c)
      <4>1. status[next[c]] # "absent"
        BY <3>1, <3>6 DEF Reserves, PresentInv, PresentCall
      <4> QED BY <3>6, <4>1 DEF Reserves, RowsStay, PresentCall, Reading
    <3>7. CASE GoesOn(c)
      <4>1. /\ pc[c] # "idle" /\ (pc'[c] = "acquire" => pc[c] = "acquire")
            /\ pc'[c] \in Reading => pc[c] \in Reading
            /\ pc'[c] \in {"retained", "delete"} => pc[c] \in {"retained", "delete"}
            /\ Keeps(c)
        BY <1>4, <3>7
           DEF GoesOn, Same, Enters, TurnsBack, FindsPublished, Judges, Publishes, Reading, Keeps
      <4>2. PresentCall(c) /\ lane[c] = l
        BY <3>1, <4>1 DEF PresentInv, Keeps
      <4>3. pc'[c] = "acquire" => status'[next'[c]] # "absent"
        <5>1. pc'[c] = "acquire" => /\ next[c] \in Delivery /\ LaneOf[next[c]] = l
                                    /\ status[next[c]] # "absent"
          BY <1>0, <4>1, <4>2, ReadsRow DEF PresentCall
        <5> QED BY <1>2, <3>1, <4>1, <5>1 DEF Keeps
      <4>4. pc'[c] \in Reading => status'[snap'[c].publisher] # "absent"
        <5>1. pc'[c] \in Reading => /\ snap[c].publisher \in Delivery
                                    /\ LaneOf[snap[c].publisher] = l
                                    /\ status[snap[c].publisher] # "absent"
          BY <1>0, <4>1, <4>2, ReadsRow DEF PresentCall
        <5> QED BY <1>2, <3>1, <4>1, <5>1 DEF Keeps
      <4>5. pc'[c] \in {"retained", "delete"} =>
              (snap'[c].tail # None => status'[snap'[c].tail] # "absent")
        <5>1. pc'[c] \in {"retained", "delete"} /\ snap[c].tail # None =>
                /\ snap[c].tail \in Delivery /\ LaneOf[snap[c].tail] = l
                /\ status[snap[c].tail] # "absent"
          BY <1>0, <4>1, <4>2, ReadsRow DEF PresentCall, Present
        <5> QED BY <1>2, <3>1, <4>1, <5>1 DEF Keeps
      <4> QED BY <4>3, <4>4, <4>5 DEF PresentCall, Present
    <3> QED BY <2>0, <2>3, <3>3, <3>4, <3>5, <3>6, <3>7 DEF CallGoes
  <2> QED BY <2>1, <2>3
<1> QED BY <1>3, <1>4 DEF PresentInv

-----------------------------------------------------------------------------
(* The counter covers the rows of a lane that is not upset: the inductive
   invariant, and the step for the counter. *)

\* What a step of a watched behaviour does to the history.
Watch == /\ upset \subseteq upset'
         /\ \A l \in Lane : l \notin upset' => ~Upsets(l)
         /\ \A l \in upset' \ upset : l \in Lane /\ Upsets(l)

\* The lanes that have to be in order: not upset, and of an account that exists
\* (Standing) or of one whose rows still have to be numbered (Orderly).
Standing(l) == Existing(l) /\ l \notin upset
Orderly(l) == Valid(l) /\ l \notin upset

\* A lane that has to be in order after a step had to be before, and was not
\* upset by it.
LEMMA StaysOrderly ==
  ASSUME UsersGo, Watch, NEW l \in Lane
  PROVE  /\ Standing(l)' => Standing(l) /\ ~Upsets(l) /\ l \notin upset'
         /\ Orderly(l)' => Orderly(l) /\ Standing(l) /\ ~Upsets(l) /\ l \notin upset'
<1>1. OwnerOf[l] \in User
  BY Constants
<1>2. l \notin upset' => l \notin upset /\ ~Upsets(l)
  BY DEF Watch
<1>3. Existing(l)' => Existing(l)
  BY <1>1 DEF UsersGo, Existing
<1>4. Valid(l)' => Valid(l)
  BY DEF UsersGo
<1> QED BY <1>2, <1>3, <1>4 DEF Standing, Orderly, Valid

\* The counter covers a row that waits, strictly if another row has its place
\* reserved.
Covers(d) == LET l == LaneOf[d] IN
  Orderly(l) /\ Waiting(d) =>
    /\ laneSequence[d] <= value[l]
    /\ publisher[l] \notin {None, d} => laneSequence[d] < value[l]
CoverInv == \A d \in Delivery : Covers(d)

\* What a call that holds a reservation of its row p with the sequence v knows.
Reserved(c) ==
  pc[c] \in Reading /\ Orderly(lane[c]) /\ status[snap[c].publisher] = "staging" =>
    value[lane[c]] = snap[c].value /\ publisher[lane[c]] = snap[c].publisher

Ready(c) ==
  pc[c] = "publish" /\ Standing(lane[c]) /\ status[snap[c].publisher] = "staging" =>
    /\ \A d \in Delivery : LaneOf[d] = lane[c] /\ status[d] = "pending" =>
         laneSequence[d] < snap[c].value
    /\ \A e \in Call : /\ pc[e] = "publish" /\ lane[e] = lane[c]
                       /\ status[snap[e].publisher] = "staging"
                       => snap[e].publisher = snap[c].publisher

Withdrawn(c) == pc[c] = "withdraw" /\ MaxRollbacks = 0 => ~Orderly(lane[c])

Recorded(c) ==
  pc[c] \in {"reread", "release", "abandon"} /\ Standing(lane[c]) =>
    /\ Published(snap[c].publisher)
    /\ pc[c] = "release" => laneSequence[snap[c].publisher] = snap[c].value
    /\ pc[c] = "abandon" => laneSequence[snap[c].publisher] # snap[c].value

\* What every call knows of the reservation it read or made: it is still the
\* lane's while its row is staging (Reserved), and about to be published its
\* sequence is above the whole lane (Ready); a call that withdraws serves a
\* marked account (Withdrawn); what a call read of a published row stays true
\* (Recorded).
HelpInv == \A c \in Call : Reserved(c) /\ Ready(c) /\ Withdrawn(c) /\ Recorded(c)

\* A call that found nothing retained: if the tail is still the one it read,
\* only the row of a reservation has been published since, with the last
\* sequence.
DeleteOK(c) ==
  pc[c] = "delete" /\ Orderly(lane[c]) =>
    LET l == lane[c]
        t == snap[c].tail IN
    /\ t # None => status[t] = "succeeded"
    /\ tailRow[l] = t =>
         \A d \in Delivery : LaneOf[d] = l /\ Waiting(d) =>
           d = publisher[l] /\ laneSequence[d] = value[l]
    /\ t # None /\ publisher[l] = t /\ laneSequence[t] = value[l] =>
         \A d \in Delivery : LaneOf[d] = l => ~Waiting(d)
DeleteInv == \A c \in Call : DeleteOK(c)

LEMMA WaitingStep ==
  ASSUME TypeInv, HelpInv, Kind, NEW d \in Delivery, Waiting(d)', Orderly(LaneOf[d])
  PROVE  \/ Waiting(d) /\ laneSequence'[d] = laneSequence[d]
         \/ /\ LanesStay /\ status[d] = "staging"
            /\ publisher[LaneOf[d]] = d /\ laneSequence'[d] = value[LaneOf[d]]
<1>0. Parts /\ RowGoes(d)
  BY PartsType, RowsStep
<1>1. ASSUME NEW c \in Call, Publishes(c), snap[c].publisher = d, laneSequence'[d] = snap[c].value
      PROVE  /\ LanesStay /\ status[d] = "staging"
             /\ publisher[LaneOf[d]] = d /\ laneSequence'[d] = value[LaneOf[d]]
  <2>1. pc[c] \in Reading /\ lane[c] = LaneOf[d] /\ status[d] = "staging" /\ LanesStay
    BY <1>0, <1>1, ReadsRow DEF Publishes, Reading
  <2> QED BY <1>1, <2>1 DEF HelpInv, Reserved
<1> QED
  BY <1>0, <1>1 DEF RowGoes, Waiting, Orderly, Valid, Existing, UserOf

\* What a withdrawal that does not upset the lane leaves alone.
LEMMA WithdrawalSpares ==
  ASSUME TypeInv, NEW c \in Call, pc[c] = "withdraw", Abandons(c), MaxRollbacks # 0,
         Existing(lane[c]), ~Upsets(lane[c])
  PROVE  status[next[c]] = "staging" /\ \A e \in Call \ {c} : ~Holds(e, next[c])
<1>1. /\ Parts /\ MaxRollbacks \in Nat /\ value \in [Lane -> 0 .. MaxSeq]
      /\ \A n \in 0 .. MaxSeq : n \in Nat
  BY PartsType, Constants DEF TypeInv, TypeOK
<1>2. lane[c] \in Lane /\ snap[c].value \in Nat /\ snap[c].value > 0
  BY <1>1, ReadsRow DEF Reading
<1>3. value'[lane[c]] # value[lane[c]]
  <2>1. value[lane[c]] = snap[c].value
    BY DEF Abandons, PublisherFence
  <2>2. value'[lane[c]] = 0 \/ value'[lane[c]] = value[lane[c]] - 1
    BY <1>1, <1>2 DEF Abandons, Drops
  <2> QED BY <1>2, <2>1, <2>2
<1>4. pc'[c] # "withdraw"
  BY DEF Abandons, Away, Reading
<1>5. ~WithdrawsHeld(c)
  BY DEF Upsets
<1> QED BY <1>1, <1>3, <1>4, <1>5 DEF WithdrawsHeld

LEMMA CoverStep ==
  ASSUME TypeInv, NumberInv, NumberInv', UsersGo, CoverInv, HelpInv, DeleteInv, Watch, Kind
  PROVE  CoverInv'
<1> SUFFICES ASSUME NEW d \in Delivery, NEW l \in Lane, l = LaneOf[d],
                    Orderly(l)', Waiting(d)'
             PROVE  /\ laneSequence'[d] <= value'[l]
                    /\ publisher'[l] \notin {None, d} => laneSequence'[d] < value'[l]
  BY Constants DEF CoverInv, Covers
<1>0. /\ Parts /\ None \notin Delivery
      /\ value \in [Lane -> 0 .. MaxSeq] /\ laneSequence \in [Delivery -> 0 .. MaxSeq]
      /\ publisher \in [Lane -> Maybe] /\ tailRow \in [Lane -> Maybe]
      /\ value[l] \in Nat /\ laneSequence[d] \in Nat
  BY PartsType, Constants DEF TypeInv, TypeOK, Maybe
<1>1. Orderly(l) /\ Existing(l) /\ Standing(l) /\ ~Upsets(l)
  BY StaysOrderly DEF Standing
<1>2. LaneGoes(l)
  BY LanesStep
<1>3. ASSUME LanesStay, publisher[l] = d, laneSequence'[d] = value[l]
      PROVE  /\ laneSequence'[d] <= value'[l]
             /\ publisher'[l] \notin {None, d} => laneSequence'[d] < value'[l]
  BY <1>0, <1>3 DEF LanesStay
<1>4. ASSUME Waiting(d), laneSequence'[d] = laneSequence[d]
      PROVE  /\ laneSequence'[d] <= value'[l]
             /\ publisher'[l] \notin {None, d} => laneSequence'[d] < value'[l]
  <2>1. laneSequence[d] <= value[l] /\ (publisher[l] \notin {None, d} => laneSequence[d] < value[l])
        /\ laneSequence[d] > 0
    BY <1>1, <1>4 DEF CoverInv, Covers, NumberInv, Waiting, Published
  <2>2. CASE value'[l] = value[l] /\ publisher'[l] = publisher[l]
    BY <1>4, <2>1, <2>2
  <2>3. ASSUME NEW c \in Call, lane[c] = l, Reserves(c)
        PROVE  laneSequence'[d] <= value'[l] /\ laneSequence'[d] < value'[l]
    <3>1. value'[l] = value[l] + 1
      BY <1>0, <2>3 DEF Reserves
    <3> QED BY <1>0, <1>4, <2>1, <3>1
  <2>4. ASSUME NEW c \in Call, lane[c] = l, Releases(c)
        PROVE  laneSequence'[d] <= value'[l] /\ publisher'[l] = None
    BY <1>0, <1>4, <2>1, <2>4 DEF Releases
  <2>5. ASSUME NEW c \in Call, lane[c] = l, Abandons(c)
        PROVE  laneSequence'[d] <= value'[l] /\ publisher'[l] = None
    <3>1. /\ pc[c] \in {"withdraw", "abandon"} /\ value[l] = snap[c].value
          /\ publisher[l] = snap[c].publisher /\ publisher[l] \in Delivery
          /\ pc[c] = "withdraw" => next[c] = snap[c].publisher
      BY <1>0, <2>5, ReadsRow DEF Abandons, PublisherFence, Reading
    <3>2. laneSequence[d] < value[l]
      <4>1. CASE publisher[l] # d
        BY <1>0, <2>1, <3>1, <4>1
      <4>2. CASE publisher[l] = d /\ pc[c] = "abandon"
        <5>1. laneSequence[d] # value[l]
          BY <1>1, <2>5, <3>1, <4>2 DEF HelpInv, Recorded
        <5> QED BY <1>0, <2>1, <5>1
      <4>3. CASE publisher[l] = d /\ pc[c] = "withdraw"
        <5>1. MaxRollbacks # 0
          BY <1>1, <2>5, <4>3 DEF HelpInv, Withdrawn
        <5>2. status[d] = "staging"
          BY <1>0, <1>1, <2>5, <3>1, <4>3, <5>1, WithdrawalSpares
        <5> QED BY <1>4, <5>2 DEF Waiting
      <4> QED BY <3>1, <4>1, <4>2, <4>3
    <3>3. CASE snap[c].value = 1 /\ Drops(l)
      BY <1>0, <2>1, <3>1, <3>2, <3>3
    <3>4. CASE value' = [value EXCEPT ![l] = @ - 1] /\ publisher' = [publisher EXCEPT ![l] = None]
      <4>1. value'[l] = value[l] - 1 /\ publisher'[l] = None
        BY <1>0, <3>4
      <4> QED BY <1>0, <1>4, <3>2, <4>1
    <3> QED BY <2>5, <3>3, <3>4 DEF Abandons
  <2>6. ASSUME NEW c \in Call, lane[c] = l, Deletes(c) PROVE FALSE
    <3>1. tailRow[l] = snap[c].tail /\ publisher[l] = None /\ value'[l] = 0
      BY <1>0, <2>6 DEF Deletes, DeleteFence, Drops
    <3>2. ~Waiting(d)
      BY <1>0, <1>1, <2>6, <3>1 DEF Deletes, DeleteInv, DeleteOK
    <3> QED BY <1>4, <3>2
  <2>7. CASE \E c \in Call : lane[c] = l /\ Tends(c)
    <3>1. PICK c \in Call : lane[c] = l /\ Tends(c)
      BY <2>7
    <3>2. CASE Reserves(c)
      BY <2>3, <3>1, <3>2
    <3>3. CASE Releases(c)
      BY <2>4, <3>1, <3>3
    <3>4. CASE Abandons(c)
      BY <2>5, <3>1, <3>4
    <3>5. CASE Deletes(c)
      BY <2>6, <3>1, <3>5
    <3> QED BY <3>1, <3>2, <3>3, <3>4, <3>5 DEF Tends
  <2> QED BY <1>1, <1>2, <2>2, <2>7 DEF LaneGoes
<1> QED BY <1>1, <1>3, <1>4, WaitingStep

-----------------------------------------------------------------------------
(* A call that holds a reservation. *)

LEMMA StillStaging ==
  ASSUME TypeInv, PresentInv, Kind, NEW c \in Call, pc[c] \in Reading,
         Existing(lane[c]), ~Upsets(lane[c]), status'[snap[c].publisher] = "staging"
  PROVE  status[snap[c].publisher] = "staging"
<1>1. Parts
  BY PartsType
<1>2. PICK p \in Delivery : p = snap[c].publisher
  BY <1>1, ReadsRow
<1>3. RowGoes(p) /\ status[p] # "absent" /\ Holds(c, p) /\ LaneOf[p] = lane[c]
  BY <1>1, <1>2, RowsStep, ReadsRow DEF PresentInv, PresentCall, Reading, Holds
<1>4. ~(status[p] = "dead" /\ status'[p] = "staging")
  BY <1>3 DEF Upsets, RequeuesHeld
<1> QED BY <1>2, <1>3, <1>4 DEF RowGoes, Stages

LEMMA StillPublished ==
  ASSUME TypeInv, Kind, NEW c \in Call, NEW p \in Delivery, Holds(c, p),
         Existing(lane[c]), ~Upsets(lane[c]), Published(p)
  PROVE  Published(p)' /\ laneSequence'[p] = laneSequence[p]
<1>1. Parts
  BY PartsType
<1>2. RowGoes(p) /\ LaneOf[p] = lane[c]
  BY <1>1, RowsStep, ReadsRow DEF Holds
<1>3. ~(status[p] = "dead" /\ status'[p] = "staging")
  BY <1>2 DEF Upsets, RequeuesHeld
<1> QED BY <1>2, <1>3 DEF RowGoes, Stages, Publishes, Published, Existing, UserOf

\* How a call comes to hold a reservation after a step.
LEMMA HoldsStep ==
  ASSUME TypeInv, Kind, NEW c \in Call, pc'[c] \in Reading
  PROVE  \/ Looks(c) \/ Reserves(c)
         \/ GoesOn(c) /\ Keeps(c) /\ pc[c] \in Reading
<1>1. CallGoes(c)
  BY CallsStep
<1> QED
  BY <1>1 DEF CallGoes, GoesOn, Same, Keeps, Away, Selects, Asks, Enters, TurnsBack,
              FindsPublished, Judges, Publishes, Reading

LEMMA ReservedStep ==
  ASSUME TypeInv, TypeInv', UsersGo, PresentInv, HelpInv, Watch, Kind, NEW c \in Call
  PROVE  Reserved(c)'
<1> SUFFICES ASSUME pc'[c] \in Reading, Orderly(lane[c])', status'[snap'[c].publisher] = "staging"
             PROVE  value'[lane'[c]] = snap'[c].value /\ publisher'[lane'[c]] = snap'[c].publisher
  BY DEF Reserved
<1>0. /\ Parts /\ Parts' /\ None \notin Delivery
      /\ value \in [Lane -> 0 .. MaxSeq] /\ publisher \in [Lane -> Maybe]
  BY PartsType, Constants DEF TypeInv, TypeOK, Maybe
<1>1. PICK l \in Lane : l = lane'[c]
  <2>1. Fits(pc'[c], row'[c], lane'[c], snap'[c], next'[c])
    BY <1>0 DEF Parts, CallInv
  <2> QED BY <2>1 DEF Fits, Reading
<1>2. Orderly(l) /\ Existing(l) /\ Standing(l) /\ ~Upsets(l)
  <2>1. Orderly(l)'
    BY <1>1 DEF Orderly, Valid, Existing, Marked
  <2> QED BY <2>1, StaysOrderly DEF Standing
<1>3. CASE Looks(c)
  BY <1>1, <1>3 DEF Looks, Quiet, LanesStay, Document
<1>4. CASE Reserves(c)
  BY <1>0, <1>1, <1>4 DEF Reserves
<1>5. CASE GoesOn(c) /\ Keeps(c) /\ pc[c] \in Reading
  <2>1. PICK p \in Delivery : p = snap[c].publisher
    BY <1>0, <1>5, ReadsRow
  <2>2. lane[c] = l /\ snap'[c] = snap[c] /\ status[p] = "staging" /\ Holds(c, p)
    <3>1. lane[c] = l /\ snap'[c] = snap[c]
      BY <1>1, <1>5 DEF Keeps
    <3> QED BY <1>2, <1>5, <2>1, <3>1, StillStaging DEF Holds
  <2>3. value[l] = snap[c].value /\ publisher[l] = p
    BY <1>2, <1>5, <2>1, <2>2 DEF HelpInv, Reserved
  <2>4. ASSUME NEW e \in Call, lane[e] = l, Tends(e) PROVE FALSE
    <3>1. CASE Reserves(e)
      BY <1>0, <2>3, <2>4, <3>1 DEF Reserves
    <3>2. CASE Releases(e)
      BY <1>2, <2>2, <2>3, <2>4, <3>2 DEF Releases, PublisherFence, HelpInv, Recorded, Published
    <3>3. CASE Abandons(e) /\ pc[e] = "abandon"
      BY <1>2, <2>2, <2>3, <2>4, <3>3 DEF Abandons, PublisherFence, HelpInv, Recorded, Published
    <3>4. CASE Abandons(e) /\ pc[e] = "withdraw"
      <4>1. MaxRollbacks # 0
        BY <1>2, <2>4, <3>4 DEF HelpInv, Withdrawn
      <4>2. e # c
        BY <1>5, <3>4 DEF Abandons, Away
      <4>3. next[e] = p
        BY <1>0, <2>3, <2>4, <3>4, ReadsRow DEF Abandons, PublisherFence
      <4> QED BY <1>2, <2>2, <2>4, <3>4, <4>1, <4>2, <4>3, WithdrawalSpares
    <3>5. CASE Deletes(e)
      BY <1>0, <2>3, <2>4, <3>5 DEF Deletes, DeleteFence
    <3> QED BY <2>4, <3>1, <3>2, <3>3, <3>4, <3>5 DEF Tends, Abandons
  <2>5. value'[l] = value[l] /\ publisher'[l] = publisher[l]
    BY <1>2, <2>4, LanesStep DEF LaneGoes
  <2> QED BY <1>1, <2>1, <2>2, <2>3, <2>5
<1> QED BY <1>3, <1>4, <1>5, HoldsStep

\* The calls about to publish a staging row of an account that exists.
Publishing(c, p) == pc[c] = "publish" /\ snap[c].publisher = p /\ status[p] = "staging"

LEMMA PublishingStep ==
  ASSUME TypeInv, UsersGo, PresentInv, HelpInv, Watch, Kind, NEW c \in Call, NEW p,
         NEW l \in Lane, Publishing(c, p)', lane'[c] = l, Standing(l)'
  PROVE  /\ p \in Delivery /\ LaneOf[p] = l /\ lane[c] = l /\ snap'[c] = snap[c]
         /\ snap[c].publisher = p
         /\ Publishing(c, p) \/ (Enters(c) /\ Orderly(l))
         /\ status[p] = "staging"
         /\ Orderly(l) => publisher[l] = p /\ value[l] = snap[c].value
<1>0. Parts /\ Standing(l) /\ Existing(l) /\ ~Upsets(l)
  BY PartsType, StaysOrderly DEF Standing
<1>1. GoesOn(c) /\ Keeps(c) /\ pc[c] \in Reading /\ (Same(c) \/ Enters(c))
  BY HoldsStep
     DEF Publishing, Reading, Looks, Reserves, GoesOn, TurnsBack, FindsPublished, Judges,
         Publishes
<1>2. lane[c] = l /\ snap'[c] = snap[c] /\ p = snap[c].publisher
  BY <1>1 DEF Keeps, Publishing
<1>3. p \in Delivery /\ LaneOf[p] = l
  BY <1>0, <1>1, <1>2, ReadsRow
<1>4. status[p] = "staging"
  BY <1>0, <1>1, <1>2, StillStaging DEF Publishing
<1>5. Publishing(c, p) \/ (Enters(c) /\ Orderly(l))
  BY <1>0, <1>1, <1>2, <1>4 DEF Publishing, Same, Enters, Standing, Orderly, Valid
<1>6. Orderly(l) => publisher[l] = p /\ value[l] = snap[c].value
  BY <1>1, <1>2, <1>4 DEF HelpInv, Reserved
<1> QED BY <1>2, <1>3, <1>4, <1>5, <1>6

LEMMA ReadyStep ==
  ASSUME TypeInv, TypeInv', UsersGo, PresentInv, CoverInv, HelpInv, Watch, Kind,
         NEW c \in Call
  PROVE  Ready(c)'
<1> DEFINE p == snap'[c].publisher
<1> SUFFICES ASSUME pc'[c] = "publish", Standing(lane[c])', status'[p] = "staging"
             PROVE  /\ \A d \in Delivery : LaneOf[d] = lane'[c] /\ status'[d] = "pending" =>
                         laneSequence'[d] < snap'[c].value
                    /\ \A e \in Call : /\ pc'[e] = "publish" /\ lane'[e] = lane'[c]
                                       /\ status'[snap'[e].publisher] = "staging"
                                       => snap'[e].publisher = p
  BY DEF Ready
<1>0. Parts /\ Parts' /\ None \notin Delivery
  BY PartsType, Constants
<1>1. PICK l \in Lane : l = lane'[c]
  <2>1. Fits(pc'[c], row'[c], lane'[c], snap'[c], next'[c])
    BY <1>0 DEF Parts, CallInv
  <2> QED BY <2>1 DEF Fits, Reading
<1>2. PICK q : q = p
  OBVIOUS
<1>3. Standing(l)' /\ Publishing(c, q)'
  BY <1>1, <1>2 DEF Standing, Existing, Publishing
<1>4. /\ q \in Delivery /\ LaneOf[q] = l /\ lane[c] = l /\ snap'[c] = snap[c]
      /\ snap[c].publisher = q
      /\ Publishing(c, q) \/ (Enters(c) /\ Orderly(l))
      /\ status[q] = "staging"
      /\ Orderly(l) => publisher[l] = q /\ value[l] = snap[c].value
  BY <1>1, <1>3, PublishingStep
<1>5. Standing(l)
  BY <1>3, StaysOrderly
<1>6. ASSUME NEW d \in Delivery, LaneOf[d] = l, status'[d] = "pending"
      PROVE  laneSequence'[d] < snap[c].value
  <2>1. RowGoes(d) /\ d # q
    BY <1>2, <1>6, RowsStep
  <2>2. CASE Enters(c) /\ Orderly(l)
    <3>1. status[d] = "pending" /\ laneSequence'[d] = laneSequence[d]
      BY <1>6, <2>2 DEF Enters, Quiet, RowsStay
    <3>2. laneSequence[d] < value[l]
      <4>1. Waiting(d)
        BY <3>1 DEF Waiting
      <4> QED BY <1>0, <1>4, <1>6, <2>1, <2>2, <4>1 DEF CoverInv, Covers
    <3> QED BY <1>4, <2>2, <3>1, <3>2
  <2>3. CASE Publishing(c, q)
    <3>1. /\ \A e \in Delivery : LaneOf[e] = l /\ status[e] = "pending" =>
               laneSequence[e] < snap[c].value
          /\ \A e \in Call : /\ pc[e] = "publish" /\ lane[e] = l
                             /\ status[snap[e].publisher] = "staging"
                             => snap[e].publisher = q
      BY <1>4, <1>5, <2>3 DEF HelpInv, Ready, Publishing
    <3>2. ASSUME NEW e \in Call, Publishes(e), snap[e].publisher = d PROVE FALSE
      <4>1. lane[e] = l
        BY <1>0, <1>6, <3>2, ReadsRow DEF Publishes, Reading
      <4> QED BY <2>1, <3>1, <3>2, <4>1 DEF Publishes
    <3> QED BY <1>6, <2>1, <3>1, <3>2 DEF RowGoes
  <2> QED BY <1>4, <2>2, <2>3
<1>7. ASSUME NEW e \in Call, pc'[e] = "publish", lane'[e] = l,
             status'[snap'[e].publisher] = "staging"
      PROVE  snap'[e].publisher = q
  <2>1. PICK r : r = snap'[e].publisher
    OBVIOUS
  <2>2. Publishing(e, r)'
    BY <1>7, <2>1 DEF Publishing
  <2>3. /\ lane[e] = l /\ snap[e].publisher = r
        /\ Publishing(e, r) \/ (Enters(e) /\ Orderly(l))
        /\ Orderly(l) => publisher[l] = r
    BY <1>3, <1>7, <2>2, PublishingStep
  <2>4. CASE Orderly(l)
    BY <1>4, <2>1, <2>3, <2>4
  <2>5. CASE ~Orderly(l)
    BY <1>4, <1>5, <2>1, <2>3, <2>5 DEF HelpInv, Ready, Publishing
  <2> QED BY <2>4, <2>5
<1> QED BY <1>1, <1>2, <1>4, <1>6, <1>7

LEMMA RecordedStep ==
  ASSUME TypeInv, TypeInv', UsersGo, PresentInv, HelpInv, Watch, Kind, NEW c \in Call
  PROVE  Recorded(c)' /\ Withdrawn(c)'
<1> SUFFICES ASSUME pc'[c] \in {"reread", "release", "abandon", "withdraw"}
             PROVE  Recorded(c)' /\ Withdrawn(c)'
  BY DEF Recorded, Withdrawn
<1>0. Parts /\ Parts'
  BY PartsType
<1>1. GoesOn(c) /\ Keeps(c) /\ pc[c] \in Reading
      /\ (Same(c) \/ TurnsBack(c) \/ FindsPublished(c) \/ Publishes(c))
  BY HoldsStep DEF Reading, Looks, Reserves, GoesOn, Enters, Judges
<1>2. PICK p \in Delivery : p = snap[c].publisher /\ LaneOf[p] = lane[c] /\ lane[c] \in Lane
  BY <1>0, <1>1, ReadsRow
<1>3. lane'[c] = lane[c] /\ snap'[c] = snap[c] /\ Holds(c, p)
  BY <1>1, <1>2 DEF Keeps, Holds
<1>4. Standing(lane[c])' => Standing(lane[c]) /\ Existing(lane[c]) /\ ~Upsets(lane[c])
  <2>1. PICK l \in Lane : l = lane[c] /\ l = lane'[c]
    BY <1>2, <1>3
  <2>2. Standing(lane[c])' => Standing(l)'
    BY <2>1 DEF Standing, Existing
  <2> QED BY <2>1, <2>2, StaysOrderly DEF Standing
<1>5. Orderly(lane[c])' => Orderly(lane[c])
  <2>1. PICK l \in Lane : l = lane[c] /\ l = lane'[c]
    BY <1>2, <1>3
  <2>2. Orderly(lane[c])' => Orderly(l)'
    BY <2>1 DEF Orderly, Valid, Existing, Marked
  <2> QED BY <2>1, <2>2, StaysOrderly
<1>6. Withdrawn(c)'
  BY <1>1, <1>5, Constants
     DEF Withdrawn, HelpInv, Same, TurnsBack, FindsPublished, Publishes, Orderly, Valid
<1>7. ASSUME Standing(lane[c])', pc'[c] \in {"reread", "release", "abandon"}
      PROVE  /\ Published(p)'
             /\ pc'[c] = "release" => laneSequence'[p] = snap[c].value
             /\ pc'[c] = "abandon" => laneSequence'[p] # snap[c].value
  <2>1. CASE Same(c)
    <3>1. /\ Published(p)
          /\ pc'[c] = "release" => laneSequence[p] = snap[c].value
          /\ pc'[c] = "abandon" => laneSequence[p] # snap[c].value
      BY <1>2, <1>4, <1>7, <2>1 DEF Same, HelpInv, Recorded
    <3>2. Published(p)' /\ laneSequence'[p] = laneSequence[p]
      BY <1>3, <1>4, <1>7, <3>1, StillPublished
    <3> QED BY <3>1, <3>2
  <2>2. CASE FindsPublished(c)
    <3>1. status[p] # "absent"
      BY <1>1, <1>2, <1>4, <1>7 DEF PresentInv, PresentCall, Reading
    <3> QED
      BY <1>2, <2>2, <3>1 DEF FindsPublished, Committed, Quiet, RowsStay, Published
  <2>3. CASE Publishes(c)
    <3>1. status'[p] = "pending" /\ laneSequence'[p] = snap[c].value
      BY <1>2, <2>3 DEF Publishes, Becomes, TypeInv, TypeOK
    <3> QED BY <2>3, <3>1 DEF Publishes, Published
  <2> QED BY <1>1, <1>7, <2>1, <2>2, <2>3 DEF TurnsBack
<1>8. Recorded(c)'
  BY <1>2, <1>3, <1>7 DEF Recorded
<1> QED BY <1>6, <1>8

LEMMA HelpStep ==
  ASSUME TypeInv, TypeInv', UsersGo, PresentInv, CoverInv, HelpInv, Watch, Kind
  PROVE  HelpInv'
<1> SUFFICES ASSUME NEW c \in Call
             PROVE  Reserved(c)' /\ Ready(c)' /\ Withdrawn(c)' /\ Recorded(c)'
  BY DEF HelpInv
<1> QED BY ReservedStep, ReadyStep, RecordedStep

-----------------------------------------------------------------------------
(* A call that is about to delete a lane. *)

\* A call that goes on to delete a lane, and what it then has to know.
LEMMA DeletingStep ==
  ASSUME TypeInv, Kind, NEW c \in Call, pc'[c] = "delete"
  PROVE  Keeps(c) /\ (Same(c) \/ Judges(c))
<1>1. CallGoes(c)
  BY CallsStep
<1> QED
  BY <1>1 DEF CallGoes, GoesOn, Same, Keeps, Away, Looks, Selects, Asks, Reserves, Enters,
              TurnsBack, FindsPublished, Judges, Publishes

LEMMA SucceededStep ==
  ASSUME TypeInv, UsersGo, Watch, PresentInv, DeleteInv, Kind, NEW c \in Call, pc'[c] = "delete",
         Orderly(lane[c])', snap[c].tail # None
  PROVE  /\ status'[snap[c].tail] = "succeeded"
         /\ laneSequence'[snap[c].tail] = laneSequence[snap[c].tail]
<1>0. Parts /\ status \in [Delivery -> Status]
  BY PartsType DEF TypeInv, TypeOK
<1>1. Keeps(c) /\ (Same(c) \/ Judges(c))
  BY DeletingStep
<1>2. PICK t \in Delivery : t = snap[c].tail /\ LaneOf[t] = lane[c] /\ lane[c] \in Lane
  BY <1>0, <1>1, ReadsRow DEF Same, Judges
<1>3. Orderly(lane[c]) /\ Existing(lane[c])
  <2>1. PICK l \in Lane : l = lane[c] /\ l = lane'[c]
    BY <1>1, <1>2 DEF Keeps
  <2>2. Orderly(l)'
    BY <2>1 DEF Orderly, Valid, Existing, Marked
  <2> QED BY <2>1, <2>2, StaysOrderly DEF Standing
<1>4. RowGoes(t)
  BY RowsStep
<1>5. status[t] = "succeeded"
  <2>1. CASE Same(c)
    BY <1>2, <1>3, <2>1 DEF Same, DeleteInv, DeleteOK
  <2>2. CASE Judges(c)
    <3>1. status[t] # "absent"
      BY <1>2, <1>3, <2>2 DEF Judges, PresentInv, PresentCall, Present
    <3>2. status[t] \notin {"staging", "pending", "dead"}
      BY <1>2, <2>2 DEF Judges, Retained
    <3> QED BY <1>0, <3>1, <3>2 DEF Status
  <2> QED BY <1>1, <2>1, <2>2
<1> QED
  BY <1>2, <1>3, <1>4, <1>5 DEF RowGoes, Stages, Publishes, Existing, UserOf

LEMMA DroppedIsEmpty ==
  ASSUME TypeInv', NumberInv', CoverInv', NEW l \in Lane, Orderly(l)', value'[l] = 0,
         NEW d \in Delivery, LaneOf[d] = l
  PROVE  ~Waiting(d)'
<1>1. laneSequence'[d] \in Nat
  BY Constants DEF TypeInv, TypeOK
<1>2. Waiting(d)' => laneSequence'[d] > 0
  BY DEF Waiting, NumberInv, Published
<1>3. Waiting(d)' => laneSequence'[d] <= value'[l]
  BY DEF CoverInv, Covers
<1> QED BY <1>1, <1>2, <1>3

LEMMA DeleteStep ==
  ASSUME TypeInv, TypeInv', NumberInv', UsersGo, PresentInv, CoverInv, CoverInv', HelpInv,
         DeleteInv, Watch, Kind
  PROVE  DeleteInv'
<1> SUFFICES ASSUME NEW c \in Call, pc'[c] = "delete", Orderly(lane[c])' PROVE DeleteOK(c)'
  BY DEF DeleteInv, DeleteOK
<1>0. /\ Parts /\ Parts' /\ None \notin Delivery
      /\ value \in [Lane -> 0 .. MaxSeq] /\ publisher \in [Lane -> Maybe]
      /\ tailRow \in [Lane -> Maybe] /\ laneSequence \in [Delivery -> 0 .. MaxSeq]
      /\ \A n \in 0 .. MaxSeq : n \in Nat
  BY PartsType, Constants DEF TypeInv, TypeOK, Maybe
<1>1. Keeps(c) /\ (Same(c) \/ Judges(c))
  BY DeletingStep
<1>2. PICK l \in Lane : l = lane[c] /\ lane'[c] = l
  BY <1>0, <1>1, ReadsRow DEF Same, Judges, Keeps
<1>3. PICK t \in Maybe : t = snap[c].tail /\ snap'[c].tail = t
  BY <1>0, <1>1, ReadsRow DEF Same, Judges, Keeps
<1>4. Orderly(l)' /\ Orderly(l) /\ Existing(l) /\ Standing(l) /\ ~Upsets(l)
  <2>1. Orderly(l)'
    BY <1>2 DEF Orderly, Valid, Existing, Marked
  <2> QED BY <2>1, StaysOrderly DEF Standing
<1>5. t # None => /\ t \in Delivery /\ LaneOf[t] = l
                  /\ status'[t] = "succeeded" /\ laneSequence'[t] = laneSequence[t]
  BY <1>0, <1>1, <1>2, <1>3, SucceededStep, ReadsRow DEF Same, Judges
<1> DEFINE Empty == \A d \in Delivery : LaneOf[d] = l => ~Waiting(d)
           EmptyNext == \A d \in Delivery : LaneOf[d] = l => ~Waiting(d)'
           OnlyPublisher == \A d \in Delivery : LaneOf[d] = l /\ Waiting(d) =>
                              d = publisher[l] /\ laneSequence[d] = value[l]
           OnlyPublisherNext == \A d \in Delivery : LaneOf[d] = l /\ Waiting(d)' =>
                                  d = publisher'[l] /\ laneSequence'[d] = value'[l]
           Goal == /\ tailRow'[l] = t => OnlyPublisherNext
                   /\ t # None /\ publisher'[l] = t /\ laneSequence'[t] = value'[l] => EmptyNext
<1>6. ASSUME Goal PROVE DeleteOK(c)'
  BY <1>2, <1>3, <1>5, <1>6 DEF DeleteOK
<1>7. ASSUME Empty, RowsStay PROVE EmptyNext
  BY <1>7 DEF RowsStay, Waiting
<1>8. EmptyNext => Goal
  OBVIOUS
<1>9. CASE Judges(c)
  <2>1. Empty /\ RowsStay
    BY <1>2, <1>9 DEF Judges, Quiet, Retained, Waiting
  <2> QED BY <1>6, <1>7, <1>8, <2>1
<1>10. CASE Same(c)
  <2>1. /\ t # None => status[t] = "succeeded"
        /\ tailRow[l] = t => OnlyPublisher
        /\ t # None /\ publisher[l] = t /\ laneSequence[t] = value[l] => Empty
    BY <1>2, <1>3, <1>4, <1>10 DEF Same, DeleteInv, DeleteOK
  <2>2. CASE value'[l] = value[l] /\ publisher'[l] = publisher[l] /\ tailRow'[l] = tailRow[l]
    <3>1. ASSUME NEW d \in Delivery, LaneOf[d] = l, Waiting(d)'
          PROVE  \/ Waiting(d) /\ laneSequence'[d] = laneSequence[d]
                 \/ status[d] = "staging" /\ publisher[l] = d /\ laneSequence'[d] = value[l]
      BY <1>4, <3>1, WaitingStep
    <3>2. ASSUME tailRow'[l] = t PROVE OnlyPublisherNext
      BY <2>1, <2>2, <3>1, <3>2
    <3>3. ASSUME t # None, publisher'[l] = t, laneSequence'[t] = value'[l] PROVE EmptyNext
      BY <1>5, <2>1, <2>2, <3>1, <3>3
    <3>4. Goal
      BY <3>2, <3>3
    <3> QED BY <1>6, <3>4
  <2>3. ASSUME NEW e \in Call, lane[e] = l, Tends(e) PROVE Goal
    <3>1. CASE Reserves(e)
      <4>1. /\ RowsStay /\ publisher[l] = None /\ publisher'[l] = next[e]
            /\ tailRow'[l] = tailRow[l] /\ value'[l] = value[l] + 1
            /\ pc[e] = "acquire" /\ pc'[e] = "recheck"
        BY <1>0, <2>3, <3>1 DEF Reserves
      <4>2. ASSUME tailRow'[l] = t PROVE EmptyNext
        <5>1. Empty
          BY <1>0, <2>1, <4>1, <4>2
        <5> QED BY <1>7, <4>1, <5>1
      <4>3. ASSUME t # None, publisher'[l] = t, laneSequence'[t] = value'[l] PROVE EmptyNext
        <5>1. Published(t) /\ next[e] = t /\ laneSequence[t] = value'[l]
          BY <1>5, <2>1, <4>1, <4>3 DEF Published
        <5>2. ~ReservesAgain(e)
          BY <1>4, <2>3 DEF Upsets
        <5>3. Empty
          BY <1>4, <2>3, <4>1, <5>1, <5>2 DEF ReservesAgain
        <5> QED BY <1>7, <4>1, <5>3
      <4> QED BY <4>2, <4>3
    <3>2. CASE Releases(e)
      <4>1. /\ RowsStay /\ publisher'[l] = None /\ tailRow'[l] = publisher[l]
            /\ publisher[l] = snap[e].publisher /\ value[l] = snap[e].value
            /\ publisher[l] # None
        BY <1>0, <2>3, <3>2, ReadsRow DEF Releases, PublisherFence, Reading
      <4>2. ASSUME tailRow'[l] = t PROVE EmptyNext
        <5>1. laneSequence[t] = value[l]
          BY <1>4, <2>3, <3>2, <4>1, <4>2 DEF Releases, HelpInv, Recorded
        <5>2. Empty
          BY <2>1, <4>1, <4>2, <5>1
        <5> QED BY <1>7, <4>1, <5>2
      <4> QED BY <4>1, <4>2
    <3>3. CASE value'[l] = 0
      <4>1. EmptyNext
        BY <1>4, <3>3, DroppedIsEmpty
      <4> QED BY <1>8, <4>1
    <3>4. CASE Abandons(e) /\ value'[l] # 0
      <4>1. /\ RowsStay /\ publisher'[l] = None /\ tailRow'[l] = tailRow[l]
            /\ publisher[l] = snap[e].publisher /\ value[l] = snap[e].value
            /\ pc[e] \in {"withdraw", "abandon"}
            /\ pc[e] = "withdraw" => next[e] = snap[e].publisher
        BY <1>0, <2>3, <3>4, ReadsRow DEF Abandons, PublisherFence, Drops
      <4>2. ASSUME tailRow'[l] = t PROVE EmptyNext
        <5>1. ASSUME NEW d \in Delivery, LaneOf[d] = l, Waiting(d) PROVE FALSE
          <6>1. d = publisher[l] /\ laneSequence[d] = value[l]
            BY <2>1, <4>1, <4>2, <5>1
          <6>2. CASE pc[e] = "abandon"
            BY <1>4, <2>3, <4>1, <6>1, <6>2 DEF HelpInv, Recorded
          <6>3. CASE pc[e] = "withdraw"
            <7>1. MaxRollbacks # 0
              BY <1>4, <2>3, <6>3 DEF HelpInv, Withdrawn
            <7>2. status[d] = "staging"
              BY <1>4, <2>3, <3>4, <4>1, <6>1, <6>3, <7>1, WithdrawalSpares
            <7> QED BY <5>1, <7>2 DEF Waiting
          <6> QED BY <4>1, <6>2, <6>3
        <5>2. Empty
          BY <5>1
        <5> QED BY <1>7, <4>1, <5>2
      <4> QED BY <4>1, <4>2
    <3>5. Deletes(e) => value'[l] = 0
      BY <1>0, <2>3 DEF Deletes, Drops
    <3> QED BY <2>3, <3>1, <3>2, <3>3, <3>4, <3>5 DEF Tends
  <2> HIDE DEF Goal
  <2> QED BY <1>4, <1>6, <2>2, <2>3, LanesStep DEF LaneGoes
<1> QED BY <1>1, <1>9, <1>10

-----------------------------------------------------------------------------
(* The order of a lane. *)

\* The inductive invariant.
OrderInv == /\ TypeInv /\ NumberInv /\ PresentInv /\ AccountInv /\ PurgeInv
            /\ CoverInv /\ HelpInv /\ DeleteInv

LEMMA OrderInit == WatchedInit => OrderInv
<1> SUFFICES ASSUME Init PROVE OrderInv
  BY DEF WatchedInit
<1>1. TypeInv
  BY TypeInit
<1>2. NumberInv /\ AccountInv /\ PurgeInv /\ CoverInv
  BY DEF Init, NumberInv, AccountInv, PurgeInv, CoverInv, Covers, Waiting, Published
<1>3. PresentInv /\ HelpInv /\ DeleteInv
  BY DEF Init, PresentInv, Present, HelpInv, Reserved, Ready, Withdrawn, Recorded, DeleteInv,
         DeleteOK, Reading
<1> QED BY <1>1, <1>2, <1>3 DEF OrderInv

\* A step that does nothing upsets nothing.
LEMMA StepIsWatched == TypeInv /\ [WatchedNext]_watchedVars => TypeInv' /\ Kind /\ Watch
<1> SUFFICES ASSUME TypeInv, [WatchedNext]_watchedVars PROVE TypeInv' /\ Kind /\ Watch
  OBVIOUS
<1>1. [Next]_vars
  BY DEF WatchedNext, watchedVars
<1>2. ASSUME WatchedNext PROVE Watch
  BY <1>2 DEF WatchedNext, Watch
<1>3. ASSUME UNCHANGED watchedVars PROVE Watch
  <2>1. UNCHANGED <<status, pc, upset>>
    BY <1>3 DEF watchedVars, vars, rowVars, callVars
  <2>2. ASSUME NEW l \in Lane PROVE ~Upsets(l)
    BY <2>1 DEF Upsets, ReservesAgain, RequeuesHeld, WithdrawsHeld
  <2> QED BY <2>1, <2>2 DEF Watch
<1> QED BY <1>1, <1>2, <1>3, TypeStep, Kinds

LEMMA OrderStep == OrderInv /\ [WatchedNext]_watchedVars => OrderInv'
<1> SUFFICES ASSUME OrderInv, [WatchedNext]_watchedVars PROVE OrderInv'
  OBVIOUS
<1>1. TypeInv' /\ Kind /\ Watch
  BY StepIsWatched DEF OrderInv
<1>2. UsersGo
  BY <1>1, UsersStep DEF OrderInv
<1>3. NumberInv' /\ PresentInv'
  BY <1>1, <1>2, NumberStep, PresentStep DEF OrderInv
<1>4. CoverInv'
  BY <1>1, <1>2, <1>3, CoverStep DEF OrderInv
<1>5. HelpInv' /\ DeleteInv'
  BY <1>1, <1>2, <1>3, <1>4, HelpStep, DeleteStep DEF OrderInv
<1> QED
  BY <1>1, <1>2, <1>3, <1>4, <1>5 DEF OrderInv, UsersGo

LEMMA Ordered == WatchedSpec => []OrderInv
  BY OrderInit, OrderStep, PTL DEF WatchedSpec

\* Nothing published lies above the counter of a lane that is not upset, so
\* that its next reservation is above everything published: no interleaving of
\* reservation, withdrawal, reclamation, requeue and purge, by any number of
\* calls, sets the counter back under a row unless it contains one of the
\* three overlaps.  In particular CounterCoversLane holds until one occurs.
THEOREM CounterCoversLaneHolds ==
  WatchedSpec => [](CounterCoversUnlessUpset /\ (upset = {} => CounterCoversLane))
<1>1. OrderInv => CounterCoversUnlessUpset
  <2> SUFFICES ASSUME OrderInv, NEW d \in Delivery, status[d] \in {"pending", "dead"},
                      LaneOf[d] \notin upset,
                      ~Marked(UserOf(d)), account[UserOf(d)] # "gone"
               PROVE  laneSequence[d] <= value[LaneOf[d]]
    BY DEF CounterCoversUnlessUpset
  <2> QED
    BY DEF OrderInv, CoverInv, Covers, Waiting, Orderly, Valid, Existing, UserOf
<1>2. CounterCoversUnlessUpset /\ upset = {} => CounterCoversLane
  BY DEF CounterCoversUnlessUpset, CounterCoversLane
<1> QED BY <1>1, <1>2, Ordered, PTL

\* A row that is published: by a call that reserved its place.
LEMMA PublicationStep ==
  ASSUME OrderInv, Kind, NEW d \in Delivery, status[d] # "pending", status'[d] = "pending",
         Standing(LaneOf[d])
  PROVE  /\ \A e \in Delivery : LaneOf[e] = LaneOf[d] /\ status[e] = "pending" =>
              laneSequence[e] < laneSequence'[d]
         /\ status[d] = "staging"
         /\ \A e \in Delivery \ {d} : status'[e] = status[e] /\ laneSequence'[e] = laneSequence[e]
<1>0. Parts /\ RowGoes(d)
  BY PartsType, RowsStep DEF OrderInv
<1>1. PICK c \in Call : Publishes(c) /\ snap[c].publisher = d /\ laneSequence'[d] = snap[c].value
  BY <1>0 DEF RowGoes, Stages
<1>2. lane[c] = LaneOf[d]
  BY <1>0, <1>1, ReadsRow DEF Publishes, Reading
<1>3. Ready(c)
  BY DEF OrderInv, HelpInv
<1> QED
  BY <1>1, <1>2, <1>3 DEF Publishes, Ready, Becomes, OrderInv, TypeInv, TypeOK

LEMMA SequencesDifferStep ==
  OrderInv /\ SequencesDifferUnlessUpset /\ Kind /\ Watch => SequencesDifferUnlessUpset'
<1> SUFFICES ASSUME OrderInv, SequencesDifferUnlessUpset, Kind, Watch,
                    NEW d \in Delivery, NEW e \in Delivery, d # e, LaneOf[d] = LaneOf[e],
                    LaneOf[d] \notin upset',
                    status'[d] = "pending", status'[e] = "pending", account'[UserOf(d)] # "gone"
             PROVE  laneSequence'[d] # laneSequence'[e]
  BY DEF SequencesDifferUnlessUpset, UserOf
<1>0. /\ account[UserOf(d)] # "gone" /\ LaneOf[d] \notin upset
      /\ Standing(LaneOf[d]) /\ Standing(LaneOf[e])
  <2>1. UsersGo /\ LaneOf[d] \in Lane
    BY UsersStep, Constants DEF OrderInv
  <2>2. Standing(LaneOf[d])'
    BY DEF Standing, Existing, UserOf
  <2> QED BY <2>1, <2>2, StaysOrderly DEF Standing, Existing, UserOf
<1>1. /\ \A f \in Delivery : laneSequence[f] \in Nat
      /\ RowGoes(d) /\ RowGoes(e)
  BY RowsStep, Constants DEF OrderInv, TypeInv, TypeOK
<1>2. CASE status[d] = "pending" /\ status[e] = "pending"
  <2>1. laneSequence'[d] = laneSequence[d] /\ laneSequence'[e] = laneSequence[e]
    BY <1>0, <1>1, <1>2 DEF RowGoes, Publishes
  <2> QED BY <1>0, <1>2, <2>1 DEF SequencesDifferUnlessUpset
<1>3. CASE status[d] # "pending"
  BY <1>0, <1>1, <1>3, PublicationStep
<1>4. CASE status[e] # "pending"
  BY <1>0, <1>1, <1>4, PublicationStep
<1> QED BY <1>2, <1>3, <1>4

\* Two deliveries that wait in a lane which is not upset never share a
\* sequence, so one of them always sees the other as earlier.  In particular
\* SequencesDiffer holds until one of the three overlaps occurs.
THEOREM SequencesDifferHolds ==
  WatchedSpec => [](SequencesDifferUnlessUpset /\ (upset = {} => SequencesDiffer))
<1>1. WatchedInit => SequencesDifferUnlessUpset
  BY DEF WatchedInit, Init, SequencesDifferUnlessUpset
<1>2. OrderInv /\ SequencesDifferUnlessUpset /\ [WatchedNext]_watchedVars
        => SequencesDifferUnlessUpset'
  BY SequencesDifferStep, StepIsWatched DEF OrderInv
<1>3. SequencesDifferUnlessUpset /\ upset = {} => SequencesDiffer
  BY DEF SequencesDifferUnlessUpset, SequencesDiffer
<1> QED BY <1>1, <1>2, <1>3, Ordered, PTL DEF WatchedSpec

-----------------------------------------------------------------------------
(* TriggerLanes implements LaneOrder in the lanes that are not upset. *)

\* The place and the sequence of a row that the promise sees.
PlaceFor(d) == IF OutOfOrder(d) THEN "absent"
               ELSE IF status[d] = "pending" THEN "queued" ELSE status[d]
SeqFor(d) == IF OutOfOrder(d) THEN 0 ELSE laneSequence[d]
Places == [d \in Delivery |-> PlaceFor(d)]
Seqs == [d \in Delivery |-> SeqFor(d)]

\* The row d moves in the promise.
Shifts(d, p, n) == Places' = [Places EXCEPT ![d] = p] /\ Seqs' = [Seqs EXCEPT ![d] = n]

LEMMA PromiseMoves ==
  \/ Places' = Places /\ Seqs' = Seqs
  \/ \E d \in Delivery : Places[d] \in {"absent", "dead"} /\ Shifts(d, "staging", 0)
  \/ \E d \in Delivery, n \in 1 .. MaxSeq :
       /\ Places[d] = "staging"
       /\ \A e \in Delivery : LaneOf[d] = LaneOf[e] /\ Places[e] = "queued" => Seqs[e] < n
       /\ Shifts(d, "queued", n)
  \/ \E d \in Delivery, outcome \in {"succeeded", "dead"} :
       /\ Places[d] = "queued"
       /\ \A e \in Delivery : LaneOf[d] = LaneOf[e] /\ Places[e] = "queued" =>
            ~(Seqs[e] < Seqs[d])
       /\ Shifts(d, outcome, Seqs[d])
  \/ \E D \in SUBSET Delivery :
       /\ Places' = [d \in Delivery |-> IF d \in D THEN "absent" ELSE Places[d]]
       /\ Seqs' = [d \in Delivery |-> IF d \in D THEN 0 ELSE Seqs[d]]
  => [Order!Next]_<<[d \in Delivery |-> IF OutOfOrder(d) THEN "absent"
                               ELSE IF status[d] = "pending" THEN "queued"
                               ELSE status[d]],
                      [d \in Delivery |-> IF OutOfOrder(d) THEN 0 ELSE laneSequence[d]]>>
<1> DEFINE place == [d \in Delivery |-> IF OutOfOrder(d) THEN "absent"
                               ELSE IF status[d] = "pending" THEN "queued"
                               ELSE status[d]]
           seq == [d \in Delivery |-> IF OutOfOrder(d) THEN 0 ELSE laneSequence[d]]
<1>0. place = Places /\ place' = Places' /\ seq = Seqs /\ seq' = Seqs'
  BY DEF Places, PlaceFor, Seqs, SeqFor
<1>a. seq = [d \in Delivery |-> seq[d]]
  OBVIOUS
<1> HIDE DEF place, seq
<1>1. CASE Places' = Places /\ Seqs' = Seqs
  BY <1>0, <1>1 DEF place, seq
<1>2. ASSUME NEW d \in Delivery, Places[d] \in {"absent", "dead"}, Shifts(d, "staging", 0)
      PROVE  Order!Next
  <2>1. Order!Admit(d)
    BY <1>0, <1>2 DEF Order!Admit, Shifts, place, seq
  <2> QED BY <2>1 DEF Order!Next
<1>3. ASSUME NEW d \in Delivery, NEW n \in 1 .. MaxSeq, Places[d] = "staging",
             \A e \in Delivery : LaneOf[d] = LaneOf[e] /\ Places[e] = "queued" => Seqs[e] < n,
             Shifts(d, "queued", n)
      PROVE  Order!Next
  <2>1. Order!Publish(d)
    BY <1>0, <1>3 DEF Order!Publish, Order!SameLane, Shifts, place, seq
  <2> QED BY <2>1 DEF Order!Next
<1>4. ASSUME NEW d \in Delivery, NEW outcome \in {"succeeded", "dead"}, Places[d] = "queued",
             \A e \in Delivery : LaneOf[d] = LaneOf[e] /\ Places[e] = "queued" =>
               ~(Seqs[e] < Seqs[d]),
             Shifts(d, outcome, Seqs[d])
      PROVE  Order!Next
  <2>0. Seqs' = Seqs
    BY <1>4 DEF Shifts, Seqs
  <2>1. Order!Ahead(d) = {}
    BY <1>0, <1>4 DEF Order!Ahead, Order!SameLane, place, seq
  <2>2. Order!Settle(d)
    BY <1>0, <1>4, <2>0, <2>1 DEF Order!Settle, Shifts, place, seq
  <2> QED BY <2>2 DEF Order!Next
<1>5. ASSUME NEW D \in SUBSET Delivery,
             Places' = [d \in Delivery |-> IF d \in D THEN "absent" ELSE Places[d]],
             Seqs' = [d \in Delivery |-> IF d \in D THEN 0 ELSE Seqs[d]]
      PROVE  Order!Next
  <2>1. Order!Forget(D)
    BY <1>0, <1>5 DEF Order!Forget, place, seq
  <2> QED BY <2>1 DEF Order!Next
<1> QED BY <1>1, <1>2, <1>3, <1>4, <1>5 DEF place, seq

\* A step at one row d, which the promise sees unless the row is forgotten.
LEMMA RowMoves ==
  ASSUME NEW d \in Delivery, NEW s, NEW n, TypeInv, Becomes(d, s, n), UNCHANGED <<account, upset>>
  PROVE  IF OutOfOrder(d) THEN Places' = Places /\ Seqs' = Seqs
         ELSE Shifts(d, IF s = "pending" THEN "queued" ELSE s, n)
<1>1. status \in [Delivery -> Status] /\ laneSequence \in [Delivery -> 0 .. MaxSeq]
  BY DEF TypeInv, TypeOK
<1>2. \A e \in Delivery : OutOfOrder(e)' <=> OutOfOrder(e)
  BY DEF OutOfOrder, Forgotten, UserOf
<1>3. /\ status'[d] = s /\ laneSequence'[d] = n
      /\ \A e \in Delivery \ {d} : status'[e] = status[e] /\ laneSequence'[e] = laneSequence[e]
  BY <1>1 DEF Becomes
<1>4. CASE OutOfOrder(d)
  BY <1>2, <1>3, <1>4 DEF Places, Seqs, PlaceFor, SeqFor
<1>5. CASE ~OutOfOrder(d)
  BY <1>2, <1>3, <1>5 DEF Shifts, Places, Seqs, PlaceFor, SeqFor
<1> QED BY <1>4, <1>5

\* A step that upsets no further lane.
LEMMA OrderlyStep ==
  ASSUME OrderInv, Kind, UNCHANGED upset
  PROVE  [Order!Next]_<<[d \in Delivery |-> IF OutOfOrder(d) THEN "absent"
                               ELSE IF status[d] = "pending" THEN "queued"
                               ELSE status[d]],
                          [d \in Delivery |-> IF OutOfOrder(d) THEN 0 ELSE laneSequence[d]]>>
<1> DEFINE Stutters == Places' = Places /\ Seqs' = Seqs
<1>0. /\ Parts /\ TypeInv
      /\ status \in [Delivery -> Status] /\ laneSequence \in [Delivery -> 0 .. MaxSeq]
      /\ account \in [User -> {"active", "fenced", "armed", "cancelling", "gone"}]
      /\ \A d \in Delivery : UserOf(d) \in User
  BY PartsType, Constants DEF OrderInv, TypeInv, TypeOK, UserOf
<1>1. ASSUME RowsStay, \A u \in User : account'[u] = "gone" <=> account[u] = "gone"
      PROVE  Stutters
  BY <1>0, <1>1 DEF RowsStay, Places, Seqs, PlaceFor, SeqFor, OutOfOrder, Forgotten, UserOf
<1>2. ASSUME NEW d \in Delivery, Stages(d)
      PROVE  Stutters \/ (Places[d] \in {"absent", "dead"} /\ Shifts(d, "staging", 0))
  <2>1. Becomes(d, "staging", 0) /\ UNCHANGED account /\ status[d] \in {"absent", "dead"}
    BY <1>2 DEF Stages, UsersStay
  <2>2. IF OutOfOrder(d) THEN Stutters ELSE Shifts(d, "staging", 0)
    BY <1>0, <2>1, RowMoves
  <2> QED BY <2>1, <2>2 DEF Places, PlaceFor
<1>3. ASSUME NEW c \in Call, Publishes(c)
      PROVE  \/ Stutters
             \/ \E d \in Delivery, n \in 1 .. MaxSeq :
                  /\ Places[d] = "staging"
                  /\ \A e \in Delivery : LaneOf[d] = LaneOf[e] /\ Places[e] = "queued" =>
                       Seqs[e] < n
                  /\ Shifts(d, "queued", n)
  <2>1. PICK d \in Delivery : d = snap[c].publisher /\ LaneOf[d] = lane[c]
    BY <1>0, <1>3, ReadsRow DEF Publishes, Reading
  <2>2. PICK n \in 1 .. MaxSeq : n = snap[c].value
    <3>1. snap[c].value > 0
      BY <1>0, <1>3, ReadsRow DEF Publishes, Reading
    <3>2. snap[c].value \in 0 .. MaxSeq
      BY <1>0, CallParts DEF Parts, Snapshot
    <3> QED BY <3>1, <3>2, Constants
  <2>3. Becomes(d, "pending", n) /\ UNCHANGED account /\ status[d] = "staging"
    BY <1>3, <2>1, <2>2 DEF Publishes, UsersStay
  <2>4. IF OutOfOrder(d) THEN Stutters ELSE Shifts(d, "queued", n)
    BY <1>0, <2>3, RowMoves
  <2>5. CASE ~OutOfOrder(d)
    <3>1. Places[d] = "staging" /\ Standing(LaneOf[d])
      BY <2>3, <2>5 DEF Places, PlaceFor, OutOfOrder, Forgotten, UserOf, Standing, Existing
    <3>2. ASSUME NEW e \in Delivery, LaneOf[d] = LaneOf[e], Places[e] = "queued"
          PROVE  Seqs[e] < n
      <4>1. ~OutOfOrder(e)
        BY <2>5, <3>2 DEF OutOfOrder, Forgotten, UserOf
      <4>2. status[e] = "pending"
        BY <1>0, <3>2, <4>1 DEF Places, PlaceFor, Status
      <4>3. laneSequence[e] < n
        BY <1>3, <2>1, <2>2, <2>3, <3>1, <3>2, <4>2
           DEF OrderInv, HelpInv, Ready, Publishes
      <4> QED BY <4>1, <4>3 DEF Seqs, SeqFor
    <3> QED BY <2>4, <2>5, <3>1, <3>2
  <2> QED BY <2>4, <2>5
<1>4. ASSUME NEW d \in Delivery, Settles(d)
      PROVE  \/ Stutters
             \/ \E outcome \in {"succeeded", "dead"} :
                  /\ Places[d] = "queued"
                  /\ \A e \in Delivery : LaneOf[d] = LaneOf[e] /\ Places[e] = "queued" =>
                       ~(Seqs[e] < Seqs[d])
                  /\ Shifts(d, outcome, Seqs[d])
  <2>1. PICK s \in {"succeeded", "dead"} : Becomes(d, s, laneSequence[d])
    BY <1>4 DEF Settles
  <2>2. IF OutOfOrder(d) THEN Stutters ELSE Shifts(d, s, laneSequence[d])
    <3>1. UNCHANGED account
      BY <1>4 DEF Settles, UsersStay
    <3> QED BY <1>0, <2>1, <3>1, RowMoves
  <2>3. CASE ~OutOfOrder(d)
    <3>1. Places[d] = "queued" /\ Seqs[d] = laneSequence[d]
      BY <1>4, <2>3 DEF Settles, Places, PlaceFor, Seqs, SeqFor
    <3>2. ASSUME NEW e \in Delivery, LaneOf[d] = LaneOf[e], Places[e] = "queued"
          PROVE  ~(Seqs[e] < Seqs[d])
      <4>1. ~OutOfOrder(e)
        BY <2>3, <3>2 DEF OutOfOrder, Forgotten, UserOf
      <4>2. status[e] = "pending"
        BY <1>0, <3>2, <4>1 DEF Places, PlaceFor, Status
      <4>3. ~(laneSequence[e] < laneSequence[d])
        BY <1>4, <3>2, <4>2 DEF Settles, Earlier
      <4> QED BY <3>1, <4>1, <4>3 DEF Seqs, SeqFor
    <3> QED BY <2>2, <2>3, <3>1, <3>2
  <2> QED BY <2>2, <2>3
<1>5. ASSUME NEW u \in User, Purges(u) PROVE Stutters
  <2>1. \A d \in Delivery : OutOfOrder(d)' <=> OutOfOrder(d)
    BY <1>5 DEF Purges, OutOfOrder, Forgotten, UserOf
  <2>2. \A d \in Delivery : ~OutOfOrder(d) =>
          status'[d] = status[d] /\ laneSequence'[d] = laneSequence[d]
    BY <1>5 DEF Purges, OutOfOrder, Forgotten
  <2> QED BY <2>1, <2>2 DEF Places, Seqs, PlaceFor, SeqFor
<1>6. ASSUME NEW u \in User, Manages(u)
      PROVE  \/ Stutters
             \/ \E D \in SUBSET Delivery :
                  /\ Places' = [d \in Delivery |-> IF d \in D THEN "absent" ELSE Places[d]]
                  /\ Seqs' = [d \in Delivery |-> IF d \in D THEN 0 ELSE Seqs[d]]
  <2>0. RowsStay
    BY <1>6 DEF Manages
  <2>1. CASE CommitDeletion(u)
    <3> DEFINE D == {d \in Delivery : UserOf(d) = u}
    <3>1. \A d \in Delivery : OutOfOrder(d)' <=> d \in D \/ OutOfOrder(d)
      BY <1>0, <2>1 DEF CommitDeletion, Deletion, OutOfOrder, Forgotten, UserOf
    <3>2. /\ Places' = [d \in Delivery |-> IF d \in D THEN "absent" ELSE Places[d]]
          /\ Seqs' = [d \in Delivery |-> IF d \in D THEN 0 ELSE Seqs[d]]
      <4> HIDE DEF D
      <4> QED BY <2>0, <3>1 DEF RowsStay, Places, Seqs, PlaceFor, SeqFor
    <3>3. D \in SUBSET Delivery
      OBVIOUS
    <3> QED BY <3>2, <3>3
  <2>2. CASE ~CommitDeletion(u)
    <3>1. \A v \in User : account'[v] = "gone" <=> account[v] = "gone"
      BY <1>0, <1>6, <2>2
         DEF Manages, BeginDeletion, ArmPurge, DisarmPurge, CancelDeletion, DropStaleMarker,
             FinishPurge, Deletion
    <3> QED BY <1>1, <2>0, <3>1
  <2> QED BY <2>1, <2>2
<1>7. \/ RowsStay /\ UsersStay
      \/ \E d \in Delivery : Stages(d) \/ Settles(d)
      \/ \E c \in Call : Publishes(c)
      \/ \E u \in User : Purges(u) \/ Manages(u)
  BY DEF Kind, Passes, CallKind, Looks, Selects, Enters, TurnsBack, FindsPublished, Asks, Judges,
         Quiet, Reserves, Releases, Abandons, Deletes
<1>8. RowsStay /\ UsersStay => Stutters
  BY <1>1 DEF UsersStay
<1> HIDE DEF Stutters
<1>9. Stutters => [Order!Next]_<<[d \in Delivery |-> IF OutOfOrder(d) THEN "absent"
                               ELSE IF status[d] = "pending" THEN "queued"
                               ELSE status[d]],
                          [d \in Delivery |-> IF OutOfOrder(d) THEN 0 ELSE laneSequence[d]]>>
  BY PromiseMoves DEF Stutters
<1> QED BY <1>2, <1>3, <1>4, <1>5, <1>6, <1>7, <1>8, <1>9, PromiseMoves

\* A step that upsets a lane changes no row, or requeues one of that lane.
LEMMA UpsettingStep ==
  ASSUME TypeInv, Kind, NEW l \in Lane, Upsets(l)
  PROVE  /\ UsersStay
         /\ \/ RowsStay
            \/ \E d \in Delivery : /\ Becomes(d, "staging", 0)
                                  /\ \A k \in Lane : Upsets(k) => LaneOf[d] = k
<1>0. Parts /\ status \in [Delivery -> Status]
  BY PartsType DEF TypeInv, TypeOK
<1>1. ASSUME NEW c \in Call, Tends(c) PROVE RowsStay /\ UsersStay
  BY <1>1 DEF Tends, Reserves, Releases, Abandons, Deletes
<1>2. ASSUME NEW c \in Call, ReservesAgain(c) PROVE Tends(c)
  BY <1>2, CallsStep
     DEF ReservesAgain, Tends, CallGoes, GoesOn, Same, Away, Reading, Looks, Selects, Asks, Enters,
         TurnsBack, FindsPublished, Judges, Publishes
<1>3. ASSUME NEW c \in Call, lane[c] = l, WithdrawsHeld(c) PROVE \E e \in Call : Tends(e)
  BY <1>3, LanesStep DEF WithdrawsHeld, LaneGoes
<1>4. ASSUME NEW d \in Delivery, LaneOf[d] = l, RequeuesHeld(d)
      PROVE  Stages(d) /\ \A k \in Lane : Upsets(k) => LaneOf[d] = k
  <2>1. Stages(d)
    BY <1>4, RowsStep DEF RequeuesHeld, RowGoes
  <2>2. ASSUME NEW e \in Delivery, RequeuesHeld(e) PROVE e = d
    BY <1>0, <2>1, <2>2 DEF Stages, Becomes, RequeuesHeld
  <2>3. ASSUME NEW c \in Call PROVE ~ReservesAgain(c) /\ ~WithdrawsHeld(c)
    BY <2>1 DEF Stages, Retire, Same, Away, Reading, LanesStay, ReservesAgain, WithdrawsHeld
  <2> QED BY <2>1, <2>2, <2>3 DEF Upsets
<1>5. CASE \E c \in Call : lane[c] = l /\ (ReservesAgain(c) \/ WithdrawsHeld(c))
  BY <1>1, <1>2, <1>3, <1>5
<1>6. CASE \E d \in Delivery : LaneOf[d] = l /\ RequeuesHeld(d)
  BY <1>4, <1>6 DEF Stages
<1> QED BY <1>5, <1>6 DEF Upsets

LEMMA PromiseStep ==
  ASSUME OrderInv, Kind, Watch
  PROVE  [Order!Next]_<<[d \in Delivery |-> IF OutOfOrder(d) THEN "absent"
                               ELSE IF status[d] = "pending" THEN "queued"
                               ELSE status[d]],
                        [d \in Delivery |-> IF OutOfOrder(d) THEN 0 ELSE laneSequence[d]]>>
<1>1. CASE UNCHANGED upset
  BY <1>1, OrderlyStep
<1>2. CASE upset' # upset
  <2>1. PICK l \in Lane : l \in upset' /\ l \notin upset /\ Upsets(l)
    BY <1>2 DEF Watch
  <2>2. /\ UNCHANGED account
        /\ \A d \in Delivery : Forgotten(d)' <=> Forgotten(d)
    BY <2>1, UpsettingStep DEF OrderInv, UsersStay, Forgotten, UserOf
  <2> DEFINE D == {d \in Delivery : LaneOf[d] \in upset'}
  <2>3. \A d \in Delivery : OutOfOrder(d)' <=> d \in D \/ OutOfOrder(d)
    BY <2>2 DEF OutOfOrder, Watch
  <2>4. \A d \in Delivery \ D : status'[d] = status[d] /\ laneSequence'[d] = laneSequence[d]
    <3>1. CASE RowsStay
      BY <3>1 DEF RowsStay
    <3>2. ASSUME NEW e \in Delivery, Becomes(e, "staging", 0),
                 \A k \in Lane : Upsets(k) => LaneOf[e] = k
          PROVE  \A d \in Delivery \ D : /\ status'[d] = status[d]
                                         /\ laneSequence'[d] = laneSequence[d]
      <4>1. e \in D
        BY <2>1, <3>2
      <4> HIDE DEF D
      <4> QED BY <3>2, <4>1 DEF Becomes, OrderInv, TypeInv, TypeOK
    <3> QED BY <2>1, <3>1, <3>2, UpsettingStep DEF OrderInv
  <2>5. D \in SUBSET Delivery
    OBVIOUS
  <2>6. /\ Places' = [d \in Delivery |-> IF d \in D THEN "absent" ELSE Places[d]]
        /\ Seqs' = [d \in Delivery |-> IF d \in D THEN 0 ELSE Seqs[d]]
    <3> HIDE DEF D
    <3> QED BY <2>3, <2>4 DEF Places, Seqs, PlaceFor, SeqFor
  <2> QED BY <2>5, <2>6, PromiseMoves
<1> QED BY <1>1, <1>2

LEMMA PromiseInit == WatchedInit => Order!Init
  BY DEF WatchedInit, Init, Order!Init, OutOfOrder, Forgotten

\* Admission, publication, settlement, requeue and the end of an account, seen
\* through the rows of the lanes that are not upset and whose account exists,
\* are steps of LaneOrder; every reservation, withdrawal, reclamation, purge
\* and lost call is a stutter.
THEOREM KeepsPromiseHolds == WatchedSpec => KeepsPromiseUnlessUpset
<1>1. OrderInv /\ [WatchedNext]_watchedVars => Kind /\ Watch
  BY StepIsWatched DEF OrderInv
<1> QED
  BY <1>1, PromiseInit, PromiseStep, Ordered, PTL
     DEF WatchedSpec, KeepsPromiseUnlessUpset, Order!Spec
=============================================================================
