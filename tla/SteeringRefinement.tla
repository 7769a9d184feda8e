------------------------- MODULE SteeringRefinement -------------------------
(***************************************************************************)
(* Steering implements SteerLedger: every step of the store and of the     *)
(* controllers is a step of what the receipts promise, or none at all.     *)
(* The place of words follows from their receipt alone, because the        *)
(* invariant WordInv keeps queue, claims and parked items in step with it. *)
(***************************************************************************)
EXTENDS SteeringProofs

\* Where words are that have the receipt st.
PlaceFor(st) ==
  IF st \in {"queued", "claimed"} THEN "waiting"
  ELSE IF st = "leftover" THEN "aside"
  ELSE CASE st = "none" -> "new"
         [] st = "delivered" -> "said"
         [] st = "cancelled" -> "withdrawn"
         [] st = "recovered" -> "resent"

Places == [s \in Steer |-> PlaceFor(receipt[s])]
Agree == [s \in Steer |-> Place(s)] = Places

LEMMA PlaceOfReceipt == TypeInv /\ WordInv => Agree
<1> SUFFICES ASSUME TypeInv, WordInv, NEW s \in Steer PROVE Place(s) = PlaceFor(receipt[s])
  BY DEF Places, Agree
<1>1. receipt[s] \in ReceiptState
  BY Rest
<1>2. (s \in Waiting <=> receipt[s] \in {"queued", "claimed"})
      /\ (s \in parked <=> receipt[s] = "leftover")
  BY DEF WordInv, Waiting
<1> QED
  BY <1>1, <1>2 DEF Place, PlaceFor, ReceiptState

LEMMA PlaceOfReceiptNext == TypeInv' /\ WordInv' => Agree'
  BY PlaceOfReceipt, PTL

\* A step that gives one word another receipt.
Gives(s, st) == receipt' = [receipt EXCEPT ![s] = st]

LEMMA GivesMoves ==
  ASSUME TypeInv, NEW s \in Steer, NEW st \in ReceiptState, Gives(s, st)
  PROVE  Places' = [Places EXCEPT ![s] = PlaceFor(st)]
<1>1. receipt \in [Steer -> ReceiptState]
  BY Rest
<1> QED
  BY <1>1 DEF Gives, Places

LEMMA LedgerStep ==
  ASSUME TypeInv, WordInv, [Next]_vars, TypeInv', WordInv'
  PROVE  [Ledger!Next]_([s \in Steer |-> Place(s)])
<1> DEFINE place == [s \in Steer |-> Place(s)]
<1>0. receipt \in [Steer -> ReceiptState] /\ place = Places /\ place' = Places'
  BY Rest, PlaceOfReceipt, PlaceOfReceiptNext DEF Agree
<1> HIDE DEF place
<1> DEFINE Moved(s, from, to) == Places[s] = from /\ Places' = [Places EXCEPT ![s] = to]
<1>1. ASSUME NEW s \in Steer, Enqueue(s) PROVE Moved(s, "new", "waiting")
  <2>1. receipt[s] = "none" /\ Gives(s, "queued")
    BY <1>1 DEF Enqueue, Gives
  <2> QED BY <2>1, GivesMoves DEF Places, PlaceFor, ReceiptState
<1>2. ASSUME NEW s \in Steer, Cancel(s) PROVE Moved(s, "waiting", "withdrawn")
  <2>1. receipt[s] = "queued" /\ Gives(s, "cancelled")
    BY <1>2 DEF Cancel, Gives
  <2> QED BY <2>1, GivesMoves DEF Places, PlaceFor, ReceiptState
<1>3. ASSUME NEW s \in Steer, Discard(s) PROVE Moved(s, "aside", "withdrawn")
  <2>1. receipt[s] = "leftover" /\ Gives(s, "cancelled")
    BY <1>3 DEF Discard, Gives
  <2> QED BY <2>1, GivesMoves DEF Places, PlaceFor, ReceiptState
<1>4. ASSUME NEW s \in Steer, Delivers(s) PROVE Moved(s, "waiting", "said")
  <2>1. receipt[s] = "claimed" /\ Gives(s, "delivered")
    BY <1>4 DEF Delivers, Gives
  <2> QED BY <2>1, GivesMoves DEF Places, PlaceFor, ReceiptState
<1>5. ASSUME NEW s \in Steer, Resends(s) PROVE Moved(s, "aside", "resent")
  <2>1. receipt[s] = "leftover" /\ Gives(s, "recovered")
    BY <1>5 DEF Resends, Gives
  <2> QED BY <2>1, GivesMoves DEF Places, PlaceFor, ReceiptState
<1>6. ASSUME PutsAside
      PROVE  Places' = [s \in Steer |-> IF Places[s] = "waiting" THEN "aside" ELSE Places[s]]
  <2> SUFFICES ASSUME NEW s \in Steer
               PROVE  PlaceFor(receipt'[s])
                        = IF PlaceFor(receipt[s]) = "waiting" THEN "aside" ELSE PlaceFor(receipt[s])
    BY DEF Places
  <2>1. CASE s \in Waiting
    <3>1. receipt'[s] = "leftover" /\ receipt[s] \in {"queued", "claimed"}
      BY <1>0, <1>6, <2>1 DEF PutsAside, Settled, Waiting, WordInv
    <3> QED BY <3>1 DEF PlaceFor
  <2>2. CASE s \notin Waiting
    <3>1. receipt'[s] = receipt[s] /\ receipt[s] \notin {"queued", "claimed"}
      BY <1>0, <1>6, <2>2 DEF PutsAside, Settled, Waiting, WordInv
    <3>2. receipt[s] \in ReceiptState
      BY <1>0
    <3> QED BY <3>1, <3>2 DEF PlaceFor, ReceiptState
  <2> QED BY <2>1, <2>2
<1>7. ASSUME Rests \/ \E r \in Run : Drain(r) \/ Restore(r) PROVE Places' = Places
  <2> SUFFICES ASSUME NEW s \in Steer PROVE PlaceFor(receipt'[s]) = PlaceFor(receipt[s])
    BY DEF Places
  <2>1. \/ receipt'[s] = receipt[s]
        \/ receipt[s] \in {"queued", "claimed"} /\ receipt'[s] \in {"queued", "claimed"}
    BY <1>0, <1>7 DEF Rests, Drain, Restore, Restores, Settled, WordInv
  <2>2. CASE receipt'[s] = receipt[s]
    BY <2>2
  <2>3. CASE receipt[s] \in {"queued", "claimed"} /\ receipt'[s] \in {"queued", "claimed"}
    BY <2>3 DEF PlaceFor
  <2> QED BY <2>1, <2>2, <2>3
<1> HIDE DEF Moved
<1>8. \/ place' = place
      \/ place' = [s \in Steer |-> IF place[s] = "waiting" THEN "aside" ELSE place[s]]
      \/ \E s \in Steer : \/ Moved(s, "new", "waiting") \/ Moved(s, "waiting", "said")
                          \/ Moved(s, "waiting", "withdrawn") \/ Moved(s, "aside", "withdrawn")
                          \/ Moved(s, "aside", "resent")
  BY <1>0, <1>1, <1>2, <1>3, <1>4, <1>5, <1>6, <1>7, Moves DEF Asks, Says, SendsAgain
<1> QED
  BY <1>0, <1>8 DEF Ledger!Next, Ledger!PutAside, Ledger!Accept, Ledger!Say, Ledger!Withdraw,
                    Ledger!Resend, Ledger!Move, Moved, place

LEMMA LedgerInit == Init => Ledger!Init
  BY DEF Init, Ledger!Init, Place, Waiting, ToSet

\* Accepted words are never lost, never wait again once they were put aside, and
\* are said, withdrawn or sent again once, whatever fails, hangs or comes late.
THEOREM KeepsLedgerHolds == Spec => KeepsLedger
<1>1. Init => WordInv
  BY WordInit
<1> QED
  BY <1>1, TypeInit, TypeStep, WordStep, LedgerInit, LedgerStep, PTL
     DEF Spec, KeepsLedger, Ledger!Spec
==============================================================================
