---------------------------- MODULE SteerLedger ----------------------------
(***************************************************************************)
(* What the store of a conversation promises of the words it accepted for  *)
(* a running generation: they wait, and then they are said, or withdrawn,  *)
(* or put aside with all the others that wait; from aside the user sends   *)
(* them again or withdraws them.                                           *)
(***************************************************************************)
CONSTANT Steer
VARIABLE place

Place == {"new", "waiting", "said", "aside", "withdrawn", "resent"}
TypeOK == place \in [Steer -> Place]
Init == place = [s \in Steer |-> "new"]

Move(s, from, to) == place[s] = from /\ place' = [place EXCEPT ![s] = to]

Accept(s) == Move(s, "new", "waiting")
Say(s) == Move(s, "waiting", "said")
Withdraw(s) == Move(s, "waiting", "withdrawn") \/ Move(s, "aside", "withdrawn")
Resend(s) == Move(s, "aside", "resent")

\* The end of a generation puts aside all that waits.
PutAside ==
  place' = [s \in Steer |-> IF place[s] = "waiting" THEN "aside" ELSE place[s]]

Next ==
  PutAside \/ \E s \in Steer : Accept(s) \/ Say(s) \/ Withdraw(s) \/ Resend(s)
Spec == Init /\ [][Next]_place
=============================================================================
