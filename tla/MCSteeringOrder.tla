-------------------------- MODULE MCSteeringOrder --------------------------
(* Steering with the order in which words were accepted as a history. *)
EXTENDS Steering

VARIABLE arrived

Arrived ==
  LET new == {s \in Steer : receipt[s] = "none" /\ receipt'[s] # "none"}
  IN arrived' = arrived \o SetToSeq(new)

OrderSpec == /\ Init /\ arrived = <<>>
             /\ [][Next /\ Arrived]_<<vars, arrived>>
             /\ Fairness

\* Words are said in the order in which their generation accepted them: what
\* could not be applied is given back ahead of what came later.
InOrder ==
  [][\A i, j \in 1 .. Len(arrived) :
       LET s == arrived[i] t == arrived[j] IN
       /\ i < j
       /\ receipt[t] = "claimed" /\ receipt'[t] = "delivered"
       /\ accepted[s] = accepted[t]
       => s \notin Waiting]_vars
=============================================================================
