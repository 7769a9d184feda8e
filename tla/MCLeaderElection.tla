-------------------------- MODULE MCLeaderElection --------------------------
(* Small instances of LeaderElection. *)
EXTENDS LeaderElection, TLC

CONSTANTS s1, s2, c1, c2, r1, r2

\* A call and a renewal per server.
Apart == (c1 :> s1) @@ (r1 :> s1) @@ (c2 :> s2) @@ (r2 :> s2)
\* Two calls of one server.
Together == (c1 :> s1) @@ (c2 :> s1) @@ (r1 :> s1)
=============================================================================
