---------------------------- MODULE SteeringProofs ----------------------------
(***************************************************************************)
(* The invariants of Steering, for any number of words, controllers,       *)
(* generations and pauses and whatever of the listed faults occurs.        *)
(*                                                                         *)
(* TypeInv, WordInv, VoiceInv and then OwnerInv, SavedInv are inductive in *)
(* this order, each with the help of the ones before it in its half: the   *)
(* first half is about the words, the second about who may act.  Moves     *)
(* sorts the steps by what they do to the words, Goes by what they do to   *)
(* the job and the controllers; the proofs go by these kinds.              *)
(***************************************************************************)
EXTENDS Steering, SequenceTheorems, TLAPS

\* What the proofs below use of a sequence.
Facts(S, q) ==
  /\ Len(q) \in Nat
  /\ \A i \in 1 .. Len(q) : q[i] \in S /\ q[i] \in ToSet(q)
  /\ \A s \in ToSet(q) : s \in S /\ \E i \in 1 .. Len(q) : q[i] = s
  /\ IsInjective(q) <=> \A i, j \in 1 .. Len(q) : q[i] = q[j] => i = j

LEMMA SeqFacts ==
  ASSUME NEW S, NEW q \in Seq(S)
  PROVE  Facts(S, q)
<1>1. Len(q) \in Nat /\ DOMAIN q = 1 .. Len(q) /\ q \in [1 .. Len(q) -> S]
  BY LenProperties
<1> QED
  BY <1>1 DEF ToSet, IsInjective, Facts

LEMMA Covers ==
  ASSUME NEW S, NEW q, Facts(S, q), NEW X, \A i \in 1 .. Len(q) : q[i] \in X
  PROVE  ToSet(q) \subseteq X
  BY DEF Facts

LEMMA AppendElements ==
  ASSUME NEW S, NEW q \in Seq(S), NEW e \in S
  PROVE  /\ Append(q, e) \in Seq(S)
         /\ ToSet(Append(q, e)) = ToSet(q) \cup {e}
         /\ IsInjective(q) /\ e \notin ToSet(q) => IsInjective(Append(q, e))
<1> DEFINE p == Append(q, e)
<1>1. p \in Seq(S) /\ Len(p) = Len(q) + 1 /\ p[Len(q) + 1] = e
      /\ \A i \in 1 .. Len(q) : p[i] = q[i]
  BY AppendProperties
<1> HIDE DEF p
<1>2. Facts(S, p) /\ Facts(S, q)
  BY <1>1, SeqFacts
<1>3. ToSet(p) = ToSet(q) \cup {e}
  <2>1. Len(q) + 1 \in 1 .. Len(p) /\ \A i \in 1 .. Len(q) : i \in 1 .. Len(p)
    BY <1>1, <1>2 DEF Facts
  <2>2. ToSet(q) \cup {e} \subseteq ToSet(p)
    BY <1>1, <1>2, <2>1 DEF Facts
  <2>3. \A i \in 1 .. Len(p) : i \in 1 .. Len(q) \/ i = Len(q) + 1
    BY <1>1, <1>2 DEF Facts
  <2>4. ToSet(p) \subseteq ToSet(q) \cup {e}
    BY <1>1, <1>2, <2>3 DEF Facts
  <2> QED BY <2>2, <2>4
<1>4. ASSUME IsInjective(q), e \notin ToSet(q) PROVE IsInjective(p)
  <2>1. ASSUME NEW i \in 1 .. Len(p), NEW j \in 1 .. Len(p), p[i] = p[j] PROVE i = j
    <3>1. /\ i \in 1 .. Len(q) \/ (i = Len(q) + 1 /\ p[i] = e)
          /\ j \in 1 .. Len(q) \/ (j = Len(q) + 1 /\ p[j] = e)
      BY <1>1, <1>2 DEF Facts
    <3>2. \A k \in 1 .. Len(q) : p[k] = q[k] /\ p[k] # e
      BY <1>1, <1>2, <1>4 DEF Facts
    <3>3. i \in 1 .. Len(q) /\ j \in 1 .. Len(q) => i = j
      BY <1>2, <1>4, <2>1, <3>2 DEF Facts
    <3> QED BY <2>1, <3>1, <3>2, <3>3
  <2> QED BY <1>2, <2>1 DEF Facts
<1> QED
  BY <1>1, <1>3, <1>4 DEF p

LEMMA ConcatElements ==
  ASSUME NEW S, NEW p \in Seq(S), NEW q \in Seq(S)
  PROVE  /\ p \o q \in Seq(S)
         /\ ToSet(p \o q) = ToSet(p) \cup ToSet(q)
         /\ IsInjective(p) /\ IsInjective(q) /\ ToSet(p) \cap ToSet(q) = {}
              => IsInjective(p \o q)
<1> DEFINE c == p \o q
<1>0. Facts(S, p) /\ Facts(S, q)
  BY SeqFacts
<1>1. /\ c \in Seq(S) /\ Len(c) = Len(p) + Len(q)
      /\ \A i \in 1 .. Len(p) + Len(q) : c[i] = IF i <= Len(p) THEN p[i] ELSE q[i - Len(p)]
  BY ConcatProperties
<1> HIDE DEF c
<1>2. Facts(S, c)
  BY <1>1, SeqFacts
<1>3. \A i \in 1 .. Len(c) : IF i <= Len(p) THEN c[i] \in ToSet(p) /\ i \in 1 .. Len(p)
                                            ELSE c[i] \in ToSet(q) /\ i - Len(p) \in 1 .. Len(q)
  <2> SUFFICES ASSUME NEW i \in 1 .. Len(c)
               PROVE  IF i <= Len(p) THEN c[i] \in ToSet(p) /\ i \in 1 .. Len(p)
                                     ELSE c[i] \in ToSet(q) /\ i - Len(p) \in 1 .. Len(q)
    OBVIOUS
  <2>1. IF i <= Len(p) THEN i \in 1 .. Len(p) ELSE i - Len(p) \in 1 .. Len(q)
    BY <1>0, <1>1 DEF Facts
  <2>2. c[i] = IF i <= Len(p) THEN p[i] ELSE q[i - Len(p)]
    BY <1>1
  <2> QED BY <1>0, <2>1, <2>2 DEF Facts
<1>4. ToSet(c) \subseteq ToSet(p) \cup ToSet(q)
  BY <1>2, <1>3 DEF Facts
<1>5. \A i \in 1 .. Len(p) : i \in 1 .. Len(c) /\ c[i] = p[i]
  BY <1>0, <1>1 DEF Facts
<1>6. \A i \in 1 .. Len(q) : Len(p) + i \in 1 .. Len(c) /\ c[Len(p) + i] = q[i]
  <2> TAKE i \in 1 .. Len(q)
  <2>1. Len(p) + i \in 1 .. Len(p) + Len(q) /\ ~(Len(p) + i <= Len(p))
        /\ (Len(p) + i) - Len(p) = i
    BY <1>0 DEF Facts
  <2>2. c[Len(p) + i] = q[(Len(p) + i) - Len(p)]
    BY <1>1, <2>1
  <2> QED BY <1>1, <2>1, <2>2
<1>7. ToSet(p) \cup ToSet(q) \subseteq ToSet(c)
  <2>1. ToSet(p) \subseteq ToSet(c)
    BY <1>0, <1>2, <1>5 DEF Facts
  <2>2. \A i \in 1 .. Len(q) : q[i] \in ToSet(c)
    BY <1>2, <1>6 DEF Facts
  <2>3. ToSet(q) \subseteq ToSet(c)
    BY <1>0, <2>2, Covers
  <2> QED BY <2>1, <2>3
<1>8. ASSUME IsInjective(p), IsInjective(q), ToSet(p) \cap ToSet(q) = {},
             NEW i \in 1 .. Len(c), NEW j \in 1 .. Len(c), c[i] = c[j]
      PROVE  i = j
  <2>1. (i <= Len(p)) <=> (j <= Len(p))
    BY <1>3, <1>8
  <2>2. CASE i <= Len(p)
    BY <1>0, <1>1, <1>3, <1>8, <2>1, <2>2 DEF Facts
  <2>3. CASE ~(i <= Len(p))
    <3>1. q[i - Len(p)] = q[j - Len(p)]
      BY <1>1, <1>8, <2>1, <2>3
    <3>2. i - Len(p) = j - Len(p)
      BY <1>0, <1>3, <1>8, <2>1, <2>3, <3>1 DEF Facts
    <3> QED BY <1>0, <1>1, <3>2 DEF Facts
  <2> QED BY <2>2, <2>3
<1> QED
  BY <1>1, <1>2, <1>4, <1>7, <1>8 DEF c, Facts

LEMMA TailElements ==
  ASSUME NEW S, NEW q \in Seq(S), q # <<>>
  PROVE  /\ Head(q) \in ToSet(q) /\ Head(q) \in S /\ Tail(q) \in Seq(S)
         /\ ToSet(Tail(q)) \subseteq ToSet(q)
         /\ ToSet(q) = ToSet(Tail(q)) \cup {Head(q)}
         /\ IsInjective(q) => IsInjective(Tail(q)) /\ Head(q) \notin ToSet(Tail(q))
<1> DEFINE t == Tail(q)
<1>1. /\ Head(q) \in S /\ t \in Seq(S) /\ Len(t) = Len(q) - 1
      /\ \A i \in 1 .. Len(t) : t[i] = q[i + 1]
  BY HeadTailProperties
<1>2. Len(q) \in Nat \ {0} /\ Head(q) = q[1]
  BY EmptySeq
<1> HIDE DEF t
<1>3. Facts(S, q) /\ Facts(S, t)
  BY <1>1, SeqFacts
<1>4. \A i \in 1 .. Len(t) : i + 1 \in 1 .. Len(q)
  BY <1>1, <1>2
<1>5. \A i \in 1 .. Len(q) : i # 1 => i - 1 \in 1 .. Len(t) /\ q[i] = t[i - 1]
  BY <1>1, <1>2
<1>6. ToSet(t) \subseteq ToSet(q)
  <2>1. \A i \in 1 .. Len(t) : t[i] \in ToSet(q)
    BY <1>1, <1>3, <1>4 DEF Facts
  <2> QED BY <1>3, <2>1, Covers
<1>7. Head(q) \in ToSet(q)
  BY <1>2, <1>3 DEF Facts
<1>8. ASSUME NEW s \in ToSet(q) PROVE s \in ToSet(t) \cup {Head(q)}
  <2>1. PICK i \in 1 .. Len(q) : q[i] = s
    BY <1>3 DEF Facts
  <2>2. CASE i = 1
    BY <1>2, <2>1, <2>2
  <2>3. CASE i # 1
    <3>1. i - 1 \in 1 .. Len(t) /\ s = t[i - 1]
      BY <1>5, <2>1, <2>3
    <3> QED BY <1>3, <3>1 DEF Facts
  <2> QED BY <2>2, <2>3
<1>9. ASSUME IsInjective(q) PROVE IsInjective(t)
  <2>1. ASSUME NEW i \in 1 .. Len(t), NEW j \in 1 .. Len(t), t[i] = t[j] PROVE i = j
    <3>1. i + 1 \in 1 .. Len(q) /\ j + 1 \in 1 .. Len(q) /\ q[i + 1] = q[j + 1]
      BY <1>1, <1>4, <2>1
    <3>2. i + 1 = j + 1
      BY <1>3, <1>9, <3>1 DEF Facts
    <3> QED BY <3>2
  <2> QED BY <1>3, <2>1 DEF Facts
<1>10. ASSUME IsInjective(q), Head(q) \in ToSet(t) PROVE FALSE
  <2>1. PICK i \in 1 .. Len(t) : t[i] = q[1]
    BY <1>2, <1>3, <1>10 DEF Facts
  <2>2. q[i + 1] = q[1] /\ i + 1 \in 1 .. Len(q) /\ 1 \in 1 .. Len(q)
    BY <1>1, <1>2, <1>4, <2>1
  <2>3. i + 1 = 1
    BY <1>3, <1>10, <2>2 DEF Facts
  <2> QED BY <1>1, <1>2, <2>3
<1> QED
  BY <1>1, <1>6, <1>7, <1>8, <1>9, <1>10 DEF t

\* Taking the element at a place out of a sequence.
Without(q, i) == SubSeq(q, 1, i - 1) \o SubSeq(q, i + 1, Len(q))

LEMMA WithoutElements ==
  ASSUME NEW S, NEW q \in Seq(S), NEW i \in 1 .. Len(q)
  PROVE  /\ Without(q, i) \in Seq(S)
         /\ ToSet(Without(q, i)) \subseteq ToSet(q)
         /\ ToSet(q) \subseteq ToSet(Without(q, i)) \cup {q[i]}
         /\ q[i] \in ToSet(q)
         /\ IsInjective(q) => /\ IsInjective(Without(q, i))
                              /\ q[i] \notin ToSet(Without(q, i))
<1>0. Facts(S, q)
  BY SeqFacts
<1> DEFINE w == Without(q, i) a == SubSeq(q, 1, i - 1) b == SubSeq(q, i + 1, Len(q))
<1>1. /\ a \in Seq(S) /\ Len(a) = i - 1
      /\ \A k \in 1 .. i - 1 : a[k] = q[k]
  <2>1. i - 1 \in Int /\ \A k \in 1 .. i - 1 : q[k] \in S
    BY <1>0 DEF Facts
  <2>2. /\ a \in Seq(S)
        /\ Len(a) = IF 1 <= i - 1 THEN (i - 1) - 1 + 1 ELSE 0
        /\ \A k \in 1 .. (i - 1) - 1 + 1 : a[k] = q[1 + k - 1]
    BY <2>1, SubSeqProperties
  <2> HIDE DEF a
  <2> QED BY <1>0, <2>2 DEF Facts
<1>2. /\ b \in Seq(S) /\ Len(b) = Len(q) - i
      /\ \A k \in 1 .. Len(q) - i : b[k] = q[i + k]
  <2>1. i + 1 \in Int /\ Len(q) \in Int /\ \A k \in i + 1 .. Len(q) : q[k] \in S
    BY <1>0 DEF Facts
  <2>2. /\ b \in Seq(S)
        /\ Len(b) = IF i + 1 <= Len(q) THEN Len(q) - (i + 1) + 1 ELSE 0
        /\ \A k \in 1 .. Len(q) - (i + 1) + 1 : b[k] = q[(i + 1) + k - 1]
    BY <2>1, SubSeqProperties
  <2> HIDE DEF b
  <2>3. Len(b) = Len(q) - i
    BY <1>0, <2>2 DEF Facts
  <2>4. \A k \in 1 .. Len(q) - i : b[k] = q[i + k]
    BY <1>0, <2>2 DEF Facts
  <2> QED BY <2>2, <2>3, <2>4
<1>3. /\ w \in Seq(S) /\ Len(w) = Len(a) + Len(b)
      /\ \A k \in 1 .. Len(a) + Len(b) : w[k] = IF k <= Len(a) THEN a[k] ELSE b[k - Len(a)]
  <2> HIDE DEF a, b
  <2>1. w = a \o b
    BY DEF w, Without, a, b
  <2> HIDE DEF w
  <2> QED BY <1>1, <1>2, <2>1, ConcatProperties
<1> HIDE DEF w, a, b
<1>4. Len(w) = Len(q) - 1 /\ \A k \in 1 .. Len(w) :
        IF k < i THEN k \in 1 .. Len(q) /\ w[k] = q[k]
                 ELSE k + 1 \in 1 .. Len(q) /\ w[k] = q[k + 1]
  <2>1. Len(w) = Len(q) - 1
    BY <1>0, <1>1, <1>2, <1>3 DEF Facts
  <2>2. ASSUME NEW k \in 1 .. Len(w), k < i PROVE k \in 1 .. Len(q) /\ w[k] = q[k]
    BY <1>0, <1>1, <1>2, <1>3, <2>1, <2>2 DEF Facts
  <2>3. ASSUME NEW k \in 1 .. Len(w), ~(k < i) PROVE k + 1 \in 1 .. Len(q) /\ w[k] = q[k + 1]
    <3>1. k - Len(a) \in 1 .. Len(q) - i /\ ~(k <= Len(a)) /\ i + (k - Len(a)) = k + 1
      BY <1>0, <1>1, <2>1, <2>3 DEF Facts
    <3>2. w[k] = b[k - Len(a)] /\ b[k - Len(a)] = q[i + (k - Len(a))]
      BY <1>2, <1>3, <3>1, <2>3
    <3> QED BY <1>0, <2>1, <2>3, <3>1, <3>2 DEF Facts
  <2> QED BY <2>1, <2>2, <2>3
<1>5. Facts(S, w)
  BY <1>3, SeqFacts
<1>6. ToSet(w) \subseteq ToSet(q)
  <2>1. \A k \in 1 .. Len(w) : w[k] \in ToSet(q)
    BY <1>0, <1>4 DEF Facts
  <2> QED BY <1>5, <2>1, Covers
<1>7. ToSet(q) \subseteq ToSet(w) \cup {q[i]}
  <2> SUFFICES ASSUME NEW k \in 1 .. Len(q), k # i PROVE q[k] \in ToSet(w)
    BY <1>0 DEF Facts
  <2>1. k < i => k \in 1 .. Len(w) /\ w[k] = q[k]
    BY <1>0, <1>4 DEF Facts
  <2>2. k > i => k - 1 \in 1 .. Len(w) /\ w[k - 1] = q[k]
    BY <1>0, <1>4 DEF Facts
  <2> QED BY <1>0, <1>5, <2>1, <2>2 DEF Facts
<1>8. ASSUME IsInjective(q) PROVE IsInjective(w) /\ q[i] \notin ToSet(w)
  <2>1. \A k, m \in 1 .. Len(w) : w[k] = w[m] => k = m
    <3> TAKE k, m \in 1 .. Len(w)
    <3> HAVE w[k] = w[m]
    <3> DEFINE at(x) == IF x < i THEN x ELSE x + 1
    <3>1. at(k) \in 1 .. Len(q) /\ at(m) \in 1 .. Len(q) /\ q[at(k)] = q[at(m)]
      BY <1>4
    <3>2. at(k) = at(m)
      BY <1>0, <1>8, <3>1 DEF Facts
    <3> QED BY <1>0, <1>4, <3>2 DEF Facts
  <2>2. \A k \in 1 .. Len(w) : w[k] # q[i]
    BY <1>0, <1>4, <1>8 DEF Facts
  <2> QED BY <1>5, <2>1, <2>2 DEF Facts
<1>9. q[i] \in ToSet(q)
  BY <1>0 DEF Facts
<1> QED
  BY <1>3, <1>6, <1>7, <1>8, <1>9 DEF w

-----------------------------------------------------------------------------
(* The invariants.                                                         *)

\* A run between its pause and its release knows the action it asked for.
OnPause == {"settling", "committing", "failing", "releasing"}
TypeInv == /\ Typed
           /\ \A r \in Run : run[r].pc \in OnPause => run[r].action \in 1 .. MaxAction

\* No words are held twice, neither in the queue nor in a drained batch, and
\* words wait only for the generation that accepted them, which is active.
WordInv ==
  /\ IsInjective(queue)
  /\ \A r \in Run : IsInjective(run[r].batch)
  /\ \A s \in Steer :
       /\ (receipt[s] = "queued") <=> (s \in ToSet(queue))
       /\ (receipt[s] = "claimed") <=> (s \in claimed)
       /\ (receipt[s] = "leftover") <=> (s \in parked)
       /\ receipt[s] \in {"queued", "claimed"}
            => accepted[s] = job.gen /\ job.status \in {"running", "requires_action"}

\* The receipts of words that were put aside, whatever became of them then.
Aside == {"leftover", "cancelled", "recovered"}

\* Words are said from their claim, and become a row from aside: no words
\* come from the one to the other.
VoiceInv ==
  /\ \A s \in Steer : voiced[s] <= 1 /\ (voiced[s] # 0 => receipt[s] = "delivered")
  /\ \A s \in rows : receipt[s] \in Aside
  /\ \A r \in Run : /\ \A s \in UserRow(r) : receipt[s] \in Aside
                    /\ run[r].pc \in {"committing", "consuming"} => UserRow(r) \subseteq rows
  /\ RecoveredIsSaved
  /\ "reply" \in Faults \/ DeliveredIsVoiced

Live(r) == run[r].pc \notin {"idle", "erring"}

\* A run at work on a generation is alone; the generation it concludes is
\* over, and no run is at work on one that waits for its review.
OwnerInv ==
  /\ job.gen <= epoch /\ (job.status # "none" => job.gen # 0)
  /\ \A r \in Run :
       /\ run[r].gen <= epoch
       /\ run[r].pc # "idle" => run[r].gen # 0
       /\ run[r].pc = "erring" => "release" \in Faults
       /\ run[r].gen = job.gen =>
            /\ run[r].pc \in {"finalizing", "consuming", "publishing"} => job.status \in Terminal
            /\ Paused => ~Live(r)
  /\ OneOwner

\* A pause is released after its rows and its recovery are saved.
SavedInv ==
  /\ \A r \in Run : run[r].pc = "releasing" => run[r].action \in saved
  /\ Paused => job.action \in saved

-----------------------------------------------------------------------------
(* Types.                                                                  *)

LEMMA Bounds == /\ MaxDepth \in Nat /\ MaxGen \in Nat /\ MaxAction \in Nat
                /\ None \notin Steer /\ <<>> \in Seq(Steer)
  BY SteeringAssumption, EmptySeq

LEMMA TypeInit == Init => TypeInv
  BY Bounds DEF Init, TypeInv, Typed, NoJob, Job, Idle, RunState, Status, Pc, ReceiptState,
            OnPause

LEMMA JobType ==
  ASSUME TypeInv
  PROVE  /\ job.gen \in 0 .. MaxGen /\ job.status \in Status /\ job.pending \in BOOLEAN
         /\ job.action \in 0 .. MaxAction /\ job.recovered \in Steer \cup {None}
         /\ \A st \in Status, p \in BOOLEAN, a \in 0 .. MaxAction :
              /\ [job EXCEPT !.status = st, !.pending = p] \in Job
              /\ [job EXCEPT !.status = st, !.action = a] \in Job
              /\ [job EXCEPT !.status = st, !.pending = p, !.action = a] \in Job
              /\ [job EXCEPT !.pending = p] \in Job
  BY DEF TypeInv, Typed, Job

LEMMA RunType ==
  ASSUME TypeInv, NEW r \in Run
  PROVE  /\ run[r].pc \in Pc /\ run[r].gen \in 0 .. MaxGen /\ run[r].batch \in Seq(Steer)
         /\ run[r].action \in 0 .. MaxAction /\ run[r].recovering \in Steer \cup {None}
         /\ UserRow(r) \subseteq Steer
  BY DEF TypeInv, Typed, RunState, UserRow

LEMMA Numbers ==
  ASSUME TypeInv
  PROVE  job.gen \in Nat /\ epoch \in Nat /\ \A r \in Run : run[r].gen \in Nat
<1>1. MaxGen \in Nat /\ epoch \in 0 .. MaxGen /\ job.gen \in 0 .. MaxGen
  BY Bounds, JobType DEF TypeInv, Typed
<1>2. \A r \in Run : run[r].gen \in 0 .. MaxGen
  BY RunType
<1> QED
  BY <1>1, <1>2

\* A controller that becomes e, and is typed.
LEMMA BecomesType ==
  ASSUME TypeInv, NEW r \in Run, NEW e \in RunState,
         e.pc \in OnPause => e.action \in 1 .. MaxAction,
         run' = [run EXCEPT ![r] = e]
  PROVE  /\ run' \in [Run -> RunState]
         /\ \A q \in Run : run'[q].pc \in OnPause => run'[q].action \in 1 .. MaxAction
         /\ run'[r] = e /\ \A q \in Run \ {r} : run'[q] = run[q]
  BY DEF TypeInv, Typed

\* The fields of a controller that goes elsewhere, or is done.
LEMMA GotoType ==
  ASSUME TypeInv, NEW r \in Run, NEW pc \in Pc, Goto(r, pc),
         pc \in OnPause => run[r].action \in 1 .. MaxAction
  PROVE  /\ run' \in [Run -> RunState]
         /\ \A q \in Run : run'[q].pc \in OnPause => run'[q].action \in 1 .. MaxAction
         /\ run'[r] = [run[r] EXCEPT !.pc = pc] /\ \A q \in Run \ {r} : run'[q] = run[q]
<1>1. run[r] \in RunState
  BY DEF TypeInv, Typed
<1>2. [run[r] EXCEPT !.pc = pc] \in RunState
  BY <1>1 DEF RunState
<1>3. run' = [run EXCEPT ![r] = [run[r] EXCEPT !.pc = pc]]
  BY DEF Goto
<1>4. [run[r] EXCEPT !.pc = pc].pc = pc /\ [run[r] EXCEPT !.pc = pc].action = run[r].action
  BY <1>1 DEF RunState
<1> QED
  BY <1>2, <1>3, <1>4, BecomesType

LEMMA LeaveType ==
  ASSUME TypeInv, NEW r \in Run, Leave(r)
  PROVE  /\ run' \in [Run -> RunState]
         /\ \A q \in Run : run'[q].pc \in OnPause => run'[q].action \in 1 .. MaxAction
         /\ run'[r] = Idle /\ \A q \in Run \ {r} : run'[q] = run[q]
<1>1. Idle \in RunState /\ Idle.pc \notin OnPause
  BY Bounds DEF Idle, RunState, Pc, OnPause
<1> QED
  BY <1>1, BecomesType DEF Leave

LEMMA IdleType ==
  /\ Idle \in RunState
  /\ Idle.pc = "idle" /\ Idle.gen = 0 /\ Idle.batch = <<>> /\ Idle.action = 0
  /\ Idle.recovering = None
  BY Bounds DEF Idle, RunState, Pc

\* A controller that starts on a new generation, and one that goes on after
\* a review.
Starts(e, g, s) ==
  /\ e \in RunState
  /\ e.pc = "driving" /\ e.gen = g /\ e.batch = <<>> /\ e.recovering = s

LEMMA StartType ==
  ASSUME NEW g \in 0 .. MaxGen, NEW s \in Steer \cup {None}
  PROVE  /\ Starts([Idle EXCEPT !.pc = "driving", !.gen = g, !.recovering = s], g, s)
         /\ Starts([Idle EXCEPT !.pc = "driving", !.gen = g], g, None)
  BY IdleType DEF RunState, Pc, Starts

LEMMA ParkType ==
  ASSUME TypeInv, Park
  PROVE  /\ queue' \in Seq(Steer) /\ claimed' \subseteq Steer /\ parked' \subseteq Steer
         /\ receipt' \in [Steer -> ReceiptState] /\ UNCHANGED <<lease, accepted>>
<1>1. ToSet(queue) \subseteq Steer
  BY SeqFacts DEF TypeInv, Typed, Facts
<1> QED
  BY <1>1 DEF Park, Waiting, Settled, TypeInv, Typed, ReceiptState

\* The types of what a step leaves alone.
LEMMA Rest ==
  ASSUME TypeInv
  PROVE  /\ job \in Job /\ epoch \in 0 .. MaxGen /\ queue \in Seq(Steer)
         /\ claimed \subseteq Steer /\ parked \subseteq Steer
         /\ lease \in [Steer -> 0 .. MaxGen] /\ receipt \in [Steer -> ReceiptState]
         /\ accepted \in [Steer -> 0 .. MaxGen] /\ run \in [Run -> RunState]
         /\ actions \in 0 .. MaxAction /\ rows \subseteq Steer
         /\ saved \subseteq 1 .. MaxAction /\ voiced \in [Steer -> Nat]
         /\ \A r \in Run : run[r].pc \in OnPause => run[r].action \in 1 .. MaxAction
         /\ ToSet(queue) \subseteq Steer
<1>1. ToSet(queue) \subseteq Steer
  BY SeqFacts DEF TypeInv, Typed, Facts
<1> QED
  BY <1>1 DEF TypeInv, Typed

LEMMA RequestType ==
  ASSUME TypeInv, Request
  PROVE  TypeInv'
<1> USE Rest, Bounds
<1>1. ASSUME NEW s \in Steer, Enqueue(s) PROVE TypeInv'
  BY <1>1, JobType, AppendElements DEF Enqueue, TypeInv, Typed, ReceiptState
<1>2. ASSUME NEW s \in Steer, Cancel(s) PROVE TypeInv'
  <2>1. queue' \in Seq(Steer)
    <3>1. PICK i \in 1 .. Len(queue) : queue' = Without(queue, i)
      BY <1>2 DEF Cancel, Without
    <3> QED BY <3>1, WithoutElements
  <2> QED BY <1>2, <2>1 DEF Cancel, TypeInv, Typed, ReceiptState
<1>3. ASSUME NEW s \in Steer, Discard(s) PROVE TypeInv'
  BY <1>3 DEF Discard, TypeInv, Typed, ReceiptState
<1>4. ASSUME NEW r \in Run, NEW s \in Steer \cup {None}, CreateJob(r, s) PROVE TypeInv'
  <2>1. epoch + 1 \in 0 .. MaxGen
    BY <1>4 DEF CreateJob
  <2>2. job' \in Job
    <3>1. job' = [gen |-> epoch + 1, status |-> "running", pending |-> FALSE, action |-> 0,
                  recovered |-> s]
      BY <1>4 DEF CreateJob, NoJob
    <3> QED BY <2>1, <3>1 DEF Job, Status
  <2> DEFINE e == [Idle EXCEPT !.pc = "driving", !.gen = epoch + 1, !.recovering = s]
  <2>3. e \in RunState /\ e.pc = "driving"
    <3>1. Starts(e, epoch + 1, s)
      BY <2>1, StartType
    <3> QED BY <3>1 DEF Starts
  <2>4. /\ run' \in [Run -> RunState]
        /\ \A q \in Run : run'[q].pc \in OnPause => run'[q].action \in 1 .. MaxAction
    BY <1>4, <2>3, BecomesType DEF CreateJob, OnPause
  <2>5. lease' \in [Steer -> 0 .. MaxGen] /\ receipt' \in [Steer -> ReceiptState]
    BY <1>4, <2>1 DEF CreateJob, Settled, ReceiptState
  <2>6. queue' \in Seq(Steer) /\ parked' \subseteq Steer /\ claimed' \subseteq Steer
    BY <1>4 DEF CreateJob, Waiting
  <2> QED BY <1>4, <2>1, <2>2, <2>4, <2>5, <2>6 DEF CreateJob, TypeInv, Typed
<1>5. ASSUME NEW r \in Run, NEW a \in 1 .. MaxAction, Resolve(r, a) PROVE TypeInv'
  <2>1. [Idle EXCEPT !.pc = "driving", !.gen = job.gen] \in RunState
        /\ [Idle EXCEPT !.pc = "driving", !.gen = job.gen].pc = "driving"
    BY StartType, JobType DEF Starts
  <2>2. /\ run' \in [Run -> RunState]
        /\ \A q \in Run : run'[q].pc \in OnPause => run'[q].action \in 1 .. MaxAction
    BY <1>5, <2>1, BecomesType DEF Resolve, OnPause
  <2>3. job' \in Job
    <3>1. job' = [job EXCEPT !.status = "running", !.action = 0]
      BY <1>5 DEF Resolve
    <3>2. "running" \in Status /\ 0 \in 0 .. MaxAction
      BY DEF Status
    <3> QED BY <3>1, <3>2, JobType
  <2> QED BY <1>5, <2>2, <2>3 DEF Resolve, storeVars, TypeInv, Typed
<1>6. ASSUME Abort PROVE TypeInv'
  <2>1. job' \in Job
    BY <1>6, JobType DEF Abort, End, Status
  <2> QED BY <1>6, <2>1, ParkType DEF Abort, End, TypeInv, Typed
<1> QED
  BY <1>1, <1>2, <1>3, <1>4, <1>5, <1>6 DEF Request

LEMMA SweepType ==
  ASSUME TypeInv, Sweep
  PROVE  TypeInv'
<1> USE Rest, Bounds
<1>1. ASSUME TimeoutPause \/ Expire PROVE TypeInv'
  <2>1. job' \in Job
    BY <1>1, JobType DEF TimeoutPause, Expire, End, Status
  <2> QED BY <1>1, <2>1, ParkType DEF TimeoutPause, Expire, End, TypeInv, Typed
<1>2. ASSUME FinalizeTerminal PROVE TypeInv'
  BY <1>2, JobType DEF FinalizeTerminal, storeVars, TypeInv, Typed
<1>3. NoJob \in Job
  BY DEF NoJob, Job, Status
<1>4. ASSUME DeleteJob PROVE TypeInv'
  BY <1>3, <1>4 DEF DeleteJob, TypeInv, Typed
<1>5. ASSUME ReapStale PROVE TypeInv'
  BY <1>3, <1>5, ParkType DEF ReapStale, TypeInv, Typed
<1> QED
  BY <1>1, <1>2, <1>4, <1>5 DEF Sweep

LEMMA InjectType ==
  ASSUME TypeInv, NEW r \in Run, Inject(r)
  PROVE  TypeInv'
<1> USE Rest, Bounds
<1>0. run[r] \in RunState
  BY DEF TypeInv, Typed
<1>1. ASSUME Drain(r) PROVE TypeInv'
  <2>1. [run[r] EXCEPT !.batch = queue] \in RunState
        /\ [run[r] EXCEPT !.batch = queue].pc = "driving"
    BY <1>0, <1>1 DEF RunState, Drain
  <2>2. run' = [run EXCEPT ![r] = [run[r] EXCEPT !.batch = queue]]
    BY <1>1 DEF Drain
  <2>3. /\ run' \in [Run -> RunState]
        /\ \A q \in Run : run'[q].pc \in OnPause => run'[q].action \in 1 .. MaxAction
    BY <2>1, <2>2, BecomesType DEF OnPause
  <2>4. receipt' \in [Steer -> ReceiptState]
    BY <1>1 DEF Drain, Settled, ReceiptState
  <2> QED BY <1>1, <2>3, <2>4 DEF Drain, TypeInv, Typed
<1>2. ASSUME NEW s \in Steer, MarkDelivered(s)
      PROVE  /\ claimed' \subseteq Steer /\ receipt' \in [Steer -> ReceiptState]
             /\ UNCHANGED <<job, epoch, queue, parked, lease, accepted, actions, rows, saved>>
  BY <1>2 DEF MarkDelivered, ReceiptState
<1>3. ASSUME Applying(r)
      PROVE  Head(run[r].batch) \in Steer /\ Tail(run[r].batch) \in Seq(Steer)
  BY <1>3, RunType, TailElements DEF Applying
<1>4. ASSUME Apply(r) PROVE TypeInv'
  <2>1. [run[r] EXCEPT !.batch = Tail(@)] \in RunState
        /\ [run[r] EXCEPT !.batch = Tail(@)].pc = "driving"
    BY <1>0, <1>3, <1>4 DEF RunState, Apply, Applying
  <2>2. run' = [run EXCEPT ![r] = [run[r] EXCEPT !.batch = Tail(@)]]
    BY <1>4 DEF Apply
  <2>3. /\ run' \in [Run -> RunState]
        /\ \A q \in Run : run'[q].pc \in OnPause => run'[q].action \in 1 .. MaxAction
    BY <2>1, <2>2, BecomesType DEF OnPause
  <2>4. voiced' \in [Steer -> Nat]
    <3>1. voiced' = [voiced EXCEPT ![Head(run[r].batch)] = @ + 1]
      BY <1>4 DEF Apply
    <3>2. Head(run[r].batch) \in Steer
      BY <1>3, <1>4 DEF Apply
    <3> QED BY <3>1, <3>2
  <2> QED BY <1>2, <1>3, <1>4, <2>3, <2>4 DEF Apply, TypeInv, Typed
<1>5. ASSUME ApplyRefused(r) \/ ApplyReplyLost(r) PROVE TypeInv'
  <2>1. /\ run' \in [Run -> RunState]
        /\ \A q \in Run : run'[q].pc \in OnPause => run'[q].action \in 1 .. MaxAction
    BY <1>5, GotoType DEF ApplyRefused, ApplyReplyLost, Pc, OnPause
  <2>2. ASSUME ApplyRefused(r) PROVE TypeInv'
    BY <2>1, <2>2 DEF ApplyRefused, storeVars, TypeInv, Typed
  <2>3. ASSUME ApplyReplyLost(r) PROVE TypeInv'
    BY <1>2, <1>3, <2>1, <2>3 DEF ApplyReplyLost, TypeInv, Typed
  <2> QED BY <1>5, <2>2, <2>3
<1>6. ASSUME Restore(r) \/ RestoreRefused(r)
      PROVE  /\ run' \in [Run -> RunState]
             /\ \A q \in Run : run'[q].pc \in OnPause => run'[q].action \in 1 .. MaxAction
  <2>1. [run[r] EXCEPT !.pc = "driving", !.batch = <<>>] \in RunState
        /\ [run[r] EXCEPT !.pc = "driving", !.batch = <<>>].pc = "driving"
    BY <1>0 DEF RunState, Pc
  <2>2. run' = [run EXCEPT ![r] = [run[r] EXCEPT !.pc = "driving", !.batch = <<>>]]
    BY <1>6 DEF Restore, RestoreRefused
  <2> QED BY <2>1, <2>2, BecomesType DEF OnPause
<1>7. ASSUME Restore(r) PROVE TypeInv'
  <2>1. queue' \in Seq(Steer)
    BY <1>7, RunType, ConcatElements DEF Restore
  <2>2. receipt' \in [Steer -> ReceiptState]
    BY <1>7 DEF Restore, Settled, ReceiptState
  <2> QED BY <1>6, <1>7, <2>1, <2>2 DEF Restore, TypeInv, Typed
<1>8. ASSUME RestoreRefused(r) PROVE TypeInv'
  BY <1>6, <1>8 DEF RestoreRefused, storeVars, TypeInv, Typed
<1> QED
  BY <1>1, <1>4, <1>5, <1>7, <1>8 DEF Inject

LEMMA PauseType ==
  ASSUME TypeInv, NEW r \in Run, Pause(r)
  PROVE  TypeInv'
<1> USE Rest, Bounds
<1>1. actions + 1 \in 1 .. MaxAction /\ actions + 1 \in 0 .. MaxAction
  BY DEF Pause
<1>2. job' \in Job
  <2>1. job' = [job EXCEPT !.status = "requires_action", !.pending = TRUE, !.action = actions + 1]
    BY DEF Pause
  <2>2. "requires_action" \in Status /\ TRUE \in BOOLEAN
    BY DEF Status
  <2> QED BY <1>1, <2>1, <2>2, JobType
<1>3. /\ run' \in [Run -> RunState]
      /\ \A q \in Run : run'[q].pc \in OnPause => run'[q].action \in 1 .. MaxAction
  <2> DEFINE e == [run[r] EXCEPT !.pc = "settling", !.action = actions + 1]
  <2>1. run[r] \in RunState
    OBVIOUS
  <2>2. e \in RunState /\ e.action = actions + 1
    BY <1>1, <2>1 DEF RunState, Pc
  <2>3. run' = [run EXCEPT ![r] = e]
    BY DEF Pause
  <2> HIDE DEF e
  <2> QED BY <1>1, <2>2, <2>3, BecomesType
<1> QED
  BY <1>1, <1>2, <1>3 DEF Pause, storeVars, TypeInv, Typed

LEMMA SettleType ==
  ASSUME TypeInv, NEW r \in Run, SettlePause(r)
  PROVE  TypeInv'
<1> USE Rest, Bounds
<1>0. UserRow(r) \subseteq Steer /\ run[r].recovering \in Steer \cup {None}
  BY RunType
<1>1. ASSUME SaveRows(r) PROVE TypeInv'
  <2>1. /\ run' \in [Run -> RunState]
        /\ \A q \in Run : run'[q].pc \in OnPause => run'[q].action \in 1 .. MaxAction
    BY <1>1, GotoType, LeaveType DEF SaveRows, Pc, OnPause
  <2>2. rows' \subseteq Steer
    BY <1>0, <1>1 DEF SaveRows
  <2> QED BY <1>1, <2>1, <2>2 DEF SaveRows, storeVars, TypeInv, Typed
<1>2. ASSUME Commits(r) \/ CommitFails(r)
      PROVE  /\ queue' \in Seq(Steer) /\ claimed' \subseteq Steer /\ parked' \subseteq Steer
             /\ receipt' \in [Steer -> ReceiptState] /\ UNCHANGED <<lease, accepted>>
  BY <1>0, <1>2 DEF Commits, CommitFails, NoSource, Consume, storeVars, ReceiptState
<1>3. ASSUME CommitPaused(r) PROVE TypeInv'
  <2>1. /\ run' \in [Run -> RunState]
        /\ \A q \in Run : run'[q].pc \in OnPause => run'[q].action \in 1 .. MaxAction
    BY <1>3, GotoType DEF CommitPaused, Pc, OnPause
  <2>2. saved' \subseteq 1 .. MaxAction
    <3>1. run[r].action \in 1 .. MaxAction
      BY <1>3 DEF CommitPaused, OnPause
    <3>2. saved' = saved \cup {run[r].action} \/ UNCHANGED saved
      BY <1>3 DEF CommitPaused
    <3> QED BY <3>1, <3>2
  <2> QED BY <1>2, <1>3, <2>1, <2>2 DEF CommitPaused, TypeInv, Typed
<1>4. ASSUME ReleasePause(r) PROVE TypeInv'
  <2>1. /\ run' \in [Run -> RunState]
        /\ \A q \in Run : run'[q].pc \in OnPause => run'[q].action \in 1 .. MaxAction
    BY <1>4, GotoType, LeaveType DEF ReleasePause, Pc, OnPause
  <2>2. job' \in Job
    BY <1>4, JobType DEF ReleasePause
  <2> QED BY <1>4, <2>1, <2>2 DEF ReleasePause, storeVars, TypeInv, Typed
<1>5. ASSUME FailPause(r) PROVE TypeInv'
  <2>1. /\ run' \in [Run -> RunState]
        /\ \A q \in Run : run'[q].pc \in OnPause => run'[q].action \in 1 .. MaxAction
    BY <1>5, LeaveType DEF FailPause
  <2>2. job' \in Job
    BY <1>5, JobType DEF FailPause, End, Status
  <2> QED BY <1>5, <2>1, <2>2, ParkType DEF FailPause, End, storeVars, TypeInv, Typed
<1> QED
  BY <1>1, <1>3, <1>4, <1>5 DEF SettlePause

LEMMA ConcludeType ==
  ASSUME TypeInv, NEW r \in Run, Conclude(r)
  PROVE  TypeInv'
<1> USE Rest, Bounds
<1>0. UserRow(r) \subseteq Steer /\ run[r].recovering \in Steer \cup {None}
  BY RunType
<1>1. /\ run' \in [Run -> RunState]
      /\ \A q \in Run : run'[q].pc \in OnPause => run'[q].action \in 1 .. MaxAction
  BY GotoType, LeaveType DEF Conclude, ClaimTerminal, ClaimError, SaveFinal, CommitFinal,
                             Publish, Pc, OnPause
<1>2. ASSUME ClaimTerminal(r) \/ ClaimError(r) PROVE TypeInv'
  <2>1. job' \in Job
    BY <1>2, JobType DEF ClaimTerminal, ClaimError, End, Status
  <2> QED BY <1>1, <1>2, <2>1, ParkType
          DEF ClaimTerminal, ClaimError, End, storeVars, TypeInv, Typed
<1>3. ASSUME SaveFinal(r) PROVE TypeInv'
  BY <1>0, <1>1, <1>3 DEF SaveFinal, storeVars, TypeInv, Typed
<1>4. ASSUME CommitFinal(r) PROVE TypeInv'
  <2>1. /\ queue' \in Seq(Steer) /\ claimed' \subseteq Steer /\ parked' \subseteq Steer
        /\ receipt' \in [Steer -> ReceiptState] /\ UNCHANGED <<lease, accepted>>
    BY <1>0, <1>4 DEF CommitFinal, Commits, CommitFails, NoSource, Consume, storeVars,
                      ReceiptState
  <2> QED BY <1>1, <1>4, <2>1 DEF CommitFinal, TypeInv, Typed
<1>5. ASSUME Publish(r) PROVE TypeInv'
  BY <1>1, <1>5, JobType DEF Publish, storeVars, TypeInv, Typed
<1> QED
  BY <1>2, <1>3, <1>4, <1>5 DEF Conclude

LEMMA TypeStep == TypeInv /\ [Next]_vars => TypeInv'
<1> SUFFICES ASSUME TypeInv, [Next]_vars PROVE TypeInv'
  OBVIOUS
<1> USE Rest
<1>1. ASSUME NEW r \in Run, SaveUserRow(r) PROVE TypeInv'
  BY <1>1, RunType DEF SaveUserRow, storeVars, TypeInv, Typed
<1>2. ASSUME NEW r \in Run, Crash(r) PROVE TypeInv'
  BY <1>2, LeaveType DEF Crash, storeVars, TypeInv, Typed
<1>3. ASSUME NEW r \in Run, Drive(r) PROVE TypeInv'
  BY <1>1, <1>2, <1>3, InjectType, PauseType, SettleType, ConcludeType DEF Drive
<1>4. ASSUME UNCHANGED vars PROVE TypeInv'
  BY <1>4 DEF vars, storeVars, TypeInv, Typed
<1> QED
  BY <1>3, <1>4, RequestType, SweepType DEF Next

\* The job as a step leaves it: what runs was running and keeps its fields, or
\* it has just been started or resumed.
LEMMA ClearStep == TypeInv /\ RunningIsClear /\ [Next]_vars => RunningIsClear'
<1> SUFFICES ASSUME TypeInv, RunningIsClear, [Next]_vars PROVE RunningIsClear'
  OBVIOUS
<1> USE DEF RunningIsClear
<1>1. job \in Job
  BY DEF TypeInv, Typed
<1>2. ASSUME NEW st \in Terminal, NEW p \in BOOLEAN, End(st, p) PROVE RunningIsClear'
  BY <1>1, <1>2 DEF End, Job, Terminal
<1>3. ASSUME Request PROVE RunningIsClear'
  <2>1. ASSUME NEW s \in Steer, Enqueue(s) \/ Cancel(s) \/ Discard(s) PROVE RunningIsClear'
    BY <2>1 DEF Enqueue, Cancel, Discard
  <2>2. ASSUME NEW r \in Run, NEW s \in Steer \cup {None}, CreateJob(r, s)
        PROVE  RunningIsClear'
    BY <2>2 DEF CreateJob, NoJob
  <2>3. ASSUME NEW r \in Run, NEW a \in 1 .. MaxAction, Resolve(r, a) PROVE RunningIsClear'
    BY <1>1, <2>3 DEF Resolve, Paused, Job
  <2>4. CASE Abort
    BY <1>2, <2>4 DEF Abort, Terminal
  <2> QED BY <1>3, <2>1, <2>2, <2>3, <2>4 DEF Request
<1>4. ASSUME Sweep PROVE RunningIsClear'
  <2>1. CASE TimeoutPause \/ Expire
    BY <1>2, <2>1 DEF TimeoutPause, Expire, Terminal
  <2>2. CASE FinalizeTerminal
    BY <1>1, <2>2 DEF FinalizeTerminal, Terminal, Job
  <2>3. CASE DeleteJob \/ ReapStale
    BY <2>3 DEF DeleteJob, ReapStale, NoJob
  <2> QED BY <1>4, <2>1, <2>2, <2>3 DEF Sweep
<1>5. ASSUME NEW r \in Run, Drive(r) PROVE RunningIsClear'
  <2>1. CASE SaveUserRow(r) \/ Inject(r) \/ Crash(r)
    BY <2>1 DEF SaveUserRow, Inject, Drain, Apply, ApplyRefused, ApplyReplyLost, Restore,
                RestoreRefused, Crash, MarkDelivered
  <2>2. CASE Pause(r)
    BY <1>1, <2>2 DEF Pause, Job
  <2>3. CASE SettlePause(r)
    <3>1. CASE SaveRows(r) \/ CommitPaused(r)
      BY <3>1 DEF SaveRows, CommitPaused
    <3>2. CASE ReleasePause(r)
      BY <1>1, <3>2 DEF ReleasePause, Barrier, Job
    <3>3. CASE FailPause(r)
      BY <1>2, <3>3 DEF FailPause, Terminal
    <3> QED BY <2>3, <3>1, <3>2, <3>3 DEF SettlePause
  <2>4. CASE Conclude(r)
    <3>1. CASE ClaimTerminal(r) \/ ClaimError(r)
      BY <1>2, <3>1 DEF ClaimTerminal, ClaimError, Terminal
    <3>2. CASE SaveFinal(r) \/ CommitFinal(r)
      BY <3>2 DEF SaveFinal, CommitFinal
    <3>3. CASE Publish(r)
      BY <1>1, <3>3 DEF Publish, Job
    <3> QED BY <2>4, <3>1, <3>2, <3>3 DEF Conclude
  <2> QED BY <1>5, <2>1, <2>2, <2>3, <2>4 DEF Drive
<1>6. CASE UNCHANGED vars
  BY <1>6 DEF vars
<1> QED
  BY <1>3, <1>4, <1>5, <1>6 DEF Next

\* Every variable stays in its type, so no counter passes its bound; no
\* controller saves the rows of a pause it does not know, and a generation that
\* runs on carries nothing of the pause it left.
THEOREM TypeCorrect == Spec => []TypeOK
<1>1. Init => RunningIsClear
  BY DEF Init, NoJob, RunningIsClear
<1>2. TypeInv /\ RunningIsClear => TypeOK
  BY DEF TypeInv, TypeOK
<1> QED
  BY <1>1, <1>2, TypeInit, TypeStep, ClearStep, PTL DEF Spec

-----------------------------------------------------------------------------
(* Who owns a generation.                                                  *)

Concluding == {"finalizing", "consuming", "publishing"}

\* What a step does to the job when no generation starts or goes on.
JobGoes ==
  /\ job' = NoJob \/ (job'.gen = job.gen /\ (job'.status = "none" <=> job.status = "none"))
  /\ job.status \in Terminal => job' = NoJob \/ job'.status \in Terminal
  /\ job'.status = "running" => job.status = "running"
  /\ Paused' => /\ job'.gen = job.gen /\ job'.action = job.action
                /\ \/ Paused
                   \/ \E r \in Run : /\ run[r].pc = "releasing"
                                     /\ Barrier(run[r].gen, run[r].action)
                                     /\ run'[r].pc \in {"idle", "erring"}

\* A controller stays where it is, leaves, or goes on in its generation.
RunGoes(q) ==
  \/ run'[q] = run[q]
  \/ run'[q] = Idle
  \/ /\ run'[q].gen = run[q].gen /\ run'[q].pc # "idle"
     /\ Live(q)
     /\ run'[q].pc = "erring" => "release" \in Faults
     /\ run'[q].pc \in Concluding => \/ run[q].pc \in Concluding
                                     \/ job'.gen = run[q].gen /\ job'.status \in Terminal
     /\ run'[q].pc = "releasing" => run'[q].action \in saved'

GoesOn == /\ UNCHANGED epoch
          /\ saved \subseteq saved'
          /\ JobGoes
          /\ \A q \in Run : RunGoes(q)

LEMMA GoesOnKeepsOwner ==
  ASSUME TypeInv, OwnerInv, GoesOn
  PROVE  OwnerInv'
<1>1. NoJob.gen = 0 /\ NoJob.status = "none" /\ NoJob.action = 0
  BY DEF NoJob
<1>2. job'.gen <= epoch' /\ (job'.status # "none" => job'.gen # 0)
  <2>1. job.gen \in Nat /\ epoch \in Nat
    BY Numbers
  <2>2. CASE job' = NoJob
    BY <1>1, <2>1, <2>2 DEF GoesOn
  <2>3. CASE job'.gen = job.gen /\ (job'.status = "none" <=> job.status = "none")
    BY <2>3 DEF GoesOn, OwnerInv
  <2> QED
    BY <2>2, <2>3 DEF GoesOn, JobGoes
<1>3. \A q \in Run : /\ run'[q].gen <= epoch'
                     /\ run'[q].pc # "idle" => run'[q].gen # 0
                     /\ run'[q].pc = "erring" => "release" \in Faults
  <2> TAKE q \in Run
  <2>1. 0 <= epoch
    BY Rest
  <2> QED
    BY <2>1, IdleType DEF OwnerInv, GoesOn, RunGoes, Live
<1>4. \A q \in Run : Live(q)' => Live(q) /\ run'[q].gen = run[q].gen
  BY IdleType DEF GoesOn, RunGoes, Live
<1>5. ASSUME NEW q \in Run, run'[q].gen = job'.gen, run'[q].pc \in Concluding
      PROVE  job'.status \in Terminal
  <2>1. Live(q)' /\ run'[q].gen = run[q].gen /\ Live(q)
    BY <1>4, <1>5 DEF Concluding, Live
  <2>2. run[q].gen # 0
    BY <2>1 DEF OwnerInv, Live
  <2>3. job' # NoJob /\ job'.gen = job.gen
    BY <1>1, <1>5, <2>1, <2>2 DEF GoesOn, JobGoes
  <2>4. run[q].pc \in Concluding \/ job'.status \in Terminal
    BY <1>5, IdleType DEF GoesOn, RunGoes, Concluding
  <2> QED
    BY <1>5, <2>1, <2>3, <2>4 DEF OwnerInv, GoesOn, JobGoes, Concluding
<1>6. ASSUME NEW q \in Run, run'[q].gen = job'.gen, Paused'
      PROVE  ~Live(q)'
  <2> SUFFICES ASSUME Live(q)' PROVE FALSE
    OBVIOUS
  <2>1. Live(q) /\ run[q].gen = job.gen
    BY <1>4, <1>6 DEF GoesOn, JobGoes
  <2>2. PICK r \in Run : /\ run[r].pc = "releasing"
                         /\ run[r].gen = job.gen
                         /\ run'[r].pc \in {"idle", "erring"}
    BY <1>6, <2>1 DEF GoesOn, JobGoes, OwnerInv, Barrier
  <2>3. q = r
    BY <2>1, <2>2 DEF OwnerInv, OneOwner, Live
  <2> QED
    BY <2>2, <2>3 DEF Live
<1>7. OneOwner'
  BY <1>4 DEF OneOwner, OwnerInv, Live
<1> QED
  BY <1>2, <1>3, <1>5, <1>6, <1>7 DEF OwnerInv, Concluding

LEMMA GoesOnKeepsSaved ==
  ASSUME TypeInv, OwnerInv, SavedInv, GoesOn
  PROVE  SavedInv'
<1>1. \A q \in Run : run'[q].pc = "releasing" => run'[q].action \in saved'
  BY IdleType DEF SavedInv, GoesOn, RunGoes
<1>2. Paused' => job'.action \in saved'
  BY DEF SavedInv, GoesOn, JobGoes, Barrier
<1> QED
  BY <1>1, <1>2 DEF SavedInv

\* The job ends, or its pause is released, or it is forgotten.
LEMMA JobFields ==
  ASSUME TypeInv
  PROVE  /\ \A st \in Status, p \in BOOLEAN :
              LET j == [job EXCEPT !.status = st, !.pending = p]
              IN  j.gen = job.gen /\ j.status = st /\ j.pending = p /\ j.action = job.action
         /\ \A p \in BOOLEAN :
              LET j == [job EXCEPT !.pending = p]
              IN  /\ j.gen = job.gen /\ j.status = job.status /\ j.pending = p
                  /\ j.action = job.action
<1>1. job \in Job
  BY Rest
<1> QED
  BY <1>1 DEF Job

LEMMA EndGoes ==
  ASSUME TypeInv, NEW st \in Terminal, NEW p \in BOOLEAN, End(st, p), job.status # "none"
  PROVE  JobGoes /\ job'.gen = job.gen /\ job'.status = st
<1>1. /\ job'.gen = job.gen /\ job'.status = st
  BY JobFields DEF End, Terminal, Status
<1> QED
  BY <1>1 DEF JobGoes, Paused, Terminal

LEMMA StillGoes == TypeInv /\ UNCHANGED job => JobGoes
  BY DEF JobGoes, Paused

\* The fields of a controller after it went elsewhere or left.
LEMMA RunFields ==
  ASSUME TypeInv, NEW r \in Run
  PROVE  /\ \A pc \in Pc : Goto(r, pc) =>
              /\ run'[r].pc = pc /\ run'[r].gen = run[r].gen /\ run'[r].batch = run[r].batch
              /\ run'[r].action = run[r].action /\ run'[r].recovering = run[r].recovering
              /\ \A q \in Run \ {r} : run'[q] = run[q]
         /\ Leave(r) => run'[r] = Idle /\ \A q \in Run \ {r} : run'[q] = run[q]
<1>1. run \in [Run -> RunState] /\ run[r] \in RunState
  BY Rest
<1> QED
  BY <1>1 DEF Goto, Leave, RunState

LEMMA InjectGoes ==
  ASSUME TypeInv, OwnerInv, NEW r \in Run, Inject(r)
  PROVE  GoesOn
<1>1. run \in [Run -> RunState] /\ run[r] \in RunState
  BY Rest
<1>2. UNCHANGED <<epoch, saved, job>>
  BY DEF Inject, Drain, Apply, ApplyRefused, ApplyReplyLost, Restore, RestoreRefused,
         MarkDelivered
<1>3. /\ run[r].pc \in {"driving", "restoring"} /\ run'[r].pc \in {"driving", "restoring"}
      /\ run'[r].gen = run[r].gen
      /\ \A q \in Run \ {r} : run'[q] = run[q]
  <2>1. CASE Drain(r)
    BY <1>1, <2>1 DEF Drain, RunState
  <2>2. CASE Apply(r)
    BY <1>1, <2>2 DEF Apply, Applying, RunState
  <2>3. CASE ApplyRefused(r) \/ ApplyReplyLost(r)
    BY <2>3, RunFields DEF ApplyRefused, ApplyReplyLost, Applying, Pc
  <2>4. CASE Restore(r) \/ RestoreRefused(r)
    BY <1>1, <2>4 DEF Restore, RestoreRefused, RunState
  <2> QED
    BY <2>1, <2>2, <2>3, <2>4 DEF Inject
<1>4. RunGoes(r)
  BY <1>3 DEF RunGoes, Live, Concluding
<1>5. \A q \in Run \ {r} : RunGoes(q)
  BY <1>3 DEF RunGoes
<1> QED
  BY <1>2, <1>4, <1>5, StillGoes DEF GoesOn

LEMMA PauseGoes ==
  ASSUME TypeInv, OwnerInv, NEW r \in Run, Pause(r)
  PROVE  GoesOn
<1>1. run[r] \in RunState /\ run \in [Run -> RunState] /\ job \in Job
  BY Rest
<1>2. /\ run[r].pc = "driving" /\ run'[r].pc = "settling" /\ run'[r].gen = run[r].gen
      /\ \A q \in Run \ {r} : run'[q] = run[q]
  BY <1>1 DEF Pause, RunState
<1>3. JobGoes
  BY <1>1 DEF Pause, Running, Job, JobGoes, Paused, Terminal
<1>4. RunGoes(r)
  BY <1>2 DEF RunGoes, Live, Concluding
<1>5. \A q \in Run \ {r} : RunGoes(q)
  BY <1>2 DEF RunGoes
<1> QED
  BY <1>3, <1>4, <1>5 DEF GoesOn, Pause

LEMMA SettleGoes ==
  ASSUME TypeInv, OwnerInv, NEW r \in Run, SettlePause(r)
  PROVE  GoesOn
<1>1. ASSUME SaveRows(r) PROVE GoesOn
  <2>1. UNCHANGED <<job, epoch, saved>> /\ run[r].pc = "settling"
    BY <1>1 DEF SaveRows
  <2>2. RunGoes(r) /\ \A q \in Run \ {r} : RunGoes(q)
    BY <1>1, RunFields DEF SaveRows, RunGoes, Live, Concluding, Pc
  <2> QED BY <2>1, <2>2, StillGoes DEF GoesOn
<1>2. ASSUME CommitPaused(r) PROVE GoesOn
  <2>1. UNCHANGED <<job, epoch>> /\ run[r].pc = "committing" /\ saved \subseteq saved'
    BY <1>2 DEF CommitPaused
  <2>2. RunGoes(r) /\ \A q \in Run \ {r} : RunGoes(q)
    BY <1>2, RunFields DEF CommitPaused, RunGoes, Live, Concluding, Pc
  <2> QED BY <2>1, <2>2, StillGoes DEF GoesOn
<1>3. ASSUME ReleasePause(r) PROVE GoesOn
  <2>1. UNCHANGED <<epoch, saved>> /\ run[r].pc = "releasing"
    BY <1>3 DEF ReleasePause
  <2>2. RunGoes(r) /\ run'[r].pc \in {"idle", "erring"} /\ \A q \in Run \ {r} : RunGoes(q)
    BY <1>3, RunFields, IdleType DEF ReleasePause, RunGoes, Live, Concluding, Pc
  <2>3. JobGoes
    <3>1. CASE UNCHANGED job
      BY <3>1, StillGoes
    <3>2. CASE Barrier(run[r].gen, run[r].action) /\ job' = [job EXCEPT !.pending = FALSE]
      <4>1. job'.gen = job.gen /\ job'.status = job.status /\ job'.action = job.action
        BY <3>2, JobFields
      <4> QED BY <2>1, <2>2, <3>2, <4>1 DEF JobGoes, Barrier, Terminal
    <3> QED BY <1>3, <3>1, <3>2 DEF ReleasePause
  <2> QED BY <2>1, <2>2, <2>3 DEF GoesOn
<1>4. ASSUME FailPause(r) PROVE GoesOn
  <2>1. UNCHANGED <<epoch, saved>>
    BY <1>4 DEF FailPause
  <2>2. RunGoes(r) /\ \A q \in Run \ {r} : RunGoes(q)
    BY <1>4, RunFields DEF FailPause, RunGoes
  <2>3. JobGoes
    BY <1>4, StillGoes, EndGoes DEF FailPause, Barrier, Terminal
  <2> QED BY <2>1, <2>2, <2>3 DEF GoesOn
<1> QED
  BY <1>1, <1>2, <1>3, <1>4 DEF SettlePause

LEMMA ConcludeGoes ==
  ASSUME TypeInv, OwnerInv, NEW r \in Run, Conclude(r)
  PROVE  GoesOn
<1>0. UNCHANGED <<epoch, saved>>
  BY DEF Conclude, ClaimTerminal, ClaimError, SaveFinal, CommitFinal, Publish
<1>1. ASSUME ClaimTerminal(r) PROVE GoesOn
  <2>1. CASE Running(run[r].gen)
    <3>1. JobGoes /\ job'.gen = job.gen /\ job'.status = "complete"
      BY <1>1, <2>1, EndGoes DEF ClaimTerminal, Running, Terminal
    <3>2. RunGoes(r) /\ \A q \in Run \ {r} : RunGoes(q)
      BY <1>1, <2>1, <3>1, RunFields
         DEF ClaimTerminal, Running, RunGoes, Live, Concluding, Terminal, Pc
    <3> QED BY <1>0, <3>1, <3>2 DEF GoesOn
  <2>2. CASE ~Running(run[r].gen)
    <3>1. RunGoes(r) /\ \A q \in Run \ {r} : RunGoes(q)
      BY <1>1, <2>2, RunFields DEF ClaimTerminal, RunGoes
    <3> QED BY <1>0, <1>1, <2>2, <3>1, StillGoes DEF GoesOn, ClaimTerminal
  <2> QED BY <2>1, <2>2
<1>2. ASSUME ClaimError(r) PROVE GoesOn
  <2>1. RunGoes(r) /\ \A q \in Run \ {r} : RunGoes(q)
    BY <1>2, RunFields DEF ClaimError, RunGoes
  <2>2. JobGoes
    BY <1>2, StillGoes, EndGoes DEF ClaimError, Running, Paused, Terminal
  <2> QED BY <1>0, <2>1, <2>2 DEF GoesOn
<1>3. ASSUME SaveFinal(r) \/ CommitFinal(r) PROVE GoesOn
  <2>1. RunGoes(r) /\ \A q \in Run \ {r} : RunGoes(q)
    BY <1>3, RunFields DEF SaveFinal, CommitFinal, RunGoes, Live, Concluding, Pc
  <2> QED BY <1>0, <1>3, <2>1, StillGoes DEF GoesOn, SaveFinal, CommitFinal
<1>4. ASSUME Publish(r) PROVE GoesOn
  <2>1. RunGoes(r) /\ \A q \in Run \ {r} : RunGoes(q)
    BY <1>4, RunFields DEF Publish, RunGoes
  <2>2. JobGoes
    <3>1. CASE job.gen = run[r].gen
      <4>1. job.status \in Terminal
        BY <1>4, <3>1 DEF Publish, OwnerInv
      <4>2. job'.gen = job.gen /\ job'.status = job.status
        BY <1>4, <3>1, JobFields DEF Publish
      <4> QED BY <4>1, <4>2 DEF JobGoes, Paused, Terminal
    <3>2. CASE job.gen # run[r].gen
      BY <1>4, <3>2, StillGoes DEF Publish
    <3> QED BY <3>1, <3>2
  <2> QED BY <1>0, <2>1, <2>2 DEF GoesOn
<1> QED
  BY <1>1, <1>2, <1>3, <1>4 DEF Conclude

LEMMA SweepGoes == TypeInv /\ OwnerInv /\ Sweep => GoesOn
<1> SUFFICES ASSUME TypeInv, OwnerInv, Sweep PROVE GoesOn
  OBVIOUS
<1>1. UNCHANGED <<epoch, saved, run>>
  BY DEF Sweep, TimeoutPause, Expire, FinalizeTerminal, DeleteJob, ReapStale
<1>2. JobGoes
  <2>1. CASE TimeoutPause \/ Expire
    BY <2>1, EndGoes DEF TimeoutPause, Expire, Paused, Terminal
  <2>2. CASE FinalizeTerminal
    <3>1. job'.gen = job.gen /\ job'.status = job.status
      BY <2>2, JobFields DEF FinalizeTerminal
    <3> QED BY <2>2, <3>1 DEF FinalizeTerminal, JobGoes, Paused, Terminal
  <2>3. CASE DeleteJob \/ ReapStale
    BY <2>3 DEF DeleteJob, ReapStale, JobGoes, Paused, NoJob
  <2> QED BY <2>1, <2>2, <2>3 DEF Sweep
<1> QED
  BY <1>1, <1>2 DEF GoesOn, RunGoes

\* Every step but the start and the resumption of a generation.
LEMMA Goes ==
  ASSUME TypeInv, OwnerInv, [Next]_vars
  PROVE  \/ GoesOn
         \/ \E r \in Run, s \in Steer \cup {None} : CreateJob(r, s)
         \/ \E r \in Run, a \in 1 .. MaxAction : Resolve(r, a)
<1>1. ASSUME NEW s \in Steer, Enqueue(s) \/ Cancel(s) \/ Discard(s) PROVE GoesOn
  BY <1>1, StillGoes DEF Enqueue, Cancel, Discard, GoesOn, RunGoes
<1>2. ASSUME Abort PROVE GoesOn
  <2>1. JobGoes
    BY <1>2, EndGoes DEF Abort, Paused, Terminal
  <2> QED BY <1>2, <2>1 DEF Abort, GoesOn, RunGoes
<1>3. ASSUME NEW r \in Run, SaveUserRow(r) PROVE GoesOn
  BY <1>3, StillGoes DEF SaveUserRow, GoesOn, RunGoes
<1>4. ASSUME NEW r \in Run, Crash(r) PROVE GoesOn
  <2>1. RunGoes(r) /\ \A q \in Run \ {r} : RunGoes(q)
    BY <1>4, RunFields DEF Crash, RunGoes
  <2> QED BY <1>4, <2>1, StillGoes DEF Crash, GoesOn
<1>5. ASSUME NEW r \in Run, Drive(r) PROVE GoesOn
  BY <1>3, <1>4, <1>5, InjectGoes, PauseGoes, SettleGoes, ConcludeGoes DEF Drive
<1>6. ASSUME UNCHANGED vars PROVE GoesOn
  BY <1>6, StillGoes DEF vars, GoesOn, RunGoes
<1> QED
  BY <1>1, <1>2, <1>5, <1>6, SweepGoes DEF Next, Request

LEMMA CreateKeepsOwner ==
  ASSUME TypeInv, OwnerInv, NEW r \in Run, NEW s \in Steer \cup {None}, CreateJob(r, s)
  PROVE  /\ OwnerInv' /\ ~Paused' /\ job'.gen # job.gen
         /\ run'[r].pc = "driving" /\ \A q \in Run \ {r} : run'[q] = run[q]
<1>1. epoch \in Nat /\ epoch + 1 \in 0 .. MaxGen
  BY Rest, Bounds DEF CreateJob
<1>2. job'.gen = epoch + 1 /\ job'.status = "running"
  BY DEF CreateJob, NoJob
<1>3. run'[r].pc = "driving" /\ run'[r].gen = epoch + 1 /\ \A q \in Run \ {r} : run'[q] = run[q]
  <2>1. run \in [Run -> RunState]
    BY Rest
  <2>2. run'[r] = [Idle EXCEPT !.pc = "driving", !.gen = epoch + 1, !.recovering = s]
        /\ \A q \in Run \ {r} : run'[q] = run[q]
    BY <2>1 DEF CreateJob
  <2>3. Starts(run'[r], epoch + 1, s)
    BY <1>1, <2>2, StartType
  <2> QED BY <2>2, <2>3 DEF Starts
<1>4. \A q \in Run : run[q].gen \in Nat /\ run[q].gen <= epoch
  BY Numbers DEF OwnerInv
<1>5. job.gen \in Nat /\ job.gen <= epoch /\ epoch' = epoch + 1
  BY Numbers DEF OwnerInv, CreateJob
<1>6. ASSUME NEW q \in Run
      PROVE  /\ run'[q].gen <= epoch'
             /\ run'[q].pc # "idle" => run'[q].gen # 0
             /\ run'[q].pc = "erring" => "release" \in Faults
             /\ run'[q].gen = job'.gen => q = r
  BY <1>1, <1>2, <1>3, <1>4, <1>5 DEF OwnerInv
<1>7. OneOwner'
  BY <1>1, <1>3, <1>4 DEF OneOwner, OwnerInv
<1> QED
  BY <1>1, <1>2, <1>3, <1>5, <1>6, <1>7 DEF OwnerInv, Paused, Live

LEMMA ResolveKeepsOwner ==
  ASSUME TypeInv, OwnerInv, NEW r \in Run, NEW a \in 1 .. MaxAction, Resolve(r, a)
  PROVE  /\ OwnerInv' /\ ~Paused'
         /\ run'[r].pc = "driving" /\ \A q \in Run \ {r} : run'[q] = run[q]
<1>1. job'.gen = job.gen /\ job'.status = "running" /\ epoch' = epoch
      /\ Paused /\ job.gen # 0
  <2>1. job \in Job
    BY Rest
  <2> QED BY <2>1 DEF Resolve, Job, OwnerInv, Paused
<1>2. run'[r].pc = "driving" /\ run'[r].gen = job.gen /\ \A q \in Run \ {r} : run'[q] = run[q]
  <2>1. run \in [Run -> RunState]
    BY Rest
  <2>2. run'[r] = [Idle EXCEPT !.pc = "driving", !.gen = job.gen]
        /\ \A q \in Run \ {r} : run'[q] = run[q]
    BY <2>1 DEF Resolve
  <2> DEFINE e == [Idle EXCEPT !.pc = "driving", !.gen = job.gen]
  <2>3. Starts(e, job.gen, None)
    BY StartType, JobType
  <2>4. run'[r] = e
    BY <2>2
  <2> HIDE DEF e
  <2> QED BY <2>2, <2>3, <2>4 DEF Starts
<1>3. \A q \in Run \ {r} : run[q].gen = job.gen => run[q].pc \in {"idle", "erring"}
  BY <1>1 DEF OwnerInv, Live
<1>4. OneOwner'
  BY <1>2, <1>3 DEF OneOwner, OwnerInv
<1>5. ~Paused'
  BY <1>1 DEF Paused
<1> QED
  BY <1>1, <1>2, <1>3, <1>4, <1>5 DEF OwnerInv, Live

LEMMA OwnerInit == Init => OwnerInv /\ SavedInv
  BY Bounds, IdleType DEF Init, OwnerInv, SavedInv, OneOwner, Paused, NoJob

LEMMA OwnerStep == TypeInv /\ OwnerInv /\ [Next]_vars => OwnerInv'
  BY Goes, GoesOnKeepsOwner, CreateKeepsOwner, ResolveKeepsOwner

LEMMA SavedStep == TypeInv /\ OwnerInv /\ SavedInv /\ [Next]_vars => SavedInv'
<1> SUFFICES ASSUME TypeInv, OwnerInv, SavedInv, [Next]_vars PROVE SavedInv'
  OBVIOUS
<1>1. ASSUME NEW r \in Run, NEW s \in Steer \cup {None}, CreateJob(r, s) PROVE SavedInv'
  <2>1. ~Paused' /\ run'[r].pc = "driving" /\ \A q \in Run \ {r} : run'[q] = run[q]
    BY <1>1, CreateKeepsOwner
  <2>2. saved' = saved
    BY <1>1 DEF CreateJob
  <2> QED BY <2>1, <2>2 DEF SavedInv
<1>2. ASSUME NEW r \in Run, NEW a \in 1 .. MaxAction, Resolve(r, a) PROVE SavedInv'
  <2>1. ~Paused' /\ run'[r].pc = "driving" /\ \A q \in Run \ {r} : run'[q] = run[q]
    BY <1>2, ResolveKeepsOwner
  <2>2. saved' = saved
    BY <1>2 DEF Resolve
  <2> QED BY <2>1, <2>2 DEF SavedInv
<1> QED
  BY <1>1, <1>2, Goes, GoesOnKeepsSaved

\* One controller owns a generation, whichever fail, hang or disappear, and
\* however late they go on: the next segment starts when the pause of the last
\* has been released, and a new turn has a generation of its own.
THEOREM OneOwnerHolds == Spec => []OneOwner
<1>1. OwnerInv => OneOwner
  BY DEF OwnerInv
<1>2. Init => OwnerInv
  BY OwnerInit
<1> QED
  BY <1>1, <1>2, TypeInit, TypeStep, OwnerStep, PTL DEF Spec

LEMMA PauseIsSavedStep ==
  TypeInv /\ OwnerInv /\ SavedInv /\ [Next]_vars =>
    (job.status = "requires_action" /\ job'.status = "running" /\ job'.gen = job.gen
       => job.action \in saved)
<1> SUFFICES ASSUME TypeInv, OwnerInv, SavedInv, [Next]_vars,
                    job.status = "requires_action", job'.status = "running",
                    job'.gen = job.gen
             PROVE  job.action \in saved
  OBVIOUS
<1>1. ASSUME GoesOn PROVE FALSE
  BY <1>1 DEF GoesOn, JobGoes
<1>2. ASSUME NEW r \in Run, NEW s \in Steer \cup {None}, CreateJob(r, s) PROVE FALSE
  BY <1>2, CreateKeepsOwner
<1>3. ASSUME NEW r \in Run, NEW a \in 1 .. MaxAction, Resolve(r, a)
      PROVE job.action \in saved
  BY <1>3 DEF SavedInv, Resolve
<1> QED
  BY <1>1, <1>2, <1>3, Goes

\* A paused turn goes on only when its rows, and the message that sent left
\* over words again, are saved, whatever of the saving failed or was late.
THEOREM PauseIsSavedHolds == Spec => PauseIsSaved
<1>1. Init => OwnerInv /\ SavedInv
  BY OwnerInit
<1>2. TypeInv /\ OwnerInv /\ SavedInv /\ [Next]_vars
      => [job.status = "requires_action" /\ job'.status = "running" /\ job'.gen = job.gen
            => job.action \in saved]_vars
  BY PauseIsSavedStep
<1> QED
  BY <1>1, <1>2, TypeInit, TypeStep, OwnerStep, SavedStep, PTL DEF Spec, PauseIsSaved

LEMMA OnlyTheDriverFailsStep ==
  ASSUME "release" \notin Faults, TypeInv, OwnerInv, [Next]_vars,
         job.status # "error", job'.status = "error"
  PROVE  \/ job.status = "requires_action" /\ job.pending
         \/ \E r \in Run : /\ run[r].pc = "driving" /\ Running(run[r].gen)
                           /\ run'[r] # run[r]
<1>1. job \in Job
  BY Rest
<1>2. ASSUME NEW r \in Run, ClaimError(r)
      PROVE  \E q \in Run : /\ run[q].pc = "driving" /\ Running(run[q].gen)
                            /\ run'[q] # run[q]
  <2>1. Running(run[r].gen) \/ (Paused /\ job.gen = run[r].gen)
    BY <1>2 DEF ClaimError
  <2>2. run[r].pc = "driving"
    BY <1>2 DEF ClaimError, OwnerInv
  <2>3. ~(Paused /\ job.gen = run[r].gen)
    BY <2>2 DEF OwnerInv, Live
  <2>4. run'[r] # run[r]
    BY <1>2, <2>2, RunFields, IdleType DEF ClaimError
  <2> QED BY <2>1, <2>2, <2>3, <2>4
<1>3. ASSUME NEW r \in Run, FailPause(r) PROVE job.status = "requires_action" /\ job.pending
  BY <1>3 DEF FailPause, Barrier
<1>4. ASSUME NEW r \in Run, SaveUserRow(r) \/ Inject(r) \/ Crash(r) PROVE FALSE
  BY <1>4 DEF SaveUserRow, Inject, Crash, Drain, Apply, ApplyRefused, ApplyReplyLost, Restore,
              RestoreRefused, MarkDelivered
<1>5. ASSUME NEW r \in Run, Pause(r) PROVE FALSE
  BY <1>1, <1>5 DEF Pause, Job
<1>6. ASSUME NEW r \in Run, SaveRows(r) \/ CommitPaused(r) \/ ReleasePause(r) PROVE FALSE
  BY <1>6, JobFields DEF SaveRows, CommitPaused, ReleasePause
<1>7. ASSUME NEW r \in Run, ClaimTerminal(r) PROVE FALSE
  BY <1>7, JobFields DEF ClaimTerminal, End, Status
<1>8. ASSUME NEW r \in Run, SaveFinal(r) \/ CommitFinal(r) \/ Publish(r) PROVE FALSE
  BY <1>8, JobFields DEF SaveFinal, CommitFinal, Publish
<1>9. ASSUME Request PROVE FALSE
  <2>1. ASSUME NEW s \in Steer, Enqueue(s) \/ Cancel(s) \/ Discard(s) PROVE FALSE
    BY <2>1 DEF Enqueue, Cancel, Discard
  <2>2. ASSUME NEW r \in Run, NEW s \in Steer \cup {None}, CreateJob(r, s) PROVE FALSE
    BY <2>2 DEF CreateJob, NoJob
  <2>3. ASSUME NEW r \in Run, NEW a \in 1 .. MaxAction, Resolve(r, a) PROVE FALSE
    BY <1>1, <2>3 DEF Resolve, Job
  <2>4. ASSUME Abort PROVE FALSE
    BY <2>4, JobFields DEF Abort, End, Status
  <2> QED BY <1>9, <2>1, <2>2, <2>3, <2>4 DEF Request
<1>10. ASSUME Sweep, ~TimeoutPause PROVE FALSE
  <2>1. ~Expire
    BY JobFields DEF Expire, End, Status
  <2>2. ~FinalizeTerminal
    BY JobFields DEF FinalizeTerminal
  <2>3. ~DeleteJob /\ ~ReapStale
    BY DEF DeleteJob, ReapStale, NoJob
  <2> QED BY <1>10, <2>1, <2>2, <2>3 DEF Sweep
<1>11. ASSUME UNCHANGED vars PROVE FALSE
  BY <1>11 DEF vars
<1> QED
  BY <1>2, <1>3, <1>4, <1>5, <1>6, <1>7, <1>8, <1>9, <1>10, <1>11
     DEF Next, Drive, SettlePause, Conclude, TimeoutPause

\* When the release of a pause fails only without having been applied, no
\* generation is failed behind the back of the controller that drives it.
THEOREM OnlyTheDriverFailsHolds ==
  ASSUME "release" \notin Faults
  PROVE  Spec => OnlyTheDriverFails
<1>1. Init => OwnerInv
  BY OwnerInit
<1>2. TypeInv /\ OwnerInv /\ [Next]_vars
      => [job.status # "error" /\ job'.status = "error" =>
            \/ job.status = "requires_action" /\ job.pending
            \/ \E r \in Run : /\ run[r].pc = "driving" /\ Running(run[r].gen)
                              /\ run'[r] # run[r]]_vars
  BY OnlyTheDriverFailsStep
<1> QED
  BY <1>1, <1>2, TypeInit, TypeStep, OwnerStep, PTL DEF Spec, OnlyTheDriverFails

-----------------------------------------------------------------------------
(* Where the words are.                                                    *)

Waits(s) == receipt[s] \in {"queued", "claimed"}
Active == job.status \in {"running", "requires_action"}
JobStays == job'.gen = job.gen /\ (Active => Active')

\* What a step does to the words, the requests of the user left out.
Rests == /\ UNCHANGED <<queue, claimed, parked, receipt, accepted>>
         /\ JobStays \/ \A s \in Steer : ~Waits(s)
PutsAside == /\ queue' = <<>> /\ claimed' = {} /\ parked' = parked \cup Waiting
             /\ receipt' = Settled(Waiting, "leftover") /\ UNCHANGED accepted
Delivers(s) == /\ s \in claimed /\ receipt[s] = "claimed"
               /\ claimed' = claimed \ {s} /\ receipt' = [receipt EXCEPT ![s] = "delivered"]
               /\ UNCHANGED <<queue, parked, accepted, job>>
Resends(s) == /\ s \in parked /\ receipt[s] = "leftover"
              /\ parked' = parked \ {s} /\ receipt' = [receipt EXCEPT ![s] = "recovered"]
              /\ UNCHANGED <<queue, claimed, accepted, job>>
Says(r, s) == Delivers(s) /\ s = Head(run[r].batch) /\ (Apply(r) \/ ApplyReplyLost(r))
SendsAgain(r, s) == Resends(s) /\ s \in UserRow(r) /\ (CommitPaused(r) \/ CommitFinal(r))
Asks == \E s \in Steer : Enqueue(s) \/ Cancel(s) \/ Discard(s)

LEMMA EndPutsAside ==
  ASSUME NEW st, NEW p, End(st, p)
  PROVE  PutsAside
  BY DEF End, Park, PutsAside

LEMMA NothingWaits ==
  ASSUME TypeInv, WordInv, ~Active
  PROVE  queue = <<>> /\ claimed = {} /\ \A s \in Steer : ~Waits(s)
<1>1. \A s \in Steer : ~Waits(s)
  BY DEF WordInv, Active, Waits
<1>2. claimed = {}
  BY <1>1, Rest DEF WordInv, Waits
<1>3. ASSUME queue # <<>> PROVE FALSE
  <2>1. Head(queue) \in ToSet(queue) /\ Head(queue) \in Steer
    BY <1>3, Rest, TailElements
  <2> QED BY <1>1, <2>1 DEF WordInv, Waits
<1> QED
  BY <1>1, <1>2, <1>3

LEMMA CommitMoves ==
  ASSUME TypeInv, NEW r \in Run, UNCHANGED job, Commits(r) \/ CommitFails(r)
  PROVE  Rests \/ \E s \in UserRow(r) : s \in Steer /\ Resends(s)
<1>1. CASE NoSource(r) \/ CommitFails(r)
  BY <1>1 DEF NoSource, CommitFails, Rests, JobStays, Active, storeVars
<1>2. CASE run[r].recovering # None /\ Consume(r)
  <2> DEFINE s == run[r].recovering
  <2>1. s \in Steer /\ s \in UserRow(r)
    BY <1>2, RunType DEF UserRow
  <2>2. CASE s \in parked
    BY <1>2, <2>1, <2>2 DEF Consume, Consumes, Resends
  <2>3. CASE s \notin parked
    BY <1>2, <2>3 DEF Consume, Rests, JobStays, Active
  <2> QED BY <2>1, <2>2, <2>3
<1> QED
  BY <1>1, <1>2 DEF Commits

LEMMA DriveMoves ==
  ASSUME TypeInv, WordInv, NEW r \in Run, Drive(r)
  PROVE  \/ Rests \/ PutsAside \/ Drain(r) \/ Restore(r)
         \/ \E s \in Steer : Says(r, s) \/ SendsAgain(r, s)
<1>1. ASSUME UNCHANGED <<storeVars, job>> PROVE Rests
  BY <1>1 DEF Rests, JobStays, Active, storeVars
<1>2. ASSUME \/ SaveUserRow(r) \/ ApplyRefused(r) \/ RestoreRefused(r) \/ SaveRows(r)
             \/ SaveFinal(r) \/ Crash(r)
      PROVE  Rests
  BY <1>1, <1>2 DEF SaveUserRow, ApplyRefused, RestoreRefused, SaveRows, SaveFinal, Crash
<1>3. ASSUME Apply(r) \/ ApplyReplyLost(r) PROVE \E s \in Steer : Says(r, s)
  <2>1. Head(run[r].batch) \in Steer
    BY <1>3, RunType, TailElements DEF Apply, ApplyReplyLost, Applying
  <2>2. CASE Apply(r)
    BY <2>1, <2>2 DEF Apply, Appends, MarkDelivered, Delivers, Says
  <2>3. CASE ApplyReplyLost(r)
    BY <2>1, <2>3 DEF ApplyReplyLost, Appends, MarkDelivered, Delivers, Says
  <2> QED BY <1>3, <2>1, <2>2, <2>3
<1>4. ASSUME Pause(r) PROVE Rests
  <2>1. job'.gen = job.gen /\ job'.status = "requires_action"
    BY <1>4, Rest DEF Pause, Job
  <2> QED BY <1>4, <2>1 DEF Pause, Rests, JobStays, Active, storeVars
<1>5. ASSUME CommitPaused(r) \/ CommitFinal(r)
      PROVE Rests \/ \E s \in Steer : SendsAgain(r, s)
  BY <1>5, CommitMoves DEF CommitPaused, CommitFinal, SendsAgain
<1>6. ASSUME ReleasePause(r) \/ Publish(r) PROVE Rests
  <2>1. job'.gen = job.gen /\ job'.status = job.status
    BY <1>6, JobFields DEF ReleasePause, Publish
  <2> QED BY <1>6, <2>1 DEF ReleasePause, Publish, Rests, JobStays, Active, storeVars
<1>7. ASSUME FailPause(r) \/ ClaimTerminal(r) \/ ClaimError(r) PROVE Rests \/ PutsAside
  BY <1>1, <1>7, EndPutsAside DEF FailPause, ClaimTerminal, ClaimError
<1> QED
  BY <1>2, <1>3, <1>4, <1>5, <1>6, <1>7 DEF Drive, Inject, SettlePause, Conclude

LEMMA Moves ==
  ASSUME TypeInv, WordInv, [Next]_vars
  PROVE  \/ Asks \/ Rests \/ PutsAside
         \/ \E r \in Run : \/ Drain(r) \/ Restore(r)
                           \/ \E s \in Steer : Says(r, s) \/ SendsAgain(r, s)
<1>1. ASSUME NEW r \in Run, NEW s \in Steer \cup {None}, CreateJob(r, s) PROVE PutsAside
  BY <1>1 DEF CreateJob, PutsAside
<1>2. ASSUME NEW r \in Run, NEW a \in 1 .. MaxAction, Resolve(r, a) PROVE Rests
  <2>1. job'.gen = job.gen /\ job'.status = "running"
    BY <1>2, Rest DEF Resolve, Job
  <2> QED BY <1>2, <2>1 DEF Resolve, Rests, JobStays, Active, storeVars
<1>3. ASSUME Abort PROVE PutsAside
  BY <1>3, EndPutsAside DEF Abort
<1>4. ASSUME TimeoutPause \/ Expire PROVE PutsAside
  BY <1>4, EndPutsAside DEF TimeoutPause, Expire
<1>5. ASSUME FinalizeTerminal PROVE Rests
  <2>1. job'.gen = job.gen /\ job'.status = job.status
    BY <1>5, JobFields DEF FinalizeTerminal
  <2> QED BY <1>5, <2>1 DEF FinalizeTerminal, Rests, JobStays, Active, storeVars
<1>6. ASSUME DeleteJob PROVE Rests
  BY <1>6, NothingWaits DEF DeleteJob, Rests, Terminal, Active
<1>7. ASSUME ReapStale PROVE PutsAside
  BY <1>7 DEF ReapStale, Park, PutsAside
<1>8. ASSUME UNCHANGED vars PROVE Rests
  BY <1>8 DEF vars, storeVars, Rests, JobStays, Active
<1> QED
  BY <1>1, <1>2, <1>3, <1>4, <1>5, <1>6, <1>7, <1>8, DriveMoves
     DEF Next, Request, Sweep, Asks

LEMMA WordInit == Init => WordInv /\ VoiceInv
<1> SUFFICES ASSUME Init PROVE WordInv /\ VoiceInv
  OBVIOUS
<1>1. ToSet(queue) = {} /\ IsInjective(queue)
  BY DEF Init, ToSet, IsInjective
<1>2. \A r \in Run : run[r].batch = <<>> /\ run[r].recovering = None /\ run[r].pc = "idle"
  BY IdleType DEF Init
<1>3. IsInjective(<<>>)
  BY DEF IsInjective
<1> QED
  BY <1>1, <1>2, <1>3 DEF Init, WordInv, VoiceInv, RecoveredIsSaved, DeliveredIsVoiced, UserRow

LEMMA BatchSteps ==
  ASSUME TypeInv, [Next]_vars, NEW q \in Run
  PROVE  \/ run'[q].batch \in {run[q].batch, queue, <<>>}
         \/ run[q].batch # <<>> /\ run'[q].batch = Tail(run[q].batch)
<1>1. run \in [Run -> RunState] /\ run[q] \in RunState
  BY Rest
<1> DEFINE Kept == \/ run'[q].batch \in {run[q].batch, queue, <<>>}
                   \/ run[q].batch # <<>> /\ run'[q].batch = Tail(run[q].batch)
<1>2. ASSUME NEW r \in Run, NEW s \in Steer \cup {None}, CreateJob(r, s) PROVE Kept
  <2>1. CASE q = r
    <3>1. epoch + 1 \in 0 .. MaxGen
      BY <1>2, Rest, Bounds DEF CreateJob
    <3>2. Starts(run'[r], epoch + 1, s)
      BY <1>1, <1>2, <2>1, <3>1, StartType DEF CreateJob
    <3> QED BY <2>1, <3>2 DEF Starts
  <2>2. CASE q # r
    BY <1>1, <1>2, <2>2 DEF CreateJob
  <2> QED BY <2>1, <2>2
<1>3. ASSUME NEW r \in Run, NEW a \in 1 .. MaxAction, Resolve(r, a) PROVE Kept
  <2>1. CASE q = r
    <3>1. Starts(run'[r], job.gen, None)
      BY <1>1, <1>3, <2>1, StartType, JobType DEF Resolve
    <3> QED BY <2>1, <3>1 DEF Starts
  <2>2. CASE q # r
    BY <1>1, <1>3, <2>2 DEF Resolve
  <2> QED BY <2>1, <2>2
<1>4. ASSUME NEW r \in Run, Inject(r) PROVE Kept
  <2>1. CASE Drain(r)
    BY <1>1, <2>1 DEF Drain, RunState
  <2>2. CASE Apply(r)
    <3>1. run[r].batch # <<>> /\ run' = [run EXCEPT ![r].batch = Tail(run[r].batch)]
      BY <2>2 DEF Apply, Applying
    <3>2. run[r] \in RunState
      BY Rest
    <3>3. q = r => run'[q].batch = Tail(run[r].batch)
      BY <1>1, <3>1, <3>2 DEF RunState
    <3>4. q # r => run'[q] = run[q]
      BY <1>1, <3>1
    <3> QED BY <3>1, <3>3, <3>4
  <2>3. CASE ApplyRefused(r) \/ ApplyReplyLost(r)
    <3>1. Goto(r, "restoring") /\ "restoring" \in Pc
      BY <2>3 DEF ApplyRefused, ApplyReplyLost, Pc
    <3>2. run'[r].batch = run[r].batch /\ \A p \in Run \ {r} : run'[p] = run[p]
      BY <3>1, RunFields
    <3> QED BY <3>2
  <2>4. CASE Restore(r) \/ RestoreRefused(r)
    <3>1. run' = [run EXCEPT ![r].pc = "driving", ![r].batch = <<>>]
      BY <2>4 DEF Restore, RestoreRefused
    <3>2. q = r => run'[q].batch = <<>>
      BY <1>1, <3>1 DEF RunState
    <3>3. q # r => run'[q] = run[q]
      BY <1>1, <3>1
    <3> QED BY <3>2, <3>3
  <2> QED BY <1>4, <2>1, <2>2, <2>3, <2>4 DEF Inject
<1>5. ASSUME NEW r \in Run, Pause(r) PROVE Kept
  BY <1>1, <1>5 DEF Pause, RunState
<1>6. ASSUME NEW r \in Run, NEW pc, Goto(r, pc) PROVE Kept
  BY <1>1, <1>6 DEF Goto, RunState
<1>7. ASSUME NEW r \in Run, Leave(r) PROVE Kept
  BY <1>1, <1>7, IdleType DEF Leave
<1>8. ASSUME UNCHANGED run PROVE Kept
  BY <1>8
<1> HIDE DEF Kept
<1>9. ASSUME NEW r \in Run, SettlePause(r) PROVE Kept
  BY <1>6, <1>7, <1>9 DEF SettlePause, SaveRows, CommitPaused, ReleasePause, FailPause
<1>10. ASSUME NEW r \in Run, Conclude(r) PROVE Kept
  BY <1>6, <1>7, <1>10 DEF Conclude, ClaimTerminal, ClaimError, SaveFinal, CommitFinal, Publish
<1>11. ASSUME NEW r \in Run, SaveUserRow(r) \/ Crash(r) PROVE Kept
  BY <1>7, <1>8, <1>11 DEF SaveUserRow, Crash
<1>12. ASSUME Sweep PROVE Kept
  BY <1>8, <1>12 DEF Sweep, TimeoutPause, Expire, FinalizeTerminal, DeleteJob, ReapStale
<1>13. ASSUME NEW s \in Steer, Enqueue(s) \/ Cancel(s) \/ Discard(s) PROVE Kept
  BY <1>8, <1>13 DEF Enqueue, Cancel, Discard
<1>14. ASSUME Abort \/ UNCHANGED vars PROVE Kept
  BY <1>8, <1>14 DEF Abort, vars
<1>15. Kept
  BY <1>2, <1>3, <1>4, <1>5, <1>9, <1>10, <1>11, <1>12, <1>13, <1>14 DEF Next, Request, Drive
<1> QED
  BY <1>15 DEF Kept

\* The places of the words follow their receipts.
Placed ==
  /\ IsInjective(queue)
  /\ \A s \in Steer : /\ (receipt[s] = "queued") <=> (s \in ToSet(queue))
                      /\ (receipt[s] = "claimed") <=> (s \in claimed)
                      /\ (receipt[s] = "leftover") <=> (s \in parked)

LEMMA EmptyElements == ToSet(<<>>) = {} /\ IsInjective(<<>>)
  BY DEF ToSet, IsInjective

LEMMA AsksPlaces ==
  ASSUME TypeInv, WordInv, NEW s \in Steer, Enqueue(s) \/ Cancel(s) \/ Discard(s)
  PROVE  Placed'
<1>0. receipt \in [Steer -> ReceiptState] /\ queue \in Seq(Steer)
  BY Rest
<1>1. CASE Enqueue(s)
  <2>1. ToSet(queue') = ToSet(queue) \cup {s} /\ IsInjective(queue')
    BY <1>0, <1>1, AppendElements DEF Enqueue, WordInv
  <2> QED BY <1>0, <1>1, <2>1 DEF Enqueue, WordInv, Placed
<1>2. CASE Cancel(s)
  <2>1. PICK i \in 1 .. Len(queue) : queue[i] = s /\ queue' = Without(queue, i)
    BY <1>2 DEF Cancel, Without
  <2>2. /\ IsInjective(queue') /\ s \notin ToSet(queue')
        /\ ToSet(queue') \subseteq ToSet(queue) /\ ToSet(queue) \subseteq ToSet(queue') \cup {s}
    BY <1>0, <2>1, WithoutElements DEF WordInv
  <2> QED BY <1>0, <1>2, <2>2 DEF Cancel, WordInv, Placed
<1>3. CASE Discard(s)
  BY <1>0, <1>3 DEF Discard, WordInv, Placed
<1> QED
  BY <1>1, <1>2, <1>3

LEMMA MovePlaces ==
  ASSUME TypeInv, WordInv,
         \/ Rests \/ PutsAside \/ \E r \in Run : Drain(r) \/ Restore(r)
         \/ \E s \in Steer : Delivers(s) \/ Resends(s)
  PROVE  Placed'
<1>0. receipt \in [Steer -> ReceiptState] /\ queue \in Seq(Steer)
  BY Rest
<1>1. CASE Rests
  BY <1>1 DEF Rests, WordInv, Placed
<1>2. CASE PutsAside
  BY <1>0, <1>2, EmptyElements DEF PutsAside, Waiting, Settled, WordInv, Placed
<1>3. ASSUME NEW r \in Run, Drain(r) PROVE Placed'
  BY <1>0, <1>3, EmptyElements DEF Drain, Settled, WordInv, Placed
<1>4. ASSUME NEW r \in Run, Restore(r) PROVE Placed'
  <2> DEFINE B == ToSet(run[r].batch)
  <2>1. run[r].batch \in Seq(Steer)
    BY RunType
  <2>2. \A s \in B : s \in claimed /\ receipt[s] = "claimed"
    BY <1>4 DEF Restore, Restores
  <2>3. B \cap ToSet(queue) = {}
    BY <1>0, <2>1, <2>2, Rest DEF WordInv
  <2>4. ToSet(queue') = B \cup ToSet(queue) /\ IsInjective(queue')
    <3>1. queue' = run[r].batch \o queue
      BY <1>4 DEF Restore
    <3>2. IsInjective(run[r].batch) /\ IsInjective(queue)
      BY DEF WordInv
    <3> QED BY <1>0, <2>1, <2>3, <3>1, <3>2, ConcatElements
  <2> HIDE DEF B
  <2>5. /\ claimed' = claimed \ B /\ parked' = parked
        /\ receipt' = [s \in Steer |-> IF s \in B THEN "queued" ELSE receipt[s]]
    BY <1>4 DEF Restore, Restores, Settled, B
  <2> QED BY <1>0, <2>2, <2>4, <2>5 DEF WordInv, Placed
<1>5. ASSUME NEW s \in Steer, Delivers(s) PROVE Placed'
  BY <1>0, <1>5 DEF Delivers, WordInv, Placed
<1>6. ASSUME NEW s \in Steer, Resends(s) PROVE Placed'
  BY <1>0, <1>6 DEF Resends, WordInv, Placed
<1> QED
  BY <1>1, <1>2, <1>3, <1>4, <1>5, <1>6

LEMMA WaitsForTheActive ==
  ASSUME TypeInv, WordInv, [Next]_vars, NEW s \in Steer, Waits(s)'
  PROVE  accepted'[s] = job'.gen /\ Active'
<1>0. receipt \in [Steer -> ReceiptState] /\ accepted \in [Steer -> 0 .. MaxGen]
  BY Rest
<1>1. ASSUME NEW t \in Steer, Enqueue(t) \/ Cancel(t) \/ Discard(t)
      PROVE  accepted'[s] = job'.gen /\ Active'
  BY <1>0, <1>1 DEF Enqueue, Cancel, Discard, Waits, WordInv, Active
<1>2. CASE Rests
  BY <1>2 DEF Rests, JobStays, Waits, WordInv, Active
<1>3. CASE PutsAside
  BY <1>0, <1>3 DEF PutsAside, Settled, Waits, Waiting, WordInv
<1>4. ASSUME NEW r \in Run, Drain(r) \/ Restore(r)
      PROVE  accepted'[s] = job'.gen /\ Active'
  BY <1>0, <1>4 DEF Drain, Restore, Restores, Running, Settled, Waits, WordInv, Active
<1>5. ASSUME NEW t \in Steer, Delivers(t) \/ Resends(t)
      PROVE  accepted'[s] = job'.gen /\ Active'
  BY <1>0, <1>5 DEF Delivers, Resends, Waits, WordInv, Active
<1> QED
  BY <1>1, <1>2, <1>3, <1>4, <1>5, Moves DEF Asks, Says, SendsAgain

LEMMA WordStep == TypeInv /\ WordInv /\ [Next]_vars => WordInv'
<1> SUFFICES ASSUME TypeInv, WordInv, [Next]_vars PROVE WordInv'
  OBVIOUS
<1>1. Placed'
  BY Moves, AsksPlaces, MovePlaces DEF Asks, Says, SendsAgain
<1>2. ASSUME NEW q \in Run PROVE IsInjective(run'[q].batch)
  <2>1. run[q].batch \in Seq(Steer)
    BY RunType
  <2>2. run[q].batch # <<>> => IsInjective(Tail(run[q].batch))
    BY <2>1, TailElements DEF WordInv
  <2> QED
    BY <2>2, BatchSteps, EmptyElements DEF WordInv
<1> QED
  BY <1>1, <1>2, WaitsForTheActive DEF WordInv, Placed, Waits, Active

\* Accepted words are where their receipt says: a reader is never told that
\* words were left over which wait, nor that words wait which are gone, and
\* what is left over can be sent again.
THEOREM ReceiptTellsPlaceHolds == Spec => []ReceiptTellsPlace
<1>1. WordInv => ReceiptTellsPlace
  BY DEF WordInv, ReceiptTellsPlace, Normalized
<1>2. Init => WordInv
  BY WordInit
<1> QED
  BY <1>1, <1>2, TypeInit, TypeStep, WordStep, PTL DEF Spec

-----------------------------------------------------------------------------
(* What the words become.                                                  *)

\* Aside is for ever, and so is delivery.
LEMMA ReceiptsGo ==
  ASSUME TypeInv, WordInv, [Next]_vars, NEW s \in Steer
  PROVE  /\ receipt[s] \in Aside => receipt'[s] \in Aside
         /\ receipt[s] = "delivered" => receipt'[s] = "delivered"
         /\ receipt'[s] = "delivered" => \/ receipt[s] = "delivered"
                                         \/ \E r \in Run : Says(r, s)
         /\ receipt'[s] = "recovered" => \/ receipt[s] = "recovered"
                                         \/ \E r \in Run : SendsAgain(r, s)
<1>0. receipt \in [Steer -> ReceiptState] /\ queue \in Seq(Steer)
  BY Rest
<1>1. CASE Asks
  BY <1>0, <1>1 DEF Asks, Enqueue, Cancel, Discard, Aside
<1>2. CASE Rests
  BY <1>2 DEF Rests
<1>3. CASE PutsAside
  BY <1>0, <1>3 DEF PutsAside, Settled, Waiting, WordInv, Aside
<1>4. ASSUME NEW r \in Run, Drain(r)
      PROVE  receipt' = Settled(ToSet(queue), "claimed")
  BY <1>4 DEF Drain
<1>5. ASSUME NEW r \in Run, Restore(r)
      PROVE  /\ receipt' = Settled(ToSet(run[r].batch), "queued")
             /\ \A t \in ToSet(run[r].batch) : receipt[t] = "claimed"
  BY <1>5 DEF Restore, Restores
<1>6. CASE \E r \in Run : Drain(r) \/ Restore(r)
  BY <1>0, <1>4, <1>5, <1>6 DEF Settled, WordInv, Aside
<1>7. CASE \E r \in Run, t \in Steer : Says(r, t) \/ SendsAgain(r, t)
  BY <1>0, <1>7 DEF Delivers, Resends, Says, SendsAgain, Aside
<1> QED
  BY <1>1, <1>2, <1>3, <1>6, <1>7, Moves

\* Which words a controller sends again, and which rows it has saved.
LEMMA RecoveringSteps ==
  ASSUME TypeInv, WordInv, VoiceInv, [Next]_vars, NEW q \in Run
  PROVE  /\ \A s \in UserRow(q)' : receipt'[s] \in Aside
         /\ run'[q].pc \in {"committing", "consuming"} => UserRow(q)' \subseteq rows'
         /\ rows \subseteq rows'
<1>1. run \in [Run -> RunState] /\ run[q] \in RunState
  BY Rest
<1>2. \A s \in UserRow(q) : s \in Steer /\ receipt'[s] \in Aside
  BY ReceiptsGo, RunType DEF VoiceInv
<1> DEFINE Kept == /\ run'[q].recovering = run[q].recovering \/ run'[q].recovering = None
                   /\ run'[q].pc \in {"committing", "consuming"} =>
                        \/ run[q].pc \in {"committing", "consuming"} \/ UserRow(q) \subseteq rows'
                        \/ run'[q].recovering = None
                   /\ rows \subseteq rows'
<1>3. ASSUME Kept
      PROVE  /\ \A s \in UserRow(q)' : receipt'[s] \in Aside
             /\ run'[q].pc \in {"committing", "consuming"} => UserRow(q)' \subseteq rows'
             /\ rows \subseteq rows'
  BY <1>2, <1>3 DEF VoiceInv, UserRow
<1>4. ASSUME NEW r \in Run, NEW pc \in Pc, Goto(r, pc), rows \subseteq rows',
             pc \in {"committing", "consuming"} => UserRow(r) \subseteq rows'
      PROVE  Kept
  BY <1>4, RunFields
<1>5. ASSUME NEW r \in Run, Leave(r), rows \subseteq rows' PROVE Kept
  BY <1>5, RunFields, IdleType
<1>6. ASSUME UNCHANGED run, rows \subseteq rows' PROVE Kept
  BY <1>6
<1>7. ASSUME NEW r \in Run, NEW s \in Steer \cup {None}, CreateJob(r, s), q = r
      PROVE  /\ \A t \in UserRow(q)' : receipt'[t] \in Aside
             /\ run'[q].pc \notin {"committing", "consuming"}
  <2>1. epoch + 1 \in 0 .. MaxGen
    BY <1>7, Rest, Bounds DEF CreateJob
  <2>2. Starts(run'[r], epoch + 1, s)
    BY <1>1, <1>7, <2>1, StartType DEF CreateJob
  <2>3. s = None \/ (s \in parked /\ receipt[s] = "leftover") \/ s \in Waiting
    BY <1>7 DEF CreateJob, WordInv
  <2>4. s # None => receipt'[s] = "leftover"
    BY <1>7, <2>3, Rest DEF CreateJob, Settled
  <2> QED BY <1>7, <2>2, <2>4 DEF Starts, UserRow, Aside
<1>8. ASSUME NEW r \in Run, NEW s \in Steer \cup {None}, CreateJob(r, s), q # r PROVE Kept
  BY <1>1, <1>8 DEF CreateJob
<1>9. ASSUME NEW r \in Run, NEW a \in 1 .. MaxAction, Resolve(r, a) PROVE Kept
  <2>1. CASE q = r
    <3>1. Starts(run'[r], job.gen, None)
      BY <1>1, <1>9, <2>1, StartType, JobType DEF Resolve
    <3> QED BY <1>9, <2>1, <3>1 DEF Starts, Resolve
  <2>2. CASE q # r
    BY <1>1, <1>9, <2>2 DEF Resolve
  <2> QED BY <2>1, <2>2
<1>10. ASSUME NEW r \in Run, Drain(r) \/ Apply(r) \/ Restore(r) \/ RestoreRefused(r) \/ Pause(r)
       PROVE  Kept
  <2>1. run[r] \in RunState
    BY Rest
  <2>2. run'[r].recovering = run[r].recovering /\ run'[r].pc \in {"driving", "settling"}
        /\ \A p \in Run \ {r} : run'[p] = run[p]
    <3>1. CASE Drain(r) \/ Pause(r)
      BY <1>1, <2>1, <3>1 DEF Drain, Pause, RunState
    <3>2. CASE Apply(r)
      BY <1>1, <2>1, <3>2 DEF Apply, Applying, RunState
    <3>3. CASE Restore(r) \/ RestoreRefused(r)
      BY <1>1, <2>1, <3>3 DEF Restore, RestoreRefused, RunState
    <3> QED BY <1>10, <3>1, <3>2, <3>3
  <2>3. rows' = rows
    BY <1>10 DEF Drain, Apply, Restore, RestoreRefused, Pause, MarkDelivered
  <2> QED BY <2>2, <2>3
<1> HIDE DEF Kept
<1>11. ASSUME NEW r \in Run, ApplyRefused(r) \/ ApplyReplyLost(r) PROVE Kept
  BY <1>4, <1>11 DEF ApplyRefused, ApplyReplyLost, MarkDelivered, Pc
<1>12. ASSUME NEW r \in Run, SettlePause(r) PROVE Kept
  <2>1. CASE SaveRows(r)
    BY <1>4, <1>5, <2>1 DEF SaveRows, Pc
  <2>2. CASE CommitPaused(r) \/ ReleasePause(r) \/ FailPause(r)
    BY <1>4, <1>5, <2>2 DEF CommitPaused, ReleasePause, FailPause, Pc
  <2> QED BY <1>12, <2>1, <2>2 DEF SettlePause
<1>13. ASSUME NEW r \in Run, Conclude(r) PROVE Kept
  <2>1. CASE SaveFinal(r)
    BY <1>4, <2>1 DEF SaveFinal, Pc
  <2>2. CASE ClaimTerminal(r) \/ ClaimError(r) \/ CommitFinal(r) \/ Publish(r)
    BY <1>4, <1>5, <2>2 DEF ClaimTerminal, ClaimError, CommitFinal, Publish, Pc
  <2> QED BY <1>13, <2>1, <2>2 DEF Conclude
<1>14. ASSUME NEW r \in Run, SaveUserRow(r) \/ Crash(r) PROVE Kept
  BY <1>5, <1>6, <1>14 DEF SaveUserRow, Crash
<1>15. ASSUME Sweep \/ Abort \/ UNCHANGED vars \/ Asks PROVE Kept
  BY <1>6, <1>15 DEF Sweep, TimeoutPause, Expire, FinalizeTerminal, DeleteJob, ReapStale, Abort,
                     vars, Asks, Enqueue, Cancel, Discard
<1>16. \/ Kept \/ \E r \in Run, s \in Steer \cup {None} : CreateJob(r, s) /\ q = r
  BY <1>8, <1>9, <1>10, <1>11, <1>12, <1>13, <1>14, <1>15
     DEF Next, Request, Drive, Inject, Asks
<1>17. ASSUME NEW r \in Run, NEW s \in Steer \cup {None}, CreateJob(r, s) PROVE rows' = rows
  BY <1>17 DEF CreateJob
<1> QED
  BY <1>3, <1>7, <1>16, <1>17

\* Which words become a row, and which are said, in a step.
LEMMA RowsGrow ==
  ASSUME [Next]_vars
  PROVE  /\ rows \subseteq rows'
         /\ rows' = rows \/ \E r \in Run : rows' \subseteq rows \cup UserRow(r)
<1>1. ASSUME Request PROVE rows' = rows
  BY <1>1 DEF Request, Enqueue, Cancel, Discard, CreateJob, Resolve, Abort
<1>2. ASSUME Sweep PROVE rows' = rows
  BY <1>2 DEF Sweep, TimeoutPause, Expire, FinalizeTerminal, DeleteJob, ReapStale
<1>3. ASSUME NEW r \in Run, Drive(r)
      PROVE  rows \subseteq rows' /\ rows' \subseteq rows \cup UserRow(r)
  <2>1. CASE Inject(r) \/ Pause(r) \/ Crash(r)
    BY <2>1 DEF Inject, Pause, Crash, Drain, Apply, ApplyRefused, ApplyReplyLost, Restore,
                RestoreRefused, MarkDelivered
  <2>2. CASE SettlePause(r)
    BY <2>2 DEF SettlePause, SaveRows, CommitPaused, ReleasePause, FailPause
  <2>3. CASE Conclude(r) \/ SaveUserRow(r)
    BY <2>3 DEF Conclude, ClaimTerminal, ClaimError, SaveFinal, CommitFinal, Publish, SaveUserRow
  <2> QED BY <1>3, <2>1, <2>2, <2>3 DEF Drive
<1> QED
  BY <1>1, <1>2, <1>3 DEF Next, vars

LEMMA VoicedGrows ==
  ASSUME [Next]_vars
  PROVE  voiced' = voiced \/ \E r \in Run : Apply(r)
<1>1. ASSUME Request PROVE voiced' = voiced
  BY <1>1 DEF Request, Enqueue, Cancel, Discard, CreateJob, Resolve, Abort
<1>2. ASSUME Sweep PROVE voiced' = voiced
  BY <1>2 DEF Sweep, TimeoutPause, Expire, FinalizeTerminal, DeleteJob, ReapStale
<1>3. ASSUME NEW r \in Run, Drive(r), ~Apply(r) PROVE voiced' = voiced
  <2>1. CASE Inject(r) \/ Pause(r) \/ Crash(r)
    BY <1>3, <2>1 DEF Inject, Pause, Crash, Drain, ApplyRefused, ApplyReplyLost, Restore,
                RestoreRefused
  <2>2. CASE SettlePause(r)
    BY <2>2 DEF SettlePause, SaveRows, CommitPaused, ReleasePause, FailPause
  <2>3. CASE Conclude(r) \/ SaveUserRow(r)
    BY <2>3 DEF Conclude, ClaimTerminal, ClaimError, SaveFinal, CommitFinal, Publish, SaveUserRow
  <2> QED BY <1>3, <2>1, <2>2, <2>3 DEF Drive
<1> QED
  BY <1>1, <1>2, <1>3 DEF Next, vars

LEMMA VoiceStep == TypeInv /\ WordInv /\ VoiceInv /\ [Next]_vars => VoiceInv'
<1> SUFFICES ASSUME TypeInv, WordInv, VoiceInv, [Next]_vars PROVE VoiceInv'
  OBVIOUS
<1>0. receipt \in [Steer -> ReceiptState] /\ voiced \in [Steer -> Nat] /\ rows \subseteq Steer
  BY Rest
<1> DEFINE Says1 == /\ \A s \in Steer : voiced'[s] <= 1
                    /\ \A s \in Steer : voiced'[s] # 0 => receipt'[s] = "delivered"
                    /\ "reply" \in Faults \/ DeliveredIsVoiced'
<1>1. Says1
  <2>1. ASSUME NEW r \in Run, Apply(r) PROVE Says1
    <3> DEFINE s == Head(run[r].batch)
    <3>1. /\ receipt[s] = "claimed" /\ receipt' = [receipt EXCEPT ![s] = "delivered"]
          /\ voiced' = [voiced EXCEPT ![s] = @ + 1]
      BY <2>1 DEF Apply, Appends, MarkDelivered
    <3>2. s \in Steer
      BY <2>1, RunType, TailElements DEF Apply, Applying
    <3>3. voiced[s] = 0
      BY <1>0, <3>1, <3>2 DEF VoiceInv
    <3>4. /\ receipt'[s] = "delivered" /\ voiced'[s] = 1
          /\ \A t \in Steer \ {s} : receipt'[t] = receipt[t] /\ voiced'[t] = voiced[t]
      BY <1>0, <3>1, <3>2, <3>3
    <3> HIDE DEF s
    <3> QED BY <3>2, <3>4 DEF VoiceInv, DeliveredIsVoiced
  <2>2. ASSUME voiced' = voiced, ~\E r \in Run : Apply(r) PROVE Says1
    <3>1. ASSUME NEW s \in Steer, receipt'[s] = "delivered", receipt[s] # "delivered"
          PROVE  "reply" \in Faults
      BY <2>2, <3>1, ReceiptsGo DEF Says, ApplyReplyLost
    <3> QED BY <2>2, <3>1, ReceiptsGo DEF VoiceInv, DeliveredIsVoiced
  <2> QED BY <2>1, <2>2, VoicedGrows
<1>2. \A s \in rows' : receipt'[s] \in Aside
  BY <1>0, RowsGrow, ReceiptsGo, RunType DEF VoiceInv
<1>3. RecoveredIsSaved'
  <2> SUFFICES ASSUME NEW s \in Steer, receipt'[s] = "recovered" PROVE s \in rows'
    BY DEF RecoveredIsSaved
  <2>1. CASE receipt[s] = "recovered"
    BY <2>1, RowsGrow DEF VoiceInv, RecoveredIsSaved
  <2>2. ASSUME NEW r \in Run, SendsAgain(r, s) PROVE s \in rows
    BY <2>2 DEF SendsAgain, CommitPaused, CommitFinal, VoiceInv
  <2> QED BY <2>1, <2>2, RowsGrow, ReceiptsGo
<1> QED
  BY <1>1, <1>2, <1>3, RecoveringSteps DEF VoiceInv

\* Words enter the conversation once, as part of a response or as a message of
\* their own, however many generations are replaced, stopped or recovered.
THEOREM VoicedOnceHolds == Spec => []VoicedOnce
<1>1. TypeInv /\ VoiceInv => VoicedOnce
  <2> SUFFICES ASSUME TypeInv, VoiceInv, NEW s \in Steer
               PROVE  voiced[s] + (IF s \in rows THEN 1 ELSE 0) <= 1
    BY DEF VoicedOnce
  <2>1. voiced[s] \in Nat /\ voiced[s] <= 1
    BY Rest DEF VoiceInv
  <2>2. s \in rows => voiced[s] = 0
    BY DEF VoiceInv, Aside
  <2> QED BY <2>1, <2>2
<1>2. Init => WordInv /\ VoiceInv
  BY WordInit
<1> QED
  BY <1>1, <1>2, TypeInit, TypeStep, WordStep, VoiceStep, PTL DEF Spec

\* The source of a recovery goes only when the words are a message: it is the
\* only durable copy of them.
THEOREM RecoveredIsSavedHolds == Spec => []RecoveredIsSaved
<1>1. VoiceInv => RecoveredIsSaved
  BY DEF VoiceInv
<1>2. Init => WordInv /\ VoiceInv
  BY WordInit
<1> QED
  BY <1>1, <1>2, TypeInit, TypeStep, WordStep, VoiceStep, PTL DEF Spec

\* What a receipt calls delivered was said, unless the reply to the append that
\* says it can be lost.
THEOREM DeliveredIsVoicedHolds ==
  ASSUME "reply" \notin Faults
  PROVE  Spec => []DeliveredIsVoiced
<1>1. VoiceInv => DeliveredIsVoiced
  BY DEF VoiceInv
<1>2. Init => WordInv /\ VoiceInv
  BY WordInit
<1> QED
  BY <1>1, <1>2, TypeInit, TypeStep, WordStep, VoiceStep, PTL DEF Spec
==============================================================================
