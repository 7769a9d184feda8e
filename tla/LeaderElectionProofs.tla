------------------------ MODULE LeaderElectionProofs ------------------------
(***************************************************************************)
(* Theorems about LeaderElection, for every number of servers, calls and   *)
(* renewals and all durations that satisfy LeaseAssumption.                *)
(***************************************************************************)
EXTENDS LeaderElection, TLAPS

\* n further attempts, each after its delay.
Attempts(n) == n * (MaxDelay + RetryDelay)

LEMMA AttemptsNat == \A n \in Nat : Attempts(n) \in Nat
<1> SUFFICES ASSUME NEW n \in Nat PROVE Attempts(n) \in Nat
  OBVIOUS
<1>1. MaxDelay + RetryDelay \in Nat
  BY LeaderElectionAssumption
<1> QED
  BY <1>1 DEF Attempts

LEMMA AttemptsStep ==
  \A n \in Nat : Attempts(n + 1) = Attempts(n) + MaxDelay + RetryDelay
<1> SUFFICES ASSUME NEW n \in Nat
             PROVE  Attempts(n + 1) = Attempts(n) + MaxDelay + RetryDelay
  OBVIOUS
<1> DEFINE k == MaxDelay + RetryDelay
<1>1. k \in Nat
  BY LeaderElectionAssumption
<1>2. (n + 1) * k = n * k + k
  <2> HIDE DEF k
  <2> QED BY <1>1
<1>3. n * k \in Nat
  <2> HIDE DEF k
  <2> QED BY <1>1
<1> QED
  BY <1>2, <1>3, LeaderElectionAssumption DEF Attempts

LEMMA RenewalTimeIs ==
  RenewalTime = Attempts(MaxRetries) + MaxDelay /\ RenewalTime \in Nat
<1>1. MaxRetries \in Nat /\ MaxDelay \in Nat /\ RetryDelay \in Nat
  BY LeaderElectionAssumption
<1>2. (MaxRetries + 1) * MaxDelay + MaxRetries * RetryDelay
        = MaxRetries * (MaxDelay + RetryDelay) + MaxDelay
  BY <1>1
<1>3. RenewalTime = Attempts(MaxRetries) + MaxDelay
  BY <1>2 DEF RenewalTime, Attempts
<1> QED
  BY <1>1, <1>3, AttemptsNat

\* Nothing lasts longer than it may, and attempts are counted from one.
Bounded ==
  /\ \A c \in Call : pc[c] \in CallPending => age[c] <= MaxDelay
  /\ \A r \in Renewal :
       /\ renewal[r] \in RenewalPending =>
            age[r] <= MaxDelay /\ tries[r] \in 1 .. MaxRetries + 1
       /\ renewal[r] = "wait" =>
            age[r] <= RetryDelay /\ tries[r] \in 1 .. MaxRetries

TypeInv == TypeOK /\ Bounded

LEMMA TypeInit == Init => TypeInv
  BY LeaderElectionAssumption, RenewalTimeIs, LeaseAssumption
  DEF Init, TypeInv, TypeOK, Bounded, CallPending, RenewalPending

LEMMA TypeStep == TypeInv /\ [Next]_vars => TypeInv'
<1> SUFFICES ASSUME TypeInv, [Next]_vars PROVE TypeInv'
  OBVIOUS
<1>0. Lease \in Nat \ {0} /\ Interval \in Nat /\ MaxDelay \in Nat
  BY LeaderElectionAssumption, RenewalTimeIs, LeaseAssumption
<1> USE LeaderElectionAssumption, <1>0 DEF TypeInv, TypeOK, Bounded, CallPending,
     RenewalPending, redis, servers, calls, renewals, Restamp, Hold, ClearTimer,
     Return, Proceed, EndRenewal
<1>1. ASSUME NEW c \in Call, StartCall(c) PROVE TypeInv'
  BY <1>1 DEF StartCall
<1>2. ASSUME NEW c \in Call, ExecuteGet(c) PROVE TypeInv'
  BY <1>2 DEF ExecuteGet
<1>3. ASSUME NEW c \in Call, ReceiveGet(c) PROVE TypeInv'
  <2>1. CASE pc[c] = "self"
    BY <1>3, <2>1 DEF ReceiveGet
  <2>2. CASE pc[c] = "other"
    BY <1>3, <2>2 DEF ReceiveGet
  <2>3. CASE pc[c] = "free"
    BY <1>3, <2>3 DEF ReceiveGet
  <2> QED
    BY <1>3, <2>1, <2>2, <2>3 DEF ReceiveGet
<1>4. ASSUME NEW c \in Call, SendSet(c) PROVE TypeInv'
  BY <1>4 DEF SendSet
<1>5. ASSUME NEW c \in Call, ExecuteSet(c) PROVE TypeInv'
  BY <1>5 DEF ExecuteSet
<1>6. ASSUME NEW c \in Call, ReceiveSet(c) PROVE TypeInv'
  <2>0. HomeOf[c] \in Server
    OBVIOUS
  <2>1. CASE pc[c] = "won"
    <3>t. timer' \in [Server -> BOOLEAN]
      BY <1>6, <2>0, <2>1 DEF ReceiveSet
    <3>1. left' \in [Server -> 0 .. Interval]
      BY <1>6, <2>0, <2>1 DEF ReceiveSet
    <3>a. pc' \in [Call -> CallPending \cup {"idle", "delay"}]
      BY <1>6, <2>1 DEF ReceiveSet
    <3>b. answer' \in [Call -> {"none", "yes", "no", "error"}]
      BY <1>6, <2>1 DEF ReceiveSet
    <3>c. age' \in [Call \cup Renewal -> Nat]
      BY <1>6, <2>1 DEF ReceiveSet
    <3>2. Bounded'
      BY <1>6, <2>1 DEF ReceiveSet
    <3> QED
      BY <1>6, <3>t, <3>1, <3>2, <3>a, <3>b, <3>c DEF ReceiveSet
  <2>2. CASE pc[c] = "lost"
    BY <1>6, <2>2 DEF ReceiveSet
  <2> QED
    BY <1>6, <2>1, <2>2 DEF ReceiveSet
<1>7. ASSUME NEW c \in Call, CallFails(c) PROVE TypeInv'
  BY <1>7 DEF CallFails
<1>8. ASSUME NEW s \in Server, NEW r \in Renewal, Fire(s, r) PROVE TypeInv'
  BY <1>8 DEF Fire
<1>9. ASSUME NEW r \in Renewal, ExecuteRenew(r) PROVE TypeInv'
  BY <1>9 DEF ExecuteRenew
<1>10. ASSUME NEW r \in Renewal, ReceiveRenew(r) PROVE TypeInv'
  <2>0. HomeOf[r] \in Server
    OBVIOUS
  <2>t. timer' \in [Server -> BOOLEAN]
    BY <1>10, <2>0 DEF ReceiveRenew
  <2>1. left' \in [Server -> 0 .. Interval]
    BY <1>10, <2>0 DEF ReceiveRenew
  <2>3. renewal' \in [Renewal -> RenewalPending \cup {"idle", "wait"}]
    BY <1>10 DEF ReceiveRenew
  <2>4. tries' \in [Renewal -> 0 .. MaxRetries + 1]
    BY <1>10 DEF ReceiveRenew
  <2>5. age' \in [Call \cup Renewal -> Nat]
    BY <1>10 DEF ReceiveRenew
  <2>2. Bounded'
    BY <1>10 DEF ReceiveRenew
  <2> QED
    BY <1>10, <2>t, <2>1, <2>2, <2>3, <2>4, <2>5 DEF ReceiveRenew
<1>11. ASSUME NEW r \in Renewal, RenewFails(r) PROVE TypeInv'
  <2>0. HomeOf[r] \in Server
    OBVIOUS
  <2>t. timer' \in [Server -> BOOLEAN]
    BY <1>11, <2>0 DEF RenewFails, MayRetry
  <2>1. left' \in [Server -> 0 .. Interval]
    BY <1>11, <2>0 DEF RenewFails, MayRetry
  <2>3. renewal' \in [Renewal -> RenewalPending \cup {"idle", "wait"}]
    BY <1>11 DEF RenewFails, MayRetry
  <2>4. tries' \in [Renewal -> 0 .. MaxRetries + 1]
    BY <1>11 DEF RenewFails, MayRetry
  <2>5. age' \in [Call \cup Renewal -> Nat]
    BY <1>11 DEF RenewFails, MayRetry
  <2>2. Bounded'
    BY <1>11 DEF RenewFails, MayRetry
  <2> QED
    BY <1>11, <2>t, <2>1, <2>2, <2>3, <2>4, <2>5 DEF RenewFails
<1>12. ASSUME NEW r \in Renewal, Retry(r) PROVE TypeInv'
  BY <1>12 DEF Retry
<1>13. ASSUME NEW s \in Server, Resign(s) PROVE TypeInv'
  BY <1>13 DEF Resign
<1>14. ASSUME NEW s \in Server, ExecuteResign(s) PROVE TypeInv'
  BY <1>14 DEF ExecuteResign
<1>15. ASSUME NEW s \in Server, ResignFails(s) PROVE TypeInv'
  BY <1>15 DEF ResignFails
<1>16. ASSUME NEW s \in Server, Crash(s) PROVE TypeInv'
  BY <1>16 DEF Crash, LateCommand
<1>17. ASSUME Tick PROVE TypeInv'
  BY <1>17 DEF Tick, Punctual, Timed
<1>18. CASE UNCHANGED vars
  BY <1>18 DEF vars
<1> QED
  BY <1>1, <1>2, <1>3, <1>4, <1>5, <1>6, <1>7, <1>8, <1>9, <1>10, <1>11, <1>12, <1>13,
     <1>14, <1>15, <1>16, <1>17, <1>18 DEF Next, IsLeader, RenewLeadership, Shutdown

\* Every variable has its type; in particular the key has an expiry whenever
\* it exists, and a renewal is attempted at most MaxRetries + 1 times.
THEOREM TypeCorrect == Spec => []TypeOK
<1>1. TypeInv => TypeOK
  BY DEF TypeInv
<1> QED
  BY <1>1, TypeInit, TypeStep, PTL DEF Spec
-----------------------------------------------------------------------------
(* The leader holds the key. *)

Trying == {"sent", "wait"}

\* The time a renewal that has not yet succeeded may still take.
Remaining(r) ==
  IF renewal[r] = "sent"
  THEN Attempts(MaxRetries + 1 - tries[r]) + MaxDelay - age[r]
  ELSE Attempts(MaxRetries - tries[r]) + MaxDelay + RetryDelay - age[r]

\* The key outlives a renewal of s under way, or the next one.
Covered(s) ==
  \/ ttl > left[s] + RenewalTime
  \/ \E r \in Renewal : /\ HomeOf[r] = s
                        /\ renewal[r] \in Trying
                        /\ ttl > Remaining(r)

\* A timer that runs has a key that lasts until the timer is stopped or the
\* key renewed; a SET that succeeded has the key while its reply is awaited.
LeadInv ==
  /\ \A s \in Server : timer[s] /\ mode[s] = "up" => holder = s /\ Covered(s)
  /\ \A c \in Call : pc[c] = "won" /\ mode[HomeOf[c]] = "up" =>
       holder = HomeOf[c] /\ ttl >= Lease - age[c]

LEMMA LeadInit == Init => LeadInv
  BY LeaderElectionAssumption DEF Init, LeadInv

\* What the durations amount to.
LEMMA Durations ==
  /\ Lease \in Nat /\ Interval \in Nat /\ MaxDelay \in Nat
  /\ RetryDelay \in Nat /\ MaxRetries \in Nat /\ RenewalTime \in Nat
  /\ Lease > MaxDelay + Interval + RenewalTime
  BY LeaderElectionAssumption, LeaseAssumption, RenewalTimeIs

\* A renewal under way has a natural number of ticks left.
LEMMA RemainingNat ==
  ASSUME TypeInv, NEW r \in Renewal, renewal[r] \in Trying
  PROVE  Remaining(r) \in Nat
<1>1. CASE renewal[r] = "sent"
  <2>1. age[r] \in Nat /\ age[r] <= MaxDelay /\ tries[r] \in 1 .. MaxRetries + 1
    BY <1>1 DEF TypeInv, TypeOK, Bounded, RenewalPending
  <2>2. MaxRetries + 1 - tries[r] \in Nat
    BY <2>1, Durations
  <2>3. Attempts(MaxRetries + 1 - tries[r]) \in Nat
    BY <2>2, AttemptsNat
  <2> QED
    BY <1>1, <2>1, <2>3, Durations DEF Remaining
<1>2. CASE renewal[r] = "wait"
  <2>1. age[r] \in Nat /\ age[r] <= RetryDelay /\ tries[r] \in 1 .. MaxRetries
    BY <1>2 DEF TypeInv, TypeOK, Bounded
  <2>2. MaxRetries - tries[r] \in Nat
    BY <2>1, Durations
  <2>3. Attempts(MaxRetries - tries[r]) \in Nat
    BY <2>2, AttemptsNat
  <2> QED
    BY <1>2, <2>1, <2>3, Durations DEF Remaining
<1> QED
  BY <1>1, <1>2 DEF Trying

\* A step that leaves the key, the servers and the renewals alone.
LEMMA LeadKept ==
  ASSUME TypeInv, LeadInv, UNCHANGED <<redis, servers, renewals>>,
         \A r \in Renewal : age'[r] = age[r],
         \A c \in Call : pc'[c] = "won" => pc[c] = "won" /\ age'[c] = age[c]
  PROVE  LeadInv'
<1>1. \A s \in Server : Covered(s) => Covered(s)'
  BY DEF Covered, Remaining, Trying, redis, servers, renewals
<1> QED
  BY <1>1 DEF LeadInv, redis, servers

\* A step after which the key of s is renewed.
LEMMA RenewedIsCovered ==
  ASSUME TypeInv, NEW s \in Server, ttl' = Lease, left'[s] \in 0 .. Interval
  PROVE  Covered(s)'
  BY Durations DEF Covered

\* A command of a call.
LEMMA LeadCall ==
  ASSUME TypeInv, LeadInv, NEW c \in Call, IsLeader(c) \/ StartCall(c)
  PROVE  LeadInv'
<1> USE DEF Return, Proceed, Restamp, TypeInv, TypeOK
<1>1. CASE StartCall(c)
  BY <1>1, LeadKept, LeaderElectionAssumption DEF StartCall
<1>2. CASE ExecuteGet(c)
  BY <1>2, LeadKept, LeaderElectionAssumption DEF ExecuteGet
<1>3. CASE ReceiveGet(c)
  BY <1>3, LeadKept, LeaderElectionAssumption DEF ReceiveGet
<1>4. CASE SendSet(c)
  BY <1>4, LeadKept, LeaderElectionAssumption DEF SendSet
<1>5. CASE ExecuteSet(c)
  <2>1. CASE pc'[c] = "lost"
    BY <1>5, <2>1, LeadKept, LeaderElectionAssumption DEF ExecuteSet, Hold
  <2>2. CASE pc'[c] # "lost"
    <3>1. holder = None /\ Hold(HomeOf[c]) /\ pc' = [pc EXCEPT ![c] = "won"]
      BY <1>5, <2>2 DEF ExecuteSet
    <3>2. \A s \in Server : ~(timer[s] /\ mode[s] = "up")
      BY <3>1, LeaderElectionAssumption DEF LeadInv
    <3>3. \A d \in Call \ {c} : ~(pc'[d] = "won" /\ mode[HomeOf[d]] = "up")
      <4>1. \A d \in Call : HomeOf[d] # None
        BY LeaderElectionAssumption
      <4>2. \A d \in Call \ {c} : pc'[d] = pc[d]
        BY <3>1
      <4> QED
        BY <3>1, <4>1, <4>2 DEF LeadInv
    <3>4. holder' = HomeOf[c] /\ ttl' >= Lease - age[c]
      BY <3>1, Durations DEF Hold
    <3> QED
      BY <1>5, <3>2, <3>3, <3>4 DEF ExecuteSet, LeadInv, servers
  <2> QED
    BY <2>1, <2>2
<1>6. CASE ReceiveSet(c)
  <2>1. CASE pc[c] = "lost"
    BY <1>6, <2>1, LeadKept, LeaderElectionAssumption DEF ReceiveSet, servers
  <2>2. CASE pc[c] = "won"
    <3> DEFINE h == HomeOf[c]
    <3>1. h \in Server /\ \A p \in Renewal : p # c
      BY LeaderElectionAssumption
    <3>2. mode[h] = "up" => holder = h /\ ttl > Interval + RenewalTime
      <4>1. age[c] \in Nat /\ age[c] <= MaxDelay
        BY <2>2 DEF Bounded, CallPending
      <4> QED
        BY <2>2, <4>1, Durations DEF LeadInv
    <3>3. /\ timer' = [timer EXCEPT ![h] = TRUE]
          /\ left' = [left EXCEPT ![h] = Interval]
          /\ UNCHANGED <<redis, mode, renewals>>
          /\ \A r \in Renewal : age'[r] = age[r]
      BY <1>6, <2>2, <3>1 DEF ReceiveSet
    <3>4. ASSUME NEW s \in Server, timer'[s], mode'[s] = "up"
          PROVE  holder' = s /\ Covered(s)'
      <4>1. CASE s = h
        BY <3>1, <3>2, <3>3, <3>4, <4>1 DEF Covered, redis
      <4>2. CASE s # h
        <5>1. timer[s] /\ mode[s] = "up" /\ left'[s] = left[s]
          BY <3>1, <3>3, <3>4, <4>2
        <5> QED
          BY <3>3, <5>1 DEF LeadInv, Covered, Remaining, Trying, redis, renewals
      <4> QED
        BY <4>1, <4>2
    <3>5. \A d \in Call : pc'[d] = "won" => pc[d] = "won" /\ age'[d] = age[d]
      BY <1>6, <2>2 DEF ReceiveSet
    <3> QED
      BY <3>3, <3>4, <3>5 DEF LeadInv, redis
  <2> QED
    BY <1>6, <2>1, <2>2 DEF ReceiveSet
<1>7. CASE CallFails(c)
  BY <1>7, LeadKept, LeaderElectionAssumption DEF CallFails
<1> QED
  BY <1>1, <1>2, <1>3, <1>4, <1>5, <1>6, <1>7 DEF IsLeader

\* A command of a renewal, or its timer.
LEMMA LeadRenewal ==
  ASSUME TypeInv, LeadInv, NEW r \in Renewal,
         RenewLeadership(r) \/ Fire(HomeOf[r], r)
  PROVE  LeadInv'
<1> DEFINE h == HomeOf[r]
<1>h. h \in Server /\ \A c \in Call : c # r
  BY LeaderElectionAssumption
<1>1. CASE Fire(h, r)
  <2>1. /\ UNCHANGED <<redis, mode, timer, calls>>
        /\ left' = [left EXCEPT ![h] = Interval]
        /\ renewal' = [renewal EXCEPT ![r] = "sent"]
        /\ tries' = [tries EXCEPT ![r] = 1]
        /\ age' = [age EXCEPT ![r] = 0]
        /\ left[h] = 0 /\ renewal[r] = "idle"
    BY <1>1 DEF Fire, Restamp
  <2>2. Remaining(r)' = RenewalTime
    <3>1. renewal'[r] = "sent" /\ tries'[r] = 1 /\ age'[r] = 0
      BY <2>1 DEF TypeInv, TypeOK
    <3>2. MaxRetries + 1 - 1 = MaxRetries
      BY Durations
    <3>3. Remaining(r)' = Attempts(MaxRetries + 1 - tries'[r]) + MaxDelay - age'[r]
      BY <3>1 DEF Remaining
    <3>4. Attempts(MaxRetries + 1 - tries'[r]) = Attempts(MaxRetries)
      BY <3>1, <3>2
    <3> QED
      BY <3>1, <3>3, <3>4, RenewalTimeIs, AttemptsNat, Durations
  <2>3. \A q \in Renewal \ {r} : /\ renewal'[q] = renewal[q]
                                 /\ Remaining(q)' = Remaining(q)
    BY <2>1 DEF Remaining, TypeInv, TypeOK
  <2>4. ASSUME NEW s \in Server, Covered(s) PROVE Covered(s)'
    <3>1. CASE \E q \in Renewal : /\ HomeOf[q] = s /\ renewal[q] \in Trying
                                  /\ ttl > Remaining(q)
      <4>1. PICK q \in Renewal : /\ HomeOf[q] = s /\ renewal[q] \in Trying
                                 /\ ttl > Remaining(q)
        BY <3>1
      <4>2. q # r
        BY <2>1, <4>1 DEF Trying
      <4> QED
        BY <2>1, <2>3, <4>1, <4>2 DEF Covered, redis
    <3>2. CASE s = h /\ ttl > left[s] + RenewalTime
      <4>1. ttl > RenewalTime
        BY <2>1, <3>2, Durations
      <4>2. renewal'[r] \in Trying
        BY <2>1 DEF Trying, TypeInv, TypeOK
      <4> QED
        BY <2>1, <2>2, <3>2, <4>1, <4>2 DEF Covered, redis
    <3>3. CASE s # h /\ ttl > left[s] + RenewalTime
      BY <2>1, <3>3 DEF Covered, redis, TypeInv, TypeOK
    <3> QED
      BY <2>4, <3>1, <3>2, <3>3 DEF Covered
  <2> QED
    BY <1>h, <2>1, <2>4 DEF LeadInv, redis, calls, TypeInv, TypeOK
<1>2. CASE ExecuteRenew(r)
  <2>1. CASE holder = h
    <3>1. holder' = holder /\ ttl' = Lease /\ UNCHANGED <<servers, calls, tries, age>>
      BY <1>2, <2>1 DEF ExecuteRenew, Hold
    <3>2. \A s \in Server : Covered(s)'
      BY <3>1, RenewedIsCovered DEF servers, TypeInv, TypeOK
    <3>3. \A c \in Call : ttl' >= Lease - age'[c]
      BY <3>1, Durations DEF TypeInv, TypeOK
    <3> QED
      BY <3>1, <3>2, <3>3 DEF LeadInv, servers, calls
  <2>2. CASE holder # h
    <3>1. /\ UNCHANGED <<redis, servers, calls, tries, age>>
          /\ renewal' = [renewal EXCEPT ![r] = "refused"]
      BY <1>2, <2>2 DEF ExecuteRenew
    <3>2. ASSUME NEW s \in Server, Covered(s), s # h PROVE Covered(s)'
      BY <3>1, <3>2 DEF Covered, Remaining, Trying, redis, servers, TypeInv, TypeOK
    <3> QED
      BY <2>2, <3>1, <3>2 DEF LeadInv, redis, servers, calls
  <2> QED
    BY <2>1, <2>2
<1>3. ASSUME /\ UNCHANGED <<redis, mode, calls>>
             /\ timer' = [timer EXCEPT ![h] = FALSE]
             /\ left' = [left EXCEPT ![h] = 0]
             /\ renewal' = [renewal EXCEPT ![r] = "idle"]
             /\ tries' = [tries EXCEPT ![r] = 0]
             /\ age' = [age EXCEPT ![r] = 0]
      PROVE  LeadInv'
  <2>1. ASSUME NEW s \in Server, timer'[s], mode'[s] = "up"
        PROVE  holder' = s /\ Covered(s)'
    <3>1. s # h /\ timer[s] /\ mode[s] = "up" /\ left'[s] = left[s]
      BY <1>h, <1>3, <2>1 DEF TypeInv, TypeOK
    <3>2. \A q \in Renewal : HomeOf[q] = s =>
            renewal'[q] = renewal[q] /\ tries'[q] = tries[q] /\ age'[q] = age[q]
      BY <1>3, <3>1 DEF TypeInv, TypeOK
    <3> QED
      BY <1>3, <3>1, <3>2 DEF LeadInv, Covered, Remaining, redis
  <2> QED
    BY <1>h, <1>3, <2>1 DEF LeadInv, redis, calls, TypeInv, TypeOK
<1>4. CASE ReceiveRenew(r)
  <2>1. CASE renewal[r] = "refused"
    BY <1>3, <1>4, <2>1 DEF ReceiveRenew, ClearTimer, EndRenewal, Restamp
  <2>2. CASE renewal[r] = "kept"
    <3>1. /\ UNCHANGED <<redis, mode, timer, left, calls>>
          /\ \A q \in Renewal \ {r} : /\ renewal'[q] = renewal[q]
                                      /\ tries'[q] = tries[q]
                                      /\ age'[q] = age[q]
          /\ \A c \in Call : age'[c] = age[c]
      BY <1>h, <1>4, <2>2 DEF ReceiveRenew, EndRenewal, Restamp, TypeInv, TypeOK
    <3>2. \A s \in Server : Covered(s) => Covered(s)'
      BY <2>2, <3>1 DEF Covered, Remaining, Trying, redis
    <3> QED
      BY <3>1, <3>2 DEF LeadInv, redis, calls
  <2> QED
    BY <1>4, <2>1, <2>2 DEF ReceiveRenew
<1>5. CASE RenewFails(r)
  <2>1. CASE ~MayRetry(r)
    BY <1>3, <1>5, <2>1 DEF RenewFails, ClearTimer, EndRenewal, Restamp
  <2>2. CASE MayRetry(r)
    <3>1. /\ UNCHANGED <<redis, mode, timer, left, calls, tries>>
          /\ renewal' = [renewal EXCEPT ![r] = "wait"]
          /\ age' = [age EXCEPT ![r] = 0]
          /\ renewal[r] \in RenewalPending /\ tries[r] <= MaxRetries
      BY <1>5, <2>2 DEF RenewFails, Restamp, MayRetry
    <3>2. renewal[r] = "sent" => Remaining(r)' <= Remaining(r)
      <4> SUFFICES ASSUME renewal[r] = "sent" PROVE Remaining(r)' <= Remaining(r)
        OBVIOUS
      <4>1. /\ tries[r] \in 1 .. MaxRetries /\ age[r] \in Nat /\ age[r] <= MaxDelay
            /\ renewal'[r] = "wait" /\ age'[r] = 0
        BY <3>1, Durations DEF TypeInv, TypeOK, Bounded, RenewalPending
      <4>2. /\ MaxRetries - tries[r] \in Nat
            /\ MaxRetries + 1 - tries[r] = (MaxRetries - tries[r]) + 1
        BY <4>1, Durations
      <4>3. Attempts(MaxRetries + 1 - tries[r])
              = Attempts(MaxRetries - tries[r]) + MaxDelay + RetryDelay
        BY <4>2, AttemptsStep
      <4>4. Attempts(MaxRetries - tries[r]) \in Nat
        BY <4>2, AttemptsNat
      <4>5. Remaining(r) = Attempts(MaxRetries + 1 - tries[r]) + MaxDelay - age[r]
        BY DEF Remaining
      <4>6. Remaining(r)' = Attempts(MaxRetries - tries[r]) + MaxDelay + RetryDelay - 0
        BY <3>1, <4>1 DEF Remaining
      <4> QED
        BY <4>1, <4>3, <4>4, <4>5, <4>6, Durations
    <3>3. \A q \in Renewal \ {r} : /\ renewal'[q] = renewal[q]
                                   /\ Remaining(q)' = Remaining(q)
      BY <3>1 DEF Remaining, TypeInv, TypeOK
    <3>4. ASSUME NEW s \in Server, Covered(s) PROVE Covered(s)'
      <4>1. CASE ttl > left[s] + RenewalTime
        BY <3>1, <4>1 DEF Covered, redis
      <4>2. CASE \E q \in Renewal : /\ HomeOf[q] = s /\ renewal[q] \in Trying
                                    /\ ttl > Remaining(q)
        <5>1. PICK q \in Renewal : /\ HomeOf[q] = s /\ renewal[q] \in Trying
                                   /\ ttl > Remaining(q)
          BY <4>2
        <5>2. CASE q # r
          BY <3>1, <3>3, <5>1, <5>2 DEF Covered, redis
        <5>3. CASE q = r
          <6>1. renewal[r] = "sent" /\ renewal'[r] = "wait"
            BY <3>1, <5>1, <5>3 DEF Trying, RenewalPending, TypeInv, TypeOK
          <6>2. Remaining(r) \in Nat /\ Remaining(r)' \in Nat
            <7>1. Remaining(r)' \in Nat
              <8>1. /\ tries[r] \in 1 .. MaxRetries /\ age'[r] = 0
                BY <3>1, Durations DEF TypeInv, TypeOK, Bounded, RenewalPending
              <8>2. Attempts(MaxRetries - tries[r]) \in Nat
                BY <8>1, AttemptsNat, Durations
              <8> QED
                BY <3>1, <6>1, <8>1, <8>2, Durations DEF Remaining
            <7> QED
              BY <6>1, <7>1, RemainingNat DEF Trying
          <6>3. ttl > Remaining(r)'
            BY <3>2, <5>1, <5>3, <6>1, <6>2, Durations DEF TypeInv, TypeOK
          <6> QED
            BY <3>1, <5>1, <5>3, <6>1, <6>3 DEF Covered, Trying, redis
        <5> QED
          BY <5>2, <5>3
      <4> QED
        BY <3>4, <4>1, <4>2 DEF Covered
    <3>5. \A c \in Call : age'[c] = age[c]
      BY <1>h, <3>1 DEF TypeInv, TypeOK
    <3> QED
      BY <3>1, <3>4, <3>5 DEF LeadInv, redis, calls
  <2> QED
    BY <2>1, <2>2
<1>6. CASE Retry(r)
  <2>1. /\ UNCHANGED <<redis, servers, calls>>
        /\ renewal' = [renewal EXCEPT ![r] = "sent"]
        /\ tries' = [tries EXCEPT ![r] = @ + 1]
        /\ age' = [age EXCEPT ![r] = 0]
        /\ renewal[r] = "wait" /\ age[r] = RetryDelay
    BY <1>6 DEF Retry, Restamp
  <2>2. Remaining(r)' = Remaining(r)
    <3>1. /\ tries[r] \in 1 .. MaxRetries /\ renewal'[r] = "sent"
          /\ tries'[r] = tries[r] + 1 /\ age'[r] = 0
      BY <2>1 DEF TypeInv, TypeOK, Bounded
    <3>2. /\ MaxRetries + 1 - (tries[r] + 1) = MaxRetries - tries[r]
          /\ MaxRetries - tries[r] \in Nat
      BY <3>1, Durations
    <3>3. Attempts(MaxRetries + 1 - tries'[r]) = Attempts(MaxRetries - tries[r])
      BY <3>1, <3>2
    <3>4. Attempts(MaxRetries - tries[r]) \in Nat
      BY <3>2, AttemptsNat
    <3>5. Remaining(r) = Attempts(MaxRetries - tries[r]) + MaxDelay + RetryDelay - RetryDelay
      BY <2>1 DEF Remaining
    <3>6. Remaining(r)' = Attempts(MaxRetries + 1 - tries'[r]) + MaxDelay - 0
      BY <3>1 DEF Remaining
    <3> QED
      BY <3>3, <3>4, <3>5, <3>6, Durations
  <2>3. \A q \in Renewal : /\ renewal[q] \in Trying => renewal'[q] \in Trying
                           /\ Remaining(q)' = Remaining(q)
    BY <2>1, <2>2 DEF Remaining, Trying, TypeInv, TypeOK
  <2>4. \A s \in Server : Covered(s) => Covered(s)'
    BY <2>1, <2>3 DEF Covered, redis, servers
  <2>5. \A c \in Call : age'[c] = age[c]
    BY <1>h, <2>1 DEF TypeInv, TypeOK
  <2> QED
    BY <2>1, <2>4, <2>5 DEF LeadInv, redis, servers, calls
<1> QED
  BY <1>1, <1>2, <1>4, <1>5, <1>6 DEF RenewLeadership

\* Shutdown and crash of a server.
LEMMA LeadShutdown ==
  ASSUME TypeInv, LeadInv, NEW z \in Server, Shutdown(z)
  PROVE  LeadInv'
<1>0. \A c \in Call : HomeOf[c] \in Server
  BY LeaderElectionAssumption
<1>1. ASSUME /\ ~timer'[z] \/ mode'[z] # "up"
             /\ \A c \in Call : HomeOf[c] = z => pc'[c] # "won" \/ mode'[z] # "up"
             /\ \A s \in Server \ {z} : /\ timer'[s] = timer[s] /\ left'[s] = left[s]
                                        /\ mode'[s] = mode[s]
                                        /\ holder = s => holder' = s /\ ttl' = ttl
             /\ \A c \in Call : HomeOf[c] # z => pc'[c] = pc[c] /\ age'[c] = age[c]
             /\ \A r \in Renewal : HomeOf[r] # z =>
                  renewal'[r] = renewal[r] /\ tries'[r] = tries[r] /\ age'[r] = age[r]
      PROVE  LeadInv'
  <2>1. ASSUME NEW s \in Server, timer'[s], mode'[s] = "up"
        PROVE  holder' = s /\ Covered(s)'
    <3>1. s # z /\ timer[s] /\ mode[s] = "up" /\ left'[s] = left[s]
      BY <1>1, <2>1
    <3>2. holder = s /\ holder' = s /\ ttl' = ttl /\ Covered(s)
      BY <1>1, <3>1 DEF LeadInv
    <3> QED
      BY <1>1, <3>1, <3>2 DEF Covered, Remaining
  <2>2. ASSUME NEW c \in Call, pc'[c] = "won", mode'[HomeOf[c]] = "up"
        PROVE  holder' = HomeOf[c] /\ ttl' >= Lease - age'[c]
    <3>1. HomeOf[c] # z
      BY <1>1, <2>2
    <3> QED
      BY <1>0, <1>1, <2>2, <3>1 DEF LeadInv
  <2> QED
    BY <2>1, <2>2 DEF LeadInv
<1>2. CASE Resign(z)
  BY <1>1, <1>2 DEF Resign, ClearTimer, redis, calls, renewals, TypeInv, TypeOK
<1>3. CASE ExecuteResign(z)
  BY <1>1, <1>3 DEF ExecuteResign, redis, calls, renewals, TypeInv, TypeOK
<1>4. CASE ResignFails(z)
  BY <1>1, <1>4 DEF ResignFails, redis, calls, renewals, TypeInv, TypeOK
<1>5. CASE Crash(z)
  <2>1. \A s \in Server \ {z} : holder = s => holder' = s /\ ttl' = ttl
    BY <1>5, LeaderElectionAssumption DEF Crash, LateCommand, Hold
  <2>2. /\ ~timer'[z]
        /\ \A c \in Call : HomeOf[c] = z => pc'[c] # "won"
        /\ \A s \in Server \ {z} : /\ timer'[s] = timer[s] /\ left'[s] = left[s]
                                   /\ mode'[s] = mode[s]
        /\ \A c \in Call : HomeOf[c] # z => pc'[c] = pc[c] /\ age'[c] = age[c]
        /\ \A r \in Renewal : HomeOf[r] # z =>
             renewal'[r] = renewal[r] /\ tries'[r] = tries[r] /\ age'[r] = age[r]
    BY <1>5 DEF Crash, ClearTimer, TypeInv, TypeOK
  <2> QED
    BY <1>1, <2>1, <2>2
<1> QED
  BY <1>2, <1>3, <1>4, <1>5 DEF Shutdown

\* Time: whatever the key has to outlast comes nearer as fast as its expiry.
LEMMA LeadTick ==
  ASSUME TypeInv, LeadInv, Tick
  PROVE  LeadInv'
<1>1. /\ UNCHANGED <<mode, timer, calls, renewals>> /\ Punctual
      /\ ttl' = (IF holder = None THEN 0 ELSE ttl - 1)
      /\ holder' = (IF ttl' = 0 THEN None ELSE holder)
      /\ left' = [s \in Server |-> IF timer[s] THEN left[s] - 1 ELSE left[s]]
      /\ age' = [p \in Call \cup Renewal |-> IF Timed(p) THEN age[p] + 1 ELSE age[p]]
  BY DEF Tick
<1>2. holder # None /\ ttl > 1 => ttl' = ttl - 1 /\ holder' = holder
  BY <1>1 DEF TypeInv, TypeOK
<1>3. ASSUME NEW r \in Renewal, renewal[r] \in Trying
      PROVE  Remaining(r)' = Remaining(r) - 1 /\ Remaining(r)' \in Nat /\ Remaining(r) \in Nat
  <2>1. age'[r] = age[r] + 1 /\ age[r] \in Nat
    BY <1>1, <1>3, LeaderElectionAssumption DEF Timed, Trying, TypeInv, TypeOK
  <2>2. renewal'[r] = renewal[r] /\ tries'[r] = tries[r]
    BY <1>1 DEF renewals
  <2>3. CASE renewal[r] = "sent"
    <3>1. age[r] < MaxDelay /\ tries[r] \in 1 .. MaxRetries + 1
      BY <1>1, <2>3 DEF Punctual, Bounded, RenewalPending, TypeInv
    <3>2. Attempts(MaxRetries + 1 - tries[r]) \in Nat
      BY <3>1, AttemptsNat, Durations
    <3>3. /\ Remaining(r) = Attempts(MaxRetries + 1 - tries[r]) + MaxDelay - age[r]
          /\ Remaining(r)' = Attempts(MaxRetries + 1 - tries[r]) + MaxDelay - (age[r] + 1)
      BY <2>1, <2>2, <2>3 DEF Remaining
    <3> QED
      BY <2>1, <3>1, <3>2, <3>3, Durations
  <2>4. CASE renewal[r] = "wait"
    <3>1. age[r] < RetryDelay /\ tries[r] \in 1 .. MaxRetries
      BY <1>1, <2>4 DEF Punctual, Bounded, TypeInv
    <3>2. Attempts(MaxRetries - tries[r]) \in Nat
      BY <3>1, AttemptsNat, Durations
    <3>3. /\ Remaining(r) = Attempts(MaxRetries - tries[r]) + MaxDelay + RetryDelay - age[r]
          /\ Remaining(r)' = Attempts(MaxRetries - tries[r]) + MaxDelay + RetryDelay
                               - (age[r] + 1)
      BY <2>1, <2>2, <2>4 DEF Remaining
    <3> QED
      BY <2>1, <3>1, <3>2, <3>3, Durations
  <2> QED
    BY <1>3, <2>3, <2>4 DEF Trying
<1>4. ASSUME NEW s \in Server, timer'[s], mode'[s] = "up"
      PROVE  holder' = s /\ Covered(s)'
  <2>1. timer[s] /\ holder = s /\ Covered(s) /\ s # None
    BY <1>1, <1>4, LeaderElectionAssumption DEF LeadInv
  <2>2. left[s] \in Nat /\ left[s] > 0 /\ left'[s] = left[s] - 1
    BY <1>1, <2>1, Durations DEF Punctual, TypeInv, TypeOK
  <2>3. CASE ttl > left[s] + RenewalTime
    <3>1. ttl > 1 /\ ttl \in Nat
      BY <2>2, <2>3, Durations DEF TypeInv, TypeOK
    <3> QED
      BY <1>2, <2>1, <2>2, <2>3, <3>1, Durations DEF Covered
  <2>4. CASE \E r \in Renewal : /\ HomeOf[r] = s /\ renewal[r] \in Trying
                                /\ ttl > Remaining(r)
    <3>1. PICK r \in Renewal : /\ HomeOf[r] = s /\ renewal[r] \in Trying
                               /\ ttl > Remaining(r)
      BY <2>4
    <3>2. Remaining(r)' = Remaining(r) - 1 /\ Remaining(r)' \in Nat /\ Remaining(r) \in Nat
      BY <1>3, <3>1
    <3>3. ttl > 1 /\ ttl \in Nat
      BY <3>1, <3>2, Durations DEF TypeInv, TypeOK
    <3>4. ttl' > Remaining(r)' /\ holder' = s
      BY <1>2, <2>1, <3>1, <3>2, <3>3
    <3> QED
      BY <1>1, <3>1, <3>4 DEF Covered, renewals
  <2> QED
    BY <2>1, <2>3, <2>4 DEF Covered
<1>5. ASSUME NEW c \in Call, pc'[c] = "won", mode'[HomeOf[c]] = "up"
      PROVE  holder' = HomeOf[c] /\ ttl' >= Lease - age'[c]
  <2>1. pc[c] = "won" /\ holder = HomeOf[c] /\ ttl >= Lease - age[c]
    BY <1>1, <1>5 DEF LeadInv, calls
  <2>2. age[c] \in Nat /\ age[c] < MaxDelay /\ age'[c] = age[c] + 1
    BY <1>1, <2>1 DEF Punctual, CallPending, Timed, TypeInv, TypeOK
  <2>3. ttl > 1 /\ ttl \in Nat /\ holder # None
    BY <2>1, <2>2, Durations, LeaderElectionAssumption DEF TypeInv, TypeOK
  <2> QED
    BY <1>2, <2>1, <2>2, <2>3, Durations
<1> QED
  BY <1>4, <1>5 DEF LeadInv

-----------------------------------------------------------------------------
Inv == TypeInv /\ LeadInv

LEMMA Invariance == Spec => []Inv
<1>1. Init => Inv
  BY TypeInit, LeadInit DEF Inv
<1>2. Inv /\ [Next]_vars => Inv'
  <2> SUFFICES ASSUME TypeInv, LeadInv, [Next]_vars PROVE LeadInv'
    BY TypeStep DEF Inv
  <2>1. ASSUME NEW c \in Call, StartCall(c) \/ IsLeader(c) PROVE LeadInv'
    BY <2>1, LeadCall
  <2>2. ASSUME NEW r \in Renewal, RenewLeadership(r) \/ Fire(HomeOf[r], r) PROVE LeadInv'
    BY <2>2, LeadRenewal
  <2>3. ASSUME NEW s \in Server, Shutdown(s) PROVE LeadInv'
    BY <2>3, LeadShutdown
  <2>4. CASE Tick
    BY <2>4, LeadTick
  <2>5. CASE UNCHANGED vars
    <3>1. UNCHANGED <<redis, servers, renewals>> /\ UNCHANGED <<pc, age>>
      BY <2>5 DEF vars, calls
    <3> QED
      BY <3>1, LeadKept
  <2> QED
    BY <2>1, <2>2, <2>3, <2>4, <2>5 DEF Next
<1> QED
  BY <1>1, <1>2, PTL DEF Spec

\* A server whose refresh timer runs holds the key, for every lease that
\* outlasts a command, the renewal interval and a renewal with its retries.
THEOREM LeaderHoldsKeyHolds == Spec => []LeaderHoldsKey
<1>1. Inv => LeaderHoldsKey
  BY DEF Inv, LeadInv, LeaderHoldsKey
<1> QED
  BY <1>1, Invariance, PTL

\* When isLeader() answers true, the server holds the key at that moment,
\* although the command it relies on was executed earlier.
THEOREM YesIsCurrentHolds == Spec => YesIsCurrent
<1> DEFINE Yes == \A c \in Call :
      answer'[c] = "yes" /\ answer[c] # "yes" /\ mode[HomeOf[c]] = "up"
        => holder = HomeOf[c]
<1>1. Inv /\ [Next]_vars => Yes
  <2> SUFFICES ASSUME TypeInv, LeadInv, [Next]_vars, NEW c \in Call,
                      answer'[c] = "yes", answer[c] # "yes", mode[HomeOf[c]] = "up"
               PROVE  holder = HomeOf[c]
    BY DEF Inv
  <2>1. ASSUME NEW d \in Call, StartCall(d) \/ IsLeader(d) PROVE holder = HomeOf[c]
    <3>1. CASE ReceiveGet(d) \/ ReceiveSet(d)
      <4>1. d = c /\ (pc[c] = "won" \/ (pc[c] = "self" /\ timer[HomeOf[c]]))
        BY <3>1 DEF ReceiveGet, ReceiveSet, Return, Proceed, TypeInv, TypeOK
      <4> QED
        BY <4>1, LeaderElectionAssumption DEF LeadInv
    <3>2. CASE ~(ReceiveGet(d) \/ ReceiveSet(d))
      BY <2>1, <3>2 DEF IsLeader, StartCall, ExecuteGet, SendSet, ExecuteSet, CallFails,
         Return, Proceed, TypeInv, TypeOK
    <3> QED
      BY <3>1, <3>2
  <2>2. ASSUME NEW r \in Renewal, RenewLeadership(r) \/ Fire(HomeOf[r], r)
        PROVE  answer' = answer
    BY <2>2 DEF RenewLeadership, Fire, ExecuteRenew, ReceiveRenew, RenewFails, Retry, calls
  <2>3. ASSUME NEW s \in Server, Shutdown(s) PROVE answer'[c] \in {answer[c], "none"}
    BY <2>3 DEF Shutdown, Resign, ExecuteResign, ResignFails, Crash, calls
  <2>4. CASE Tick
    BY <2>4 DEF Tick, calls
  <2>5. CASE UNCHANGED vars
    BY <2>5 DEF vars, calls
  <2> QED
    BY <2>1, <2>2, <2>3, <2>4, <2>5 DEF Next
<1>2. Spec => [][Yes]_vars
  BY <1>1, Invariance, PTL DEF Spec
<1> QED
  BY <1>2 DEF YesIsCurrent
=============================================================================
