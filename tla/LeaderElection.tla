--------------------------- MODULE LeaderElection ---------------------------
(***************************************************************************)
(* packages/api/src/cluster/LeaderElection.ts: servers compete for one     *)
(* Redis key with an expiry; the leader renews it from an interval timer,  *)
(* and retries a renewal that fails a few times before it gives up.        *)
(*                                                                         *)
(* Time is a Tick of the common clock.  A Redis command is sent, executed  *)
(* and answered in three steps within MaxDelay, and may fail before or     *)
(* after it was executed.  Commands of one server may overtake each other: *)
(* a cluster redirect sends a command again.  A Call is one isLeader() in  *)
(* progress, a Renewal one renewLeadership() with its retries.             *)
(***************************************************************************)
EXTENDS Naturals

CONSTANTS Server,
          Call,
          Renewal,
          HomeOf,        \* [Call \cup Renewal -> Server]
          None,          \* no key
          Ghost,         \* the key of a process that is gone
          Lease,         \* LEADER_LEASE_DURATION
          Interval,      \* LEADER_RENEW_INTERVAL
          MaxRetries,    \* LEADER_RENEW_ATTEMPTS
          RetryDelay,    \* LEADER_RENEW_RETRY_DELAY
          ResignAgain,   \* bound: resign() is called more than once
          MaxDelay       \* a Redis command is answered or fails by then

\* The longest a renewal takes from its timer to its end.
RenewalTime == (MaxRetries + 1) * MaxDelay + MaxRetries * RetryDelay

ASSUME LeaderElectionAssumption ==
  /\ HomeOf \in [Call \cup Renewal -> Server]
  /\ Call \cap Renewal = {}
  /\ None \notin Server /\ Ghost \notin Server /\ None # Ghost
  /\ {Lease, Interval, MaxRetries, RetryDelay, MaxDelay} \subseteq Nat
  /\ Interval > 0
  /\ ResignAgain \in BOOLEAN

\* The lease outlasts the command that won it, the wait for the timer and a
\* whole renewal: 25 > d + 10 + (4d + 1.5), so commands may take 2.7 s.
ASSUME LeaseAssumption == Lease > MaxDelay + Interval + RenewalTime

VARIABLES
  holder, ttl,       \* LeadingServerUUID in Redis and its time to live
  mode,              \* resign(): not called, its command under way, over
  timer, left,       \* refreshTimer # undefined, and the time to its next tick
  pc, answer,        \* calls: the step, and what isLeader() returned
  renewal, tries,    \* renewals: the step, and the attempt number
  age                \* calls and renewals: how long the step has lasted

redis    == <<holder, ttl>>
servers  == <<mode, timer, left>>
calls    == <<pc, answer>>
renewals == <<renewal, tries>>
vars     == <<redis, servers, calls, renewals, age>>

\* A command sent and not executed, or executed and not answered.
CallPending    == {"get", "self", "other", "free", "set", "won", "lost"}
RenewalPending == {"sent", "kept", "refused"}

TypeOK ==
  /\ holder \in Server \cup {None, Ghost}
  /\ ttl \in 0 .. Lease
  /\ holder = None <=> ttl = 0
  /\ mode \in [Server -> {"up", "resigning", "resigned"}]
  /\ timer \in [Server -> BOOLEAN]
  /\ left \in [Server -> 0 .. Interval]
  /\ pc \in [Call -> CallPending \cup {"idle", "delay"}]
  /\ answer \in [Call -> {"none", "yes", "no", "error"}]
  /\ renewal \in [Renewal -> RenewalPending \cup {"idle", "wait"}]
  /\ tries \in [Renewal -> 0 .. MaxRetries + 1]
  /\ age \in [Call \cup Renewal -> Nat]

Init ==
  /\ holder = None
  /\ ttl = 0
  /\ mode = [s \in Server |-> "up"]
  /\ timer = [s \in Server |-> FALSE]
  /\ left = [s \in Server |-> 0]
  /\ pc = [c \in Call |-> "idle"]
  /\ answer = [c \in Call |-> "none"]
  /\ renewal = [r \in Renewal |-> "idle"]
  /\ tries = [r \in Renewal |-> 0]
  /\ age = [p \in Call \cup Renewal |-> 0]

-----------------------------------------------------------------------------
(* Helpers. *)

\* p takes its next step now.
Restamp(p) == age' = [age EXCEPT ![p] = 0]

\* SET key uuid EX lease NX, or EXPIRE key lease.
Hold(s) == holder' = s /\ ttl' = Lease

\* clearRefreshTimer
ClearTimer(s) == /\ timer' = [timer EXCEPT ![s] = FALSE]
                 /\ left' = [left EXCEPT ![s] = 0]

\* isLeader() returns; "error" is a false from a catch block.
Return(c, a) == /\ pc' = [pc EXCEPT ![c] = "idle"]
                /\ answer' = [answer EXCEPT ![c] = a]
                /\ Restamp(c)

Proceed(c, s) == /\ pc' = [pc EXCEPT ![c] = s]
                 /\ UNCHANGED answer

-----------------------------------------------------------------------------
(* isLeader and electSelf. *)

StartCall(c) ==
  /\ pc[c] = "idle"
  /\ pc' = [pc EXCEPT ![c] = "get"]
  /\ answer' = [answer EXCEPT ![c] = "none"]
  /\ Restamp(c)
  /\ UNCHANGED <<redis, servers, renewals>>

ExecuteGet(c) ==
  /\ pc[c] = "get"
  /\ Proceed(c, IF holder = HomeOf[c] THEN "self"
                ELSE IF holder = None THEN "free" ELSE "other")
  /\ UNCHANGED <<redis, servers, renewals, age>>

\* Mutant: the holder of the key is the leader, whether it renews or not.
ReceiveGetTrusting(c) ==
  /\ \/ pc[c] = "self" /\ Return(c, "yes")
     \/ pc[c] = "other" /\ Return(c, "no")
     \/ pc[c] = "free" /\ Proceed(c, "delay") /\ Restamp(c)
  /\ UNCHANGED <<redis, servers, renewals>>

\* The holder is the leader as long as its timer runs; a free key is tried
\* for after a random delay.
ReceiveGet(c) ==
  /\ \/ /\ pc[c] = "self"
        /\ Return(c, IF timer[HomeOf[c]] THEN "yes" ELSE "no")
     \/ /\ pc[c] = "other"
        /\ Return(c, "no")
     \/ /\ pc[c] = "free"
        /\ Proceed(c, "delay")
        /\ Restamp(c)
  /\ UNCHANGED <<redis, servers, renewals>>

SendSet(c) ==
  /\ pc[c] = "delay"
  /\ Proceed(c, "set")
  /\ Restamp(c)
  /\ UNCHANGED <<redis, servers, renewals>>

ExecuteSet(c) ==
  /\ pc[c] = "set"
  /\ \/ holder = None /\ Hold(HomeOf[c]) /\ Proceed(c, "won")
     \/ holder # None /\ Proceed(c, "lost") /\ UNCHANGED redis
  /\ UNCHANGED <<servers, renewals, age>>

\* The winner replaces its refresh timer.
ReceiveSet(c) ==
  /\ \/ /\ pc[c] = "won"
        /\ timer' = [timer EXCEPT ![HomeOf[c]] = TRUE]
        /\ left' = [left EXCEPT ![HomeOf[c]] = Interval]
        /\ Return(c, "yes")
     \/ /\ pc[c] = "lost"
        /\ Return(c, "no")
        /\ UNCHANGED <<timer, left>>
  /\ UNCHANGED <<redis, mode, renewals>>

CallFails(c) ==
  /\ pc[c] \in CallPending
  /\ Return(c, "error")
  /\ UNCHANGED <<redis, servers, renewals>>

-----------------------------------------------------------------------------
(* renewLeadership. *)

\* The interval timer fires, whether or not the last renewal is over.
Fire(s, r) ==
  /\ timer[s] /\ left[s] = 0
  /\ renewal[r] = "idle" /\ HomeOf[r] = s
  /\ left' = [left EXCEPT ![s] = Interval]
  /\ renewal' = [renewal EXCEPT ![r] = "sent"]
  /\ tries' = [tries EXCEPT ![r] = 1]
  /\ Restamp(r)
  /\ UNCHANGED <<redis, mode, timer, calls>>

ExecuteRenew(r) ==
  /\ renewal[r] = "sent"
  /\ \/ /\ holder = HomeOf[r]
        /\ Hold(HomeOf[r])
        /\ renewal' = [renewal EXCEPT ![r] = "kept"]
     \/ /\ holder # HomeOf[r]
        /\ renewal' = [renewal EXCEPT ![r] = "refused"]
        /\ UNCHANGED redis
  /\ UNCHANGED <<servers, calls, tries, age>>

EndRenewal(r) == /\ renewal' = [renewal EXCEPT ![r] = "idle"]
                 /\ tries' = [tries EXCEPT ![r] = 0]
                 /\ Restamp(r)

\* Mutant: a renewal goes on for as long as it succeeds, timer or not.
ReceiveRenewAndRepeat(r) ==
  /\ \/ /\ renewal[r] = "kept"
        /\ renewal' = [renewal EXCEPT ![r] = "wait"]
        /\ tries' = [tries EXCEPT ![r] = 0]
        /\ Restamp(r)
        /\ UNCHANGED <<timer, left>>
     \/ /\ renewal[r] = "refused"
        /\ ClearTimer(HomeOf[r])
        /\ EndRenewal(r)
  /\ UNCHANGED <<redis, mode, calls>>

ReceiveRenew(r) ==
  /\ \/ renewal[r] = "kept" /\ UNCHANGED <<timer, left>>
     \/ renewal[r] = "refused" /\ ClearTimer(HomeOf[r])
  /\ EndRenewal(r)
  /\ UNCHANGED <<redis, mode, calls>>

\* Mutant: off by one, an attempt more than there are.
MayRetryOnceMore(r) == tries[r] <= MaxRetries + 1

MayRetry(r) == tries[r] <= MaxRetries

\* The command failed: wait for another attempt, or give the leadership up.
RenewFails(r) ==
  /\ renewal[r] \in RenewalPending
  /\ \/ /\ MayRetry(r)
        /\ renewal' = [renewal EXCEPT ![r] = "wait"]
        /\ Restamp(r)
        /\ UNCHANGED <<timer, left, tries>>
     \/ /\ ~MayRetry(r)
        /\ ClearTimer(HomeOf[r])
        /\ EndRenewal(r)
  /\ UNCHANGED <<redis, mode, calls>>

Retry(r) ==
  /\ renewal[r] = "wait"
  /\ age[r] = RetryDelay
  /\ renewal' = [renewal EXCEPT ![r] = "sent"]
  /\ tries' = [tries EXCEPT ![r] = @ + 1]
  /\ Restamp(r)
  /\ UNCHANGED <<redis, servers, calls>>

-----------------------------------------------------------------------------
(* Shutdown, crash, time. *)

\* SIGTERM or SIGINT, and the other one when the first is dealt with.
Resign(s) ==
  /\ mode[s] = "up" \/ (ResignAgain /\ mode[s] = "resigned")
  /\ mode' = [mode EXCEPT ![s] = "resigning"]
  /\ ClearTimer(s)
  /\ UNCHANGED <<redis, calls, renewals, age>>

ExecuteResign(s) ==
  /\ mode[s] = "resigning"
  /\ mode' = [mode EXCEPT ![s] = "resigned"]
  /\ IF holder = s THEN holder' = None /\ ttl' = 0 ELSE UNCHANGED redis
  /\ UNCHANGED <<timer, left, calls, renewals, age>>

ResignFails(s) ==
  /\ mode[s] = "resigning"
  /\ mode' = [mode EXCEPT ![s] = "resigned"]
  /\ UNCHANGED <<redis, timer, left, calls, renewals, age>>

\* A command of a process that died is executed after all.
LateCommand(s) ==
  \/ /\ \E c \in Call : HomeOf[c] = s /\ pc[c] = "set"
     /\ holder = None
     /\ Hold(Ghost)
  \/ /\ \E r \in Renewal : HomeOf[r] = s /\ renewal[r] = "sent"
     /\ holder = s
     /\ Hold(Ghost)
  \/ /\ mode[s] = "resigning"
     /\ holder = s
     /\ holder' = None /\ ttl' = 0

\* The process ends and another, with a UUID of its own, takes its place.
Crash(s) ==
  /\ \/ holder' = (IF holder = s THEN Ghost ELSE holder) /\ UNCHANGED ttl
     \/ LateCommand(s)
  /\ mode' = [mode EXCEPT ![s] = "up"]
  /\ ClearTimer(s)
  /\ pc' = [c \in Call |-> IF HomeOf[c] = s THEN "idle" ELSE pc[c]]
  /\ answer' = [c \in Call |-> IF HomeOf[c] = s THEN "none" ELSE answer[c]]
  /\ renewal' = [r \in Renewal |-> IF HomeOf[r] = s THEN "idle" ELSE renewal[r]]
  /\ tries' = [r \in Renewal |-> IF HomeOf[r] = s THEN 0 ELSE tries[r]]
  /\ age' = [p \in Call \cup Renewal |-> IF HomeOf[p] = s THEN 0 ELSE age[p]]

\* What takes time: a command, the wait before a retry.
Timed(p) == \/ p \in Call /\ pc[p] \in CallPending
            \/ p \in Renewal /\ renewal[p] # "idle"

\* Nothing is overdue: no timer, no command, no retry.
Punctual ==
  /\ \A s \in Server : timer[s] => left[s] > 0
  /\ \A c \in Call : pc[c] \in CallPending => age[c] < MaxDelay
  /\ \A r \in Renewal : renewal[r] \in RenewalPending => age[r] < MaxDelay
  /\ \A r \in Renewal : renewal[r] = "wait" => age[r] < RetryDelay

Tick ==
  /\ Punctual
  /\ ttl' = IF holder = None THEN 0 ELSE ttl - 1
  /\ holder' = IF ttl' = 0 THEN None ELSE holder
  /\ left' = [s \in Server |-> IF timer[s] THEN left[s] - 1 ELSE left[s]]
  /\ age' = [p \in Call \cup Renewal |-> IF Timed(p) THEN age[p] + 1 ELSE age[p]]
  /\ UNCHANGED <<mode, timer, calls, renewals>>

-----------------------------------------------------------------------------
IsLeader(c) == \/ ExecuteGet(c) \/ ReceiveGet(c) \/ SendSet(c)
               \/ ExecuteSet(c) \/ ReceiveSet(c) \/ CallFails(c)

RenewLeadership(r) == \/ ExecuteRenew(r) \/ ReceiveRenew(r)
                      \/ RenewFails(r) \/ Retry(r)

Shutdown(s) == Resign(s) \/ ExecuteResign(s) \/ ResignFails(s) \/ Crash(s)

Next == \/ \E c \in Call : StartCall(c) \/ IsLeader(c)
        \/ \E r \in Renewal : RenewLeadership(r) \/ Fire(HomeOf[r], r)
        \/ \E s \in Server : Shutdown(s)
        \/ Tick

Spec == Init /\ [][Next]_vars

\* Time goes on, and what has begun is answered or fails.
FairSpec == /\ Spec
            /\ SF_vars(Tick)
            /\ \A r \in Renewal : /\ WF_vars(RenewLeadership(r))
                                  /\ WF_vars(Fire(HomeOf[r], r))
            /\ \A c \in Call : WF_vars(IsLeader(c))

-----------------------------------------------------------------------------
(* Properties. *)

\* A server that believes itself the leader holds the key, whatever renewals
\* failed or were lost, until it is told to shut down.  Keys have one holder,
\* so no two servers believe it at once.
LeaderHoldsKey ==
  \A s \in Server : timer[s] /\ mode[s] = "up" => holder = s

\* isLeader() never says yes of a server that has lost the key, although the
\* reply it relies on is as old as the network makes it.
YesIsCurrent ==
  [][\A c \in Call :
       answer'[c] = "yes" /\ answer[c] # "yes" /\ mode[HomeOf[c]] = "up"
         => holder = HomeOf[c]]_vars

\* A server that is gone, or has stopped renewing, does not keep the key from
\* the others, whatever renewals of an earlier term are still under way.
IdleKeyExpires ==
  /\ holder = Ghost ~> holder # Ghost
  /\ \A s \in Server : holder = s /\ ~timer[s] ~> holder # s \/ timer[s]
=============================================================================
