----------------------------- MODULE ReplicaProofs -----------------------------
(***************************************************************************)
(* Proofs about work that every replica would do and one is to do:         *)
(* DistributedLock and JobScheduler, for any set of replicas and jobs; and *)
(* the payouts of RevenueShare, for any number of concurrent submissions   *)
(* and operators.                                                          *)
(***************************************************************************)
EXTENDS JobScheduler, RevenueShare, TLAPS

-----------------------------------------------------------------------------
(* Leases and scheduled jobs *)

\* A call that has been granted a lease and has not yet released it.
InLock(w) == pc[w] \in {"granted", "running", "checking", "confirmed", "failed"}

\* The key holds the latest number issued, and no two calls hold the same one.
LockInv ==
    /\ TypeOK
    /\ owner # NoToken => owner = fence
    /\ \A w \in Workers : token[w] <= fence
    /\ \A v, w \in Workers : v # w /\ token[v] # NoToken => token[v] # token[w]
    /\ \A w \in Workers : InLock(w) => token[w] # NoToken
    /\ \A w \in Workers : renewal[w] # "none" => InLock(w) /\ pc[w] # "granted"

\* The period of the heartbeat is a natural number.
LEMMA RenewIntervalType == RenewInterval \in Nat \ {0}
  BY TTLAssumption DEF RenewInterval

\* The initial state satisfies the inductive invariant.
LEMMA LockInvInit == Init => LockInv
  BY TTLAssumption DEF Init, LockInv, TypeOK, InLock, NoToken, PCs

\* Every step of a call, of the environment and of time preserves LockInv.
LEMMA LockInvNext == LockInv /\ [LockNext]_lockVars => LockInv'
<1> SUFFICES ASSUME LockInv, [LockNext]_lockVars PROVE LockInv'
  OBVIOUS
<1> USE TTLAssumption, MaxFenceAssumption DEF LockInv, TypeOK, InLock, NoToken, PCs
<1>1. ASSUME NEW w \in Workers, Call(w) PROVE LockInv'
  BY <1>1 DEF Call, redisVars, envVars
<1>2. ASSUME NEW w \in Workers, Acquire(w) PROVE LockInv'
  BY <1>2 DEF Acquire
<1>3. ASSUME NEW w \in Workers, AcquireHeld(w) PROVE LockInv'
  BY <1>3 DEF AcquireHeld, Return, redisVars, envVars
<1>4. ASSUME NEW w \in Workers, AcquireError(w) PROVE LockInv'
  BY <1>4 DEF AcquireError, Return, redisVars, envVars
<1>5. ASSUME NEW w \in Workers, Start(w) PROVE LockInv'
  BY <1>5 DEF Start, redisVars, envVars
<1>6. ASSUME NEW w \in Workers, Heartbeat(w) PROVE LockInv'
  BY <1>6 DEF Heartbeat, Beating, redisVars, envVars
<1>7. ASSUME NEW w \in Workers, Renew(w) PROVE LockInv'
  BY <1>7 DEF Renew
<1>8. ASSUME NEW w \in Workers, RenewError(w) PROVE LockInv'
  BY <1>8 DEF RenewError, redisVars, envVars
<1>9. ASSUME NEW w \in Workers, RenewReply(w) PROVE LockInv'
  BY <1>9 DEF RenewReply, redisVars, envVars
<1>10. ASSUME NEW w \in Workers, FnReturns(w) PROVE LockInv'
  BY <1>10 DEF FnReturns, redisVars, envVars
<1>11. ASSUME NEW w \in Workers, FnThrows(w) PROVE LockInv'
  BY <1>11 DEF FnThrows, redisVars, envVars
<1>12. ASSUME NEW w \in Workers, Check(w) PROVE LockInv'
  BY <1>12 DEF Check, redisVars, envVars
<1>13. ASSUME NEW w \in Workers, CheckError(w) PROVE LockInv'
  BY <1>13 DEF CheckError, redisVars, envVars
<1>14. ASSUME NEW w \in Workers, Release(w) PROVE LockInv'
  BY <1>14 DEF Release, Return
<1>15. ASSUME NEW w \in Workers, ReleaseError(w) PROVE LockInv'
  BY <1>15 DEF ReleaseError, Return, redisVars, envVars
<1>16. ASSUME NEW W \in SUBSET Workers, Crash(W) PROVE LockInv'
  BY <1>16 DEF Crash, redisVars, envVars
<1>17. ASSUME NEW W \in SUBSET Workers, Restart(W) PROVE LockInv'
  BY <1>17 DEF Restart, redisVars, envVars
<1>18. CASE Tick
  BY <1>18, RenewIntervalType DEF Tick
<1>19. CASE UNCHANGED lockVars
  BY <1>19 DEF lockVars
<1> QED
  BY <1>1, <1>2, <1>3, <1>4, <1>5, <1>6, <1>7, <1>8, <1>9, <1>10, <1>11, <1>12,
     <1>13, <1>14, <1>15, <1>16, <1>17, <1>18, <1>19, Zenon DEF LockNext, WorkerStep

\* LockInv holds in every reachable state.
THEOREM LockInvariance == LockSpec => []LockInv
  BY LockInvInit, LockInvNext, PTL DEF LockSpec

\* Type correctness of the lease state.
THEOREM TypeCorrect == LockSpec => []TypeOK
<1>1. LockInv => TypeOK
  BY DEF LockInv
<1> QED
  BY <1>1, LockInvariance, PTL

\* The lease holder's fencing number is the largest in use, whatever stalls,
\* fails or crashes.
THEOREM FencingHolds == LockSpec => []Fencing
<1>1. LockInv => Fencing
  BY DEF LockInv, TypeOK, Fencing, Holds, NoToken
<1> QED
  BY <1>1, LockInvariance, PTL

\* One step never ends or lengthens a lease on behalf of a stale worker.
LEMMA LeaseStepNext == LockInv /\ [LockNext]_lockVars => LeaseStep
<1> SUFFICES ASSUME LockInv, [LockNext]_lockVars PROVE LeaseStep
  OBVIOUS
<1> USE TTLAssumption, MaxFenceAssumption
        DEF LockInv, TypeOK, InLock, NoToken, PCs, LeaseStep, Holds
<1>1. ASSUME NEW w \in Workers, Call(w) PROVE LeaseStep
  BY <1>1 DEF Call, redisVars, envVars
<1>2. ASSUME NEW w \in Workers, Acquire(w) PROVE LeaseStep
  BY <1>2 DEF Acquire
<1>3. ASSUME NEW w \in Workers, AcquireHeld(w) PROVE LeaseStep
  BY <1>3 DEF AcquireHeld, Return, redisVars, envVars
<1>4. ASSUME NEW w \in Workers, AcquireError(w) PROVE LeaseStep
  BY <1>4 DEF AcquireError, Return, redisVars, envVars
<1>5. ASSUME NEW w \in Workers, Start(w) PROVE LeaseStep
  BY <1>5 DEF Start, redisVars, envVars
<1>6. ASSUME NEW w \in Workers, Heartbeat(w) PROVE LeaseStep
  BY <1>6 DEF Heartbeat, redisVars, envVars
<1>7. ASSUME NEW w \in Workers, Renew(w) PROVE LeaseStep
  BY <1>7 DEF Renew
<1>8. ASSUME NEW w \in Workers, RenewError(w) PROVE LeaseStep
  BY <1>8 DEF RenewError, redisVars, envVars
<1>9. ASSUME NEW w \in Workers, RenewReply(w) PROVE LeaseStep
  BY <1>9 DEF RenewReply, redisVars, envVars
<1>10. ASSUME NEW w \in Workers, FnReturns(w) PROVE LeaseStep
  BY <1>10 DEF FnReturns, redisVars, envVars
<1>11. ASSUME NEW w \in Workers, FnThrows(w) PROVE LeaseStep
  BY <1>11 DEF FnThrows, redisVars, envVars
<1>12. ASSUME NEW w \in Workers, Check(w) PROVE LeaseStep
  BY <1>12 DEF Check, redisVars, envVars
<1>13. ASSUME NEW w \in Workers, CheckError(w) PROVE LeaseStep
  BY <1>13 DEF CheckError, redisVars, envVars
<1>14. ASSUME NEW w \in Workers, Release(w) PROVE LeaseStep
  BY <1>14 DEF Release, Return
<1>15. ASSUME NEW w \in Workers, ReleaseError(w) PROVE LeaseStep
  BY <1>15 DEF ReleaseError, Return, redisVars, envVars
<1>16. ASSUME NEW W \in SUBSET Workers, Crash(W) PROVE LeaseStep
  BY <1>16 DEF Crash, redisVars, envVars
<1>17. ASSUME NEW W \in SUBSET Workers, Restart(W) PROVE LeaseStep
  BY <1>17 DEF Restart, redisVars, envVars
<1>18. CASE Tick
  BY <1>18 DEF Tick
<1>19. CASE UNCHANGED lockVars
  BY <1>19 DEF lockVars
<1> QED
  BY <1>1, <1>2, <1>3, <1>4, <1>5, <1>6, <1>7, <1>8, <1>9, <1>10,
     <1>11, <1>12, <1>13, <1>14, <1>15, <1>16, <1>17, <1>18, <1>19, Zenon DEF LockNext, WorkerStep

\* A stale worker never deletes or extends another worker's lease.
THEOREM OwnerOnly == LockSpec => OnlyOwnerTouchesLease
  BY LeaseStepNext, LockInvariance, PTL DEF LockSpec, OnlyOwnerTouchesLease

\* One step to "confirmed" is a final check that found the key unchanged, and the
\* key's token is the latest fencing number.
LEMMA RanStepNext == LockInv /\ [LockNext]_lockVars => RanStep
<1> SUFFICES ASSUME LockInv, [LockNext]_lockVars PROVE RanStep
  OBVIOUS
<1> USE DEF LockInv, TypeOK, InLock, NoToken, PCs, RanStep
<1>1. ASSUME NEW w \in Workers, Call(w) PROVE RanStep
  BY <1>1 DEF Call, redisVars, envVars
<1>2. ASSUME NEW w \in Workers, Acquire(w) PROVE RanStep
  BY <1>2 DEF Acquire
<1>3. ASSUME NEW w \in Workers, AcquireHeld(w) PROVE RanStep
  BY <1>3 DEF AcquireHeld, Return, redisVars, envVars
<1>4. ASSUME NEW w \in Workers, AcquireError(w) PROVE RanStep
  BY <1>4 DEF AcquireError, Return, redisVars, envVars
<1>5. ASSUME NEW w \in Workers, Start(w) PROVE RanStep
  BY <1>5 DEF Start, redisVars, envVars
<1>6. ASSUME NEW w \in Workers, Heartbeat(w) PROVE RanStep
  BY <1>6 DEF Heartbeat, redisVars, envVars
<1>7. ASSUME NEW w \in Workers, Renew(w) PROVE RanStep
  BY <1>7 DEF Renew
<1>8. ASSUME NEW w \in Workers, RenewError(w) PROVE RanStep
  BY <1>8 DEF RenewError, redisVars, envVars
<1>9. ASSUME NEW w \in Workers, RenewReply(w) PROVE RanStep
  BY <1>9 DEF RenewReply, redisVars, envVars
<1>10. ASSUME NEW w \in Workers, FnReturns(w) PROVE RanStep
  BY <1>10 DEF FnReturns, redisVars, envVars
<1>11. ASSUME NEW w \in Workers, FnThrows(w) PROVE RanStep
  BY <1>11 DEF FnThrows, redisVars, envVars
<1>12. ASSUME NEW w \in Workers, Check(w) PROVE RanStep
  BY <1>12 DEF Check, redisVars, envVars
<1>13. ASSUME NEW w \in Workers, CheckError(w) PROVE RanStep
  BY <1>13 DEF CheckError, redisVars, envVars
<1>14. ASSUME NEW w \in Workers, Release(w) PROVE RanStep
  BY <1>14 DEF Release, Return
<1>15. ASSUME NEW w \in Workers, ReleaseError(w) PROVE RanStep
  BY <1>15 DEF ReleaseError, Return, redisVars, envVars
<1>16. ASSUME NEW W \in SUBSET Workers, Crash(W) PROVE RanStep
  BY <1>16 DEF Crash, redisVars, envVars
<1>17. ASSUME NEW W \in SUBSET Workers, Restart(W) PROVE RanStep
  BY <1>17 DEF Restart, redisVars, envVars
<1>18. CASE Tick
  BY <1>18 DEF Tick, OnTime
<1>19. CASE UNCHANGED lockVars
  BY <1>19 DEF lockVars
<1> QED
  BY <1>1, <1>2, <1>3, <1>4, <1>5, <1>6, <1>7, <1>8, <1>9, <1>10,
     <1>11, <1>12, <1>13, <1>14, <1>15, <1>16, <1>17, <1>18, <1>19 DEF LockNext, WorkerStep

\* { ran: true } is only ever answered to a call whose lease was not interrupted.
THEOREM RanUninterrupted == LockSpec => RanMeansUninterrupted
  BY RanStepNext, LockInvariance, PTL DEF LockSpec, RanMeansUninterrupted

-----------------------------------------------------------------------------
(* Exclusion of a timely system *)

\* A live holder still owns the key, with enough TTL left to reach its next
\* renewal.
LeaseInv ==
    weather = "calm" => \A w \in Workers :
        /\ pc[w] = "granted" =>
              /\ owner = token[w]
              /\ ~leaseLost[w]
              /\ hbAge[w] <= Latency
              /\ ttl + hbAge[w] >= TTL
        /\ Beating(w) =>
              /\ owner = token[w]
              /\ ~leaseLost[w]
              /\ hbAge[w] <= RenewInterval
              /\ renewal[w] # "fail"
              /\ renewal[w] # "none" => hbAge[w] <= Latency
              /\ renewal[w] # "sent" => ttl + hbAge[w] + Latency >= TTL
              /\ renewal[w] = "sent" =>
                    ttl + hbAge[w] + Latency + RenewInterval >= TTL

\* LeaseInv holds before the first acquisition.
LEMMA LeaseInvInit == Init => LeaseInv
  BY ZenonT(30) DEF Init, LeaseInv, Beating

\* Every step preserves LeaseInv when the TTL is timely.
LEMMA LeaseInvNext ==
    Timely /\ LockInv /\ LeaseInv /\ [LockNext]_lockVars => LeaseInv'
<1> SUFFICES ASSUME Timely, LockInv, LeaseInv, [LockNext]_lockVars PROVE LeaseInv'
  OBVIOUS
<1> USE TTLAssumption, LatencyAssumption, MaxFenceAssumption, RenewIntervalType
        DEF Timely, LockInv, TypeOK, InLock, NoToken, PCs, LeaseInv, Beating
<1>1. ASSUME NEW w \in Workers, Call(w) PROVE LeaseInv'
  BY <1>1 DEF Call, redisVars, envVars
<1>2. ASSUME NEW w \in Workers, Acquire(w) PROVE LeaseInv'
  BY <1>2 DEF Acquire
<1>3. ASSUME NEW w \in Workers, AcquireHeld(w) PROVE LeaseInv'
  BY <1>3 DEF AcquireHeld, Return, redisVars, envVars
<1>4. ASSUME NEW w \in Workers, AcquireError(w) PROVE LeaseInv'
  BY <1>4 DEF AcquireError, Return, redisVars, envVars
<1>5. ASSUME NEW w \in Workers, Start(w) PROVE LeaseInv'
  BY <1>5 DEF Start, redisVars, envVars
<1>6. ASSUME NEW w \in Workers, Heartbeat(w) PROVE LeaseInv'
  BY <1>6 DEF Heartbeat, redisVars, envVars
<1>7. ASSUME NEW w \in Workers, Renew(w) PROVE LeaseInv'
  BY <1>7 DEF Renew
<1>8. ASSUME NEW w \in Workers, RenewError(w) PROVE LeaseInv'
  BY <1>8 DEF RenewError, redisVars, envVars
<1>9. ASSUME NEW w \in Workers, RenewReply(w) PROVE LeaseInv'
  BY <1>9 DEF RenewReply, redisVars, envVars
<1>10. ASSUME NEW w \in Workers, FnReturns(w) PROVE LeaseInv'
  BY <1>10 DEF FnReturns, redisVars, envVars
<1>11. ASSUME NEW w \in Workers, FnThrows(w) PROVE LeaseInv'
  BY <1>11 DEF FnThrows, redisVars, envVars
<1>12. ASSUME NEW w \in Workers, Check(w) PROVE LeaseInv'
  BY <1>12 DEF Check, redisVars, envVars
<1>13. ASSUME NEW w \in Workers, CheckError(w) PROVE LeaseInv'
  BY <1>13 DEF CheckError, redisVars, envVars
<1>14. ASSUME NEW w \in Workers, Release(w) PROVE LeaseInv'
  BY <1>14 DEF Release, Return
<1>15. ASSUME NEW w \in Workers, ReleaseError(w) PROVE LeaseInv'
  BY <1>15 DEF ReleaseError, Return, redisVars, envVars
<1>16. ASSUME NEW W \in SUBSET Workers, Crash(W) PROVE LeaseInv'
  BY <1>16 DEF Crash, redisVars, envVars
<1>17. ASSUME NEW W \in SUBSET Workers, Restart(W) PROVE LeaseInv'
  BY <1>17 DEF Restart, redisVars, envVars
<1>18. CASE Tick
  BY <1>18 DEF Tick, OnTime
<1>19. CASE UNCHANGED lockVars
  BY <1>19 DEF lockVars
<1> QED
  BY <1>1, <1>2, <1>3, <1>4, <1>5, <1>6, <1>7, <1>8, <1>9, <1>10,
     <1>11, <1>12, <1>13, <1>14, <1>15, <1>16, <1>17, <1>18, <1>19, Zenon DEF LockNext, WorkerStep

\* As long as the run is calm two calls are never inside fn at once: for every
\* number of workers, every TTL, and every latency with 2 * Latency + TTL/3 < TTL.
THEOREM TimelyExclusion == LockSpec => []Exclusion
<1>1. CASE ~Timely
  <2>1. Exclusion
    BY <1>1 DEF Exclusion
  <2> QED
    BY <2>1, PTL
<1>2. CASE Timely
  <2>1. LockInv /\ LeaseInv => Exclusion
    BY DEF LockInv, TypeOK, InLock, LeaseInv, Beating, Exclusion
  <2>2. LockInv /\ LeaseInv /\ [LockNext]_lockVars => LeaseInv'
    BY <1>2, LeaseInvNext
  <2> QED
    BY <2>1, <2>2, LeaseInvInit, LockInvariance, PTL DEF LockSpec
<1> QED
  BY <1>1, <1>2

-----------------------------------------------------------------------------
(* The scheduler *)

\* A chain has at most one carrier, and none before its tick or after its outcome.
CarrierInv ==
    /\ \A w \in Workers : pc[w] \notin {"idle", "down"} => chain[w] \in Chains
    /\ \A v, w \in Workers :
          Pending(v) /\ Pending(w) /\ chain[v] = chain[w] => v = w
    /\ \A w \in Workers, t \in timers : Pending(w) => chain[w] # t.chain
    /\ \A s, t \in timers : s.chain = t.chain => s = t
    /\ \A t \in timers : outcome[t.chain] = "undefined"
    /\ \A w \in Workers : Pending(w) => outcome[chain[w]] = "undefined"

\* The carrier knows how many attempts have run.
CountInv ==
    /\ \A c \in Chains : outcome[c] = "new" => execs[c] = 0
    /\ \A c \in Chains : execs[c] <= MaxRetries
    /\ \A w \in Workers : pc[w] \in {"acquiring", "granted"} =>
          attempt[w] = execs[chain[w]] + 1 /\ attempt[w] <= MaxRetries
    /\ \A w \in Workers : pc[w] = "running" => attempt[w] = execs[chain[w]]
    /\ \A t \in timers : t.attempt = execs[t.chain] + 1 /\ t.attempt <= MaxRetries

\* The inductive invariant of the scheduler.
JobInv == JobTypeOK /\ CarrierInv /\ CountInv

-----------------------------------------------------------------------------
(* Every scheduler step is a lock step *)

\* Every step of the scheduler is a step of the lock or leaves it alone.
LEMMA JobStepIsLockStep == [JobNext]_vars => [LockNext]_lockVars
<1> SUFFICES ASSUME [JobNext]_vars PROVE [LockNext]_lockVars
  OBVIOUS
<1>1. ASSUME NEW w \in Workers, NEW c \in Chains, CronTick(w, c) \/ TriggerNow(w, c)
      PROVE LockNext
  BY <1>1 DEF CronTick, TriggerNow, BeginChain, LockNext
<1>2. ASSUME NEW w \in Workers, NEW t \in timers, RetryTimer(w, t) PROVE LockNext
  BY <1>2 DEF RetryTimer, LockNext
<1>3. ASSUME NEW w \in Workers,
             BeginAttempt(w) \/ HandlerSucceeds(w) \/ HandlerFails(w)
               \/ HandlerFailsPermanently(w) \/ InsideLock(w)
      PROVE LockNext
  BY <1>3, Zenon DEF BeginAttempt, HandlerSucceeds, HandlerFails, HandlerFailsPermanently,
              InsideLock, LockNext, WorkerStep
<1>4. ASSUME NEW r \in Replicas, Pause(r) \/ Resume(r) PROVE UNCHANGED lockVars
  BY <1>4 DEF Pause, Resume
<1>5. ASSUME NEW r \in Replicas, ReplicaStops(r) \/ ReplicaStarts(r) PROVE LockNext
  <2>1. WorkersOf(r) \in SUBSET Workers
    BY DEF WorkersOf
  <2> QED
    BY <1>5, <2>1 DEF ReplicaStops, ReplicaStarts, LockNext
<1>6. CASE Tick /\ UNCHANGED jobVars
  BY <1>6 DEF LockNext
<1>7. CASE UNCHANGED vars
  BY <1>7 DEF vars, lockVars
<1> QED
  BY <1>1, <1>2, <1>3, <1>4, <1>5, <1>6, <1>7 DEF JobNext

\* The scheduler implements the lock: handlers start on a granted lease only.
THEOREM SchedulerImplementsLock == JobSpec => ImplementsLock
<1>1. JobInit => Init
  BY DEF JobInit
<1> QED
  BY <1>1, JobStepIsLockStep, PTL DEF JobSpec, ImplementsLock, LockSpec

\* As long as the run is calm the job's handler runs once at a time, whether the
\* runs are on one replica (a cron tick, triggerNow, a retry) or on several.
THEOREM TimelyOneInstance == JobSpec => []OneInstanceExecutes
<1>1. Exclusion => OneInstanceExecutes
  BY DEF Exclusion, OneInstanceExecutes
<1> QED
  BY <1>1, TimelyExclusion, SchedulerImplementsLock, PTL DEF ImplementsLock

-----------------------------------------------------------------------------
(* A chain has one carrier *)

\* What withLock does between calls of execute: no invocation becomes pending,
\* none starts its handler, and the job of a pending invocation stays.
LEMMA InsideLockFrame ==
    ASSUME JobTypeOK, NEW w \in Workers, InsideLock(w)
    PROVE  /\ pc' \in [Workers -> PCs]
           /\ chain' \in [Workers -> Chains \cup {NoChain}]
           /\ attempt' \in [Workers -> Nat]
           /\ \A v \in Workers :
                 /\ pc'[v] # "idle" => chain'[v] = chain[v] /\ attempt'[v] = attempt[v]
                 /\ pc'[v] \notin {"idle", "down"} => pc[v] \notin {"idle", "down"}
                 /\ pc'[v] \in {"acquiring", "granted"} => pc[v] \in {"acquiring", "granted"}
                 /\ pc'[v] = "running" => pc[v] = "running"
<1> USE DEF JobTypeOK, TypeOK, PCs
<1>1. CASE AcquireHeld(w) \/ AcquireError(w) \/ Release(w) \/ ReleaseError(w)
  BY <1>1, SMTT(30) DEF InsideLock, AcquireHeld, AcquireError, Release, ReleaseError, Return
<1>2. CASE Acquire(w) \/ Check(w) \/ CheckError(w)
  BY <1>2, ZenonT(30) DEF InsideLock, Acquire, Check, CheckError
<1>3. CASE Heartbeat(w) \/ Renew(w) \/ RenewError(w) \/ RenewReply(w)
  BY <1>3 DEF InsideLock, Heartbeat, Renew, RenewError, RenewReply
<1> QED
  BY <1>1, <1>2, <1>3, ZenonT(30) DEF InsideLock

\* When a handler finishes, its invocation stops being pending and no other one
\* changes.
LEMMA FnReturnsFrame ==
    ASSUME JobTypeOK, NEW w \in Workers, FnReturns(w)
    PROVE  /\ pc[w] = "running"
           /\ pc'[w] \in {"failed", "checking"}
           /\ \A v \in Workers : v # w => pc'[v] = pc[v]
  BY SMTT(30) DEF FnReturns, JobTypeOK, TypeOK

\* A step that starts no invocation and no handler: invocations only come to an
\* end, and timers are only dropped.
Winding ==
    /\ UNCHANGED <<execs, last, outcome>>
    /\ timers' \subseteq timers
    /\ paused' \subseteq Replicas
    /\ chain' \in [Workers -> Chains \cup {NoChain}]
    /\ attempt' \in [Workers -> Nat]
    /\ \A v \in Workers :
          /\ pc'[v] \notin {"idle", "down"} =>
                /\ pc[v] \notin {"idle", "down"}
                /\ chain'[v] = chain[v]
                /\ attempt'[v] = attempt[v]
          /\ pc'[v] \in {"acquiring", "granted"} => pc[v] \in {"acquiring", "granted"}
          /\ pc'[v] = "running" => pc[v] = "running"

\* Such a step keeps the invariant.
LEMMA QuietStep == ASSUME JobInv, TypeOK', Winding PROVE JobInv'
<1>1. JobTypeOK /\ CarrierInv /\ CountInv
  BY ZenonT(30) DEF JobInv
<1>2. /\ UNCHANGED <<execs, last, outcome>>
      /\ timers' \subseteq timers
      /\ paused' \subseteq Replicas
      /\ chain' \in [Workers -> Chains \cup {NoChain}]
      /\ attempt' \in [Workers -> Nat]
  BY DEF Winding
<1>3. \A v \in Workers :
         /\ pc'[v] \notin {"idle", "down"} =>
               /\ pc[v] \notin {"idle", "down"}
               /\ chain'[v] = chain[v]
               /\ attempt'[v] = attempt[v]
         /\ pc'[v] \in {"acquiring", "granted"} => pc[v] \in {"acquiring", "granted"}
         /\ pc'[v] = "running" => pc[v] = "running"
  BY DEF Winding
<1>4. JobTypeOK'
  BY <1>1, <1>2, ZenonT(30) DEF JobTypeOK
<1>5. CarrierInv'
  <2>1. \A v \in Workers : Pending(v)' => Pending(v) /\ chain'[v] = chain[v]
    BY <1>3 DEF Pending
  <2>2. \A w \in Workers : pc'[w] \notin {"idle", "down"} => chain'[w] \in Chains
    BY <1>1, <1>3 DEF CarrierInv
  <2>3. timers' \subseteq timers /\ outcome' = outcome
    BY <1>2
  <2> QED
    BY <1>1, <2>1, <2>2, <2>3, SMTT(30) DEF CarrierInv
<1>6. CountInv'
  BY <1>1, <1>2, <1>3, SMTT(30) DEF CountInv
<1> QED
  BY <1>4, <1>5, <1>6 DEF JobInv

\* The steps that only wind up: those inside withLock, pausing, stopping and
\* starting a replica, and the clock.
Quiet ==
    \/ \E w \in Workers : InsideLock(w)
    \/ \E r \in Replicas : Pause(r) \/ Resume(r) \/ ReplicaStops(r) \/ ReplicaStarts(r)
    \/ Tick /\ UNCHANGED jobVars
    \/ UNCHANGED vars

\* Each of them is of that kind.
LEMMA QuietWinds == ASSUME JobInv, Quiet PROVE Winding
<1>1. JobTypeOK
  BY DEF JobInv
<1>2. /\ pc \in [Workers -> PCs]
      /\ chain \in [Workers -> Chains \cup {NoChain}]
      /\ attempt \in [Workers -> Nat]
      /\ paused \subseteq Replicas
  BY <1>1 DEF JobTypeOK, TypeOK
<1>3. ASSUME NEW w \in Workers, InsideLock(w) PROVE Winding
  <2>1. UNCHANGED <<timers, execs, last, outcome, paused>>
    BY <1>3 DEF InsideLock
  <2> QED
    BY <1>1, <1>2, <1>3, <2>1, InsideLockFrame, SMTT(30) DEF Winding
<1>4. ASSUME NEW r \in Replicas, Pause(r) \/ Resume(r) PROVE Winding
  BY <1>2, <1>4 DEF Pause, Resume, lockVars, Winding
<1>5. ASSUME NEW r \in Replicas, ReplicaStops(r) PROVE Winding
  <2>1. pc' = [v \in Workers |-> IF Home[v] = r THEN "down" ELSE pc[v]]
    BY <1>2, <1>5 DEF ReplicaStops, Crash, WorkersOf
  <2>2. /\ chain' = [v \in Workers |-> IF Home[v] = r THEN NoChain ELSE chain[v]]
        /\ attempt' = [v \in Workers |-> IF Home[v] = r THEN 0 ELSE attempt[v]]
        /\ timers' \subseteq timers
        /\ UNCHANGED <<execs, last, outcome, paused>>
    BY <1>5 DEF ReplicaStops
  <2> QED
    BY <1>2, <2>1, <2>2, ZenonT(30) DEF Winding
<1>6. ASSUME NEW r \in Replicas, ReplicaStarts(r) PROVE Winding
  <2>1. pc' = [v \in Workers |-> IF Home[v] = r THEN "idle" ELSE pc[v]]
    BY <1>2, <1>6 DEF ReplicaStarts, Restart, WorkersOf
  <2>2. /\ paused' \subseteq paused
        /\ UNCHANGED <<chain, attempt, timers, execs, last, outcome>>
    BY <1>6 DEF ReplicaStarts
  <2> QED
    BY <1>2, <2>1, <2>2, SMTT(30) DEF Winding
<1>7. CASE Tick /\ UNCHANGED jobVars
  BY <1>2, <1>7 DEF Tick, jobVars, Winding
<1>8. CASE UNCHANGED vars
  BY <1>2, <1>8 DEF vars, lockVars, jobVars, Winding
<1> QED
  BY <1>3, <1>4, <1>5, <1>6, <1>7, <1>8, Zenon DEF Quiet

\* The invocation whose handler returns is the only carrier of its chain, and the
\* others stay as they are.
LEMMA LastCarrier ==
    ASSUME JobInv, NEW w \in Workers, FnReturns(w)
    PROVE  /\ chain[w] \in Chains /\ attempt[w] \in Nat
           /\ attempt[w] = execs[chain[w]]
           /\ outcome[chain[w]] = "undefined"
           /\ \A t \in timers : t.chain # chain[w]
           /\ \A v \in Workers : Pending(v) /\ v # w => chain[v] # chain[w]
           /\ \A v \in Workers : Pending(v)' => Pending(v) /\ v # w
           /\ \A v \in Workers : pc'[v] \notin {"idle", "down"} => pc[v] \notin {"idle", "down"}
           /\ \A v \in Workers : pc'[v] \in {"acquiring", "granted"} => pc[v] = pc'[v]
           /\ \A v \in Workers : pc'[v] = "running" => pc[v] = "running"
<1>1. JobTypeOK /\ CarrierInv /\ CountInv
  BY DEF JobInv
<1>2. /\ pc[w] = "running"
      /\ pc'[w] \in {"failed", "checking"}
      /\ \A v \in Workers : v # w => pc'[v] = pc[v]
  BY <1>1, FnReturnsFrame, ZenonT(30)
<1>3. Pending(w) /\ chain[w] \in Chains /\ attempt[w] \in Nat /\ attempt[w] = execs[chain[w]]
  BY <1>1, <1>2, ZenonT(30) DEF JobTypeOK, CarrierInv, CountInv, Pending
<1>4. /\ outcome[chain[w]] = "undefined"
      /\ \A t \in timers : t.chain # chain[w]
      /\ \A v \in Workers : Pending(v) /\ v # w => chain[v] # chain[w]
  BY <1>1, <1>3 DEF CarrierInv
<1>5. \A v \in Workers : Pending(v)' => Pending(v) /\ v # w
  BY <1>2 DEF Pending
<1>6. \A v \in Workers :
         /\ pc'[v] \notin {"idle", "down"} => pc[v] \notin {"idle", "down"}
         /\ pc'[v] \in {"acquiring", "granted"} => pc[v] = pc'[v]
         /\ pc'[v] = "running" => pc[v] = "running"
  BY <1>2
<1> QED
  BY <1>3, <1>4, <1>5, <1>6

\* A handler that returns for good writes its chain's outcome.
LEMMA ChainEnds ==
    ASSUME JobInv, TypeOK', NEW w \in Workers, FnReturns(w),
           NEW s \in Statuses, last' = [last EXCEPT ![chain[w]] = s],
           NEW o \in Outcomes \ {"new"}, outcome' = [outcome EXCEPT ![chain[w]] = o],
           UNCHANGED <<chain, attempt, timers, execs, paused>>
    PROVE  JobInv'
<1>1. JobTypeOK /\ CarrierInv /\ CountInv
  BY ZenonT(30) DEF JobInv
<1>2. /\ chain[w] \in Chains /\ attempt[w] \in Nat
      /\ \A t \in timers : t.chain # chain[w]
      /\ \A v \in Workers : Pending(v) /\ v # w => chain[v] # chain[w]
      /\ \A v \in Workers : Pending(v)' => Pending(v) /\ v # w
  BY LastCarrier, ZenonT(30)
<1>3. \A v \in Workers :
         /\ pc'[v] \notin {"idle", "down"} => pc[v] \notin {"idle", "down"}
         /\ pc'[v] \in {"acquiring", "granted"} => pc[v] = pc'[v]
         /\ pc'[v] = "running" => pc[v] = "running"
  BY LastCarrier
<1>4. JobTypeOK'
  BY <1>1, <1>2, SMTT(30) DEF JobTypeOK
<1>5. /\ outcome \in [Chains -> Outcomes]
      /\ \A v \in Workers : Pending(v) => chain[v] \in Chains
      /\ \A t \in timers : t.chain \in Chains
  BY <1>1, ZenonT(30) DEF JobTypeOK, CarrierInv, Pending, Timers
<1>6. CarrierInv'
  BY <1>1, <1>2, <1>3, <1>5, ZenonT(30) DEF CarrierInv
<1>7. CountInv'
  BY <1>1, <1>2, <1>3, <1>5, ZenonT(30) DEF CountInv
<1> QED
  BY <1>4, <1>6, <1>7 DEF JobInv

\* A handler that fails and may be retried hands its chain to a timer.
LEMMA ChainGoesOn ==
    ASSUME JobInv, TypeOK', NEW w \in Workers, FnReturns(w),
           last' = [last EXCEPT ![chain[w]] = "failed"],
           attempt[w] < MaxRetries,
           NEW r, r = [replica |-> Home[w], chain |-> chain[w], attempt |-> attempt[w] + 1],
           timers' = timers \cup {r},
           UNCHANGED <<chain, attempt, outcome, execs, paused>>
    PROVE  JobInv'
<1>1. JobTypeOK /\ CarrierInv /\ CountInv
  BY ZenonT(30) DEF JobInv
<1>2. /\ chain[w] \in Chains /\ attempt[w] \in Nat
      /\ attempt[w] = execs[chain[w]]
      /\ outcome[chain[w]] = "undefined"
      /\ \A t \in timers : t.chain # chain[w]
      /\ \A v \in Workers : Pending(v) /\ v # w => chain[v] # chain[w]
      /\ \A v \in Workers : Pending(v)' => Pending(v) /\ v # w
  BY LastCarrier, ZenonT(30)
<1>3. \A v \in Workers :
         /\ pc'[v] \notin {"idle", "down"} => pc[v] \notin {"idle", "down"}
         /\ pc'[v] \in {"acquiring", "granted"} => pc[v] = pc'[v]
         /\ pc'[v] = "running" => pc[v] = "running"
  BY LastCarrier, ZenonT(30)
<1>4. /\ r.chain = chain[w] /\ r.attempt = execs[chain[w]] + 1 /\ r.attempt <= MaxRetries
      /\ r \in Timers
  BY <1>2, HomeAssumption, MaxRetriesAssumption DEF Timers
<1>5. JobTypeOK'
  BY <1>1, <1>2, <1>4, ZenonT(30) DEF JobTypeOK, Statuses
<1>6. CarrierInv'
  <2>1. \A v \in Workers : pc'[v] \notin {"idle", "down"} => chain'[v] \in Chains
    BY <1>1, <1>3, ZenonT(30) DEF CarrierInv
  <2>2. /\ \A u, v \in Workers : Pending(u)' /\ Pending(v)' /\ chain'[u] = chain'[v] => u = v
        /\ \A v \in Workers : Pending(v)' => outcome'[chain'[v]] = "undefined"
    BY <1>1, <1>2, ZenonT(30) DEF CarrierInv
  <2>3. \A v \in Workers, t \in timers' : Pending(v)' => chain'[v] # t.chain
    BY <1>1, <1>2, <1>4, ZenonT(30) DEF CarrierInv
  <2>4. \A s, t \in timers' : s.chain = t.chain => s = t
    BY <1>1, <1>2, <1>4, ZenonT(30) DEF CarrierInv
  <2>5. \A t \in timers' : outcome'[t.chain] = "undefined"
    BY <1>1, <1>2, <1>4, ZenonT(30) DEF CarrierInv
  <2> QED
    BY <2>1, <2>2, <2>3, <2>4, <2>5, ZenonT(30) DEF CarrierInv
<1>7. CountInv'
  BY <1>1, <1>3, <1>4, ZenonT(30) DEF CountInv
<1> QED
  BY <1>5, <1>6, <1>7 DEF JobInv

\* JobInv holds before the first tick.
LEMMA JobInvInit == JobInit => JobInv
<1> SUFFICES ASSUME JobInit PROVE JobInv
  OBVIOUS
<1>1. LockInv
  BY LockInvInit DEF JobInit
<1> QED
  BY <1>1, MaxRetriesAssumption DEF JobInit, Init, LockInv, JobInv, CarrierInv, CountInv,
     JobTypeOK, TypeOK, PCs, Pending, Timers, Statuses, Outcomes

\* Every step of the scheduler preserves JobInv.
LEMMA JobInvNext == JobInv /\ TypeOK' /\ [JobNext]_vars => JobInv'
<1> SUFFICES ASSUME JobInv, TypeOK', [JobNext]_vars PROVE JobInv'
  BY ZenonT(30)
<1>0. pc \in [Workers -> PCs]
  BY ZenonT(30) DEF JobInv, JobTypeOK, TypeOK
<1> USE <1>0, MaxRetriesAssumption, NoChainAssumption, HomeAssumption DEF JobInv, CarrierInv, CountInv,
        JobTypeOK, Pending, Timers, Statuses, Outcomes
<1>1. ASSUME NEW w \in Workers, NEW c \in Chains, BeginChain(w, c) PROVE JobInv'
  BY <1>1, SMTT(30) DEF BeginChain, Call
<1>2. ASSUME NEW w \in Workers, NEW t \in timers, RetryTimer(w, t) PROVE JobInv'
  BY <1>2, SMTT(30) DEF RetryTimer, Call
<1>3. ASSUME NEW w \in Workers, BeginAttempt(w) PROVE JobInv'
  BY <1>3, SMTT(30) DEF BeginAttempt, Start
<1> HIDE DEF JobInv, CarrierInv, CountInv, JobTypeOK, Pending, Timers
<1>4. ASSUME NEW w \in Workers, HandlerSucceeds(w) PROVE JobInv'
  BY <1>4, ChainEnds, Zenon DEF HandlerSucceeds
<1>5. ASSUME NEW w \in Workers, HandlerFailsPermanently(w) PROVE JobInv'
  BY <1>5, ChainEnds, Zenon DEF HandlerFailsPermanently
<1>6. ASSUME NEW w \in Workers, HandlerFails(w) PROVE JobInv'
  <2>1. CASE attempt[w] < MaxRetries
    BY <1>6, <2>1, ChainGoesOn, Zenon DEF HandlerFails
  <2>2. CASE ~(attempt[w] < MaxRetries)
    BY <1>6, <2>2, ChainEnds, Zenon DEF HandlerFails
  <2> QED
    BY <2>1, <2>2
<1>7. CASE Quiet
  BY <1>7, QuietWinds, QuietStep, Zenon
<1> QED
  BY <1>1, <1>2, <1>3, <1>4, <1>5, <1>6, <1>7, Zenon
     DEF JobNext, CronTick, TriggerNow, Quiet

\* JobInv holds in every reachable state of the scheduler.
THEOREM JobInvariance == JobSpec => []JobInv
<1>1. JobSpec => []TypeOK
  BY SchedulerImplementsLock, TypeCorrect, PTL DEF ImplementsLock
<1> QED
  BY <1>1, JobInvInit, JobInvNext, PTL DEF JobSpec

\* Attempts of a chain never overlap, whatever stalls, fails or stops.
THEOREM ChainsAreSequential == JobSpec => []ChainSequential
<1>1. JobInv => ChainSequential
  BY ZenonT(30) DEF JobInv, CarrierInv, ChainSequential, Pending
<1> QED
  BY <1>1, JobInvariance, PTL

\* A chain runs its handler at most maxRetries times, in order.
THEOREM AttemptsAreCounted == JobSpec => []AttemptsCounted
<1>1. JobInv => AttemptsCounted
  BY ZenonT(30) DEF JobInv, CountInv, AttemptsCounted
<1> QED
  BY <1>1, JobInvariance, PTL

\* An outcome is final.
THEOREM OutcomesAreFinal == JobSpec => []SettledIsQuiet
<1>1. JobInv => SettledIsQuiet
  BY Zenon DEF JobInv, CarrierInv, SettledIsQuiet
<1> QED
  BY <1>1, JobInvariance, PTL

-----------------------------------------------------------------------------
(* Payouts *)

\* A payout submission is under way.
Submitting == {"lookup", "send", "record", "fail"}

\* What keeps two submissions apart, and a submission apart from an earlier payment.
SubmissionInv ==
    /\ \A s \in Submitters : phase[s] \in Submitting => ProcessOf[s] \in inFlight
    /\ \A s, t \in Submitters :
          phase[s] \in Submitting /\ phase[t] \in Submitting /\ s # t => ProcessOf[s] # ProcessOf[t]
    /\ strain = {} => \A p, q \in inFlight : p = q

\* A submission that has looked for its payment sends one only if there is none.
PaymentInv ==
    /\ adrift = "yes" => strain # {} /\ gateway # "none"
    /\ gateway = "none" => \A s \in Submitters : phase[s] \notin Submitting
    /\ gateway \notin {"memo", "plain"} => payments # 2
    /\ gateway # "plain" /\ strain = {} => payments # 2
    /\ gateway = "memo" /\ strain = {} => \A s \in Submitters : phase[s] = "send" => payments = 0

\* Whoever is about to write a hash or COMPLETED knows of a payment.
Settled(row) == row.status = "COMPLETED" \/ row.hash = "set"

\* Whoever writes, or holds in a copy, COMPLETED or a hash knows of a payment.
RecordInv ==
    /\ Settled(payout) => payments > 0
    /\ \A s \in Submitters : Settled(held[s]) \/ phase[s] = "record" => payments > 0
    /\ \A o \in Operators : Settled(read[o]) \/ order[o] = "confirm" => payments > 0

\* The rows the code writes are rows.
LEMMA RowTypes ==
    ASSUME NEW row \in PayoutRow, NEW n \in 0..MaxFailures,
           NEW l \in {"NONE", "PENDING", "PROCESSING", "COMPLETED", "FAILED"}
    PROVE  /\ NoPayout \in PayoutRow
           /\ [row EXCEPT !.status = l] \in PayoutRow
           /\ [row EXCEPT !.status = l, !.failures = n] \in PayoutRow
           /\ [row EXCEPT !.status = l, !.hash = "set"] \in PayoutRow
           /\ OneMore(row.failures) \in 0..MaxFailures
<1>1. NoPayout \in PayoutRow
  BY PayoutAssumption DEF PayoutRow, NoPayout
<1>2. [row EXCEPT !.status = l] \in PayoutRow
  BY DEF PayoutRow
<1>3. [row EXCEPT !.status = l, !.failures = n] \in PayoutRow
  BY Zenon DEF PayoutRow
<1>4. [row EXCEPT !.status = l, !.hash = "set"] \in PayoutRow
  BY Zenon DEF PayoutRow
<1>5. row.failures \in 0..MaxFailures
  BY DEF PayoutRow
<1>6. OneMore(row.failures) \in 0..MaxFailures
  BY <1>5, PayoutAssumption DEF OneMore
<1> QED
  BY <1>1, <1>2, <1>3, <1>4, <1>6

\* The variables of RevenueShare keep their types for any processes, sweepers and
\* operators.
THEOREM PayTypeCorrect == PaySpec => []PayTypeOK
<1>1. PayInit => PayTypeOK
  BY PayoutAssumption DEF PayInit, PayTypeOK, PayoutRow, NoPayout, Submitters
<1>2. PayTypeOK /\ [PayNext]_payVars => PayTypeOK'
  <2> SUFFICES ASSUME PayTypeOK, [PayNext]_payVars PROVE PayTypeOK'
    OBVIOUS
  <2> USE DEF PayTypeOK
  <2>0. NoPayout \in PayoutRow /\ 0 \in 0..MaxFailures /\ Creator \in Submitters /\ Sweepers \subseteq Submitters
    BY PayoutAssumption DEF PayoutRow, NoPayout, Submitters
  <2>1. CASE RecordPayout
    <3>1. payout' \in PayoutRow
      BY <2>0, <2>1, RowTypes, Zenon DEF RecordPayout
    <3> QED BY <2>0, <2>1, <3>1 DEF RecordPayout, Enter
  <2>2. CASE EscalatePayout
    <3>1. payout' \in PayoutRow /\ [NoPayout EXCEPT !.status = "PROCESSING"] \in PayoutRow
      BY <2>0, <2>2, RowTypes, Zenon DEF EscalatePayout
    <3> QED BY <2>0, <2>2, <3>1 DEF EscalatePayout, Enter
  <2>3. CASE PaymentLands
    BY <2>3 DEF PaymentLands, Paid
  <2>4. CASE PayByHand
    BY <2>4 DEF PayByHand
  <2>5. ASSUME NEW s \in Sweepers, ListPending(s) PROVE PayTypeOK'
    BY <2>0, <2>5 DEF ListPending, Enter
  <2>6. ASSUME NEW s \in Submitters, DispatchPayout(s) PROVE PayTypeOK'
    <3>1. CASE MayDispatch(s)
      <4>1. ProcessOf[s] \in Processes
        BY PayoutAssumption DEF Submitters
      <4>2. inFlight' \subseteq Processes /\ strain' \subseteq {"late", "replicas"}
        BY <2>6, <3>1, <4>1, Zenon DEF DispatchPayout
      <4>3. phase' \in [Submitters -> {"idle", "escalate", "dispatch", "lookup", "send", "record", "fail"}]
        BY <2>6, <3>1 DEF DispatchPayout, Enter
      <4> QED BY <2>6, <3>1, <4>2, <4>3 DEF DispatchPayout
    <3>2. CASE ~MayDispatch(s)
      BY <2>0, <2>6, <3>2, ZenonT(30) DEF DispatchPayout, Enter, Finish
    <3> QED BY <3>1, <3>2
  <2>7. ASSUME NEW s \in Submitters, FindPayment(s) PROVE PayTypeOK'
    BY <2>7 DEF FindPayment, Enter
  <2>8. ASSUME NEW s \in Submitters, SendPayment(s) PROVE PayTypeOK'
    <3>1. Paid \in 0..2
      BY DEF Paid
    <3>2. payments' \in 0..2 /\ adrift' \in {"no", "yes"} /\ strain' \subseteq {"late", "replicas"}
      BY <2>8, <3>1, Zenon DEF SendPayment
    <3>3. phase' \in [Submitters -> {"idle", "escalate", "dispatch", "lookup", "send", "record", "fail"}]
      BY <2>8 DEF SendPayment, Enter
    <3> QED BY <2>8, <3>2, <3>3 DEF SendPayment
  <2>9. ASSUME NEW s \in Submitters, RecordPayment(s) PROVE PayTypeOK'
    <3>1. payout' \in PayoutRow
      BY <2>9, <2>0, RowTypes, Zenon DEF RecordPayment
    <3>2. phase' \in [Submitters -> {"idle", "escalate", "dispatch", "lookup", "send", "record", "fail"}]
      BY <2>9 DEF RecordPayment, Enter, Finish
    <3>3. held' \in [Submitters -> PayoutRow] /\ inFlight' \subseteq Processes
      BY <2>0, <2>9 DEF RecordPayment, Finish
    <3> QED BY <2>9, <3>1, <3>2, <3>3 DEF RecordPayment
  <2>10. ASSUME NEW s \in Submitters, RecordFailure(s) PROVE PayTypeOK'
    <3>1. payout' \in PayoutRow
      <4>1. OneMore(held[s].failures) \in 0..MaxFailures
        BY <2>0, RowTypes, ZenonT(30)
      <4>2. [payout EXCEPT !.status = "FAILED", !.failures = OneMore(held[s].failures)] \in PayoutRow
        BY <4>1, RowTypes, Zenon
      <4> QED BY <2>10, <4>2 DEF RecordFailure
    <3> QED BY <2>0, <2>10, <3>1 DEF RecordFailure, Enter, Finish
  <2>11. ASSUME NEW p \in Processes, ProcessStops(p) PROVE PayTypeOK'
    BY <2>0, <2>11, ZenonT(30) DEF ProcessStops
  <2>12. ASSUME NEW o \in Operators, OperatorReads(o) PROVE PayTypeOK'
    BY <2>12 DEF OperatorReads
  <2>13. ASSUME NEW o \in Operators, OperatorSaves(o) PROVE PayTypeOK'
    <3>1. payout' \in PayoutRow
      <4>1. read[o] \in PayoutRow /\ OneMore(read[o].failures) \in 0..MaxFailures
        BY <2>0, RowTypes, Zenon
      <4>2. [read[o] EXCEPT !.status = "FAILED", !.failures = OneMore(@)]
              = [read[o] EXCEPT !.status = "FAILED", !.failures = OneMore(read[o].failures)]
        BY <4>1 DEF PayoutRow
      <4> QED BY <2>13, <4>1, <4>2, RowTypes, ZenonT(30) DEF OperatorSaves
    <3> QED BY <2>0, <2>13, <3>1 DEF OperatorSaves
  <2>14. CASE UNCHANGED payVars
    BY <2>14, ZenonT(30) DEF payVars
  <2> QED
    BY <2>1, <2>2, <2>3, <2>4, <2>5, <2>6, <2>7, <2>8, <2>9, <2>10, <2>11, <2>12, <2>13, <2>14, Zenon
    DEF PayNext
<1> QED
  BY <1>1, <1>2, PTL DEF PaySpec

-----------------------------------------------------------------------------
\* In one process the in-flight map lets one submission through at a time.
LEMMA SubmissionStep ==
    PayTypeOK /\ SubmissionInv /\ [PayNext]_payVars => SubmissionInv'
<1> SUFFICES ASSUME PayTypeOK, SubmissionInv, [PayNext]_payVars PROVE SubmissionInv'
  OBVIOUS
<1>0. phase \in [Submitters -> {"idle", "escalate", "dispatch", "lookup", "send", "record", "fail"}]
      /\ Creator \in Submitters /\ Sweepers \subseteq Submitters
  BY DEF PayTypeOK, Submitters
<1> USE DEF SubmissionInv, Submitting
<1>1. CASE RecordPayout
  BY <1>0, <1>1 DEF RecordPayout, Enter
<1>2. CASE EscalatePayout
  BY <1>0, <1>2, ZenonT(30) DEF EscalatePayout, Enter
<1>3. CASE PaymentLands
  BY <1>3 DEF PaymentLands
<1>4. CASE PayByHand
  BY <1>4 DEF PayByHand
<1>5. ASSUME NEW s \in Sweepers, ListPending(s) PROVE SubmissionInv'
  BY <1>0, <1>5, ZenonT(30) DEF ListPending, Enter
<1>6. ASSUME NEW s \in Submitters, DispatchPayout(s) PROVE SubmissionInv'
  <2>1. CASE MayDispatch(s)
    <3>1. ProcessOf[s] \notin inFlight /\ inFlight' = inFlight \cup {ProcessOf[s]}
      BY <1>6, <2>1 DEF DispatchPayout, MayDispatch
    <3>2. \A t \in Submitters : t # s => phase'[t] = phase[t]
      BY <1>0, <1>6, <2>1, ZenonT(30) DEF DispatchPayout, Enter
    <3>3. strain' = {} => inFlight = {}
      BY <1>6, <2>1 DEF DispatchPayout
    <3> QED BY <3>1, <3>2, <3>3, ZenonT(30)
  <2>2. CASE ~MayDispatch(s)
    BY <1>0, <1>6, <2>2 DEF DispatchPayout, Enter, Finish
  <2> QED BY <2>1, <2>2
<1>7. ASSUME NEW s \in Submitters, FindPayment(s) PROVE SubmissionInv'
  BY <1>0, <1>7 DEF FindPayment, Enter
<1>8. ASSUME NEW s \in Submitters, SendPayment(s) PROVE SubmissionInv'
  <2>1. phase[s] = "send" /\ phase' \in {[phase EXCEPT ![s] = "record"], [phase EXCEPT ![s] = "fail"]}
    BY <1>8, ZenonT(30) DEF SendPayment, Enter
  <2>2. inFlight' = inFlight /\ (strain' = {} => strain = {})
    BY <1>8 DEF SendPayment
  <2> QED BY <1>0, <2>1, <2>2
<1>9. ASSUME NEW s \in Submitters, RecordPayment(s) \/ RecordFailure(s) PROVE SubmissionInv'
  <2>1. CASE inFlight' = inFlight \ {ProcessOf[s]} /\ phase' = [phase EXCEPT ![s] = "idle"]
             /\ phase[s] \in Submitting /\ strain' = strain
    BY <1>0, <2>1
  <2>2. CASE phase[s] = "record" /\ phase' = [phase EXCEPT ![s] = "fail"] /\ UNCHANGED <<inFlight, strain>>
    BY <1>0, <2>2, ZenonT(30)
  <2> QED BY <1>9, <2>1, <2>2 DEF RecordPayment, RecordFailure, Finish, Enter
<1>10. ASSUME NEW p \in Processes, ProcessStops(p) PROVE SubmissionInv'
  BY <1>0, <1>10 DEF ProcessStops
<1>11. ASSUME NEW o \in Operators, OperatorReads(o) \/ OperatorSaves(o) PROVE SubmissionInv'
  BY <1>11, ZenonT(30) DEF OperatorReads, OperatorSaves
<1>12. CASE UNCHANGED payVars
  BY <1>12, ZenonT(30) DEF payVars
<1> QED
  BY <1>1, <1>2, <1>3, <1>4, <1>5, <1>6, <1>7, <1>8, <1>9, <1>10, <1>11, <1>12, Zenon DEF PayNext

\* A submission that looks for its payment first sends only if there is none.
LEMMA PaymentStep ==
    PayTypeOK /\ SubmissionInv /\ PaymentInv /\ [PayNext]_payVars => PaymentInv'
<1> SUFFICES ASSUME PayTypeOK, SubmissionInv, PaymentInv, [PayNext]_payVars PROVE PaymentInv'
  OBVIOUS
<1>0. /\ phase \in [Submitters -> {"idle", "escalate", "dispatch", "lookup", "send", "record", "fail"}]
      /\ Creator \in Submitters /\ Sweepers \subseteq Submitters
      /\ payments \in 0..2 /\ gateway \in {"none", "keyed", "memo", "plain"}
  BY DEF PayTypeOK, Submitters
<1> USE DEF PaymentInv, Submitting
<1>1. CASE RecordPayout
  BY <1>0, <1>1 DEF RecordPayout, Enter
<1>2. CASE EscalatePayout
  BY <1>0, <1>2 DEF EscalatePayout, Enter
<1>3. CASE PaymentLands
  BY <1>0, <1>3 DEF PaymentLands, Paid
<1>4. CASE PayByHand
  BY <1>0, <1>4 DEF PayByHand
<1>5. ASSUME NEW s \in Sweepers, ListPending(s) PROVE PaymentInv'
  BY <1>0, <1>5, ZenonT(30) DEF ListPending, Enter
<1>6. ASSUME NEW s \in Submitters, DispatchPayout(s) PROVE PaymentInv'
  <2>1. CASE MayDispatch(s)
    BY <1>0, <1>6, <2>1 DEF DispatchPayout, MayDispatch, Enter
  <2>2. CASE ~MayDispatch(s)
    BY <1>0, <1>6, <2>2 DEF DispatchPayout, Enter, Finish
  <2> QED BY <2>1, <2>2, ZenonT(30)
<1>7. ASSUME NEW s \in Submitters, FindPayment(s) PROVE PaymentInv'
  BY <1>0, <1>7 DEF FindPayment, Enter
<1>8. ASSUME NEW s \in Submitters, SendPayment(s) PROVE PaymentInv'
  <2>1. phase[s] = "send" /\ phase' \in {[phase EXCEPT ![s] = "record"], [phase EXCEPT ![s] = "fail"]}
    BY <1>8 DEF SendPayment, Enter
  <2>2. gateway' = gateway /\ gateway # "none" /\ payments' \in {payments, Paid}
        /\ (strain' = {} => strain = {})
        /\ (adrift' = "yes" => strain' # {})
    BY <1>8, <2>1, ZenonT(30) DEF SendPayment
  <2>3. strain = {} => \A t \in Submitters : t # s => phase[t] \notin Submitting
    BY <2>1 DEF SubmissionInv
  <2>4. strain = {} => \A t \in Submitters : phase'[t] # "send"
    BY <1>0, <2>1, <2>3
  <2>5. /\ gateway \notin {"memo", "plain"} => payments' # 2
        /\ gateway # "plain" /\ strain = {} => payments' # 2
    BY <1>0, <2>1, <2>2 DEF Paid
  <2> QED BY <2>2, <2>4, <2>5
<1>9. ASSUME NEW s \in Submitters, RecordPayment(s) \/ RecordFailure(s) PROVE PaymentInv'
  <2>1. phase[s] \in Submitting /\ phase' \in {[phase EXCEPT ![s] = "idle"], [phase EXCEPT ![s] = "fail"]}
        /\ UNCHANGED <<gateway, payments, adrift, strain>>
    BY <1>9, ZenonT(30) DEF RecordPayment, RecordFailure, Finish, Enter
  <2> QED BY <1>0, <2>1
<1>10. ASSUME NEW p \in Processes, ProcessStops(p) PROVE PaymentInv'
  BY <1>0, <1>10 DEF ProcessStops
<1>11. ASSUME NEW o \in Operators, OperatorReads(o) \/ OperatorSaves(o) PROVE PaymentInv'
  BY <1>11 DEF OperatorReads, OperatorSaves
<1>12. CASE UNCHANGED payVars
  BY <1>12 DEF payVars
<1> QED
  BY <1>1, <1>2, <1>3, <1>4, <1>5, <1>6, <1>7, <1>8, <1>9, <1>10, <1>11, <1>12, Zenon DEF PayNext

\* submitPayout pays a payout at most once for any number of processes, sweeps and
\* operators: always with a gateway that honours the idempotency key, and with one
\* that finds payments by memo while one process submits and no payment lands late.
THEOREM PaymentIsSingle == PaySpec => []PaidAtMostOnce
<1>1. PayInit => SubmissionInv /\ PaymentInv
  BY PayoutAssumption DEF PayInit, SubmissionInv, PaymentInv, Submitting
<1>2. PayTypeOK /\ SubmissionInv /\ PaymentInv => PaidAtMostOnce
  BY DEF PayTypeOK, PaymentInv, PaidAtMostOnce
<1> QED
  BY <1>1, <1>2, PayTypeCorrect, SubmissionStep, PaymentStep, PTL DEF PaySpec

-----------------------------------------------------------------------------
\* Only a write of COMPLETED or of the hash settles a row.
LEMMA SettledRows ==
    ASSUME NEW row \in PayoutRow, NEW n \in 0..MaxFailures,
           NEW l \in {"PENDING", "PROCESSING", "FAILED"}
    PROVE  /\ ~Settled(NoPayout)
           /\ ~Settled([NoPayout EXCEPT !.status = l])
           /\ Settled([row EXCEPT !.status = l]) => Settled(row)
           /\ Settled([row EXCEPT !.status = l, !.failures = n]) => Settled(row)
<1>1. ~Settled(NoPayout) /\ ~Settled([NoPayout EXCEPT !.status = l])
  BY DEF Settled, NoPayout
<1>2. Settled([row EXCEPT !.status = l]) => Settled(row)
  BY DEF Settled, PayoutRow
<1>3. Settled([row EXCEPT !.status = l, !.failures = n]) => Settled(row)
  BY ZenonT(30) DEF Settled, PayoutRow
<1> QED BY <1>1, <1>2, <1>3

\* No step writes COMPLETED or a hash, or carries one to write later, unpaid.
LEMMA RecordStep ==
    PayTypeOK /\ RecordInv /\ [PayNext]_payVars => RecordInv'
<1> SUFFICES ASSUME PayTypeOK, RecordInv, [PayNext]_payVars PROVE RecordInv'
  OBVIOUS
<1>0. /\ phase \in [Submitters -> {"idle", "escalate", "dispatch", "lookup", "send", "record", "fail"}]
      /\ held \in [Submitters -> PayoutRow] /\ read \in [Operators -> PayoutRow]
      /\ order \in [Operators -> {"none", "confirm", "fail", "retry"}]
      /\ Creator \in Submitters /\ Sweepers \subseteq Submitters
      /\ payments \in 0..2 /\ payout \in PayoutRow
      /\ 0 \in 0..MaxFailures
  BY PayoutAssumption DEF PayTypeOK, Submitters
<1>a. Paid > 0
  BY <1>0 DEF Paid
<1>b. ~Settled(NoPayout)
  BY DEF Settled, NoPayout
<1> USE DEF RecordInv
<1>1. CASE RecordPayout
  <2>1. ~Settled(payout')
    BY <1>0, <1>1, SettledRows, Zenon DEF RecordPayout
  <2> QED BY <1>0, <1>1, <2>1 DEF RecordPayout, Enter
<1>2. CASE EscalatePayout
  <2>1. Settled(payout') => Settled(payout)
    BY <1>0, <1>2, SettledRows, ZenonT(30) DEF EscalatePayout
  <2>2. ~Settled([NoPayout EXCEPT !.status = "PROCESSING"])
    BY <1>0, SettledRows, Zenon
  <2> QED BY <1>0, <1>2, <2>1, <2>2 DEF EscalatePayout, Enter
<1>3. CASE PaymentLands
  BY <1>a, <1>3 DEF PaymentLands
<1>4. CASE PayByHand
  BY <1>4 DEF PayByHand
<1>5. ASSUME NEW s \in Sweepers, ListPending(s) PROVE RecordInv'
  BY <1>0, <1>5, ZenonT(30) DEF ListPending, Enter
<1>6. ASSUME NEW s \in Submitters, DispatchPayout(s) PROVE RecordInv'
  <2>1. CASE MayDispatch(s)
    BY <1>0, <1>6, <2>1, ZenonT(30) DEF DispatchPayout, Enter
  <2>2. CASE ~MayDispatch(s)
    BY <1>0, <1>b, <1>6, <2>2 DEF DispatchPayout, Enter, Finish
  <2> QED BY <2>1, <2>2
<1>7. ASSUME NEW s \in Submitters, FindPayment(s) PROVE RecordInv'
  BY <1>0, <1>7, ZenonT(30) DEF FindPayment, Enter
<1>8. ASSUME NEW s \in Submitters, SendPayment(s) PROVE RecordInv'
  <2>1. UNCHANGED <<payout, held, order, read>>
    BY <1>8, ZenonT(30) DEF SendPayment
  <2>2. CASE payments' = Paid
    BY <1>a, <2>1, <2>2
  <2>3. CASE payments' = payments /\ phase' = [phase EXCEPT ![s] = "fail"]
    BY <1>0, <2>1, <2>3, ZenonT(30)
  <2> QED BY <1>8, <2>2, <2>3, ZenonT(30) DEF SendPayment, Enter
<1>9. ASSUME NEW s \in Submitters, RecordPayment(s) PROVE RecordInv'
  <2>1. payments > 0 /\ payments' = payments
    BY <1>9 DEF RecordPayment
  <2> QED BY <2>1
<1>10. ASSUME NEW s \in Submitters, RecordFailure(s) PROVE RecordInv'
  <2>1. OneMore(held[s].failures) \in 0..MaxFailures
    BY <1>0, RowTypes, ZenonT(30)
  <2>2. Settled([payout EXCEPT !.status = "FAILED", !.failures = OneMore(held[s].failures)]) => Settled(payout)
    BY <1>0, <2>1, SettledRows, Zenon
  <2>3. Settled(payout') => Settled(payout)
    BY <1>10, <2>2 DEF RecordFailure
  <2> QED BY <1>0, <1>b, <1>10, <2>3 DEF RecordFailure, Enter, Finish
<1>11. ASSUME NEW p \in Processes, ProcessStops(p) PROVE RecordInv'
  BY <1>0, <1>b, <1>11 DEF ProcessStops
<1>12. ASSUME NEW o \in Operators, OperatorReads(o) PROVE RecordInv'
  <2>1. PICK c \in {"confirm", "fail", "retry"} :
          (c = "confirm" => payments > 0) /\ order' = [order EXCEPT ![o] = c]
    BY <1>12, Zenon DEF OperatorReads
  <2>2. read' = [read EXCEPT ![o] = payout] /\ UNCHANGED <<payout, payments, phase, held>>
    BY <1>12 DEF OperatorReads
  <2> QED BY <1>0, <2>1, <2>2
<1>13. ASSUME NEW o \in Operators, OperatorSaves(o) PROVE RecordInv'
  <2>1. UNCHANGED <<payments, phase, held>> /\ order' = [order EXCEPT ![o] = "none"]
        /\ read' = [read EXCEPT ![o] = NoPayout]
    BY <1>13 DEF OperatorSaves
  <2>2. Settled(payout') => payments > 0
    <3>1. CASE order[o] = "confirm"
      BY <3>1
    <3>2. CASE order[o] = "fail"
      <4>1. read[o] \in PayoutRow /\ OneMore(read[o].failures) \in 0..MaxFailures
        BY <1>0, RowTypes, Zenon
      <4>2. payout' = [read[o] EXCEPT !.status = "FAILED", !.failures = OneMore(read[o].failures)]
        BY <1>13, <3>2, <4>1 DEF OperatorSaves, PayoutRow
      <4> QED BY <4>1, <4>2, SettledRows, ZenonT(30)
    <3>3. CASE order[o] = "retry"
      <4>1. payout' = [read[o] EXCEPT !.status = "PENDING"]
        BY <1>13, <3>3, ZenonT(30) DEF OperatorSaves
      <4> QED BY <1>0, <4>1, SettledRows, Zenon
    <3> QED BY <1>0, <1>13, <3>1, <3>2, <3>3 DEF OperatorSaves
  <2> QED BY <1>0, <1>b, <2>1, <2>2
<1>14. CASE UNCHANGED payVars
  BY <1>14, Zenon DEF payVars
<1> QED
  BY <1>1, <1>2, <1>3, <1>4, <1>5, <1>6, <1>7, <1>8, <1>9, <1>10, <1>11, <1>12, <1>13, <1>14, Zenon DEF
     PayNext

\* The accounting table never shows a payout as COMPLETED, or with a transaction
\* hash, that was not paid, for any number of processes, sweeps and operators, whose
\* saves of stale copies may undo and redo both.
THEOREM RecordIsTrue == PaySpec => []RecordedWasPaid
<1>1. PayInit => RecordInv
  BY DEF PayInit, RecordInv, Settled, NoPayout
<1>2. RecordInv => RecordedWasPaid
  BY DEF RecordInv, RecordedWasPaid, Settled
<1> QED
  BY <1>1, <1>2, PayTypeCorrect, RecordStep, PTL DEF PaySpec
=============================================================================
