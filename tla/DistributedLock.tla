---------------------------- MODULE DistributedLock ----------------------------
(***************************************************************************)
(* src/common/services/distributed-lock.service.ts: the Redis lease that   *)
(* keeps a scheduled job exclusive across replicas.                        *)
(*                                                                         *)
(* One lock key is modelled.  Each worker is one call of withLock in some  *)
(* replica.  Redis executes each Lua script atomically; a command may be   *)
(* overtaken by time, by the crash of its sender, or by an error.  The     *)
(* random ownership token of an acquisition and its fencing number are    *)
(* drawn together, so the fencing number names both.                       *)
(*                                                                         *)
(* Time is a count of ticks.  A worker may be paused for any number of    *)
(* ticks (event loop blocked, slow network).  The run is calm as long as a *)
(* reply takes at most Latency ticks, setInterval fires when due, and      *)
(* Redis fails no command.                                                 *)
(***************************************************************************)
EXTENDS Integers

CONSTANTS Workers,      \* concurrent withLock calls on the key
          TTL,          \* ttlMs, in ticks
          Latency,      \* longest round trip to Redis when nothing stalls
          MaxFence      \* bound on the acquisitions explored

ASSUME TTLAssumption == TTL \in Nat \ {0}
ASSUME LatencyAssumption == Latency \in Nat
ASSUME MaxFenceAssumption == MaxFence \in Nat

VARIABLES owner,      \* the token stored under the lock key, NoToken if absent
          ttl,        \* ticks before Redis expires the lock key
          fence,      \* the fencing counter, never expired
          pc,         \* where each withLock call is
          token,      \* the token of each call's lease
          leaseLost,  \* the call's leaseLost flag
          renewal,    \* the call's renewal: not in progress, sent, or answered
          hbAge,      \* ticks since the call's heartbeat timer was (re)started
          weather     \* "calm" while nothing was late and no Redis command failed

redisVars == <<owner, ttl, fence>>
envVars == <<owner, ttl, fence, weather>>
lockVars == <<owner, ttl, fence, pc, token, leaseLost, renewal, hbAge, weather>>

NoToken == 0

\* Where a call can be: "granted" is between the script's execution and its
\* reply, "running" is inside fn, "checking" awaits the final assertCurrent,
\* "confirmed" and "failed" are in the finally block with the lease still to be
\* released, "down" is a worker whose process has died.
PCs == {"idle", "acquiring", "granted", "running", "checking",
        "confirmed", "failed", "down"}

\* const renewIntervalMs = Math.max(Math.floor(ttlMs / 3), 1)
RenewInterval == IF TTL \div 3 >= 1 THEN TTL \div 3 ELSE 1

\* The lease outlives the longest gap between two renewals of a calm run: the
\* reply to acquire, one interval, and the next round trip.
Timely ==
    /\ Latency < RenewInterval
    /\ 2 * Latency + RenewInterval < TTL

\* The heartbeat interval is armed from the reply to acquire until finally.
Beating(w) == pc[w] \in {"running", "checking"}

TypeOK ==
    /\ owner \in Nat
    /\ ttl \in 0..TTL
    /\ fence \in Nat
    /\ pc \in [Workers -> PCs]
    /\ token \in [Workers -> Nat]
    /\ leaseLost \in [Workers -> BOOLEAN]
    /\ renewal \in [Workers -> {"none", "sent", "ok", "fail"}]
    /\ hbAge \in [Workers -> Nat]
    /\ weather \in {"calm", "rough"}

Init ==
    /\ owner = NoToken
    /\ ttl = 0
    /\ fence = 0
    /\ pc = [w \in Workers |-> "idle"]
    /\ token = [w \in Workers |-> NoToken]
    /\ leaseLost = [w \in Workers |-> FALSE]
    /\ renewal = [w \in Workers |-> "none"]
    /\ hbAge = [w \in Workers |-> 0]
    /\ weather = "calm"

\* withLock returns or throws: its locals are gone.
Return(w) ==
    /\ pc' = [pc EXCEPT ![w] = "idle"]
    /\ token' = [token EXCEPT ![w] = NoToken]
    /\ leaseLost' = [leaseLost EXCEPT ![w] = FALSE]
    /\ hbAge' = [hbAge EXCEPT ![w] = 0]
    /\ UNCHANGED renewal

-----------------------------------------------------------------------------
(* acquireLease *)

\* withLock is called; ACQUIRE_SCRIPT is on its way to Redis.
Call(w) ==
    /\ pc[w] = "idle"
    /\ pc' = [pc EXCEPT ![w] = "acquiring"]
    /\ UNCHANGED <<envVars, token, leaseLost, renewal, hbAge>>

\* Mutant: SET without PX, so nothing bounds the lease of a dead holder.
AcquireWithoutExpiry(w) ==
    /\ pc[w] = "acquiring"
    /\ owner = NoToken
    /\ fence < MaxFence
    /\ fence' = fence + 1
    /\ owner' = fence'
    /\ ttl' = 0
    /\ pc' = [pc EXCEPT ![w] = "granted"]
    /\ token' = [token EXCEPT ![w] = fence']
    /\ leaseLost' = [leaseLost EXCEPT ![w] = FALSE]
    /\ hbAge' = [hbAge EXCEPT ![w] = 0]
    /\ UNCHANGED <<renewal, weather>>

\* ACQUIRE_SCRIPT finds no lease: it increments the fence and sets the key.
Acquire(w) ==
    /\ pc[w] = "acquiring"
    /\ owner = NoToken
    /\ fence < MaxFence
    /\ fence' = fence + 1
    /\ owner' = fence'
    /\ ttl' = TTL
    /\ pc' = [pc EXCEPT ![w] = "granted"]
    /\ token' = [token EXCEPT ![w] = fence']
    /\ leaseLost' = [leaseLost EXCEPT ![w] = FALSE]
    /\ hbAge' = [hbAge EXCEPT ![w] = 0]
    /\ UNCHANGED <<renewal, weather>>

\* ACQUIRE_SCRIPT finds a lease: withLock returns { ran: false }.
AcquireHeld(w) ==
    /\ pc[w] = "acquiring"
    /\ owner # NoToken
    /\ Return(w)
    /\ UNCHANGED envVars

\* The eval rejects: the script did not run, or it ran and its reply is lost,
\* in which case the lease stays behind with a token nobody remembers.
AcquireError(w) ==
    /\ weather' = "rough"
    /\ pc[w] \in {"acquiring", "granted"}
    /\ Return(w)
    /\ UNCHANGED redisVars

\* The lease arrives: the heartbeat is armed and fn starts.
Start(w) ==
    /\ pc[w] = "granted"
    /\ pc' = [pc EXCEPT ![w] = "running"]
    /\ hbAge' = [hbAge EXCEPT ![w] = 0]
    /\ UNCHANGED <<envVars, token, leaseLost, renewal>>

-----------------------------------------------------------------------------
(* The heartbeat of withLock and renew *)

\* Mutant: the interval fires and forgets to renew.
HeartbeatNeverRenews(w) ==
    /\ Beating(w)
    /\ hbAge[w] >= RenewInterval
    /\ hbAge' = [hbAge EXCEPT ![w] = 0]
    /\ UNCHANGED <<envVars, pc, token, leaseLost, renewal>>

\* The interval fires; a renewal is sent unless one is in progress or the lease
\* is known to be lost.
Heartbeat(w) ==
    /\ Beating(w)
    /\ hbAge[w] >= RenewInterval
    /\ hbAge' = [hbAge EXCEPT ![w] = 0]
    /\ renewal' = IF renewal[w] = "none" /\ ~leaseLost[w]
                  THEN [renewal EXCEPT ![w] = "sent"]
                  ELSE renewal
    /\ UNCHANGED <<envVars, pc, token, leaseLost>>

\* RENEW_SCRIPT: extend the lease only if the token still matches.
Renew(w) ==
    /\ renewal[w] = "sent"
    /\ ttl' = IF owner = token[w] THEN TTL ELSE ttl
    /\ renewal' = [renewal EXCEPT ![w] =
                      IF owner = token[w] THEN "ok" ELSE "fail"]
    /\ UNCHANGED <<owner, fence, pc, token, leaseLost, hbAge, weather>>

\* renew catches the error of its eval and answers false.
RenewError(w) ==
    /\ weather' = "rough"
    /\ renewal[w] \in {"sent", "ok"}
    /\ renewal' = [renewal EXCEPT ![w] = "fail"]
    /\ UNCHANGED <<redisVars, pc, token, leaseLost, hbAge>>

\* The heartbeat callback resumes; a refused renewal marks the lease lost.
RenewReply(w) ==
    /\ renewal[w] \in {"ok", "fail"}
    /\ renewal' = [renewal EXCEPT ![w] = "none"]
    /\ leaseLost' = [leaseLost EXCEPT ![w] = @ \/ renewal[w] = "fail"]
    /\ UNCHANGED <<envVars, pc, token, hbAge>>

-----------------------------------------------------------------------------
(* The end of withLock *)

\* fn resolves; assertCurrent throws at once if the lease is known to be lost
\* and asks Redis otherwise.
FnReturns(w) ==
    /\ pc[w] = "running"
    /\ pc' = [pc EXCEPT ![w] = IF leaseLost[w] THEN "failed" ELSE "checking"]
    /\ UNCHANGED <<envVars, token, leaseLost, renewal, hbAge>>

\* fn rejects: the finally block runs without assertCurrent.
FnThrows(w) ==
    /\ pc[w] = "running"
    /\ pc' = [pc EXCEPT ![w] = "failed"]
    /\ UNCHANGED <<envVars, token, leaseLost, renewal, hbAge>>

\* IS_CURRENT_SCRIPT decides between { ran: true } and LockLeaseLostError.
Check(w) ==
    /\ pc[w] = "checking"
    /\ pc' = [pc EXCEPT ![w] = IF owner = token[w] THEN "confirmed" ELSE "failed"]
    /\ leaseLost' = [leaseLost EXCEPT ![w] = @ \/ owner # token[w]]
    /\ UNCHANGED <<envVars, token, renewal, hbAge>>

\* isCurrent does not catch: its error leaves withLock through finally.
CheckError(w) ==
    /\ weather' = "rough"
    /\ pc[w] = "checking"
    /\ pc' = [pc EXCEPT ![w] = "failed"]
    /\ UNCHANGED <<redisVars, token, leaseLost, renewal, hbAge>>

\* Mutant: the fencing counter is deleted with the lease.
ReleaseResetsFence(w) ==
    /\ pc[w] \in {"confirmed", "failed"}
    /\ renewal[w] = "none"
    /\ owner' = IF owner = token[w] THEN NoToken ELSE owner
    /\ ttl' = IF owner = token[w] THEN 0 ELSE ttl
    /\ fence' = IF owner = token[w] THEN 0 ELSE fence
    /\ Return(w)
    /\ UNCHANGED weather

\* RELEASE_SCRIPT: delete the key only if the token still matches.  Commands of
\* one connection execute in order, so a renewal sent earlier came first.
Release(w) ==
    /\ pc[w] \in {"confirmed", "failed"}
    /\ renewal[w] = "none"
    /\ owner' = IF owner = token[w] THEN NoToken ELSE owner
    /\ ttl' = IF owner = token[w] THEN 0 ELSE ttl
    /\ Return(w)
    /\ UNCHANGED <<fence, weather>>

\* release swallows the error of its eval: the lease is left to its TTL.
ReleaseError(w) ==
    /\ weather' = "rough"
    /\ pc[w] \in {"confirmed", "failed"}
    /\ renewal[w] = "none"
    /\ Return(w)
    /\ UNCHANGED redisVars

-----------------------------------------------------------------------------
(* The environment *)

\* A process dies and takes its calls, timers and unsent commands with it.
Crash(W) ==
    /\ \A w \in W : pc[w] # "down"
    /\ pc' = [w \in Workers |-> IF w \in W THEN "down" ELSE pc[w]]
    /\ token' = [w \in Workers |-> IF w \in W THEN NoToken ELSE token[w]]
    /\ leaseLost' = [w \in Workers |-> w \notin W /\ leaseLost[w]]
    /\ renewal' = [w \in Workers |-> IF w \in W THEN "none" ELSE renewal[w]]
    /\ hbAge' = [w \in Workers |-> IF w \in W THEN 0 ELSE hbAge[w]]
    /\ UNCHANGED envVars

Restart(W) ==
    /\ \A w \in W : pc[w] = "down"
    /\ pc' = [w \in Workers |-> IF w \in W THEN "idle" ELSE pc[w]]
    /\ UNCHANGED <<envVars, token, leaseLost, renewal, hbAge>>

\* What is due by now has happened.
OnTime ==
    \A w \in Workers :
        /\ pc[w] = "granted" => hbAge[w] < Latency
        /\ renewal[w] # "none" => hbAge[w] < Latency
        /\ Beating(w) => hbAge[w] < RenewInterval

\* One tick: the key's PX counts down and Redis drops it at zero.
Tick ==
    /\ ttl > 0 \/ \E w \in Workers : Beating(w) /\ hbAge[w] < RenewInterval
    /\ weather' = IF OnTime THEN weather ELSE "rough"
    /\ ttl' = IF ttl > 0 THEN ttl - 1 ELSE 0
    /\ owner' = IF ttl = 1 THEN NoToken ELSE owner
    /\ hbAge' = [w \in Workers |->
                    IF (Beating(w) \/ pc[w] = "granted") /\ hbAge[w] < RenewInterval
                    THEN hbAge[w] + 1 ELSE hbAge[w]]
    /\ UNCHANGED <<fence, pc, token, leaseLost, renewal>>

WorkerStep(w) ==
    \/ Acquire(w) \/ AcquireHeld(w) \/ AcquireError(w) \/ Start(w)
    \/ Heartbeat(w) \/ Renew(w) \/ RenewError(w) \/ RenewReply(w)
    \/ FnReturns(w) \/ FnThrows(w) \/ Check(w) \/ CheckError(w)
    \/ Release(w) \/ ReleaseError(w)

LockNext ==
    \/ \E w \in Workers : Call(w) \/ WorkerStep(w)
    \/ \E W \in SUBSET Workers : Crash(W) \/ Restart(W)
    \/ Tick

LockSpec == Init /\ [][LockNext]_lockVars

\* What the runtime does without being asked: Redis answers, due timers fire
\* and clocks advance.  Nothing makes fn finish or a worker stay up.
Answered(w) ==
    \/ Acquire(w) \/ AcquireHeld(w) \/ Start(w)
    \/ Heartbeat(w) \/ Renew(w) \/ RenewReply(w)
    \/ Check(w) \/ Release(w)

LockFairness == WF_lockVars(Tick) /\ \A w \in Workers : WF_lockVars(Answered(w))

LockFairSpec == LockSpec /\ LockFairness

-----------------------------------------------------------------------------
(* Properties *)

Holds(w) == token[w] # NoToken /\ owner = token[w]

\* Fencing: whoever holds the lease carries a larger fencing number than every
\* other call that still believes it has one, so a resource that rejects older
\* numbers rejects exactly the stale callers ("Monotonically increasing per lock
\* key; protected resources should reject older tokens").
Fencing ==
    \A v, w \in Workers :
        v # w /\ Holds(v) /\ token[w] # NoToken => token[w] < token[v]

\* Exclusion: in a run that has been calm two calls are never inside fn at once,
\* on any two replicas.  Once a holder has stalled or Redis has failed it, the
\* lease alone does not stop it.
Exclusion ==
    Timely /\ weather = "calm" =>
        \A v, w \in Workers : pc[v] = "running" /\ pc[w] = "running" => v = w

LeaseStep ==
    owner # NoToken =>
      /\ owner' # owner =>
            \/ ttl = 1 /\ ttl' = 0 /\ pc' = pc
            \/ \E w \in Workers : Holds(w) /\ pc[w] # "idle" /\ pc'[w] = "idle"
      /\ ttl' > ttl =>
            \E w \in Workers : Holds(w) /\ renewal[w] = "sent" /\ renewal'[w] = "ok"

\* A lease ends only by its TTL or by its own holder's release, and is lengthened
\* only by its own holder's renewal: "a worker can never release or extend a lock
\* it no longer owns".
OnlyOwnerTouchesLease == [][LeaseStep]_lockVars

RanStep ==
    \A w \in Workers :
        pc[w] = "checking" /\ pc'[w] = "confirmed" => fence = token[w]

\* withLock answers { ran: true } only to a call whose lease nobody else took
\* between its acquisition and its final check, however long it stalled.
RanMeansUninterrupted == [][RanStep]_lockVars

Orphan(n) ==
    owner = n /\ \A w \in Workers : token[w] # n

\* A lease without a live holder (it crashed, its acquire reply was lost, or its
\* release failed) is gone some time later: "a dead worker can never cause
\* permanent blockage".
OrphanedLeaseExpires ==
    \A n \in 1..MaxFence : Orphan(n) ~> owner # n
=============================================================================
