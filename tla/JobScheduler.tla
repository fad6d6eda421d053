------------------------------ MODULE JobScheduler ------------------------------
(***************************************************************************)
(* src/jobs/job-scheduler.service.ts: one registered cron job, run by      *)
(* every replica under the job's lease, with retries on in-process timers. *)
(*                                                                         *)
(* Each tick of the cron, or triggerNow, starts a chain: attempt 1 and the *)
(* retries that follow from it.  A worker is one call of runWithRetry; it  *)
(* goes through withLock, so every scheduler step is a step of             *)
(* DistributedLock together with what execute and runWithRetry do.  The    *)
(* execution history keeps what the outcome of a chain depends on: how     *)
(* many attempts have run, the status of the last, and the outcome.        *)
(***************************************************************************)
EXTENDS DistributedLock

CONSTANTS Replicas,
          Home,        \* the replica each worker belongs to
          Chains,      \* ticks explored
          MaxRetries,  \* maxRetries of the JobDefinition
          NoChain      \* a worker that has served no chain yet

ASSUME HomeAssumption == Home \in [Workers -> Replicas]
ASSUME MaxRetriesAssumption == MaxRetries \in Nat \ {0}
ASSUME NoChainAssumption == NoChain \notin Chains

VARIABLES chain,   \* the chain each worker serves
          attempt, \* and its attempt number in it
          timers,  \* pending retry timers, by replica
          execs,   \* executions pushed for each chain
          last,    \* status of the latest execution of each chain
          outcome, \* exec.outcome of each chain, "new" before its first tick
          paused   \* replicas whose cron is stopped

jobVars == <<chain, attempt, timers, execs, last, outcome, paused>>
vars == <<owner, ttl, fence, pc, token, leaseLost, renewal, hbAge, weather,
          chain, attempt, timers, execs, last, outcome, paused>>

Timers == [replica : Replicas, chain : Chains, attempt : Nat]
Statuses == {"none", "running", "success", "failed"}
Outcomes == {"new", "undefined", "success", "permanent-failure", "retries-exhausted"}

JobTypeOK ==
    /\ TypeOK
    /\ chain \in [Workers -> Chains \cup {NoChain}]
    /\ attempt \in [Workers -> Nat]
    /\ timers \subseteq Timers
    /\ execs \in [Chains -> Nat]
    /\ last \in [Chains -> Statuses]
    /\ outcome \in [Chains -> Outcomes]
    /\ paused \subseteq Replicas

JobInit ==
    /\ Init
    /\ chain = [w \in Workers |-> NoChain]
    /\ attempt = [w \in Workers |-> 0]
    /\ timers = {}
    /\ execs = [c \in Chains |-> 0]
    /\ last = [c \in Chains |-> "none"]
    /\ outcome = [c \in Chains |-> "new"]
    /\ paused = {}

\* The invocation has yet to finish its handler.
Pending(w) == pc[w] \in {"acquiring", "granted", "running"}

-----------------------------------------------------------------------------
(* Ticks, triggers and retry timers call runWithRetry *)

BeginChain(w, c) ==
    /\ outcome[c] = "new"
    /\ Call(w)
    /\ chain' = [chain EXCEPT ![w] = c]
    /\ attempt' = [attempt EXCEPT ![w] = 1]
    /\ outcome' = [outcome EXCEPT ![c] = "undefined"]
    /\ UNCHANGED <<timers, execs, last, paused>>

\* The CronJob's callback.
CronTick(w, c) == Home[w] \notin paused /\ BeginChain(w, c)

\* triggerNow fires the callback outside the schedule, paused or not.
TriggerNow(w, c) == BeginChain(w, c)

\* Mutant: setInterval instead of setTimeout.
RetryTimerStaysArmed(w, t) ==
    /\ t \in timers
    /\ Home[w] = t.replica
    /\ Call(w)
    /\ chain' = [chain EXCEPT ![w] = t.chain]
    /\ attempt' = [attempt EXCEPT ![w] = t.attempt]
    /\ UNCHANGED <<timers, execs, last, outcome, paused>>

\* A retry timer fires in the replica that set it.
RetryTimer(w, t) ==
    /\ t \in timers
    /\ Home[w] = t.replica
    /\ Call(w)
    /\ timers' = timers \ {t}
    /\ chain' = [chain EXCEPT ![w] = t.chain]
    /\ attempt' = [attempt EXCEPT ![w] = t.attempt]
    /\ UNCHANGED <<execs, last, outcome, paused>>

-----------------------------------------------------------------------------
(* execute *)

\* Mutant: run anyway when the lock store cannot be reached (fail open).
BeginAttemptFailOpen(w) ==
    /\ pc[w] \in {"acquiring", "granted"}
    /\ pc' = [pc EXCEPT ![w] = "running"]
    /\ UNCHANGED <<envVars, token, leaseLost, renewal, hbAge>>
    /\ execs' = [execs EXCEPT ![chain[w]] = @ + 1]
    /\ last' = [last EXCEPT ![chain[w]] = "running"]
    /\ UNCHANGED <<chain, attempt, timers, outcome, paused>>

\* The lease is granted: the execution is pushed and the handler starts.
BeginAttempt(w) ==
    /\ Start(w)
    /\ execs' = [execs EXCEPT ![chain[w]] = @ + 1]
    /\ last' = [last EXCEPT ![chain[w]] = "running"]
    /\ UNCHANGED <<chain, attempt, timers, outcome, paused>>

HandlerSucceeds(w) ==
    /\ FnReturns(w)
    /\ last' = [last EXCEPT ![chain[w]] = "success"]
    /\ outcome' = [outcome EXCEPT ![chain[w]] = "success"]
    /\ UNCHANGED <<chain, attempt, timers, execs, paused>>

\* isPermanentJobError: no retry.
HandlerFailsPermanently(w) ==
    /\ FnReturns(w)
    /\ last' = [last EXCEPT ![chain[w]] = "failed"]
    /\ outcome' = [outcome EXCEPT ![chain[w]] = "permanent-failure"]
    /\ UNCHANGED <<chain, attempt, timers, execs, paused>>

\* A retryable error: arm the next attempt, whose jittered delay may be zero, or
\* give up after maxRetries.  execute itself does not throw.
HandlerFails(w) ==
    /\ FnReturns(w)
    /\ last' = [last EXCEPT ![chain[w]] = "failed"]
    /\ IF attempt[w] < MaxRetries
       THEN /\ timers' = timers \cup {[replica |-> Home[w], chain |-> chain[w],
                                       attempt |-> attempt[w] + 1]}
            /\ UNCHANGED outcome
       ELSE /\ outcome' = [outcome EXCEPT ![chain[w]] = "retries-exhausted"]
            /\ UNCHANGED timers
    /\ UNCHANGED <<chain, attempt, execs, paused>>

-----------------------------------------------------------------------------
(* Everything else *)

\* The parts of withLock the scheduler does not see.  { ran: false } and every
\* error end in a log line: runWithRetry arms no timer and records nothing.
InsideLock(w) ==
    /\ \/ Acquire(w) \/ AcquireHeld(w) \/ AcquireError(w)
       \/ Heartbeat(w) \/ Renew(w) \/ RenewError(w) \/ RenewReply(w)
       \/ Check(w) \/ CheckError(w) \/ Release(w) \/ ReleaseError(w)
    /\ chain' = IF pc'[w] = "idle" THEN [chain EXCEPT ![w] = NoChain] ELSE chain
    /\ attempt' = IF pc'[w] = "idle" THEN [attempt EXCEPT ![w] = 0] ELSE attempt
    /\ UNCHANGED <<timers, execs, last, outcome, paused>>

Pause(r) ==
    /\ r \notin paused
    /\ paused' = paused \cup {r}
    /\ UNCHANGED <<lockVars, chain, attempt, timers, execs, last, outcome>>

Resume(r) ==
    /\ r \in paused
    /\ paused' = paused \ {r}
    /\ UNCHANGED <<lockVars, chain, attempt, timers, execs, last, outcome>>

WorkersOf(r) == {w \in Workers : Home[w] = r}

\* The process dies, or onModuleDestroy clears its timers as it stops.
ReplicaStops(r) ==
    /\ Crash(WorkersOf(r))
    /\ chain' = [w \in Workers |-> IF Home[w] = r THEN NoChain ELSE chain[w]]
    /\ attempt' = [w \in Workers |-> IF Home[w] = r THEN 0 ELSE attempt[w]]
    /\ timers' = {t \in timers : t.replica # r}
    /\ UNCHANGED <<execs, last, outcome, paused>>

\* A new process registers the job again, with its cron running.
ReplicaStarts(r) ==
    /\ Restart(WorkersOf(r))
    /\ paused' = paused \ {r}
    /\ UNCHANGED <<chain, attempt, timers, execs, last, outcome>>

JobNext ==
    \/ \E w \in Workers :
          \/ \E c \in Chains : CronTick(w, c) \/ TriggerNow(w, c)
          \/ \E t \in timers : RetryTimer(w, t)
          \/ BeginAttempt(w) \/ HandlerSucceeds(w) \/ HandlerFails(w)
          \/ HandlerFailsPermanently(w) \/ InsideLock(w)
    \/ \E r \in Replicas :
          Pause(r) \/ Resume(r) \/ ReplicaStops(r) \/ ReplicaStarts(r)
    \/ Tick /\ UNCHANGED jobVars

JobSpec == JobInit /\ [][JobNext]_vars

-----------------------------------------------------------------------------
(* Properties *)

\* The scheduler uses the lease only as withLock allows: every run, retries
\* included, goes through it, and a handler starts on a granted lease only.
ImplementsLock == LockSpec

\* The attempts of one chain never overlap, even when leases expire under stalled
\* handlers: the retry timer is armed only after the handler has failed.
ChainSequential ==
    \A v, w \in Workers :
        /\ pc[v] = "running" /\ pc[w] = "running"
        /\ chain[v] = chain[w]
        => v = w

\* A chain's handler runs at most maxRetries times, and the attempt number a
\* running handler reports is the number of times the chain has run.
AttemptsCounted ==
    /\ \A c \in Chains : execs[c] <= MaxRetries
    /\ \A w \in Workers : pc[w] = "running" => attempt[w] = execs[chain[w]]

\* An outcome is final: a chain that succeeded, failed permanently or ran out of
\* retries has no retry timer and no invocation that could still run the handler.
SettledIsQuiet ==
    \A c \in Chains :
        outcome[c] \in {"success", "permanent-failure", "retries-exhausted"} =>
            /\ \A t \in timers : t.chain # c
            /\ \A w \in Workers : Pending(w) => chain[w] # c

\* "in a multi-replica deployment only one instance executes a job at a time":
\* true, and of two runs in one replica too, as long as the lease's timing holds;
\* a handler is given neither the abort signal nor assertCurrent, so a stalled
\* one goes on.
OneInstanceExecutes ==
    Timely /\ weather = "calm" =>
        \A v, w \in Workers :
            pc[v] = "running" /\ pc[w] = "running" => v = w

\* JobExecution.outcome is "Left undefined while a retry is still pending (the
\* failure isn't final yet)": as long as the run is calm and no replica stops, a
\* failed execution without an outcome has a retry timer or an invocation on its
\* way.
UndefinedMeansRetryPending ==
    weather = "calm" => \A c \in Chains :
        last[c] = "failed" /\ outcome[c] = "undefined" =>
            \/ \E t \in timers : t.chain = c
            \/ \E w \in Workers : Pending(w) /\ chain[w] = c
=============================================================================
