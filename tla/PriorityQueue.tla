----------------------------- MODULE PriorityQueue -----------------------------
(***************************************************************************)
(* The priority queues: PriorityQueueService, PriorityQueueWorker, the     *)
(* sweep of QueueBackpressureService and the dead letters of               *)
(* JobErrorHandler, for ONE job of the low-priority queue.                 *)
(*                                                                         *)
(* A job has two states: Bull's own, and the lifecycle key the service     *)
(* keeps beside it with Lua scripts.  Executors are the slots of the       *)
(* workers' pools; Callers are requestCancellation calls.  Jobs share      *)
(* nothing, so one is enough; the replacement the sweep enqueues is        *)
(* another job of the same kind, under an identifier of its own.           *)
(***************************************************************************)
EXTENDS Integers

CONSTANTS Executors, Callers,
          Attempts,     \* opts.attempts
          QueueFaults   \* subset of {"stall", "crash", "redis"}

ASSUME AttemptsAssumption == Attempts \in Nat \ {0}

VARIABLES life,    \* the lifecycle key; "none" when there is no key
          bull,    \* Bull's state of the job
          made,    \* job.attemptsMade
          stalls,  \* how often Bull has taken the job back
          holder,  \* the executor whose lock Bull accepts
          at,      \* where each dispatch is
          fatal,   \* executors whose error is a permanent one
          call, told, \* where each cancellation is, and its answer
          sweep,   \* where promoteStarvedJobs is
          letters, \* dead letters captured for the job
          trouble  \* history: what went wrong so far

workVars == <<at, fatal>>
callVars == <<call, told>>
queueVars == <<life, bull, made, stalls, holder, workVars, callVars, sweep, letters, trouble>>

Terminal == {"cancelled", "completed", "failed"}
Lives == {"none", "waiting", "running", "cancellation_requested"} \cup Terminal
NoExecutor == "none"

ASSUME NoExecutorAssumption == NoExecutor \notin Executors

QueueTypeOK ==
    /\ life \in Lives
    /\ bull \in {"none", "waiting", "delayed", "active", "completed", "failed", "removed"}
    /\ made \in 0..Attempts
    /\ stalls \in 0..2
    /\ holder \in Executors \cup {NoExecutor}
    /\ at \in [Executors -> {"idle", "begin", "checkpoint", "run", "stop", "complete", "drop",
                             "throw", "ack", "nack", "capture", "dead"}]
    /\ fatal \subseteq Executors
    /\ call \in [Callers -> {"idle", "found", "requested", "remove", "locked", "mark", "reread", "end"}]
    /\ told \in [Callers -> {"none", "error"} \cup Lives]
    /\ sweep \in {"idle", "listed", "added", "end"}
    /\ letters \in 0..Attempts
    /\ trouble \subseteq {"stall", "outage", "fatal"}

\* The job is not enqueued yet, or was enqueued by a version of the application
\* that kept no lifecycle key.
QueueInit ==
    /\ bull \in {"none", "waiting"} /\ life = "none"
    /\ made = 0 /\ stalls = 0 /\ holder = NoExecutor
    /\ at = [e \in Executors |-> "idle"] /\ fatal = {}
    /\ call = [c \in Callers |-> "idle"] /\ told = [c \in Callers |-> "none"]
    /\ sweep = "idle" /\ letters = 0 /\ trouble = {}

SetLife(s) == life' = s
SetBull(s) == bull' = s
MoveTo(e, l) == at' = [at EXCEPT ![e] = l]
Note(f) ==
    /\ f \in QueueFaults
    /\ trouble' = trouble \cup {IF f = "stall" THEN "stall" ELSE "outage"}

-----------------------------------------------------------------------------
(* addJob *)

\* SET NX: the key reserves the identifier.
ReserveJob ==
    /\ bull = "none" /\ life = "none"
    /\ SetLife("waiting")
    /\ UNCHANGED <<bull, made, stalls, holder, workVars, callVars, sweep, letters, trouble>>

EnqueueJob ==
    /\ bull = "none" /\ life = "waiting"
    /\ SetBull("waiting")
    /\ UNCHANGED <<life, made, stalls, holder, workVars, callVars, sweep, letters, trouble>>

\* queue.add throws: REMOVE_INITIAL_STATE_SCRIPT frees the identifier.
EnqueueFails ==
    /\ Note("redis")
    /\ bull = "none" /\ life = "waiting"
    /\ SetLife("none")
    /\ UNCHANGED <<bull, made, stalls, holder, workVars, callVars, sweep, letters>>

-----------------------------------------------------------------------------
(* dispatch *)

\* Bull hands a waiting job to a worker with a free slot.  The slots are alike, so
\* that it does not matter which.
Fetch(e) ==
    /\ at[e] = "idle" /\ bull = "waiting"
    /\ e = CHOOSE free \in Executors : at[free] = "idle"
    /\ SetBull("active")
    /\ holder' = e
    /\ MoveTo(e, "begin")
    /\ UNCHANGED <<life, made, stalls, fatal, callVars, sweep, letters, trouble>>

\* BEGIN_JOB_SCRIPT: a cancelled job is dropped, one that has ended is refused
\* with a PermanentError, outside the try block.
BeginProcessing(e) ==
    /\ at[e] = "begin"
    /\ IF life \in {"none", "waiting"} THEN SetLife("running") ELSE UNCHANGED life
    /\ MoveTo(e, CASE life \in {"cancelled", "cancellation_requested"} -> "drop"
                 [] life \in {"completed", "failed"} -> "nack"
                 [] OTHER -> "checkpoint")
    /\ fatal' = IF life \in {"completed", "failed"} THEN fatal \cup {e} ELSE fatal
    /\ UNCHANGED <<bull, made, stalls, holder, callVars, sweep, letters, trouble>>

\* checkpoint(), before the handler.
PassCheckpoint(e) ==
    /\ at[e] = "checkpoint"
    /\ MoveTo(e, IF life = "cancellation_requested" THEN "stop" ELSE "run")
    /\ UNCHANGED <<life, bull, made, stalls, holder, fatal, callVars, sweep, letters, trouble>>

\* checkpoint(), called by the handler, finds a request.
HandlerStops(e) ==
    /\ at[e] = "run" /\ life = "cancellation_requested"
    /\ MoveTo(e, "stop")
    /\ UNCHANGED <<life, bull, made, stalls, holder, fatal, callVars, sweep, letters, trouble>>

HandlerReturns(e) ==
    /\ at[e] = "run"
    /\ MoveTo(e, "complete")
    /\ UNCHANGED <<life, bull, made, stalls, holder, fatal, callVars, sweep, letters, trouble>>

\* The handler throws, or there is none for the job's type (a PermanentError).
HandlerThrows(e) ==
    /\ at[e] = "run"
    /\ \/ UNCHANGED <<fatal, trouble>>
       \/ fatal' = fatal \cup {e} /\ trouble' = trouble \cup {"fatal"}
    /\ MoveTo(e, "throw")
    /\ UNCHANGED <<life, bull, made, stalls, holder, callVars, sweep, letters>>

CancelScript ==
    IF life = "cancellation_requested" THEN SetLife("cancelled") ELSE UNCHANGED life

\* The checkpoint that found a request carries it out and throws
\* JobCancellationRequestedError, which dispatch catches.
StopAtCheckpoint(e) ==
    /\ at[e] = "stop"
    /\ CancelScript
    /\ MoveTo(e, "drop")
    /\ UNCHANGED <<bull, made, stalls, holder, fatal, callVars, sweep, letters, trouble>>

\* Mutant: the request stays in the lifecycle key.
DropCancelledUnmarked(e) ==
    /\ at[e] = "drop"
    /\ MoveTo(e, "ack")
    /\ UNCHANGED <<life, bull, made, stalls, holder, fatal, callVars, sweep, letters, trouble>>

\* cancelRequestedProcessing, of a job begun too late or of the caught error; the job's result says it was cancelled.
DropCancelled(e) ==
    /\ at[e] = "drop"
    /\ CancelScript
    /\ MoveTo(e, "ack")
    /\ UNCHANGED <<bull, made, stalls, holder, fatal, callVars, sweep, letters, trouble>>

\* Mutant: only a running job is completed, a request is left as it is.
CompleteProcessingLate(e) ==
    /\ at[e] = "complete"
    /\ SetLife(IF life = "running" THEN "completed" ELSE life)
    /\ MoveTo(e, "ack")
    /\ UNCHANGED <<bull, made, stalls, holder, fatal, callVars, sweep, letters, trouble>>

\* COMPLETE_JOB_SCRIPT: a request that came too late for a checkpoint still wins.
CompleteProcessing(e) ==
    /\ at[e] = "complete"
    /\ SetLife(CASE life = "cancellation_requested" -> "cancelled"
                    [] life \in {"running", "waiting"} -> "completed"
                    [] OTHER -> life)
    /\ MoveTo(e, "ack")
    /\ UNCHANGED <<bull, made, stalls, holder, fatal, callVars, sweep, letters, trouble>>

LastAttempt == made + 1 >= Attempts

\* Mutant: the last attempt is not recognised as the last.
RecordThrowOffByOne(e) ==
    /\ at[e] = "throw"
    /\ IF life = "running" THEN SetLife("waiting") ELSE UNCHANGED life
    /\ MoveTo(e, IF life = "cancelled" THEN "ack" ELSE "nack")
    /\ UNCHANGED <<bull, made, stalls, holder, fatal, callVars, sweep, letters, trouble>>

\* RETRY_JOB_SCRIPT while attempts are left, FAIL_JOB_SCRIPT after the last.
RecordThrow(e) ==
    /\ at[e] = "throw"
    /\ IF LastAttempt
          THEN /\ SetLife(IF life \in Terminal THEN life ELSE "failed")
               /\ MoveTo(e, "nack")
          ELSE /\ SetLife(IF life = "running" THEN "waiting" ELSE life)
               /\ MoveTo(e, IF life = "cancelled" THEN "ack" ELSE "nack")
    /\ UNCHANGED <<bull, made, stalls, holder, fatal, callVars, sweep, letters, trouble>>

\* A script throws: inside the try block the error is caught and recorded,
\* elsewhere it leaves dispatch.
ScriptFails(e) ==
    /\ Note("redis")
    /\ at[e] \in {"begin", "checkpoint", "stop", "complete", "drop", "throw"}
    /\ MoveTo(e, IF at[e] \in {"checkpoint", "stop", "complete"} THEN "throw" ELSE "nack")
    /\ UNCHANGED <<life, bull, made, stalls, holder, fatal, callVars, sweep, letters>>

-----------------------------------------------------------------------------
(* Bull (external): what it does with the outcome of dispatch *)

\* Only the lock's holder can move the job, and moving it frees the lock.
AckJob(e) ==
    /\ at[e] = "ack"
    /\ IF holder = e THEN SetBull("completed") /\ holder' = NoExecutor
                     ELSE UNCHANGED <<bull, holder>>
    /\ MoveTo(e, "idle")
    /\ fatal' = fatal \ {e}
    /\ UNCHANGED <<life, made, stalls, callVars, sweep, letters, trouble>>

\* A failed attempt is retried after its backoff, whatever its error; the
\* "failed" event follows, and JobErrorHandler looks at the error.
NackJob(e) ==
    /\ at[e] = "nack"
    /\ IF holder = e
          THEN /\ SetBull(IF LastAttempt THEN "failed" ELSE "delayed")
               /\ made' = made + 1
               /\ holder' = NoExecutor
               /\ MoveTo(e, IF LastAttempt \/ e \in fatal THEN "capture" ELSE "idle")
          ELSE UNCHANGED <<bull, made, holder>> /\ MoveTo(e, "idle")
    /\ fatal' = fatal \ {e}
    /\ UNCHANGED <<life, stalls, callVars, sweep, letters, trouble>>

\* JobErrorHandler.handleTerminal.
CaptureDeadLetter(e) ==
    /\ at[e] = "capture"
    /\ letters' = letters + 1
    /\ MoveTo(e, "idle")
    /\ UNCHANGED <<life, bull, made, stalls, holder, fatal, callVars, sweep, trouble>>

BackoffEnds ==
    /\ bull = "delayed"
    /\ SetBull("waiting")
    /\ UNCHANGED <<life, made, stalls, holder, workVars, callVars, sweep, letters, trouble>>

\* The lock of an active job expires: Bull hands it out again once, and fails it
\* the second time.  Its executor, if alive, does not know.
JobStalls ==
    /\ Note("stall")
    /\ bull = "active"
    /\ SetBull(IF stalls > 0 THEN "failed" ELSE "waiting")
    /\ stalls' = stalls + 1
    /\ holder' = NoExecutor
    /\ UNCHANGED <<life, made, workVars, callVars, sweep, letters>>

ExecutorDies(e) ==
    /\ Note("crash")
    /\ at[e] \notin {"idle", "dead"}
    /\ MoveTo(e, "dead")
    /\ fatal' = fatal \ {e}
    /\ UNCHANGED <<life, bull, made, stalls, holder, callVars, sweep, letters>>

-----------------------------------------------------------------------------
(* requestCancellation *)

CallTo(c, l) == call' = [call EXCEPT ![c] = l]
Answer(c, a) == CallTo(c, "end") /\ told' = [told EXCEPT ![c] = a]

\* getJob, and without a job the state its key still tells.
FindJob(c) ==
    /\ call[c] = "idle"
    /\ IF bull \in {"none", "removed"}
          THEN Answer(c, IF life \in Terminal \cup {"cancellation_requested"} THEN life
                                                                                 ELSE "error")
          ELSE CallTo(c, "found") /\ UNCHANGED told
    /\ UNCHANGED <<life, bull, made, stalls, holder, workVars, sweep, letters, trouble>>

\* A job without a key: it gets one only if it waits.
AdoptJob(c) ==
    /\ call[c] = "found" /\ life = "none"
    /\ CASE bull \in {"completed", "failed"} -> Answer(c, bull) /\ UNCHANGED life
         [] bull \in {"waiting", "delayed"} -> SetLife("waiting") /\ UNCHANGED <<call, told>>
         [] OTHER -> Answer(c, "error") /\ UNCHANGED life
    /\ UNCHANGED <<bull, made, stalls, holder, workVars, sweep, letters, trouble>>

\* Mutant: a running job is called cancelled at once.
RequestCancellationAtOnce(c) ==
    /\ call[c] = "found" /\ life # "none"
    /\ IF life \in Terminal
          THEN Answer(c, life) /\ UNCHANGED life
          ELSE SetLife("cancelled") /\ CallTo(c, "requested") /\ UNCHANGED told
    /\ UNCHANGED <<bull, made, stalls, holder, workVars, sweep, letters, trouble>>

\* REQUEST_CANCELLATION_SCRIPT.
RequestCancellation(c) ==
    /\ call[c] = "found" /\ life # "none"
    /\ IF life \in Terminal
          THEN Answer(c, life) /\ UNCHANGED life
          ELSE SetLife("cancellation_requested") /\ CallTo(c, "requested") /\ UNCHANGED told
    /\ UNCHANGED <<bull, made, stalls, holder, workVars, sweep, letters, trouble>>

\* job.getState().
InspectJob(c) ==
    /\ call[c] = "requested"
    /\ CallTo(c, IF bull \in {"waiting", "delayed"} THEN "remove" ELSE "reread")
    /\ UNCHANGED <<life, bull, made, stalls, holder, workVars, told, sweep, letters, trouble>>

\* job.remove() refuses a job that a worker has locked since.
RemoveJob(c) ==
    /\ call[c] = "remove"
    /\ IF bull = "active"
          THEN CallTo(c, "locked") /\ UNCHANGED bull
          ELSE CallTo(c, "mark") /\ SetBull("removed")
    /\ UNCHANGED <<life, made, stalls, holder, workVars, told, sweep, letters, trouble>>

\* The error is thrown on if the job is not active any more.
CheckLocked(c) ==
    /\ call[c] = "locked"
    /\ IF bull = "active" THEN CallTo(c, "reread") /\ UNCHANGED told ELSE Answer(c, "error")
    /\ UNCHANGED <<life, bull, made, stalls, holder, workVars, sweep, letters, trouble>>

\* cancelRequestedJob.
MarkCancelled(c) ==
    /\ call[c] = "mark"
    /\ CancelScript
    /\ Answer(c, IF life = "cancellation_requested" THEN "cancelled" ELSE life)
    /\ UNCHANGED <<bull, made, stalls, holder, workVars, sweep, letters, trouble>>

RereadState(c) ==
    /\ call[c] = "reread"
    /\ Answer(c, life)
    /\ UNCHANGED <<life, bull, made, stalls, holder, workVars, sweep, letters, trouble>>

CallDies(c) ==
    /\ Note("crash")
    /\ call[c] \notin {"idle", "end"}
    /\ CallTo(c, "end")
    /\ UNCHANGED <<life, bull, made, stalls, holder, workVars, told, sweep, letters>>

-----------------------------------------------------------------------------
(* promoteStarvedJobs *)

\* getWaiting; the job has waited long enough.
FindStarved ==
    /\ sweep = "idle" /\ bull = "waiting"
    /\ sweep' = "listed"
    /\ UNCHANGED <<life, bull, made, stalls, holder, workVars, callVars, letters, trouble>>

\* addJob at HIGH priority, under a new identifier.
PromoteStarved ==
    /\ sweep = "listed"
    /\ sweep' = "added"
    /\ UNCHANGED <<life, bull, made, stalls, holder, workVars, callVars, letters, trouble>>

\* The payload's version is unsupported or addJob throws: the job stays.
PromoteFails ==
    /\ sweep = "listed"
    /\ sweep' = "idle"
    /\ UNCHANGED <<life, bull, made, stalls, holder, workVars, callVars, letters, trouble>>

\* The replacement is enqueued; remove() fails if a worker has the job by now.
RemovePromoted ==
    /\ sweep = "added"
    /\ IF bull = "active" THEN UNCHANGED bull ELSE SetBull("removed")
    /\ sweep' = "end"
    /\ UNCHANGED <<life, made, stalls, holder, workVars, callVars, letters, trouble>>

-----------------------------------------------------------------------------
WorkerStep(e) ==
    \/ BeginProcessing(e) \/ PassCheckpoint(e) \/ HandlerStops(e) \/ HandlerReturns(e)
    \/ HandlerThrows(e) \/ StopAtCheckpoint(e) \/ DropCancelled(e) \/ CompleteProcessing(e)
    \/ RecordThrow(e) \/ ScriptFails(e) \/ AckJob(e) \/ NackJob(e) \/ CaptureDeadLetter(e)

CallStep(c) ==
    \/ AdoptJob(c) \/ RequestCancellation(c) \/ InspectJob(c) \/ RemoveJob(c)
    \/ CheckLocked(c) \/ MarkCancelled(c) \/ RereadState(c)

BullStep == BackoffEnds \/ \E e \in Executors : Fetch(e)

QueueNext ==
    \/ ReserveJob \/ EnqueueJob \/ EnqueueFails
    \/ BullStep \/ JobStalls
    \/ \E e \in Executors : WorkerStep(e) \/ ExecutorDies(e)
    \/ \E c \in Callers : FindJob(c) \/ CallStep(c) \/ CallDies(c)
    \/ FindStarved \/ PromoteStarved \/ PromoteFails \/ RemovePromoted

QueueSpec == QueueInit /\ [][QueueNext]_queueVars

\* Workers, Bull's timers and requests that have begun go on.  Nothing is assumed
\* of new requests or of the sweep.
QueueFairness ==
    /\ \A e \in Executors : WF_queueVars(WorkerStep(e))
    /\ \A c \in Callers : WF_queueVars(CallStep(c))
    /\ WF_queueVars(BullStep)

QueueFairSpec == QueueSpec /\ QueueFairness

-----------------------------------------------------------------------------
(* Properties *)

\* A job Bull keeps as completed has ended in its lifecycle too, whatever
\* stalls, dies or fails: no client is told that it still runs.
CompletedHasEnded == bull = "completed" => life \in Terminal

\* Once a caller was told "cancelled", no worker starts the job's handler, also if
\* it fetched the job while the call was under way.  A worker that lost its lock
\* without knowing may.
CancelledIsNotStarted ==
    [][\A e \in Executors, c \in Callers :
          /\ "stall" \notin trouble
          /\ told[c] = "cancelled"
          => ~(at[e] = "checkpoint" /\ at'[e] = "run")]_queueVars

\* A dead letter stands for a job that failed: replaying it repeats nothing that
\* was completed.  Until a worker stops, loses its lock or Redis, or throws a
\* permanent error, which Bull retries all the same.
DeadLetterHasFailed == trouble = {} /\ letters > 0 => life = "failed" /\ letters = 1

\* The handler runs at most once at a time, and a dispatch is recorded before another
\* handler starts, as long as no lock is lost: a worker that dies keeps the job until
\* its lock expires.
HandlersRunAlone ==
    "stall" \notin trouble =>
        \A e, f \in Executors :
            {at[e], at[f]} \subseteq {"run", "complete", "throw"} => e = f

\* The scripts let no end of the lifecycle be overwritten, by a worker that lost its
\* lock, a late cancellation or the sweep.
EndIsFinal == [][(life \in Terminal) => life' = life]_queueVars

\* An accepted cancellation is carried out or overtaken by the job's end, unless
\* something goes wrong or the sweep takes the job away.
RequestIsSettled ==
    life = "cancellation_requested" ~>
        life \in Terminal \/ sweep = "end" \/ trouble \cap {"stall", "outage"} # {}
=============================================================================
