------------------------------- MODULE TradeDlq -------------------------------
(***************************************************************************)
(* A trade after its transaction was submitted: ConfirmationPolling and    *)
(* the monitor job follow the transaction, users retry a failed trade,     *)
(* failed retry jobs come back through TradeDlqProcessor, administrators   *)
(* discard it, and the nightly cleanup removes what was discarded.         *)
(*                                                                         *)
(* Every actor reads the row, works on its copy, and saves the whole copy. *)
(* The transactions queue has no handler for "execute-trade", so a retry   *)
(* job always fails; its attempts are one step here.                       *)
(***************************************************************************)
EXTENDS Integers, FiniteSets

CONSTANTS Retriers, Admins, Pollers, Monitors, FailureHandlers,
          MaxRetries,   \* dlq.maxRetryAttempts
          MaxEnqueued,  \* bound: retry jobs ever enqueued
          MaxBusy,      \* bound: actors at work at once, besides the failure handlers
          DlqFaults     \* subset of {"crash"}

ASSUME DlqAssumption ==
    /\ MaxRetries \in Nat /\ MaxEnqueued \in Nat /\ MaxBusy \in Nat
    /\ IsFiniteSet(Retriers)

VARIABLES tradeRow, \* the trade
          chain,    \* what the ledger says of its transaction
          queued,   \* retry jobs in the queue
          deadJobs, \* the trade's entries in the dead-letter queue
          doing,    \* where each actor is
          copy,     \* the row as each actor read it
          stale,    \* actors whose copy is older than the row
          enqueued, \* history: retry jobs ever added
          upset     \* history: subset of {"lost", "crash"}

dlqVars == <<tradeRow, chain, queued, deadJobs, doing, copy, stale, enqueued, upset>>

DlqActors == Retriers \cup Admins \cup Pollers \cup Monitors \cup FailureHandlers

TradeRow == [status : {"PENDING", "EXECUTING", "CONFIRMED", "SETTLED", "FAILED"},
             hash : {"none", "tx"}, discarded : {"no", "yes"}, deleted : {"no", "yes"},
             retries : 0..MaxEnqueued]

NoCopy == [status |-> "FAILED", hash |-> "none", discarded |-> "no", deleted |-> "no", retries |-> 0]

DlqInit ==
    /\ tradeRow \in [status : {"PENDING", "EXECUTING", "FAILED"}, hash : {"none", "tx"},
                     discarded : {"no"}, deleted : {"no"}, retries : {0}]
    /\ chain = "unknown"
    /\ queued = 0 /\ deadJobs = 0 /\ enqueued = 0
    /\ doing = [a \in DlqActors |-> "idle"] /\ copy = [a \in DlqActors |-> NoCopy]
    /\ stale = {} /\ upset = {}

\* findOne skips a soft-deleted row.
ReadTrade(a, l) ==
    /\ tradeRow.deleted = "no"
    /\ copy' = [copy EXCEPT ![a] = tradeRow]
    /\ stale' = stale \ {a}
    /\ doing' = [doing EXCEPT ![a] = l]

NewCall(a) ==
    /\ doing[a] = "idle"
    /\ Cardinality({b \in DlqActors \ FailureHandlers : doing[b] \notin {"idle", "end"}}) < MaxBusy

Holding == {a \in DlqActors : doing[a] \notin {"idle", "capture", "end"}}

\* tradeRepository.save: every column of the copy that differs is written.
SaveTrade(a, new, l) ==
    /\ tradeRow' = new
    /\ stale' = Holding \ {a}
    /\ upset' = IF a \in stale THEN upset \cup {"lost"} ELSE upset
    /\ doing' = [doing EXCEPT ![a] = l]
    /\ copy' = [copy EXCEPT ![a] = NoCopy]

Proceed(a, l) == doing' = [doing EXCEPT ![a] = l] /\ UNCHANGED <<copy, stale>>

\* The actor is done without a save.
Leave(a, l) ==
    /\ doing' = [doing EXCEPT ![a] = l]
    /\ copy' = [copy EXCEPT ![a] = NoCopy]
    /\ stale' = stale \ {a}

-----------------------------------------------------------------------------
\* The ledger (external) decides once.
TransactionCloses ==
    /\ chain = "unknown"
    /\ chain' \in {"success", "failed"}
    /\ UNCHANGED <<tradeRow, queued, deadJobs, doing, copy, stale, enqueued, upset>>

\* pollUntilSettled.
StartPolling(a) ==
    /\ NewCall(a)
    /\ ReadTrade(a, "poll")
    /\ UNCHANGED <<tradeRow, chain, queued, deadJobs, enqueued, upset>>

\* handleConfirmed, handleFailed.
PollSettles(a) ==
    /\ doing[a] = "poll" /\ chain # "unknown"
    /\ SaveTrade(a, IF chain = "success" THEN [copy[a] EXCEPT !.status = "CONFIRMED", !.hash = "tx"]
                                         ELSE [copy[a] EXCEPT !.status = "FAILED"], "end")
    /\ UNCHANGED <<chain, queued, deadJobs, enqueued>>

\* handleTimeout: the polls found nothing, or did not get through.
PollTimesOut(a) ==
    /\ doing[a] = "poll"
    /\ SaveTrade(a, [copy[a] EXCEPT !.status = "FAILED"], "end")
    /\ UNCHANGED <<chain, queued, deadJobs, enqueued>>

\* checkStatuses reads the trades that are not settled.
MonitorReads(a) ==
    /\ NewCall(a) /\ tradeRow.status \in {"PENDING", "CONFIRMED", "EXECUTING"}
    /\ ReadTrade(a, "check")
    /\ UNCHANGED <<tradeRow, chain, queued, deadJobs, enqueued, upset>>

\* checkTradeStatus: PENDING and EXECUTING become CONFIRMED and at once SETTLED.
MonitorChecks(a) ==
    /\ doing[a] = "check"
    /\ IF copy[a].hash = "none" \/ chain = "unknown"
          THEN Leave(a, "idle") /\ UNCHANGED <<tradeRow, upset>>
          ELSE SaveTrade(a, [copy[a] EXCEPT !.status = IF chain = "success" THEN "SETTLED"
                                                                            ELSE "FAILED"], "idle")
    /\ UNCHANGED <<chain, queued, deadJobs, enqueued>>

-----------------------------------------------------------------------------
\* retryTrade: the caller's own check, then canRetry's on a second read.
StartRetry(a) ==
    /\ NewCall(a) /\ tradeRow.status = "FAILED"
    /\ ReadTrade(a, "ask")
    /\ UNCHANGED <<tradeRow, chain, queued, deadJobs, enqueued, upset>>

\* canRetry; the cooldown may always have passed, or not.
CanRetry(a) ==
    /\ doing[a] = "ask"
    /\ \/ /\ tradeRow.deleted = "no" /\ tradeRow.status = "FAILED" /\ tradeRow.discarded = "no"
          /\ tradeRow.retries < MaxRetries
          /\ Proceed(a, "enqueue")
       \/ Leave(a, "idle")
    /\ UNCHANGED <<tradeRow, chain, queued, deadJobs, enqueued, upset>>

EnqueueRetry(a) ==
    /\ doing[a] = "enqueue" /\ enqueued < MaxEnqueued
    /\ queued' = queued + 1 /\ enqueued' = enqueued + 1
    /\ Proceed(a, "save")
    /\ UNCHANGED <<tradeRow, chain, deadJobs, upset>>

\* Mutant: the retry is not entered in retryHistory.
SaveRetryUncounted(a) ==
    /\ doing[a] = "save"
    /\ SaveTrade(a, [copy[a] EXCEPT !.status = "PENDING"], "idle")
    /\ UNCHANGED <<chain, queued, deadJobs, enqueued>>

\* The copy read first is saved, with one more entry in retryHistory.
SaveRetry(a) ==
    /\ doing[a] = "save"
    /\ SaveTrade(a, [copy[a] EXCEPT !.status = "PENDING", !.retries = @ + 1], "idle")
    /\ UNCHANGED <<chain, queued, deadJobs, enqueued>>

-----------------------------------------------------------------------------
\* The job's attempts are used up: handleFailedJob reads the trade.
JobExhausted(a) ==
    /\ doing[a] = "idle" /\ queued > 0
    /\ queued' = queued - 1
    /\ IF tradeRow.deleted = "no" THEN ReadTrade(a, "mark") ELSE Proceed(a, "capture")
    /\ UNCHANGED <<tradeRow, chain, deadJobs, enqueued, upset>>

\* Mutant: the trade keeps its status.
MarkFailedKeepsStatus(a) ==
    /\ doing[a] = "mark"
    /\ SaveTrade(a, copy[a], "capture")
    /\ UNCHANGED <<chain, queued, deadJobs, enqueued>>

MarkFailed(a) ==
    /\ doing[a] = "mark"
    /\ SaveTrade(a, [copy[a] EXCEPT !.status = "FAILED"], "capture")
    /\ UNCHANGED <<chain, queued, deadJobs, enqueued>>

\* deadLetterService.capture.
CaptureLetter(a) ==
    /\ doing[a] = "capture"
    /\ deadJobs' = deadJobs + 1
    /\ Proceed(a, "idle")
    /\ UNCHANGED <<tradeRow, chain, queued, enqueued, upset>>

\* discardFailedJob.
StartDiscard(a) ==
    /\ NewCall(a) /\ tradeRow.status = "FAILED"
    /\ ReadTrade(a, "letter")
    /\ UNCHANGED <<tradeRow, chain, queued, deadJobs, enqueued, upset>>

\* The first entry that names the trade is removed, the others stay.
DiscardLetter(a) ==
    /\ doing[a] = "letter"
    /\ IF deadJobs > 0 THEN deadJobs' = deadJobs - 1
                      ELSE UNCHANGED <<deadJobs>>
    /\ Proceed(a, "discard")
    /\ UNCHANGED <<tradeRow, chain, queued, enqueued, upset>>

SaveDiscard(a) ==
    /\ doing[a] = "discard"
    /\ SaveTrade(a, [copy[a] EXCEPT !.discarded = "yes"], "idle")
    /\ UNCHANGED <<chain, queued, deadJobs, enqueued>>

\* cleanupOldEntries, of a trade and of an entry older than the retention.
ArchiveDiscarded ==
    /\ tradeRow.status = "FAILED" /\ tradeRow.discarded = "yes" /\ tradeRow.deleted = "no"
    /\ tradeRow' = [tradeRow EXCEPT !.deleted = "yes"]
    /\ stale' = Holding
    /\ UNCHANGED <<chain, queued, deadJobs, doing, copy, enqueued, upset>>

RemoveOldLetter ==
    /\ deadJobs > 0
    /\ deadJobs' = deadJobs - 1
    /\ UNCHANGED <<tradeRow, chain, queued, doing, copy, stale, enqueued, upset>>

\* The save or the capture throws, which onFailed only logs, or the process stops.
\* The other actors need no such step: they may stop anywhere.
FailureHandlingFails(a) ==
    /\ "crash" \in DlqFaults
    /\ doing[a] \in {"mark", "capture"}
    /\ upset' = upset \cup {"crash"}
    /\ Leave(a, "idle")
    /\ UNCHANGED <<tradeRow, chain, queued, deadJobs, enqueued>>

-----------------------------------------------------------------------------
DlqNext ==
    \/ TransactionCloses
    \/ \E a \in Pollers : StartPolling(a) \/ PollSettles(a) \/ PollTimesOut(a)
    \/ \E a \in Monitors : MonitorReads(a) \/ MonitorChecks(a)
    \/ \E a \in Retriers : StartRetry(a) \/ CanRetry(a) \/ EnqueueRetry(a) \/ SaveRetry(a)
    \/ \E a \in FailureHandlers :
          JobExhausted(a) \/ MarkFailed(a) \/ CaptureLetter(a) \/ FailureHandlingFails(a)
    \/ \E a \in Admins : StartDiscard(a) \/ DiscardLetter(a) \/ SaveDiscard(a)
    \/ ArchiveDiscarded \/ RemoveOldLetter

DlqSpec == DlqInit /\ [][DlqNext]_dlqVars

-----------------------------------------------------------------------------
(* Properties *)

\* Every retry job ever enqueued is in the row's retryHistory, which canRetry
\* limits, or will be once its call has saved: until a stale copy is saved
\* or an actor stops.
RetriesAreCounted ==
    upset = {} =>
        enqueued = tradeRow.retries + Cardinality({a \in Retriers : doing[a] = "save"})

\* A retried trade that is PENDING has a job that will end this, in the queue or at
\* its failure handler, until an old copy is saved: retryTrade's own, if the job it
\* has enqueued fails before its save, leaves the trade PENDING for good.
RetriedHasJob ==
    upset = {} /\ tradeRow.status = "PENDING" /\ tradeRow.retries > 0 =>
        queued > 0 \/ \E a \in FailureHandlers : doing[a] = "mark"
=============================================================================
