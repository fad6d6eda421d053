---------------------------- MODULE WebhookDelivery ----------------------------
(***************************************************************************)
(* One event on its way to one subscriber: deliverWithRetry for dispatchEvent, *)
(* the delivery queue, WebhookSenderService's attempts, a manual retry and *)
(* the reconciliation job.                                                 *)
(*                                                                         *)
(* deliverWithRetry makes a new record of the event whenever the last one  *)
(* could not be stored or enqueued.  Attempts are made by the jobs of a    *)
(* record and by the reconciliation job, which runs alone (its lock is     *)
(* DistributedLock); each saves the record it read.                        *)
(***************************************************************************)
EXTENDS Integers

CONSTANTS MaxDispatch,      \* deliverWithRetry's maxDeliveryAttempts
          MaxPosts,         \* WEBHOOK_MAX_ATTEMPTS
          StrikeLimit,      \* WEBHOOK_FAILURE_DISABLE_THRESHOLD
          Manual,           \* records the owner may retry
          MaxHiccups        \* bound: failures of the database, Redis and processes

ASSUME DeliveryAssumption ==
    /\ MaxDispatch \in Nat \ {0} /\ MaxPosts \in Nat \ {0} /\ StrikeLimit \in Nat \ {0}
    /\ MaxHiccups \in Nat

Deliveries == 1..MaxDispatch
Jobs == {[rec |-> r, kind |-> k] : r \in Deliveries, k \in {"auto", "manual"}}
Reconciler == [rec |-> 0, kind |-> "reconciler"]
Senders == Jobs \cup {Reconciler}

VARIABLES enabled,   \* the webhook's active
          strikes,   \* its consecutiveFailures
          dispatch,  \* where deliverWithRetry is: [step, try]
          record,    \* the delivery records: [status, attempts]
          jobState, jobTries, \* Bull's view of each job, and its attemptsMade
          attempt,   \* each sender's attempt: [step, rec, number]
          listed, copies, \* the reconciliation's candidates, as it read them
          manual, drafts, \* the owner's retry of each record: its step, what it read
          posts,     \* history: requests sent for each record, up to MaxPosts
          unsent,    \* history: records whose job spent an attempt without a request
          hiccups    \* bound counter

senderVars == <<attempt, jobState, jobTries>>
sweepVars == <<listed, copies>>
manualVars == <<manual, drafts>>
deliveryVars == <<enabled, strikes, dispatch, record, senderVars, sweepVars, manualVars,
                  posts, unsent, hiccups>>

NoRecord == [status |-> "none", attempts |-> 0]
Rest == [step |-> "idle", rec |-> 0, number |-> 0]

DeliveryInit ==
    /\ enabled = "yes" /\ strikes = 0
    /\ dispatch = [step |-> "save", try |-> 1]
    /\ record = [r \in Deliveries |-> NoRecord]
    /\ jobState = [j \in Jobs |-> "none"] /\ jobTries = [j \in Jobs |-> 0]
    /\ attempt = [s \in Senders |-> Rest]
    /\ listed = {} /\ copies = [r \in Deliveries |-> NoRecord]
    /\ manual = [r \in Deliveries |-> "idle"] /\ drafts = [r \in Deliveries |-> NoRecord]
    /\ posts = [r \in Deliveries |-> 0] /\ unsent = {} /\ hiccups = 0

Hiccup == hiccups < MaxHiccups /\ hiccups' = hiccups + 1
Step(s, l) == attempt' = [attempt EXCEPT ![s].step = l]
AddJob(j) == jobState' = [jobState EXCEPT ![j] = "waiting"]

-----------------------------------------------------------------------------
(* deliverWithRetry *)

NextTry ==
    dispatch' = IF dispatch.try = MaxDispatch THEN [dispatch EXCEPT !.step = "dead letter"]
                                              ELSE [step |-> "save", try |-> dispatch.try + 1]

SaveRecord ==
    /\ dispatch.step = "save"
    /\ record' = [record EXCEPT ![dispatch.try].status = "pending"]
    /\ dispatch' = [dispatch EXCEPT !.step = "enqueue"]
    /\ UNCHANGED <<enabled, strikes, senderVars, sweepVars, manualVars, posts, unsent, hiccups>>

EnqueueDelivery ==
    /\ dispatch.step = "enqueue"
    /\ AddJob([rec |-> dispatch.try, kind |-> "auto"])
    /\ dispatch' = [dispatch EXCEPT !.step = "end"]
    /\ UNCHANGED <<enabled, strikes, record, attempt, jobTries, sweepVars, manualVars, posts, unsent,
                   hiccups>>

\* The save or the enqueuing throws: the next try makes another record, and after
\* the last the event is in the dead-letter list of the process.
DispatchFails ==
    /\ dispatch.step \in {"save", "enqueue"} /\ Hiccup
    /\ NextTry
    /\ UNCHANGED <<enabled, strikes, record, senderVars, sweepVars, manualVars, posts, unsent>>

-----------------------------------------------------------------------------
(* An attempt of a job or of the reconciliation *)

\* The attempt of job j is over; after the last one Bull gives the job up.
JobThrows(j) ==
    /\ jobTries' = [jobTries EXCEPT ![j] = @ + 1]
    /\ jobState' = [jobState EXCEPT ![j] = IF jobTries[j] + 1 >= MaxPosts THEN "done" ELSE "waiting"]

Throws(s) ==
    /\ attempt' = [attempt EXCEPT ![s] = Rest]
    /\ IF s \in Jobs THEN JobThrows(s) ELSE UNCHANGED <<jobState, jobTries>>

\* deliverQueuedDelivery reads the record and its webhook.
TakeJob(j) ==
    /\ jobState[j] = "waiting" /\ enabled = "yes"
    /\ jobState' = [jobState EXCEPT ![j] = "active"]
    /\ attempt' = [attempt EXCEPT ![j] = [step |-> "post", rec |-> j.rec, number |-> jobTries[j] + 1]]
    /\ UNCHANGED <<enabled, strikes, dispatch, record, jobTries, sweepVars, manualVars, posts, unsent,
                   hiccups>>

\* A webhook that is switched off, or a read that throws, costs the job an attempt.
JobRefused(j) ==
    /\ jobState[j] = "waiting"
    /\ \/ enabled = "no" /\ UNCHANGED hiccups
       \/ Hiccup
    /\ JobThrows(j)
    /\ unsent' = unsent \cup {j.rec}
    /\ UNCHANGED <<enabled, strikes, dispatch, record, attempt, sweepVars, manualVars, posts>>

\* postAttempt: the subscriber answers, or not in time.
PostAttempt(s) ==
    /\ attempt[s].step = "post"
    /\ posts' = [posts EXCEPT ![attempt[s].rec] = IF @ < MaxPosts THEN @ + 1 ELSE @]
    /\ \E l \in {"delivered", "failed"} : Step(s, l)
    /\ UNCHANGED <<enabled, strikes, dispatch, record, jobState, jobTries, sweepVars, manualVars,
                   unsent, hiccups>>

SaveAttempt(s, status) ==
    record' = [record EXCEPT ![attempt[s].rec] = [status |-> status, attempts |-> attempt[s].number]]

\* recordDeliverySuccess, its save ...
RecordDeliverySuccess(s) ==
    /\ attempt[s].step = "delivered"
    /\ SaveAttempt(s, "success")
    /\ Step(s, "reset")
    /\ UNCHANGED <<enabled, strikes, dispatch, jobState, jobTries, sweepVars, manualVars, posts, unsent,
                   hiccups>>

\* ... and its update of the webhook.
ResetStrikes(s) ==
    /\ attempt[s].step = "reset"
    /\ strikes' = 0
    /\ attempt' = [attempt EXCEPT ![s] = Rest]
    /\ IF s \in Jobs THEN jobState' = [jobState EXCEPT ![s] = "done"] ELSE UNCHANGED jobState
    /\ UNCHANGED <<enabled, dispatch, record, jobTries, sweepVars, manualVars, posts, unsent, hiccups>>

\* Either throws: the catch block takes the delivery for a failed one.
SuccessNotRecorded(s) ==
    /\ attempt[s].step \in {"delivered", "reset"} /\ Hiccup
    /\ Step(s, "failed")
    /\ UNCHANGED <<enabled, strikes, dispatch, record, jobState, jobTries, sweepVars, manualVars, posts,
                   unsent>>

\* Mutant: attempts are counted from zero.
LastPostEarly(s) == attempt[s].number + 1 >= MaxPosts

\* isFinalAttempt.
LastPost(s) == attempt[s].number >= MaxPosts

\* recordDeliveryFailure.
RecordDeliveryFailure(s) ==
    /\ attempt[s].step = "failed"
    /\ IF LastPost(s)
          THEN SaveAttempt(s, "permanently_failed") /\ Step(s, "strike")
               /\ UNCHANGED <<jobState, jobTries>>
          ELSE SaveAttempt(s, "failed") /\ Throws(s)
    /\ UNCHANGED <<enabled, strikes, dispatch, sweepVars, manualVars, posts, unsent, hiccups>>

\* incrementConsecutiveFailures: the increment, ...
CountStrike(s) ==
    /\ attempt[s].step = "strike"
    /\ strikes' = IF strikes < StrikeLimit THEN strikes + 1 ELSE strikes
    /\ Step(s, "weigh")
    /\ UNCHANGED <<enabled, dispatch, record, jobState, jobTries, sweepVars, manualVars, posts, unsent,
                   hiccups>>

\* ... the second read, ...
WeighStrikes(s) ==
    /\ attempt[s].step = "weigh"
    /\ IF strikes >= StrikeLimit THEN Step(s, "disable") /\ UNCHANGED <<jobState, jobTries>>
                                 ELSE Throws(s)
    /\ UNCHANGED <<enabled, strikes, dispatch, record, sweepVars, manualVars, posts, unsent, hiccups>>

\* ... and the webhook is switched off.
DisableWebhook(s) ==
    /\ attempt[s].step = "disable"
    /\ enabled' = "no"
    /\ Throws(s)
    /\ UNCHANGED <<strikes, dispatch, record, sweepVars, manualVars, posts, unsent, hiccups>>

\* A statement of the catch block throws.
FailureNotRecorded(s) ==
    /\ attempt[s].step \in {"failed", "strike", "weigh", "disable"} /\ Hiccup
    /\ Throws(s)
    /\ UNCHANGED <<enabled, strikes, dispatch, record, sweepVars, manualVars, posts, unsent>>

\* The process stops: Bull hands a stalled job out again, with the same number.
SenderDies(s) ==
    /\ attempt[s].step # "idle" /\ Hiccup
    /\ attempt' = [attempt EXCEPT ![s] = Rest]
    /\ IF s \in Jobs THEN AddJob(s) /\ UNCHANGED sweepVars
                     ELSE listed' = {} /\ copies' = [r \in Deliveries |-> NoRecord] /\ UNCHANGED jobState
    /\ UNCHANGED <<enabled, strikes, dispatch, record, jobTries, manualVars, posts, unsent>>

-----------------------------------------------------------------------------
(* StellarCallbackReconciliationJob *)

Unsettled(r) == record[r].status \in {"pending", "failed"}


\* findCandidates; a record is due some time after it was stored or tried.  Its limit
\* on the attempts (10) is above the number a failed record can have (WEBHOOK_MAX_ATTEMPTS - 1).
FindCandidates(due) ==
    /\ listed = {} /\ attempt[Reconciler].step = "idle" /\ enabled = "yes"
    /\ listed' = {r \in due : Unsettled(r)} /\ listed' # {}
    /\ copies' = [r \in Deliveries |-> IF r \in listed' THEN record[r] ELSE NoRecord]
    /\ UNCHANGED <<enabled, strikes, dispatch, record, senderVars, manualVars, posts, unsent, hiccups>>

Done(r) == listed' = listed \ {r} /\ copies' = [copies EXCEPT ![r] = NoRecord]
Oldest == CHOOSE r \in listed : \A q \in listed : r <= q

\* A record of the event succeeded, perhaps this one: the copy is saved as it is.
SkipDelivered ==
    /\ listed # {} /\ attempt[Reconciler].step = "idle"
    /\ \E r \in Deliveries : record[r].status = "success"
    /\ record' = [record EXCEPT ![Oldest] = copies[Oldest]]
    /\ Done(Oldest)
    /\ UNCHANGED <<enabled, strikes, dispatch, senderVars, manualVars, posts, unsent, hiccups>>

\* retryInPlace.
RetryInPlace ==
    /\ listed # {} /\ attempt[Reconciler].step = "idle"
    /\ \A r \in Deliveries : record[r].status # "success"
    /\ attempt' = [attempt EXCEPT ![Reconciler] = [step |-> "post", rec |-> Oldest,
                                                   number |-> copies[Oldest].attempts + 1]]
    /\ Done(Oldest)
    /\ UNCHANGED <<enabled, strikes, dispatch, record, jobState, jobTries, manualVars, posts, unsent,
                   hiccups>>

-----------------------------------------------------------------------------
(* The owner *)

\* retryDelivery reads the record and its webhook; the attempts stay as they are.
RetryManually(r) ==
    /\ manual[r] = "idle" /\ r \in Manual
    /\ record[r].status # "none" /\ enabled = "yes"
    /\ drafts' = [drafts EXCEPT ![r] = [status |-> "pending", attempts |-> record[r].attempts]]
    /\ manual' = [manual EXCEPT ![r] = "save"]
    /\ UNCHANGED <<enabled, strikes, dispatch, record, senderVars, sweepVars, posts, unsent, hiccups>>

\* It saves what it read, whatever was saved since, ...
SaveManually(r) ==
    /\ manual[r] = "save"
    /\ \/ /\ record' = [record EXCEPT ![r] = drafts[r]]
          /\ manual' = [manual EXCEPT ![r] = "enqueue"]
          /\ UNCHANGED hiccups
       \/ Hiccup /\ manual' = [manual EXCEPT ![r] = "end"] /\ UNCHANGED record
    /\ drafts' = [drafts EXCEPT ![r] = NoRecord]
    /\ UNCHANGED <<enabled, strikes, dispatch, senderVars, sweepVars, posts, unsent>>

\* ... and adds the job.
EnqueueManually(r) ==
    /\ manual[r] = "enqueue"
    /\ \/ AddJob([rec |-> r, kind |-> "manual"]) /\ UNCHANGED hiccups
       \/ Hiccup /\ UNCHANGED jobState
    /\ manual' = [manual EXCEPT ![r] = "end"]
    /\ UNCHANGED <<enabled, strikes, dispatch, record, attempt, jobTries, sweepVars, drafts, posts, unsent>>

\* update() switches the webhook off and on.
SwitchWebhook ==
    /\ enabled' = IF enabled = "yes" THEN "no" ELSE "yes"
    /\ strikes' = IF enabled = "yes" THEN strikes ELSE 0
    /\ UNCHANGED <<dispatch, record, senderVars, sweepVars, manualVars, posts, unsent, hiccups>>

-----------------------------------------------------------------------------
SenderStep(s) ==
    \/ PostAttempt(s) \/ RecordDeliverySuccess(s) \/ ResetStrikes(s) \/ SuccessNotRecorded(s)
    \/ RecordDeliveryFailure(s) \/ CountStrike(s) \/ WeighStrikes(s) \/ DisableWebhook(s)
    \/ FailureNotRecorded(s)

DeliveryNext ==
    \/ SaveRecord \/ EnqueueDelivery \/ DispatchFails
    \/ \E j \in Jobs : TakeJob(j) \/ JobRefused(j)
    \/ \E s \in Senders : SenderStep(s) \/ SenderDies(s)
    \/ \E due \in SUBSET Deliveries : FindCandidates(due)
    \/ SkipDelivered \/ RetryInPlace
    \/ \E r \in Deliveries : RetryManually(r) \/ SaveManually(r) \/ EnqueueManually(r)
    \/ SwitchWebhook

DeliverySpec == DeliveryInit /\ [][DeliveryNext]_deliveryVars

-----------------------------------------------------------------------------
(* Properties *)

\* A record is given up only after MaxPosts requests, whoever of the jobs and the
\* reconciliation made them and whatever records they overwrote; unless its job
\* spent attempts while the webhook was switched off.
GivenUpWasTried ==
    \A r \in Deliveries : record[r].status = "permanently_failed" =>
        posts[r] >= MaxPosts \/ r \in unsent

=============================================================================
