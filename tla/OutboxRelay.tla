------------------------------ MODULE OutboxRelay ------------------------------
(***************************************************************************)
(* src/events/outbox: OutboxService.record and the relay that publishes    *)
(* what it recorded.                                                       *)
(*                                                                         *)
(* A row is one outbox event, numbered in created_at order.  A relay is    *)
(* one run of relay(): the cron fires every ten seconds in every replica   *)
(* and does not wait for the previous run.  Rows keep the columns that     *)
(* decide what happens to them; next_attempt_at and updated_at are kept as *)
(* the two answers the claim query asks of them (due and stale).           *)
(*                                                                         *)
(* Faults is the set of things that may go wrong: "emit" (a listener       *)
(* throws), "db" (an update of the row fails) and "crash" (a relay dies).  *)
(* A live relay may take longer than STALE_PROCESSING_MS over a row.       *)
(***************************************************************************)
EXTENDS Integers, FiniteSets

CONSTANTS Rows,        \* outbox rows, in created_at order
          Relays,      \* concurrent runs of relay()
          BatchSize,   \* BATCH_SIZE
          MaxAttempts, \* MAX_ATTEMPTS
          MaxAborts,   \* bound on the runs that end early
          Faults

ASSUME RowsAssumption == Rows \subseteq Nat
ASSUME BoundsAssumption ==
    BatchSize \in Nat \ {0} /\ MaxAttempts \in Nat \ {0} /\ MaxAborts \in Nat

VARIABLES status,    \* status of each row, "absent" before it is recorded
          attempts,  \* attempts column
          due,       \* next_attempt_at <= NOW()
          stale,     \* updated_at <= NOW() - STALE_PROCESSING_MS
          emits,     \* times the row's event was emitted, counted up to two
          batch,     \* rows each relay has claimed and not finished
          seen,      \* attempts of each row as each relay read it
          step,      \* what each relay does next
          aborts,    \* runs that ended early so far
          late       \* rows that went stale under a live relay

rowVars == <<status, attempts, due, stale>>
outboxVars == <<status, attempts, due, stale, emits, batch, seen, step, aborts, late>>

Statuses == {"absent", "pending", "processing", "published", "failed"}
Steps == {"claim", "emit", "mark", "catch"}

TypeOK ==
    /\ status \in [Rows -> Statuses]
    /\ attempts \in [Rows -> 0..MaxAttempts]
    /\ due \in [Rows -> BOOLEAN]
    /\ stale \in [Rows -> BOOLEAN]
    /\ emits \in [Rows -> 0..2]
    /\ batch \in [Relays -> SUBSET Rows]
    /\ seen \in [Relays -> [Rows -> 0..MaxAttempts]]
    /\ step \in [Relays -> Steps]
    /\ aborts \in 0..MaxAborts
    /\ late \subseteq Rows

Init ==
    /\ status = [x \in Rows |-> "absent"]
    /\ attempts = [x \in Rows |-> 0]
    /\ due = [x \in Rows |-> FALSE]
    /\ stale = [x \in Rows |-> FALSE]
    /\ emits = [x \in Rows |-> 0]
    /\ batch = [r \in Relays |-> {}]
    /\ seen = [r \in Relays |-> [x \in Rows |-> 0]]
    /\ step = [r \in Relays |-> "claim"]
    /\ aborts = 0
    /\ late = {}

\* The row the relay's for loop is at: rows come back ORDER BY created_at.
IsCurrent(r, x) == x \in batch[r] /\ \A y \in batch[r] : x <= y

\* The relay goes on to the next row, or its run is over.
NextRow(r, x) ==
    /\ batch' = [batch EXCEPT ![r] = @ \ {x}]
    /\ step' = [step EXCEPT ![r] = IF batch[r] = {x} THEN "claim" ELSE "emit"]
    /\ seen' = [seen EXCEPT ![r][x] = 0]

\* The run ends early: what it claimed and did not finish stays "processing".
EndRun(r) ==
    /\ aborts < MaxAborts
    /\ aborts' = aborts + 1
    /\ batch' = [batch EXCEPT ![r] = {}]
    /\ step' = [step EXCEPT ![r] = "claim"]
    /\ seen' = [seen EXCEPT ![r] = [x \in Rows |-> 0]]

-----------------------------------------------------------------------------
(* OutboxService.record *)

\* The transaction that records the event commits.  A second insert under the
\* same idempotency key is ignored, so only the first one changes anything.
Record(x) ==
    /\ status[x] = "absent"
    /\ status' = [status EXCEPT ![x] = "pending"]
    /\ due' = [due EXCEPT ![x] = TRUE]
    /\ UNCHANGED <<attempts, stale, emits, batch, seen, step, aborts, late>>

-----------------------------------------------------------------------------
(* OutboxRelayService *)

\* Mutant: every row still in "processing" is claimed again.
ClaimableEvenIfFresh == {x \in Rows : \/ status[x] = "pending" /\ due[x]
                                      \/ status[x] = "processing"}

\* Mutant: rows a dead relay left in "processing" are not picked up.
ClaimablePendingOnly == {x \in Rows : status[x] = "pending" /\ due[x]}

Claimable == {x \in Rows : \/ status[x] = "pending" /\ due[x]
                           \/ status[x] = "processing" /\ stale[x]}

\* claimBatch: lock the first BATCH_SIZE claimable rows and mark them.
ClaimBatch(r) ==
    /\ step[r] = "claim"
    /\ Claimable # {}
    /\ \E rows \in SUBSET Claimable :
          /\ rows # {}
          /\ \A x \in rows, y \in Claimable \ rows : x < y
          /\ Cardinality(rows) <= BatchSize
          /\ rows # Claimable => Cardinality(rows) = BatchSize
          /\ status' = [x \in Rows |-> IF x \in rows THEN "processing" ELSE status[x]]
          /\ stale' = [x \in Rows |-> x \notin rows /\ stale[x]]
          /\ batch' = [batch EXCEPT ![r] = rows]
          /\ seen' = [seen EXCEPT ![r] =
                         [x \in Rows |-> IF x \in rows THEN attempts[x] ELSE 0]]
    /\ step' = [step EXCEPT ![r] = "emit"]
    /\ UNCHANGED <<attempts, due, emits, aborts, late>>

\* publishOne: emitAsync resolves.
Emit(r, x) ==
    /\ step[r] = "emit" /\ IsCurrent(r, x)
    /\ emits' = [emits EXCEPT ![x] = IF @ < 2 THEN @ + 1 ELSE 2]
    /\ step' = [step EXCEPT ![r] = "mark"]
    /\ UNCHANGED <<rowVars, batch, seen, aborts, late>>

\* publishOne: a listener rejects.
EmitFails(r, x) ==
    /\ "emit" \in Faults
    /\ step[r] = "emit" /\ IsCurrent(r, x)
    /\ step' = [step EXCEPT ![r] = "catch"]
    /\ UNCHANGED <<rowVars, emits, batch, seen, aborts, late>>

\* publishOne: UPDATE ... SET status = 'published' WHERE id = row.id
MarkPublished(r, x) ==
    /\ step[r] = "mark" /\ IsCurrent(r, x)
    /\ status' = [status EXCEPT ![x] = "published"]
    /\ stale' = [stale EXCEPT ![x] = FALSE]
    /\ NextRow(r, x)
    /\ UNCHANGED <<attempts, due, emits, aborts, late>>

\* That update fails, inside the try: the catch block runs.
MarkFails(r, x) ==
    /\ "db" \in Faults
    /\ step[r] = "mark" /\ IsCurrent(r, x)
    /\ step' = [step EXCEPT ![r] = "catch"]
    /\ UNCHANGED <<rowVars, emits, batch, seen, aborts, late>>

\* The catch block: count the attempt the relay read, back off or give up.
RecordFailure(r, x) ==
    /\ step[r] = "catch" /\ IsCurrent(r, x)
    /\ attempts' = [attempts EXCEPT ![x] = seen[r][x] + 1]
    /\ status' = [status EXCEPT ![x] =
                     IF seen[r][x] + 1 >= MaxAttempts THEN "failed" ELSE "pending"]
    /\ due' = [due EXCEPT ![x] = FALSE]
    /\ stale' = [stale EXCEPT ![x] = FALSE]
    /\ NextRow(r, x)
    /\ UNCHANGED <<emits, aborts, late>>

\* The update of the catch block fails: relay() rejects.
RecordFailureFails(r, x) ==
    /\ "db" \in Faults
    /\ step[r] = "catch" /\ IsCurrent(r, x)
    /\ EndRun(r)
    /\ UNCHANGED <<rowVars, emits, late>>

-----------------------------------------------------------------------------
(* The environment *)

Crash(r) ==
    /\ "crash" \in Faults
    /\ step[r] # "claim"
    /\ EndRun(r)
    /\ UNCHANGED <<rowVars, emits, late>>

\* The backoff of a row runs out.
BecomesDue(x) ==
    /\ status[x] = "pending" /\ ~due[x]
    /\ due' = [due EXCEPT ![x] = TRUE]
    /\ UNCHANGED <<status, attempts, stale, emits, batch, seen, step, aborts, late>>

Claimed(x) == \E r \in Relays : x \in batch[r]

\* STALE_PROCESSING_MS pass since the row was marked.
BecomesStale(x) ==
    /\ status[x] = "processing" /\ ~stale[x]
    /\ stale' = [stale EXCEPT ![x] = TRUE]
    /\ late' = IF Claimed(x) THEN late \cup {x} ELSE late
    /\ UNCHANGED <<status, attempts, due, emits, batch, seen, step, aborts>>

RelayStep(r) ==
    \/ ClaimBatch(r)
    \/ \E x \in Rows :
          \/ Emit(r, x) \/ EmitFails(r, x)
          \/ MarkPublished(r, x) \/ MarkFails(r, x)
          \/ RecordFailure(r, x) \/ RecordFailureFails(r, x)

Next ==
    \/ \E x \in Rows : Record(x) \/ BecomesDue(x) \/ BecomesStale(x)
    \/ \E r \in Relays : RelayStep(r) \/ Crash(r)

Spec == Init /\ [][Next]_outboxVars

\* Timers fire and a live relay runs on: the cron fires every ten seconds, and
\* every await in relay() settles.  Nothing is assumed of Record or of faults.
Fairness ==
    /\ \A x \in Rows : WF_outboxVars(BecomesDue(x)) /\ WF_outboxVars(BecomesStale(x))
    /\ \A r \in Relays : WF_outboxVars(RelayStep(r))

FairSpec == Spec /\ Fairness

-----------------------------------------------------------------------------
(* Properties *)

\* A row the relay reports as published was emitted: no path of publishOne, no
\* crash, retry or takeover writes PUBLISHED without emitAsync having resolved.
PublishedWasEmitted == \A x \in Rows : status[x] = "published" => emits[x] > 0

\* A row is given up only after MAX_ATTEMPTS counted failures, and a row with
\* that many is never retried: a late relay may still publish it.
GivenUpIsExhausted ==
    \A x \in Rows :
        /\ status[x] = "failed" => attempts[x] >= MaxAttempts
        /\ attempts[x] >= MaxAttempts => status[x] \in {"failed", "published"}

\* Two relays never hold the same row unless it went stale under a live one:
\* SKIP LOCKED and the PROCESSING mark keep their batches apart.
OneClaimant ==
    \A r, q \in Relays : r # q => batch[r] \cap batch[q] \subseteq late

SettleStep ==
    \A x \in Rows : x \notin late =>
        /\ status[x] \in {"published", "failed"} => status'[x] = status[x]
        /\ attempts'[x] >= attempts[x]

\* ... and a published or given-up row that never did is never touched again and
\* its attempts only grow, although both updates of publishOne are unconditional
\* (WHERE id = row.id) and write the attempts read when the row was claimed.
SettledRowsAreFinal == [][SettleStep]_outboxVars

\* Listeners hear an event twice only for a reason: an attempt failed, the row went
\* stale under a live relay, or a run ended early.  The poll itself, of however many
\* relays, repeats nothing.
TwiceHasCause ==
    \A x \in Rows : emits[x] > 1 => attempts[x] > 0 \/ x \in late \/ aborts > 0

\* Every recorded event is eventually published or given up: a crash of the
\* relay that claimed it only delays it.
RecordedIsSettled ==
    \A x \in Rows : status[x] = "pending" ~> status[x] \in {"published", "failed"}
=============================================================================
