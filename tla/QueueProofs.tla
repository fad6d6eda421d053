------------------------------ MODULE QueueProofs ------------------------------
(***************************************************************************)
(* Proofs about work that waits in a queue: the rows of OutboxRelay, for   *)
(* any set of rows and relays; and the job of PriorityQueue, for any       *)
(* executors and callers.                                                  *)
(***************************************************************************)
EXTENDS OutboxRelay, PriorityQueue, TLAPS

-----------------------------------------------------------------------------
(* The outbox relay *)

\* TypeOK with attempts unbounded.
Shape ==
    /\ status \in [Rows -> Statuses]
    /\ attempts \in [Rows -> Nat]
    /\ due \in [Rows -> BOOLEAN]
    /\ stale \in [Rows -> BOOLEAN]
    /\ emits \in [Rows -> 0..2]
    /\ batch \in [Relays -> SUBSET Rows]
    /\ seen \in [Relays -> [Rows -> Nat]]
    /\ step \in [Relays -> Steps]
    /\ aborts \in 0..MaxAborts
    /\ late \subseteq Rows

\* A relay between emitAsync and its update has emitted the row it is at.
EmitInv ==
    /\ \A x \in Rows : status[x] = "published" => emits[x] > 0
    /\ \A r \in Relays, x \in Rows :
          step[r] = "mark" /\ IsCurrent(r, x) => emits[x] > 0

\* A row that can still be attempted, and every claim on one, has attempts left.
AttemptInv ==
    /\ \A x \in Rows :
          /\ status[x] = "failed" => attempts[x] = MaxAttempts
          /\ status[x] \in {"absent", "pending", "processing"} => attempts[x] < MaxAttempts
          /\ attempts[x] <= MaxAttempts
    /\ \A r \in Relays, x \in Rows : seen[r][x] < MaxAttempts

\* A claimed row that did not go stale under its relay is a fresh "processing"
\* row whose attempts nobody else has counted, and it is claimed once.
ClaimInv ==
    /\ \A r \in Relays : step[r] = "claim" => batch[r] = {}
    /\ \A r \in Relays : \A x \in batch[r] \ late :
          status[x] = "processing" /\ ~stale[x] /\ seen[r][x] = attempts[x]
    /\ \A r, q \in Relays : r # q => batch[r] \cap batch[q] \subseteq late

\* The inductive invariant of the relay.
RelayInv == Shape /\ EmitInv /\ AttemptInv /\ ClaimInv

\* It holds before a row is recorded.
LEMMA RelayInitInv == Init => RelayInv
<1> SUFFICES ASSUME Init PROVE RelayInv
  OBVIOUS
<1> USE BoundsAssumption DEF Init
<1>1. Shape
  BY DEF Shape, Statuses, Steps
<1>2. EmitInv
  BY DEF EmitInv
<1>3. AttemptInv
  BY DEF AttemptInv
<1>4. ClaimInv
  BY ZenonT(30) DEF ClaimInv
<1> QED
  BY <1>1, <1>2, <1>3, <1>4 DEF RelayInv

-----------------------------------------------------------------------------
(* Each conjunct is preserved by every step.  USE-d once per lemma: the facts
   about the state before the step. *)

\* Types.
LEMMA ShapeNext == ASSUME RelayInv, [Next]_outboxVars PROVE Shape'
<1> USE BoundsAssumption DEF RelayInv, Shape, Statuses, Steps, rowVars
<1>1. ASSUME NEW x \in Rows, Record(x) \/ BecomesDue(x) \/ BecomesStale(x) PROVE Shape'
  <2>1. CASE Record(x)
    BY <2>1 DEF Record
  <2>2. CASE BecomesDue(x)
    BY <2>2 DEF BecomesDue
  <2>3. CASE BecomesStale(x)
    BY <2>3 DEF BecomesStale
  <2> QED
    BY <1>1, <2>1, <2>2, <2>3
<1>2. ASSUME NEW r \in Relays, ClaimBatch(r) PROVE Shape'
  BY <1>2 DEF ClaimBatch, Claimable
<1>3. ASSUME NEW r \in Relays, NEW x \in Rows, Emit(r, x) \/ EmitFails(r, x) \/ MarkFails(r, x)
      PROVE  Shape'
  <2>1. emits' \in [Rows -> 0..2]
    BY <1>3 DEF Emit, EmitFails, MarkFails
  <2>2. step' \in [Relays -> Steps]
    BY <1>3, Zenon DEF Emit, EmitFails, MarkFails
  <2> QED
    BY <1>3, <2>1, <2>2 DEF Emit, EmitFails, MarkFails
<1>4. ASSUME NEW r \in Relays, NEW x \in Rows, MarkPublished(r, x) PROVE Shape'
  BY <1>4 DEF MarkPublished, NextRow
<1>5. ASSUME NEW r \in Relays, NEW x \in Rows, RecordFailure(r, x) PROVE Shape'
  BY <1>5 DEF RecordFailure, NextRow
<1>6. ASSUME NEW r \in Relays, NEW x \in Rows, RecordFailureFails(r, x) PROVE Shape'
  BY <1>6 DEF RecordFailureFails, EndRun
<1>7. ASSUME NEW r \in Relays, Crash(r) PROVE Shape'
  BY <1>7 DEF Crash, EndRun
<1>8. CASE UNCHANGED outboxVars
  BY <1>8 DEF outboxVars
<1> QED
  BY <1>1, <1>2, <1>3, <1>4, <1>5, <1>6, <1>7, <1>8 DEF Next, RelayStep

\* Emitting comes before marking.
LEMMA EmitNext == ASSUME RelayInv, [Next]_outboxVars PROVE EmitInv'
<1> USE DEF RelayInv, Shape, Statuses, Steps, EmitInv, IsCurrent, rowVars
<1>1. ASSUME NEW x \in Rows, Record(x) \/ BecomesDue(x) \/ BecomesStale(x) PROVE EmitInv'
  <2>1. CASE Record(x)
    BY <2>1 DEF Record
  <2>2. CASE BecomesDue(x)
    BY <2>2 DEF BecomesDue
  <2>3. CASE BecomesStale(x)
    BY <2>3 DEF BecomesStale
  <2> QED
    BY <1>1, <2>1, <2>2, <2>3
<1>2. ASSUME NEW r \in Relays, ClaimBatch(r) PROVE EmitInv'
  BY <1>2 DEF ClaimBatch, Claimable
<1>3. ASSUME NEW r \in Relays, NEW x \in Rows, Emit(r, x) PROVE EmitInv'
  <2>1. emits'[x] > 0 /\ \A y \in Rows : emits[y] > 0 => emits'[y] > 0
    <3>1. /\ emits' = [emits EXCEPT ![x] = IF emits[x] < 2 THEN emits[x] + 1 ELSE 2]
          /\ emits \in [Rows -> 0..2]
      BY <1>3 DEF Emit
    <3> HIDE DEF RelayInv, Shape, EmitInv
    <3>2. emits'[x] = IF emits[x] < 2 THEN emits[x] + 1 ELSE 2
      BY <3>1
    <3>3. emits[x] \in 0..2 /\ \A y \in Rows \ {x} : emits'[y] = emits[y]
      BY <3>1
    <3> QED
      BY <3>2, <3>3
  <2>2. \A y \in Rows : IsCurrent(r, y)' => y = x
    <3>1. batch' = batch /\ x \in batch[r] /\ \A z \in batch[r] : x <= z
      BY <1>3 DEF Emit
    <3>2. x \in Nat /\ \A y \in Rows : y \in Nat
      BY RowsAssumption
    <3> QED
      BY <3>1, <3>2
  <2>3. \A q \in Relays \ {r} : step'[q] = step[q]
    BY <1>3 DEF Emit
  <2>4. batch' = batch /\ status' = status
    BY <1>3 DEF Emit
  <2>5. \A y \in Rows : status'[y] = "published" => emits'[y] > 0
    BY <2>1, <2>4
  <2>6. ASSUME NEW q \in Relays, NEW y \in Rows, step'[q] = "mark", IsCurrent(q, y)'
        PROVE  emits'[y] > 0
    <3>1. CASE q = r
      BY <3>1, <2>1, <2>2, <2>6
    <3>2. CASE q # r
      BY <3>2, <2>1, <2>3, <2>4, <2>6
    <3> QED
      BY <3>1, <3>2
  <2> QED
    BY <2>5, <2>6
<1>4. ASSUME NEW r \in Relays, NEW x \in Rows, EmitFails(r, x) \/ MarkFails(r, x) PROVE EmitInv'
  BY <1>4 DEF EmitFails, MarkFails
<1>5. ASSUME NEW r \in Relays, NEW x \in Rows, MarkPublished(r, x) PROVE EmitInv'
  BY <1>5 DEF MarkPublished, NextRow
<1>6. ASSUME NEW r \in Relays, NEW x \in Rows, RecordFailure(r, x) PROVE EmitInv'
  BY <1>6 DEF RecordFailure, NextRow
<1>7. ASSUME NEW r \in Relays, NEW x \in Rows, RecordFailureFails(r, x) PROVE EmitInv'
  BY <1>7 DEF RecordFailureFails, EndRun
<1>8. ASSUME NEW r \in Relays, Crash(r) PROVE EmitInv'
  BY <1>8 DEF Crash, EndRun
<1>9. CASE UNCHANGED outboxVars
  BY <1>9 DEF outboxVars
<1> QED
  BY <1>1, <1>2, <1>3, <1>4, <1>5, <1>6, <1>7, <1>8, <1>9 DEF Next, RelayStep

\* The failure that reaches MAX_ATTEMPTS is the one the code gives up at.
LEMMA FinalAttempt ==
    ASSUME NEW n \in Nat, NEW m \in Nat, n < m, n + 1 >= m
    PROVE  n + 1 = m
BY SMTT(30)

\* Attempts are counted within the limit.
LEMMA AttemptNext == ASSUME RelayInv, [Next]_outboxVars PROVE AttemptInv'
<1> USE BoundsAssumption DEF RelayInv, Shape, Statuses, Steps, AttemptInv, rowVars
<1>1. ASSUME NEW x \in Rows, Record(x) \/ BecomesDue(x) \/ BecomesStale(x) PROVE AttemptInv'
  <2>1. CASE Record(x)
    BY <2>1 DEF Record
  <2>2. CASE BecomesDue(x)
    BY <2>2 DEF BecomesDue
  <2>3. CASE BecomesStale(x)
    BY <2>3 DEF BecomesStale
  <2> QED
    BY <1>1, <2>1, <2>2, <2>3
<1>2. ASSUME NEW r \in Relays, ClaimBatch(r) PROVE AttemptInv'
  BY <1>2 DEF ClaimBatch, Claimable
<1>3. ASSUME NEW r \in Relays, NEW x \in Rows, Emit(r, x) \/ EmitFails(r, x) \/ MarkFails(r, x)
      PROVE  AttemptInv'
  BY <1>3 DEF Emit, EmitFails, MarkFails
<1>4. ASSUME NEW r \in Relays, NEW x \in Rows, MarkPublished(r, x) PROVE AttemptInv'
  BY <1>4 DEF MarkPublished, NextRow
<1>5. ASSUME NEW r \in Relays, NEW x \in Rows, RecordFailure(r, x) PROVE AttemptInv'
  <2>1. seen[r][x] \in Nat /\ seen[r][x] < MaxAttempts
    OBVIOUS
  <2>2. ASSUME NEW y \in Rows
        PROVE  /\ status'[y] = "failed" => attempts'[y] = MaxAttempts
               /\ status'[y] \in {"absent", "pending", "processing"} => attempts'[y] < MaxAttempts
               /\ attempts'[y] <= MaxAttempts
    <3>1. CASE y = x
      <4>1. attempts'[y] = seen[r][x] + 1
        BY <1>5, <3>1 DEF RecordFailure
      <4>2. status'[y] = IF seen[r][x] + 1 >= MaxAttempts THEN "failed" ELSE "pending"
        BY <1>5, <3>1 DEF RecordFailure
      <4>3. CASE seen[r][x] + 1 >= MaxAttempts
        <5>1. seen[r][x] + 1 = MaxAttempts
          <6> HIDE DEF RelayInv, Shape, AttemptInv, rowVars
          <6>1. MaxAttempts \in Nat
            OBVIOUS
          <6> HIDE BoundsAssumption
          <6> QED
            BY <2>1, <4>3, <6>1, FinalAttempt
        <5>2. status'[y] = "failed" /\ attempts'[y] = MaxAttempts
          BY <4>1, <4>2, <4>3, <5>1
        <5> QED
          BY <5>2
      <4>4. CASE ~(seen[r][x] + 1 >= MaxAttempts)
        <5>1. status'[y] = "pending"
          BY <4>2, <4>4
        <5>2. attempts'[y] < MaxAttempts /\ attempts'[y] <= MaxAttempts
          BY <2>1, <4>1, <4>4
        <5> QED
          BY <5>1, <5>2
      <4> QED
        BY <4>3, <4>4
    <3>2. CASE y # x
      BY <1>5, <3>2 DEF RecordFailure
    <3> QED
      BY <3>1, <3>2
  <2>3. ASSUME NEW q \in Relays, NEW y \in Rows PROVE seen'[q][y] < MaxAttempts
    BY <1>5 DEF RecordFailure, NextRow
  <2> QED
    BY <2>2, <2>3
<1>6. ASSUME NEW r \in Relays, NEW x \in Rows, RecordFailureFails(r, x) PROVE AttemptInv'
  BY <1>6 DEF RecordFailureFails, EndRun
<1>7. ASSUME NEW r \in Relays, Crash(r) PROVE AttemptInv'
  BY <1>7 DEF Crash, EndRun
<1>8. CASE UNCHANGED outboxVars
  BY <1>8 DEF outboxVars
<1> QED
  BY <1>1, <1>2, <1>3, <1>4, <1>5, <1>6, <1>7, <1>8, ZenonT(30) DEF Next, RelayStep

\* A row is claimed once until it goes stale.
LEMMA ClaimNext == ASSUME RelayInv, [Next]_outboxVars PROVE ClaimInv'
<1> USE DEF RelayInv, Shape, Statuses, Steps, ClaimInv, rowVars
<1>1. ASSUME NEW x \in Rows, Record(x) \/ BecomesDue(x) PROVE ClaimInv'
  BY <1>1 DEF Record, BecomesDue
<1>2. ASSUME NEW x \in Rows, BecomesStale(x) PROVE ClaimInv'
  BY <1>2 DEF BecomesStale, Claimed
<1>3. ASSUME NEW r \in Relays, ClaimBatch(r) PROVE ClaimInv'
  <2>1. PICK rows \in SUBSET Claimable :
          /\ status' = [x \in Rows |-> IF x \in rows THEN "processing" ELSE status[x]]
          /\ stale' = [x \in Rows |-> x \notin rows /\ stale[x]]
          /\ batch' = [batch EXCEPT ![r] = rows]
          /\ seen' = [seen EXCEPT ![r] =
                         [x \in Rows |-> IF x \in rows THEN attempts[x] ELSE 0]]
    BY <1>3, Zenon DEF ClaimBatch
  <2>2. rows \subseteq Rows /\ \A q \in Relays : rows \cap batch[q] \subseteq late
    BY DEF Claimable
  <2>3. step' = [step EXCEPT ![r] = "emit"] /\ attempts' = attempts /\ late' = late
    BY <1>3 DEF ClaimBatch
  <2>4. \A q \in Relays : step'[q] = "claim" => batch'[q] = {}
    BY <2>1, <2>3
  <2>5. ASSUME NEW q \in Relays, NEW x \in batch'[q] \ late'
        PROVE  status'[x] = "processing" /\ ~stale'[x] /\ seen'[q][x] = attempts'[x]
    <3>1. CASE q = r
      BY <2>1, <2>2, <2>3, <2>5, <3>1, Zenon
    <3>2. CASE q # r
      BY <2>1, <2>2, <2>3, <2>5, <3>2
    <3> QED
      BY <3>1, <3>2
  <2>6. \A p, q \in Relays : p # q => batch'[p] \cap batch'[q] \subseteq late'
    BY <2>1, <2>2, <2>3
  <2> QED
    BY <2>4, <2>5, <2>6
<1>4. ASSUME NEW r \in Relays, NEW x \in Rows, Emit(r, x) \/ EmitFails(r, x) \/ MarkFails(r, x)
      PROVE  ClaimInv'
  <2>1. UNCHANGED <<rowVars, batch, seen, late>>
    BY <1>4 DEF Emit, EmitFails, MarkFails
  <2>2. \A q \in Relays : step'[q] = "claim" => step[q] = "claim"
    BY <1>4 DEF Emit, EmitFails, MarkFails
  <2> QED
    BY <2>1, <2>2
<1>5. ASSUME NEW r \in Relays, NEW x \in Rows, MarkPublished(r, x) PROVE ClaimInv'
  BY <1>5 DEF MarkPublished, NextRow, IsCurrent
<1>6. ASSUME NEW r \in Relays, NEW x \in Rows, RecordFailure(r, x) PROVE ClaimInv'
  BY <1>6 DEF RecordFailure, NextRow, IsCurrent
<1>7. ASSUME NEW r \in Relays, NEW x \in Rows, RecordFailureFails(r, x) PROVE ClaimInv'
  BY <1>7 DEF RecordFailureFails, EndRun
<1>8. ASSUME NEW r \in Relays, Crash(r) PROVE ClaimInv'
  BY <1>8 DEF Crash, EndRun
<1>9. CASE UNCHANGED outboxVars
  BY <1>9 DEF outboxVars
<1> QED
  BY <1>1, <1>2, <1>3, <1>4, <1>5, <1>6, <1>7, <1>8, <1>9, Zenon DEF Next, RelayStep

\* The inductive invariant of the relay.
THEOREM RelayInvariance == Spec => []RelayInv
<1>1. RelayInv /\ [Next]_outboxVars => RelayInv'
  BY ShapeNext, EmitNext, AttemptNext, ClaimNext DEF RelayInv
<1> QED
  BY <1>1, RelayInitInv, PTL DEF Spec

\* TypeOK: attempts never passes MAX_ATTEMPTS, even when a relay that was
\* taken over writes back the count it read.
THEOREM TypeCorrect == Spec => []TypeOK
<1>1. RelayInv => TypeOK
  BY BoundsAssumption DEF RelayInv, Shape, AttemptInv, TypeOK
<1> QED
  BY <1>1, RelayInvariance, PTL

\* PublishedWasEmitted, under every fault.
THEOREM PublishedEmitted == Spec => []PublishedWasEmitted
<1>1. RelayInv => PublishedWasEmitted
  BY DEF RelayInv, EmitInv, PublishedWasEmitted
<1> QED
  BY <1>1, RelayInvariance, PTL

\* GivenUpIsExhausted, under every fault.
THEOREM GivenUpExhausted == Spec => []GivenUpIsExhausted
<1>1. RelayInv => GivenUpIsExhausted
  BY BoundsAssumption DEF RelayInv, Shape, Statuses, AttemptInv, GivenUpIsExhausted
<1> QED
  BY <1>1, RelayInvariance, PTL

\* OneClaimant: relays share a row only once it went stale under one of them.
THEOREM ClaimsDisjoint == Spec => []OneClaimant
<1>1. RelayInv => OneClaimant
  BY DEF RelayInv, ClaimInv, OneClaimant
<1> QED
  BY <1>1, RelayInvariance, PTL

\* A settled row that is not late is left alone.
LEMMA SettleNext == ASSUME RelayInv, [Next]_outboxVars PROVE SettleStep
<1> USE DEF RelayInv, Shape, Statuses, ClaimInv, SettleStep, rowVars
<1>1. ASSUME NEW x \in Rows, Record(x) \/ BecomesDue(x) \/ BecomesStale(x) PROVE SettleStep
  BY <1>1 DEF Record, BecomesDue, BecomesStale
<1>2. ASSUME NEW r \in Relays, ClaimBatch(r) PROVE SettleStep
  BY <1>2 DEF ClaimBatch, Claimable
<1>3. ASSUME NEW r \in Relays, NEW x \in Rows, MarkPublished(r, x) \/ RecordFailure(r, x)
      PROVE  SettleStep
  <2>1. x \in batch[r]
    BY <1>3 DEF MarkPublished, RecordFailure, IsCurrent
  <2>2. x \notin late => status[x] = "processing" /\ seen[r][x] = attempts[x] /\ attempts[x] \in Nat
    BY <2>1
  <2>3. \A y \in Rows \ {x} : status'[y] = status[y] /\ attempts'[y] = attempts[y]
    BY <1>3 DEF MarkPublished, RecordFailure
  <2>4. attempts'[x] \in {attempts[x], seen[r][x] + 1}
    BY <1>3 DEF MarkPublished, RecordFailure
  <2>5. \A y \in Rows : attempts[y] \in Nat
    OBVIOUS
  <2> HIDE DEF RelayInv, Shape, ClaimInv
  <2> QED
    BY <2>2, <2>3, <2>4, <2>5
<1>4. ASSUME NEW r \in Relays, NEW x \in Rows,
             \/ Emit(r, x) \/ EmitFails(r, x) \/ MarkFails(r, x) \/ RecordFailureFails(r, x)
      PROVE  SettleStep
  BY <1>4 DEF Emit, EmitFails, MarkFails, RecordFailureFails
<1>5. ASSUME NEW r \in Relays, Crash(r) PROVE SettleStep
  BY <1>5 DEF Crash
<1>6. CASE UNCHANGED outboxVars
  BY <1>6 DEF outboxVars
<1> QED
  BY <1>1, <1>2, <1>3, <1>4, <1>5, <1>6, Zenon DEF Next, RelayStep

\* SettledRowsAreFinal: the unconditional updates of publishOne never touch a
\* settled row that did not go stale under its relay.
THEOREM SettledStaySettled == Spec => SettledRowsAreFinal
<1>1. RelayInv /\ [Next]_outboxVars => [SettleStep]_outboxVars
  BY SettleNext
<1> QED
  BY <1>1, RelayInvariance, PTL DEF Spec, SettledRowsAreFinal

-----------------------------------------------------------------------------
(* Duplicates *)

\* As long as nothing disturbs row x, a relay has it while it is "processing", and
\* in its first attempt it is emitted only by the relay that is at it.
Once(x) ==
    /\ status[x] = "processing" => Claimed(x)
    /\ attempts[x] = 0 =>
          /\ emits[x] <= 1
          /\ status[x] \in {"absent", "pending"} => emits[x] = 0
          /\ \A r \in Relays :
                x \in batch[r] /\ ~(step[r] \in {"mark", "catch"} /\ IsCurrent(r, x)) => emits[x] = 0

\* Nothing disturbs a row before it is late or a run ends early.
OnceInv == \A x \in Rows : aborts = 0 /\ x \notin late => Once(x)

\* Steps that leave a row and every batch it is in alone.
LEMMA OnceUntouched ==
    ASSUME NEW x \in Rows, Once(x), status'[x] = status[x], attempts'[x] = attempts[x],
           emits'[x] = emits[x], UNCHANGED <<batch, step>>
    PROVE  Once(x)'
BY DEF Once, Claimed, IsCurrent

\* The row a relay is at is the first of its batch.
LEMMA OneIsCurrent ==
    ASSUME NEW r \in Relays, NEW x \in Rows, NEW y \in Rows, IsCurrent(r, x), IsCurrent(r, y)
    PROVE  x = y
BY RowsAssumption DEF IsCurrent

\* Every step keeps Once of a row that stays undisturbed.
LEMMA OnceNext == ASSUME RelayInv, OnceInv, [Next]_outboxVars PROVE OnceInv'
<1> SUFFICES ASSUME NEW x \in Rows, aborts' = 0, x \notin late' PROVE Once(x)'
  BY DEF OnceInv
<1>0. Shape /\ ClaimInv
  BY DEF RelayInv
<1>1. aborts \in Nat /\ (\A r \in Relays : ~EndRun(r))
  BY <1>0, BoundsAssumption DEF Shape, EndRun
<1>2. aborts' = aborts /\ late \subseteq late'
  BY <1>1, Zenon DEF Next, RelayStep, Record, BecomesDue, BecomesStale, ClaimBatch, Emit, EmitFails,
     MarkPublished, MarkFails, RecordFailure, RecordFailureFails, Crash, outboxVars
<1>3. Once(x) /\ x \notin late
  BY <1>2 DEF OnceInv
<1>4. ASSUME NEW y \in Rows, Record(y) PROVE Once(x)'
  BY <1>0, <1>3, <1>4 DEF Record, Shape, Once, Claimed, IsCurrent
<1>5. ASSUME NEW y \in Rows, BecomesDue(y) \/ BecomesStale(y) PROVE Once(x)'
  BY <1>3, <1>5, OnceUntouched, Zenon DEF BecomesDue, BecomesStale
<1>6. ASSUME NEW r \in Relays, ClaimBatch(r) PROVE Once(x)'
  <2>1. PICK rows \in SUBSET Claimable :
          /\ status' = [z \in Rows |-> IF z \in rows THEN "processing" ELSE status[z]]
          /\ batch' = [batch EXCEPT ![r] = rows]
    BY <1>6, Zenon DEF ClaimBatch
  <2>2. batch[r] = {} /\ step' = [step EXCEPT ![r] = "emit"] /\ UNCHANGED <<attempts, emits>>
    BY <1>0, <1>6, Zenon DEF ClaimBatch, ClaimInv
  <2>3. x \in Claimable => status[x] = "pending"
    <3>1. status[x] = "processing" => ~stale[x]
      BY <1>0, <1>3, Zenon DEF ClaimInv, Once, Claimed
    <3> QED
      BY <3>1, Zenon DEF Claimable
  <2>4. CASE x \in rows
    <3>1. Claimed(x)'
      BY <1>0, <2>1, <2>4, ZenonT(30) DEF Claimed, Shape
    <3>2. status'[x] = "processing" /\ (attempts[x] = 0 => emits[x] = 0)
      BY <1>3, <2>1, <2>3, <2>4 DEF Once
    <3> QED
      BY <2>2, <3>1, <3>2 DEF Once
  <2>5. CASE x \notin rows
    <3>1. status'[x] = status[x] /\ \A q \in Relays : x \in batch'[q] <=> q # r /\ x \in batch[q]
      BY <1>0, <2>1, <2>5 DEF Shape
    <3>2. \A q \in Relays \ {r} : batch'[q] = batch[q] /\ step'[q] = step[q]
      BY <1>0, <2>1, <2>2 DEF Shape
    <3> QED
      BY <1>3, <2>2, <3>1, <3>2 DEF Once, Claimed, IsCurrent
  <2> QED
    BY <2>4, <2>5
<1>7. ASSUME NEW r \in Relays, NEW y \in Rows, Emit(r, y) PROVE Once(x)'
  <2>1. /\ step[r] = "emit" /\ IsCurrent(r, y) /\ step' = [step EXCEPT ![r] = "mark"]
        /\ emits' = [emits EXCEPT ![y] = IF @ < 2 THEN @ + 1 ELSE 2]
        /\ UNCHANGED <<status, attempts, batch>>
    BY <1>7 DEF Emit, rowVars
  <2>2. \A q \in Relays \ {r} : step'[q] = step[q]
    BY <1>0, <2>1, ZenonT(30) DEF Shape
  <2>3. CASE x = y
    <3>1. \A q \in Relays : x \in batch[q] => q = r
      BY <1>0, <1>3, <2>1, <2>3, Zenon DEF ClaimInv, IsCurrent
    <3>2. attempts[x] = 0 => emits[x] = 0
      BY <1>3, <2>1, <2>3, Zenon DEF Once, IsCurrent
    <3>3. attempts[x] = 0 => emits'[x] = 1
      BY <1>0, <2>1, <2>3, <3>2 DEF Shape
    <3>4. status[x] = "processing"
      BY <1>0, <1>3, <2>1, <2>3, Zenon DEF ClaimInv, IsCurrent
    <3>5. step'[r] = "mark" /\ IsCurrent(r, x)'
      BY <1>0, <2>1, <2>3, ZenonT(30) DEF Shape, IsCurrent
    <3> QED
      BY <1>3, <2>1, <3>1, <3>3, <3>4, <3>5 DEF Once, Claimed
  <2>4. CASE x # y
    <3>1. emits'[x] = emits[x] /\ ~IsCurrent(r, x)
      BY <1>0, <2>1, <2>4, OneIsCurrent, ZenonT(30) DEF Shape
    <3> QED
      BY <1>3, <2>1, <2>2, <3>1 DEF Once, Claimed, IsCurrent
  <2> QED
    BY <2>3, <2>4
<1>8. ASSUME NEW r \in Relays, NEW y \in Rows, EmitFails(r, y) \/ MarkFails(r, y) PROVE Once(x)'
  <2>1. /\ IsCurrent(r, y) /\ step' = [step EXCEPT ![r] = "catch"]
        /\ UNCHANGED <<status, attempts, emits, batch>>
    BY <1>8 DEF EmitFails, MarkFails, rowVars
  <2>2. step'[r] = "catch" /\ \A q \in Relays \ {r} : step'[q] = step[q]
    BY <1>0, <2>1 DEF Shape
  <2>3. x \in batch[r] /\ ~IsCurrent(r, x) /\ attempts[x] = 0 => emits[x] = 0
    BY <1>3 DEF Once
  <2> QED
    BY <1>3, <2>1, <2>2, <2>3 DEF Once, Claimed, IsCurrent
<1>9. ASSUME NEW r \in Relays, NEW y \in Rows, MarkPublished(r, y) \/ RecordFailure(r, y) PROVE Once(x)'
  <2>1. IsCurrent(r, y) /\ NextRow(r, y) /\ UNCHANGED emits
    BY <1>9 DEF MarkPublished, RecordFailure
  <2>2. /\ batch' = [batch EXCEPT ![r] = @ \ {y}]
        /\ \A q \in Relays \ {r} : step'[q] = step[q] /\ batch'[q] = batch[q]
    BY <1>0, <2>1 DEF Shape, NextRow
  <2>3. CASE x = y
    <3>1. \A q \in Relays : x \notin batch'[q]
      BY <1>0, <1>3, <2>1, <2>2, <2>3, ZenonT(30) DEF Shape, ClaimInv, IsCurrent
    <3>2. CASE MarkPublished(r, y)
      BY <1>0, <1>3, <2>1, <2>3, <3>1, <3>2, ZenonT(30) DEF MarkPublished, Once, Shape
    <3>3. CASE RecordFailure(r, y)
      <4>1. /\ attempts' = [attempts EXCEPT ![x] = seen[r][x] + 1]
            /\ status' = [status EXCEPT ![x] =
                             IF seen[r][x] + 1 >= MaxAttempts THEN "failed" ELSE "pending"]
        BY <2>3, <3>3, ZenonT(30) DEF RecordFailure
      <4>2. status'[x] # "processing"
        BY <1>0, <4>1, ZenonT(30) DEF Shape
      <4>3. attempts'[x] = seen[r][x] + 1 /\ seen[r][x] \in Nat
        BY <1>0, <4>1, ZenonT(30) DEF Shape
      <4>4. attempts'[x] # 0
        BY <4>3
      <4> QED
        BY <4>2, <4>4, ZenonT(30) DEF Once
    <3> QED
      BY <1>9, <3>2, <3>3
  <2>4. CASE x # y
    <3>1. status'[x] = status[x] /\ attempts'[x] = attempts[x]
      BY <1>0, <1>9, <2>4 DEF MarkPublished, RecordFailure, Shape
    <3>2. x \in batch'[r] <=> x \in batch[r]
      BY <1>0, <2>2, <2>4 DEF Shape
    <3>3. ~IsCurrent(r, x)
      BY <2>1, <2>4, OneIsCurrent
    <3>4. x \in batch[r] /\ attempts[x] = 0 => emits[x] = 0
      BY <1>3, <3>3 DEF Once
    <3> QED
      BY <1>3, <2>1, <2>2, <3>1, <3>2, <3>4 DEF Once, Claimed, IsCurrent
  <2> QED
    BY <2>3, <2>4
<1>10. CASE UNCHANGED outboxVars
  BY <1>3, <1>10, OnceUntouched, Zenon DEF outboxVars, rowVars
<1> QED
  BY <1>1, <1>4, <1>5, <1>6, <1>7, <1>8, <1>9, <1>10, Zenon
     DEF Next, RelayStep, RecordFailureFails, Crash

\* TwiceHasCause: for any number of rows and relays, listeners hear an event twice
\* only after a failed attempt, a takeover from a live relay or a run that ended early.
THEOREM DuplicatesHaveCauses == Spec => []TwiceHasCause
<1>1. Init => OnceInv
  BY DEF Init, OnceInv, Once
<1>2. RelayInv /\ OnceInv => TwiceHasCause
  BY BoundsAssumption DEF RelayInv, Shape, OnceInv, Once, TwiceHasCause
<1> QED
  BY <1>1, <1>2, OnceNext, RelayInvariance, PTL DEF Spec

-----------------------------------------------------------------------------
(* The priority queue *)

\* The values the lifecycle key, the dispatches and the callers can have.
QueueShape ==
    /\ life \in Lives
    /\ made \in Nat /\ letters \in Nat
    /\ at \in [Executors -> {"idle", "begin", "checkpoint", "run", "stop", "complete", "drop",
                             "throw", "ack", "nack", "capture", "dead"}]
    /\ call \in [Callers -> {"idle", "found", "requested", "remove", "locked", "mark", "reread", "end"}]
    /\ told \in [Callers -> {"none", "error"} \cup Lives]

\* Where a dispatch is tells how far the lifecycle key is, which never turns back from
\* an end; a cancellation that is about to be recorded has removed the job.
LifeInv ==
    /\ holder \in Executors <=> bull = "active"
    /\ bull = "none" => \A e \in Executors : at[e] = "idle"
    /\ \A e \in Executors :
          /\ at[e] \in {"checkpoint", "run", "complete", "throw"} => life # "none"
          /\ at[e] \in {"stop", "drop"} => life \in Terminal \cup {"cancellation_requested"}
          /\ at[e] = "ack" => life \in Terminal
    /\ \A c \in Callers :
          /\ call[c] = "mark" => bull = "removed"
          /\ told[c] = "cancelled" => life = "cancelled"
    /\ CompletedHasEnded

\* As long as no lock is lost, who works on the job has the lock, and a job that is
\* called cancelled is at nobody's checkpoint.
LockedInv ==
    "stall" \notin trouble =>
        /\ \A e \in Executors : at[e] \notin {"idle", "capture", "dead"} => holder = e
        /\ life = "cancelled" => \A e \in Executors : at[e] # "checkpoint"

\* As long as nothing goes wrong the lifecycle key ends with Bull's last attempt.
CleanInv ==
    trouble = {} =>
        /\ fatal = {}
        /\ life \in {"completed", "failed"} => bull \notin {"none", "waiting", "delayed"}
        /\ \A e \in Executors :
              /\ at[e] \in {"begin", "stop", "drop"} => life \notin {"completed", "failed"}
              /\ at[e] \in {"checkpoint", "run", "complete", "throw"} => life \notin Terminal
              /\ at[e] = "nack" => IF LastAttempt THEN life = "failed" ELSE life \notin {"completed", "failed"}
              /\ at[e] = "capture" => life = "failed" /\ bull \in {"failed", "removed"} /\ letters = 0
        /\ \A e, f \in Executors : at[e] = "capture" /\ at[f] = "capture" => e = f
        /\ letters > 0 => life = "failed" /\ letters = 1 /\ bull \in {"failed", "removed"}

\* The inductive invariant of the job.
QueueInv == QueueShape /\ LifeInv /\ LockedInv /\ CleanInv

\* It holds before addJob.
LEMMA QueueInitially == QueueInit => QueueInv
BY AttemptsAssumption, NoExecutorAssumption
   DEF QueueInit, QueueInv, QueueShape, LifeInv, LockedInv, CleanInv, Lives, Terminal, NoExecutor,
   CompletedHasEnded

\* Every step of Bull, a dispatch or a caller keeps the invariant.
LEMMA QueueStep ==
    ASSUME QueueInv, [QueueNext]_queueVars PROVE QueueInv'
<1> USE AttemptsAssumption, NoExecutorAssumption
        DEF QueueInv, QueueShape, LifeInv, LockedInv, CleanInv, CompletedHasEnded,
            Lives, Terminal, NoExecutor, LastAttempt, workVars, callVars
<1>1. CASE ReserveJob
  BY <1>1 DEF ReserveJob, SetLife
<1>2. CASE EnqueueJob
  BY <1>2, ZenonT(30) DEF EnqueueJob, SetBull
<1>3. CASE EnqueueFails
  BY <1>3, ZenonT(30) DEF EnqueueFails, Note, SetLife
<1>4. CASE BackoffEnds
  BY <1>4, ZenonT(30) DEF BackoffEnds, SetBull
<1>5. ASSUME NEW e \in Executors, Fetch(e) PROVE QueueInv'
  BY <1>5, ZenonT(30) DEF Fetch, SetBull, MoveTo
<1>6. CASE JobStalls
  BY <1>6 DEF JobStalls, Note, SetBull
<1>7. ASSUME NEW e \in Executors, BeginProcessing(e) PROVE QueueInv'
  BY <1>7, ZenonT(30) DEF BeginProcessing, MoveTo, SetLife
<1>8. ASSUME NEW e \in Executors, PassCheckpoint(e) PROVE QueueInv'
  BY <1>8, ZenonT(30) DEF PassCheckpoint, MoveTo
<1>9. ASSUME NEW e \in Executors, HandlerStops(e) PROVE QueueInv'
  BY <1>9, ZenonT(30) DEF HandlerStops, MoveTo
<1>10. ASSUME NEW e \in Executors, HandlerReturns(e) PROVE QueueInv'
  BY <1>10, ZenonT(30) DEF HandlerReturns, MoveTo
<1>11. ASSUME NEW e \in Executors, HandlerThrows(e) PROVE QueueInv'
  BY <1>11, ZenonT(30) DEF HandlerThrows, MoveTo
<1>34. ASSUME NEW e \in Executors, StopAtCheckpoint(e) PROVE QueueInv'
  BY <1>34 DEF StopAtCheckpoint, MoveTo, CancelScript, SetLife
<1>12. ASSUME NEW e \in Executors, DropCancelled(e) PROVE QueueInv'
  BY <1>12 DEF DropCancelled, MoveTo, CancelScript, SetLife
<1>13. ASSUME NEW e \in Executors, CompleteProcessing(e) PROVE QueueInv'
  BY <1>13, ZenonT(30) DEF CompleteProcessing, MoveTo, SetLife
<1>14. ASSUME NEW e \in Executors, RecordThrow(e) PROVE QueueInv'
  BY <1>14, SMTT(30) DEF RecordThrow, MoveTo, SetLife
<1>15. ASSUME NEW e \in Executors, ScriptFails(e) PROVE QueueInv'
  BY <1>15, ZenonT(30) DEF ScriptFails, MoveTo, Note
<1>16. ASSUME NEW e \in Executors, AckJob(e) PROVE QueueInv'
  BY <1>16 DEF AckJob, MoveTo, SetBull
<1>17. ASSUME NEW e \in Executors, NackJob(e) PROVE QueueInv'
  <2>1. QueueShape'
    BY <1>17, SMTT(30) DEF NackJob, MoveTo, SetBull
  <2>2. LifeInv'
    BY <1>17, SMTT(30) DEF NackJob, MoveTo, SetBull
  <2>3. LockedInv'
    BY <1>17, SMTT(30) DEF NackJob, MoveTo, SetBull
  <2>4. CleanInv'
    BY <1>17, SMTT(30) DEF NackJob, MoveTo, SetBull
  <2> HIDE DEF QueueShape, LifeInv, LockedInv, CleanInv
  <2> QED
    BY <2>1, <2>2, <2>3, <2>4, ZenonT(30)
<1>18. ASSUME NEW e \in Executors, CaptureDeadLetter(e) PROVE QueueInv'
  <2>1. QueueShape'
    BY <1>18, SMTT(30) DEF CaptureDeadLetter, MoveTo
  <2>2. LifeInv'
    BY <1>18, SMTT(30) DEF CaptureDeadLetter, MoveTo
  <2>3. LockedInv'
    BY <1>18, ZenonT(30) DEF CaptureDeadLetter, MoveTo
  <2>4. CleanInv'
    BY <1>18, SMTT(30) DEF CaptureDeadLetter, MoveTo
  <2> HIDE DEF QueueShape, LifeInv, LockedInv, CleanInv
  <2> QED
    BY <2>1, <2>2, <2>3, <2>4
<1>19. ASSUME NEW e \in Executors, ExecutorDies(e) PROVE QueueInv'
  BY <1>19 DEF ExecutorDies, MoveTo, Note
<1>20. ASSUME NEW c \in Callers, FindJob(c) PROVE QueueInv'
  <2>1. QueueShape'
    BY <1>20, ZenonT(30) DEF FindJob, Answer, CallTo
  <2>2. LifeInv'
    BY <1>20, ZenonT(30) DEF FindJob, Answer, CallTo
  <2>3. LockedInv'
    BY <1>20, ZenonT(30) DEF FindJob, Answer, CallTo
  <2>4. CleanInv'
    BY <1>20 DEF FindJob, Answer, CallTo
  <2> HIDE DEF QueueShape, LifeInv, LockedInv, CleanInv
  <2> QED
    BY <2>1, <2>2, <2>3, <2>4, ZenonT(30)
<1>21. ASSUME NEW c \in Callers, AdoptJob(c) PROVE QueueInv'
  BY <1>21, ZenonT(30) DEF AdoptJob, Answer, CallTo, SetLife
<1>22. ASSUME NEW c \in Callers, RequestCancellation(c) PROVE QueueInv'
  <2>1. QueueShape'
    BY <1>22, ZenonT(30) DEF RequestCancellation, Answer, CallTo, SetLife
  <2>2. LifeInv'
    BY <1>22, ZenonT(30) DEF RequestCancellation, Answer, CallTo, SetLife
  <2>3. LockedInv'
    BY <1>22, ZenonT(30) DEF RequestCancellation, Answer, CallTo, SetLife
  <2>4. CleanInv'
    BY <1>22, ZenonT(30) DEF RequestCancellation, Answer, CallTo, SetLife
  <2> HIDE DEF QueueShape, LifeInv, LockedInv, CleanInv
  <2> QED
    BY <2>1, <2>2, <2>3, <2>4
<1>23. ASSUME NEW c \in Callers, InspectJob(c) PROVE QueueInv'
  BY <1>23, ZenonT(30) DEF InspectJob, CallTo
<1>24. ASSUME NEW c \in Callers, RemoveJob(c) PROVE QueueInv'
  <2>1. QueueShape'
    BY <1>24, ZenonT(30) DEF RemoveJob, CallTo, SetBull
  <2>2. LifeInv'
    BY <1>24, ZenonT(30) DEF RemoveJob, CallTo, SetBull
  <2>3. LockedInv'
    BY <1>24, ZenonT(30) DEF RemoveJob, CallTo, SetBull
  <2>4. CleanInv'
    BY <1>24, ZenonT(30) DEF RemoveJob, CallTo, SetBull
  <2> HIDE DEF QueueShape, LifeInv, LockedInv, CleanInv
  <2> QED
    BY <2>1, <2>2, <2>3, <2>4
<1>25. ASSUME NEW c \in Callers, CheckLocked(c) PROVE QueueInv'
  <2>1. QueueShape'
    BY <1>25, ZenonT(30) DEF CheckLocked, Answer, CallTo
  <2>2. LifeInv'
    BY <1>25, ZenonT(30) DEF CheckLocked, Answer, CallTo
  <2>3. LockedInv'
    BY <1>25, ZenonT(30) DEF CheckLocked, Answer, CallTo
  <2>4. CleanInv'
    BY <1>25 DEF CheckLocked, Answer, CallTo
  <2> HIDE DEF QueueShape, LifeInv, LockedInv, CleanInv
  <2> QED
    BY <2>1, <2>2, <2>3, <2>4
<1>26. ASSUME NEW c \in Callers, MarkCancelled(c) PROVE QueueInv'
  BY <1>26, ZenonT(30) DEF MarkCancelled, Answer, CallTo, CancelScript, SetLife
<1>27. ASSUME NEW c \in Callers, RereadState(c) PROVE QueueInv'
  BY <1>27, ZenonT(30) DEF RereadState, Answer, CallTo
<1>28. ASSUME NEW c \in Callers, CallDies(c) PROVE QueueInv'
  BY <1>28, ZenonT(30) DEF CallDies, CallTo, Note
<1>29. CASE FindStarved
  BY <1>29, ZenonT(30) DEF FindStarved
<1>30. CASE PromoteStarved
  BY <1>30, ZenonT(30) DEF PromoteStarved
<1>31. CASE PromoteFails
  BY <1>31, ZenonT(30) DEF PromoteFails
<1>32. CASE RemovePromoted
  BY <1>32 DEF RemovePromoted, SetBull
<1>33. CASE UNCHANGED queueVars
  BY <1>33, ZenonT(30) DEF queueVars
<1> QED
  BY <1>1, <1>2, <1>3, <1>4, <1>5, <1>6, <1>7, <1>8, <1>9, <1>10, <1>11, <1>12, <1>13,
     <1>14, <1>15, <1>16, <1>17, <1>18, <1>19, <1>20, <1>21, <1>22, <1>23, <1>24, <1>25,
     <1>26, <1>27, <1>28, <1>29, <1>30, <1>31, <1>32, <1>33, <1>34, ZenonT(30)
     DEF QueueNext, WorkerStep, CallStep, BullStep

\* QueueInv holds throughout.
LEMMA QueueInvariance == QueueSpec => []QueueInv
<1>1. QueueInv /\ [QueueNext]_queueVars => QueueInv'
  BY QueueStep
<1> QED
  BY <1>1, QueueInitially, PTL DEF QueueSpec

\* For any number of workers, attempts and cancellations, whatever stalls, dies or
\* fails: what Bull keeps as completed has ended.
THEOREM CompletedJobsHaveEnded == QueueSpec => []CompletedHasEnded
<1>1. QueueInv => CompletedHasEnded
  BY DEF QueueInv, LifeInv
<1> QED
  BY <1>1, QueueInvariance, PTL

\* JobErrorHandler captures a job once and only if it failed, until something goes
\* wrong.
THEOREM DeadLettersHaveFailed == QueueSpec => []DeadLetterHasFailed
<1>1. QueueInv => DeadLetterHasFailed
  BY DEF QueueInv, CleanInv, DeadLetterHasFailed
<1> QED
  BY <1>1, QueueInvariance, PTL

\* No handler starts after a caller was told "cancelled", until a lock is lost.
THEOREM CancelledJobsAreNotStarted == QueueSpec => CancelledIsNotStarted
<1> DEFINE Starts == \A e \in Executors, c \in Callers :
                        /\ "stall" \notin trouble
                        /\ told[c] = "cancelled"
                        => ~(at[e] = "checkpoint" /\ at'[e] = "run")
<1>1. QueueInv /\ [QueueNext]_queueVars => [Starts]_queueVars
  BY DEF QueueInv, LifeInv, LockedInv
<1> QED
  BY <1>1, QueueInvariance, PTL DEF QueueSpec, CancelledIsNotStarted

\* HandlersRunAlone: of any number of executors at most one is in the handler or
\* about to record how it ended, until a lock is lost.
THEOREM HandlersAreAlone == QueueSpec => []HandlersRunAlone
<1>1. QueueInv => HandlersRunAlone
  BY Zenon DEF QueueInv, LockedInv, HandlersRunAlone
<1> QED
  BY <1>1, QueueInvariance, PTL

\* EndIsFinal: the lifecycle key never turns back from an end, whatever stalls, dies
\* or fails.
THEOREM EndsAreFinal == QueueSpec => EndIsFinal
<1> DEFINE Ended == (life \in Terminal) => life' = life
<1>1. QueueInv /\ [QueueNext]_queueVars => [Ended]_queueVars
  <2> SUFFICES ASSUME QueueInv, QueueNext, life \in Terminal PROVE life' = life
    OBVIOUS
  <2>1. life \in {"cancelled", "completed", "failed"}
    BY DEF Terminal
  <2>2. ASSUME NEW e \in Executors, WorkerStep(e) PROVE life' = life
    <3>1. CASE CompleteProcessing(e) \/ RecordThrow(e)
      BY <2>1, <3>1 DEF CompleteProcessing, RecordThrow, SetLife, Terminal
    <3> QED
      BY <2>1, <2>2, <3>1 DEF WorkerStep, BeginProcessing, PassCheckpoint, HandlerStops, HandlerReturns,
         HandlerThrows, StopAtCheckpoint, DropCancelled, CancelScript, ScriptFails, AckJob, NackJob,
         CaptureDeadLetter, SetLife
  <2>3. ASSUME NEW c \in Callers, FindJob(c) \/ CallStep(c) \/ CallDies(c) PROVE life' = life
    BY <2>1, <2>3 DEF FindJob, CallStep, AdoptJob, RequestCancellation, InspectJob, RemoveJob, CheckLocked,
       MarkCancelled, CancelScript, RereadState, CallDies, SetLife, Terminal
  <2>4. ASSUME NEW e \in Executors, ExecutorDies(e) \/ Fetch(e) PROVE life' = life
    BY <2>4, Zenon DEF ExecutorDies, Fetch
  <2>5. CASE \/ ReserveJob \/ EnqueueJob \/ EnqueueFails \/ BackoffEnds \/ JobStalls
             \/ FindStarved \/ PromoteStarved \/ PromoteFails \/ RemovePromoted
    BY <2>1, <2>5 DEF ReserveJob, EnqueueJob, EnqueueFails, BackoffEnds, JobStalls, FindStarved,
       PromoteStarved, PromoteFails, RemovePromoted
  <2> QED
    BY <2>2, <2>3, <2>4, <2>5, Zenon DEF QueueNext, BullStep
<1> QED
  BY <1>1, QueueInvariance, PTL DEF QueueSpec, EndIsFinal
=============================================================================
