------------------------------- MODULE TradeSaga -------------------------------
(***************************************************************************)
(* executeTradeSaga: TradeSagaOrchestrator.run over the five steps of      *)
(* TradeSagaSteps, for ONE saga.  The orchestrator keeps the saga in       *)
(* memory and saves it whole after every step; a save that fails throws.   *)
(***************************************************************************)
EXTENDS Integers, FiniteSets

\* "record": a save that stands inside a try fails; "save": one that does not.
CONSTANT SagaFaults

ASSUME SagaFaultsAssumption ==
    SagaFaults \subseteq {"step", "chain", "record", "save", "undo", "crash"}

\* The order in which build() lists the steps.
reserve_funds == 1
persist_trade == 2
soroban_execution == 3
update_portfolio == 4
finalize_trade == 5
StepCount == 5
StepIds == 1..StepCount

VARIABLES where,    \* where run() is
          current,  \* the step being executed
          todo,     \* how many of completedSteps are not yet compensated
          mem, stored, \* the saga: the object in memory, the row in the database
          failures, \* failedCompensations is not empty
          tradeStatus, \* status of the trade's row
          onLedger, \* the trade was executed by the contract
          tallied,  \* recordTradeExecution was called
          answer    \* what executeTradeSaga returned

sagaEffects == <<tradeStatus, onLedger, tallied>>
sagaVars == <<where, current, todo, mem, stored, failures, sagaEffects, answer>>

SagaStatuses == {"RUNNING", "COMPLETED", "COMPENSATING", "COMPENSATED", "FAILED_TO_COMPENSATE"}
StepRecords == [step : StepIds, status : {"COMPLETED", "FAILED", "COMPENSATED"}]
Sagas == [status : SagaStatuses, steps : SUBSET StepRecords]

SagaTypeOK ==
    /\ where \in {"execute", "record", "fail", "compensate", "undo", "recordUndo", "complete",
                 "end", "aborted", "dead"}
    /\ current \in StepIds
    /\ todo \in 0..StepCount
    /\ mem \in Sagas /\ stored \in Sagas
    /\ failures \in BOOLEAN
    /\ tradeStatus \in {"none", "EXECUTING", "COMPLETED", "FAILED"}
    /\ onLedger \in BOOLEAN /\ tallied \in BOOLEAN
    /\ answer \in {"none", "success", "error"}

\* createSaga has saved the new saga.
SagaInit ==
    /\ where = "execute" /\ current = 1 /\ todo = 0
    /\ mem = [status |-> "RUNNING", steps |-> {}] /\ stored = mem
    /\ failures = FALSE
    /\ tradeStatus = "none" /\ onLedger = FALSE /\ tallied = FALSE
    /\ answer = "none"

-----------------------------------------------------------------------------
(* The steps *)

Perform(s) ==
    /\ tradeStatus' = CASE s = persist_trade -> "EXECUTING"
                        [] s = finalize_trade -> "COMPLETED"
                        [] OTHER -> tradeStatus
    /\ onLedger' = (onLedger \/ s = soroban_execution)
    /\ tallied' = (tallied \/ s = update_portfolio)

\* Only the trade's row is put back: the other compensations log.
Compensate(s) ==
    /\ tradeStatus' = IF s \in {persist_trade, finalize_trade} THEN "FAILED" ELSE tradeStatus
    /\ UNCHANGED <<onLedger, tallied>>

-----------------------------------------------------------------------------
(* run *)

Save(saga) == mem' = saga /\ stored' = saga

Return(a) == where' = "end" /\ answer' = a

\* A save outside any try fails: run throws with the saga's row as it was.
Abort == where' = "aborted" /\ answer' = "error"

ExecuteStep ==
    /\ where = "execute"
    /\ Perform(current)
    /\ todo' = todo + 1
    /\ where' = "record"
    /\ UNCHANGED <<current, mem, stored, failures, answer>>

\* A step throws: before its effect, or (the contract call) after it.  The
\* first step has nothing that fails.
ExecuteStepFails ==
    /\ where = "execute"
    /\ \/ "step" \in SagaFaults /\ current # reserve_funds /\ UNCHANGED sagaEffects
       \/ "chain" \in SagaFaults /\ current = soroban_execution /\ Perform(current)
    /\ where' = "fail"
    /\ UNCHANGED <<current, todo, mem, stored, failures, answer>>

Recorded(s, st) == [mem EXCEPT !.steps = @ \cup {[step |-> s, status |-> st]}]

\* Mutant: the loop stops one step early.
RecordStepCompletedStopsEarly ==
    /\ where = "record"
    /\ Save(Recorded(current, "COMPLETED"))
    /\ IF current < StepCount - 1
          THEN current' = current + 1 /\ where' = "execute"
          ELSE current' = current /\ where' = "complete"
    /\ UNCHANGED <<todo, failures, sagaEffects, answer>>

RecordStepCompleted ==
    /\ where = "record"
    /\ Save(Recorded(current, "COMPLETED"))
    /\ IF current < StepCount
          THEN current' = current + 1 /\ where' = "execute"
          ELSE current' = current /\ where' = "complete"
    /\ UNCHANGED <<todo, failures, sagaEffects, answer>>

\* Mutant: the step joins completedSteps only once it is recorded.
RecordStepCompletedFailsUncounted ==
    /\ "record" \in SagaFaults
    /\ where = "record"
    /\ mem' = Recorded(current, "COMPLETED")
    /\ todo' = todo - 1
    /\ where' = "fail"
    /\ UNCHANGED <<current, stored, failures, sagaEffects, answer>>

RecordStepCompletedFails ==
    /\ "record" \in SagaFaults
    /\ where = "record"
    /\ mem' = Recorded(current, "COMPLETED")
    /\ where' = "fail"
    /\ UNCHANGED <<current, todo, stored, failures, sagaEffects, answer>>

RecordStepFailed ==
    /\ where = "fail"
    /\ Save(Recorded(current, "FAILED"))
    /\ where' = "compensate"
    /\ UNCHANGED <<current, todo, failures, sagaEffects, answer>>

MarkCompensating ==
    /\ where = "compensate"
    /\ Save([mem EXCEPT !.status = "COMPENSATING"])
    /\ where' = "undo"
    /\ UNCHANGED <<current, todo, failures, sagaEffects, answer>>

\* The catch block of run throws before any compensation.
RecordFailureFails ==
    /\ "save" \in SagaFaults
    /\ where \in {"fail", "compensate"}
    /\ mem' = IF where = "fail" THEN Recorded(current, "FAILED")
                             ELSE [mem EXCEPT !.status = "COMPENSATING"]
    /\ Abort
    /\ UNCHANGED <<current, todo, stored, failures, sagaEffects>>

-----------------------------------------------------------------------------
(* compensate *)

CompensateStep ==
    /\ where = "undo" /\ todo > 0
    /\ Compensate(todo)
    /\ where' = "recordUndo"
    /\ UNCHANGED <<current, todo, mem, stored, failures, answer>>

CompensateStepFails ==
    /\ "undo" \in SagaFaults
    /\ where = "undo" /\ todo \in {persist_trade, finalize_trade}
    /\ todo' = todo - 1
    /\ failures' = TRUE
    /\ UNCHANGED <<where, current, mem, stored, sagaEffects, answer>>

Undone(s) ==
    [mem EXCEPT !.steps = {IF r.step = s /\ r.status = "COMPLETED"
                              THEN [r EXCEPT !.status = "COMPENSATED"] ELSE r : r \in @}]

RecordStepCompensated ==
    /\ where = "recordUndo"
    /\ Save(Undone(todo))
    /\ todo' = todo - 1
    /\ where' = "undo"
    /\ UNCHANGED <<current, failures, sagaEffects, answer>>

\* The save fails inside the loop's try: the compensation counts as failed.
RecordStepCompensatedFails ==
    /\ "record" \in SagaFaults
    /\ where = "recordUndo"
    /\ mem' = Undone(todo)
    /\ failures' = TRUE
    /\ todo' = todo - 1
    /\ where' = "undo"
    /\ UNCHANGED <<current, stored, sagaEffects, answer>>

\* Mutant: a saga whose compensation failed is left as it is.
MarkOutcomeOnlyCompensated ==
    /\ where = "undo" /\ todo = 0
    /\ IF failures THEN UNCHANGED <<mem, stored>> ELSE Save([mem EXCEPT !.status = "COMPENSATED"])
    /\ Return("error")
    /\ UNCHANGED <<current, todo, failures, sagaEffects>>

\* markCompensated or markFailedToCompensate; run rethrows.
MarkOutcome ==
    /\ where = "undo" /\ todo = 0
    /\ Save([mem EXCEPT !.status = IF failures THEN "FAILED_TO_COMPENSATE" ELSE "COMPENSATED"])
    /\ Return("error")
    /\ UNCHANGED <<current, todo, failures, sagaEffects>>

MarkCompleted ==
    /\ where = "complete"
    /\ Save([mem EXCEPT !.status = "COMPLETED"])
    /\ Return("success")
    /\ UNCHANGED <<current, todo, failures, sagaEffects>>

\* markCompleted, markCompensated and markFailedToCompensate stand outside
\* any try of run.
MarkFails ==
    /\ "save" \in SagaFaults
    /\ where = "complete" \/ (where = "undo" /\ todo = 0)
    /\ Abort
    /\ UNCHANGED <<current, todo, mem, stored, failures, sagaEffects>>

\* The process stops; nothing picks the saga up again.
SagaCrash ==
    /\ "crash" \in SagaFaults
    /\ where \notin {"end", "aborted", "dead"}
    /\ where' = "dead"
    /\ UNCHANGED <<current, todo, mem, stored, failures, sagaEffects, answer>>

SagaStep ==
    \/ ExecuteStep \/ ExecuteStepFails \/ RecordStepCompleted \/ RecordStepCompletedFails
    \/ RecordStepFailed \/ MarkCompensating \/ RecordFailureFails
    \/ CompensateStep \/ CompensateStepFails \/ RecordStepCompensated
    \/ RecordStepCompensatedFails \/ MarkOutcome \/ MarkCompleted \/ MarkFails

SagaNext == SagaStep \/ SagaCrash

SagaSpec == SagaInit /\ [][SagaNext]_sagaVars

\* The request runs to its end.
SagaFairSpec == SagaSpec /\ WF_sagaVars(SagaStep)

-----------------------------------------------------------------------------
(* Properties *)

Records(st) == {r.step : r \in {q \in stored.steps : q.status = st}}

\* A saga row that says COMPENSATED left no live trade and no step recorded
\* as completed, whichever step, save or compensation failed on the way
\* ("All completed steps compensated successfully").
CompensatedIsUndone ==
    stored.status = "COMPENSATED" => tradeStatus \in {"none", "FAILED"} /\ Records("COMPLETED") = {}

\* A saga row that says COMPLETED stands for a trade executed, counted and
\* completed, with every step recorded, and the caller is told "success" exactly
\* for the sagas stored as COMPLETED.
CompletedIsWhole ==
    /\ stored.status = "COMPLETED" =>
          onLedger /\ tallied /\ tradeStatus = "COMPLETED" /\ Records("COMPLETED") = StepIds
    /\ answer # "none" => (answer = "success" <=> stored.status = "COMPLETED")

\* Whatever steps, compensations and saves inside a try fail, the saga reaches an
\* outcome, unless its process dies or a save outside any try fails.
SagaEnds ==
    <>(\/ stored.status \in {"COMPLETED", "COMPENSATED", "FAILED_TO_COMPENSATE"}
       \/ where \in {"aborted", "dead"})
=============================================================================
