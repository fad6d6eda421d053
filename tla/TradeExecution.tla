---------------------------- MODULE TradeExecution ----------------------------
(***************************************************************************)
(* TradesService.executeTrade, softDeleteTrade and restoreTrade for the    *)
(* trades of ONE user on ONE signal, as concurrent HTTP requests.          *)
(*                                                                         *)
(* A member of Trades is a row of the trades table and the executeTrade    *)
(* request that creates it.  A request runs its checks, the creation       *)
(* transaction, the on-chain execution and the completion transaction,     *)
(* with every other request free to run between two awaits, and the        *)
(* process may die between any two.  Each transaction writes the row and   *)
(* its outbox event together; OutboxRelay takes over from there.           *)
(*                                                                         *)
(* Rows of limit orders, which are "pending" while their contract call is  *)
(* under way, may exist from the start.                                    *)
(***************************************************************************)
EXTENDS Integers

CONSTANTS Trades,     \* rows of the trades table for this user and signal
          Restores,   \* concurrent restoreTrade calls
          NoTrade,    \* no trade
          Faults      \* subset of {"chain", "db", "crash"}

ASSUME NoTradeAssumption == NoTrade \notin Trades

VARIABLES status,    \* Trade.status; "none" while there is no row
          deleted,   \* Trade.deletedAt is set
          events,    \* outbox events recorded for each trade
          onChain,   \* trades whose on-chain execution took effect
          counted,   \* trades counted by the velocity checker
          pc,        \* where each executeTrade request is
          restoring  \* the trade each restoreTrade call found no conflict for

tradeVars == <<status, deleted, events, onChain, counted, pc, restoring>>

Statuses == {"none", "pending", "confirmed", "executing", "completed", "failed"}
\* "error" is the answer of the checks and of a failed execution, "aborted" the
\* one of a statement the database refused.
Requests == {"start", "validated", "created", "executed", "rejected",
             "committed", "ok", "error", "aborted", "dead"}

TradeTypeOK ==
    /\ status \in [Trades -> Statuses]
    /\ deleted \in [Trades -> BOOLEAN]
    /\ events \in [Trades -> SUBSET {"created", "completed", "failed"}]
    /\ onChain \subseteq Trades
    /\ counted \subseteq Trades
    /\ pc \in [Trades -> Requests]
    /\ restoring \in [Restores -> Trades \cup {NoTrade}]

TradeInit ==
    /\ status \in [Trades -> {"none", "pending"}]
    /\ deleted = [t \in Trades |-> FALSE]
    /\ events = [t \in Trades |-> {}]
    /\ onChain = {}
    /\ counted = {}
    /\ pc = [t \in Trades |-> IF status[t] = "none" THEN "start" ELSE "ok"]
    /\ restoring = [c \in Restores |-> NoTrade]

Goto(t, label) == pc' = [pc EXCEPT ![t] = label]

-----------------------------------------------------------------------------
(* executeTrade *)

\* checkDuplicateTrade: findOne sees rows that are not soft-deleted.
IsDuplicate == \E u \in Trades : status[u] = "pending" /\ ~deleted[u]

\* VALIDATION: no pending trade on the signal, and every check passes.
Validate(t) ==
    /\ pc[t] = "start"
    /\ ~IsDuplicate
    /\ Goto(t, "validated")
    /\ UNCHANGED <<status, deleted, events, onChain, counted, restoring>>

\* VALIDATION throws: a duplicate, or any of the compliance, risk, velocity and
\* slippage checks.  Nothing was written.
Refuse(t) ==
    /\ pc[t] = "start"
    /\ Goto(t, "error")
    /\ UNCHANGED <<status, deleted, events, onChain, counted, restoring>>

\* CREATION: one transaction saves the row as PENDING, saves it as EXECUTING and
\* records trade.order.created; nobody sees the row in between.
Create(t) ==
    /\ pc[t] = "validated"
    /\ status' = [status EXCEPT ![t] = "executing"]
    /\ events' = [events EXCEPT ![t] = @ \cup {"created"}]
    /\ Goto(t, "created")
    /\ UNCHANGED <<deleted, onChain, counted, restoring>>

\* EXECUTION: submitSorobanTransaction succeeds within maxRetries.
Execute(t) ==
    /\ pc[t] = "created"
    /\ onChain' = onChain \cup {t}
    /\ Goto(t, "executed")
    /\ UNCHANGED <<status, deleted, events, counted, restoring>>

\* EXECUTION: the parameters are invalid or every attempt throws.  One step stands
\* for the whole loop of executeWithRetry, and an attempt may throw although the
\* chain executed it.
ExecuteFails(t) ==
    /\ "chain" \in Faults
    /\ pc[t] = "created"
    /\ onChain' \in {onChain, onChain \cup {t}}
    /\ Goto(t, "rejected")
    /\ UNCHANGED <<status, deleted, events, counted, restoring>>

\* save(trade) writes back every column the request holds that differs from the
\* row: its status, and the deletedAt it loaded, which is null.
SaveTrade(t, s) ==
    /\ status' = [status EXCEPT ![t] = s]
    /\ deleted' = [deleted EXCEPT ![t] = FALSE]

\* Mutant: the request throws before the FAILED row is saved.
CommitFailedTooLate(t) ==
    /\ pc[t] = "rejected"
    /\ Goto(t, "error")
    /\ UNCHANGED <<status, deleted, events, onChain, counted, restoring>>

\* Mutant: the FAILED row is saved outside the transaction that records the event,
\* and the event is lost.
CommitFailedSilently(t) ==
    /\ pc[t] = "rejected"
    /\ SaveTrade(t, "failed")
    /\ Goto(t, "error")
    /\ UNCHANGED <<events, onChain, counted, restoring>>

\* One transaction: FAILED and trade.execution.failed; then the request throws.
CommitFailed(t) ==
    /\ pc[t] = "rejected"
    /\ SaveTrade(t, "failed")
    /\ events' = [events EXCEPT ![t] = @ \cup {"failed"}]
    /\ Goto(t, "error")
    /\ UNCHANGED <<onChain, counted, restoring>>

\* Mutant: the result of the execution is not looked at.
CommitCompletedUnchecked(t) ==
    /\ pc[t] \in {"executed", "rejected"}
    /\ SaveTrade(t, "completed")
    /\ events' = [events EXCEPT ![t] = @ \cup {"completed"}]
    /\ Goto(t, "committed")
    /\ UNCHANGED <<onChain, counted, restoring>>

\* CONFIRMATION and one transaction: COMPLETED and trade.completed.
CommitCompleted(t) ==
    /\ pc[t] = "executed"
    /\ SaveTrade(t, "completed")
    /\ events' = [events EXCEPT ![t] = @ \cup {"completed"}]
    /\ Goto(t, "committed")
    /\ UNCHANGED <<onChain, counted, restoring>>

\* One of the three transactions rolls back: the catch block rethrows.
TransactionFails(t) ==
    /\ "db" \in Faults
    /\ pc[t] \in {"validated", "executed", "rejected"}
    /\ Goto(t, "aborted")
    /\ UNCHANGED <<status, deleted, events, onChain, counted, restoring>>

\* recordTradeExecution, and the answer.
RecordVelocity(t) ==
    /\ pc[t] = "committed"
    /\ counted' = counted \cup {t}
    /\ Goto(t, "ok")
    /\ UNCHANGED <<status, deleted, events, onChain, restoring>>

\* recordTradeExecution throws: the caller gets an error for a completed trade.
RecordVelocityFails(t) ==
    /\ "db" \in Faults
    /\ pc[t] = "committed"
    /\ Goto(t, "aborted")
    /\ UNCHANGED <<status, deleted, events, onChain, counted, restoring>>

Crash(t) ==
    /\ "crash" \in Faults
    /\ pc[t] \in {"validated", "created", "executed", "rejected", "committed"}
    /\ Goto(t, "dead")
    /\ UNCHANGED <<status, deleted, events, onChain, counted, restoring>>

-----------------------------------------------------------------------------
(* softDeleteTrade and restoreTrade *)

Exists(t) == status[t] # "none"

SoftDelete(t) ==
    /\ Exists(t) /\ ~deleted[t]
    /\ deleted' = [deleted EXCEPT ![t] = TRUE]
    /\ UNCHANGED <<status, events, onChain, counted, pc, restoring>>

Active(t) ==
    status[t] \in {"pending", "confirmed", "executing", "completed"} /\ ~deleted[t]

\* The trade that already holds the place of t, if any.
Replaced(t) == \E u \in Trades \ {t} : Active(u)

\* restoreOrThrow up to and including conflictCheck: the row is deleted, the
\* actor may restore it and no active trade has replaced it.
RestoreCheck(c, t) ==
    /\ restoring[c] = NoTrade
    /\ Exists(t) /\ deleted[t]
    /\ ~Replaced(t)
    /\ restoring' = [restoring EXCEPT ![c] = t]
    /\ UNCHANGED <<status, deleted, events, onChain, counted, pc>>

\* repository.restore(id), without looking again.
Restore(c) ==
    /\ restoring[c] # NoTrade
    /\ deleted' = [deleted EXCEPT ![restoring[c]] = FALSE]
    /\ restoring' = [restoring EXCEPT ![c] = NoTrade]
    /\ UNCHANGED <<status, events, onChain, counted, pc>>

\* The restore fails: the caller gets an error and the row stays deleted.
RestoreFails(c) ==
    /\ "db" \in Faults
    /\ restoring[c] # NoTrade
    /\ restoring' = [restoring EXCEPT ![c] = NoTrade]
    /\ UNCHANGED <<status, deleted, events, onChain, counted, pc>>

\* placeLimitOrder: the contract call of a pending row is answered, and the row is
\* saved as CONFIRMED or FAILED, whatever happened to it since.
PendingResolves(t) ==
    /\ status[t] = "pending"
    /\ \E s \in {"confirmed", "failed"} : SaveTrade(t, s)
    /\ UNCHANGED <<events, onChain, counted, pc, restoring>>

RequestStep(t) ==
    \/ Validate(t) \/ Refuse(t) \/ Create(t)
    \/ Execute(t) \/ ExecuteFails(t)
    \/ CommitCompleted(t) \/ CommitFailed(t) \/ TransactionFails(t)
    \/ RecordVelocity(t) \/ RecordVelocityFails(t)

TradeNext ==
    \/ \E t \in Trades :
          RequestStep(t) \/ Crash(t) \/ SoftDelete(t) \/ PendingResolves(t)
    \/ \E c \in Restores :
          Restore(c) \/ RestoreFails(c) \/ \E t \in Trades : RestoreCheck(c, t)

TradeSpec == TradeInit /\ [][TradeNext]_tradeVars

\* The awaits of a live request settle.  Nothing is assumed of callers.
TradeFairness == \A t \in Trades : WF_tradeVars(RequestStep(t))

TradeFairSpec == TradeSpec /\ TradeFairness

-----------------------------------------------------------------------------
(* Properties *)

\* The outbox says of a trade exactly what its row says, at every moment and
\* whatever rolls back or dies: trade.completed with COMPLETED and only after the
\* chain executed it, trade.execution.failed with FAILED, never both.
EventsMatchRow ==
    \A t \in Trades :
        "created" \in events[t] =>
            /\ "completed" \in events[t] <=> status[t] = "completed"
            /\ "failed" \in events[t] <=> status[t] = "failed"
            /\ status[t] = "completed" => t \in onChain

\* An "ok" answer is a promise: the trade is committed, on chain, announced and
\* counted against the user's velocity limits; nothing is counted that did not
\* complete.
AnswerIsKept ==
    /\ \A t \in Trades :
          pc[t] = "ok" /\ "created" \in events[t] =>
              status[t] = "completed" /\ t \in onChain /\ t \in counted
    /\ \A t \in counted : status[t] = "completed"

\* A row stays EXECUTING only if its process died or the database refused its
\* outcome.
ExecutingIsTransient ==
    \A t \in Trades :
        status[t] = "executing" ~>
            status[t] \in {"completed", "failed"} \/ pc[t] \in {"aborted", "dead"}
=============================================================================
