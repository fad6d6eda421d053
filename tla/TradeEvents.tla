------------------------------ MODULE TradeEvents ------------------------------
(***************************************************************************)
(* TradeExecution and OutboxRelay together: what executeTrade commits is   *)
(* what the listeners hear.                                                *)
(*                                                                         *)
(* outboxService.record runs in the transaction that writes the trade, so  *)
(* a step that adds an event to a trade is also the Record step of that    *)
(* event's row; every other step belongs to one of the two components.     *)
(* RowOf gives the outbox row of each event of each trade.                 *)
(***************************************************************************)
EXTENDS TradeExecution

CONSTANTS RowOf, Rows, Relays, BatchSize, MaxAttempts, MaxAborts, RelayFaults

\* trade.order.created, trade.completed and trade.execution.failed.
EventNames == {"created", "completed", "failed"}

\* The idempotency keys of different events are different.
ASSUME RowOfAssumption ==
    \A t, u \in Trades, e, f \in EventNames :
        RowOf[t][e] \in Rows /\ (RowOf[t][e] = RowOf[u][f] => t = u /\ e = f)

VARIABLES rowStatus, attempts, due, stale, emits, batch, seen, step, aborts, late

Outbox == INSTANCE OutboxRelay WITH status <- rowStatus, Faults <- RelayFaults

relayVars == <<rowStatus, attempts, due, stale, emits, batch, seen, step, aborts, late>>
vars == <<tradeVars, relayVars>>

Init == TradeInit /\ Outbox!Init

\* A step of a trade, with the insert of the event its transaction records.
CommitWithEvent(t, e) ==
    /\ TradeNext
    /\ events' = [events EXCEPT ![t] = @ \cup {e}]
    /\ e \notin events[t]
    /\ Outbox!Record(RowOf[t][e])

TradeOnly == TradeNext /\ events' = events /\ UNCHANGED relayVars

RelayOnly ==
    /\ \/ \E x \in Rows : Outbox!BecomesDue(x) \/ Outbox!BecomesStale(x)
       \/ \E r \in Relays : Outbox!RelayStep(r) \/ Outbox!Crash(r)
    /\ UNCHANGED tradeVars

Next ==
    \/ \E t \in Trades, e \in EventNames : CommitWithEvent(t, e)
    \/ TradeOnly
    \/ RelayOnly

Spec == Init /\ [][Next]_vars

\* The requests go on as in TradeExecution, the relays as in OutboxRelay.
Fairness ==
    /\ TradeFairness
    /\ \A x \in Rows : WF_vars(Outbox!BecomesDue(x) /\ UNCHANGED tradeVars)
    /\ \A x \in Rows : WF_vars(Outbox!BecomesStale(x) /\ UNCHANGED tradeVars)
    /\ \A r \in Relays : WF_vars(Outbox!RelayStep(r) /\ UNCHANGED tradeVars)

FairSpec == Spec /\ Fairness

-----------------------------------------------------------------------------
(* Properties *)

\* A listener that hears trade.completed finds the trade on chain and COMPLETED, and
\* one that hears trade.execution.failed finds it FAILED, even after aborts, retries
\* and takeovers of the relay: nothing is announced that was rolled back.
HeardIsTrue ==
    \A t \in Trades :
        /\ emits[RowOf[t]["completed"]] > 0 => status[t] = "completed" /\ t \in onChain
        /\ emits[RowOf[t]["failed"]] > 0 => status[t] = "failed"

\* The outcome in the row has been announced, or given up after MAX_ATTEMPTS.
OutcomeAnnounced(t) ==
    \E e \in {"completed", "failed"} :
        status[t] = e /\ rowStatus[RowOf[t][e]] \in {"published", "failed"}

\* A created trade does not end in silence: its request commits an outcome and the
\* relays announce that outcome or give it up, whoever dies on the way.  Only when
\* the request died or was refused by the database before the outcome was committed
\* is there nothing to announce, and then the row still says EXECUTING.
OutcomeIsAnnounced ==
    \A t \in Trades :
        status[t] = "executing" ~>
            OutcomeAnnounced(t) \/ (status[t] = "executing" /\ pc[t] \in {"aborted", "dead"})
=============================================================================
