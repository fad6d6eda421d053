------------------------------ MODULE MCRequests ------------------------------
(***************************************************************************)
(* Three components that share no state: trade execution, the trade saga   *)
(* and the priority queue.  A joint behaviour interleaves one behaviour of *)
(* each, and no property speaks of two of them, so it is enough to let one *)
(* of them move: "focus" names it, and the state space is the sum of       *)
(* theirs.                                                                 *)
(***************************************************************************)
EXTENDS TradeExecution, TradeSaga, PriorityQueue

VARIABLE focus

requestVars == <<focus, tradeVars, sagaVars, queueVars>>

RequestsInit ==
    /\ TradeInit /\ SagaInit /\ QueueInit
    /\ focus \in {"trade", "saga", "queue"}
    /\ focus # "trade" => status = [t \in Trades |-> "none"]
    /\ focus # "queue" => bull = "none"

RequestsNext ==
    \/ focus = "trade" /\ TradeNext /\ UNCHANGED <<focus, sagaVars, queueVars>>
    \/ focus = "saga" /\ SagaNext /\ UNCHANGED <<focus, tradeVars, queueVars>>
    \/ focus = "queue" /\ QueueNext /\ UNCHANGED <<focus, tradeVars, sagaVars>>

\* Each component's own fairness, while it is in focus.  (The queue's steps
\* are not enabled otherwise.)
RequestsSpec ==
    /\ RequestsInit /\ [][RequestsNext]_requestVars
    /\ \A t \in Trades : WF_tradeVars(focus = "trade" /\ RequestStep(t))
    /\ WF_sagaVars(focus = "saga" /\ SagaStep)
    /\ QueueFairness

\* The saga reaches an outcome whatever steps, compensations and recorded saves
\* fail, unless its process dies or a save outside any try fails.
SagaReachesOutcome == focus = "saga" => SagaEnds
=============================================================================
