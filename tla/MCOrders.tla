------------------------------- MODULE MCOrders -------------------------------
(***************************************************************************)
(* Four components that share no state: iceberg orders, conditional        *)
(* orders, the circuit breaker that calls to the network go through and    *)
(* requests with an idempotency key.  As in MCRequests, one of them moves. *)
(***************************************************************************)
EXTENDS IcebergOrder, ConditionalOrder, CircuitBreaker, IdempotentRequests, TLC

\* A condition on the clock and one on a price; alone, joined by AND, joined by OR.
AtTime(t) == [type |-> "TIME_BASED", value |-> t]
AbovePrice == [type |-> "PRICE_ABOVE", value |-> 0]
MCGroupings ==
    {{},
     {[operator |-> "AND", conditions |-> {AtTime(0)}]},
     {[operator |-> "AND", conditions |-> {AtTime(0), AtTime(1)}]},
     {[operator |-> "OR", conditions |-> {AtTime(1), AbovePrice}]}}

\* Three requests, the second with another body; all of them reach one replica, or
\* the third reaches another one.
CONSTANTS q1, q2, q3, p1, p2
MCRoutings == {[r \in KeyedRequests |-> p1], [r \in KeyedRequests |-> IF r = q3 THEN p2 ELSE p1]}
MCBodyOf == [r \in KeyedRequests |-> IF r = q2 THEN "other" ELSE "same"]

VARIABLE focus

ordersVars == <<focus, icebergVars, conditionalVars, breakerVars, keyVars>>

OrdersInit ==
    /\ IcebergInit /\ ConditionalInit /\ BreakerInit /\ KeyInit
    /\ focus \in {"iceberg", "conditional", "breaker", "key"}

OrdersNext ==
    \/ /\ focus = "iceberg" /\ IcebergNext
       /\ UNCHANGED <<focus, conditionalVars, breakerVars, keyVars>>
    \/ /\ focus = "conditional" /\ ConditionalNext
       /\ UNCHANGED <<focus, icebergVars, breakerVars, keyVars>>
    \/ /\ focus = "breaker" /\ BreakerNext
       /\ UNCHANGED <<focus, icebergVars, conditionalVars, keyVars>>
    \/ /\ focus = "key" /\ KeyNext
       /\ UNCHANGED <<focus, icebergVars, conditionalVars, breakerVars>>

OrdersSpec == OrdersInit /\ [][OrdersNext]_ordersVars

\* The components out of focus stay as they began: a state is known by the focus and
\* the variables of the one that moves.
FocusView ==
    <<focus, CASE focus = "iceberg" -> icebergVars
               [] focus = "conditional" -> conditionalVars
               [] focus = "breaker" -> breakerVars
               [] focus = "key" -> keyVars>>

CallSymmetry == Permutations(Checks) \cup Permutations(Cancels)
=============================================================================
