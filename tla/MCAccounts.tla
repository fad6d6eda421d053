------------------------------ MODULE MCAccounts ------------------------------
(***************************************************************************)
(* Five components that share no state: retried trades, payouts,           *)
(* subscriptions, webhook endpoints and webhook delivery.  As in           *)
(* MCRequests, one of them moves.                                          *)
(***************************************************************************)
EXTENDS TradeDlq, RevenueShare, Subscriptions, WebhookEndpoint, WebhookDelivery, TLC

CONSTANTS process1, process2, sweeper1, sweeper2, creator

\* The creating call and one sweeper run in the same process.
MCProcessOf ==
    [s \in {sweeper1, sweeper2, creator} |-> IF s = sweeper2 THEN process2 ELSE process1]

VARIABLE focus

accountVars == <<focus, dlqVars, payVars, subVars, hookVars, deliveryVars>>

AccountsInit ==
    /\ DlqInit /\ PayInit /\ SubInit /\ HookInit /\ DeliveryInit
    /\ focus \in {"dlq", "payout", "subscription", "hook", "delivery"}
    /\ focus # "dlq" => tradeRow = NoCopy
    /\ focus # "payout" => gateway = "none"

AccountsNext ==
    \/ focus = "dlq" /\ DlqNext
       /\ UNCHANGED <<focus, payVars, subVars, hookVars, deliveryVars>>
    \/ focus = "payout" /\ PayNext
       /\ UNCHANGED <<focus, dlqVars, subVars, hookVars, deliveryVars>>
    \/ focus = "subscription" /\ SubNext
       /\ UNCHANGED <<focus, dlqVars, payVars, hookVars, deliveryVars>>
    \/ focus = "hook" /\ HookNext
       /\ UNCHANGED <<focus, dlqVars, payVars, subVars, deliveryVars>>
    \/ focus = "delivery" /\ DeliveryNext
       /\ UNCHANGED <<focus, dlqVars, payVars, subVars, hookVars>>

AccountsSpec == AccountsInit /\ [][AccountsNext]_accountVars

\* As in MCOrders, a state is known by the focus and the variables of what moves.
FocusView ==
    <<focus, CASE focus = "dlq" -> dlqVars
               [] focus = "payout" -> payVars
               [] focus = "subscription" -> subVars
               [] focus = "hook" -> hookVars
               [] focus = "delivery" -> deliveryVars>>

\* Retriers, SubCalls and HookCalls are given the same two values.
CallSymmetry == Permutations(SubCalls)
=============================================================================
