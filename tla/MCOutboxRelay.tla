---------------------------- MODULE MCOutboxRelay ----------------------------
(***************************************************************************)
(* The two ways an event leaves the system, which share no state: the      *)
(* outbox relay and webhook delivery.  As in MCRequests, "focus" names the *)
(* one that moves.                                                         *)
(***************************************************************************)
EXTENDS OutboxRelay, WebhookDelivery

VARIABLE focus

EventsInit == Init /\ DeliveryInit /\ focus \in {"outbox", "delivery"}

EventsNext ==
    \/ focus = "outbox" /\ Next /\ UNCHANGED <<focus, deliveryVars>>
    \/ focus = "delivery" /\ DeliveryNext /\ UNCHANGED <<focus, outboxVars>>

\* The reconciliation runs every five minutes and the process it runs in goes on;
\* the queue's workers may stop.
DeliveryFairness ==
    /\ WF_deliveryVars(focus = "delivery" /\ FindCandidates(Deliveries))
    /\ WF_deliveryVars(focus = "delivery" /\ (SkipDelivered \/ RetryInPlace))
    /\ WF_deliveryVars(focus = "delivery" /\ SenderStep(Reconciler))

\* No step of the relays is enabled while there are no rows.
EventsSpec ==
    /\ EventsInit /\ [][EventsNext]_<<focus, outboxVars, deliveryVars>>
    /\ Fairness
    /\ DeliveryFairness
=============================================================================
