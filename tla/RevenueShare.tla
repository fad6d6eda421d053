----------------------------- MODULE RevenueShare -----------------------------
(***************************************************************************)
(* One payout of RevenueShareService: the accounting row, the calls that   *)
(* submit it through the Stellar gateway, and the operator's calls that    *)
(* confirm, fail or retry it by hand.                                      *)
(*                                                                         *)
(* A submission works on the copy of the row its caller read.  Submissions *)
(* of one process share the in-flight promise; processes share only the    *)
(* row.  The amounts are not modelled.                                     *)
(***************************************************************************)
EXTENDS Integers

CONSTANTS Processes,    \* replicas of the application
          Sweepers,     \* dispatchPendingPayouts calls
          Operators,
          ProcessOf,    \* the process of the creating call and of each sweeper
          Creator,      \* the call of processProviderPayout
          MaxFailures   \* retries stop at this retryCount (5 in the code)

ASSUME PayoutAssumption ==
    /\ MaxFailures \in Nat
    /\ ProcessOf \in [Sweepers \cup {Creator} -> Processes]
    /\ Creator \notin Sweepers

VARIABLES gateway,   \* "none", "keyed" (honours idempotencyKey), "memo" (has
                     \* findPaymentByMemo), "plain" (neither)
                     \* or "plain" (neither: both are optional)
          payout,    \* the row; status "NONE" before it exists
          payments,  \* Stellar payments made for it, 2 for more than one
          adrift,    \* submissions given up on that may still reach the ledger
          phase,     \* where each submitting call is
          held,      \* its copy of the row
          inFlight,  \* processes with an entry in inFlightPayments
          order, read, \* each operator's call and copy
          strain     \* history: subset of {"late", "replicas"}

payVars == <<gateway, payout, payments, adrift, phase, held, inFlight, order, read, strain>>

Submitters == Sweepers \cup {Creator}

PayoutRow == [status : {"NONE", "PENDING", "PROCESSING", "COMPLETED", "FAILED"},
              hash : {"none", "set"}, failures : 0..MaxFailures]

NoPayout == [status |-> "NONE", hash |-> "none", failures |-> 0]

PayInit ==
    /\ gateway \in {"none", "keyed", "memo", "plain"}
    /\ payout = NoPayout /\ payments = 0 /\ adrift = "no"
    /\ phase = [s \in Submitters |-> "idle"] /\ held = [s \in Submitters |-> NoPayout]
    /\ inFlight = {}
    /\ order = [o \in Operators |-> "none"] /\ read = [o \in Operators |-> NoPayout]
    /\ strain = {}

Enter(s, l) == phase' = [phase EXCEPT ![s] = l]
OneMore(n) == IF n < MaxFailures THEN n + 1 ELSE n

-----------------------------------------------------------------------------
(* Recording *)

\* recordPayout; an Elite or Platinum provider's payout is escalated by the
\* same call, any other waits for dispatchPendingPayouts.
RecordPayout ==
    /\ payout.status = "NONE"
    /\ payout' = [NoPayout EXCEPT !.status = "PENDING"]
    /\ \/ Enter(Creator, "escalate") \/ UNCHANGED phase
    /\ UNCHANGED <<gateway, payments, adrift, held, inFlight, order, read, strain>>

\* save() of the object just created, whatever a sweep has done to the row since.
EscalatePayout ==
    /\ phase[Creator] = "escalate"
    /\ payout' = [NoPayout EXCEPT !.status = "PROCESSING"]
    /\ held' = [held EXCEPT ![Creator] = [NoPayout EXCEPT !.status = "PROCESSING"]]
    /\ Enter(Creator, "dispatch")
    /\ UNCHANGED <<gateway, payments, adrift, inFlight, order, read, strain>>

\* getPendingPayouts.
ListPending(s) ==
    /\ phase[s] = "idle" /\ payout.status = "PENDING"
    /\ held' = [held EXCEPT ![s] = payout]
    /\ Enter(s, "dispatch")
    /\ UNCHANGED <<gateway, payout, payments, adrift, inFlight, order, read, strain>>

-----------------------------------------------------------------------------
(* dispatchPayoutOnChain and submitPayout *)

MayDispatch(s) ==
    /\ gateway # "none"
    /\ held[s].status # "COMPLETED" /\ held[s].hash = "none"
    /\ ProcessOf[s] \notin inFlight

Finish(s) == Enter(s, "idle") /\ held' = [held EXCEPT ![s] = NoPayout]

DispatchPayout(s) ==
    /\ phase[s] = "dispatch"
    /\ IF MayDispatch(s)
          THEN /\ inFlight' = inFlight \cup {ProcessOf[s]}
               /\ Enter(s, IF gateway = "memo" THEN "lookup" ELSE "send")
               /\ strain' = IF inFlight # {} THEN strain \cup {"replicas"} ELSE strain
               /\ UNCHANGED held
          ELSE Finish(s) /\ UNCHANGED <<inFlight, strain>>
    /\ UNCHANGED <<gateway, payout, payments, adrift, order, read>>

\* Mutant: the payment found is not used.
FindPaymentUnused(s) ==
    /\ phase[s] = "lookup"
    /\ Enter(s, "send")
    /\ UNCHANGED <<gateway, payout, payments, adrift, held, inFlight, order, read, strain>>

\* findPaymentByMemo; it may also throw.
FindPayment(s) ==
    /\ phase[s] = "lookup"
    /\ \/ Enter(s, IF payments > 0 THEN "record" ELSE "send")
       \/ Enter(s, "fail")
    /\ UNCHANGED <<gateway, payout, payments, adrift, held, inFlight, order, read, strain>>

\* The gateway (external): a keyed one pays once for a key.
Paid == IF gateway = "keyed" \/ payments = 2 THEN (IF payments = 2 THEN 2 ELSE 1) ELSE payments + 1

\* sendPayment pays and answers, pays and times out, fails, or times out and
\* pays later.
SendPayment(s) ==
    /\ phase[s] = "send"
    /\ \/ payments' = Paid /\ Enter(s, "record") /\ UNCHANGED <<adrift, strain>>
       \/ payments' = Paid /\ Enter(s, "fail") /\ UNCHANGED <<adrift, strain>>
       \/ Enter(s, "fail") /\ UNCHANGED <<payments, adrift, strain>>
       \/ /\ adrift' = "yes" /\ strain' = strain \cup {"late"}
          /\ Enter(s, "fail") /\ UNCHANGED payments
    /\ UNCHANGED <<gateway, payout, held, inFlight, order, read>>

PaymentLands ==
    /\ adrift = "yes"
    /\ payments' = Paid /\ adrift' = "no"
    /\ UNCHANGED <<gateway, payout, phase, held, inFlight, order, read, strain>>

\* update() to COMPLETED; if that throws, the catch block calls the payout failed.
RecordPayment(s) ==
    /\ phase[s] = "record"
    /\ \/ /\ payout' = [payout EXCEPT !.status = "COMPLETED", !.hash = "set"]
          /\ inFlight' = inFlight \ {ProcessOf[s]}
          /\ Finish(s)
       \/ Enter(s, "fail") /\ UNCHANGED <<payout, held, inFlight>>
    /\ UNCHANGED <<gateway, payments, adrift, order, read, strain>>

\* update() to FAILED, whatever the row is by now, counting from the copy; if
\* that throws too, the row stays as it is.
RecordFailure(s) ==
    /\ phase[s] = "fail"
    /\ payout' \in {[payout EXCEPT !.status = "FAILED", !.failures = OneMore(held[s].failures)],
                    payout}
    /\ inFlight' = inFlight \ {ProcessOf[s]}
    /\ Finish(s)
    /\ UNCHANGED <<gateway, payments, adrift, order, read, strain>>

\* A process stops, and with it its submissions and its in-flight map.
ProcessStops(p) ==
    /\ \E s \in Submitters : ProcessOf[s] = p /\ phase[s] # "idle"
    /\ phase' = [s \in Submitters |-> IF ProcessOf[s] = p THEN "idle" ELSE phase[s]]
    /\ held' = [s \in Submitters |-> IF ProcessOf[s] = p THEN NoPayout ELSE held[s]]
    /\ inFlight' = inFlight \ {p}
    /\ UNCHANGED <<gateway, payout, payments, adrift, order, read, strain>>

-----------------------------------------------------------------------------
(* The operator *)

\* Without a gateway the payout is paid by hand.
PayByHand ==
    /\ gateway = "none" /\ payout.status # "NONE" /\ payments = 0
    /\ payments' = 1
    /\ UNCHANGED <<gateway, payout, adrift, phase, held, inFlight, order, read, strain>>

\* The findOne of confirmPayout (of a payment the ledger shows), of
\* markPayoutFailed and of retryFailedPayout, with their conditions.
OperatorReads(o) ==
    /\ order[o] = "none" /\ payout.status # "NONE"
    /\ \E c \in {"confirm", "fail", "retry"} :
          /\ c = "confirm" => payout.status # "COMPLETED" /\ payments > 0
          /\ c = "retry" => payout.status = "FAILED" /\ payout.failures < MaxFailures
          /\ order' = [order EXCEPT ![o] = c]
    /\ read' = [read EXCEPT ![o] = payout]
    /\ UNCHANGED <<gateway, payout, payments, adrift, phase, held, inFlight, strain>>

\* Their save of the whole copy.
OperatorSaves(o) ==
    /\ order[o] # "none"
    /\ payout' = CASE order[o] = "confirm" -> [read[o] EXCEPT !.status = "COMPLETED", !.hash = "set"]
                   [] order[o] = "fail" -> [read[o] EXCEPT !.status = "FAILED",
                                                           !.failures = OneMore(@)]
                   [] order[o] = "retry" -> [read[o] EXCEPT !.status = "PENDING"]
    /\ order' = [order EXCEPT ![o] = "none"] /\ read' = [read EXCEPT ![o] = NoPayout]
    /\ UNCHANGED <<gateway, payments, adrift, phase, held, inFlight, strain>>

-----------------------------------------------------------------------------
PayNext ==
    \/ RecordPayout \/ EscalatePayout \/ PaymentLands \/ PayByHand
    \/ \E s \in Sweepers : ListPending(s)
    \/ \E s \in Submitters :
          DispatchPayout(s) \/ FindPayment(s) \/ SendPayment(s) \/ RecordPayment(s) \/ RecordFailure(s)
    \/ \E p \in Processes : ProcessStops(p)
    \/ \E o \in Operators : OperatorReads(o) \/ OperatorSaves(o)

PaySpec == PayInit /\ [][PayNext]_payVars

-----------------------------------------------------------------------------
(* Properties *)

PayTypeOK ==
    /\ gateway \in {"none", "keyed", "memo", "plain"}
    /\ payout \in PayoutRow
    /\ payments \in 0..2
    /\ adrift \in {"no", "yes"}
    /\ phase \in [Submitters -> {"idle", "escalate", "dispatch", "lookup", "send", "record", "fail"}]
    /\ held \in [Submitters -> PayoutRow]
    /\ inFlight \subseteq Processes
    /\ order \in [Operators -> {"none", "confirm", "fail", "retry"}]
    /\ read \in [Operators -> PayoutRow]
    /\ strain \subseteq {"late", "replicas"}

\* One accounting row is paid at most once, through retries, stale copies, timeouts,
\* crashes and the operator's changes: always with a gateway that honours the
\* idempotency key; with one that only finds payments by memo, as long as no two
\* processes submit at once and no payment lands after its timeout.  A gateway that
\* does neither is promised nothing.
PaidAtMostOnce ==
    payments = 2 => gateway = "plain" \/ (gateway = "memo" /\ strain # {})

\* A row with a transaction hash, or shown as COMPLETED, was paid, although saves
\* of stale copies may undo and redo both.
RecordedWasPaid == payout.status = "COMPLETED" \/ payout.hash = "set" => payments > 0
=============================================================================
