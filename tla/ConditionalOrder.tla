--------------------------- MODULE ConditionalOrder ---------------------------
(***************************************************************************)
(* One conditional order: created by its owner, edited, cancelled, filled  *)
(* by hand, and swept by three crons: scheduledEvaluation every minute,    *)
(* EvaluateConditionalOrdersJob every 30 seconds, and the expiry.          *)
(*                                                                         *)
(* A sweep visits the orders one by one and each on its own, so one row    *)
(* stands for all.  Triggering, cancelling and filling are transactions    *)
(* that hold the lock of the row; a plain read does not wait for it.       *)
(* Both sweeps evaluate with an empty map of prices.                       *)
(***************************************************************************)
EXTENDS Integers

CONSTANTS Evaluations,  \* runs of scheduledEvaluation in progress at once
          JobRuns,      \* runs of the job's evaluate in progress at once
          CancelCalls, UpdateCalls,
          ExecuteCalls, \* POST :id/execute
          ClientVersions, \* the numbers a client may send as expectedVersion
          Groupings,    \* what conditionGroups may hold: sets of groups
          Horizon,      \* bound: the clock
          MaxMishaps    \* bound: failed transactions and crashed sweeps

Sweeps == Evaluations \cup JobRuns
OrderCalls == Sweeps \cup CancelCalls \cup UpdateCalls \cup ExecuteCalls
Times == 0..Horizon
Never == Horizon + 1

ASSUME OrderCallsAssumption ==
    /\ Evaluations \cap JobRuns = {} /\ Sweeps \cap CancelCalls = {}
    /\ Sweeps \cap UpdateCalls = {} /\ Sweeps \cap ExecuteCalls = {}
    /\ CancelCalls \cap UpdateCalls = {} /\ CancelCalls \cap ExecuteCalls = {}
    /\ UpdateCalls \cap ExecuteCalls = {}
ASSUME GroupingsAssumption ==
    Groupings \subseteq SUBSET [operator : {"AND", "OR"},
                               conditions : SUBSET [type : {"TIME_BASED", "PRICE_ABOVE"}, value : Nat]]
ASSUME VersionsAssumption == ClientVersions \subseteq Nat
ASSUME HorizonAssumption == Horizon \in Nat /\ MaxMishaps \in Nat
ASSUME NobodyAssumption == "nobody" \notin OrderCalls

VARIABLES order,    \* the row, NoOrder before create
          outbox,   \* types of the events recorded for it
          fills,    \* fills committed
          lockedBy, \* the transaction that holds the lock of the row
          now,
          at,       \* where each call is
          loaded,   \* what each call read of the row
          sent,     \* the expectedVersion of each update
          mishaps

conditionalVars == <<order, outbox, fills, lockedBy, now, at, loaded, sent, mishaps>>

OrderStatus == {"NONE", "PENDING", "ACTIVE", "TRIGGERED", "FILLED", "CANCELLED", "EXPIRED", "FAILED"}
OrderRow == [status : OrderStatus, conditions : Groupings \cup {{}}, expiresAt : 0..Never, version : Nat]
NoOrder == [status |-> "NONE", conditions |-> {}, expiresAt |-> Never, version |-> 0]
Live == {"PENDING", "ACTIVE"}
Terminal == {"FILLED", "CANCELLED", "EXPIRED", "FAILED"}

ALLOWED_ORDER_TRANSITIONS ==
    [s \in OrderStatus |->
        CASE s = "PENDING" -> {"ACTIVE", "TRIGGERED", "CANCELLED", "EXPIRED"}
          [] s = "ACTIVE" -> {"TRIGGERED", "CANCELLED", "EXPIRED"}
          [] s = "TRIGGERED" -> {"FILLED", "CANCELLED", "FAILED"}
          [] OTHER -> {}]

\* The places "trigger", "cancel" and "fill" are before a transaction, the places
\* "triggering", "cancelling" and "filling" inside it, with the lock held.
Before == {"trigger", "cancel", "fill"}
Inside(p) == CASE p = "trigger" -> "triggering" [] p = "cancel" -> "cancelling" [] p = "fill" -> "filling"
Target(p) ==
    CASE p \in {"trigger", "triggering"} -> "TRIGGERED"
      [] p \in {"cancel", "cancelling"} -> "CANCELLED"
      [] p \in {"fill", "filling"} -> "FILLED"
OrderPlaces == Before \cup {"idle", "evaluate", "triggering", "cancelling", "filling", "apply", "done"}

ConditionalTypeOK ==
    /\ order \in OrderRow
    /\ outbox \subseteq {"TRIGGERED", "CANCELLED", "FILLED"}
    /\ fills \in Nat
    /\ lockedBy \in OrderCalls \cup {"nobody"}
    /\ now \in Times
    /\ at \in [OrderCalls -> OrderPlaces]
    /\ loaded \in [OrderCalls -> OrderRow]
    /\ sent \in [UpdateCalls -> Nat]
    /\ mishaps \in 0..MaxMishaps

ConditionalInit ==
    /\ order = NoOrder /\ outbox = {} /\ fills = 0
    /\ lockedBy = "nobody" /\ now = 0 /\ mishaps = 0
    /\ at = [c \in OrderCalls |-> "idle"]
    /\ loaded = [c \in OrderCalls |-> NoOrder] /\ sent = [c \in UpdateCalls |-> 0]

\* The call goes on with what it has read of the row.
GoOn(c, place, row) ==
    /\ at' = [at EXCEPT ![c] = place]
    /\ loaded' = [loaded EXCEPT ![c] = row]

\* It has nothing more to do with the order; a sweep will come again.
Leave(c) == GoOn(c, IF c \in Sweeps THEN "idle" ELSE "done", NoOrder)

-----------------------------------------------------------------------------
\* A condition is [type, value]; with no price at hand every condition that looks
\* at one is false.
EvaluateSingleCondition(k) == k.type = "TIME_BASED" /\ now >= k.value

EvaluateSingleGroup(g) ==
    /\ g.conditions # {}
    /\ IF g.operator = "AND" THEN \A k \in g.conditions : EvaluateSingleCondition(k)
                             ELSE \E k \in g.conditions : EvaluateSingleCondition(k)

EvaluateConditionGroups(groups) == \E g \in groups : EvaluateSingleGroup(g)

-----------------------------------------------------------------------------
CreateOrder ==
    /\ order = NoOrder
    /\ \E groups \in Groupings \ {{}}, e \in 0..Never :
          order' = [status |-> "PENDING", conditions |-> groups, expiresAt |-> e, version |-> 1]
    /\ UNCHANGED <<outbox, fills, lockedBy, now, at, loaded, sent, mishaps>>

\* evaluateConditions lists the live orders ...
SweepReads(c) ==
    /\ at[c] = "idle" /\ order.status \in Live
    /\ GoOn(c, "evaluate", order)
    /\ UNCHANGED <<order, outbox, fills, lockedBy, now, sent, mishaps>>

\* ... and comes to this one, some time later, with the conditions it read.
SweepEvaluates(c) ==
    /\ at[c] = "evaluate"
    /\ IF EvaluateConditionGroups(loaded[c].conditions) THEN GoOn(c, "trigger", loaded[c]) ELSE Leave(c)
    /\ UNCHANGED <<order, outbox, fills, lockedBy, now, sent, mishaps>>

\* cancel and executeTriggeredOrder look the order up before the transaction.
LookUp(c) ==
    /\ at[c] = "idle" /\ order # NoOrder
    /\ GoOn(c, IF c \in CancelCalls THEN "cancel" ELSE "fill", NoOrder)
    /\ UNCHANGED <<order, outbox, fills, lockedBy, now, sent, mishaps>>

\* Mutant: findOne without the pessimistic_write lock.
LockAndCheckUnlocked(c) ==
    /\ at[c] \in Before
    /\ IF Target(at[c]) \in ALLOWED_ORDER_TRANSITIONS[order.status]
          THEN lockedBy' = c /\ GoOn(c, Inside(at[c]), order)
          ELSE Leave(c) /\ UNCHANGED lockedBy
    /\ UNCHANGED <<order, outbox, fills, now, sent, mishaps>>

\* findOne waits for the lock of the row, assertTransitionAllowed looks at what it
\* then reads; a conflict ends the transaction.
LockAndCheck(c) ==
    /\ at[c] \in Before /\ lockedBy = "nobody"
    /\ IF Target(at[c]) \in ALLOWED_ORDER_TRANSITIONS[order.status]
          THEN lockedBy' = c /\ GoOn(c, Inside(at[c]), order)
          ELSE Leave(c) /\ UNCHANGED lockedBy
    /\ UNCHANGED <<order, outbox, fills, now, sent, mishaps>>

\* Only the job goes on to fill what it has triggered; scheduledEvaluation does not.
AfterTrigger(c) == IF c \in JobRuns THEN GoOn(c, "fill", NoOrder) ELSE Leave(c)

\* save and outboxService.record commit together.
Commit(c) ==
    /\ at[c] \in {"triggering", "cancelling", "filling"}
    /\ LET s == Target(at[c])
       IN  /\ order' = [loaded[c] EXCEPT !.status = s, !.version = order.version + 1]
           /\ outbox' = outbox \cup {s}
           /\ fills' = IF s = "FILLED" THEN fills + 1 ELSE fills
           /\ IF s = "TRIGGERED" THEN AfterTrigger(c) ELSE Leave(c)
    /\ lockedBy' = "nobody"
    /\ UNCHANGED <<now, sent, mishaps>>

\* A query of the call fails or its process dies; a transaction is rolled back.
Interrupted(c) ==
    /\ at[c] \notin {"idle", "done"} /\ mishaps < MaxMishaps
    /\ Leave(c)
    /\ lockedBy' = IF lockedBy = c THEN "nobody" ELSE lockedBy
    /\ mishaps' = mishaps + 1
    /\ UNCHANGED <<order, outbox, fills, now, sent>>

-----------------------------------------------------------------------------
\* update: the status is checked on this read.  expectedVersion is what the client
\* sends, any number, or the version just read.
UpdateReads(c) ==
    /\ at[c] = "idle" /\ order # NoOrder
    /\ IF order.status \in Live
          THEN /\ GoOn(c, "apply", order)
               /\ \E v \in ClientVersions \cup {order.version} :
                     sent' = [sent EXCEPT ![c] = v]
          ELSE Leave(c) /\ UNCHANGED sent
    /\ UNCHANGED <<order, outbox, fills, lockedBy, now, mishaps>>

\* Mutant: the UPDATE has no version in its WHERE.
UpdateAppliesUnchecked(c) ==
    /\ at[c] = "apply" /\ lockedBy = "nobody"
    /\ \E groups \in Groupings, e \in {order.expiresAt} \cup Times :
          order' = [order EXCEPT !.conditions = groups, !.expiresAt = e, !.version = @ + 1]
    /\ Leave(c)
    /\ UNCHANGED <<outbox, fills, lockedBy, now, sent, mishaps>>

\* updateWithVersionCheck, one UPDATE that waits for the lock of the row.
UpdateApplies(c) ==
    /\ at[c] = "apply" /\ lockedBy = "nobody"
    /\ IF order.version = sent[c]
          THEN \E groups \in Groupings, e \in {order.expiresAt} \cup Times :
                  order' = [order EXCEPT !.conditions = groups, !.expiresAt = e, !.version = @ + 1]
          ELSE UNCHANGED order
    /\ Leave(c)
    /\ UNCHANGED <<outbox, fills, lockedBy, now, sent, mishaps>>

\* expireStaleOrders: one UPDATE as well.  It records no event.
ExpireStaleOrders ==
    /\ lockedBy = "nobody"
    /\ order.expiresAt <= now /\ order.status \in Live
    /\ order' = [order EXCEPT !.status = "EXPIRED", !.version = @ + 1]
    /\ UNCHANGED <<outbox, fills, lockedBy, now, at, loaded, sent, mishaps>>

\* The clock (external).
TimePasses ==
    /\ now < Horizon /\ now' = now + 1
    /\ UNCHANGED <<order, outbox, fills, lockedBy, at, loaded, sent, mishaps>>

SweepStep(c) == SweepReads(c) \/ SweepEvaluates(c)
OrderCallStep(c) == LockAndCheck(c) \/ Commit(c)

ConditionalNext ==
    \/ CreateOrder \/ ExpireStaleOrders \/ TimePasses
    \/ \E c \in Sweeps : SweepStep(c)
    \/ \E c \in CancelCalls \cup ExecuteCalls : LookUp(c)
    \/ \E c \in UpdateCalls : UpdateReads(c) \/ UpdateApplies(c)
    \/ \E c \in OrderCalls : OrderCallStep(c) \/ Interrupted(c)

ConditionalSpec == ConditionalInit /\ [][ConditionalNext]_conditionalVars

-----------------------------------------------------------------------------
(* Properties *)

\* "exactly one balance-affecting fill is ever applied": cancel, fill and expiry
\* exclude each other whatever order they run in, and the outbox says which of
\* them it was and whether the order was triggered first.
OneOutcome ==
    /\ fills = IF order.status = "FILLED" THEN 1 ELSE 0
    /\ ("FILLED" \in outbox) = (order.status = "FILLED")
    /\ ("CANCELLED" \in outbox) = (order.status = "CANCELLED")
    /\ order.status \in {"TRIGGERED", "FILLED"} => "TRIGGERED" \in outbox
    /\ order.status \in {"PENDING", "EXPIRED"} => outbox = {}

\* An update with a version that the order did not have yet when its status was
\* checked.
AppliesAhead(c) == loaded[c].version < sent[c] /\ UpdateApplies(c)

\* An order that has ended is not changed and the terms it was triggered on stay, an
\* update that read the order before being refused: unless the client sent a version
\* ahead of the one update() read.  A sweep triggers an order only on terms that are
\* met, unless an update was applied after the sweep read it.
TermsAreSettled ==
    [][/\ \/ order.status \in Terminal /\ order' # order
          \/ /\ order.status = "TRIGGERED"
             /\ <<order.conditions, order.expiresAt>> # <<order'.conditions, order'.expiresAt>>
          => \E c \in UpdateCalls : AppliesAhead(c)
       /\ \A c \in Sweeps :
             at[c] = "trigger" /\ at'[c] = "triggering" /\ loaded[c].version = order.version
                => EvaluateConditionGroups(order.conditions)]_conditionalVars
=============================================================================
